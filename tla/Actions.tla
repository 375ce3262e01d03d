------------------------------ MODULE Actions ------------------------------
(***************************************************************************)
(* From what the cameras see to the actions of a session: the proximity    *)
(* relations of hands and objects (relations.py), their fusion over the    *)
(* cameras (fusion.py), and the recognizers of pick and place              *)
(* (baseline_action.py), of tool use (tool_operation.py), of zone changes  *)
(* (zone_actions.py) and of dwelling (dwell_action.py), which the          *)
(* composite recognizer runs one after the other on every frame set.       *)
(*                                                                         *)
(* A look is what one camera sees of one object in one frame set: which    *)
(* hand is closest, and whether it is within the hold threshold, within    *)
(* the near threshold only, or away (or no hand is seen).  Objects are     *)
(* tools, and in one zone at a time at most.  The configuration of a       *)
(* session says which classes of objects the recognizers of zone changes   *)
(* and of dwelling are told of, each of its own.  Counters that the code   *)
(* only compares with a limit stop at that limit.                          *)
(*                                                                         *)
(* A definition named <Operator>_<Bug> is that operator with a plausible   *)
(* bug, and used by the mutation runs only.                                *)
(***************************************************************************)
EXTENDS Integers, FiniteSets, FiniteSetsExt

CONSTANTS Cameras, Objects, Wrists, Zones,
          WorkZones,     \* where tools are operated and inspected
          None,          \* no value yet
          Configurations, \* whom sessions may tell of zone changes and of dwelling
          Confidences,   \* the confidences observations come with
          MinConfidence, \* action_min_confidence, above 0, which is no relation
          HoldFrames,    \* looks before a relation is HELD_BY
          FreeFrames,    \* looks before a relation is FREE
          MinPath,       \* the path of a tool that is operated
          DwellFrames    \* frame sets in the zone before INSPECT

ASSUME CameraAssumption == IsFiniteSet(Cameras)
ASSUME ZoneAssumption == WorkZones \subseteq Zones
ASSUME ConfigurationAssumption ==
  Configurations \subseteq [zone : SUBSET Objects, inspect : SUBSET Objects]
ASSUME NoneAssumption ==
  None \notin Zones \cup Wrists /\ None \notin BOOLEAN /\ None \notin {"PICK", "PLACE"}
ASSUME ConfidenceAssumption ==
  Confidences \subseteq Nat \ {0} /\ MinConfidence \in Nat \ {0}
ASSUME LimitAssumption ==
  {HoldFrames, FreeFrames, MinPath, DwellFrames} \subseteq Nat \ {0}

VARIABLES
  classes, \* the objects in zone_entity_classes and in inspect_entity_classes
  holds,   \* _hold_counts, by camera, object and wrist
  frees,   \* _free_counts, by camera and object
  objects, \* PickPlaceActionRecognizer._objects
  tools,   \* ToolOperationRecognizer._states
  active,  \* ZoneTransitionRecognizer._active
  dwell,   \* DwellZoneActionRecognizer: _counts and _emitted
  actions, \* the actions of the last frame set
  close,   \* history: looks in a row with a hand at the object
  away,    \* history: looks in a row with no hand near it
  stream   \* history: what the actions so far say of the object

recognizers == <<objects, tools, active, dwell>>
vars == <<classes, holds, frees, recognizers, actions, close, away, stream>>

Looks == [reach : {"hold"}, by : Wrists]
           \cup [reach : {"near", "away", "unseen"}, by : {None}]
\* The zone an object is seen in, and whether surely; OutOfZones is none.
Spots == [zone : WorkZones, sure : BOOLEAN]
           \cup [zone : Zones \ WorkZones, sure : {TRUE}]
OutOfZones == [zone |-> None, sure |-> FALSE]
NoStay == [count |-> 0, emitted |-> FALSE]
Kinds == {"PICK", "PLACE", "OPERATE_TOOL", "ENTER_ZONE", "LEAVE_ZONE", "INSPECT"}

\* A session keeps its configuration; a recognizer that is off is told of none.
Init ==
  /\ classes \in Configurations
  /\ holds = [c \in Cameras |-> [o \in Objects |-> [w \in Wrists |-> 0]]]
  /\ frees = [c \in Cameras |-> [o \in Objects |-> 0]]
  /\ objects = [o \in Objects |-> None]
  /\ tools = [o \in Objects |-> [held |-> FALSE, zone |-> None, placed |-> FALSE,
                                 path |-> 0, emitted |-> FALSE]]
  /\ active = {}
  /\ dwell = [o \in Objects |-> [z \in WorkZones |-> NoStay]]
  /\ actions = {}
  /\ close = [c \in Cameras |-> [o \in Objects |-> 0]]
  /\ away = [c \in Cameras |-> [o \in Objects |-> 0]]
  /\ stream = [o \in Objects |-> [hand |-> None, operated |-> FALSE,
                                  inside |-> {}]]

UpTo(limit, n) == IF n < limit THEN n ELSE limit

(***************************************************************************)
(* Relations: a hand holds an object after HoldFrames looks, an object is  *)
(* free after FreeFrames.  A look at another hand does not reset the count *)
(* of the first, and a frame without the object changes nothing.           *)
(***************************************************************************)
\* Bug: a look from nearby does not reset the count.
Held_NearKeeps(look, counts) ==
  IF look.reach = "hold" THEN [counts EXCEPT ![look.by] = UpTo(HoldFrames, @ + 1)]
  ELSE IF look.reach \in {"unseen", "near"} THEN counts
  ELSE [w \in Wrists |-> 0]

Held(look, counts) ==
  IF look.reach = "hold" THEN [counts EXCEPT ![look.by] = UpTo(HoldFrames, @ + 1)]
  ELSE IF look.reach = "unseen" THEN counts
  ELSE [w \in Wrists |-> 0]

Freed(look, count) ==
  CASE look.reach = "away" -> UpTo(FreeFrames, count + 1)
    [] look.reach \in {"hold", "near"} -> 0
    [] look.reach = "unseen" -> count

\* Whether a look gives the relation HELD_BY, and FREE.
HeldBy(look, counts) ==
  look.reach = "hold" /\ Held(look, counts)[look.by] >= HoldFrames

FreeOf(look, count) ==
  look.reach = "away" /\ Freed(look, count) >= FreeFrames

\* Fusion keeps a relation at its strongest; 0 if there is none.
Strongest(S) == Max(S \cup {0})

(***************************************************************************)
(* Pick and place.  Weak facts do not count; a grip outweighs a release    *)
(* that is not surer than it.                                              *)
(***************************************************************************)
Gripped(held, free, before) ==
  IF held >= MinConfidence /\ (free < MinConfidence \/ held >= free) THEN TRUE
  ELSE IF free >= MinConfidence THEN FALSE
  ELSE before

\* Bug: an object that is still in the hand is picked again.
PickPlace_Again(before, after) ==
  IF before # None /\ after = TRUE THEN {"PICK"}
  ELSE IF before = TRUE /\ after = FALSE THEN {"PLACE"}
  ELSE {}

PickPlace(before, after) ==
  IF before = FALSE /\ after = TRUE THEN {"PICK"}
  ELSE IF before = TRUE /\ after = FALSE THEN {"PLACE"}
  ELSE {}

(***************************************************************************)
(* Tool use: a held tool that moves far enough in a work zone.  The zone a *)
(* tool was last seen in counts as the one it is in.  Its point is known   *)
(* whenever it is seen; moved is how far it is from the last point that    *)
(* counted.                                                                *)
(***************************************************************************)
\* Bug: a release does not count when another camera saw a grip.
Released_Outweighed(held, free) == free > 0 /\ held < MinConfidence

\* Any release starts over, however weak.
Released(held, free) == free > 0

Dropped(tool, zone) ==
  [held |-> FALSE, zone |-> zone, placed |-> FALSE, path |-> 0, emitted |-> FALSE]

Tracked(tool, held, free, spot, moved) ==
  LET zone == IF spot = OutOfZones THEN tool.zone ELSE spot.zone
      grip == tool.held \/ held >= MinConfidence
      path == UpTo(MinPath, tool.path + (IF tool.placed THEN moved ELSE 0))
  IN IF Released(held, free)
     THEN Dropped(tool, zone)
     ELSE IF grip /\ zone \in WorkZones
     THEN [held |-> TRUE, zone |-> zone, placed |-> TRUE, path |-> path,
           emitted |-> tool.emitted \/ path >= MinPath]
     ELSE [tool EXCEPT !.held = grip, !.zone = zone]

\* Bug: every frame set after the first emits it again.
Operates_Again(before, after) == after.emitted

Operates(before, after) == after.emitted /\ ~before.emitted

(***************************************************************************)
(* Zone changes and dwelling: the one believes every look, the other those *)
(* that are sure, and each looks at the classes it is told of.             *)
(***************************************************************************)
Inside(spots) ==
  {<<o, spots[o].zone>> : o \in {x \in classes.zone : spots[x] # OutOfZones}}

Stayed(spots, o, z) ==
  o \in classes.inspect /\ spots[o].zone = z /\ spots[o].sure

Dwelling(stay, here) ==
  IF ~here THEN NoStay
  ELSE LET count == UpTo(DwellFrames, stay.count + 1)
       IN [count |-> count, emitted |-> count >= DwellFrames]

(***************************************************************************)
(* A frame set: relations, fusion and the recognizers, one after another.  *)
(* look is what each camera sees of each object, confidence that of the    *)
(* relation it gives, spots where the object is seen, moved how far it is  *)
(* from the last point that counted.                                       *)
(***************************************************************************)
Seen(look, o) == \E c \in Cameras : look[c][o].reach # "unseen"

\* The actions of the composite recognizer, from the recognizers' states after
\* the frame set.
Action(kind, o, z) == [kind |-> kind, object |-> o, zone |-> z]

Happens(hand, tool, inside, stay) ==
  (UNION {{Action(kind, o, None) : kind \in PickPlace(objects[o], hand[o])} :
            o \in Objects})
    \cup {Action("OPERATE_TOOL", o, tool[o].zone) : o \in
           {x \in Objects : Operates(tools[x], tool[x])}}
    \cup {Action("ENTER_ZONE", e[1], e[2]) : e \in inside \ active}
    \cup {Action("LEAVE_ZONE", e[1], e[2]) : e \in active \ inside}
    \cup {Action("INSPECT", e[1], e[2]) : e \in
           {x \in Objects \X WorkZones : /\ stay[x[1]][x[2]].emitted
                                         /\ ~dwell[x[1]][x[2]].emitted}}

Streak(n, look, reach, limit) ==
  CASE look.reach = "unseen" -> n
    [] look.reach = reach -> UpTo(limit, n + 1)
    [] OTHER -> 0

\* History: what the stream of actions says of an object.
Told(said, o, did, released) ==
  LET kinds == {e.kind : e \in {a \in did : a.object = o}}
      zones(kind) == {e.zone : e \in {a \in did : a.object = o /\ a.kind = kind}}
  IN [hand |-> IF "PICK" \in kinds THEN "PICK"
               ELSE IF "PLACE" \in kinds THEN "PLACE" ELSE said.hand,
      operated |-> "OPERATE_TOOL" \in kinds \/ (said.operated /\ ~released),
      inside |-> (said.inside \ zones("LEAVE_ZONE")) \cup zones("ENTER_ZONE")]

\* What fusion makes of the cameras' relations of an object.
Grip(look, confidence, o) ==
  Strongest({confidence[c][o] :
               c \in {x \in Cameras : HeldBy(look[x][o], holds[x][o])}})

Release(look, confidence, o) ==
  Strongest({confidence[c][o] :
               c \in {x \in Cameras : FreeOf(look[x][o], frees[x][o])}})

Frame(look, confidence, spots, moved) ==
  LET grip(o) == Grip(look, confidence, o)
      free(o) == Release(look, confidence, o)
  IN
  /\ holds' = [c \in Cameras |-> [o \in Objects |-> Held(look[c][o], holds[c][o])]]
  /\ frees' = [c \in Cameras |-> [o \in Objects |-> Freed(look[c][o], frees[c][o])]]
  /\ objects' = [o \in Objects |-> Gripped(grip(o), free(o), objects[o])]
  /\ tools' = [o \in Objects |->
       IF Seen(look, o)
       THEN Tracked(tools[o], grip(o), free(o), spots[o], moved[o])
       ELSE tools[o]]
  /\ active' = Inside(spots)
  /\ dwell' = [o \in Objects |-> [z \in WorkZones |->
       Dwelling(dwell[o][z], Stayed(spots, o, z))]]
  /\ actions' = Happens(objects', tools', active', dwell')
  /\ close' = [c \in Cameras |-> [o \in Objects |->
       Streak(close[c][o], look[c][o], "hold", HoldFrames)]]
  /\ away' = [c \in Cameras |-> [o \in Objects |->
       Streak(away[c][o], look[c][o], "away", FreeFrames)]]
  /\ stream' = [o \in Objects |->
       Told(stream[o], o, actions',
            \E c \in Cameras : look[c][o].reach = "away" /\ away'[c][o] >= FreeFrames)]
  /\ UNCHANGED classes

\* Relations come with a confidence; it is left at 0 for looks without one.
Related(look, c, o) ==
  HeldBy(look[c][o], holds[c][o]) \/ FreeOf(look[c][o], frees[c][o])

Next ==
  \E look \in [Cameras -> [Objects -> Looks]] :
    \E confidence \in [Cameras -> [Objects -> Confidences \cup {0}]] :
      /\ \A c \in Cameras, o \in Objects :
           (confidence[c][o] = 0) <=> ~Related(look, c, o)
      /\ \E spots \in [Objects -> Spots \cup {OutOfZones}],
            moved \in [Objects -> {0, 1}] :
           /\ \A o \in Objects :
                /\ ~Seen(look, o) => spots[o] = OutOfZones /\ moved[o] = 0
                /\ ~tools[o].placed => moved[o] = 0
           /\ Frame(look, confidence, spots, moved)

Spec == Init /\ [][Next]_vars

(***************************************************************************)
(* Properties.                                                             *)
(***************************************************************************)
\* Every variable keeps its type; a tool that was operated has moved far enough.
TypeOK ==
  /\ classes \in Configurations
  /\ holds \in [Cameras -> [Objects -> [Wrists -> 0 .. HoldFrames]]]
  /\ frees \in [Cameras -> [Objects -> 0 .. FreeFrames]]
  /\ objects \in [Objects -> BOOLEAN \cup {None}]
  /\ tools \in [Objects -> [held : BOOLEAN, zone : Zones \cup {None},
                            placed : BOOLEAN, path : 0 .. MinPath,
                            emitted : BOOLEAN]]
  /\ \A o \in Objects : tools[o].emitted => tools[o].path >= MinPath
  /\ active \subseteq Objects \X Zones
  /\ dwell \in [Objects -> [WorkZones -> [count : 0 .. DwellFrames,
                                          emitted : BOOLEAN]]]
  /\ actions \subseteq [kind : Kinds, object : Objects, zone : Zones \cup {None}]

\* A single look never picks or places: some camera has seen the object in
\* reach of a hand, or away from all, in so many of its looks in a row.
Debounced ==
  \A a \in actions :
    /\ a.kind = "PICK" => \E c \in Cameras : close[c][a.object] >= HoldFrames
    /\ a.kind = "PLACE" => \E c \in Cameras : away[c][a.object] >= FreeFrames

\* Two recognizers that weigh the same relations differently agree on this: a
\* tool that is held is an object that is held.
ToolInHand == \A o \in Objects : tools[o].held => objects[o] = TRUE

\* A tool is operated once until a camera has seen it released.
OperatedOnce ==
  [][\A a \in actions' : a.kind = "OPERATE_TOOL" => ~stream[a.object].operated]_vars

\* What is told of an object makes sense in its order: it is picked and placed
\* in turns and never operated once placed, and it enters a zone and leaves it in
\* turns.  An object that both recognizers of zones are told of is inspected in
\* between (of one that is inspected only, no entry is told).
ActionsAlternate ==
  [][\A a \in actions' :
       LET said == stream[a.object]
           says == stream'[a.object]
       IN /\ a.kind = "PICK" => said.hand # "PICK"
          /\ a.kind = "PLACE" => said.hand # "PLACE"
          /\ a.kind = "OPERATE_TOOL" => says.hand # "PLACE"
          /\ a.kind = "ENTER_ZONE" => a.zone \notin said.inside
          /\ a.kind = "LEAVE_ZONE" => a.zone \in said.inside
          /\ a.kind = "INSPECT" /\ a.object \in classes.zone => a.zone \in says.inside]_vars
=============================================================================
