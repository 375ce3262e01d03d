--------------------------- MODULE Actions_proofs ---------------------------
(***************************************************************************)
(* Proofs about the action recognizers, for any finite set of cameras, any *)
(* objects, hands, zones and limits: the types (ActionTypes), that no      *)
(* single look makes an action (NoFlicker), that the recognizers agree on  *)
(* what is held (HeldToolIsHeld), and that the actions told of an object   *)
(* make sense in their order (OneOperation, ActionsTakeTurns).             *)
(*                                                                         *)
(* ActionsInv carries all: counters stay below what the cameras have seen  *)
(* in a row (Streaks), and what was told of an object is what the          *)
(* recognizers remember of it (Story).                                     *)
(***************************************************************************)
EXTENDS Actions, FiniteSetTheorems, TLAPS

(***************************************************************************)
(* The strongest relation.                                                 *)
(***************************************************************************)
\* A finite set of numbers has a greatest: of its subsets without one, a
\* smallest would get one from what is left when any member is taken away.
LEMMA GreatestOf ==
  ASSUME NEW S \in SUBSET Nat, IsFiniteSet(S), S # {}
  PROVE  \E m \in S : \A k \in S : k <= m
<1> DEFINE Topped(A) == \E m \in A : \A k \in A : k <= m
           T == {A \in SUBSET S : A # {} /\ ~Topped(A)}
           R == StrictSubsetOrdering(S)
<1>1. SUFFICES ASSUME ~Topped(S) PROVE FALSE
  OBVIOUS
<1>2. S \in T
  BY <1>1
<1>3. T \subseteq FiniteSubsetsOf(S)
  BY FS_FiniteSubsetsOfFinite
<1>4. PICK A \in T : \A B \in T : ~ (<<B, A>> \in R)
  BY <1>2, <1>3, WFMin, FS_StrictSubsetOrderingWellFounded
<1>5. PICK x \in A : TRUE
  OBVIOUS
<1>6. A \ {x} \notin T
  <2>1. <<A \ {x}, A>> \in R
    BY <1>5 DEF StrictSubsetOrdering
  <2> QED BY <1>4, <2>1
<1>7. CASE A \ {x} = {}
  <2>1. A = {x} /\ x \in Nat
    BY <1>5, <1>7
  <2>2. Topped(A)
    BY <2>1
  <2> QED BY <2>2
<1>8. CASE Topped(A \ {x})
  <2>1. PICK m \in A \ {x} : \A k \in A \ {x} : k <= m
    BY <1>8
  <2>2. \A k \in A : k \in Nat
    OBVIOUS
  <2>3. CASE x <= m
    <3>1. \A k \in A : k <= m
      BY <2>1, <2>3
    <3> QED BY <2>1, <3>1
  <2>4. CASE ~(x <= m)
    <3>1. \A k \in A : k <= x
      BY <1>5, <2>1, <2>2, <2>4
    <3> QED BY <1>5, <3>1
  <2> QED BY <2>3, <2>4
<1> QED BY <1>6, <1>7, <1>8

LEMMA StrongestIs ==
  ASSUME NEW S \in SUBSET Nat, IsFiniteSet(S)
  PROVE  /\ Strongest(S) \in S \cup {0}
         /\ \A k \in S \cup {0} : k <= Strongest(S)
<1>1. IsFiniteSet(S \cup {0})
  BY FS_AddElement
<1>2. \E m \in S \cup {0} : \A k \in S \cup {0} : k <= m
  BY <1>1, GreatestOf
<1>3. \E m \in S \cup {0} : \A k \in S \cup {0} : m >= k
  BY <1>2
<1>4. /\ Strongest(S) \in S \cup {0}
      /\ \A k \in S \cup {0} : Strongest(S) >= k
  BY <1>3 DEF Strongest, Max
<1> QED BY <1>4

\* What a frame set may bring.
Input(look, confidence, spots, moved) ==
  /\ look \in [Cameras -> [Objects -> Looks]]
  /\ confidence \in [Cameras -> [Objects -> Confidences \cup {0}]]
  /\ \A c \in Cameras, o \in Objects :
       (confidence[c][o] = 0) <=> ~Related(look, c, o)
  /\ spots \in [Objects -> Spots \cup {OutOfZones}]
  /\ moved \in [Objects -> {0, 1}]
  /\ \A o \in Objects :
       /\ ~Seen(look, o) => spots[o] = OutOfZones /\ moved[o] = 0
       /\ ~tools[o].placed => moved[o] = 0

LEMMA StrongestRelation ==
  ASSUME NEW f \in [Cameras -> Nat], NEW C \in SUBSET Cameras
  PROVE  /\ Strongest({f[c] : c \in C}) \in Nat
         /\ Strongest({f[c] : c \in C}) > 0 => C # {}
         /\ (\E c \in C : f[c] # 0) => Strongest({f[c] : c \in C}) > 0
<1> DEFINE S == {f[c] : c \in C}
           g == [c \in C |-> f[c]]
<1>1. IsFiniteSet(C)
  BY CameraAssumption, FS_Subset
<1>2. g \in Surjection(C, S)
  BY DEF Surjection
<1>3. IsFiniteSet(S)
  BY <1>1, <1>2, FS_Surjection
<1>4. S \in SUBSET Nat
  OBVIOUS
<1> HIDE DEF S
<1>5. Strongest(S) \in S \cup {0} /\ \A k \in S \cup {0} : k <= Strongest(S)
  BY <1>3, <1>4, StrongestIs
<1> QED BY <1>4, <1>5 DEF S

\* Fusion gives a relation its number, above 0 if and only if a camera has it.
LEMMA Fused ==
  ASSUME NEW look, NEW confidence, NEW spots, NEW moved,
         Input(look, confidence, spots, moved), NEW o \in Objects
  PROVE  /\ Grip(look, confidence, o) \in Nat
         /\ Release(look, confidence, o) \in Nat
         /\ Grip(look, confidence, o) > 0 <=>
              \E c \in Cameras : HeldBy(look[c][o], holds[c][o])
         /\ Release(look, confidence, o) > 0 <=>
              \E c \in Cameras : FreeOf(look[c][o], frees[c][o])
<1> DEFINE f == [c \in Cameras |-> confidence[c][o]]
           H == {x \in Cameras : HeldBy(look[x][o], holds[x][o])}
           F == {x \in Cameras : FreeOf(look[x][o], frees[x][o])}
<1>1. \A c \in Cameras : confidence[c][o] \in Nat
  <2>1. confidence \in [Cameras -> [Objects -> Confidences \cup {0}]]
    BY DEF Input
  <2>2. \A c \in Cameras : confidence[c][o] \in Confidences \cup {0}
    BY <2>1
  <2>3. \A x \in Confidences : x \in Nat
    BY ConfidenceAssumption
  <2> QED BY <2>2, <2>3
<1>2. f \in [Cameras -> Nat]
  BY <1>1
<1>3. /\ Grip(look, confidence, o) = Strongest({f[c] : c \in H})
      /\ Release(look, confidence, o) = Strongest({f[c] : c \in F})
  BY DEF Grip, Release
<1>4. \A c \in H \cup F : f[c] # 0
  BY DEF Input, Related
<1>5. H \in SUBSET Cameras /\ F \in SUBSET Cameras
  OBVIOUS
<1> HIDE DEF f, H, F
<1>6. /\ Strongest({f[c] : c \in H}) \in Nat
      /\ Strongest({f[c] : c \in H}) > 0 <=> H # {}
  BY <1>2, <1>4, <1>5, StrongestRelation
<1>7. /\ Strongest({f[c] : c \in F}) \in Nat
      /\ Strongest({f[c] : c \in F}) > 0 <=> F # {}
  BY <1>2, <1>4, <1>5, StrongestRelation
<1> QED BY <1>3, <1>6, <1>7 DEF H, F

LEMMA NextIs ==
  Next <=> \E look, confidence, spots, moved :
             Input(look, confidence, spots, moved)
               /\ Frame(look, confidence, spots, moved)
BY DEF Next, Input

(***************************************************************************)
(* Types.                                                                  *)
(***************************************************************************)
Tools == [held : BOOLEAN, zone : Zones \cup {None}, placed : BOOLEAN,
          path : 0 .. MinPath, emitted : BOOLEAN]
Stays == [count : 0 .. DwellFrames, emitted : BOOLEAN]

LEMMA UpToIs ==
  ASSUME NEW limit \in Nat, NEW n \in Nat
  PROVE  /\ UpTo(limit, n) \in 0 .. limit
         /\ n >= limit => UpTo(limit, n) = limit
         /\ n <= limit => UpTo(limit, n) = n
BY DEF UpTo

LEMMA LimitsAre ==
  /\ HoldFrames \in Nat /\ HoldFrames > 0 /\ FreeFrames \in Nat /\ FreeFrames > 0
  /\ MinPath \in Nat /\ MinPath > 0 /\ DwellFrames \in Nat /\ DwellFrames > 0
BY LimitAssumption

LEMMA HeldTyped ==
  ASSUME NEW look \in Looks, NEW counts \in [Wrists -> 0 .. HoldFrames]
  PROVE  Held(look, counts) \in [Wrists -> 0 .. HoldFrames]
<1>1. \A w \in Wrists : UpTo(HoldFrames, counts[w] + 1) \in 0 .. HoldFrames
  BY UpToIs, LimitsAre
<1>2. 0 \in 0 .. HoldFrames
  BY LimitsAre
<1> QED BY <1>1, <1>2 DEF Held, Looks

LEMMA FreedTyped ==
  ASSUME NEW look \in Looks, NEW count \in 0 .. FreeFrames
  PROVE  Freed(look, count) \in 0 .. FreeFrames
<1>1. UpTo(FreeFrames, count + 1) \in 0 .. FreeFrames
  BY UpToIs, LimitsAre
<1>2. 0 \in 0 .. FreeFrames
  BY LimitsAre
<1>3. look.reach \in {"hold", "near", "away", "unseen"}
  BY DEF Looks
<1>4. CASE look.reach = "away"
  BY <1>1, <1>4 DEF Freed
<1>5. CASE look.reach \in {"hold", "near"}
  BY <1>2, <1>5 DEF Freed
<1>6. CASE look.reach = "unseen"
  BY <1>6 DEF Freed
<1> QED BY <1>3, <1>4, <1>5, <1>6

\* What the tool recognizer makes of a tool, by what counts.
LEMMA TrackedIs ==
  ASSUME NEW tool \in Tools, NEW grip, NEW free, NEW spot \in Spots \cup {OutOfZones},
         NEW moved \in {0, 1}, tool.emitted => tool.path >= MinPath
  PROVE  LET next == Tracked(tool, grip, free, spot, moved)
         IN  /\ next \in Tools
             /\ next.emitted => next.path >= MinPath
             /\ free > 0 => ~next.held /\ ~next.emitted
             /\ ~(free > 0) => /\ next.held => tool.held \/ grip >= MinConfidence
                               /\ tool.emitted => next.emitted
                               /\ next.emitted => tool.emitted \/ next.held
<1> DEFINE zone == IF spot = OutOfZones THEN tool.zone ELSE spot.zone
           held == tool.held \/ grip >= MinConfidence
           path == UpTo(MinPath, tool.path + (IF tool.placed THEN moved ELSE 0))
           next == Tracked(tool, grip, free, spot, moved)
<1>1. zone \in Zones \cup {None}
  <2>1. spot # OutOfZones => spot.zone \in Zones
    BY ZoneAssumption DEF Spots
  <2> QED BY <2>1 DEF Tools
<1>2. path \in 0 .. MinPath
  BY UpToIs, LimitsAre DEF Tools
<1>3. tool.path >= MinPath => path >= MinPath
  BY LimitsAre DEF Tools, UpTo
<1>4. held \in BOOLEAN
  BY DEF Tools
<1> HIDE DEF zone, held, path
<1>5. CASE free > 0
  <2>1. next = [held |-> FALSE, zone |-> zone, placed |-> FALSE, path |-> 0,
                emitted |-> FALSE]
    BY <1>5 DEF Tracked, Released, Dropped, zone
  <2> QED BY <1>1, <1>5, <2>1, LimitsAre DEF Tools
<1>6. CASE ~(free > 0) /\ held /\ zone \in WorkZones
  <2>1. next = [held |-> TRUE, zone |-> zone, placed |-> TRUE, path |-> path,
                emitted |-> tool.emitted \/ path >= MinPath]
    BY <1>6 DEF Tracked, Released, zone, held, path
  <2>2. held => tool.held \/ grip >= MinConfidence
    BY DEF held
  <2>3. next \in Tools
    BY <1>1, <1>2, <2>1 DEF Tools
  <2> HIDE DEF next
  <2>4. /\ next.held /\ next.path = path
        /\ next.emitted <=> tool.emitted \/ path >= MinPath
    BY <2>1
  <2> QED BY <1>3, <1>6, <2>2, <2>3, <2>4 DEF next
<1>7. CASE ~(free > 0) /\ ~(held /\ zone \in WorkZones)
  <2>1. next = [tool EXCEPT !.held = held, !.zone = zone]
    BY <1>7 DEF Tracked, Released, zone, held
  <2>2. held => tool.held \/ grip >= MinConfidence
    BY DEF held
  <2>3. next \in Tools
    BY <1>1, <1>4, <2>1 DEF Tools
  <2>4. next.held = held /\ next.emitted = tool.emitted /\ next.path = tool.path
    BY <2>1 DEF Tools
  <2> QED BY <1>7, <2>2, <2>3, <2>4
<1> QED BY <1>5, <1>6, <1>7

LEMMA DwellingTyped ==
  ASSUME NEW stay \in Stays, NEW here
  PROVE  Dwelling(stay, here) \in Stays
<1>1. UpTo(DwellFrames, stay.count + 1) \in 0 .. DwellFrames
  BY UpToIs, LimitsAre DEF Stays
<1>2. 0 \in 0 .. DwellFrames
  BY LimitsAre
<1> QED BY <1>1, <1>2 DEF Dwelling, Stays, NoStay

LEMMA TypesInit == Init => TypeOK
<1> SUFFICES ASSUME Init PROVE TypeOK
  OBVIOUS
<1>1. holds \in [Cameras -> [Objects -> [Wrists -> 0 .. HoldFrames]]]
  BY LimitsAre DEF Init
<1>2. frees \in [Cameras -> [Objects -> 0 .. FreeFrames]]
  BY LimitsAre DEF Init
<1>3. tools \in [Objects -> Tools]
  BY LimitsAre DEF Init, Tools
<1>4. \A o \in Objects : ~tools[o].emitted
  BY DEF Init
<1>5. dwell \in [Objects -> [WorkZones -> Stays]]
  BY LimitsAre DEF Init, NoStay, Stays
<1>6. /\ objects \in [Objects -> BOOLEAN \cup {None}] /\ active = {} /\ actions = {}
      /\ classes \in Configurations
  BY DEF Init
<1> QED BY <1>1, <1>2, <1>3, <1>4, <1>5, <1>6 DEF TypeOK, Tools, Stays

LEMMA InsideTyped ==
  ASSUME NEW spots \in [Objects -> Spots \cup {OutOfZones}], classes \in Configurations
  PROVE  /\ Inside(spots) \subseteq Objects \X Zones
         /\ \A o \in Objects, z \in Zones :
              <<o, z>> \in Inside(spots) <=> o \in classes.zone /\ spots[o].zone = z
<1>1. \A o \in Objects : spots[o] # OutOfZones => spots[o].zone \in Zones
  BY ZoneAssumption DEF Spots
<1>2. \A o \in Objects : spots[o] = OutOfZones => spots[o].zone \notin Zones
  BY NoneAssumption DEF OutOfZones
<1>3. classes.zone \in SUBSET Objects
  BY ConfigurationAssumption
<1> QED BY <1>1, <1>2, <1>3 DEF Inside

LEMMA HappensTyped ==
  ASSUME TypeOK, NEW hand, NEW tool \in [Objects -> Tools],
         NEW inside \in SUBSET (Objects \X Zones), NEW stay
  PROVE  Happens(hand, tool, inside, stay)
           \subseteq [kind : Kinds, object : Objects, zone : Zones \cup {None}]
<1> DEFINE All == [kind : Kinds, object : Objects, zone : Zones \cup {None}]
<1>1. \A o \in Objects, kind \in {"PICK", "PLACE"} : Action(kind, o, None) \in All
  BY DEF Action, Kinds
<1>2. \A o \in Objects : Action("OPERATE_TOOL", o, tool[o].zone) \in All
  BY DEF Action, Kinds, Tools
<1>3. \A e \in Objects \X Zones, kind \in {"ENTER_ZONE", "LEAVE_ZONE", "INSPECT"} :
        Action(kind, e[1], e[2]) \in All
  BY DEF Action, Kinds
<1>4. \A o \in Objects : PickPlace(objects[o], hand[o]) \subseteq {"PICK", "PLACE"}
  BY DEF PickPlace
<1>5. active \subseteq Objects \X Zones /\ Objects \X WorkZones \subseteq Objects \X Zones
  BY ZoneAssumption DEF TypeOK
<1> DEFINE Hand == UNION {{Action(kind, o, None) : kind \in PickPlace(objects[o], hand[o])} :
                             o \in Objects}
           Use == {Action("OPERATE_TOOL", o, tool[o].zone) : o \in
                     {x \in Objects : Operates(tools[x], tool[x])}}
           Enter == {Action("ENTER_ZONE", e[1], e[2]) : e \in inside \ active}
           Leave == {Action("LEAVE_ZONE", e[1], e[2]) : e \in active \ inside}
           Look == {Action("INSPECT", e[1], e[2]) : e \in
                      {x \in Objects \X WorkZones : /\ stay[x[1]][x[2]].emitted
                                                    /\ ~dwell[x[1]][x[2]].emitted}}
<1>6. Hand \subseteq All
  BY <1>1, <1>4
<1>7. Use \subseteq All
  BY <1>2
<1>8. Enter \subseteq All
  BY <1>3
<1>9. Leave \subseteq All
  BY <1>3, <1>5
<1>10. Look \subseteq All
  BY <1>3, <1>5
<1>11. Happens(hand, tool, inside, stay) = Hand \cup Use \cup Enter \cup Leave \cup Look
  BY DEF Happens
<1> HIDE DEF All, Hand, Use, Enter, Leave, Look
<1>12. Happens(hand, tool, inside, stay) \subseteq All
  BY <1>6, <1>7, <1>8, <1>9, <1>10, <1>11
<1> QED BY <1>12 DEF All

LEMMA TypesStep == TypeOK /\ [Next]_vars => TypeOK'
<1> SUFFICES ASSUME TypeOK, Next PROVE TypeOK'
  BY DEF TypeOK, vars, recognizers
<1>1. PICK look, confidence, spots, moved :
        Input(look, confidence, spots, moved) /\ Frame(look, confidence, spots, moved)
  BY NextIs
<1>2. /\ look \in [Cameras -> [Objects -> Looks]]
      /\ spots \in [Objects -> Spots \cup {OutOfZones}]
      /\ moved \in [Objects -> {0, 1}]
  BY <1>1 DEF Input
<1>3. holds' \in [Cameras -> [Objects -> [Wrists -> 0 .. HoldFrames]]]
  <2>1. \A c \in Cameras, o \in Objects :
          look[c][o] \in Looks /\ holds[c][o] \in [Wrists -> 0 .. HoldFrames]
    BY <1>2 DEF TypeOK
  <2>2. \A c \in Cameras, o \in Objects :
          Held(look[c][o], holds[c][o]) \in [Wrists -> 0 .. HoldFrames]
    BY <2>1, HeldTyped
  <2> QED BY <1>1, <2>2 DEF Frame
<1>4. frees' \in [Cameras -> [Objects -> 0 .. FreeFrames]]
  <2>1. \A c \in Cameras, o \in Objects :
          Freed(look[c][o], frees[c][o]) \in 0 .. FreeFrames
    BY <1>2, FreedTyped DEF TypeOK
  <2> QED BY <1>1, <2>1 DEF Frame
<1>5. objects' \in [Objects -> BOOLEAN \cup {None}]
  <2>1. \A o \in Objects : Gripped(Grip(look, confidence, o),
                                   Release(look, confidence, o), objects[o])
                             \in BOOLEAN \cup {None}
    BY DEF Gripped, TypeOK
  <2> QED BY <1>1, <2>1 DEF Frame
<1>6. tools' \in [Objects -> Tools] /\ \A o \in Objects :
        tools'[o].emitted => tools'[o].path >= MinPath
  <2>1. tools \in [Objects -> Tools] /\ \A o \in Objects :
          tools[o].emitted => tools[o].path >= MinPath
    BY DEF TypeOK, Tools
  <2>2. \A o \in Objects :
          LET next == Tracked(tools[o], Grip(look, confidence, o),
                              Release(look, confidence, o), spots[o], moved[o])
          IN  next \in Tools /\ (next.emitted => next.path >= MinPath)
    BY <1>2, <2>1, TrackedIs
  <2> QED BY <1>1, <2>1, <2>2 DEF Frame
<1>7. active' \subseteq Objects \X Zones
  BY <1>1, <1>2, InsideTyped DEF Frame, TypeOK
<1>8. dwell' \in [Objects -> [WorkZones -> Stays]]
  <2>1. dwell \in [Objects -> [WorkZones -> Stays]]
    BY DEF TypeOK, Stays
  <2>2. \A o \in Objects, z \in WorkZones :
          Dwelling(dwell[o][z], Stayed(spots, o, z)) \in Stays
    BY <2>1, DwellingTyped
  <2> QED BY <1>1, <2>2 DEF Frame
<1>9. actions' \subseteq [kind : Kinds, object : Objects, zone : Zones \cup {None}]
  <2>1. actions' = Happens(objects', tools', active', dwell')
    BY <1>1 DEF Frame
  <2> QED BY <1>6, <1>7, <2>1, HappensTyped
<1>10. (classes \in Configurations)'
  BY <1>1 DEF Frame, TypeOK
<1> QED BY <1>3, <1>4, <1>5, <1>6, <1>7, <1>8, <1>9, <1>10 DEF TypeOK, Tools, Stays

(***************************************************************************)
(* The actions of a frame set, told by what changed.                       *)
(***************************************************************************)
LEMMA HappensIs ==
  ASSUME TypeOK, NEW hand, NEW tool \in [Objects -> Tools],
         NEW inside \in SUBSET (Objects \X Zones), NEW stay,
         NEW a \in Happens(hand, tool, inside, stay)
  PROVE  /\ a.object \in Objects
         /\ a.kind = "PICK" => objects[a.object] = FALSE /\ hand[a.object] = TRUE
         /\ a.kind = "PLACE" => objects[a.object] = TRUE /\ hand[a.object] = FALSE
         /\ a.kind = "OPERATE_TOOL" => Operates(tools[a.object], tool[a.object])
         /\ a.kind = "ENTER_ZONE" => <<a.object, a.zone>> \in inside \ active
         /\ a.kind = "LEAVE_ZONE" => <<a.object, a.zone>> \in active \ inside
         /\ a.kind = "INSPECT" => /\ a.zone \in WorkZones
                                  /\ stay[a.object][a.zone].emitted
<1>0. active \subseteq Objects \X Zones
  BY DEF TypeOK
<1>1. CASE \E o \in Objects : \E kind \in PickPlace(objects[o], hand[o]) :
             a = Action(kind, o, None)
  <2>0. PICK o \in Objects : \E kind \in PickPlace(objects[o], hand[o]) :
               a = Action(kind, o, None)
    BY <1>1
  <2>1. PICK kind \in PickPlace(objects[o], hand[o]) : a = Action(kind, o, None)
    BY <2>0
  <2>2. a.object = o /\ a.kind = kind
    BY <2>1 DEF Action
  <2>3. \/ kind = "PICK" /\ objects[o] = FALSE /\ hand[o] = TRUE
        \/ kind = "PLACE" /\ objects[o] = TRUE /\ hand[o] = FALSE
    BY DEF PickPlace
  <2> QED BY <2>2, <2>3
<1>2. CASE \E o \in Objects : /\ Operates(tools[o], tool[o])
                               /\ a = Action("OPERATE_TOOL", o, tool[o].zone)
  BY <1>2 DEF Action
<1>3. CASE \E e \in inside \ active : a = Action("ENTER_ZONE", e[1], e[2])
  <2>1. PICK e \in inside \ active : a = Action("ENTER_ZONE", e[1], e[2])
    BY <1>3
  <2>2. a.object = e[1] /\ a.kind = "ENTER_ZONE" /\ a.zone = e[2]
    BY <2>1 DEF Action
  <2>3. e = <<e[1], e[2]>> /\ e[1] \in Objects
    OBVIOUS
  <2> QED BY <2>2, <2>3
<1>4. CASE \E e \in active \ inside : a = Action("LEAVE_ZONE", e[1], e[2])
  <2>1. PICK e \in active \ inside : a = Action("LEAVE_ZONE", e[1], e[2])
    BY <1>4
  <2>2. a.object = e[1] /\ a.kind = "LEAVE_ZONE" /\ a.zone = e[2]
    BY <2>1 DEF Action
  <2>3. e = <<e[1], e[2]>> /\ e[1] \in Objects
    BY <1>0
  <2> QED BY <2>2, <2>3
<1>5. CASE \E e \in Objects \X WorkZones : /\ stay[e[1]][e[2]].emitted
                                            /\ a = Action("INSPECT", e[1], e[2])
  BY <1>5 DEF Action
<1> QED BY <1>1, <1>2, <1>3, <1>4, <1>5 DEF Happens

LEMMA HappensWhen ==
  ASSUME TypeOK, NEW hand, NEW tool, NEW inside, NEW stay,
         NEW o \in Objects
  PROVE  LET did == Happens(hand, tool, inside, stay)
         IN  /\ objects[o] = FALSE /\ hand[o] = TRUE => Action("PICK", o, None) \in did
             /\ objects[o] = TRUE /\ hand[o] = FALSE => Action("PLACE", o, None) \in did
             /\ Operates(tools[o], tool[o]) =>
                  Action("OPERATE_TOOL", o, tool[o].zone) \in did
             /\ \A z \in Zones :
                  /\ <<o, z>> \in inside \ active => Action("ENTER_ZONE", o, z) \in did
                  /\ <<o, z>> \in active \ inside => Action("LEAVE_ZONE", o, z) \in did
<1> DEFINE did == Happens(hand, tool, inside, stay)
<1>1. \A kind \in PickPlace(objects[o], hand[o]) : Action(kind, o, None) \in did
  BY DEF Happens
<1>2. Operates(tools[o], tool[o]) => Action("OPERATE_TOOL", o, tool[o].zone) \in did
  BY DEF Happens
<1>3. \A e \in inside \ active : Action("ENTER_ZONE", e[1], e[2]) \in did
  BY DEF Happens
<1>4. \A e \in active \ inside : Action("LEAVE_ZONE", e[1], e[2]) \in did
  BY DEF Happens
<1>5. \A z \in Zones : <<o, z>>[1] = o /\ <<o, z>>[2] = z
  OBVIOUS
<1> HIDE DEF did
<1>6. objects[o] = FALSE /\ hand[o] = TRUE => Action("PICK", o, None) \in did
  BY <1>1 DEF PickPlace
<1>7. objects[o] = TRUE /\ hand[o] = FALSE => Action("PLACE", o, None) \in did
  BY <1>1 DEF PickPlace
<1>8. \A z \in Zones : <<o, z>> \in inside \ active => Action("ENTER_ZONE", o, z) \in did
  BY <1>3, <1>5
<1>9. \A z \in Zones : <<o, z>> \in active \ inside => Action("LEAVE_ZONE", o, z) \in did
  BY <1>4, <1>5
<1> QED BY <1>2, <1>6, <1>7, <1>8, <1>9 DEF did

LEMMA PickPlaceIs ==
  ASSUME NEW before, NEW after
  PROVE  /\ "PICK" \in PickPlace(before, after) <=> before = FALSE /\ after = TRUE
         /\ "PLACE" \in PickPlace(before, after) <=> before = TRUE /\ after = FALSE
BY DEF PickPlace

\* What is told of an object, from what changed.
LEMMA ToldIs ==
  ASSUME TypeOK, NEW hand, NEW tool \in [Objects -> Tools],
         NEW inside \in SUBSET (Objects \X Zones), NEW stay,
         NEW o \in Objects, NEW said, NEW released, NEW says,
         says = Told(said, o, Happens(hand, tool, inside, stay), released)
  PROVE  /\ says.hand = IF "PICK" \in PickPlace(objects[o], hand[o]) THEN "PICK"
                        ELSE IF "PLACE" \in PickPlace(objects[o], hand[o]) THEN "PLACE"
                        ELSE said.hand
         /\ says.operated <=> \/ Operates(tools[o], tool[o])
                              \/ said.operated /\ ~released
         /\ \A z \in Zones : z \in says.inside <=>
              \/ z \in said.inside /\ <<o, z>> \notin active \ inside
              \/ <<o, z>> \in inside \ active
<1> DEFINE did == Happens(hand, tool, inside, stay)
           kinds == {e.kind : e \in {a \in did : a.object = o}}
           zones(kind) == {e.zone : e \in {a \in did : a.object = o /\ a.kind = kind}}
<1>1. /\ "PICK" \in kinds <=> objects[o] = FALSE /\ hand[o] = TRUE
      /\ "PLACE" \in kinds <=> objects[o] = TRUE /\ hand[o] = FALSE
      /\ "OPERATE_TOOL" \in kinds <=> Operates(tools[o], tool[o])
  <2>1. \A kind, z : /\ Action(kind, o, z).kind = kind
                     /\ Action(kind, o, z).object = o
    BY DEF Action
  <2> HIDE DEF did
  <2>2. \A e \in did : e.object = o => e.kind \in kinds
    OBVIOUS
  <2>3. \A kind \in kinds : \E a \in did : a.object = o /\ a.kind = kind
    OBVIOUS
  <2> HIDE DEF kinds
  <2>4. objects[o] = FALSE /\ hand[o] = TRUE => "PICK" \in kinds
    <3>1. objects[o] = FALSE /\ hand[o] = TRUE => Action("PICK", o, None) \in did
      BY HappensWhen DEF did
    <3> QED BY <2>1, <2>2, <3>1
  <2>5. objects[o] = TRUE /\ hand[o] = FALSE => "PLACE" \in kinds
    <3>1. objects[o] = TRUE /\ hand[o] = FALSE => Action("PLACE", o, None) \in did
      BY HappensWhen DEF did
    <3> QED BY <2>1, <2>2, <3>1
  <2>6. Operates(tools[o], tool[o]) => "OPERATE_TOOL" \in kinds
    <3>1. Operates(tools[o], tool[o]) => Action("OPERATE_TOOL", o, tool[o].zone) \in did
      BY DEF did, Happens
    <3> QED BY <2>1, <2>2, <3>1
  <2>7. \A a \in did :
          /\ a.kind = "PICK" => objects[a.object] = FALSE /\ hand[a.object] = TRUE
          /\ a.kind = "PLACE" => objects[a.object] = TRUE /\ hand[a.object] = FALSE
          /\ a.kind = "OPERATE_TOOL" => Operates(tools[a.object], tool[a.object])
    BY HappensIs DEF did
  <2> QED BY <2>3, <2>4, <2>5, <2>6, <2>7
<1>2. \A z \in Zones : /\ z \in zones("ENTER_ZONE") <=> <<o, z>> \in inside \ active
                       /\ z \in zones("LEAVE_ZONE") <=> <<o, z>> \in active \ inside
  <2> SUFFICES ASSUME NEW z \in Zones
               PROVE  /\ z \in zones("ENTER_ZONE") <=> <<o, z>> \in inside \ active
                      /\ z \in zones("LEAVE_ZONE") <=> <<o, z>> \in active \ inside
    OBVIOUS
  <2>1. \A kind : /\ Action(kind, o, z).kind = kind
                  /\ Action(kind, o, z).object = o
                  /\ Action(kind, o, z).zone = z
    BY DEF Action
  <2> HIDE DEF did
  <2>2. /\ Action("ENTER_ZONE", o, z) \in did => z \in zones("ENTER_ZONE")
        /\ Action("LEAVE_ZONE", o, z) \in did => z \in zones("LEAVE_ZONE")
    BY <2>1
  <2>3. /\ <<o, z>> \in inside \ active => Action("ENTER_ZONE", o, z) \in did
        /\ <<o, z>> \in active \ inside => Action("LEAVE_ZONE", o, z) \in did
    BY HappensWhen DEF did
  <2>4. \A a \in did :
          /\ a.kind = "ENTER_ZONE" => <<a.object, a.zone>> \in inside \ active
          /\ a.kind = "LEAVE_ZONE" => <<a.object, a.zone>> \in active \ inside
    BY HappensIs DEF did
  <2>5. /\ z \in zones("ENTER_ZONE") => <<o, z>> \in inside \ active
        /\ z \in zones("LEAVE_ZONE") => <<o, z>> \in active \ inside
    BY <2>4
  <2> QED BY <2>2, <2>3, <2>5
<1>3. says = [hand |-> IF "PICK" \in kinds THEN "PICK"
                       ELSE IF "PLACE" \in kinds THEN "PLACE" ELSE said.hand,
              operated |-> "OPERATE_TOOL" \in kinds \/ (said.operated /\ ~released),
              inside |-> (said.inside \ zones("LEAVE_ZONE")) \cup zones("ENTER_ZONE")]
  BY DEF Told
<1> HIDE DEF did, kinds, zones
<1>4. /\ says.hand = IF "PICK" \in kinds THEN "PICK"
                     ELSE IF "PLACE" \in kinds THEN "PLACE" ELSE said.hand
      /\ says.operated = ("OPERATE_TOOL" \in kinds \/ (said.operated /\ ~released))
      /\ says.inside = (said.inside \ zones("LEAVE_ZONE")) \cup zones("ENTER_ZONE")
  BY <1>3
<1>5. says.hand = IF "PICK" \in PickPlace(objects[o], hand[o]) THEN "PICK"
                  ELSE IF "PLACE" \in PickPlace(objects[o], hand[o]) THEN "PLACE"
                  ELSE said.hand
  <2>1. /\ "PICK" \in kinds <=> "PICK" \in PickPlace(objects[o], hand[o])
        /\ "PLACE" \in kinds <=> "PLACE" \in PickPlace(objects[o], hand[o])
    BY <1>1, PickPlaceIs
  <2> QED BY <1>4, <2>1
<1>6. says.operated <=> \/ Operates(tools[o], tool[o])
                        \/ said.operated /\ ~released
  BY <1>1, <1>4
<1>7. \A z \in Zones : z \in says.inside <=>
        \/ z \in said.inside /\ <<o, z>> \notin active \ inside
        \/ <<o, z>> \in inside \ active
  BY <1>2, <1>4
<1> QED BY <1>5, <1>6, <1>7

(***************************************************************************)
(* The invariant.  The counters of the recognizers never exceed what the   *)
(* cameras have seen in a row, and what was told of an object agrees with  *)
(* what the recognizers remember of it.                                    *)
(***************************************************************************)
Streaks ==
  /\ close \in [Cameras -> [Objects -> 0 .. HoldFrames]]
  /\ away \in [Cameras -> [Objects -> 0 .. FreeFrames]]
  /\ \A c \in Cameras, o \in Objects :
       /\ \A w \in Wrists : holds[c][o][w] <= close[c][o]
       /\ frees[c][o] <= away[c][o]

Story(o) ==
  /\ tools[o].held => objects[o] = TRUE
  /\ stream[o].hand = "PICK" => objects[o] = TRUE
  /\ stream[o].hand = "PLACE" => objects[o] = FALSE
  /\ stream[o].operated => tools[o].emitted
  /\ \A z \in Zones : z \in stream[o].inside <=> <<o, z>> \in active

ActionsInv == TypeOK /\ Streaks /\ \A o \in Objects : Story(o)

LEMMA InvInit == Init => ActionsInv
<1> SUFFICES ASSUME Init PROVE Streaks /\ \A o \in Objects : Story(o)
  BY TypesInit DEF ActionsInv
<1>1. Streaks
  BY LimitsAre DEF Init, Streaks
<1>2. ASSUME NEW o \in Objects PROVE Story(o)
  <2>1. /\ tools[o].held = FALSE /\ stream[o].hand = None
        /\ stream[o].operated = FALSE /\ stream[o].inside = {} /\ active = {}
    BY DEF Init
  <2> QED BY <2>1, NoneAssumption DEF Story
<1> QED BY <1>1, <1>2

\* One look keeps the counters below the streaks, and a relation takes a whole one.
LEMMA LookStreaks ==
  ASSUME NEW look \in Looks, NEW counts \in [Wrists -> 0 .. HoldFrames],
         NEW count \in 0 .. FreeFrames, NEW n \in 0 .. HoldFrames,
         NEW m \in 0 .. FreeFrames, \A w \in Wrists : counts[w] <= n, count <= m
  PROVE  /\ Streak(n, look, "hold", HoldFrames) \in 0 .. HoldFrames
         /\ Streak(m, look, "away", FreeFrames) \in 0 .. FreeFrames
         /\ \A w \in Wrists :
              Held(look, counts)[w] <= Streak(n, look, "hold", HoldFrames)
         /\ Freed(look, count) <= Streak(m, look, "away", FreeFrames)
         /\ HeldBy(look, counts) => Streak(n, look, "hold", HoldFrames) >= HoldFrames
         /\ FreeOf(look, count) => Streak(m, look, "away", FreeFrames) >= FreeFrames
<1>1. look.reach \in {"hold", "near", "away", "unseen"}
      /\ (look.reach = "hold" => look.by \in Wrists)
  BY DEF Looks
<1>2. CASE look.reach = "hold"
  <2>1. /\ Held(look, counts) = [counts EXCEPT ![look.by] = UpTo(HoldFrames, @ + 1)]
        /\ Freed(look, count) = 0
        /\ Streak(n, look, "hold", HoldFrames) = UpTo(HoldFrames, n + 1)
        /\ Streak(m, look, "away", FreeFrames) = 0
        /\ ~FreeOf(look, count)
    BY <1>2 DEF Held, Freed, Streak, FreeOf
  <2>2. \A w \in Wrists : counts[w] \in 0 .. HoldFrames
    OBVIOUS
  <2>3. UpTo(HoldFrames, n + 1) \in 0 .. HoldFrames /\ n <= UpTo(HoldFrames, n + 1)
    BY LimitsAre DEF UpTo
  <2>4. \A w \in Wrists : UpTo(HoldFrames, counts[w] + 1) <= UpTo(HoldFrames, n + 1)
    BY <2>2, LimitsAre DEF UpTo
  <2>5. \A w \in Wrists : Held(look, counts)[w] \in {counts[w], UpTo(HoldFrames, counts[w] + 1)}
    BY <2>1
  <2>6. \A w \in Wrists : Held(look, counts)[w] <= UpTo(HoldFrames, n + 1)
    BY <2>2, <2>3, <2>4, <2>5, LimitsAre
  <2>7. HeldBy(look, counts) => UpTo(HoldFrames, n + 1) >= HoldFrames
    <3>1. Held(look, counts)[look.by] \in 0 .. HoldFrames
      BY <1>1, <1>2, HeldTyped
    <3> QED BY <1>1, <1>2, <2>3, <2>6, <3>1, LimitsAre DEF HeldBy
  <2> QED BY <2>1, <2>3, <2>6, <2>7, LimitsAre
<1>3. CASE look.reach = "away"
  <2>1. /\ Held(look, counts) = [w \in Wrists |-> 0]
        /\ Freed(look, count) = UpTo(FreeFrames, count + 1)
        /\ Streak(n, look, "hold", HoldFrames) = 0
        /\ Streak(m, look, "away", FreeFrames) = UpTo(FreeFrames, m + 1)
        /\ ~HeldBy(look, counts)
        /\ FreeOf(look, count) <=> UpTo(FreeFrames, count + 1) >= FreeFrames
    BY <1>3 DEF Held, Freed, Streak, HeldBy, FreeOf
  <2>2. /\ UpTo(FreeFrames, m + 1) \in 0 .. FreeFrames
        /\ UpTo(FreeFrames, count + 1) \in 0 .. FreeFrames
        /\ UpTo(FreeFrames, count + 1) <= UpTo(FreeFrames, m + 1)
    BY LimitsAre DEF UpTo
  <2> QED BY <2>1, <2>2, LimitsAre
<1>4. CASE look.reach = "near"
  <2>1. /\ Held(look, counts) = [w \in Wrists |-> 0] /\ Freed(look, count) = 0
        /\ Streak(n, look, "hold", HoldFrames) = 0
        /\ Streak(m, look, "away", FreeFrames) = 0
        /\ ~HeldBy(look, counts) /\ ~FreeOf(look, count)
    BY <1>4 DEF Held, Freed, Streak, HeldBy, FreeOf
  <2> QED BY <2>1, LimitsAre
<1>5. CASE look.reach = "unseen"
  <2>1. /\ Held(look, counts) = counts /\ Freed(look, count) = count
        /\ Streak(n, look, "hold", HoldFrames) = n
        /\ Streak(m, look, "away", FreeFrames) = m
        /\ ~HeldBy(look, counts) /\ ~FreeOf(look, count)
    BY <1>5 DEF Held, Freed, Streak, HeldBy, FreeOf
  <2> QED BY <2>1
<1> QED BY <1>1, <1>2, <1>3, <1>4, <1>5

LEMMA FrameStreaks ==
  ASSUME TypeOK, Streaks, NEW look, NEW confidence, NEW spots, NEW moved,
         Input(look, confidence, spots, moved), Frame(look, confidence, spots, moved)
  PROVE  /\ Streaks'
         /\ \A c \in Cameras, o \in Objects :
              /\ HeldBy(look[c][o], holds[c][o]) => close'[c][o] >= HoldFrames
              /\ FreeOf(look[c][o], frees[c][o]) =>
                   look[c][o].reach = "away" /\ away'[c][o] >= FreeFrames
<1>1. \A c \in Cameras, o \in Objects :
        /\ look[c][o] \in Looks
        /\ holds[c][o] \in [Wrists -> 0 .. HoldFrames] /\ frees[c][o] \in 0 .. FreeFrames
        /\ close[c][o] \in 0 .. HoldFrames /\ away[c][o] \in 0 .. FreeFrames
        /\ \A w \in Wrists : holds[c][o][w] <= close[c][o]
        /\ frees[c][o] <= away[c][o]
  BY DEF TypeOK, Streaks, Input
<1>2. \A c \in Cameras, o \in Objects :
        /\ holds'[c][o] = Held(look[c][o], holds[c][o])
        /\ frees'[c][o] = Freed(look[c][o], frees[c][o])
        /\ close'[c][o] = Streak(close[c][o], look[c][o], "hold", HoldFrames)
        /\ away'[c][o] = Streak(away[c][o], look[c][o], "away", FreeFrames)
  BY DEF Frame
<1>3. ASSUME NEW c \in Cameras, NEW o \in Objects
      PROVE  /\ close'[c][o] \in 0 .. HoldFrames /\ away'[c][o] \in 0 .. FreeFrames
             /\ \A w \in Wrists : holds'[c][o][w] <= close'[c][o]
             /\ frees'[c][o] <= away'[c][o]
             /\ HeldBy(look[c][o], holds[c][o]) => close'[c][o] >= HoldFrames
             /\ FreeOf(look[c][o], frees[c][o]) => away'[c][o] >= FreeFrames
  BY <1>1, <1>2, LookStreaks
<1>4. /\ close' = [c \in Cameras |-> [o \in Objects |-> close'[c][o]]]
      /\ away' = [c \in Cameras |-> [o \in Objects |-> away'[c][o]]]
  BY DEF Frame
<1>5. /\ close' \in [Cameras -> [Objects -> 0 .. HoldFrames]]
      /\ away' \in [Cameras -> [Objects -> 0 .. FreeFrames]]
  BY <1>3, <1>4
<1> QED BY <1>3, <1>5 DEF Streaks, FreeOf

\* What a frame set does to one object.
LEMMA ObjectStep ==
  ASSUME ActionsInv, NEW look, NEW confidence, NEW spots, NEW moved,
         Input(look, confidence, spots, moved), Frame(look, confidence, spots, moved),
         NEW o \in Objects
  PROVE  /\ Story(o)'
         /\ "PICK" \in PickPlace(objects[o], objects'[o]) =>
              \E c \in Cameras : close'[c][o] >= HoldFrames
         /\ "PLACE" \in PickPlace(objects[o], objects'[o]) =>
              \E c \in Cameras : away'[c][o] >= FreeFrames
         /\ Operates(tools[o], tools'[o]) => objects'[o] = TRUE
<1> DEFINE g == Grip(look, confidence, o)
           r == Release(look, confidence, o)
           released == \E c \in Cameras : look[c][o].reach = "away" /\ away'[c][o] >= FreeFrames
<1>1. /\ g \in Nat /\ r \in Nat
      /\ g > 0 <=> \E c \in Cameras : HeldBy(look[c][o], holds[c][o])
      /\ r > 0 <=> \E c \in Cameras : FreeOf(look[c][o], frees[c][o])
  BY Fused
<1>2. /\ MinConfidence \in Nat /\ MinConfidence > 0
  BY ConfidenceAssumption
<1>3. /\ g > 0 => \E c \in Cameras : close'[c][o] >= HoldFrames
      /\ r > 0 => \E c \in Cameras : away'[c][o] >= FreeFrames
      /\ r > 0 => released
  BY <1>1, FrameStreaks DEF ActionsInv
<1>4. /\ objects'[o] = Gripped(g, r, objects[o])
      /\ tools'[o] = IF Seen(look, o)
                     THEN Tracked(tools[o], g, r, spots[o], moved[o]) ELSE tools[o]
      /\ stream'[o] = Told(stream[o], o, Happens(objects', tools', active', dwell'), released)
  BY DEF Frame
<1>5. ~Seen(look, o) => g = 0 /\ r = 0
  <2>1. ~Seen(look, o) => \A c \in Cameras : look[c][o].reach = "unseen"
    BY DEF Seen
  <2> QED BY <1>1, <2>1 DEF HeldBy, FreeOf
<1>6. /\ tools[o] \in Tools /\ (tools[o].emitted => tools[o].path >= MinPath)
      /\ spots[o] \in Spots \cup {OutOfZones} /\ moved[o] \in {0, 1}
      /\ objects[o] \in BOOLEAN \cup {None} /\ Story(o)
  BY DEF ActionsInv, TypeOK, Tools, Input
<1>7. TypeOK /\ tools' \in [Objects -> Tools] /\ active' \in SUBSET (Objects \X Zones)
  <2>1. TypeOK'
    BY NextIs, TypesStep DEF ActionsInv
  <2> QED BY <2>1 DEF ActionsInv, TypeOK, Tools
<1>8. /\ stream'[o].hand = IF "PICK" \in PickPlace(objects[o], objects'[o]) THEN "PICK"
                           ELSE IF "PLACE" \in PickPlace(objects[o], objects'[o])
                           THEN "PLACE" ELSE stream[o].hand
      /\ stream'[o].operated <=> \/ Operates(tools[o], tools'[o])
                                 \/ stream[o].operated /\ ~released
      /\ \A z \in Zones : z \in stream'[o].inside <=>
           \/ z \in stream[o].inside /\ <<o, z>> \notin active \ active'
           \/ <<o, z>> \in active' \ active
  <2> HIDE DEF released
  <2> QED BY <1>4, <1>7, ToldIs
<1> HIDE DEF g, r, released
<1>9. /\ "PICK" \in PickPlace(objects[o], objects'[o]) => g > 0
      /\ "PLACE" \in PickPlace(objects[o], objects'[o]) => r > 0
      /\ r = 0 /\ g >= MinConfidence => objects'[o] = TRUE
      /\ r = 0 /\ ~(g >= MinConfidence) => objects'[o] = objects[o]
  <2>1. CASE g >= MinConfidence /\ (r < MinConfidence \/ g >= r)
    <3>1. objects'[o] = TRUE /\ g > 0
      BY <1>1, <1>2, <1>4, <2>1 DEF Gripped
    <3>2. "PLACE" \notin PickPlace(objects[o], objects'[o])
      BY <3>1, PickPlaceIs
    <3> QED BY <2>1, <3>1, <3>2
  <2>2. CASE ~(g >= MinConfidence /\ (r < MinConfidence \/ g >= r)) /\ r >= MinConfidence
    <3>1. objects'[o] = FALSE /\ r > 0 /\ r # 0
      BY <1>1, <1>2, <1>4, <2>2 DEF Gripped
    <3>2. "PICK" \notin PickPlace(objects[o], objects'[o])
      BY <3>1, PickPlaceIs
    <3> QED BY <3>1, <3>2
  <2>3. CASE ~(g >= MinConfidence /\ (r < MinConfidence \/ g >= r)) /\ ~(r >= MinConfidence)
    <3>1. objects'[o] = objects[o]
      BY <1>4, <2>3 DEF Gripped
    <3>2. ~(g >= MinConfidence)
      BY <1>1, <1>2, <2>3
    <3>3. PickPlace(objects[o], objects'[o]) = {}
      BY <3>1 DEF PickPlace
    <3> QED BY <3>1, <3>2, <3>3
  <2> QED BY <2>1, <2>2, <2>3
<1>10. tools'[o].held => objects'[o] = TRUE
  <2>1. CASE Seen(look, o)
    <3>1. /\ r > 0 => ~tools'[o].held
          /\ ~(r > 0) => (tools'[o].held => tools[o].held \/ g >= MinConfidence)
      BY <1>4, <1>6, <2>1, TrackedIs
    <3>2. tools[o].held => objects[o] = TRUE
      BY <1>6 DEF Story
    <3>3. r = 0 \/ r > 0
      BY <1>1
    <3> QED BY <1>9, <3>1, <3>2, <3>3
  <2>2. CASE ~Seen(look, o)
    <3>1. /\ tools'[o] = tools[o] /\ r = 0 /\ ~(g >= MinConfidence)
      BY <1>2, <1>4, <1>5, <2>2
    <3> QED BY <1>6, <1>9, <3>1 DEF Story
  <2> QED BY <2>1, <2>2
<1>11. /\ tools[o].emitted /\ ~released => tools'[o].emitted
       /\ Operates(tools[o], tools'[o]) => tools'[o].held
  <2>1. CASE Seen(look, o)
    <3>1. /\ r > 0 => ~tools'[o].emitted
          /\ ~(r > 0) => /\ tools[o].emitted => tools'[o].emitted
                         /\ tools'[o].emitted => tools[o].emitted \/ tools'[o].held
      BY <1>4, <1>6, <2>1, TrackedIs
    <3> QED BY <1>3, <3>1 DEF Operates
  <2>2. CASE ~Seen(look, o)
    BY <1>4, <2>2 DEF Operates
  <2> QED BY <2>1, <2>2
<1>12. stream'[o].operated => tools'[o].emitted
  BY <1>6, <1>8, <1>11 DEF Operates, Story
<1>13. /\ stream'[o].hand = "PICK" => objects'[o] = TRUE
       /\ stream'[o].hand = "PLACE" => objects'[o] = FALSE
  <2>1. /\ stream[o].hand = "PICK" => objects[o] = TRUE
        /\ stream[o].hand = "PLACE" => objects[o] = FALSE
    BY <1>6 DEF Story
  <2>2. objects'[o] \in {TRUE, FALSE, objects[o]}
    BY <1>4 DEF Gripped
  <2> QED BY <1>8, <2>1, <2>2, PickPlaceIs
<1>14. \A z \in Zones : z \in stream'[o].inside <=> <<o, z>> \in active'
  BY <1>6, <1>8 DEF Story
<1> QED BY <1>3, <1>9, <1>10, <1>11, <1>12, <1>13, <1>14 DEF Story

LEMMA InvStep == ActionsInv /\ [Next]_vars => ActionsInv'
<1>1. ASSUME ActionsInv, Next PROVE ActionsInv'
  <2>1. PICK look, confidence, spots, moved :
          Input(look, confidence, spots, moved) /\ Frame(look, confidence, spots, moved)
    BY <1>1, NextIs
  <2>2. TypeOK'
    BY <1>1, TypesStep DEF ActionsInv
  <2>3. Streaks'
    BY <1>1, <2>1, FrameStreaks DEF ActionsInv
  <2>4. \A o \in Objects : Story(o)'
    BY <1>1, <2>1, ObjectStep
  <2> QED BY <2>2, <2>3, <2>4 DEF ActionsInv
<1>2. ASSUME ActionsInv, UNCHANGED vars PROVE ActionsInv'
  <2>1. TypeOK' /\ Streaks'
    BY <1>2, TypesStep DEF ActionsInv, Streaks, vars
  <2>2. \A o \in Objects : Story(o)'
    BY <1>2 DEF ActionsInv, Story, vars, recognizers
  <2> QED BY <2>1, <2>2 DEF ActionsInv
<1> QED BY <1>1, <1>2

LEMMA InvAlways == Spec => []ActionsInv
BY InvInit, InvStep, PTL DEF Spec

\* Every variable keeps its type.
THEOREM ActionTypes == Spec => []TypeOK
BY InvAlways, PTL DEF ActionsInv

\* A tool that the one recognizer takes for held is an object that the other
\* takes for held, however the cameras disagree.
THEOREM HeldToolIsHeld == Spec => []ToolInHand
<1>1. ActionsInv => ToolInHand
  BY DEF ActionsInv, Story, ToolInHand
<1> QED BY <1>1, InvAlways, PTL

\* An action of a frame set, and what it is about.
LEMMA ActionStep ==
  ASSUME ActionsInv, Next, NEW a \in actions'
  PROVE  /\ a.object \in Objects /\ Story(a.object) /\ Story(a.object)'
         /\ a.kind = "PICK" =>
              /\ objects[a.object] = FALSE
              /\ \E c \in Cameras : close'[c][a.object] >= HoldFrames
         /\ a.kind = "PLACE" =>
              /\ objects[a.object] = TRUE
              /\ \E c \in Cameras : away'[c][a.object] >= FreeFrames
         /\ a.kind = "OPERATE_TOOL" =>
              /\ ~tools[a.object].emitted
              /\ objects'[a.object] = TRUE
         /\ a.kind = "ENTER_ZONE" => a.zone \in Zones /\ <<a.object, a.zone>> \notin active
         /\ a.kind = "LEAVE_ZONE" => a.zone \in Zones /\ <<a.object, a.zone>> \in active
         /\ a.kind = "INSPECT" /\ a.object \in classes.zone =>
              a.zone \in Zones /\ <<a.object, a.zone>> \in active'
<1> DEFINE o == a.object
<1>1. PICK look, confidence, spots, moved :
        Input(look, confidence, spots, moved) /\ Frame(look, confidence, spots, moved)
  BY NextIs
<1>2. /\ actions' = Happens(objects', tools', active', dwell')
      /\ active' = Inside(spots)
      /\ dwell' = [x \in Objects |-> [z \in WorkZones |->
                     Dwelling(dwell[x][z], Stayed(spots, x, z))]]
  BY <1>1 DEF Frame
<1>3. TypeOK /\ tools' \in [Objects -> Tools] /\ active' \in SUBSET (Objects \X Zones)
      /\ active \in SUBSET (Objects \X Zones)
  <2>1. TypeOK'
    BY TypesStep DEF ActionsInv
  <2> QED BY <2>1 DEF ActionsInv, TypeOK, Tools
<1>4. /\ o \in Objects
      /\ a.kind = "PICK" => objects[o] = FALSE /\ objects'[o] = TRUE
      /\ a.kind = "PLACE" => objects[o] = TRUE /\ objects'[o] = FALSE
      /\ a.kind = "OPERATE_TOOL" => Operates(tools[o], tools'[o])
      /\ a.kind = "ENTER_ZONE" => <<o, a.zone>> \in active' \ active
      /\ a.kind = "LEAVE_ZONE" => <<o, a.zone>> \in active \ active'
      /\ a.kind = "INSPECT" => a.zone \in WorkZones /\ dwell'[o][a.zone].emitted
  BY <1>2, <1>3, HappensIs
<1>5. /\ Story(o) /\ Story(o)'
      /\ "PICK" \in PickPlace(objects[o], objects'[o]) =>
           \E c \in Cameras : close'[c][o] >= HoldFrames
      /\ "PLACE" \in PickPlace(objects[o], objects'[o]) =>
           \E c \in Cameras : away'[c][o] >= FreeFrames
      /\ Operates(tools[o], tools'[o]) => objects'[o] = TRUE
  BY <1>1, <1>4, ObjectStep DEF ActionsInv
<1>6. a.kind = "INSPECT" /\ o \in classes.zone =>
        a.zone \in Zones /\ <<o, a.zone>> \in active'
  <2> SUFFICES ASSUME a.kind = "INSPECT", o \in classes.zone
               PROVE  a.zone \in Zones /\ <<o, a.zone>> \in active'
    OBVIOUS
  <2>1. a.zone \in WorkZones /\ dwell'[o][a.zone].emitted
    BY <1>4
  <2>2. dwell'[o][a.zone] =
          Dwelling(dwell[o][a.zone], Stayed(spots, o, a.zone))
    BY <1>2, <1>4, <2>1
  <2>3. spots[o].zone = a.zone
    BY <2>1, <2>2 DEF Dwelling, NoStay, Stayed
  <2>4. spots \in [Objects -> Spots \cup {OutOfZones}]
    BY <1>1 DEF Input
  <2> QED BY <1>2, <1>3, <1>4, <2>1, <2>3, <2>4, InsideTyped, ZoneAssumption DEF TypeOK
<1>7. \A z : <<o, z>> \in active \cup active' => z \in Zones
  BY <1>3
<1> HIDE DEF o
<1>8. /\ a.kind = "PICK" => \E c \in Cameras : close'[c][o] >= HoldFrames
      /\ a.kind = "PLACE" => \E c \in Cameras : away'[c][o] >= FreeFrames
  BY <1>4, <1>5, PickPlaceIs
<1>9. a.kind = "OPERATE_TOOL" => ~tools[o].emitted /\ objects'[o] = TRUE
  BY <1>4, <1>5 DEF Operates
<1>10. /\ a.kind = "ENTER_ZONE" => a.zone \in Zones /\ <<o, a.zone>> \notin active
       /\ a.kind = "LEAVE_ZONE" => a.zone \in Zones /\ <<o, a.zone>> \in active
  BY <1>4, <1>7
<1> QED BY <1>4, <1>5, <1>6, <1>8, <1>9, <1>10 DEF o

\* No single look picks or places: behind each there is a camera that has seen
\* the object so in as many of its looks in a row as the relation takes.
THEOREM NoFlicker == Spec => []Debounced
<1>1. Init => Debounced
  BY DEF Init, Debounced
<1>2. ActionsInv /\ Debounced /\ [Next]_vars => Debounced'
  <2>1. ASSUME ActionsInv, Next PROVE Debounced'
    BY <2>1, ActionStep DEF Debounced
  <2>2. ASSUME Debounced, UNCHANGED vars PROVE Debounced'
    BY <2>2 DEF Debounced, vars
  <2> QED BY <2>1, <2>2
<1> QED BY <1>1, <1>2, InvAlways, PTL DEF Spec

\* A tool is not told to be operated again before a camera has seen it released.
THEOREM OneOperation == Spec => OperatedOnce
<1>1. ActionsInv /\ [Next]_vars =>
        [\A a \in actions' : a.kind = "OPERATE_TOOL" => ~stream[a.object].operated]_vars
  <2>1. ASSUME ActionsInv, Next, NEW a \in actions', a.kind = "OPERATE_TOOL"
        PROVE  ~stream[a.object].operated
    BY <2>1, ActionStep DEF Story
  <2> QED BY <2>1
<1> QED BY <1>1, InvAlways, PTL DEF Spec, OperatedOnce

\* Picks and places, entries and exits take turns, and what lies between them
\* is what they allow, in every configuration of the zone recognizers: what is
\* inspected lies between entry and exit where entries are told at all.
THEOREM ActionsTakeTurns == Spec => ActionsAlternate
<1> DEFINE Alternate(a) ==
      LET said == stream[a.object]
          says == stream'[a.object]
      IN  /\ a.kind = "PICK" => said.hand # "PICK"
          /\ a.kind = "PLACE" => said.hand # "PLACE"
          /\ a.kind = "OPERATE_TOOL" => says.hand # "PLACE"
          /\ a.kind = "ENTER_ZONE" => a.zone \notin said.inside
          /\ a.kind = "LEAVE_ZONE" => a.zone \in said.inside
          /\ a.kind = "INSPECT" /\ a.object \in classes.zone => a.zone \in says.inside
<1>1. ActionsInv /\ [Next]_vars => [\A a \in actions' : Alternate(a)]_vars
  <2>1. ASSUME ActionsInv, Next, NEW a \in actions' PROVE Alternate(a)
    <3>1. /\ Story(a.object) /\ Story(a.object)'
          /\ a.kind = "PICK" => objects[a.object] = FALSE
          /\ a.kind = "PLACE" => objects[a.object] = TRUE
          /\ a.kind = "OPERATE_TOOL" => objects'[a.object] = TRUE
          /\ a.kind = "ENTER_ZONE" => a.zone \in Zones /\ <<a.object, a.zone>> \notin active
          /\ a.kind = "LEAVE_ZONE" => a.zone \in Zones /\ <<a.object, a.zone>> \in active
          /\ a.kind = "INSPECT" /\ a.object \in classes.zone =>
               a.zone \in Zones /\ <<a.object, a.zone>> \in active'
      BY <2>1, ActionStep
    <3> QED BY <3>1 DEF Story
  <2> QED BY <2>1
<1> QED BY <1>1, InvAlways, PTL DEF Spec, ActionsAlternate
=============================================================================
