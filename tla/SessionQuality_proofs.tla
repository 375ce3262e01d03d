----------------------- MODULE SessionQuality_proofs -----------------------
(***************************************************************************)
(* What an incident stands for, for every set of cameras, configuration    *)
(* and limits: one incident for an outage, none missed, and none for what  *)
(* an earlier session has suffered.                                        *)
(***************************************************************************)
EXTENDS SessionQuality, TLAPS

Condition == [age : Nat, emitted : BOOLEAN]

Shape ==
  /\ monitor = [conditions |-> monitor.conditions, counts |-> monitor.counts,
                base |-> monitor.base, seen |-> monitor.seen]
  /\ monitor.conditions \in [keys -> {None} \cup Condition]

\* An outage that has its incident still fails, and the monitor remembers.
Remembered == \A k \in keys : past[k].told => Fails(k) /\ Emitted(k)

IncidentInv == Shape /\ Remembered

\* A session begins with nothing told.
LEMMA IncidentInit == Init => IncidentInv
<1> SUFFICES ASSUME Init PROVE IncidentInv
  OBVIOUS
<1>1. Shape
  BY DEF Init, Fresh, Shape
<1>2. Remembered
  BY DEF Init, Remembered
<1> QED
  BY <1>1, <1>2 DEF IncidentInv

\* What is told after a step fails after it, and was told before or is new.
LEMMA TrackTold ==
  ASSUME NEW dt, Track(dt), NEW k \in keys, past'[k].told
  PROVE  Fails(k)' /\ (past[k].told \/ Recorded(k))
  BY DEF Track

\* Without an incident, and with a monitor that keeps what it emitted, a step
\* keeps the invariant.
LEMMA QuietStep ==
  ASSUME IncidentInv, NEW dt, Track(dt), UNCHANGED <<keys, incidents>>, Shape',
         \A k \in keys : Emitted(k) => Emitted(k)'
  PROVE  IncidentInv'
<1> SUFFICES ASSUME NEW k \in keys, past'[k].told PROVE Fails(k)' /\ Emitted(k)'
  BY DEF IncidentInv, Remembered
<1>1. Fails(k)' /\ (past[k].told \/ Recorded(k))
  BY TrackTold
<1>2. ~Recorded(k)
  BY DEF Recorded
<1>3. Emitted(k)
  BY <1>1, <1>2 DEF IncidentInv, Remembered
<1> QED
  BY <1>1, <1>3

\* An age stays a number.
LEMMA OlderNat == ASSUME NEW n \in Nat PROVE Older(n, 1) \in Nat
  BY DEF Older

\* Time passes for the conditions and changes nothing else of them.
LEMMA TickStep == ASSUME IncidentInv, Tick PROVE IncidentInv'
<1>1. /\ monitor' = [monitor EXCEPT !.conditions = [k \in keys |-> Aged(monitor.conditions[k])]]
      /\ UNCHANGED <<keys, incidents>> /\ Track(1)
  BY DEF Tick
<1>2. /\ monitor'.conditions = [k \in keys |-> Aged(monitor.conditions[k])]
      /\ monitor' = [conditions |-> monitor'.conditions, counts |-> monitor'.counts,
                     base |-> monitor'.base, seen |-> monitor'.seen]
  BY <1>1 DEF IncidentInv, Shape
<1>3. ASSUME NEW k \in keys
      PROVE  IF monitor.conditions[k] = None THEN Aged(monitor.conditions[k]) = None
             ELSE /\ Aged(monitor.conditions[k]) \in Condition
                  /\ Aged(monitor.conditions[k]).emitted = monitor.conditions[k].emitted
  <2>1. CASE monitor.conditions[k] = None
    BY <2>1 DEF Aged
  <2>2. CASE monitor.conditions[k] # None
    <3>1. monitor.conditions[k] \in Condition
      BY <2>2 DEF IncidentInv, Shape
    <3>2. Older(monitor.conditions[k].age, 1) \in Nat
      BY <3>1, OlderNat DEF Condition
    <3> QED
      BY <2>2, <3>1, <3>2 DEF Aged, Condition
  <2> QED
    BY <2>1, <2>2
<1>4. Shape'
  <2>1. \A k \in keys : Aged(monitor.conditions[k]) \in {None} \cup Condition
    BY <1>3
  <2>2. monitor'.conditions \in [keys -> {None} \cup Condition]
    BY <1>2, <2>1
  <2> QED
    BY <1>1, <1>2, <2>2 DEF Shape
<1>5. ASSUME NEW k \in keys, Emitted(k) PROVE Emitted(k)'
  <2>1. Aged(monitor.conditions[k]) \in Condition /\ Aged(monitor.conditions[k]).emitted
    BY <1>3, <1>5 DEF Emitted
  <2>2. Aged(monitor.conditions[k]) # None
    BY <2>1, NoneAssumption DEF Condition
  <2>3. monitor'.conditions[k] = Aged(monitor.conditions[k])
    BY <1>2
  <2> QED
    BY <2>1, <2>2, <2>3 DEF Emitted
<1> QED
  BY <1>1, <1>4, <1>5, QuietStep

\* Only emitting conditions get an incident: they had none.
LEMMA ReportNew ==
  ASSUME NEW P \in SUBSET Emitting, Report(P), NEW i \in incidents' \ incidents
  PROVE  i.key \in keys /\ Emits(i.key) /\ ~Emitted(i.key)
  BY DEF Report, Incident, Emitting, Emits

\* A poll remembers what it emits, and forgets only what holds.
LEMMA ReportStep ==
  ASSUME IncidentInv, NEW P \in SUBSET Emitting, Report(P), Track(0)
  PROVE  IncidentInv'
<1>1. monitor' = Observed /\ UNCHANGED keys
  BY DEF Report
<1>2. ASSUME NEW k \in keys PROVE Age(k) \in Nat /\ Emitted(k) \in BOOLEAN /\ Emits(k) \in BOOLEAN
  BY <1>2 DEF Age, Emitted, Emits, IncidentInv, Shape, Condition
<1>3. Shape'
  BY <1>1, <1>2 DEF Shape, Observed, Condition
<1>4. ASSUME NEW k \in keys, past'[k].told PROVE Fails(k)' /\ Emitted(k)'
  <2>1. Fails(k)' /\ (past[k].told \/ Recorded(k))
    BY <1>4, TrackTold
  <2>2. Fails(k) /\ (Emitted(k) \/ Emits(k))
    <3>1. CASE past[k].told
      BY <3>1 DEF IncidentInv, Remembered
    <3>2. CASE Recorded(k)
      BY <3>2, ReportNew DEF Recorded, Emits
    <3> QED
      BY <2>1, <3>1, <3>2
  <2>3. monitor'.conditions[k] = [age |-> Age(k), emitted |-> Emitted(k) \/ Emits(k)]
    BY <1>1, <2>2 DEF Observed
  <2>4. monitor'.conditions[k] \in Condition /\ monitor'.conditions[k].emitted
    BY <2>2, <2>3, <1>2 DEF Condition
  <2>5. monitor'.conditions[k] # None
    BY <2>4, NoneAssumption DEF Condition
  <2> QED
    BY <2>1, <2>4, <2>5 DEF Emitted
<1> QED
  BY <1>1, <1>3, <1>4 DEF IncidentInv, Remembered

\* A step is a tick, a report, or leaves the monitor and the incidents alone.
LEMMA StepKinds ==
  ASSUME Next
  PROVE  \/ Tick
         \/ Track(0) /\ \E P \in SUBSET Emitting : Report(P)
         \/ Track(0) /\ UNCHANGED <<keys, monitor, incidents>>
<1>1. \A P \in Prefixes(Emitting) : P \in SUBSET Emitting
  BY DEF Prefixes
<1> QED
  BY <1>1 DEF Next, CameraFrame, CameraError, Receive, Produce, Miss, Fail, Flag, Count,
              InProcess, Start, Poll, PollRaises, Finish, FinishRaises

\* Every step keeps the invariant.
LEMMA IncidentStep == IncidentInv /\ [Next]_vars => IncidentInv'
<1> SUFFICES ASSUME IncidentInv, [Next]_vars PROVE IncidentInv'
  OBVIOUS
<1>1. CASE Tick
  BY <1>1, TickStep
<1>2. CASE Track(0) /\ \E P \in SUBSET Emitting : Report(P)
  BY <1>2, ReportStep
<1>3. CASE Track(0) /\ UNCHANGED <<keys, monitor, incidents>>
  <2>1. Shape'
    BY <1>3 DEF IncidentInv, Shape
  <2>2. \A k \in keys : Emitted(k) => Emitted(k)'
    BY <1>3 DEF Emitted
  <2> QED
    BY <1>3, <2>1, <2>2, QuietStep
<1>4. CASE UNCHANGED vars
  BY <1>4 DEF vars, IncidentInv, Shape, Remembered, Fails, CameraFails, SourceFails,
              Base, Seen, Emitted
<1> QED
  BY <1>1, <1>2, <1>3, <1>4, StepKinds

\* An incident is raised only for an outage that has none.
LEMMA IncidentAction ==
  ASSUME IncidentInv, Next, NEW i \in incidents' \ incidents
  PROVE  ~past[i.key].told
<1>1. ~Tick
  BY DEF Tick
<1>2. PICK P \in SUBSET Emitting : Report(P)
  BY <1>1, StepKinds
<1>3. i.key \in keys /\ ~Emitted(i.key)
  BY <1>2, ReportNew
<1> QED
  BY <1>3 DEF IncidentInv, Remembered

\* "One incident is emitted for one continuous failure period": observe() never
\* raises a second one before the condition has held again.
THEOREM OneIncident == Spec => OneIncidentPerOutage
<1>1. Init => IncidentInv
  BY IncidentInit
<1>2. IncidentInv /\ [Next]_vars => IncidentInv'
  BY IncidentStep
<1>3. IncidentInv /\ [Next]_vars =>
        [\A i \in incidents' \ incidents : ~past[i.key].told]_vars
  BY IncidentAction
<1> QED
  BY <1>1, <1>2, <1>3, PTL DEF Spec, OneIncidentPerOutage

(***************************************************************************)
(* Types: the record of the monitor is whole, and no incident has a number *)
(* its condition has not reached.                                          *)
(***************************************************************************)
Told == [fails : BOOLEAN, age : Ages, told : BOOLEAN, covered : BOOLEAN]

Typed ==
  /\ due \in 0 .. Interval /\ quiet \in Ages
  /\ camera \in [Cameras -> [online : BOOLEAN, last : Ages \cup {None}]]
  /\ keys \in Configurations
  /\ meter \in Meters \cup {None}
  /\ session \in {"idle", "running", "finished"}
  /\ polling \in BOOLEAN /\ hurt \in BOOLEAN
  /\ faults \in 0 .. MaxFaults
  /\ past \in [keys -> Told]

\* What the monitor of a session keeps.
Kept ==
  /\ monitor = [conditions |-> monitor.conditions, counts |-> monitor.counts,
                base |-> monitor.base, seen |-> monitor.seen]
  /\ monitor.conditions \in [keys -> {None} \cup [age : Ages, emitted : BOOLEAN]]
  /\ monitor.counts \in [keys -> Nat]
  /\ monitor.base \in Meters \cup {None}
  /\ monitor.seen \in 0 .. MaxCount

Numbered == \A i \in incidents : i.key \in keys /\ i.number \in 1 .. monitor.counts[i.key]

Types == Typed /\ Kept /\ Numbered

\* An age grows with the time that passes, and stays at its bound.
LEMMA OlderAge ==
  ASSUME NEW n \in Ages, NEW dt \in {0, 1}
  PROVE  /\ Older(n, dt) \in Ages
         /\ Older(n, dt) <= n + dt
         /\ Older(n, dt) = n + dt \/ Older(n, dt) = MaxAge
  BY TimesAssumption, NoneAssumption DEF Older, Ages

LEMMA OlderNone == ASSUME NEW dt PROVE Older(None, dt) = None
  BY DEF Older

\* The histories stay in their types.
LEMMA TrackTypes ==
  ASSUME Types, NEW dt \in {0, 1}, Track(dt), UNCHANGED keys
  PROVE  past' \in [keys' -> Told] /\ hurt' \in BOOLEAN /\ quiet' \in Ages
<1>1. hurt' \in BOOLEAN
  BY DEF Track
<1>2. quiet' \in Ages
  <2>1. 0 \in Ages
    BY TimesAssumption DEF Ages
  <2>2. Older(quiet, dt) \in Ages
    BY OlderAge DEF Types, Typed
  <2> QED
    BY <2>1, <2>2 DEF Track
<1>3. ASSUME NEW k \in keys PROVE past'[k] \in Told
  <2>1. past[k].age \in Ages /\ 0 \in Ages
    BY TimesAssumption DEF Types, Typed, Told, Ages
  <2>2. Older(past[k].age, dt) \in Ages
    BY <2>1, OlderAge
  <2> DEFINE fails == session' # "idle" /\ Fails(k)'
             age == IF fails = past[k].fails THEN Older(past[k].age, dt) ELSE 0
             told == fails /\ (past[k].told \/ Recorded(k))
             covered == Recorded(k) \/ (past[k].covered /\ (fails \/ age <= Interval))
  <2>3. past'[k] = [fails |-> fails, age |-> age, told |-> told, covered |-> covered]
    BY DEF Track
  <2>4. age \in Ages
    BY <2>1, <2>2
  <2>5. fails \in BOOLEAN
    OBVIOUS
  <2>6. told \in BOOLEAN
    OBVIOUS
  <2>7. covered \in BOOLEAN
    OBVIOUS
  <2> HIDE DEF fails, age, told, covered
  <2> QED
    BY <2>3, <2>4, <2>5, <2>6, <2>7 DEF Told
<1>4. past' = [k \in keys |-> past'[k]]
  BY DEF Track
<1> QED
  BY <1>1, <1>2, <1>3, <1>4

LEMMA TypesInit == Init => Types
<1> SUFFICES ASSUME Init PROVE Types
  OBVIOUS
<1>1. 0 \in Ages /\ 0 \in 0 .. Interval /\ 0 \in 0 .. MaxCount /\ 0 \in 0 .. MaxFaults
  BY TimesAssumption, BoundsAssumption DEF Ages
<1>2. meter \in Meters \cup {None}
  <2>1. meter \in (IF keys \cap Sources # {} THEN {Zero} ELSE {})
                 \cup (IF keys \cap {"sync", "processing"} = {} THEN {None} ELSE {})
    BY DEF Init
  <2>2. meter \in {Zero} \cup {None}
    BY <2>1
  <2>3. Zero \in Meters
    BY <1>1 DEF Zero, Meters
  <2> QED
    BY <2>2, <2>3
<1>3. past \in [keys -> Told]
  BY <1>1 DEF Init, Told
<1>4. Typed
  BY <1>1, <1>2, <1>3 DEF Init, Typed
<1>5. Kept
  BY <1>1 DEF Init, Fresh, Kept
<1>6. Numbered
  BY DEF Init, Numbered
<1> QED
  BY <1>4, <1>5, <1>6 DEF Types

\* A step of the process writes the cameras and the counters only.
LEMMA ProcessTypes ==
  ASSUME Types, InProcess, Track(0),
         camera' \in [Cameras -> [online : BOOLEAN, last : Ages \cup {None}]],
         meter' \in Meters \cup {None}
  PROVE  Types'
<1>1. Typed'
  BY TrackTypes DEF Types, Typed, InProcess
<1>2. Kept'
  BY DEF Types, Kept, InProcess
<1>3. Numbered'
  BY DEF Types, Numbered, InProcess
<1> QED
  BY <1>1, <1>2, <1>3 DEF Types

LEMMA CameraTypes ==
  ASSUME Types, NEW c \in Cameras, CameraFrame(c) \/ CameraError(c)
  PROVE  Types'
<1>1. 0 \in Ages
  BY TimesAssumption DEF Ages
<1>2. camera' \in [Cameras -> [online : BOOLEAN, last : Ages \cup {None}]]
  <2>1. CASE CameraFrame(c)
    BY <1>1, <2>1 DEF Types, Typed, CameraFrame
  <2>2. CASE CameraError(c)
    <3>1. camera[c] \in [online : BOOLEAN, last : Ages \cup {None}]
      BY DEF Types, Typed
    <3>2. [camera[c] EXCEPT !.online = FALSE] \in [online : BOOLEAN, last : Ages \cup {None}]
      BY <3>1
    <3> QED
      BY <2>2, <3>2 DEF Types, Typed, CameraError
  <2> QED
    BY <2>1, <2>2
<1> QED
  BY <1>2, ProcessTypes DEF Types, Typed, CameraFrame, CameraError

LEMMA CountTypes ==
  ASSUME Types, NEW counter \in {"total", "good", "bad"}, Count(counter)
  PROVE  Types'
<1>1. meter' \in Meters
  BY BoundsAssumption DEF Types, Typed, Count, Meters
<1> QED
  BY <1>1, ProcessTypes DEF Types, Typed, Count

LEMMA FailMeter ==
  ASSUME Types, Fail
  PROVE  meter \in Meters /\ meter' \in Meters /\ meter'.good = meter.good
<1>1. meter \in Meters /\ meter.errors + 1 \in 0 .. MaxCount
  BY BoundsAssumption DEF Types, Typed, Fail, Meters
<1>2. (meter.flag \/ "audit" \in keys) \in BOOLEAN
  OBVIOUS
<1> QED
  BY <1>1, <1>2 DEF Fail, Meters

LEMMA FailTypes == ASSUME Types, Fail PROVE Types'
  BY FailMeter, ProcessTypes DEF Types, Typed, Fail

LEMMA FlagTypes == ASSUME Types, NEW value \in BOOLEAN, Flag(value) PROVE Types'
<1>1. meter' \in Meters
  BY DEF Types, Typed, Flag, Meters
<1> QED
  BY <1>1, ProcessTypes DEF Types, Typed, Flag

\* Time passes.
LEMMA TickTypes == ASSUME Types, Tick PROVE Types'
<1>1. camera' \in [Cameras -> [online : BOOLEAN, last : Ages \cup {None}]]
  <2>1. ASSUME NEW c \in Cameras
        PROVE  /\ camera[c].online \in BOOLEAN
               /\ Older(camera[c].last, 1) \in Ages \cup {None}
    <3>1. camera[c] \in [online : BOOLEAN, last : Ages \cup {None}]
      BY DEF Types, Typed
    <3> QED
      BY <3>1, OlderAge, OlderNone
  <2> QED
    BY <2>1 DEF Tick
<1>2. due' \in 0 .. Interval
  BY TimesAssumption DEF Types, Typed, Tick
<1>3. Typed'
  BY <1>1, <1>2, TrackTypes DEF Types, Typed, Tick
<1>4. ASSUME NEW k \in keys
      PROVE  Aged(monitor.conditions[k]) \in {None} \cup [age : Ages, emitted : BOOLEAN]
  <2>1. CASE monitor.conditions[k] = None
    BY <2>1 DEF Aged
  <2>2. CASE monitor.conditions[k] # None
    <3>1. monitor.conditions[k] \in [age : Ages, emitted : BOOLEAN]
      BY <2>2 DEF Types, Kept
    <3>2. Older(monitor.conditions[k].age, 1) \in Ages
      BY <3>1, OlderAge
    <3> QED
      BY <2>2, <3>1, <3>2 DEF Aged
  <2> QED
    BY <2>1, <2>2
<1>5. monitor' = [conditions |-> [k \in keys |-> Aged(monitor.conditions[k])],
                  counts |-> monitor.counts, base |-> monitor.base, seen |-> monitor.seen]
  BY DEF Tick, Types, Kept
<1>6. Kept'
  BY <1>4, <1>5 DEF Types, Kept, Tick
<1>7. Numbered'
  BY <1>5 DEF Types, Numbered, Tick
<1> QED
  BY <1>3, <1>6, <1>7 DEF Types

\* What a poll leaves in the monitor and among the incidents.
LEMMA ReportTypes ==
  ASSUME Types, NEW P \in SUBSET Emitting, Report(P)
  PROVE  Kept' /\ Numbered'
<1>1. monitor' = Observed /\ UNCHANGED keys
  BY DEF Report
<1>2. ASSUME NEW k \in keys
      PROVE  Age(k) \in Ages /\ Emitted(k) \in BOOLEAN /\ Emits(k) \in BOOLEAN
  <2>1. 0 \in Ages
    BY TimesAssumption DEF Ages
  <2> QED
    BY <2>1 DEF Age, Emitted, Emits, Types, Kept
<1>3. monitor'.conditions \in [keys -> {None} \cup [age : Ages, emitted : BOOLEAN]]
  BY <1>1, <1>2 DEF Observed
<1>4. ASSUME NEW k \in keys
      PROVE  /\ monitor'.counts[k] = monitor.counts[k] + (IF Emits(k) THEN 1 ELSE 0)
             /\ monitor'.counts[k] \in Nat /\ monitor'.counts[k] >= monitor.counts[k]
  BY <1>1 DEF Observed, Types, Kept
<1>5. monitor'.counts \in [keys -> Nat]
  <2>1. monitor'.counts = [k \in keys |-> monitor'.counts[k]]
    BY <1>1 DEF Observed
  <2> QED
    BY <1>4, <2>1
<1>6. monitor'.base \in Meters \cup {None} /\ monitor'.seen \in 0 .. MaxCount
  <2>1. monitor'.base = Base /\ monitor'.seen = IF meter = None THEN 0 ELSE meter.good
    BY <1>1 DEF Observed
  <2>2. Base \in Meters \cup {None}
    BY DEF Base, Types, Typed, Kept
  <2>3. meter = None \/ meter.good \in 0 .. MaxCount
    BY DEF Types, Typed, Meters
  <2> QED
    BY <2>1, <2>2, <2>3, BoundsAssumption
<1>7. Kept'
  BY <1>1, <1>3, <1>5, <1>6 DEF Kept, Observed
<1>8. Numbered'
  <2> SUFFICES ASSUME NEW i \in incidents'
               PROVE  i.key \in keys /\ i.number \in 1 .. monitor'.counts[i.key]
    BY <1>1 DEF Numbered
  <2>1. CASE i \in incidents
    <3>1. i.key \in keys /\ i.number \in 1 .. monitor.counts[i.key]
      BY <2>1 DEF Types, Numbered
    <3>2. monitor.counts[i.key] \in Nat
      BY <3>1 DEF Types, Kept
    <3> QED
      BY <1>4, <3>1, <3>2
  <2>2. CASE i \notin incidents
    <3>1. PICK k \in P : i = Incident(k)
      BY <2>2 DEF Report
    <3>2. k \in keys /\ Emits(k) /\ i.key = k /\ i.number = monitor'.counts[k]
      BY <1>1, <3>1 DEF Emitting, Incident
    <3>3. monitor.counts[k] \in Nat
      BY <3>2 DEF Types, Kept
    <3> QED
      BY <1>4, <3>2, <3>3
  <2> QED
    BY <2>1, <2>2
<1> QED
  BY <1>7, <1>8

LEMMA PrefixesEmit == ASSUME NEW P \in Prefixes(Emitting) PROVE P \in SUBSET Emitting
  BY DEF Prefixes

\* The steps of the session.
LEMMA SessionTypes ==
  ASSUME Types, Start \/ Poll \/ PollRaises \/ Finish \/ FinishRaises
  PROVE  Types'
<1>1. UNCHANGED <<camera, keys, meter>> /\ Track(0)
  BY DEF Start, Poll, PollRaises, Finish, FinishRaises, Report
<1>2. due' \in 0 .. Interval
  BY TimesAssumption DEF Types, Typed, Start, Poll, PollRaises, Finish, FinishRaises
<1>3. faults' \in 0 .. MaxFaults
  BY BoundsAssumption DEF Types, Typed, Start, Poll, PollRaises, Finish, FinishRaises
<1>4. session' \in {"idle", "running", "finished"} /\ polling' \in BOOLEAN
  BY DEF Types, Typed, Start, Poll, PollRaises, Finish, FinishRaises
<1>5. Typed'
  BY <1>1, <1>2, <1>3, <1>4, TrackTypes DEF Types, Typed
<1>6. Kept' /\ Numbered'
  <2>1. CASE Start
    BY <2>1 DEF Start, Types, Kept, Numbered
  <2>2. CASE Poll \/ Finish
    <3>1. Report(Emitting)
      BY <2>2 DEF Poll, Finish
    <3> QED
      BY <3>1, ReportTypes
  <2>3. CASE PollRaises \/ FinishRaises
    <3>1. PICK P \in Prefixes(Emitting) : Report(P)
      BY <2>3 DEF PollRaises, FinishRaises
    <3> QED
      BY <3>1, PrefixesEmit, ReportTypes
  <2> QED
    BY <2>1, <2>2, <2>3
<1> QED
  BY <1>5, <1>6 DEF Types

LEMMA TypesStep == Types /\ [Next]_vars => Types'
<1> SUFFICES ASSUME Types, [Next]_vars PROVE Types'
  OBVIOUS
<1>1. CASE Tick
  BY <1>1, TickTypes
<1>2. CASE \E c \in Cameras : CameraFrame(c) \/ CameraError(c)
  BY <1>2, CameraTypes
<1>3. CASE Receive \/ Produce \/ Miss
  BY <1>3, CountTypes DEF Receive, Produce, Miss
<1>4. CASE Fail
  BY <1>4, FailTypes
<1>5. CASE \E value \in BOOLEAN : Flag(value)
  BY <1>5, FlagTypes
<1>6. CASE Start \/ Poll \/ PollRaises \/ Finish \/ FinishRaises
  BY <1>6, SessionTypes
<1>7. CASE UNCHANGED vars
  BY <1>7 DEF vars, Types, Typed, Kept, Numbered
<1> QED
  BY <1>1, <1>2, <1>3, <1>4, <1>5, <1>6, <1>7 DEF Next

\* Every variable keeps its type: ages and counters stay within their bounds,
\* and no incident has a number its condition has not counted.
THEOREM QualityTypes == Spec => []TypeOK
<1>1. Types => TypeOK
  BY DEF Types, Typed, Kept, Numbered, TypeOK, Told
<1> QED
  BY <1>1, TypesInit, TypesStep, PTL DEF Spec

(***************************************************************************)
(* No outage is missed: the age of a failure, the age the monitor gives    *)
(* the condition, and the time since the last poll bound each other.       *)
(***************************************************************************)
\* The time since the last poll, which is at most an interval.
Since == IF session = "finished" THEN 0 ELSE Interval - due

\* The history follows the health records.
Agrees == \A k \in keys : past[k].fails = (session # "idle" /\ Fails(k))

\* The thread polls as long as the session runs, the first time at once.
Prompt ==
  /\ polling = (session = "running")
  /\ session = "idle" => due = 0 /\ \A k \in keys : monitor.conditions[k] = None

\* A failure without a condition is younger than the last poll; one with a
\* condition is at most an interval older than that, and a condition that has
\* seen the grace time pass has raised its incident.
Measured(k) ==
  IF monitor.conditions[k] = None THEN past[k].fails => past[k].age <= Since
  ELSE /\ IF past[k].fails THEN past[k].age <= monitor.conditions[k].age + Interval
          ELSE past[k].age <= Since
       /\ IF monitor.conditions[k].emitted THEN past[k].covered
          ELSE monitor.conditions[k].age < Grace(k) + Since

Watched == Agrees /\ Prompt /\ \A k \in keys : Measured(k)

WatchInv == Types /\ (faults = 0 => Watched)

\* What is left of a wait, and what has passed of it.
LEMMA WaitRange ==
  ASSUME NEW n \in Nat, NEW d \in 0 .. n
  PROVE  n - d \in 0 .. n /\ 0 \in 0 .. n
  OBVIOUS

\* Every condition has a grace time.
LEMMA GraceNat == ASSUME NEW k PROVE Grace(k) \in Nat
  BY TimesAssumption DEF Grace

LEMMA SinceRange == ASSUME Types PROVE Since \in 0 .. Interval
  BY TimesAssumption DEF Types, Typed, Since

\* The invariant says what it is for: a failure as old as its patience has an
\* incident.
LEMMA WatchReported == WatchInv => OutageReported
<1> SUFFICES ASSUME Types, Watched, NEW k \in keys, past[k].fails, past[k].age >= Patience(k)
             PROVE  past[k].covered
  BY DEF WatchInv, OutageReported, Reported
<1>1. past[k].age \in Nat /\ Grace(k) \in Nat /\ Interval \in Nat \ {0} /\ due \in 0 .. Interval
  BY GraceNat, TimesAssumption DEF Types, Typed, Told, Ages
<1>2. Measured(k)
  BY DEF Watched
<1>3. past[k].age >= Grace(k) + Since + Interval /\ Since \in Nat
  BY <1>1 DEF Patience, Since
<1>4. CASE monitor.conditions[k] = None
  BY <1>1, <1>2, <1>3, <1>4 DEF Measured
<1>5. CASE monitor.conditions[k] # None
  <2>1. monitor.conditions[k].age \in Nat
    BY <1>5 DEF Types, Kept, Ages
  <2> QED
    BY <1>1, <1>2, <1>3, <1>5, <2>1 DEF Measured
<1> QED
  BY <1>4, <1>5

\* What a step does to the history of a condition.
LEMMA TrackPast ==
  ASSUME NEW dt, Track(dt), NEW k \in keys
  PROVE  /\ past'[k].fails = (session' # "idle" /\ Fails(k)')
         /\ past'[k].fails = past[k].fails => past'[k].age = Older(past[k].age, dt)
         /\ past'[k].fails # past[k].fails => past'[k].age = 0
         /\ Recorded(k) => past'[k].covered
         /\ past[k].covered /\ (past'[k].fails \/ past'[k].age <= Interval) => past'[k].covered
  BY DEF Track

\* An age does not grow in a step that takes no time.
LEMMA OlderNow == ASSUME NEW n \in Ages PROVE Older(n, 0) = n
  BY TimesAssumption, NoneAssumption DEF Older, Ages

LEMMA AgreesStep ==
  ASSUME NEW dt, Track(dt), UNCHANGED keys
  PROVE  Agrees'
  BY TrackPast DEF Agrees

\* A step that leaves the session and its monitor alone.
LEMMA QuietWatch ==
  ASSUME Types, Watched, Track(0),
         UNCHANGED <<keys, monitor, incidents, session, polling, due>>
  PROVE  Watched'
<1>1. Agrees'
  BY AgreesStep
<1>2. Prompt'
  BY DEF Watched, Prompt
<1>3. ASSUME NEW k \in keys PROVE Measured(k)'
  <2>1. past[k].age \in Ages /\ past[k].age >= 0 /\ Since \in 0 .. Interval
    BY SinceRange, TimesAssumption DEF Types, Typed, Told, Ages
  <2>2. /\ past'[k].age = past[k].age \/ past'[k].age = 0
        /\ past'[k].fails = past[k].fails => past'[k].age = past[k].age
        /\ past'[k].fails # past[k].fails => past'[k].age = 0
    BY <2>1, TrackPast, OlderNow
  <2>3. Since' = Since /\ monitor' = monitor
    BY DEF Since
  <2>4. Measured(k)
    BY DEF Watched
  <2>5. CASE monitor.conditions[k] = None
    BY <2>1, <2>2, <2>3, <2>4, <2>5 DEF Measured
  <2>6. CASE monitor.conditions[k] # None
    <3>1. monitor.conditions[k].age \in Nat
      BY <2>6 DEF Types, Kept, Ages
    <3>2. IF past'[k].fails THEN past'[k].age <= monitor.conditions[k].age + Interval
          ELSE past'[k].age <= Since
      BY <2>1, <2>2, <2>4, <2>6, <3>1, TimesAssumption DEF Measured
    <3>3. past[k].covered => past'[k].covered
      <4>1. past'[k].fails \/ past'[k].age <= Interval
        BY <2>1, <2>2, <3>2, TimesAssumption DEF Ages
      <4> QED
        BY <4>1, TrackPast
    <3> QED
      BY <2>3, <2>4, <2>6, <3>2, <3>3 DEF Measured, Grace
  <2> QED
    BY <2>5, <2>6
<1> QED
  BY <1>1, <1>2, <1>3 DEF Watched

\* Time passes: for the failure, its condition and the next poll alike.
LEMMA TickWatch == ASSUME Types, Types', Watched, Tick PROVE Watched'
<1>1. Agrees'
  BY AgreesStep DEF Tick
<1>2. Prompt'
  BY DEF Watched, Prompt, Tick, Aged
<1>3. ASSUME NEW k \in keys PROVE Measured(k)'
  <2>1. past[k].age \in Ages /\ past'[k].age \in Ages
    BY DEF Types, Typed, Told, Tick
  <2>2. past'[k].fails # past[k].fails => past'[k].age = 0
    BY TrackPast DEF Tick
  <2>3. past'[k].fails = past[k].fails => past'[k].age <= past[k].age + 1
    <3>1. Older(past[k].age, 1) <= past[k].age + 1
      BY <2>1, OlderAge
    <3> QED
      BY <3>1, TrackPast DEF Tick
  <2>4. Since \in 0 .. Interval /\ Since' \in 0 .. Interval
    <3>1. due' \in 0 .. Interval
      BY DEF Types, Typed
    <3>2. Since' \in 0 .. Interval
      <4>1. Since' = IF session' = "finished" THEN 0 ELSE Interval - due'
        BY DEF Since
      <4>2. Interval \in Nat
        BY TimesAssumption
      <4>3. Interval - due' \in 0 .. Interval /\ 0 \in 0 .. Interval
        BY <3>1, <4>2, WaitRange
      <4> QED
        BY <4>1, <4>3
    <3>3. Since \in 0 .. Interval
      BY SinceRange
    <3> QED
      BY <3>2, <3>3
  <2>5. session # "idle" => Since' = Since + 1
    <3> SUFFICES ASSUME session # "idle" PROVE Since' = Since + 1
      OBVIOUS
    <3>1. session = "running" /\ session' = "running"
      BY DEF Tick, Types, Typed
    <3>2. polling /\ due' = due - 1
      BY <3>1 DEF Tick, Watched, Prompt
    <3>3. due \in Int
      BY TimesAssumption DEF Types, Typed
    <3> QED
      BY <3>1, <3>2, <3>3, TimesAssumption DEF Since
  <2>6. Measured(k)
    BY DEF Watched
  <2>7. monitor'.conditions[k] = Aged(monitor.conditions[k])
    BY DEF Tick, Types, Kept
  <2>8. CASE session = "idle"
    <3>1. monitor'.conditions[k] = None /\ ~past'[k].fails
      BY <2>7, <2>8, TrackPast DEF Watched, Prompt, Aged, Tick
    <3> QED
      BY <3>1 DEF Measured
  <2>9. CASE session # "idle" /\ monitor.conditions[k] = None
    <3>1. monitor'.conditions[k] = None
      BY <2>7, <2>9 DEF Aged
    <3>2. past'[k].fails => past'[k].age <= Since'
      <4>1. past[k].age \in Int /\ past'[k].age \in Int /\ Since \in Int /\ Since' >= 0
        BY <2>1, <2>4, TimesAssumption DEF Ages
      <4>2. past[k].fails => past[k].age <= Since
        BY <2>6, <2>9 DEF Measured
      <4> QED
        <5>1. CASE past'[k].fails # past[k].fails
          BY <2>2, <4>1, <5>1
        <5>2. CASE past'[k].fails = past[k].fails
          <6> SUFFICES ASSUME past'[k].fails PROVE past'[k].age <= Since'
            OBVIOUS
          <6>1. past[k].age <= Since
            BY <4>2, <5>2
          <6>2. past'[k].age <= past[k].age + 1 /\ Since' = Since + 1
            BY <2>3, <2>5, <2>9, <5>2
          <6> QED
            BY <4>1, <6>1, <6>2
        <5> QED
          BY <5>1, <5>2
    <3> QED
      BY <3>1, <3>2 DEF Measured
  <2>10. CASE session # "idle" /\ monitor.conditions[k] # None
    <3> DEFINE c == monitor.conditions[k]
               d == monitor'.conditions[k]
    <3>1. c \in [age : Ages, emitted : BOOLEAN]
      BY <2>10 DEF Types, Kept
    <3>2. d = [age |-> Older(c.age, 1), emitted |-> c.emitted]
      BY <2>7, <2>10 DEF Aged
    <3>3. d.age \in Ages /\ d.age <= c.age + 1 /\ (d.age = c.age + 1 \/ d.age = MaxAge)
      BY <3>1, <3>2, OlderAge
    <3>4. d # None
      <4>1. d \in [age : Nat, emitted : BOOLEAN]
        BY <3>1, <3>2, <3>3 DEF Ages
      <4> QED
        BY <4>1, NoneAssumption
    <3>5. IF past'[k].fails THEN past'[k].age <= d.age + Interval
          ELSE past'[k].age <= Since'
      <4>1. c.age \in Nat /\ d.age \in Nat /\ past[k].age \in Nat /\ past'[k].age \in Nat
            /\ past'[k].age <= MaxAge
        BY <2>1, <3>1, <3>3 DEF Ages
      <4>2. CASE past'[k].fails # past[k].fails
        BY <2>2, <2>4, <4>1, <4>2, TimesAssumption
      <4>3. CASE past'[k].fails = past[k].fails
        <5>1. IF past[k].fails THEN past[k].age <= c.age + Interval ELSE past[k].age <= Since
          BY <2>6, <2>10 DEF Measured
        <5> HIDE DEF c, d
        <5> QED
          BY <2>3, <2>4, <2>5, <2>10, <3>3, <4>1, <4>3, <5>1, TimesAssumption
      <4> QED
        BY <4>2, <4>3
    <3>6. past[k].covered => past'[k].covered
      <4>1. past'[k].fails \/ past'[k].age <= Interval
        <5>1. past'[k].age \in Int /\ Since' \in Int /\ Since' <= Interval
          BY <2>1, <2>4, TimesAssumption DEF Ages
        <5> QED
          BY <3>5, <5>1, TimesAssumption
      <4> QED
        BY <4>1, TrackPast DEF Tick
    <3>7. IF c.emitted THEN past'[k].covered ELSE d.age < Grace(k) + Since'
      <4>1. c.age \in Nat /\ d.age \in Nat /\ Grace(k) \in Nat
        BY <3>1, <3>3, GraceNat DEF Ages
      <4>2. IF c.emitted THEN past[k].covered ELSE c.age < Grace(k) + Since
        BY <2>6, <2>10 DEF Measured
      <4> HIDE DEF c, d
      <4> QED
        BY <2>4, <2>5, <2>10, <3>3, <3>6, <4>1, <4>2
    <3>8. Grace(k)' = Grace(k) /\ d.emitted = c.emitted
      BY <3>2 DEF Grace
    <3> QED
      BY <3>4, <3>5, <3>7, <3>8 DEF Measured
  <2> QED
    BY <2>8, <2>9, <2>10
<1> QED
  BY <1>1, <1>2, <1>3 DEF Watched, Tick

\* A session starts with no condition, and is polled at once.
LEMMA StartWatch == ASSUME Types, Watched, Start PROVE Watched'
<1>1. Agrees'
  BY AgreesStep DEF Start
<1>2. Prompt'
  BY DEF Prompt, Start
<1>3. ASSUME NEW k \in keys PROVE Measured(k)'
  <2>1. monitor'.conditions[k] = None /\ ~past[k].fails
    BY DEF Watched, Prompt, Agrees, Start
  <2>2. past'[k].fails => past'[k].age = 0
    BY <2>1, TrackPast DEF Start
  <2>3. Since' = Interval
    BY TimesAssumption DEF Since, Start
  <2> QED
    BY <2>1, <2>2, <2>3, TimesAssumption DEF Measured
<1> QED
  BY <1>1, <1>2, <1>3 DEF Watched, Start

\* What fails in a poll still fails after it: the baselines are those it used.
LEMMA StillFails ==
  ASSUME Types, NEW P, Report(P), NEW k \in keys, Fails(k)
  PROVE  Fails(k)'
<1>1. UNCHANGED <<camera, keys, meter>> /\ monitor' = Observed
  BY DEF Report
<1>2. CASE k \in Cameras
  BY <1>1, <1>2 DEF Fails, CameraFails
<1>3. CASE k \notin Cameras
  <2>1. monitor'.base = Base /\ monitor'.seen = IF meter = None THEN 0 ELSE meter.good
    BY <1>1 DEF Observed
  <2>2. Base' = Base
    BY <1>1, <2>1 DEF Base
  <2>3. meter # None => Seen' = meter.good
    BY <1>1, <2>1 DEF Seen, Base
  <2>4. SourceFails
    BY <1>3 DEF Fails
  <2>5. SourceFails'
    BY <1>1, <2>2, <2>3, <2>4 DEF SourceFails
  <2> QED
    BY <1>3, <2>5 DEF Fails
<1> QED
  BY <1>2, <1>3

\* An emitting condition gets an incident no earlier one has.
LEMMA EmitsRecorded ==
  ASSUME Types, Report(Emitting), NEW k \in keys, Emits(k)
  PROVE  Recorded(k)
<1>1. Incident(k) \in incidents' /\ Incident(k).key = k
  BY DEF Report, Emitting, Incident
<1>2. Incident(k).number = monitor.counts[k] + 1
  BY DEF Incident, Observed
<1>3. monitor.counts[k] \in Nat
  BY DEF Types, Kept
<1>4. ASSUME NEW i \in incidents, i.key = k PROVE i.number <= monitor.counts[k]
  BY <1>3, <1>4 DEF Types, Numbered
<1>5. Incident(k) \notin incidents
  BY <1>1, <1>2, <1>3, <1>4
<1> QED
  BY <1>1, <1>5 DEF Recorded

\* A poll sees every failure, and the incident of one that has waited.
LEMMA PollWatch == ASSUME Types, Types', Watched, Poll \/ Finish PROVE Watched'
<1>1. /\ Report(Emitting) /\ Track(0) /\ monitor' = Observed
      /\ UNCHANGED <<camera, keys, meter>> /\ session = "running"
  BY DEF Poll, Finish, Report, Watched, Prompt
<1>2. Agrees'
  BY <1>1, AgreesStep
<1>3. Prompt'
  BY <1>1 DEF Watched, Prompt, Poll, Finish
<1>4. Since' = 0 /\ Since \in 0 .. Interval
  BY SinceRange, TimesAssumption DEF Since, Poll, Finish
<1>5. ASSUME NEW k \in keys PROVE Measured(k)'
  <2>1. past[k].age \in Ages /\ past'[k].age \in Ages
    BY <1>1 DEF Types, Typed, Told
  <2>2. /\ past'[k].fails = past[k].fails => past'[k].age = past[k].age
        /\ past'[k].fails # past[k].fails => past'[k].age = 0
    BY <1>1, <2>1, TrackPast, OlderNow
  <2>3. past[k].fails = Fails(k) /\ past[k].fails \in BOOLEAN /\ past'[k].fails = Fails(k)'
    <3>1. session' # "idle"
      BY <1>1 DEF Poll, Finish
    <3>2. past[k].fails \in BOOLEAN
      BY DEF Types, Typed, Told
    <3>3. Fails(k) \in BOOLEAN /\ Fails(k)' \in BOOLEAN
      BY DEF Fails, CameraFails, SourceFails
    <3>4. past'[k].fails = (session' # "idle" /\ Fails(k)')
      BY <1>1, TrackPast
    <3>5. past[k].fails = (session # "idle" /\ Fails(k))
      BY DEF Watched, Agrees
    <3> QED
      BY <1>1, <3>1, <3>2, <3>3, <3>4, <3>5
  <2>4. CASE ~Fails(k)
    <3>1. monitor'.conditions[k] = None
      BY <1>1, <2>4 DEF Observed
    <3>2. past'[k].fails => past'[k].age = 0
      BY <2>2, <2>3, <2>4
    <3> QED
      BY <1>4, <3>1, <3>2 DEF Measured
  <2>5. CASE Fails(k)
    <3> DEFINE d == monitor'.conditions[k]
    <3>1. past[k].fails /\ past'[k].fails /\ past'[k].age = past[k].age
      BY <1>1, <2>2, <2>3, <2>5, StillFails
    <3>2. d = [age |-> Age(k), emitted |-> Emitted(k) \/ Emits(k)]
      BY <1>1, <2>5 DEF Observed
    <3>3. Age(k) \in Ages /\ Age(k) \in Nat
      BY TimesAssumption DEF Age, Types, Kept, Ages
    <3>4. Emitted(k) \in BOOLEAN /\ Emits(k) \in BOOLEAN
      BY DEF Emitted, Emits, Types, Kept
    <3>5. d # None
      <4>1. d \in [age : Nat, emitted : BOOLEAN]
        BY <3>2, <3>3, <3>4
      <4> QED
        BY <4>1, NoneAssumption
    <3>6. Measured(k)
      BY DEF Watched
    <3>7. past'[k].age <= Age(k) + Interval
      BY <1>4, <2>1, <3>1, <3>3, <3>6, TimesAssumption DEF Measured, Age, Ages
    <3>8. Emitted(k) => past'[k].covered
      <4>1. Emitted(k) => past[k].covered
        BY <3>6 DEF Measured, Emitted
      <4> QED
        BY <1>1, <3>1, <4>1, TrackPast
    <3>9. Emits(k) => past'[k].covered
      BY <1>1, EmitsRecorded, TrackPast
    <3>10. ~Emitted(k) /\ ~Emits(k) => Age(k) < Grace(k)
      BY <2>5, <3>3, GraceNat DEF Emits, Age
    <3>11. Grace(k)' = Grace(k) /\ Grace(k) \in Nat
      BY GraceNat DEF Grace
    <3>12. d.age = Age(k) /\ d.emitted = (Emitted(k) \/ Emits(k))
      BY <3>2
    <3>13. IF d.emitted THEN past'[k].covered ELSE d.age < Grace(k)' + Since'
      <4>1. CASE d.emitted
        BY <3>8, <3>9, <3>12, <4>1
      <4>2. CASE ~d.emitted
        <5>1. ~Emitted(k) /\ ~Emits(k)
          BY <3>12, <4>2
        <5> HIDE DEF d
        <5> QED
          BY <1>4, <3>10, <3>11, <3>12, <4>2, <5>1
      <4> QED
        BY <4>1, <4>2
    <3>14. IF past'[k].fails THEN past'[k].age <= d.age + Interval ELSE past'[k].age <= Since'
      BY <3>1, <3>7, <3>12
    <3> QED
      BY <3>5, <3>13, <3>14 DEF Measured
  <2> QED
    BY <2>4, <2>5
<1> QED
  BY <1>1, <1>2, <1>3, <1>5 DEF Watched

LEMMA WatchInit == Init => WatchInv
<1> SUFFICES ASSUME Init PROVE Types /\ Watched
  BY DEF WatchInv
<1>1. Agrees
  BY DEF Init, Agrees
<1>2. Prompt
  BY DEF Init, Fresh, Prompt
<1>3. \A k \in keys : Measured(k)
  BY DEF Init, Fresh, Measured
<1> QED
  BY <1>1, <1>2, <1>3, TypesInit DEF Watched

\* Every step keeps what is measured, as long as no callback raises.
LEMMA WatchStep == WatchInv /\ [Next]_vars => WatchInv'
<1> SUFFICES ASSUME WatchInv, [Next]_vars, Types', faults' = 0 PROVE Watched'
  BY TypesStep DEF WatchInv
<1>1. CASE UNCHANGED vars
  BY <1>1 DEF vars, WatchInv, Watched, Agrees, Prompt, Measured, Since, Fails, CameraFails,
              SourceFails, Base, Seen, Grace
<1>2. CASE Next
  <2>1. faults = 0
    BY <1>2, BoundsAssumption DEF Next, WatchInv, Types, Typed, Tick, CameraFrame, CameraError,
       Receive, Produce, Miss, Fail, Flag, Count, InProcess, Start, Poll, PollRaises, Finish,
       FinishRaises
  <2>2. Types /\ Watched
    BY <2>1 DEF WatchInv
  <2>3. ~PollRaises /\ ~FinishRaises
    BY <2>1 DEF PollRaises, FinishRaises
  <2>4. CASE Tick
    BY <2>2, <2>4, TickWatch
  <2>5. CASE Start
    BY <2>2, <2>5, StartWatch
  <2>6. CASE Poll \/ Finish
    BY <2>2, <2>6, PollWatch
  <2>7. CASE \/ \E c \in Cameras : CameraFrame(c) \/ CameraError(c)
             \/ Receive \/ Produce \/ Miss \/ Fail
             \/ \E value \in BOOLEAN : Flag(value)
    <3>1. Track(0) /\ UNCHANGED <<keys, monitor, incidents, session, polling, due>>
      BY <2>7 DEF CameraFrame, CameraError, Receive, Produce, Miss, Fail, Flag, Count, InProcess
    <3> QED
      BY <2>2, <3>1, QuietWatch
  <2> QED
    BY <1>2, <2>3, <2>4, <2>5, <2>6, <2>7 DEF Next
<1> QED
  BY <1>1, <1>2

\* A camera or a counted source that fails without a break for its grace time
\* and the polls around it has an incident, the second outage as the first,
\* as long as no callback of an incident has raised.
THEOREM NoOutageMissed == Spec => []OutageReported
  BY WatchInit, WatchStep, WatchReported, PTL DEF Spec

(***************************************************************************)
(* The past is forgiven: what a session blames a counted source for        *)
(* happened in this session.                                               *)
(***************************************************************************)
\* Without a miss, an error or a flag, the counters stand where the baseline
\* found them, and a condition is as young as the source's last output.
Clean ==
  /\ meter # None /\ ~meter.flag
  /\ monitor.base # None =>
       /\ meter.bad <= monitor.base.bad /\ meter.errors <= monitor.base.errors
       /\ monitor.seen <= meter.good
  /\ \A k \in keys \ Cameras : monitor.conditions[k] # None =>
       /\ monitor.base # None
       /\ meter.good = monitor.seen => monitor.conditions[k].age <= quiet

\* A session brings a monitor of its own, and only it is polled.
Fore ==
  /\ polling => session = "running"
  /\ session = "idle" => monitor.base = None /\ \A k \in keys : monitor.conditions[k] = None

ForgivenInv == Types /\ Fore /\ (session # "idle" /\ ~hurt => Clean)

\* Without misses no ratio is exceeded, whatever the total.
LEMMA RatioNone == ASSUME NEW b \in Int, b <= 0, NEW t \in Int PROVE ~Ratio(b, t)
<1> SUFFICES ASSUME t > 0 PROVE b * 100 <= MissPercent * t
  BY LimitsAssumption DEF Ratio
<1>1. b * 100 <= 0
  OBVIOUS
<1>2. MissPercent * t \in Nat
  <2>1. MissPercent \in Nat /\ t \in Nat
    BY LimitsAssumption
  <2>2. \A m, n \in Nat : m * n \in Nat
    OBVIOUS
  <2> QED
    BY <2>1, <2>2
<1> QED
  BY <1>1, <1>2

\* A clean source fails only when no output has come since the last poll.
LEMMA CleanFails ==
  ASSUME Types, Clean, SourceFails
  PROVE  "sync" \in keys /\ meter.good = Seen
<1>1. meter \in Meters /\ Base \in Meters /\ meter.bad <= Base.bad /\ meter.errors <= Base.errors
  BY DEF Types, Typed, Kept, Clean, Base, Meters
<1>2. /\ meter.bad \in Nat /\ meter.errors \in Nat /\ meter.total \in Nat
      /\ Base.bad \in Nat /\ Base.errors \in Nat /\ Base.total \in Nat
  BY <1>1 DEF Meters
<1>3. ~Ratio(meter.bad - Base.bad, meter.total - Base.total)
  BY <1>1, <1>2, RatioNone
<1>4. ~(meter.errors - Base.errors > MaxErrors)
  BY <1>1, <1>2, LimitsAssumption
<1> QED
  BY <1>3, <1>4 DEF Clean, SourceFails

\* What a step of a session that stays clean has done to the counters.
LEMMA TrackHurt ==
  ASSUME Types, NEW dt, Track(dt), ~hurt', session' # "idle"
  PROVE  /\ ~hurt /\ meter' # None /\ ~meter'.flag
         /\ session = "running" => ~(meter'.bad > meter.bad) /\ ~(meter'.errors > meter.errors)
  BY DEF Track

LEMMA TrackQuiet ==
  ASSUME Types, NEW dt, Track(dt), session # "idle", meter' # None
  PROVE  quiet' = IF meter'.good > meter.good THEN 0 ELSE Older(quiet, dt)
  BY DEF Track

\* The counters of a running process only grow.
LEMMA CountersGrow ==
  ASSUME Types, Next
  PROVE  /\ meter' = None <=> meter = None
         /\ meter # None => meter'.good >= meter.good
<1>1. CASE UNCHANGED meter
  BY <1>1 DEF Types, Typed, Meters
<1>2. ASSUME NEW counter \in {"total", "good", "bad"}, Count(counter)
      PROVE  meter # None /\ meter' # None /\ meter'.good >= meter.good
  <2>1. meter \in Meters /\ meter # None /\ meter' = [meter EXCEPT ![counter] = @ + 1]
    BY <1>2 DEF Types, Typed, Count
  <2>2. meter' \in [total : Nat, good : Nat, bad : Nat, errors : Nat, flag : BOOLEAN]
    BY <2>1 DEF Meters
  <2>3. meter'.good >= meter.good
    BY <2>1 DEF Meters
  <2> QED
    BY <2>1, <2>2, <2>3, NoneAssumption
<1>3. CASE Fail \/ \E value \in BOOLEAN : Flag(value)
  <2>1. meter \in Meters /\ meter # None
    BY <1>3 DEF Types, Typed, Fail, Flag
  <2>2. meter' \in Meters /\ meter'.good = meter.good
    <3>1. CASE Fail
      BY <3>1, FailMeter
    <3>2. CASE \E value \in BOOLEAN : Flag(value)
      BY <2>1, <3>2 DEF Flag, Meters
    <3> QED
      BY <1>3, <3>1, <3>2
  <2>3. meter' \in [total : Nat, good : Nat, bad : Nat, errors : Nat, flag : BOOLEAN]
    BY <2>2 DEF Meters
  <2> QED
    BY <2>1, <2>2, <2>3, NoneAssumption DEF Meters
<1> QED
  BY <1>1, <1>2, <1>3 DEF Next, Tick, CameraFrame, CameraError, Receive, Produce, Miss, Start,
     Poll, PollRaises, Finish, FinishRaises, Report

LEMMA ForgivenInit == Init => ForgivenInv
<1> SUFFICES ASSUME Init PROVE ForgivenInv
  OBVIOUS
<1>1. Fore /\ session = "idle"
  BY DEF Init, Fresh, Fore
<1> QED
  BY <1>1, TypesInit DEF ForgivenInv

\* The counters move while the monitor waits.
LEMMA ProcessClean ==
  ASSUME Types, Types', ForgivenInv, Next, Track(0), session # "idle", ~hurt',
         UNCHANGED <<keys, monitor, session>>
  PROVE  Clean'
<1>1. ~hurt /\ meter' # None /\ ~meter'.flag /\ Clean
  BY TrackHurt DEF ForgivenInv
<1>2. meter # None /\ meter \in Meters /\ meter' \in Meters /\ meter'.good >= meter.good
  BY <1>1, CountersGrow DEF Types, Typed
<1>3. \/ ~(meter'.bad > meter.bad) /\ ~(meter'.errors > meter.errors)
      \/ UNCHANGED meter
  <2>1. session = "running" \/ UNCHANGED meter
    BY DEF Types, Typed, Next, Tick, CameraFrame, CameraError, Receive, Produce, Miss, Fail, Flag,
       Count, InProcess, Start, Poll, PollRaises, Finish, FinishRaises, Report
  <2> QED
    BY <2>1, TrackHurt
<1>4. /\ meter.bad \in Nat /\ meter.errors \in Nat /\ meter.good \in Nat
      /\ meter'.bad \in Nat /\ meter'.errors \in Nat /\ meter'.good \in Nat
  BY <1>2 DEF Meters
<1>5. meter'.bad <= meter.bad /\ meter'.errors <= meter.errors
  BY <1>3, <1>4
<1>6. ASSUME monitor.base # None
      PROVE  /\ meter'.bad <= monitor.base.bad /\ meter'.errors <= monitor.base.errors
             /\ monitor.seen <= meter'.good
  <2>1. monitor.base.bad \in Nat /\ monitor.base.errors \in Nat /\ monitor.seen \in Nat
    BY <1>6 DEF Types, Kept, Meters
  <2>2. /\ meter.bad <= monitor.base.bad /\ meter.errors <= monitor.base.errors
        /\ monitor.seen <= meter.good
    BY <1>1, <1>6 DEF Clean
  <2> QED
    BY <1>2, <1>4, <1>5, <2>1, <2>2
<1>7. ASSUME NEW k \in keys \ Cameras, monitor.conditions[k] # None
      PROVE  /\ monitor.base # None
             /\ meter'.good = monitor.seen => monitor.conditions[k].age <= quiet'
  <2>1. monitor.base # None /\ (meter.good = monitor.seen => monitor.conditions[k].age <= quiet)
    BY <1>1, <1>7 DEF Clean
  <2> SUFFICES ASSUME meter'.good = monitor.seen PROVE monitor.conditions[k].age <= quiet'
    BY <2>1
  <2>2. monitor.seen <= meter.good /\ monitor.seen \in Nat
    BY <1>1, <2>1 DEF Clean, Types, Kept
  <2>3. meter'.good = meter.good /\ meter.good = monitor.seen
    BY <1>2, <1>4, <2>2
  <2>4. quiet' = quiet
    <3>1. quiet' = Older(quiet, 0)
      BY <1>1, <1>4, <2>3, TrackQuiet
    <3> QED
      BY <3>1, OlderNow DEF Types, Typed
  <2> QED
    BY <2>1, <2>3, <2>4
<1> QED
  BY <1>1, <1>6, <1>7 DEF Clean

\* Time passes for the condition and for the source alike.
LEMMA TickClean ==
  ASSUME Types, Types', ForgivenInv, Tick, session # "idle", ~hurt'
  PROVE  Clean'
<1>1. ~hurt /\ meter' = meter /\ Clean /\ Track(1) /\ session' = session
  BY TrackHurt DEF ForgivenInv, Tick
<1>2. /\ monitor'.conditions = [k \in keys |-> Aged(monitor.conditions[k])]
      /\ monitor'.base = monitor.base /\ monitor'.seen = monitor.seen /\ keys' = keys
  BY DEF Tick, Types, Kept
<1>3. ASSUME NEW k \in keys \ Cameras, monitor'.conditions[k] # None
      PROVE  /\ monitor.base # None
             /\ meter.good = monitor.seen => monitor'.conditions[k].age <= quiet'
  <2>1. monitor.conditions[k] # None
    BY <1>2, <1>3 DEF Aged
  <2>2. monitor.base # None /\ (meter.good = monitor.seen => monitor.conditions[k].age <= quiet)
    BY <1>1, <2>1 DEF Clean
  <2>3. monitor.conditions[k].age \in Ages /\ quiet \in Ages
    BY <2>1 DEF Types, Typed, Kept
  <2>4. monitor'.conditions[k].age = Older(monitor.conditions[k].age, 1)
    BY <1>2, <2>1 DEF Aged
  <2>5. quiet' = Older(quiet, 1)
    <3>1. ~(meter.good > meter.good)
      BY <1>1 DEF Types, Typed, Clean, Meters
    <3> QED
      BY <1>1, <3>1, TrackQuiet DEF Clean
  <2>6. \A a, b \in Ages : a <= b => Older(a, 1) <= Older(b, 1)
    BY TimesAssumption, NoneAssumption DEF Older, Ages
  <2> QED
    BY <2>2, <2>3, <2>4, <2>5, <2>6
<1> QED
  BY <1>1, <1>2, <1>3 DEF Clean

\* A poll takes the counters as they are; a condition it keeps is that of a
\* source whose output has stayed away.
LEMMA ReportClean ==
  ASSUME Types, ForgivenInv, NEW P, Report(P), Track(0), session = "running",
         session' # "idle", ~hurt'
  PROVE  Clean'
<1>1. ~hurt /\ Clean /\ UNCHANGED <<keys, meter>> /\ monitor' = Observed
  BY TrackHurt DEF ForgivenInv, Report
<1>2. meter \in Meters /\ meter.good \in Nat /\ meter.bad \in Nat /\ meter.errors \in Nat
  BY <1>1 DEF Types, Typed, Clean, Meters
<1>3. monitor'.base = Base /\ monitor'.seen = meter.good
  BY <1>1 DEF Observed, Clean
<1>4. Base # None /\ meter.bad <= Base.bad /\ meter.errors <= Base.errors
  BY <1>1, <1>2 DEF Base, Clean
<1>5. ASSUME NEW k \in keys \ Cameras, monitor'.conditions[k] # None
      PROVE  monitor'.conditions[k].age <= quiet'
  <2>1. SourceFails /\ monitor'.conditions[k].age = Age(k)
    BY <1>1, <1>5 DEF Observed, Fails
  <2>2. meter.good = Seen
    BY <1>1, <2>1, CleanFails
  <2>3. quiet' = quiet /\ quiet \in Nat
    <3>1. quiet' = Older(quiet, 0)
      <4>1. meter' # None /\ ~(meter'.good > meter.good)
        BY <1>1, <1>2 DEF Clean
      <4> QED
        BY <4>1, TrackQuiet
    <3> QED
      BY <3>1, OlderNow DEF Types, Typed, Ages
  <2>4. CASE monitor.conditions[k] = None
    BY <2>1, <2>3, <2>4 DEF Age
  <2>5. CASE monitor.conditions[k] # None
    <3>1. monitor.base # None /\ (meter.good = monitor.seen => monitor.conditions[k].age <= quiet)
      BY <1>1, <2>5 DEF Clean
    <3>2. meter.good = monitor.seen
      BY <2>2, <3>1 DEF Seen
    <3> QED
      BY <2>1, <2>3, <2>5, <3>1, <3>2 DEF Age
  <2> QED
    BY <2>4, <2>5
<1> QED
  BY <1>1, <1>2, <1>3, <1>4, <1>5 DEF Clean

\* Each step of Next reports, ticks, starts, or leaves the monitor alone.
LEMMA ForgivenStep == ForgivenInv /\ [Next]_vars => ForgivenInv'
<1> SUFFICES ASSUME ForgivenInv, [Next]_vars PROVE ForgivenInv'
  OBVIOUS
<1>1. Types /\ Types' /\ Fore
  BY TypesStep DEF ForgivenInv
<1>2. CASE UNCHANGED vars
  BY <1>1, <1>2 DEF vars, ForgivenInv, Fore, Clean
<1>3. CASE Tick
  <2>1. Fore'
    <3>1. session' = session /\ polling' = polling /\ keys' = keys
      BY <1>3 DEF Tick
    <3>2. monitor'.base = monitor.base
          /\ \A k \in keys : monitor'.conditions[k] = Aged(monitor.conditions[k])
      BY <1>1, <1>3 DEF Tick, Types, Kept
    <3> QED
      BY <1>1, <3>1, <3>2 DEF Fore, Aged
  <2> QED
    BY <1>1, <1>3, <2>1, TickClean DEF ForgivenInv, Tick
<1>4. CASE Start
  <2>1. Fore'
    BY <1>4 DEF Start, Fore
  <2>2. ~hurt' => Clean'
    <3>1. monitor' = monitor /\ keys' = keys /\ session' = "running" /\ Track(0)
          /\ monitor.base = None /\ \A k \in keys : monitor.conditions[k] = None
      BY <1>1, <1>4 DEF Start, Fore
    <3>2. ~hurt' => meter' # None /\ ~meter'.flag
      BY <1>1, <3>1, TrackHurt
    <3> QED
      BY <3>1, <3>2 DEF Clean
  <2> QED
    BY <1>1, <2>1, <2>2 DEF ForgivenInv
<1>5. CASE Poll \/ PollRaises \/ Finish \/ FinishRaises
  <2>1. session = "running" /\ session' # "idle" /\ Track(0) /\ \E P : Report(P)
    BY <1>1, <1>5 DEF Fore, Poll, PollRaises, Finish, FinishRaises
  <2>2. Fore'
    BY <1>1, <1>5, <2>1 DEF Fore, Poll, PollRaises, Finish, FinishRaises
  <2> QED
    BY <1>1, <2>1, <2>2, ReportClean DEF ForgivenInv
<1>6. CASE \/ \E c \in Cameras : CameraFrame(c) \/ CameraError(c)
           \/ Receive \/ Produce \/ Miss \/ Fail
           \/ \E value \in BOOLEAN : Flag(value)
  <2>1. Track(0) /\ UNCHANGED <<keys, monitor, session, polling>>
    BY <1>6 DEF CameraFrame, CameraError, Receive, Produce, Miss, Fail, Flag, Count, InProcess
  <2>2. Fore'
    BY <1>1, <2>1 DEF Fore
  <2>3. Next
    BY <1>6 DEF Next
  <2> QED
    BY <1>1, <2>1, <2>2, <2>3, ProcessClean DEF ForgivenInv
<1> QED
  BY <1>2, <1>3, <1>4, <1>5, <1>6 DEF Next

\* An incident of a counted source, in a session that stays clean.
LEMMA ForgivenAction ==
  ASSUME ForgivenInv, Next, NEW i \in incidents' \ incidents, i.key \in Sources
  PROVE  hurt' \/ (i.key = "sync" /\ quiet >= SourceGrace)
<1> SUFFICES ASSUME ~hurt' PROVE i.key = "sync" /\ quiet >= SourceGrace
  OBVIOUS
<1>1. Types /\ Fore
  BY DEF ForgivenInv
<1>2. session = "running" /\ session' # "idle" /\ Track(0)
      /\ \E Q \in SUBSET Emitting : Report(Q)
  <2>1. Poll \/ PollRaises \/ Finish \/ FinishRaises
    BY DEF Next, Tick, CameraFrame, CameraError, Receive, Produce, Miss, Fail, Flag,
       Count, InProcess, Start
  <2> QED
    BY <1>1, <2>1, PrefixesEmit DEF Fore, Poll, PollRaises, Finish, FinishRaises
<1>3. PICK P \in SUBSET Emitting : Report(P)
  BY <1>2
<1>4. i.key \in keys /\ Emits(i.key)
  BY <1>3, ReportNew
<1>5. i.key \notin Cameras
  BY SourcesAssumption
<1>6. ~hurt /\ Clean
  BY <1>1, <1>2, TrackHurt DEF ForgivenInv
<1>7. "sync" \in keys /\ meter.good = Seen
  <2>1. SourceFails
    BY <1>4, <1>5 DEF Emits, Fails
  <2> QED
    BY <1>1, <1>6, <2>1, CleanFails
<1>8. i.key = "sync"
  <2>1. keys \in Configurations
    BY <1>1 DEF Types, Typed
  <2>2. "sync" \in keys \cap Sources /\ i.key \in keys \cap Sources
    BY <1>4, <1>7, <2>1, SourcesAssumption
  <2> QED
    BY <2>1, <2>2, SourcesAssumption
<1>9. quiet >= SourceGrace
  <2>1. quiet \in Nat /\ SourceGrace \in Nat
    BY <1>1, TimesAssumption DEF Types, Typed, Ages
  <2>2. Grace(i.key) = SourceGrace
    BY <1>5 DEF Grace
  <2>3. CASE monitor.conditions[i.key] = None
    BY <1>4, <2>1, <2>2, <2>3 DEF Emits
  <2>4. CASE monitor.conditions[i.key] # None
    <3>1. monitor.base # None
          /\ (meter.good = monitor.seen => monitor.conditions[i.key].age <= quiet)
      BY <1>4, <1>5, <1>6, <2>4 DEF Clean
    <3>2. monitor.conditions[i.key].age <= quiet
      BY <1>7, <3>1 DEF Seen
    <3>3. monitor.conditions[i.key].age \in Nat /\ monitor.conditions[i.key].age >= SourceGrace
      BY <1>1, <1>4, <2>2, <2>4 DEF Emits, Age, Types, Kept, Ages
    <3> QED
      BY <2>1, <3>2, <3>3
  <2> QED
    BY <2>3, <2>4
<1> QED
  BY <1>8, <1>9

\* An error "from an earlier Session cannot poison a later Session": an
\* incident of a counted source needs a miss, an error or a flag of this
\* session, or no synchronized output for the grace time.
THEOREM EarlierSessionsForgiven == Spec => PastForgiven
<1>1. ForgivenInv /\ [Next]_vars =>
        [\A i \in incidents' \ incidents :
           i.key \in Sources => hurt' \/ (i.key = "sync" /\ quiet >= SourceGrace)]_vars
  BY ForgivenAction
<1> QED
  BY <1>1, ForgivenInit, ForgivenStep, PTL DEF Spec, PastForgiven
=============================================================================
