--------------------------- MODULE SessionQuality ---------------------------
(***************************************************************************)
(* SessionQualityMonitor: failures of the cameras, and of one counted      *)
(* source, become CRITICAL violations of the session when they last longer *)
(* than a grace time.                                                      *)
(*                                                                         *)
(* The health records live as long as the process, and other threads write *)
(* them; the monitor belongs to one session and samples them in the        *)
(* quality thread, and once more in _finish().                             *)
(*                                                                         *)
(* The four counted sources, sync, processing, evidence and audit, differ  *)
(* in which of the same reasons they know.  A configuration monitors at    *)
(* most one of them here: conditions do not influence each other, only the *)
(* incidents of one poll are reported one after the other.  A poll is one   *)
(* step, under _quality_poll_lock.                                         *)
(*                                                                         *)
(* The code compares differences of times with limits, and nothing else:   *)
(* a time is kept as the age it has, in a coarse unit, up to MaxAge.       *)
(* A definition named <Name>_<Bug> is used by the mutation runs only.      *)
(***************************************************************************)
EXTENDS Integers

CONSTANTS Cameras, None,
          Sources,        \* of "sync", "processing", "evidence", "audit"
          Configurations, \* which of both are monitored
          CameraGrace, SourceGrace, MaxStaleness, Interval,
          MissPercent,    \* max_sync_miss_ratio, max_..._drop_ratio
          MaxErrors,      \* max_..._error_delta
          MaxAge,         \* bound on every age
          MaxCount,       \* bound on every counter
          MaxIncidents,   \* bound on the incidents of a condition
          MaxFaults       \* bound on raising callbacks

\* The condition of a camera is named after it, and never after a source.
ASSUME SourcesAssumption ==
  /\ Sources \subseteq {"sync", "processing", "evidence", "audit"}
  /\ Cameras \cap {"sync", "processing", "evidence", "audit"} = {}
  /\ \A C \in Configurations :
       /\ C \subseteq Cameras \cup Sources
       /\ \A s, t \in C \cap Sources : s = t
ASSUME TimesAssumption ==
  /\ CameraGrace \in Nat /\ SourceGrace \in Nat
  /\ MaxStaleness \in Nat \ {0} /\ Interval \in Nat \ {0}
  /\ MaxAge \in Nat /\ MaxAge > MaxStaleness
  /\ MaxAge >= CameraGrace + 2 * Interval /\ MaxAge >= SourceGrace + 2 * Interval
\* The limits of a configuration are not negative.
ASSUME LimitsAssumption == MissPercent \in Nat /\ MaxErrors \in Nat
ASSUME BoundsAssumption == MaxCount \in Nat /\ MaxIncidents \in Nat /\ MaxFaults \in Nat
ASSUME NoneAssumption ==
  /\ None \notin [age : Nat, emitted : BOOLEAN]
  /\ None \notin [total : Nat, good : Nat, bad : Nat, errors : Nat, flag : BOOLEAN]
  /\ None \notin Nat

VARIABLES
  camera,    \* per camera: state = ONLINE, age of last_frame_monotonic_ms
  keys,      \* the monitored conditions
  meter,     \* the source's counters; None: there is no such recorder or writer
  session,   \* "idle", "running" or "finished"
  polling,   \* the quality thread is alive
  due,       \* what is left of its wait
  monitor,   \* _conditions, _incident_counts, baselines, _last_sync_emitted
  incidents, \* violations recorded in the rule session
  faults,
  \* Histories.
  past,      \* per condition: whether it fails and for how long; whether
             \* the failure has an incident; whether it has one when failures
             \* with at most an interval between them are taken together
  hurt,      \* the source missed, erred or was flagged in this session
  quiet      \* age of the source's last output, or of the session

vars == <<camera, keys, meter, session, polling, due, monitor,
          incidents, faults, past, hurt, quiet>>

Grace(k) == IF k \in Cameras THEN CameraGrace ELSE SourceGrace

(***************************************************************************)
(* What counts as failed.                                                  *)
(***************************************************************************)
CameraFails(c) ==
  ~camera[c].online \/ camera[c].last = None \/ camera[c].last > MaxStaleness

Zero == [total |-> 0, good |-> 0, bad |-> 0, errors |-> 0, flag |-> FALSE]

\* Bug: counters are judged from the start of the process.
Base_Process == IF meter = None THEN None ELSE Zero

\* Counters are judged from what the first poll of the session saw.
Base == IF monitor.base = None THEN meter ELSE monitor.base
Seen == IF monitor.base = None THEN meter.good ELSE monitor.seen

Ratio(bad, total) == total > 0 /\ bad * 100 > MissPercent * total

SourceFails ==
  \/ meter = None
  \/ Ratio(meter.bad - Base.bad, meter.total - Base.total)
  \/ meter.errors - Base.errors > MaxErrors
  \/ meter.flag
  \/ "sync" \in keys /\ meter.good = Seen

Fails(k) == IF k \in Cameras THEN CameraFails(k) ELSE SourceFails

(***************************************************************************)
(* One observation.                                                        *)
(***************************************************************************)
Age(k) == IF monitor.conditions[k] = None THEN 0 ELSE monitor.conditions[k].age
Emitted(k) == monitor.conditions[k] # None /\ monitor.conditions[k].emitted

\* Bug: an incident is raised at every poll of an outage.
Emits_Again(k) ==
  /\ Fails(k)
  /\ monitor.conditions[k] = None => Grace(k) = 0
  /\ Age(k) >= Grace(k)

\* A grace time makes the first failing poll wait.
Emits(k) ==
  /\ Fails(k)
  /\ monitor.conditions[k] = None => Grace(k) = 0
  /\ ~Emitted(k)
  /\ Age(k) >= Grace(k)

Emitting == {k \in keys : Emits(k)}

\* Bug: a later outage gets the event id of the first one.
Observed_SameNumber ==
  [conditions |-> [k \in keys |->
     IF Fails(k) THEN [age |-> Age(k), emitted |-> Emitted(k) \/ Emits(k)] ELSE None],
   counts |-> [k \in keys |-> IF Emits(k) THEN 1 ELSE monitor.counts[k]],
   base |-> Base,
   seen |-> IF meter = None THEN 0 ELSE meter.good]

\* A condition that holds again is forgotten, and armed for the next outage.
Observed ==
  [conditions |-> [k \in keys |->
     IF Fails(k) THEN [age |-> Age(k), emitted |-> Emitted(k) \/ Emits(k)] ELSE None],
   counts |-> [k \in keys |-> monitor.counts[k] + (IF Emits(k) THEN 1 ELSE 0)],
   base |-> Base,
   seen |-> IF meter = None THEN 0 ELSE meter.good]

\* The event id is the condition and its number.
Incident(k) == [key |-> k, number |-> Observed.counts[k]]

\* The incidents of one poll are recorded and called back one after the other,
\* those of the cameras first; the order of the cameras is left open.
Prefixes(S) == {P \in SUBSET S : P \cap Sources # {} => S \cap Cameras \subseteq P}

(***************************************************************************)
(* Histories, kept by every step.                                          *)
(***************************************************************************)
Recorded(k) == \E i \in incidents' \ incidents : i.key = k
Older(age, dt) == IF age # None /\ age + dt <= MaxAge THEN age + dt ELSE age
Track(dt) ==
  /\ past' = [k \in keys |->
       LET fails == session' # "idle" /\ Fails(k)'
           age == IF fails = past[k].fails THEN Older(past[k].age, dt) ELSE 0 IN
       [fails |-> fails, age |-> age,
        told |-> fails /\ (past[k].told \/ Recorded(k)),
        covered |-> \/ Recorded(k)
                    \/ past[k].covered /\ (fails \/ age <= Interval)]]
  /\ hurt' = (session' # "idle" /\
       \/ hurt \/ meter' = None \/ meter'.flag
       \/ session = "running" /\ (meter'.bad > meter.bad \/ meter'.errors > meter.errors))
  /\ quiet' = IF session = "idle" \/ meter' = None THEN 0
              ELSE IF meter'.good > meter.good THEN 0 ELSE Older(quiet, dt)

(***************************************************************************)
(* The process: cameras and counters.                                      *)
(***************************************************************************)
Fresh == [conditions |-> [k \in keys |-> None], counts |-> [k \in keys |-> 0],
          base |-> None, seen |-> 0]

Init ==
  /\ camera = [c \in Cameras |-> [online |-> FALSE, last |-> None]]
  /\ keys \in Configurations
  /\ meter \in (IF keys \cap Sources # {} THEN {Zero} ELSE {})
               \cup (IF keys \cap {"sync", "processing"} = {} THEN {None} ELSE {})
  /\ session = "idle" /\ polling = FALSE /\ due = 0
  /\ monitor = Fresh
  /\ incidents = {} /\ faults = 0
  /\ past = [k \in keys |-> [fails |-> FALSE, age |-> 0, told |-> FALSE, covered |-> FALSE]]
  /\ hurt = FALSE /\ quiet = 0

InProcess ==
  /\ session # "finished"
  /\ UNCHANGED <<keys, session, polling, due, monitor, incidents, faults>>

Aged(condition) ==
  IF condition = None THEN None
  ELSE [age |-> Older(condition.age, 1), emitted |-> condition.emitted]

Tick ==
  /\ session # "finished"
  /\ polling => due > 0
  /\ camera' = [c \in Cameras |->
       [online |-> camera[c].online, last |-> Older(camera[c].last, 1)]]
  /\ due' = IF polling THEN due - 1 ELSE due
  /\ monitor' = [monitor EXCEPT !.conditions =
       [k \in keys |-> Aged(monitor.conditions[k])]]
  /\ UNCHANGED <<keys, meter, session, polling, incidents, faults>>
  /\ Track(1)

CameraFrame(c) ==
  /\ InProcess /\ c \in keys
  /\ camera' = [camera EXCEPT ![c] = [online |-> TRUE, last |-> 0]]
  /\ UNCHANGED meter
  /\ Track(0)

\* camera_error, camera_reconnecting, camera_starting, camera_stopped.
CameraError(c) ==
  /\ InProcess /\ c \in keys /\ camera[c].online
  /\ camera' = [camera EXCEPT ![c].online = FALSE]
  /\ UNCHANGED meter
  /\ Track(0)

Count(counter) ==
  /\ InProcess /\ meter # None /\ meter[counter] < MaxCount
  /\ meter' = [meter EXCEPT ![counter] = @ + 1]
  /\ UNCHANGED camera
  /\ Track(0)

\* A reference frame, a frame set or a batch, and what becomes of it; another
\* thread may take the snapshot in between.
Receive == Count("total")
Pending == meter # None /\ meter.good + meter.bad < meter.total
Produce == Pending /\ Count("good")
Miss == "audit" \notin keys /\ Pending /\ Count("bad")

\* A failed audit write also leaves the status DEGRADED.
Fail ==
  /\ InProcess /\ meter # None /\ "sync" \notin keys /\ meter.errors < MaxCount
  /\ meter' = [meter EXCEPT !.errors = @ + 1, !.flag = @ \/ "audit" \in keys]
  /\ UNCHANGED camera
  /\ Track(0)

\* Skew or drift beyond their limits, evidence over capacity; a later success
\* of the audit writer.
Flag(value) ==
  /\ InProcess /\ meter # None /\ "processing" \notin keys /\ meter.flag # value
  /\ "audit" \in keys => ~value
  /\ meter' = [meter EXCEPT !.flag = value]
  /\ UNCHANGED camera
  /\ Track(0)

(***************************************************************************)
(* The session.                                                            *)
(***************************************************************************)
Start ==
  /\ session = "idle"
  /\ session' = "running" /\ polling' = TRUE /\ due' = 0
  /\ UNCHANGED <<camera, keys, meter, monitor, incidents, faults>>
  /\ Track(0)

Report(P) ==
  /\ \A k \in Emitting : monitor.counts[k] < MaxIncidents
  /\ monitor' = Observed
  /\ incidents' = incidents \cup {Incident(k) : k \in P}
  /\ UNCHANGED <<camera, keys, meter>>

\* The quality thread: poll_quality_once, then a wait.
Poll ==
  /\ polling /\ due = 0
  /\ Report(Emitting)
  /\ due' = Interval
  /\ UNCHANGED <<session, polling, faults>>
  /\ Track(0)

\* The callback of an incident raises: the rest of the poll is lost, though
\* their conditions count as emitted, and nothing catches it in the thread.
PollRaises ==
  /\ polling /\ due = 0 /\ faults < MaxFaults
  /\ \E P \in Prefixes(Emitting) \ {{}} : Report(P)
  /\ polling' = FALSE /\ faults' = faults + 1
  /\ UNCHANGED <<session, due>>
  /\ Track(0)

\* _finish() polls once more before it stops the runtime.
Finish ==
  /\ session = "running"
  /\ Report(Emitting)
  /\ session' = "finished" /\ polling' = FALSE
  /\ UNCHANGED <<due, faults>>
  /\ Track(0)

\* The callback raises in _finish(): the session goes on.
FinishRaises ==
  /\ session = "running" /\ faults < MaxFaults
  /\ \E P \in Prefixes(Emitting) \ {{}} : Report(P)
  /\ faults' = faults + 1
  /\ UNCHANGED <<session, polling, due>>
  /\ Track(0)

Next ==
  \/ Tick
  \/ \E c \in Cameras : CameraFrame(c) \/ CameraError(c)
  \/ Receive \/ Produce \/ Miss \/ Fail
  \/ \E value \in BOOLEAN : Flag(value)
  \/ Start \/ Poll \/ PollRaises \/ Finish \/ FinishRaises

Spec == Init /\ [][Next]_vars

(***************************************************************************)
(* Properties.                                                             *)
(***************************************************************************)
Ages == 0 .. MaxAge
Meters == [total : 0 .. MaxCount, good : 0 .. MaxCount, bad : 0 .. MaxCount,
           errors : 0 .. MaxCount, flag : BOOLEAN]

\* Every variable keeps its type.
TypeOK ==
  /\ due \in 0 .. Interval /\ quiet \in Ages
  /\ camera \in [Cameras -> [online : BOOLEAN, last : Ages \cup {None}]]
  /\ keys \in Configurations
  /\ meter \in Meters \cup {None}
  /\ session \in {"idle", "running", "finished"}
  /\ polling \in BOOLEAN /\ hurt \in BOOLEAN
  /\ monitor.conditions \in
       [keys -> {None} \cup [age : Ages, emitted : BOOLEAN]]
  /\ DOMAIN monitor.counts = keys
  /\ monitor.base \in Meters \cup {None}
  /\ \A i \in incidents : i.key \in keys /\ i.number \in 1 .. monitor.counts[i.key]
  /\ faults \in 0 .. MaxFaults
  /\ past \in [keys -> [fails : BOOLEAN, age : Ages, told : BOOLEAN, covered : BOOLEAN]]

\* A camera or source that fails without a break for the grace time, and long
\* enough for the polls around it, has an incident, the second outage as the
\* first: a recovery of more than an interval rearms the guard.  One interval
\* less is enough when the session ends.
Patience(k) == Grace(k) + (IF session = "finished" THEN 1 ELSE 2) * Interval
Reported ==
  \A k \in keys : past[k].fails /\ past[k].age >= Patience(k) => past[k].covered

\* No lasting outage stays without incident, unless a callback has raised: then
\* the rest of its poll is lost, and the thread that polls ends.
OutageReported == faults = 0 => Reported

\* "One incident is emitted for one continuous failure period."
OneIncidentPerOutage ==
  [][\A i \in incidents' \ incidents : ~past[i.key].told]_vars

\* An error "from an earlier Session cannot poison a later Session": an
\* incident of a counted source needs a miss, an error or a flag of this
\* session, or no synchronized output for the grace time.
PastForgiven ==
  [][\A i \in incidents' \ incidents :
       i.key \in Sources => hurt' \/ (i.key = "sync" /\ quiet >= SourceGrace)]_vars
=============================================================================
