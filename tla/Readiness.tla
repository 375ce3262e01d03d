----------------------------- MODULE Readiness -----------------------------
(***************************************************************************)
(* The readiness gate in front of a session (evaluate_session_readiness),  *)
(* composed with the service it asks about (CameraGateway), with a policy  *)
(* that requires everything.  The checks are made one after the other and  *)
(* without a lock: everything goes on changing between them.  Only then    *)
(* start() takes the controller's lock.                                    *)
(*                                                                         *)
(* The audit writer and the query store remember whether their last        *)
(* operation succeeded.  A check therefore tries them first (probe), so    *)
(* that it neither trusts an old success nor repeats an old failure.  But   *)
(* the status is read after the probe, and somebody else's operation may   *)
(* be noted in between: one that failed for reasons of its own on a store  *)
(* that works, or, as the query store takes its lock only after the        *)
(* operation, one whose outcome is out of date.                            *)
(*                                                                         *)
(* To say of every check whether it was right, the model watches one of    *)
(* them, chosen with the call: what it said, and what was the case during   *)
(* the call.                                                               *)
(***************************************************************************)
EXTENDS CameraGateway, Sequences

CONSTANTS Required,       \* the checks the policy asks for
          AllowDegraded,  \* readiness.allow_camera_degraded
          Watched,        \* the checks of which one is watched
          MaxCalls        \* bound on the calls

Stores == {"audit-health", "persistence-health"}
\* What the model leaves open, and lets pass or fail: measurements, files, the
\* reconciliation.
SyncChecks == {"sync", "sync-warmup", "sync-miss-ratio", "sync-p99-skew",
               "sync-clock-drift"}
EvidenceChecks == {"evidence", "evidence-capacity", "evidence-errors"}
CalibrationChecks == {"calibration-health"}
AssetChecks == {"asset:rules", "asset:manifest", "asset:zones",
                "asset:planar-calibration", "asset:perspective-calibration"}
StorageChecks == {"storage", "storage:free-ratio", "storage:free-gb"}
Facts == SyncChecks \cup EvidenceChecks \cup CalibrationChecks \cup AssetChecks
           \cup StorageChecks
           \cup {"persistence-configured", "persistence-reconciliation"}
Optional == Stores \cup Facts \cup {"model-warmup", "cameras"}
Checks == Required \cup {"camera-hub", "model-pool"}

ASSUME PolicyAssumption == Required \subseteq Optional /\ AllowDegraded \in BOOLEAN
ASSUME WatchAssumption == Watched \subseteq Checks \ Facts
ASSUME CallAssumption == MaxCalls \in Nat

VARIABLES
  works,   \* would an operation on the store succeed
  ready,   \* the store's status is READY
  using,   \* somebody's operation on the query store, done but not yet noted
  gate,    \* the call: its position, what it has found so far
  calls,   \* how many calls there were
  session, \* a session is RUNNING
  was      \* history: the watched check held, failed to hold, in the call; the
           \* statuses it was misled by after the probe

outside == <<works, ready, using>>
call == <<gate, calls, session>>
vars == <<gatewayVars, outside, call, was>>

(***************************************************************************)
(* The order of the checks.  hub.health_snapshot() is one snapshot for the *)
(* cameras and the synchronization.  The stores are probed first: the      *)
(* audit writer if the policy asks for it, the query store in any case.    *)
(***************************************************************************)
Order ==
  << {"camera-hub"}, {"model-pool"}, {"model-warmup"}, {"cameras"} \cup SyncChecks,
     EvidenceChecks \cup CalibrationChecks \cup AssetChecks \cup StorageChecks,
     {"audit-health"}, {"persistence-configured", "persistence-health"},
     {"persistence-reconciliation"} >>

Acceptable == {"ONLINE"} \cup (IF AllowDegraded THEN {"DEGRADED"} ELSE {})

Passes(k) ==
  CASE k = "camera-hub" -> hub
    [] k = "model-pool" -> pool.loaded
    [] k = "model-warmup" -> pool.warmup = "PASS"
    [] k = "cameras" -> \A c \in Cameras : health[c] \in Acceptable
    [] k \in Stores -> ready[k]

\* What is the case, whatever the statuses say.
Holds(k) == IF k \in Stores THEN works[k] ELSE Passes(k)

Asked == [pc |-> "asked", next |-> 1, probed |-> FALSE, failed |-> FALSE,
          found |-> TRUE, watch |-> "camera-hub"]
NoCall == [Asked EXCEPT !.pc = "none"]
Unseen == [true |-> FALSE, false |-> FALSE, misled |-> {}]

GateInit ==
  /\ Init
  /\ works = [s \in Stores |-> TRUE]
  /\ ready = [s \in Stores |-> TRUE]
  /\ using = "none"
  /\ gate = NoCall
  /\ calls = 0
  /\ session = FALSE
  /\ was = Unseen

(***************************************************************************)
(* Outside the gate.                                                       *)
(***************************************************************************)
StoreChanges(s) ==
  /\ Spend("stores")
  /\ works' = [works EXCEPT ![s] = ~@]
  /\ UNCHANGED <<lifespan, source, cameraThreads, ready, using, call>>

\* Did somebody else's operation succeed?  It may fail on a store that works: a
\* session whose directory is there already, an update of a session that has no row.
Outcomes(s) == {works[s], FALSE}

\* The audit writer notes the outcome under the lock of the write.
AuditUsed ==
  /\ Spend("uses")
  /\ \E succeeded \in Outcomes("audit-health") :
       ready' = [ready EXCEPT !["audit-health"] = succeeded]
  /\ UNCHANGED <<lifespan, source, cameraThreads, works, using, call>>

\* An operation on the query store, and then _mark_success() or _mark_..._error().
PersistenceUsed ==
  /\ using = "none" /\ Spend("uses")
  /\ \E succeeded \in Outcomes("persistence-health") :
       using' = IF succeeded THEN "success" ELSE "error"
  /\ UNCHANGED <<lifespan, source, cameraThreads, works, ready, call>>

UseMarked ==
  /\ using # "none"
  /\ ready' = [ready EXCEPT !["persistence-health"] = (using = "success")]
  /\ using' = "none"
  /\ UNCHANGED <<gatewayVars, works, call>>

(***************************************************************************)
(* The call.                                                               *)
(***************************************************************************)
Ask ==
  /\ gate.pc = "none" /\ service = "up" /\ calls < MaxCalls
  /\ \E k \in Watched : gate' = [Asked EXCEPT !.watch = k]
  /\ calls' = calls + 1
  /\ UNCHANGED <<gatewayVars, outside, session>>

Store ==
  CASE gate.next = 6 /\ "audit-health" \in Required -> "audit-health"
    [] gate.next = 7 -> "persistence-health"
    [] OTHER -> "none"

\* Bug: the status is read as it is.
ProbeAudit_Skipped ==
  /\ gate.pc = "asked" /\ Store = "audit-health" /\ ~gate.probed
  /\ gate' = [gate EXCEPT !.probed = TRUE]
  /\ UNCHANGED <<gatewayVars, outside, calls, session>>

\* audit.probe() holds the writer's lock: the attempt and its status are one.
ProbeAudit ==
  /\ gate.pc = "asked" /\ Store = "audit-health" /\ ~gate.probed
  /\ ready' = [ready EXCEPT ![Store] = works[Store]]
  /\ gate' = [gate EXCEPT !.probed = TRUE]
  /\ UNCHANGED <<gatewayVars, works, using, calls, session>>

Outcome == IF works["persistence-health"] THEN "success" ELSE "error"

\* repository.probe() lists the sessions, and then takes the lock to say how
\* that went.
ProbePersistence ==
  /\ gate.pc = "asked" /\ Store = "persistence-health" /\ ~gate.probed
  /\ gate' = [gate EXCEPT !.pc = Outcome]
  /\ UNCHANGED <<gatewayVars, outside, calls, session>>

MarkProbe ==
  /\ gate.pc \in {"success", "error"}
  /\ ready' = [ready EXCEPT ![Store] = (gate.pc = "success")]
  /\ gate' = [gate EXCEPT !.pc = "asked", !.probed = TRUE]
  /\ UNCHANGED <<gatewayVars, works, using, calls, session>>

Finished == gate.next = Len(Order)

Failing == {k \in (Order[gate.next] \cap Checks) \ Facts : ~Passes(k)}
FactFails == Order[gate.next] \cap Required \cap Facts # {}
Advanced == [gate EXCEPT
  !.pc = IF Finished THEN "report" ELSE "asked",
  !.next = IF Finished THEN 1 ELSE @ + 1,
  !.probed = FALSE,
  !.found = IF gate.watch \in Order[gate.next] THEN gate.watch \notin Failing
            ELSE @]

\* Bug: only the last checks count.
Check_LastOnly ==
  /\ gate.pc = "asked" /\ (Store # "none" => gate.probed)
  /\ \/ gate' = [Advanced EXCEPT !.failed = (Failing # {})]
     \/ FactFails /\ gate' = [Advanced EXCEPT !.failed = TRUE]
  /\ UNCHANGED <<gatewayVars, outside, calls, session>>

Check ==
  /\ gate.pc = "asked" /\ (Store # "none" => gate.probed)
  /\ \/ gate' = [Advanced EXCEPT !.failed = @ \/ Failing # {}]
     \/ FactFails /\ gate' = [Advanced EXCEPT !.failed = TRUE]
  /\ UNCHANGED <<gatewayVars, outside, calls, session>>

Refuse ==
  /\ gate.pc = "report" /\ gate.failed
  /\ gate' = [gate EXCEPT !.pc = "refused"]
  /\ UNCHANGED <<gatewayVars, outside, calls, session>>

\* start() under the controller's lock.
Start ==
  /\ gate.pc = "report" /\ ~gate.failed
  /\ IF hub /\ pool.loaded /\ ~session
     THEN session' = TRUE /\ gate' = [gate EXCEPT !.pc = "started"]
     ELSE UNCHANGED session /\ gate' = [gate EXCEPT !.pc = "conflict"]
  /\ UNCHANGED <<gatewayVars, outside, calls>>

Return ==
  /\ gate.pc \in {"refused", "started", "conflict"}
  /\ gate' = NoCall
  /\ UNCHANGED <<gatewayVars, outside, calls, session>>

SessionEnds ==
  /\ session
  /\ session' = FALSE
  /\ UNCHANGED <<gatewayVars, outside, gate, calls>>

\* What the watched store's status is changed to between the probe and the check,
\* if the store itself does not do so.
Misled ==
  IF gate.probed /\ gate.watch = Store /\ ready'[Store] # ready[Store]
  THEN {ready'[Store]} \ {works'[Store]}
  ELSE {}

\* The history: what was the case while the call went on.
Observe ==
  was' = IF gate'.pc = "none" THEN Unseen
         ELSE [true |-> was.true \/ Holds(gate.watch)',
               false |-> was.false \/ ~Holds(gate.watch)',
               misled |-> was.misled \cup Misled]

Step ==
  \/ GatewayNext /\ UNCHANGED <<outside, call>>
  \/ \E s \in Stores : StoreChanges(s)
  \/ AuditUsed \/ PersistenceUsed \/ UseMarked
  \/ Ask \/ ProbeAudit \/ ProbePersistence \/ MarkProbe \/ Check
  \/ Refuse \/ Start \/ Return \/ SessionEnds

Next == Step /\ Observe

Spec == GateInit /\ [][Next]_vars

\* Shutting down goes on by itself once begun, and so do the camera threads
\* unless their camera hangs.  Nothing else is the program's choice.
Undisturbed == UNCHANGED <<outside, call>> /\ Observe

FairSpec ==
  /\ Spec
  /\ WF_vars(Stopping /\ Undisturbed)
  /\ \A c \in Cameras : WF_vars(Thread(c) /\ Undisturbed)

(***************************************************************************)
(* Properties.                                                             *)
(***************************************************************************)
\* Every variable keeps its type.
TypeOK ==
  /\ GatewayTypeOK
  /\ works \in [Stores -> BOOLEAN] /\ ready \in [Stores -> BOOLEAN]
  /\ using \in {"none", "success", "error"}
  /\ gate \in [pc : {"none", "asked", "success", "error", "report", "refused",
                     "started", "conflict"},
               next : 1 .. Len(Order), probed : BOOLEAN, failed : BOOLEAN,
               found : BOOLEAN, watch : Checks]
  /\ calls \in 0 .. MaxCalls /\ session \in BOOLEAN
  /\ was \in [true : BOOLEAN, false : BOOLEAN, misled : SUBSET BOOLEAN]

\* A session starts only when everything the policy requires was the case
\* during this very call, whatever changed between two checks and whatever a
\* store's status remembers of the time before.  The one exception is a success
\* that was noted for the query store after the probe, when it was true no more.
Admission == gate.pc = "started" => was.true \/ TRUE \in was.misled

\* A check that stops a session from starting was right during the call: a
\* store that works again, although its last operation failed, blocks nobody.
\* The one exception is a failure that is noted between the probe and the check
\* of a store that works: of an operation that failed for reasons of its own, or
\* that is out of date.
RefusalJustified ==
  gate.pc = "refused" /\ ~gate.found => was.false \/ FALSE \in was.misled
=============================================================================
