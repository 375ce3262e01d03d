-------------------------- MODULE Readiness_proofs --------------------------
(***************************************************************************)
(* Proofs about the readiness gate and the service it asks about, for any  *)
(* cameras, policy and bounds: the types (ServiceTypes), that shutdown is  *)
(* final (ShutdownIsFinal), that a session starts only if what the policy  *)
(* requires was the case during the call (AdmissionIsSound), and that a    *)
(* check never refuses without reason (RefusalIsJust).                     *)
(*                                                                         *)
(* The last two rest on Witnessed, which says of every position of the     *)
(* call what the history must have seen so far of the watched check.       *)
(***************************************************************************)
EXTENDS Readiness, TLAPS

CoreVars == <<lifespan, source, cameraThreads>>

(***************************************************************************)
(* Types.                                                                  *)
(***************************************************************************)
\* What the lifespan, the cameras and the camera threads do keeps their types.
LEMMA GatewayStepTypes ==
  ASSUME GatewayTypeOK, GatewayNext
  PROVE  GatewayTypeOK'
<1> USE DEF GatewayTypeOK
<1>1. CASE Starting
  <2>1. CASE LoadModels
    BY <2>1 DEF LoadModels, world, cameraThreads
  <2>2. CASE WarmupBegins
    BY <2>2 DEF WarmupBegins, world, cameraThreads
  <2>3. CASE WarmupEnds
    BY <2>3 DEF WarmupEnds, world, cameraThreads
  <2>4. CASE StartHub
    BY <2>4 DEF StartHub, world, cameraThreads
  <2>5. ASSUME NEW c \in Cameras, StartCamera(c)
        PROVE  GatewayTypeOK'
    BY <2>5 DEF StartCamera, world
  <2>6. CASE StartCameraFails
    BY <2>6 DEF StartCameraFails, world, cameraThreads
  <2> QED BY <1>1, <2>1, <2>2, <2>3, <2>4, <2>5, <2>6 DEF Starting
<1>2. CASE StopHub
  BY <1>2 DEF StopHub, world, cameraThreads
<1>3. CASE Stopping
  <2>1. CASE StopGateway
    BY <2>1 DEF StopGateway, world, cameraThreads
  <2>2. ASSUME NEW c \in Cameras, Join(c)
        PROVE  GatewayTypeOK'
    BY <2>2 DEF Join, Joined, world, cameraThreads
  <2>3. ASSUME NEW c \in Cameras, JoinTimesOut(c)
        PROVE  GatewayTypeOK'
    BY <2>3 DEF JoinTimesOut, Joined, world, cameraThreads
  <2>4. ASSUME NEW c \in Cameras, CloseCamera(c)
        PROVE  GatewayTypeOK'
    BY <2>4 DEF CloseCamera, world
  <2> QED BY <1>3, <2>1, <2>2, <2>3, <2>4 DEF Stopping
<1>4. ASSUME NEW c \in Cameras, Thread(c)
      PROVE  GatewayTypeOK'
  <2> USE DEF lifespan, world, Goto
  <2>1. CASE BeginRead(c)
    BY <2>1 DEF BeginRead
  <2>2. CASE OpenEnds(c)
    BY <2>2 DEF OpenEnds
  <2>3. CASE ReadFrame(c)
    BY <2>3 DEF ReadFrame
  <2>4. CASE ReadFails(c)
    BY <2>4 DEF ReadFails
  <2>5. CASE CameraError(c)
    BY <2>5 DEF CameraError
  <2>6. CASE CloseStream(c)
    BY <2>6 DEF CloseStream
  <2>7. CASE Reconnecting(c)
    BY <2>7 DEF Reconnecting
  <2>8. CASE WaitEnds(c)
    BY <2>8 DEF WaitEnds
  <2> QED BY <1>4, <2>1, <2>2, <2>3, <2>4, <2>5, <2>6, <2>7, <2>8 DEF Thread
<1>5. ASSUME NEW c \in Cameras, NEW new \in {"up", "down", "hung"},
             SourceChanges(c, new)
      PROVE  GatewayTypeOK'
  BY <1>5 DEF SourceChanges, Spend, lifespan
<1> QED BY <1>1, <1>2, <1>3, <1>4, <1>5 DEF GatewayNext

\* The cameras, the stores and their users spend a bound and nothing else of the
\* gateway's.
LEMMA SpentTypes ==
  ASSUME GatewayTypeOK, UNCHANGED CoreVars,
         NEW what \in {"stores", "uses"}, Spend(what)
  PROVE  GatewayTypeOK'
BY DEF GatewayTypeOK, CoreVars, Spend, lifespan, cameraThreads

LEMMA StutterTypes ==
  ASSUME GatewayTypeOK, UNCHANGED gatewayVars
  PROVE  GatewayTypeOK'
BY DEF GatewayTypeOK, gatewayVars, lifespan, world, cameraThreads

\* Every variable of the service keeps its type.
THEOREM ServiceTypes == Spec => []GatewayTypeOK
<1>1. GateInit => GatewayTypeOK
  <2> SUFFICES ASSUME Init
               PROVE  GatewayTypeOK
    BY DEF GateInit
  <2>1. left \in [cameras : Nat, stores : Nat, uses : Nat]
    BY BoundAssumption DEF Init
  <2>2. pool \in [loaded : BOOLEAN, warmup : {"DISABLED", "NOT_RUN", "RUNNING",
                                             "PASS", "FAIL"}]
    BY DEF Init
  <2> QED BY <2>1, <2>2 DEF Init, GatewayTypeOK
<1>2. GatewayTypeOK /\ [Next]_vars => GatewayTypeOK'
  <2> SUFFICES ASSUME GatewayTypeOK, [Next]_vars
               PROVE  GatewayTypeOK'
    OBVIOUS
  <2>1. CASE GatewayNext
    BY <2>1, GatewayStepTypes
  <2>2. CASE UNCHANGED gatewayVars
    BY <2>2, StutterTypes
  <2>3. CASE UNCHANGED CoreVars /\ (Spend("stores") \/ Spend("uses"))
    BY <2>3, SpentTypes
  <2>4. GatewayNext \/ UNCHANGED gatewayVars
          \/ (UNCHANGED CoreVars /\ (Spend("stores") \/ Spend("uses")))
    BY DEF Next, Step, StoreChanges, AuditUsed, PersistenceUsed, UseMarked, Ask,
           ProbeAudit, ProbePersistence, MarkProbe, Check, Refuse, Start, Return,
           SessionEnds, CoreVars, vars
  <2> QED BY <2>1, <2>2, <2>3, <2>4
<1> QED BY <1>1, <1>2, PTL DEF Spec

(***************************************************************************)
(* Shutdown.  A thread that has been joined has ended and stays so; only   *)
(* then are the streams closed and the cameras reported, and nobody is     *)
(* left to undo it.                                                        *)
(***************************************************************************)
Ended(S) == \A c \in S : thread[c] = "done"
Reported(S) == \A c \in S : reader[c] = "closed" /\ health[c] = "STOPPED"

ShutdownInv ==
  /\ service = "join" /\ ~late => Ended(Cameras \ todo)
  /\ service \in {"close", "stopped"} /\ ~late
       => Ended(Cameras) /\ Reported(Cameras \ todo)
  /\ service = "stopped" => todo = {}

LEMMA ShutdownStep ==
  ASSUME GatewayTypeOK, ShutdownInv, GatewayNext
  PROVE  ShutdownInv'
<1> USE DEF GatewayTypeOK, ShutdownInv, Ended, Reported
<1>1. CASE Starting
  BY <1>1 DEF Starting, LoadModels, WarmupBegins, WarmupEnds, StartHub,
              StartCamera, StartCameraFails
<1>2. CASE StopHub
  BY <1>2 DEF StopHub
<1>3. CASE Stopping
  <2>1. CASE StopGateway
    BY <2>1 DEF StopGateway
  <2>2. ASSUME NEW c \in Cameras, Join(c)
        PROVE  ShutdownInv'
    BY <2>2 DEF Join, Joined, cameraThreads
  <2>3. ASSUME NEW c \in Cameras, JoinTimesOut(c)
        PROVE  ShutdownInv'
    BY <2>3 DEF JoinTimesOut, Joined
  <2>4. ASSUME NEW c \in Cameras, CloseCamera(c)
        PROVE  ShutdownInv'
    BY <2>4 DEF CloseCamera
  <2> QED BY <1>3, <2>1, <2>2, <2>3, <2>4 DEF Stopping
<1>4. ASSUME NEW c \in Cameras, Thread(c)
      PROVE  ShutdownInv'
  <2>1. UNCHANGED lifespan
    BY <1>4 DEF Thread, BeginRead, OpenEnds, ReadFrame, ReadFails, CameraError,
                CloseStream, Reconnecting, WaitEnds
  <2>2. thread[c] # "done"
    BY <1>4 DEF Thread, BeginRead, OpenEnds, ReadFrame, ReadFails, CameraError,
                CloseStream, Reconnecting, WaitEnds
  <2>3. \A d \in Cameras \ {c} :
          thread'[d] = thread[d] /\ reader'[d] = reader[d] /\ health'[d] = health[d]
    BY <1>4 DEF Thread, BeginRead, OpenEnds, ReadFrame, ReadFails, CameraError,
                CloseStream, Reconnecting, WaitEnds, Goto
  <2> QED BY <2>1, <2>2, <2>3 DEF lifespan
<1>5. ASSUME NEW c \in Cameras, NEW new \in {"up", "down", "hung"},
             SourceChanges(c, new)
      PROVE  ShutdownInv'
  BY <1>5 DEF SourceChanges, lifespan
<1> QED BY <1>1, <1>2, <1>3, <1>4, <1>5 DEF GatewayNext

\* When stop() returns and no join gave up, every thread has ended, every
\* stream is closed and every camera reported STOPPED, for good.
THEOREM ShutdownIsFinal == Spec => []StoppedStays
<1>1. GateInit => ShutdownInv
  BY DEF GateInit, Init, ShutdownInv
<1>2. GatewayTypeOK /\ ShutdownInv /\ [Next]_vars => ShutdownInv'
  <2> SUFFICES ASSUME GatewayTypeOK, ShutdownInv, [Next]_vars
               PROVE  ShutdownInv'
    OBVIOUS
  <2>1. CASE GatewayNext
    BY <2>1, ShutdownStep
  <2>2. CASE UNCHANGED CoreVars
    BY <2>2 DEF CoreVars, ShutdownInv, Ended, Reported, lifespan, cameraThreads
  <2>3. GatewayNext \/ UNCHANGED CoreVars
    BY DEF Next, Step, StoreChanges, AuditUsed, PersistenceUsed, UseMarked, Ask,
           ProbeAudit, ProbePersistence, MarkProbe, Check, Refuse, Start, Return,
           SessionEnds, CoreVars, gatewayVars, world, vars
  <2> QED BY <2>1, <2>2, <2>3
<1>3. ShutdownInv => StoppedStays
  BY DEF ShutdownInv, StoppedStays, Ended, Reported
<1> QED BY <1>1, <1>2, <1>3, ServiceTypes, PTL DEF Spec

(***************************************************************************)
(* The call.                                                               *)
(***************************************************************************)
\* The part of Readiness!TypeOK that is the gate's own.
GateTypeOK ==
  /\ works \in [Stores -> BOOLEAN] /\ ready \in [Stores -> BOOLEAN]
  /\ using \in {"none", "success", "error"}
  /\ gate \in [pc : {"none", "asked", "success", "error", "report", "refused",
                     "started", "conflict"},
               next : 1 .. Len(Order), probed : BOOLEAN, failed : BOOLEAN,
               found : BOOLEAN, watch : Checks]
  /\ calls \in 0 .. MaxCalls /\ session \in BOOLEAN
  /\ was \in [true : BOOLEAN, false : BOOLEAN, misled : SUBSET BOOLEAN]

LEMMA OrderLength == Len(Order) = 8 /\ 1 .. Len(Order) = 1 .. 8
BY DEF Order

GateInv == GateTypeOK /\ (gate.pc # "none" => gate.watch \in Watched)

\* What a call may be.
Gates == [pc : {"none", "asked", "success", "error", "report", "refused",
                "started", "conflict"},
          next : 1 .. Len(Order), probed : BOOLEAN, failed : BOOLEAN,
          found : BOOLEAN, watch : Checks]

LEMMA NoCallTyped == NoCall \in Gates
<1>1. 1 \in 1 .. Len(Order) /\ "camera-hub" \in Checks
  BY OrderLength DEF Checks
<1> QED BY <1>1 DEF NoCall, Asked, Gates

LEMMA GateInit_Inv == GateInit => GateInv
<1> SUFFICES ASSUME GateInit
             PROVE  GateInv
  OBVIOUS
<1>1. gate \in Gates /\ gate.pc = "none"
  BY NoCallTyped DEF GateInit, NoCall, Asked
<1>2. was \in [true : BOOLEAN, false : BOOLEAN, misled : SUBSET BOOLEAN]
  BY DEF GateInit, Unseen
<1>3. calls \in 0 .. MaxCalls
  <2>1. calls = 0
    BY DEF GateInit
  <2> QED BY <2>1, CallAssumption
<1>4. session \in BOOLEAN
  BY DEF GateInit
<1> QED BY <1>1, <1>2, <1>3, <1>4 DEF GateInit, GateInv, GateTypeOK, Gates

\* A watched check that has its turn at a probe is a store's.
LEMMA StoreIsOne == Store \in Checks => Store \in Stores
<1>1. "none" \notin Checks
  BY PolicyAssumption DEF Checks, Optional, Stores, Facts, SyncChecks, EvidenceChecks,
                          CalibrationChecks, AssetChecks, StorageChecks
<1> QED BY <1>1 DEF Store, Stores

\* Whatever happens, a status is READY or it is not.
LEMMA StatusTyped ==
  ASSUME GateInv, Step
  PROVE  ready' \in [Stores -> BOOLEAN]
<1>1. ready \in [Stores -> BOOLEAN] /\ works \in [Stores -> BOOLEAN]
  BY DEF GateInv, GateTypeOK
<1>2. CASE AuditUsed
  BY <1>1, <1>2 DEF AuditUsed, Outcomes, Stores
<1>3. CASE UseMarked
  BY <1>1, <1>3 DEF UseMarked, Stores
<1>4. CASE ProbeAudit
  <2>1. Store = "audit-health" /\ ready' = [ready EXCEPT ![Store] = works[Store]]
    BY <1>4 DEF ProbeAudit
  <2> QED BY <1>1, <2>1 DEF Stores
<1>5. CASE MarkProbe
  BY <1>1, <1>5 DEF MarkProbe
<1> QED
  BY <1>1, <1>2, <1>3, <1>4, <1>5
  DEF Step, StoreChanges, PersistenceUsed, Ask, ProbePersistence, Check, Refuse, Start, Return,
      SessionEnds, outside, call

LEMMA MisledTyped == GateInv /\ Step => Misled \subseteq BOOLEAN
<1> SUFFICES ASSUME GateInv, Step, gate.probed, gate.watch = Store,
                    ready'[Store] # ready[Store]
             PROVE  ready'[Store] \in BOOLEAN
  BY DEF Misled
<1>1. Store \in Stores
  BY StoreIsOne DEF GateInv, GateTypeOK
<1>2. ready' \in [Stores -> BOOLEAN]
  BY StatusTyped
<1> QED BY <1>1, <1>2

LEMMA GateStep ==
  ASSUME GateInv, [Next]_vars
  PROVE  GateInv'
<1> USE DEF GateInv, GateTypeOK
<1>1. CASE UNCHANGED vars
  BY <1>1 DEF vars, outside, call
<1>2. CASE Step /\ Observe
  <2>1. was' \in [true : BOOLEAN, false : BOOLEAN, misled : SUBSET BOOLEAN]
    <3>1. Misled \subseteq BOOLEAN
      BY <1>2, MisledTyped
    <3> QED
      BY <1>2, <3>1 DEF Observe, Unseen
  <2>2. CASE UNCHANGED <<outside, call>>
    BY <2>1, <2>2 DEF outside, call
  <2>3. ASSUME NEW s \in Stores, StoreChanges(s)
        PROVE  GateInv'
    BY <2>1, <2>3 DEF StoreChanges, call
  <2>4. CASE AuditUsed
    BY <2>1, <2>4 DEF AuditUsed, Outcomes, call, Stores
  <2>5. CASE PersistenceUsed
    BY <2>1, <2>5 DEF PersistenceUsed, call
  <2>6. CASE UseMarked
    BY <2>1, <2>6 DEF UseMarked, call
  <2>7. CASE Ask
    <3>1. PICK k \in Watched : gate' = [Asked EXCEPT !.watch = k]
      BY <2>7 DEF Ask
    <3>2. 1 \in 1 .. Len(Order) /\ k \in Checks
      BY OrderLength, WatchAssumption
    <3>3. gate' \in Gates /\ gate'.watch = k
      BY <3>1, <3>2 DEF Asked, Gates
    <3>4. calls' \in 0 .. MaxCalls
      BY <2>7, CallAssumption DEF Ask
    <3> QED BY <2>1, <2>7, <3>3, <3>4 DEF Ask, outside, Gates
  <2>8. CASE ProbeAudit
    BY <2>1, <2>8 DEF ProbeAudit, Store, Stores
  <2>9. CASE ProbePersistence
    BY <2>1, <2>9 DEF ProbePersistence, Outcome, outside
  <2>10. CASE MarkProbe
    BY <2>1, <2>10 DEF MarkProbe
  <2>11. CASE Check
    <3>1. Advanced \in [pc : {"report", "asked"}, next : 1 .. Len(Order),
                        probed : BOOLEAN, failed : BOOLEAN, found : BOOLEAN,
                        watch : {gate.watch}]
      <4>1. 1 \in 1 .. Len(Order) /\ (~Finished => gate.next + 1 \in 1 .. Len(Order))
        BY OrderLength DEF Finished
      <4>2. gate \in Gates
        BY DEF Gates
      <4> HIDE DEF GateInv, GateTypeOK
      <4> QED BY <4>1, <4>2 DEF Advanced, Gates
    <3>2. \E b \in BOOLEAN : gate' = [Advanced EXCEPT !.failed = b]
      BY <2>11 DEF Check, Advanced
    <3> QED BY <2>1, <2>11, <3>1, <3>2 DEF Check, outside
  <2>12. CASE Refuse \/ Start
    <3>1. PICK pc \in {"refused", "started", "conflict"} : gate' = [gate EXCEPT !.pc = pc]
      BY <2>12 DEF Refuse, Start
    <3>2. gate' \in Gates /\ gate'.pc # "none" /\ gate'.watch = gate.watch /\ gate.pc # "none"
      BY <2>12, <3>1 DEF Gates, Refuse, Start
    <3>3. session' \in BOOLEAN
      BY <2>12 DEF Refuse, Start
    <3> QED BY <2>1, <2>12, <3>2, <3>3 DEF Refuse, Start, outside, Gates
  <2>13. CASE Return
    <3>1. gate' \in Gates /\ gate'.pc = "none"
      BY <2>13, NoCallTyped DEF Return, NoCall, Asked
    <3> QED BY <2>1, <2>13, <3>1 DEF Return, outside, Gates
  <2>14. CASE SessionEnds
    BY <2>1, <2>14 DEF SessionEnds, outside
  <2> QED BY <1>2, <2>2, <2>3, <2>4, <2>5, <2>6, <2>7, <2>8, <2>9, <2>10, <2>11,
             <2>12, <2>13, <2>14 DEF Step
<1> QED BY <1>1, <1>2 DEF Next

(***************************************************************************)
(* What the history has seen so far that makes the watched check pass, or  *)
(* fail, rightly.                                                          *)
(***************************************************************************)
Right == Holds(gate.watch)
SeenGood == was.true \/ TRUE \in was.misled
SeenBad == was.false \/ FALSE \in was.misled

InCall == gate.pc # "none"
Probing == gate.pc \in {"success", "error"}
Judging == gate.pc = "asked" \/ Probing

\* At every position of the call: a probe knows what it found, a status that was
\* probed is that of a time within the call, the watched check failed for a
\* reason, and if nothing failed so far and it has had its turn, it passed for
\* one.
Witnessed ==
  /\ InCall /\ Right => was.true
  /\ InCall /\ ~Right => was.false
  /\ Probing => Store = "persistence-health"
  /\ Probing /\ gate.watch = Store =>
       IF gate.pc = "success" THEN SeenGood ELSE SeenBad
  /\ gate.pc = "asked" /\ gate.probed /\ gate.watch = Store =>
       IF ready[Store] THEN SeenGood ELSE SeenBad
  /\ InCall /\ ~gate.found => SeenBad
  /\ Judging /\ ~gate.failed =>
       \A j \in 1 .. 8 : j < gate.next /\ gate.watch \in Order[j] => SeenGood
  /\ gate.pc \in {"report", "started"} /\ ~gate.failed => SeenGood
  /\ gate.pc = "started" => ~gate.failed

\* What a step adds to the history.
LEMMA Observed ==
  ASSUME Observe, InCall'
  PROVE  /\ SeenGood => SeenGood'
         /\ SeenBad => SeenBad'
         /\ Right' => was'.true
         /\ ~Right' => was'.false
         /\ was'.misled = was.misled \cup Misled
BY DEF Observe, InCall, Right, SeenGood, SeenBad

\* The watched check, when it has its turn, is right.
LEMMA Judged ==
  ASSUME GateInv, Witnessed, gate.pc = "asked", Store # "none" => gate.probed,
         gate.watch \in Order[gate.next]
  PROVE  /\ gate.watch \in Failing <=> ~Passes(gate.watch)
         /\ Passes(gate.watch) => SeenGood
         /\ ~Passes(gate.watch) => SeenBad
<1>1. gate.next \in 1 .. 8 /\ gate.watch \in Checks \ Facts
  BY OrderLength, WatchAssumption DEF GateInv, GateTypeOK
<1>2. gate.watch \in Failing <=> ~Passes(gate.watch)
  BY <1>1 DEF Failing
<1>3. CASE gate.watch \in Stores
  <2>1. gate.watch = Store /\ Store # "none"
    <3>1. gate.watch = "audit-health" => gate.next = 6 /\ "audit-health" \in Required
      BY <1>1, <1>3 DEF Order, Checks, Facts, Stores, SyncChecks, EvidenceChecks,
                 CalibrationChecks, AssetChecks, StorageChecks
    <3>2. gate.watch = "persistence-health" => gate.next = 7
      BY <1>1, <1>3 DEF Order, Checks, Facts, Stores, SyncChecks, EvidenceChecks,
                 CalibrationChecks, AssetChecks, StorageChecks
    <3> QED BY <1>3, <3>1, <3>2 DEF Store, Stores
  <2>2. Passes(gate.watch) = ready[Store]
    BY <1>3, <2>1 DEF Passes, Stores
  <2> QED BY <1>2, <2>1, <2>2 DEF Witnessed
<1>4. CASE gate.watch \notin Stores
  BY <1>2, <1>4 DEF Witnessed, InCall, Right, Holds, SeenGood, SeenBad
<1> QED BY <1>3, <1>4

LEMMA WitnessedInit == GateInit => Witnessed
BY DEF GateInit, NoCall, Asked, Witnessed, InCall, Probing, Judging

\* A step that leaves the call and the statuses alone only adds to the history.
LEMMA WitnessedKept ==
  ASSUME Witnessed, Observe, UNCHANGED <<ready, gate>>
  PROVE  Witnessed'
<1>1. CASE ~InCall
  BY <1>1 DEF Witnessed, InCall, Probing, Judging
<1>2. CASE InCall
  <2>1. InCall'
    BY <1>2 DEF InCall
  <2>2. Store' = Store
    BY DEF Store
  <2> QED
    BY <2>1, <2>2, Observed DEF Witnessed, InCall, Probing, Judging
<1> QED BY <1>1, <1>2

LEMMA WitnessedStep ==
  ASSUME GateInv, Witnessed, Step, Observe
  PROVE  Witnessed'
<1>1. CASE UNCHANGED <<ready, gate>>
  BY <1>1, WitnessedKept
<1>2. ASSUME AuditUsed \/ UseMarked, InCall
      PROVE  Witnessed'
  <2>1. gate' = gate /\ InCall' /\ Store' = Store /\ works' = works
    BY <1>2 DEF AuditUsed, UseMarked, call, InCall, Store
  <2>2. SeenGood => SeenGood'
    BY <2>1, Observed
  <2>3. SeenBad => SeenBad'
    BY <2>1, Observed
  <2>4. ASSUME gate.pc = "asked", gate.probed, gate.watch = Store
        PROVE  IF ready'[Store] THEN SeenGood' ELSE SeenBad'
    <3>1. CASE ready'[Store] = ready[Store]
      BY <2>2, <2>3, <2>4, <3>1 DEF Witnessed
    <3>2. CASE ready'[Store] # ready[Store] /\ ready'[Store] = works[Store]
      <4>1. Store \in Stores
        BY <2>4, StoreIsOne DEF GateInv, GateTypeOK
      <4>2. Right' = works[Store]
        BY <2>1, <2>4, <4>1 DEF Right, Holds
      <4> QED BY <2>1, <3>2, <4>2, Observed DEF SeenGood, SeenBad
    <3>3. CASE ready'[Store] # ready[Store] /\ ready'[Store] # works[Store]
      <4>1. ready'[Store] \in Misled
        BY <2>1, <2>4, <3>3 DEF Misled
      <4>2. ready'[Store] \in was'.misled
        BY <2>1, <4>1, Observed
      <4>3. ready'[Store] \in BOOLEAN
        <5>1. Store \in Stores
          BY <2>4, StoreIsOne DEF GateInv, GateTypeOK
        <5> QED BY <5>1, StatusTyped
      <4> QED BY <4>2, <4>3 DEF SeenGood, SeenBad
    <3> QED BY <3>1, <3>2, <3>3
  <2>5. (Right' => was'.true) /\ (~Right' => was'.false)
    BY <2>1, Observed
  <2>6. gate'.pc = "asked" /\ gate'.probed /\ gate'.watch = Store' =>
          IF ready'[Store'] THEN SeenGood' ELSE SeenBad'
    BY <2>1, <2>4
  <2> QED BY <1>2, <2>1, <2>2, <2>3, <2>5, <2>6
          DEF Witnessed, Probing, Judging, InCall
<1>3. CASE ~InCall'
  BY <1>3 DEF Witnessed, InCall, Probing, Judging
<1>4. CASE Ask
  <2>1. PICK k \in Watched : gate' = [Asked EXCEPT !.watch = k]
    BY <1>4 DEF Ask
  <2>2. /\ gate'.pc = "asked" /\ gate'.next = 1 /\ gate'.probed = FALSE
        /\ gate'.found = TRUE
    BY <2>1 DEF Asked
  <2>3. InCall'
    BY <2>2 DEF InCall
  <2> QED BY <2>2, <2>3, Observed DEF Witnessed, Probing, Judging
<1>5. CASE ProbeAudit
  <2>1. /\ gate.pc = "asked" /\ Store = "audit-health"
        /\ gate' = [gate EXCEPT !.probed = TRUE]
        /\ ready' = [ready EXCEPT ![Store] = works[Store]] /\ works' = works
    BY <1>5 DEF ProbeAudit
  <2>2. /\ gate'.pc = gate.pc /\ gate'.next = gate.next /\ gate'.watch = gate.watch
        /\ gate'.failed = gate.failed /\ gate'.found = gate.found
    BY <2>1 DEF GateInv, GateTypeOK
  <2>3. InCall /\ InCall' /\ Store' = Store
    BY <2>1, <2>2 DEF InCall, Store
  <2>4. ready'[Store] = works[Store]
    BY <2>1 DEF GateInv, GateTypeOK, Stores
  <2>5. gate.watch = Store => Right' = works[Store]
    BY <2>1, <2>2 DEF Right, Holds, Stores
  <2>6. gate.watch = Store => IF ready'[Store] THEN SeenGood' ELSE SeenBad'
    BY <2>3, <2>4, <2>5, Observed DEF SeenGood, SeenBad
  <2>7. /\ SeenGood => SeenGood'
        /\ SeenBad => SeenBad'
        /\ Right' => was'.true
        /\ ~Right' => was'.false
    BY <2>3, Observed
  <2> QED BY <2>1, <2>2, <2>3, <2>6, <2>7 DEF Witnessed, InCall, Probing, Judging
<1>6. CASE ProbePersistence
  <2>1. /\ gate.pc = "asked" /\ Store = "persistence-health"
        /\ gate' = [gate EXCEPT !.pc = Outcome] /\ ready' = ready /\ works' = works
    BY <1>6 DEF ProbePersistence, outside
  <2>2. /\ gate'.pc = Outcome /\ gate'.next = gate.next /\ gate'.watch = gate.watch
        /\ gate'.failed = gate.failed /\ gate'.found = gate.found
    BY <2>1 DEF GateInv, GateTypeOK
  <2>3. InCall /\ InCall' /\ Store' = Store /\ Outcome \in {"success", "error"}
    BY <2>1, <2>2 DEF InCall, Store, Outcome
  <2>4. gate.watch = Store => Right' = (Outcome = "success")
    BY <2>1, <2>2 DEF Right, Holds, Stores, Outcome, GateInv, GateTypeOK
  <2>5. gate.watch = Store => IF Outcome = "success" THEN SeenGood' ELSE SeenBad'
    BY <2>3, <2>4, Observed DEF SeenGood, SeenBad
  <2>6. /\ SeenGood => SeenGood'
        /\ SeenBad => SeenBad'
        /\ Right' => was'.true
        /\ ~Right' => was'.false
    BY <2>3, Observed
  <2> QED BY <2>1, <2>2, <2>3, <2>5, <2>6 DEF Witnessed, InCall, Probing, Judging
<1>7. CASE MarkProbe
  <2>1. /\ Probing /\ gate' = [gate EXCEPT !.pc = "asked", !.probed = TRUE]
        /\ ready' = [ready EXCEPT ![Store] = (gate.pc = "success")]
    BY <1>7 DEF MarkProbe, Probing
  <2>2. /\ gate'.pc = "asked" /\ gate'.next = gate.next /\ gate'.watch = gate.watch
        /\ gate'.failed = gate.failed /\ gate'.found = gate.found
    BY <2>1 DEF GateInv, GateTypeOK
  <2>3. InCall /\ InCall' /\ Store' = Store /\ Store = "persistence-health"
    BY <2>1, <2>2 DEF InCall, Store, Probing, Witnessed
  <2>4. ready'[Store] = (gate.pc = "success")
    BY <2>1, <2>3 DEF GateInv, GateTypeOK, Stores
  <2>5. /\ SeenGood => SeenGood'
        /\ SeenBad => SeenBad'
        /\ Right' => was'.true
        /\ ~Right' => was'.false
    BY <2>3, Observed
  <2>6. gate.watch = Store => IF ready'[Store] THEN SeenGood' ELSE SeenBad'
    BY <2>1, <2>4, <2>5 DEF Witnessed
  <2> QED BY <2>1, <2>2, <2>3, <2>5, <2>6 DEF Witnessed, InCall, Probing, Judging
<1>8. CASE Check
  <2> DEFINE k == gate.watch
             here == k \in Order[gate.next]
  <2>1. /\ gate.pc = "asked" /\ (Store # "none" => gate.probed)
        /\ gate.next \in 1 .. 8 /\ k \in Checks \ Facts
    BY <1>8, OrderLength, WatchAssumption DEF Check, GateInv, GateTypeOK
  <2>2. /\ here => (k \in Failing => SeenBad) /\ (k \notin Failing => SeenGood)
    BY <2>1, Judged
  <2>3. /\ gate'.pc = IF Finished THEN "report" ELSE "asked"
        /\ gate'.next = IF Finished THEN 1 ELSE gate.next + 1
        /\ gate'.probed = FALSE /\ gate'.watch = k
        /\ gate'.found = IF here THEN k \notin Failing ELSE gate.found
        /\ ~gate'.failed => ~gate.failed /\ Failing = {}
    <3>1. gate \in Gates
      BY DEF GateInv, GateTypeOK, Gates
    <3>2. \/ gate' = [Advanced EXCEPT !.failed = @ \/ Failing # {}]
          \/ gate' = [Advanced EXCEPT !.failed = TRUE]
      BY <1>8 DEF Check
    <3> QED BY <3>1, <3>2 DEF Advanced, Gates
  <2>4. InCall /\ InCall'
    BY <2>1, <2>3 DEF InCall
  <2>5. /\ SeenGood => SeenGood'
        /\ SeenBad => SeenBad'
        /\ Right' => was'.true
        /\ ~Right' => was'.false
    BY <2>4, Observed
  <2>6. ~gate'.found => SeenBad'
    BY <2>2, <2>3, <2>4, <2>5 DEF Witnessed
  <2>7. ASSUME ~gate'.failed, NEW j \in 1 .. 8, j <= gate.next, k \in Order[j]
        PROVE  SeenGood'
    <3>1. CASE j = gate.next
      BY <2>2, <2>3, <2>5, <2>7, <3>1
    <3>2. CASE j # gate.next
      BY <2>1, <2>3, <2>5, <2>7, <3>2 DEF Witnessed, Judging
    <3> QED BY <3>1, <3>2
  <2>8. ASSUME Finished, ~gate'.failed
        PROVE  SeenGood'
    <3>1. gate.next = 8
      BY <2>8, OrderLength DEF Finished
    <3>2. \E j \in 1 .. 8 : k \in Order[j]
      <4>1. k \in {"camera-hub", "model-pool", "model-warmup", "cameras",
                   "audit-health", "persistence-health"}
        BY <2>1, PolicyAssumption DEF Checks, Optional, Stores
      <4>2. /\ "camera-hub" \in Order[1] /\ "model-pool" \in Order[2]
            /\ "model-warmup" \in Order[3] /\ "cameras" \in Order[4]
            /\ "audit-health" \in Order[6] /\ "persistence-health" \in Order[7]
        BY DEF Order
      <4> QED BY <4>1, <4>2
    <3> QED BY <2>7, <2>8, <3>1, <3>2
  <2>9. ASSUME ~Finished, ~gate'.failed, NEW j \in 1 .. 8, j < gate'.next,
               k \in Order[j]
        PROVE  SeenGood'
    BY <2>1, <2>3, <2>7, <2>9
  <2> QED BY <2>3, <2>4, <2>5, <2>6, <2>8, <2>9 DEF Witnessed, InCall, Probing, Judging
<1>9. CASE Refuse \/ Start
  <2>1. /\ gate.pc = "report"
        /\ \E pc \in {"refused", "started", "conflict"} :
             gate' = [gate EXCEPT !.pc = pc] /\ (pc # "refused" => ~gate.failed)
    BY <1>9 DEF Refuse, Start
  <2>2. /\ gate'.pc \in {"refused", "started", "conflict"}
        /\ gate'.watch = gate.watch
        /\ gate'.failed = gate.failed /\ gate'.found = gate.found
        /\ gate'.pc # "refused" => ~gate.failed
    BY <2>1 DEF GateInv, GateTypeOK
  <2>3. InCall /\ InCall'
    BY <2>1, <2>2 DEF InCall
  <2>4. /\ SeenGood => SeenGood'
        /\ SeenBad => SeenBad'
        /\ Right' => was'.true
        /\ ~Right' => was'.false
    BY <2>3, Observed
  <2> QED BY <2>1, <2>2, <2>3, <2>4 DEF Witnessed, InCall, Probing, Judging
<1> QED
  <2>1. Return => ~InCall'
    BY DEF Return, NoCall, Asked, InCall
  <2>2. GatewayNext /\ UNCHANGED <<outside, call>> => UNCHANGED <<ready, gate>>
    BY DEF outside, call
  <2>3. ASSUME NEW s \in Stores, StoreChanges(s)
        PROVE  UNCHANGED <<ready, gate>>
    BY <2>3 DEF StoreChanges, call
  <2>4. PersistenceUsed \/ SessionEnds => UNCHANGED <<ready, gate>>
    BY DEF PersistenceUsed, SessionEnds, call, outside
  <2>5. (AuditUsed \/ UseMarked) /\ ~InCall => ~InCall'
    BY DEF AuditUsed, UseMarked, call, InCall
  <2> QED BY <1>1, <1>2, <1>3, <1>4, <1>5, <1>6, <1>7, <1>8, <1>9,
             <2>1, <2>2, <2>3, <2>4, <2>5 DEF Step

CallInv == GateInv /\ Witnessed

LEMMA CallAlways == Spec => []CallInv
<1>1. GateInit => CallInv
  BY GateInit_Inv, WitnessedInit DEF CallInv
<1>2. CallInv /\ [Next]_vars => CallInv'
  <2> SUFFICES ASSUME CallInv, [Next]_vars
               PROVE  CallInv'
    OBVIOUS
  <2>1. CASE UNCHANGED vars
    <3>1. UNCHANGED <<gate, ready, works, was, hub, pool, health>>
      BY <2>1 DEF vars, gatewayVars, lifespan, cameraThreads, outside, call
    <3>2. Right' = Right /\ Store' = Store
      BY <3>1 DEF Right, Holds, Passes, Store
    <3>3. Witnessed'
      BY <3>1, <3>2 DEF CallInv, Witnessed, InCall, Probing, Judging, SeenGood,
                        SeenBad
    <3> QED BY <3>3, GateStep DEF CallInv
  <2>2. CASE Next
    BY <2>2, GateStep, WitnessedStep DEF CallInv, Next
  <2> QED BY <2>1, <2>2
<1> QED BY <1>1, <1>2, PTL DEF Spec

\* A session starts only when everything the policy requires was the case
\* during this very call, or an outdated success was noted after the probe.
THEOREM AdmissionIsSound == Spec => []Admission
<1>1. CallInv => Admission
  BY DEF CallInv, Witnessed, Admission, SeenGood
<1> QED BY <1>1, CallAlways, PTL

\* A check that stops a session from starting was right during the call, or a
\* failure was noted after the probe that was not the store's.
THEOREM RefusalIsJust == Spec => []RefusalJustified
<1>1. CallInv => RefusalJustified
  BY DEF CallInv, Witnessed, RefusalJustified, SeenBad, InCall
<1> QED BY <1>1, CallAlways, PTL

\* Every variable of the composition keeps its type.
THEOREM ReadinessTypes == Spec => []TypeOK
<1>1. CallInv => GateTypeOK
  BY DEF CallInv, GateInv
<1>2. GatewayTypeOK /\ GateTypeOK => TypeOK
  BY DEF TypeOK, GateTypeOK
<1> QED BY <1>1, <1>2, CallAlways, ServiceTypes, PTL
=============================================================================
