---------------------- MODULE SessionController_proofs ----------------------
(***************************************************************************)
(* Proofs about SessionController, for any number of callers and sessions. *)
(*                                                                         *)
(* LiveIsCurrent is not inductive: that a runtime receiving frames is the  *)
(* controller's own depends on who holds the lock, on the running status   *)
(* and the runtime changing together, and on there being one finisher,     *)
(* which has unsubscribed its runtime before it gives it up (LiveInv).     *)
(* On it rest, one after the other: what is written to the directories     *)
(* (WriteInv), whom the threads and finishers file for (FileInv), that a   *)
(* final.json agrees with what is about to be reported (SealInv), and with *)
(* these that the controller implements Workstation.                       *)
(***************************************************************************)
EXTENDS SessionController, TLAPS

\* A caller that is executing carries a session id.
JobIds == \A c \in Callers : job[c].pc # "idle" => job[c].sid \in Sessions

LEMMA TypeInit == Init => TypeOK
<1> SUFFICES ASSUME Init PROVE TypeOK
  OBVIOUS
<1>1. job \in [Callers -> Jobs]
  BY DEF Init, Jobs, Idle, Terminal
<1>2. wiring \in [Sessions -> Wirings]
  BY DEF Init, Wirings
<1>3. thread \in [Sessions -> Threads]
  BY DEF Init, Threads, ThreadPcs
<1>4. backlog \in [Sessions -> 0 .. QueueSize]
  BY QueueAssumption DEF Init
<1>5. audit \in [Sessions -> Dirs]
  BY DEF Init, Dirs
<1> QED
  BY <1>1, <1>2, <1>3, <1>4, <1>5 DEF Init, TypeOK

\* The two ways a handler leaves its caller keep the jobs typed.
LEMMA GotoTyped ==
  ASSUME job \in [Callers -> Jobs], NEW c \in Callers,
         NEW pc \in {"idle"} \cup StartPcs \cup FinishPcs, Goto(c, pc)
  PROVE  job' \in [Callers -> Jobs]
BY DEF Goto, Jobs

LEMMA ReturnTyped ==
  ASSUME job \in [Callers -> Jobs], NEW c \in Callers, Return(c)
  PROVE  job' \in [Callers -> Jobs]
<1>1. Idle \in Jobs
  BY DEF Idle, Jobs, Terminal
<1> QED
  BY <1>1 DEF Return

\* Nor do they disturb the session ids that executing callers carry.
LEMMA GotoIds ==
  ASSUME job \in [Callers -> Jobs], JobIds, NEW c \in Callers, NEW pc,
         ~At(c, "idle"), Goto(c, pc)
  PROVE  JobIds'
<1>1. job[c].sid \in Sessions
  BY DEF JobIds, At
<1>2. \A d \in Callers : job'[d].sid = job[d].sid /\ (d # c => job'[d] = job[d])
  BY DEF Goto, Jobs
<1> QED
  BY <1>1, <1>2 DEF JobIds

LEMMA ReturnIds ==
  ASSUME job \in [Callers -> Jobs], JobIds, NEW c \in Callers, Return(c)
  PROVE  JobIds'
BY DEF JobIds, Return, Idle

\* Updates of one field of one audit directory, or of one thread, keep them typed.
LEMMA DirTyped ==
  ASSUME audit \in [Sessions -> Dirs], NEW s
  PROVE  [audit EXCEPT ![s].dir = TRUE] \in [Sessions -> Dirs]
BY DEF Dirs

LEMMA FinalTyped ==
  ASSUME audit \in [Sessions -> Dirs], NEW s, NEW final \in Terminal
  PROVE  [audit EXCEPT ![s].final = final] \in [Sessions -> Dirs]
BY DEF Dirs

LEMMA ThreadTyped ==
  ASSUME thread \in [Sessions -> Threads],
         NEW s \in Sessions, NEW k \in Kinds, NEW pc \in ThreadPcs
  PROVE  [thread EXCEPT ![s][k].pc = pc] \in [Sessions -> Threads]
<1>1. thread[s][k] \in [pc : ThreadPcs, target : Sessions \cup {None}]
  BY DEF Threads
<1>2. [thread[s][k] EXCEPT !.pc = pc] \in [pc : ThreadPcs, target : Sessions \cup {None}]
  BY <1>1
<1>3. [thread[s] EXCEPT ![k].pc = pc] \in Threads
  BY <1>2 DEF Threads
<1> QED
  BY <1>3 DEF Threads

\* The type invariant, with the session ids of the jobs, is inductive.
LEMMA TypeStep == TypeOK /\ JobIds /\ [Next]_vars => TypeOK' /\ JobIds'
<1> SUFFICES ASSUME TypeOK, JobIds, [Next]_vars PROVE TypeOK' /\ JobIds'
  OBVIOUS
<1>1. ASSUME NEW c \in Callers, NEW s \in Sessions, StartEnter(c, s)
       PROVE  TypeOK' /\ JobIds'
  <2>1. job' \in [Callers -> Jobs]
    BY <1>1 DEF StartEnter, TypeOK, Jobs, Idle, Terminal, StartPcs
  <2>2. JobIds'
    BY <1>1 DEF StartEnter, TypeOK, JobIds, Idle
  <2> QED
    BY <1>1, <2>1, <2>2 DEF StartEnter, TypeOK, controller, analysis, history
<1>2. ASSUME NEW c \in Callers, StartReserve(c)
       PROVE  TypeOK' /\ JobIds'
  <2>1. job' \in [Callers -> Jobs]
    BY <1>2, GotoTyped DEF StartReserve, TypeOK, StartPcs, FinishPcs
  <2>2. JobIds'
    BY <1>2 DEF StartReserve, TypeOK, JobIds, Goto, At
  <2>3. audit' \in [Sessions -> Dirs]
    BY <1>2 DEF StartReserve, TypeOK, Dirs
  <2> QED
    BY <1>2, <2>1, <2>2, <2>3 DEF StartReserve, TypeOK, controller, analysis, history
<1>3. ASSUME NEW c \in Callers, StartRefused(c)
       PROVE  TypeOK' /\ JobIds'
  <2>1. job' \in [Callers -> Jobs]
    BY <1>3, ReturnTyped DEF StartRefused, TypeOK
  <2>2. JobIds'
    BY <1>3 DEF StartRefused, TypeOK, JobIds, Return, Idle
  <2>3. audit' \in [Sessions -> Dirs]
    BY <1>3, DirTyped DEF StartRefused, TypeOK
  <2> QED
    BY <1>3, <2>1, <2>2, <2>3 DEF StartRefused, TypeOK, controller, analysis, history
<1>4. ASSUME NEW c \in Callers, StartLaunch(c)
       PROVE  TypeOK' /\ JobIds'
  <2>1. job' \in [Callers -> Jobs]
    BY <1>4, ReturnTyped DEF StartLaunch, TypeOK
  <2>2. JobIds'
    BY <1>4 DEF StartLaunch, TypeOK, JobIds, Return, Idle
  <2>3. state' \in States \cup {None}
    BY <1>4 DEF StartLaunch, JobIds, At, States, Status
  <2>4. thread' \in [Sessions -> Threads]
    <3>1. job[c].sid \in Sessions
      BY <1>4 DEF StartLaunch, JobIds, At
    <3>2. [k \in Kinds |-> [thread[job[c].sid][k] EXCEPT !.pc = "run"]] \in Threads
      <4>1. \A k \in Kinds : thread[job[c].sid][k] \in
                               [pc : ThreadPcs, target : Sessions \cup {None}]
        BY <3>1 DEF TypeOK, Threads
      <4>2. "run" \in ThreadPcs
        BY DEF ThreadPcs, Active
      <4>3. \A k \in Kinds : [thread[job[c].sid][k] EXCEPT !.pc = "run"] \in
                               [pc : ThreadPcs, target : Sessions \cup {None}]
        BY <4>1, <4>2
      <4> QED
        BY <4>3 DEF Threads
    <3> QED
      BY <1>4, <3>1, <3>2 DEF StartLaunch, TypeOK
  <2>5. wiring' \in [Sessions -> Wirings]
    BY <1>4 DEF StartLaunch, TypeOK, Wirings
  <2> QED
    BY <1>4, <2>1, <2>2, <2>3, <2>4, <2>5 DEF StartLaunch, TypeOK, controller, analysis, history, JobIds, At
<1>5. ASSUME NEW c \in Callers, StartFails(c)
       PROVE  TypeOK' /\ JobIds'
  <2>1. job' \in [Callers -> Jobs]
    BY <1>5, ReturnTyped DEF StartFails, TypeOK
  <2>2. JobIds'
    BY <1>5 DEF StartFails, TypeOK, JobIds, Return, Idle
  <2>3. thread' \in [Sessions -> Threads]
    <3>1. job[c].sid \in Sessions /\ "run" \in ThreadPcs /\ "worker" \in Kinds
      BY <1>5 DEF StartFails, JobIds, At, ThreadPcs, Active, Kinds
    <3> QED
      BY <1>5, <3>1, ThreadTyped DEF StartFails, TypeOK
  <2>4. audit' \in [Sessions -> Dirs]
    BY <1>5 DEF StartFails, TypeOK, Dirs, Terminal
  <2> QED
    BY <1>5, <2>1, <2>2, <2>3, <2>4 DEF StartFails, TypeOK, controller, analysis, history
<1>6. ASSUME NEW c \in Callers, NEW s \in Sessions, NEW status \in Terminal,
               FinishEnter(c, s, status)
       PROVE  TypeOK' /\ JobIds'
  <2>1. job' \in [Callers -> Jobs]
    BY <1>6 DEF FinishEnter, TypeOK, Jobs, Status, FinishPcs
  <2>2. JobIds'
    BY <1>6 DEF FinishEnter, TypeOK, JobIds
  <2> QED
    BY <1>6, <2>1, <2>2 DEF FinishEnter, TypeOK, controller, analysis, history
<1>7. ASSUME NEW c \in Callers, FinishPoll(c)
       PROVE  TypeOK' /\ JobIds'
  <2>1. job' \in [Callers -> Jobs]
    BY <1>7, GotoTyped DEF FinishPoll, TypeOK, FinishPcs
  <2>2. JobIds'
    BY <1>7 DEF FinishPoll, TypeOK, JobIds, Goto, At
  <2> QED
    BY <1>7, <2>1, <2>2 DEF FinishPoll, TypeOK, controller, analysis, history
<1>8. ASSUME NEW c \in Callers, FinishFile(c)
       PROVE  TypeOK' /\ JobIds'
  <2>1. job' \in [Callers -> Jobs]
    BY <1>8, ReturnTyped DEF FinishFile, TypeOK, Jobs, FinishPcs
  <2>2. JobIds'
    <3>1. job[c].sid \in Sessions
      BY <1>8 DEF FinishFile, JobIds, At
    <3>2. \A d \in Callers : \/ job'[d].sid = job[d].sid /\ (d # c => job'[d] = job[d])
                           \/ job'[d].pc = "idle"
      BY <1>8 DEF FinishFile, TypeOK, Jobs, Return, Idle
    <3> QED
      BY <3>1, <3>2 DEF JobIds
  <2> QED
    BY <1>8, <2>1, <2>2 DEF FinishFile, TypeOK, controller, analysis, history, File, JobIds, At
<1>9. ASSUME NEW c \in Callers, FinishHalt(c)
       PROVE  TypeOK' /\ JobIds'
  <2>1. job' \in [Callers -> Jobs]
    BY <1>9, GotoTyped DEF FinishHalt, TypeOK, StartPcs, FinishPcs
  <2>2. JobIds'
    BY <1>9 DEF FinishHalt, TypeOK, JobIds, Goto, At
  <2>3. wiring' \in [Sessions -> Wirings]
    BY <1>9 DEF FinishHalt, TypeOK, Wirings
  <2> QED
    BY <1>9, <2>1, <2>2, <2>3 DEF FinishHalt, TypeOK, controller, analysis, history
<1>10. ASSUME NEW c \in Callers, FinishJoin(c)
       PROVE  TypeOK' /\ JobIds'
  <2>1. job' \in [Callers -> Jobs]
    BY <1>10, GotoTyped DEF FinishJoin, TypeOK, StartPcs, FinishPcs
  <2>2. JobIds'
    BY <1>10 DEF FinishJoin, TypeOK, JobIds, Goto, At
  <2>3. wiring' \in [Sessions -> Wirings]
    BY <1>10 DEF FinishJoin, TypeOK, Wirings
  <2> QED
    BY <1>10, <2>1, <2>2, <2>3 DEF FinishJoin, TypeOK, controller, analysis, history
<1>11. ASSUME NEW c \in Callers, FinishJoinTimeout(c)
       PROVE  TypeOK' /\ JobIds'
  <2>1. job' \in [Callers -> Jobs]
    BY <1>11, GotoTyped DEF FinishJoinTimeout, TypeOK, StartPcs, FinishPcs
  <2>2. JobIds'
    BY <1>11 DEF FinishJoinTimeout, TypeOK, JobIds, Goto, At
  <2>3. wiring' \in [Sessions -> Wirings]
    BY <1>11 DEF FinishJoinTimeout, TypeOK, Wirings
  <2> QED
    BY <1>11, <2>1, <2>2, <2>3 DEF FinishJoinTimeout, TypeOK, controller, analysis, history, JobIds, At
<1>12. ASSUME NEW c \in Callers, FinishJoinRace(c)
       PROVE  TypeOK' /\ JobIds'
  <2>1. job' \in [Callers -> Jobs]
    BY <1>12, ReturnTyped DEF FinishJoinRace, TypeOK
  <2>2. JobIds'
    BY <1>12 DEF FinishJoinRace, TypeOK, JobIds, Return, Idle
  <2> QED
    BY <1>12, <2>1, <2>2 DEF FinishJoinRace, TypeOK, controller, analysis, history
<1>13. ASSUME NEW c \in Callers, FinishClose(c)
       PROVE  TypeOK' /\ JobIds'
  <2>1. job' \in [Callers -> Jobs]
    BY <1>13, GotoTyped DEF FinishClose, TypeOK, StartPcs, FinishPcs
  <2>2. JobIds'
    BY <1>13, GotoIds DEF FinishClose, TypeOK, At
  <2>3. audit' \in [Sessions -> Dirs]
    <3>1. audit \in [Sessions -> Dirs] /\ UNCHANGED audit
          => audit' \in [Sessions -> Dirs]
      OBVIOUS
    <3>2. CASE audit' = [audit EXCEPT ![job[c].sid].final = job[c].status]
      BY <1>13, <3>2, FinalTyped DEF FinishClose, TypeOK, Jobs
    <3> QED
      BY <1>13, <3>1, <3>2 DEF FinishClose, TypeOK
  <2> QED
    BY <1>13, <2>1, <2>2, <2>3 DEF FinishClose, TypeOK, controller, analysis, history
<1>14. ASSUME NEW c \in Callers, FinishRaises(c)
       PROVE  TypeOK' /\ JobIds'
  <2>1. job' \in [Callers -> Jobs]
    BY <1>14, ReturnTyped DEF FinishRaises, TypeOK
  <2>2. JobIds'
    BY <1>14 DEF FinishRaises, TypeOK, JobIds, Return, Idle
  <2> QED
    BY <1>14, <2>1, <2>2 DEF FinishRaises, TypeOK, controller, analysis, history
<1>15. ASSUME NEW c \in Callers, FinishSeal(c)
       PROVE  TypeOK' /\ JobIds'
  <2>1. job' \in [Callers -> Jobs]
    BY <1>15, ReturnTyped DEF FinishSeal, TypeOK
  <2>2. JobIds'
    BY <1>15 DEF FinishSeal, TypeOK, JobIds, Return, Idle
  <2>3. state' \in States \cup {None}
    BY <1>15 DEF FinishSeal, TypeOK, States, Status, Jobs
  <2> QED
    BY <1>15, <2>1, <2>2, <2>3 DEF FinishSeal, TypeOK, controller, analysis, history
<1>26. ASSUME NEW c \in Callers, FinishUpdate(c)
       PROVE  TypeOK' /\ JobIds'
  <2>1. Target \in Sessions \cup {None}
    BY DEF Target, TypeOK, States
  <2>2. job' \in [Callers -> Jobs]
    <3>1. PICK pc \in FinishPcs :
            job' = [job EXCEPT ![c].pc = pc, ![c].target = Target]
      BY <1>26 DEF FinishUpdate, FinishPcs
    <3> QED
      BY <3>1, <2>1 DEF TypeOK, Jobs
  <2>3. JobIds'
    <3>1. job[c].sid \in Sessions
      BY <1>26 DEF FinishUpdate, JobIds, At
    <3>2. \A d \in Callers : job'[d].sid = job[d].sid /\ (d # c => job'[d] = job[d])
      BY <1>26 DEF FinishUpdate, TypeOK, Jobs
    <3> QED
      BY <3>1, <3>2 DEF JobIds
  <2> QED
    BY <1>26, <2>2, <2>3 DEF FinishUpdate, TypeOK, controller, analysis, history
<1>27. ASSUME NEW c \in Callers, FinishIncident(c)
       PROVE  TypeOK' /\ JobIds'
  <2>1. job' \in [Callers -> Jobs]
    BY <1>27, GotoTyped, ReturnTyped DEF FinishIncident, TypeOK, FinishPcs
  <2>2. JobIds'
    BY <1>27, GotoIds, ReturnIds DEF FinishIncident, TypeOK, At
  <2> QED
    BY <1>27, <2>1, <2>2 DEF FinishIncident, TypeOK, controller, analysis, history
<1>16. ASSUME NEW c \in Callers, ShutdownBegin(c)
       PROVE  TypeOK' /\ JobIds'
  <2>1. job' \in [Callers -> Jobs]
    <3>1. CASE IsRunning /\ runtime # None
      BY <1>16, <3>1 DEF ShutdownBegin, TypeOK, Jobs, Status, Terminal, FinishPcs, IsRunning, States
    <3>2. CASE ~(IsRunning /\ runtime # None)
      BY <1>16, <3>2 DEF ShutdownBegin, TypeOK
    <3> QED
      BY <3>1, <3>2
  <2>2. JobIds'
    BY <1>16 DEF ShutdownBegin, TypeOK, JobIds, IsRunning, States
  <2> QED
    BY <1>16, <2>1, <2>2 DEF ShutdownBegin, TypeOK, controller, analysis, history
<1>17. ASSUME NEW s \in Sessions, Publish(s)
       PROVE  TypeOK' /\ JobIds'
  <2>1. backlog' \in [Sessions -> 0 .. QueueSize]
    BY <1>17, QueueAssumption DEF Publish, TypeOK
  <2> QED
    BY <1>17, <2>1 DEF Publish, TypeOK, controller, analysis, history, JobIds
<1>18. ASSUME NEW s \in Sessions, WorkerTake(s)
       PROVE  TypeOK' /\ JobIds'
  <2>1. backlog' \in [Sessions -> 0 .. QueueSize]
    BY <1>18, QueueAssumption DEF WorkerTake, TypeOK
  <2>2. thread' \in [Sessions -> Threads]
    <3>1. "worker" \in Kinds /\ "update" \in ThreadPcs
      BY DEF Kinds, ThreadPcs, Active
    <3> QED
      BY <1>18, <3>1, ThreadTyped DEF WorkerTake, StepThread, TypeOK
  <2> QED
    BY <1>18, <2>1, <2>2 DEF WorkerTake, TypeOK, controller, analysis, history, JobIds
<1>19. ASSUME NEW s \in Sessions, WorkerExit(s)
       PROVE  TypeOK' /\ JobIds'
  <2>1. thread' \in [Sessions -> Threads]
    <3>1. "worker" \in Kinds /\ "exited" \in ThreadPcs
      BY DEF Kinds, ThreadPcs, Active
    <3> QED
      BY <1>19, <3>1, ThreadTyped DEF WorkerExit, StepThread, TypeOK
  <2> QED
    BY <1>19, <2>1 DEF WorkerExit, TypeOK, controller, analysis, history, JobIds
<1>20. ASSUME NEW s \in Sessions, QualityWake(s)
       PROVE  TypeOK' /\ JobIds'
  <2>1. thread' \in [Sessions -> Threads]
    <3>1. "quality" \in Kinds /\ {"exited", "want"} \subseteq ThreadPcs
      BY DEF Kinds, ThreadPcs, Active
    <3> QED
      BY <1>20, <3>1, ThreadTyped DEF QualityWake, StepThread, TypeOK
  <2> QED
    BY <1>20, <2>1 DEF QualityWake, TypeOK, controller, analysis, history, JobIds
<1>21. ASSUME NEW s \in Sessions, QualityPoll(s)
       PROVE  TypeOK' /\ JobIds'
  <2>1. thread' \in [Sessions -> Threads]
    <3>1. "quality" \in Kinds /\ {"update", "run"} \subseteq ThreadPcs
      BY DEF Kinds, ThreadPcs, Active
    <3>2. PICK pc \in {"update", "run"} : StepThread(s, "quality", pc)
      BY <1>21 DEF QualityPoll
    <3> QED
      BY <3>1, <3>2, ThreadTyped DEF StepThread, TypeOK
  <2> QED
    BY <1>21, <2>1 DEF QualityPoll, TypeOK, controller, analysis, history, JobIds
<1>28. ASSUME NEW s \in Sessions, NEW k \in Kinds, ThreadUpdate(s, k)
       PROVE  TypeOK' /\ JobIds'
  <2>1. Target \in Sessions \cup {None}
    BY DEF Target, TypeOK, States
  <2>2. thread' \in [Sessions -> Threads]
    BY <1>28, <2>1 DEF ThreadUpdate, TypeOK, Threads, ThreadPcs, Active
  <2> QED
    BY <1>28, <2>2 DEF ThreadUpdate, TypeOK, controller, analysis, history, JobIds
<1>22. ASSUME NEW s \in Sessions, NEW k \in Kinds, ThreadFile(s, k)
       PROVE  TypeOK' /\ JobIds'
  <2>1. thread' \in [Sessions -> Threads]
    BY <1>22 DEF ThreadFile, TypeOK, Threads, ThreadPcs, Active, Kinds
  <2> QED
    BY <1>22, <2>1 DEF ThreadFile, TypeOK, controller, analysis, history, JobIds, File
<1>23. ASSUME ShutdownHub
       PROVE  TypeOK' /\ JobIds'
  <2> QED
    BY <1>23 DEF ShutdownHub, TypeOK, controller, analysis, history, JobIds
<1>24. ASSUME Stopped
       PROVE  TypeOK' /\ JobIds'
  <2> QED
    BY <1>24 DEF Stopped, TypeOK, controller, analysis, history, JobIds, vars
<1>25. ASSUME UNCHANGED vars
       PROVE  TypeOK' /\ JobIds'
  BY <1>25 DEF vars, controller, analysis, history, TypeOK, JobIds
<1> QED
  BY <1>1, <1>2, <1>3, <1>4, <1>5, <1>6, <1>7, <1>8, <1>9, <1>10, <1>11, <1>12, <1>13,
     <1>14, <1>15, <1>16, <1>17, <1>18, <1>19, <1>20, <1>21, <1>22, <1>23, <1>24, <1>25,
     <1>26, <1>27, <1>28 DEF Next, CallerStep, ThreadStep

\* Every variable of the controller, its runtimes and its audit directories
\* keeps its type, whatever the callers and the threads do.
THEOREM TypeCorrect == Spec => [](TypeOK /\ JobIds)
<1>1. Init => JobIds
  BY DEF Init, JobIds, Idle
<1> QED
  BY TypeInit, <1>1, TypeStep, PTL DEF Spec

-----------------------------------------------------------------------------

InFinish(c) == job[c].pc \in FinishPcs

\* _runtime and a RUNNING _state come and go together.
Slot ==
  /\ runtime # None <=> IsRunning
  /\ IsRunning => runtime = state.id

\* The lock is held across steps by the caller inside start(); once that is past
\* its checks nothing runs.
LockOwner ==
  /\ \A c \in Callers : job[c].pc \in StartPcs <=> lock = c
  /\ \A c \in Callers : At(c, "launch") => ~IsRunning

\* One caller at most is finishing, and what it finishes is the running session.
OneFinisher ==
  /\ \A c \in Callers : InFinish(c) => runtime = job[c].sid
  /\ \A c, d \in Callers : InFinish(c) /\ InFinish(d) => c = d

\* From the join on, the runtime being finished is unsubscribed.
Halted ==
  \A c \in Callers :
    job[c].pc \in {"join", "close", "incident", "seal"} => ~Live(job[c].sid)

LiveOnly == \A s \in Sessions : Live(s) => runtime = s

LiveInv ==
  /\ Slot /\ LockOwner
  /\ ~overlapped => OneFinisher /\ Halted /\ LiveOnly

LEMMA LiveInit == Init => LiveInv
BY NoneAssumption
   DEF Init, LiveInv, Slot, LockOwner, OneFinisher, Halted, LiveOnly, Live, InFinish,
       IsRunning, Idle, StartPcs, FinishPcs, At

\* A step that leaves the controller's fields alone, brings no caller into start()
\* or _finish(), and subscribes no runtime keeps everything but Halted.
LEMMA Calm ==
  ASSUME LiveInv, UNCHANGED <<lock, runtime, state, overlapped>>,
         \A d \in Callers :
           /\ job'[d].pc \in StartPcs <=> job[d].pc \in StartPcs
           /\ job'[d].pc = "launch" => job[d].pc = "launch" \/ ~IsRunning
           /\ job'[d].pc \in FinishPcs =>
                job[d].pc \in FinishPcs /\ job'[d].sid = job[d].sid,
         \A s \in Sessions : wiring'[s].subscribed => wiring[s].subscribed
  PROVE  Slot' /\ LockOwner' /\ (~overlapped' => OneFinisher' /\ LiveOnly')
<1>1. Slot'
  BY DEF LiveInv, Slot, IsRunning
<1>2. LockOwner'
  BY DEF LiveInv, LockOwner, IsRunning, At
<1>3. ~overlapped' => OneFinisher'
  BY DEF LiveInv, OneFinisher, InFinish
<1>4. ~overlapped' => LiveOnly'
  BY DEF LiveInv, LiveOnly, Live
<1> QED
  BY <1>1, <1>2, <1>3, <1>4

\* The steps of the two threads and of the camera see none of it.
LEMMA Aside ==
  ASSUME LiveInv, UNCHANGED <<lock, runtime, state, overlapped, job, wiring>>
  PROVE  LiveInv'
BY DEF LiveInv, Slot, LockOwner, OneFinisher, Halted, LiveOnly, Live, InFinish,
       IsRunning, At

\* Every step keeps the invariant.
LEMMA LiveStep ==
  TypeOK /\ JobIds /\ LiveInv /\ [Next]_vars => LiveInv'
<1> SUFFICES ASSUME TypeOK, JobIds, LiveInv, [Next]_vars PROVE LiveInv'
  OBVIOUS
<1> USE DEF TypeOK, Jobs
<1>1. ASSUME NEW c \in Callers, NEW s \in Sessions, StartEnter(c, s)
       PROVE  LiveInv'
  <2>1. lock = None /\ lock' = c /\ c # None
    BY <1>1, NoneAssumption DEF StartEnter, Unlocked
  <2>2. \A d \in Callers : d # c => job'[d] = job[d]
    BY <1>1 DEF StartEnter
  <2>3. job'[c].pc = "reserve"
    BY <1>1 DEF StartEnter, Idle
  <2>4. LockOwner'
    BY <1>1, <2>1, <2>2, <2>3, NoneAssumption
    DEF StartEnter, LiveInv, LockOwner, StartPcs, IsRunning, At
  <2>5. Slot'
    BY <1>1 DEF StartEnter, LiveInv, Slot, IsRunning
  <2>6. ~overlapped' => OneFinisher' /\ Halted' /\ LiveOnly'
    BY <1>1, <2>2, <2>3 DEF StartEnter, LiveInv, OneFinisher, Halted, LiveOnly, Live, InFinish,
                     FinishPcs, analysis, history
  <2> QED
    BY <2>4, <2>5, <2>6 DEF LiveInv
<1>2. ASSUME NEW c \in Callers, StartReserve(c)
       PROVE  LiveInv'
  <2>1. \A d \in Callers :
          /\ job'[d].pc \in StartPcs <=> job[d].pc \in StartPcs
          /\ job'[d].pc = "launch" => job[d].pc = "launch" \/ ~IsRunning
          /\ job'[d].pc \in FinishPcs =>
               job[d].pc \in FinishPcs /\ job'[d].sid = job[d].sid
    BY <1>2 DEF StartReserve, Goto, Return, Idle, At, StartPcs, FinishPcs
  <2>3. Slot' /\ LockOwner' /\ (~overlapped' => OneFinisher' /\ LiveOnly')
    BY <1>2, <2>1, Calm DEF StartReserve, controller, analysis, history
  <2>4. ~overlapped' => Halted'
    BY <1>2, JobIds DEF StartReserve, LiveInv, Halted, Live, JobIds, Goto, Return, Idle, At, controller,
                   analysis, history
  <2> QED
    BY <2>3, <2>4 DEF LiveInv
<1>3. ASSUME NEW c \in Callers, StartRefused(c)
       PROVE  LiveInv'
  <2>1. lock = c /\ lock' = None
    BY <1>3 DEF StartRefused, LiveInv, LockOwner, At, StartPcs
  <2>2. \A d \in Callers : d # c => job'[d] = job[d]
    BY <1>3 DEF StartRefused, Return
  <2>3. job'[c].pc = "idle"
    BY <1>3 DEF StartRefused, Return, Idle
  <2>4. \A d \in Callers : job'[d].pc \notin StartPcs
    BY <2>1, <2>2, <2>3 DEF LiveInv, LockOwner, StartPcs
  <2>5. LockOwner'
    BY <2>1, <2>4, NoneAssumption DEF LockOwner, At, StartPcs
  <2>6. Slot'
    BY <1>3 DEF StartRefused, LiveInv, Slot, IsRunning
  <2>7. ~overlapped' => OneFinisher' /\ Halted' /\ LiveOnly'
    BY <1>3, <2>2, <2>3
    DEF StartRefused, LiveInv, OneFinisher, Halted, LiveOnly, Live, InFinish, FinishPcs,
        analysis, history
  <2> QED
    BY <2>5, <2>6, <2>7 DEF LiveInv
<1>4. ASSUME NEW c \in Callers, StartLaunch(c)
       PROVE  LiveInv'
  <2>1. lock = c /\ lock' = None /\ ~IsRunning /\ runtime = None
    BY <1>4, NoneAssumption DEF StartLaunch, LiveInv, LockOwner, Slot, At, StartPcs
  <2>2. \A d \in Callers : d # c => job'[d] = job[d]
    BY <1>4 DEF StartLaunch, Return
  <2>3. job'[c].pc = "idle"
    BY <1>4 DEF StartLaunch, Return, Idle
  <2>4. \A d \in Callers : job'[d].pc \notin StartPcs
    BY <2>1, <2>2, <2>3 DEF LiveInv, LockOwner, StartPcs
  <2>5. LockOwner'
    BY <2>1, <2>4, NoneAssumption DEF LockOwner, At, StartPcs
  <2>6. Slot'
    <3>1. runtime' = job[c].sid /\ state' = [id |-> job[c].sid, status |-> "RUNNING"]
      BY <1>4 DEF StartLaunch
    <3>2. job[c].sid \in Sessions
      BY <1>4 DEF StartLaunch, JobIds, At
    <3>3. runtime' # None /\ state' # None
      BY <3>1, <3>2, NoneAssumption DEF Status
    <3> QED
      BY <3>1, <3>3 DEF Slot, IsRunning
  <2>7. ASSUME ~overlapped'
        PROVE  OneFinisher' /\ Halted' /\ LiveOnly'
    <3>1. \A d \in Callers : ~InFinish(d)
      BY <1>4, <2>1, <2>7, NoneAssumption
      DEF StartLaunch, LiveInv, OneFinisher, InFinish, JobIds, FinishPcs, history
    <3>2. \A d \in Callers : job'[d].pc \notin FinishPcs
      BY <2>2, <2>3, <3>1 DEF InFinish, FinishPcs
    <3>3. \A t \in Sessions : ~Live(t)
      BY <1>4, <2>1, <2>7, NoneAssumption DEF StartLaunch, LiveInv, LiveOnly, history
    <3>4. \A t \in Sessions : Live(t)' => t = job[c].sid
      BY <1>4, <3>3 DEF StartLaunch, Live, Wirings
    <3> QED
      BY <1>4, <3>2, <3>4
      DEF StartLaunch, OneFinisher, Halted, LiveOnly, InFinish, FinishPcs
  <2> QED
    BY <2>5, <2>6, <2>7 DEF LiveInv
<1>5. ASSUME NEW c \in Callers, StartFails(c)
       PROVE  LiveInv'
  <2>1. lock = c /\ lock' = None /\ ~IsRunning /\ runtime = None
    BY <1>5, NoneAssumption DEF StartFails, LiveInv, LockOwner, Slot, At, StartPcs
  <2>2. \A d \in Callers : d # c => job'[d] = job[d]
    BY <1>5 DEF StartFails, Return
  <2>3. job'[c].pc = "idle"
    BY <1>5 DEF StartFails, Return, Idle
  <2>4. \A d \in Callers : job'[d].pc \notin StartPcs
    BY <2>1, <2>2, <2>3 DEF LiveInv, LockOwner, StartPcs
  <2>5. LockOwner'
    BY <2>1, <2>4, NoneAssumption DEF LockOwner, At, StartPcs
  <2>6. Slot'
    BY <1>5, <2>1, NoneAssumption DEF StartFails, LiveInv, Slot, IsRunning
  <2>7. ASSUME ~overlapped'
        PROVE  OneFinisher' /\ Halted' /\ LiveOnly'
    <3>1. \A d \in Callers : ~InFinish(d)
      BY <1>5, <2>1, <2>7, NoneAssumption
      DEF StartFails, LiveInv, OneFinisher, InFinish, JobIds, FinishPcs, history
    <3>2. \A d \in Callers : job'[d].pc \notin FinishPcs
      BY <2>2, <2>3, <3>1 DEF InFinish, FinishPcs
    <3>3. \A t \in Sessions : ~Live(t)
      BY <1>5, <2>1, <2>7, NoneAssumption DEF StartFails, LiveInv, LiveOnly, history
    <3> QED
      BY <1>5, <2>1, <3>2, <3>3
      DEF StartFails, OneFinisher, Halted, LiveOnly, Live, InFinish, FinishPcs, analysis
  <2> QED
    BY <2>5, <2>6, <2>7 DEF LiveInv
<1>6. ASSUME NEW c \in Callers, NEW s \in Sessions, NEW status \in Terminal,
              FinishEnter(c, s, status)
       PROVE  LiveInv'
  <2>1. lock = None /\ runtime = s /\ UNCHANGED <<lock, runtime, state, wiring>>
    BY <1>6 DEF FinishEnter, LiveInv, Slot, controller, analysis, Unlocked
  <2>2. \A d \in Callers : d # c => job'[d] = job[d]
    BY <1>6 DEF FinishEnter
  <2>3. job'[c].pc = "poll" /\ job'[c].sid = s
    BY <1>6 DEF FinishEnter
  <2>4. LockOwner'
    BY <2>1, <2>2, <2>3, NoneAssumption DEF LiveInv, LockOwner, StartPcs, IsRunning, At
  <2>5. Slot'
    BY <2>1 DEF LiveInv, Slot, IsRunning
  <2>6. ASSUME ~overlapped'
        PROVE  OneFinisher' /\ Halted' /\ LiveOnly'
    <3>1. ~overlapped /\ Finishing(s) = {}
      BY <1>6, <2>6 DEF FinishEnter
    <3>2. \A d \in Callers : ~InFinish(d)
      BY <2>1, <3>1 DEF LiveInv, OneFinisher, InFinish, Finishing
    <3> QED
      BY <2>1, <2>2, <2>3, <3>1, <3>2
      DEF LiveInv, OneFinisher, Halted, LiveOnly, Live, InFinish
  <2> QED
    BY <2>4, <2>5, <2>6 DEF LiveInv
<1>7. ASSUME NEW c \in Callers, FinishPoll(c)
       PROVE  LiveInv'
  <2>1. \A d \in Callers :
          /\ job'[d].pc \in StartPcs <=> job[d].pc \in StartPcs
          /\ job'[d].pc = "launch" => job[d].pc = "launch" \/ ~IsRunning
          /\ job'[d].pc \in FinishPcs =>
               job[d].pc \in FinishPcs /\ job'[d].sid = job[d].sid
    BY <1>7 DEF FinishPoll, Goto, Return, Idle, At, StartPcs, FinishPcs
  <2>3. Slot' /\ LockOwner' /\ (~overlapped' => OneFinisher' /\ LiveOnly')
    BY <1>7, <2>1, Calm DEF FinishPoll, controller, analysis, history
  <2>4. ~overlapped' => Halted'
    BY <1>7, JobIds DEF FinishPoll, LiveInv, Halted, Live, JobIds, Goto, Return, Idle, At, controller,
                   analysis, history
  <2> QED
    BY <2>3, <2>4 DEF LiveInv
<1>8. ASSUME NEW c \in Callers, FinishFile(c)
       PROVE  LiveInv'
  <2>1. \A d \in Callers :
          /\ job'[d].pc \in StartPcs <=> job[d].pc \in StartPcs
          /\ job'[d].pc = "launch" => job[d].pc = "launch" \/ ~IsRunning
          /\ job'[d].pc \in FinishPcs =>
               job[d].pc \in FinishPcs /\ job'[d].sid = job[d].sid
    BY <1>8 DEF FinishFile, Goto, Return, Idle, At, StartPcs, FinishPcs
  <2>3. Slot' /\ LockOwner' /\ (~overlapped' => OneFinisher' /\ LiveOnly')
    BY <1>8, <2>1, Calm DEF FinishFile, controller, analysis, history
  <2>4. ~overlapped' => Halted'
    BY <1>8, JobIds DEF FinishFile, LiveInv, Halted, Live, JobIds, Goto, Return, Idle, At, controller,
                   analysis, history
  <2> QED
    BY <2>3, <2>4 DEF LiveInv
<1>9. ASSUME NEW c \in Callers, FinishHalt(c)
       PROVE  LiveInv'
  <2>1. \A d \in Callers :
          /\ job'[d].pc \in StartPcs <=> job[d].pc \in StartPcs
          /\ job'[d].pc = "launch" => job[d].pc = "launch" \/ ~IsRunning
          /\ job'[d].pc \in FinishPcs =>
               job[d].pc \in FinishPcs /\ job'[d].sid = job[d].sid
    BY <1>9 DEF FinishHalt, Goto, Return, Idle, At, StartPcs, FinishPcs
  <2>3. Slot' /\ LockOwner' /\ (~overlapped' => OneFinisher' /\ LiveOnly')
    BY <1>9, <2>1, Calm DEF FinishHalt, controller, analysis, history
  <2>4. ~overlapped' => Halted'
    BY <1>9, JobIds DEF FinishHalt, LiveInv, Halted, Live, JobIds, Goto, Return, Idle, At, controller,
                   analysis, history
  <2> QED
    BY <2>3, <2>4 DEF LiveInv
<1>10. ASSUME NEW c \in Callers, FinishJoin(c)
       PROVE  LiveInv'
  <2>1. \A d \in Callers :
          /\ job'[d].pc \in StartPcs <=> job[d].pc \in StartPcs
          /\ job'[d].pc = "launch" => job[d].pc = "launch" \/ ~IsRunning
          /\ job'[d].pc \in FinishPcs =>
               job[d].pc \in FinishPcs /\ job'[d].sid = job[d].sid
    BY <1>10 DEF FinishJoin, Goto, Return, Idle, At, StartPcs, FinishPcs
  <2>3. Slot' /\ LockOwner' /\ (~overlapped' => OneFinisher' /\ LiveOnly')
    BY <1>10, <2>1, Calm DEF FinishJoin, controller, analysis, history
  <2>4. ~overlapped' => Halted'
    BY <1>10, JobIds DEF FinishJoin, LiveInv, Halted, Live, JobIds, Goto, Return, Idle, At, controller,
                   analysis, history
  <2> QED
    BY <2>3, <2>4 DEF LiveInv
<1>11. ASSUME NEW c \in Callers, FinishJoinTimeout(c)
       PROVE  LiveInv'
  <2>1. \A d \in Callers :
          /\ job'[d].pc \in StartPcs <=> job[d].pc \in StartPcs
          /\ job'[d].pc = "launch" => job[d].pc = "launch" \/ ~IsRunning
          /\ job'[d].pc \in FinishPcs =>
               job[d].pc \in FinishPcs /\ job'[d].sid = job[d].sid
    BY <1>11 DEF FinishJoinTimeout, Goto, Return, Idle, At, StartPcs, FinishPcs
  <2>3. Slot' /\ LockOwner' /\ (~overlapped' => OneFinisher' /\ LiveOnly')
    BY <1>11, <2>1, Calm DEF FinishJoinTimeout, controller, analysis, history
  <2>4. ~overlapped' => Halted'
    BY <1>11, JobIds DEF FinishJoinTimeout, LiveInv, Halted, Live, JobIds, Goto, Return, Idle, At, controller,
                   analysis, history
  <2> QED
    BY <2>3, <2>4 DEF LiveInv
<1>12. ASSUME NEW c \in Callers, FinishJoinRace(c)
       PROVE  LiveInv'
  <2>1. \A d \in Callers :
          /\ job'[d].pc \in StartPcs <=> job[d].pc \in StartPcs
          /\ job'[d].pc = "launch" => job[d].pc = "launch" \/ ~IsRunning
          /\ job'[d].pc \in FinishPcs =>
               job[d].pc \in FinishPcs /\ job'[d].sid = job[d].sid
    BY <1>12 DEF FinishJoinRace, Goto, Return, Idle, At, StartPcs, FinishPcs
  <2>3. Slot' /\ LockOwner' /\ (~overlapped' => OneFinisher' /\ LiveOnly')
    BY <1>12, <2>1, Calm DEF FinishJoinRace, controller, analysis, history
  <2>4. ~overlapped' => Halted'
    BY <1>12, JobIds DEF FinishJoinRace, LiveInv, Halted, Live, JobIds, Goto, Return, Idle, At, controller,
                   analysis, history
  <2> QED
    BY <2>3, <2>4 DEF LiveInv
<1>13. ASSUME NEW c \in Callers, FinishClose(c)
       PROVE  LiveInv'
  <2>1. \A d \in Callers :
          /\ job'[d].pc \in StartPcs <=> job[d].pc \in StartPcs
          /\ job'[d].pc = "launch" => job[d].pc = "launch" \/ ~IsRunning
          /\ job'[d].pc \in FinishPcs =>
               job[d].pc \in FinishPcs /\ job'[d].sid = job[d].sid
    BY <1>13 DEF FinishClose, Goto, Return, Idle, At, StartPcs, FinishPcs
  <2>3. Slot' /\ LockOwner' /\ (~overlapped' => OneFinisher' /\ LiveOnly')
    BY <1>13, <2>1, Calm DEF FinishClose, controller, analysis, history
  <2>4. ~overlapped' => Halted'
    BY <1>13, JobIds DEF FinishClose, LiveInv, Halted, Live, JobIds, Goto, Return, Idle, At, controller,
                   analysis, history
  <2> QED
    BY <2>3, <2>4 DEF LiveInv
<1>14. ASSUME NEW c \in Callers, FinishRaises(c)
       PROVE  LiveInv'
  <2>1. \A d \in Callers :
          /\ job'[d].pc \in StartPcs <=> job[d].pc \in StartPcs
          /\ job'[d].pc = "launch" => job[d].pc = "launch" \/ ~IsRunning
          /\ job'[d].pc \in FinishPcs =>
               job[d].pc \in FinishPcs /\ job'[d].sid = job[d].sid
    BY <1>14 DEF FinishRaises, Goto, Return, Idle, At, StartPcs, FinishPcs
  <2>3. Slot' /\ LockOwner' /\ (~overlapped' => OneFinisher' /\ LiveOnly')
    BY <1>14, <2>1, Calm DEF FinishRaises, controller, analysis, history
  <2>4. ~overlapped' => Halted'
    BY <1>14, JobIds DEF FinishRaises, LiveInv, Halted, Live, JobIds, Goto, Return, Idle, At, controller,
                   analysis, history
  <2> QED
    BY <2>3, <2>4 DEF LiveInv
<1>15. ASSUME NEW c \in Callers, FinishSeal(c)
       PROVE  LiveInv'
  <2>1. lock = None /\ UNCHANGED <<lock, wiring, overlapped>>
    BY <1>15 DEF FinishSeal, analysis, history, Unlocked
  <2>2. \A d \in Callers : d # c => job'[d] = job[d]
    BY <1>15 DEF FinishSeal, Return
  <2>3. job[c].pc = "seal" /\ job'[c].pc = "idle"
    BY <1>15 DEF FinishSeal, Return, Idle, At
  <2>4. LockOwner'
    BY <2>1, <2>2, <2>3, NoneAssumption DEF LiveInv, LockOwner, StartPcs, At
  <2>5. runtime' = None /\ ~IsRunning'
    <3>1. CASE state = None
      BY <1>15, <3>1 DEF FinishSeal, LiveInv, Slot, IsRunning
    <3>2. CASE state # None
      BY <1>15, <3>2 DEF FinishSeal, IsRunning, States, Terminal
    <3> QED
      BY <3>1, <3>2
  <2>6. Slot'
    BY <2>5 DEF Slot
  <2>7. ASSUME ~overlapped'
        PROVE  OneFinisher' /\ Halted' /\ LiveOnly'
    <3>1. \A d \in Callers : d # c => ~InFinish(d)
      BY <2>1, <2>3, <2>7 DEF LiveInv, OneFinisher, InFinish, FinishPcs
    <3>2. \A d \in Callers : job'[d].pc \notin FinishPcs
      BY <2>2, <2>3, <3>1 DEF InFinish, FinishPcs
    <3>3. runtime = job[c].sid /\ ~Live(job[c].sid)
      BY <2>1, <2>3, <2>7 DEF LiveInv, OneFinisher, Halted, InFinish, FinishPcs
    <3>4. \A s \in Sessions : ~Live(s)
      BY <2>1, <2>7, <3>3 DEF LiveInv, LiveOnly
    <3> QED
      BY <2>1, <3>2, <3>4 DEF OneFinisher, Halted, LiveOnly, Live, InFinish, FinishPcs
  <2> QED
    BY <2>4, <2>6, <2>7 DEF LiveInv
<1>26. ASSUME NEW c \in Callers, FinishUpdate(c)
       PROVE  LiveInv'
  <2>1. \A d \in Callers :
          /\ job'[d].pc \in StartPcs <=> job[d].pc \in StartPcs
          /\ job'[d].pc = "launch" => job[d].pc = "launch" \/ ~IsRunning
          /\ job'[d].pc \in FinishPcs =>
               job[d].pc \in FinishPcs /\ job'[d].sid = job[d].sid
    BY <1>26 DEF FinishUpdate, Goto, Return, Idle, At, StartPcs, FinishPcs
  <2>3. Slot' /\ LockOwner' /\ (~overlapped' => OneFinisher' /\ LiveOnly')
    BY <1>26, <2>1, Calm DEF FinishUpdate, controller, analysis, history
  <2>4. ~overlapped' => Halted'
    BY <1>26, JobIds DEF FinishUpdate, LiveInv, Halted, Live, JobIds, Goto, Return, Idle, At, controller,
                   analysis, history
  <2> QED
    BY <2>3, <2>4 DEF LiveInv
<1>27. ASSUME NEW c \in Callers, FinishIncident(c)
       PROVE  LiveInv'
  <2>1. \A d \in Callers :
          /\ job'[d].pc \in StartPcs <=> job[d].pc \in StartPcs
          /\ job'[d].pc = "launch" => job[d].pc = "launch" \/ ~IsRunning
          /\ job'[d].pc \in FinishPcs =>
               job[d].pc \in FinishPcs /\ job'[d].sid = job[d].sid
    BY <1>27 DEF FinishIncident, Goto, Return, Idle, At, StartPcs, FinishPcs
  <2>3. Slot' /\ LockOwner' /\ (~overlapped' => OneFinisher' /\ LiveOnly')
    BY <1>27, <2>1, Calm DEF FinishIncident, controller, analysis, history
  <2>4. ~overlapped' => Halted'
    BY <1>27, JobIds DEF FinishIncident, LiveInv, Halted, Live, JobIds, Goto, Return, Idle, At, controller,
                   analysis, history
  <2> QED
    BY <2>3, <2>4 DEF LiveInv
<1>16. ASSUME NEW c \in Callers, ShutdownBegin(c)
       PROVE  LiveInv'
  <2>1. UNCHANGED <<lock, runtime, state, wiring, overlapped>>
    BY <1>16 DEF ShutdownBegin, analysis, history
  <2>2. \A d \in Callers : job[d].pc = "idle"
    BY <1>16 DEF ShutdownBegin, Quiet, At
  <2>3. \A d \in Callers : d # c => job'[d] = job[d]
    BY <1>16 DEF ShutdownBegin
  <2>4. \/ job'[c] = job[c]
        \/ IsRunning /\ job'[c].pc = "poll" /\ job'[c].sid = state.id
    BY <1>16 DEF ShutdownBegin
  <2>5. LockOwner'
    BY <2>1, <2>2, <2>3, <2>4 DEF LiveInv, LockOwner, IsRunning, StartPcs, At
  <2>6. Slot'
    BY <2>1 DEF LiveInv, Slot, IsRunning
  <2>7. ~overlapped' => OneFinisher' /\ Halted' /\ LiveOnly'
    BY <2>1, <2>2, <2>3, <2>4
    DEF LiveInv, Slot, OneFinisher, Halted, LiveOnly, Live, InFinish, FinishPcs
  <2> QED
    BY <2>5, <2>6, <2>7 DEF LiveInv
<1>17. ASSUME NEW s \in Sessions, Publish(s)
       PROVE  LiveInv'
  BY <1>17, Aside DEF Publish, controller, analysis, history
<1>18. ASSUME NEW s \in Sessions, WorkerTake(s)
       PROVE  LiveInv'
  BY <1>18, Aside DEF WorkerTake, controller, analysis, history
<1>19. ASSUME NEW s \in Sessions, WorkerExit(s)
       PROVE  LiveInv'
  BY <1>19, Aside DEF WorkerExit, controller, analysis, history
<1>20. ASSUME NEW s \in Sessions, QualityWake(s)
       PROVE  LiveInv'
  BY <1>20, Aside DEF QualityWake, controller, analysis, history
<1>21. ASSUME NEW s \in Sessions, QualityPoll(s)
       PROVE  LiveInv'
  BY <1>21, Aside DEF QualityPoll, controller, analysis, history
<1>28. ASSUME NEW s \in Sessions, NEW k \in Kinds, ThreadUpdate(s, k)
       PROVE  LiveInv'
  BY <1>28, Aside DEF ThreadUpdate, controller, analysis, history
<1>22. ASSUME NEW s \in Sessions, NEW k \in Kinds, ThreadFile(s, k)
       PROVE  LiveInv'
  BY <1>22, Aside DEF ThreadFile, controller, analysis, history
<1>23. ASSUME ShutdownHub
       PROVE  LiveInv'
  BY <1>23, Aside DEF ShutdownHub, controller, analysis, history
<1>24. ASSUME Stopped
       PROVE  LiveInv'
  BY <1>24, Aside DEF Stopped, vars, controller, analysis, history
<1>25. ASSUME UNCHANGED vars
       PROVE  LiveInv'
  BY <1>25, Aside DEF vars, controller, analysis, history
<1> QED
  BY <1>1, <1>2, <1>3, <1>4, <1>5, <1>6, <1>7, <1>8, <1>9, <1>10, <1>11, <1>12, <1>13,
     <1>14, <1>15, <1>16, <1>17, <1>18, <1>19, <1>20, <1>21, <1>22, <1>23, <1>24, <1>25, <1>26, <1>27, <1>28 DEF Next, CallerStep, ThreadStep

\* Whatever starts, stops, failures and timeouts happen, and in any order: as long
\* as no session was finished by two callers at a time, the only runtime that
\* receives frames is the one the controller holds as RUNNING.
THEOREM LiveCurrent == Spec => []LiveIsCurrent
<1>1. TypeOK /\ JobIds /\ LiveInv => LiveIsCurrent
  BY NoneAssumption DEF LiveInv, LiveOnly, Slot, LiveIsCurrent
<1>2. Spec => []LiveInv
  BY TypeCorrect, LiveInit, LiveStep, PTL DEF Spec
<1> QED
  BY <1>1, <1>2, TypeCorrect, PTL

\* shutdown() stops the hub only when no runtime receives its frames.
THEOREM HubOutlives == Spec => []HubOutlivesRuntimes
<1>1. Init => HubOutlivesRuntimes
  BY DEF Init, HubOutlivesRuntimes
<1>2. TypeOK /\ LiveInv /\ HubOutlivesRuntimes /\ [Next]_vars => HubOutlivesRuntimes'
  <2> SUFFICES ASSUME TypeOK, LiveInv, HubOutlivesRuntimes, [Next]_vars
               PROVE  HubOutlivesRuntimes'
    OBVIOUS
  <2>1. ASSUME NEW c \in Callers, StartLaunch(c)
        PROVE  HubOutlivesRuntimes'
    BY <2>1 DEF StartLaunch, HubOutlivesRuntimes
  <2>2. ASSUME NEW c \in Callers,
               FinishHalt(c) \/ FinishJoin(c) \/ FinishJoinTimeout(c)
        PROVE  HubOutlivesRuntimes'
    <3>1. UNCHANGED <<hub, overlapped>>
      BY <2>2 DEF FinishHalt, FinishJoin, FinishJoinTimeout, controller, history
    <3>2. \A s \in Sessions : Live(s)' => Live(s)
      BY <2>2 DEF FinishHalt, FinishJoin, FinishJoinTimeout, Live, TypeOK, Wirings
    <3> QED
      BY <3>1, <3>2 DEF HubOutlivesRuntimes
  <2>3. CASE ShutdownHub
    <3>1. UNCHANGED <<wiring, overlapped>> /\ runtime = None
      BY <2>3 DEF ShutdownHub, LiveInv, Slot, analysis, history
    <3> QED
      BY <3>1, NoneAssumption DEF LiveInv, LiveOnly, HubOutlivesRuntimes, Live
  <2>4. CASE UNCHANGED <<hub, wiring>> /\ (overlapped => overlapped')
    BY <2>4 DEF HubOutlivesRuntimes, Live
  <2>5. ASSUME NEW c \in Callers, CallerStep(c)
        PROVE  HubOutlivesRuntimes'
    <3>1. \/ StartLaunch(c) \/ FinishHalt(c) \/ FinishJoin(c)
          \/ UNCHANGED <<hub, wiring>> /\ (overlapped => overlapped')
      BY <2>5 DEF CallerStep, StartReserve, StartRefused, StartFails, FinishPoll, FinishUpdate,
                  FinishFile, FinishJoinRace, FinishClose, FinishRaises, FinishIncident,
                  FinishSeal, controller, analysis, history
    <3> QED
      BY <2>1, <2>2, <2>4, <3>1
  <2>6. ASSUME NEW s \in Sessions, Publish(s) \/ ThreadStep(s)
        PROVE  UNCHANGED <<hub, wiring, overlapped>>
    BY <2>6 DEF Publish, ThreadStep, WorkerTake, WorkerExit, QualityWake, QualityPoll,
                ThreadUpdate, ThreadFile, controller, history
  <2>7. ASSUME NEW c \in Callers, NEW s \in Sessions, StartEnter(c, s)
        PROVE  UNCHANGED <<hub, wiring, overlapped>>
    BY <2>7 DEF StartEnter, analysis, history
  <2>8. ASSUME NEW c \in Callers, NEW s \in Sessions, NEW status \in Terminal,
               FinishEnter(c, s, status)
        PROVE  UNCHANGED <<hub, wiring>> /\ (overlapped => overlapped')
    BY <2>8 DEF FinishEnter, controller, analysis
  <2>9. ASSUME NEW c \in Callers, ShutdownBegin(c)
        PROVE  UNCHANGED <<hub, wiring, overlapped>>
    BY <2>9 DEF ShutdownBegin, analysis, history
  <2>10. CASE Stopped \/ UNCHANGED vars
    BY <2>4, <2>10 DEF Stopped, vars, controller, analysis, history
  <2> QED
    BY <2>2, <2>3, <2>4, <2>5, <2>6, <2>7, <2>8, <2>9, <2>10 DEF Next
<1>3. Spec => []LiveInv
  BY TypeCorrect, LiveInit, LiveStep, PTL DEF Spec
<1> QED
  BY <1>1, <1>2, <1>3, TypeCorrect, PTL DEF Spec

-----------------------------------------------------------------------------

\* A final.json lies in a directory that start() made.
FinalDirs == \A s \in Sessions : audit[s].final # None => audit[s].dir

\* What is launched, held or finished has its directory.
Opened ==
  /\ \A c \in Callers : job[c].pc \in FinishPcs \cup {"launch"} => audit[job[c].sid].dir
  /\ runtime # None => audit[runtime].dir

\* Nothing is written yet for a session about to be launched, nor for the current
\* one until its finisher closed it.
Unwritten ==
  /\ \A c \in Callers : job[c].pc = "launch" => audit[job[c].sid].final = None
  /\ \/ runtime = None
     \/ \E c \in Callers : job[c].pc = "seal"
     \/ audit[runtime].final = None

WriteInv ==
  /\ FinalDirs /\ Opened
  /\ ~overlapped => Unwritten

LEMMA WriteInit == Init => WriteInv
BY DEF Init, WriteInv, FinalDirs, Opened, Unwritten, Idle, FinishPcs

\* A step that leaves the directories and the runtime alone, and brings no caller
\* to launch, into _finish() or away from seal, keeps the invariant.
LEMMA Unfiled ==
  ASSUME WriteInv, UNCHANGED <<runtime, audit, overlapped>>,
         \A d \in Callers :
           /\ job[d].pc = "seal" => job'[d].pc = "seal"
           /\ job'[d].pc \in FinishPcs \cup {"launch"} =>
                /\ job[d].pc \in FinishPcs \cup {"launch"}
                /\ job'[d].sid = job[d].sid
                /\ job'[d].pc = "launch" => job[d].pc = "launch"
  PROVE  WriteInv'
<1>1. FinalDirs' /\ Opened'
  BY DEF WriteInv, FinalDirs, Opened
<1>2. ~overlapped' => Unwritten'
  BY DEF WriteInv, Unwritten
<1> QED
  BY <1>1, <1>2 DEF WriteInv

\* Every step keeps the invariant.
LEMMA WriteStep ==
  TypeOK /\ JobIds /\ LiveInv /\ WriteInv /\ [Next]_vars => WriteInv'
<1> SUFFICES ASSUME TypeOK, JobIds, LiveInv, WriteInv, [Next]_vars PROVE WriteInv'
  OBVIOUS
<1> USE DEF TypeOK, Jobs
<1>1. ASSUME NEW c \in Callers, NEW s \in Sessions, StartEnter(c, s)
       PROVE  WriteInv'
  <2>1. \A d \in Callers :
          /\ job[d].pc = "seal" => job'[d].pc = "seal"
          /\ job'[d].pc \in FinishPcs \cup {"launch"} =>
               /\ job[d].pc \in FinishPcs \cup {"launch"}
               /\ job'[d].sid = job[d].sid
               /\ job'[d].pc = "launch" => job[d].pc = "launch"
    BY <1>1 DEF StartEnter, Goto, Return, Idle, At, FinishPcs
  <2> QED
    BY <1>1, <2>1, Unfiled DEF StartEnter, controller, analysis, history
<1>2. ASSUME NEW c \in Callers, StartReserve(c)
       PROVE  WriteInv'
  <2>1. \A d \in Callers : job'[d].pc \in FinishPcs =>
                              job[d].pc \in FinishPcs /\ job'[d].sid = job[d].sid
    BY <1>2 DEF StartReserve, Goto, At, FinishPcs
  <2>2. \A d \in Callers : job'[d].pc = "launch" =>
                              d = c \/ (job[d].pc = "launch" /\ job'[d].sid = job[d].sid)
    BY <1>2 DEF StartReserve, Goto
  <2>3. job'[c].sid = job[c].sid /\ job[c].sid \in Sessions /\ runtime \in Sessions \cup {None}
    BY <1>2 DEF StartReserve, Goto, JobIds, At
  <2>4. /\ \A s \in Sessions : audit'[s].final = audit[s].final
        /\ \A s \in Sessions : audit[s].dir => audit'[s].dir
        /\ audit'[job[c].sid].dir /\ ~audit[job[c].sid].dir
    BY <1>2, <2>3 DEF StartReserve, Dirs
  <2>5. UNCHANGED <<runtime, overlapped>>
    BY <1>2 DEF StartReserve, controller, history
  <2>6. \A d \in Callers : job[d].pc \in FinishPcs \cup {"launch"} => job[d].sid \in Sessions
    BY DEF JobIds, FinishPcs
  <2>7. FinalDirs'
    BY <2>4 DEF WriteInv, FinalDirs
  <2>8. Opened'
    BY <2>1, <2>2, <2>3, <2>4, <2>5, <2>6 DEF WriteInv, Opened
  <2>9. ASSUME ~overlapped'
        PROVE  Unwritten'
    <3>1. audit[job[c].sid].final = None
      BY <2>3, <2>4 DEF WriteInv, FinalDirs
    <3>2. runtime = None
      BY <1>2 DEF StartReserve, LiveInv, Slot
    <3> QED
      BY <2>2, <2>3, <2>4, <2>5, <2>6, <2>9, <3>1, <3>2 DEF WriteInv, Unwritten
  <2> QED
    BY <2>7, <2>8, <2>9 DEF WriteInv
<1>3. ASSUME NEW c \in Callers, StartRefused(c)
       PROVE  WriteInv'
  <2>1. \A d \in Callers : d # c => job'[d] = job[d]
    BY <1>3 DEF StartRefused, Return
  <2>2. job'[c].pc = "idle"
    BY <1>3 DEF StartRefused, Return, Idle
  <2>3. UNCHANGED <<runtime, overlapped>> /\ runtime \in Sessions \cup {None}
    BY <1>3 DEF StartRefused, history
  <2>4. /\ \A s \in Sessions : audit'[s].final = audit[s].final
        /\ \A s \in Sessions : audit[s].dir => audit'[s].dir
    <3>1. CASE UNCHANGED audit
      BY <3>1
    <3>2. CASE audit' = [audit EXCEPT ![job[c].sid].dir = TRUE]
      BY <3>2 DEF Dirs
    <3> QED
      BY <1>3, <3>1, <3>2 DEF StartRefused
  <2>5. job[c].pc = "reserve"
    BY <1>3 DEF StartRefused, At
  <2>6. \A d \in Callers : job[d].pc \in FinishPcs \cup {"launch"} => job[d].sid \in Sessions
    BY DEF JobIds, FinishPcs
  <2>7. FinalDirs'
    BY <2>4 DEF WriteInv, FinalDirs
  <2>8. Opened'
    BY <2>1, <2>2, <2>3, <2>4, <2>6 DEF WriteInv, Opened, FinishPcs
  <2>9. ~overlapped' => Unwritten'
    BY <2>1, <2>2, <2>3, <2>4, <2>5, <2>6 DEF WriteInv, Unwritten
  <2> QED
    BY <2>7, <2>8, <2>9 DEF WriteInv
<1>4. ASSUME NEW c \in Callers, StartLaunch(c)
       PROVE  WriteInv'
  <2>1. \A d \in Callers : d # c => job'[d] = job[d]
    BY <1>4 DEF StartLaunch, Return
  <2>2. job'[c].pc = "idle"
    BY <1>4 DEF StartLaunch, Return, Idle
  <2>3. runtime' = job[c].sid /\ job[c].sid \in Sessions /\ UNCHANGED <<audit, overlapped>>
    BY <1>4 DEF StartLaunch, JobIds, At, history
  <2>4. FinalDirs' /\ Opened'
    BY <1>4, <2>1, <2>2, <2>3 DEF StartLaunch, WriteInv, FinalDirs, Opened, At, FinishPcs
  <2>5. ASSUME ~overlapped'
        PROVE  Unwritten'
    <3>1. \A d \in Callers : job'[d].pc # "launch"
      BY <1>4, <2>1, <2>2, NoneAssumption DEF StartLaunch, LiveInv, LockOwner, At, StartPcs
    <3> QED
      BY <1>4, <2>3, <2>5, <3>1 DEF StartLaunch, WriteInv, Unwritten, At
  <2> QED
    BY <2>4, <2>5 DEF WriteInv
<1>5. ASSUME NEW c \in Callers, StartFails(c)
       PROVE  WriteInv'
  <2>1. \A d \in Callers : d # c => job'[d] = job[d]
    BY <1>5 DEF StartFails, Return
  <2>2. job'[c].pc = "idle"
    BY <1>5 DEF StartFails, Return, Idle
  <2>3. runtime' = None /\ job[c].sid \in Sessions
    BY <1>5 DEF StartFails, JobIds, At
  <2>4. /\ \A s \in Sessions : s # job[c].sid => audit'[s] = audit[s]
        /\ \A s \in Sessions : audit'[s].dir = audit[s].dir
    BY <1>5 DEF StartFails, Dirs
  <2>5. audit[job[c].sid].dir
    BY <1>5 DEF StartFails, WriteInv, Opened, At
  <2>6. \A d \in Callers : job[d].pc \in FinishPcs \cup {"launch"} => job[d].sid \in Sessions
    BY DEF JobIds, FinishPcs
  <2>7. FinalDirs'
    BY <2>3, <2>4, <2>5 DEF WriteInv, FinalDirs
  <2>8. Opened'
    BY <2>1, <2>2, <2>3, <2>4, <2>6 DEF WriteInv, Opened, FinishPcs
  <2>9. Unwritten'
    <3>1. \A d \in Callers : job'[d].pc # "launch"
      BY <1>5, <2>1, <2>2, NoneAssumption DEF StartFails, LiveInv, LockOwner, At, StartPcs
    <3> QED
      BY <2>3, <3>1 DEF Unwritten
  <2> QED
    BY <2>7, <2>8, <2>9 DEF WriteInv
<1>6. ASSUME NEW c \in Callers, NEW s \in Sessions, NEW status \in Terminal,
              FinishEnter(c, s, status)
       PROVE  WriteInv'
  <2>1. \A d \in Callers : d # c => job'[d] = job[d]
    BY <1>6 DEF FinishEnter
  <2>2. /\ job[c].pc = "idle" /\ job'[c].pc = "poll" /\ job'[c].sid = s
        /\ runtime = s /\ runtime # None
    BY <1>6 DEF FinishEnter, LiveInv, Slot, At
  <2>3. UNCHANGED <<runtime, audit>> /\ (overlapped => overlapped')
    BY <1>6 DEF FinishEnter, controller
  <2>4. FinalDirs' /\ Opened'
    BY <2>1, <2>2, <2>3 DEF WriteInv, FinalDirs, Opened, FinishPcs
  <2>5. ~overlapped' => Unwritten'
    BY <2>1, <2>2, <2>3 DEF WriteInv, Unwritten
  <2> QED
    BY <2>4, <2>5 DEF WriteInv
<1>7. ASSUME NEW c \in Callers, FinishPoll(c)
       PROVE  WriteInv'
  <2>1. \A d \in Callers :
          /\ job[d].pc = "seal" => job'[d].pc = "seal"
          /\ job'[d].pc \in FinishPcs \cup {"launch"} =>
               /\ job[d].pc \in FinishPcs \cup {"launch"}
               /\ job'[d].sid = job[d].sid
               /\ job'[d].pc = "launch" => job[d].pc = "launch"
    BY <1>7 DEF FinishPoll, Goto, Return, Idle, At, FinishPcs
  <2> QED
    BY <1>7, <2>1, Unfiled DEF FinishPoll, controller, analysis, history
<1>8. ASSUME NEW c \in Callers, FinishFile(c)
       PROVE  WriteInv'
  <2>1. \A d \in Callers :
          /\ job[d].pc = "seal" => job'[d].pc = "seal"
          /\ job'[d].pc \in FinishPcs \cup {"launch"} =>
               /\ job[d].pc \in FinishPcs \cup {"launch"}
               /\ job'[d].sid = job[d].sid
               /\ job'[d].pc = "launch" => job[d].pc = "launch"
    BY <1>8 DEF FinishFile, Goto, Return, Idle, At, FinishPcs
  <2> QED
    BY <1>8, <2>1, Unfiled DEF FinishFile, controller, analysis, history
<1>9. ASSUME NEW c \in Callers, FinishHalt(c)
       PROVE  WriteInv'
  <2>1. \A d \in Callers :
          /\ job[d].pc = "seal" => job'[d].pc = "seal"
          /\ job'[d].pc \in FinishPcs \cup {"launch"} =>
               /\ job[d].pc \in FinishPcs \cup {"launch"}
               /\ job'[d].sid = job[d].sid
               /\ job'[d].pc = "launch" => job[d].pc = "launch"
    BY <1>9 DEF FinishHalt, Goto, Return, Idle, At, FinishPcs
  <2> QED
    BY <1>9, <2>1, Unfiled DEF FinishHalt, controller, analysis, history
<1>10. ASSUME NEW c \in Callers, FinishJoin(c)
       PROVE  WriteInv'
  <2>1. \A d \in Callers :
          /\ job[d].pc = "seal" => job'[d].pc = "seal"
          /\ job'[d].pc \in FinishPcs \cup {"launch"} =>
               /\ job[d].pc \in FinishPcs \cup {"launch"}
               /\ job'[d].sid = job[d].sid
               /\ job'[d].pc = "launch" => job[d].pc = "launch"
    BY <1>10 DEF FinishJoin, Goto, Return, Idle, At, FinishPcs
  <2> QED
    BY <1>10, <2>1, Unfiled DEF FinishJoin, controller, analysis, history
<1>11. ASSUME NEW c \in Callers, FinishJoinTimeout(c)
       PROVE  WriteInv'
  <2>1. \A d \in Callers :
          /\ job[d].pc = "seal" => job'[d].pc = "seal"
          /\ job'[d].pc \in FinishPcs \cup {"launch"} =>
               /\ job[d].pc \in FinishPcs \cup {"launch"}
               /\ job'[d].sid = job[d].sid
               /\ job'[d].pc = "launch" => job[d].pc = "launch"
    BY <1>11 DEF FinishJoinTimeout, Goto, Return, Idle, At, FinishPcs
  <2> QED
    BY <1>11, <2>1, Unfiled DEF FinishJoinTimeout, controller, analysis, history
<1>12. ASSUME NEW c \in Callers, FinishJoinRace(c)
       PROVE  WriteInv'
  <2>1. \A d \in Callers :
          /\ job[d].pc = "seal" => job'[d].pc = "seal"
          /\ job'[d].pc \in FinishPcs \cup {"launch"} =>
               /\ job[d].pc \in FinishPcs \cup {"launch"}
               /\ job'[d].sid = job[d].sid
               /\ job'[d].pc = "launch" => job[d].pc = "launch"
    BY <1>12 DEF FinishJoinRace, Goto, Return, Idle, At, FinishPcs
  <2> QED
    BY <1>12, <2>1, Unfiled DEF FinishJoinRace, controller, analysis, history
<1>13. ASSUME NEW c \in Callers, FinishClose(c)
       PROVE  WriteInv'
  <2>1. \A d \in Callers : d # c => job'[d] = job[d]
    BY <1>13 DEF FinishClose, Goto
  <2>2. job[c].pc = "close" /\ job'[c].sid = job[c].sid /\ job[c].sid \in Sessions
    BY <1>13 DEF FinishClose, Goto, At, JobIds
  <2>3. UNCHANGED <<runtime, overlapped>>
    BY <1>13 DEF FinishClose, controller, history
  <2>4. CASE UNCHANGED audit /\ Goto(c, "incident")
    <3>1. job'[c].pc = "incident"
      BY <2>4 DEF Goto
    <3>2. \A d \in Callers :
            /\ job[d].pc = "seal" => job'[d].pc = "seal"
            /\ job'[d].pc \in FinishPcs \cup {"launch"} =>
                 /\ job[d].pc \in FinishPcs \cup {"launch"}
                 /\ job'[d].sid = job[d].sid
                 /\ job'[d].pc = "launch" => job[d].pc = "launch"
      BY <2>1, <2>2, <3>1 DEF FinishPcs
    <3> QED
      BY <2>3, <2>4, <3>2, Unfiled
  <2>5. CASE audit' = [audit EXCEPT ![job[c].sid].final = job[c].status] /\ Goto(c, "seal")
    <3>1. job'[c].pc = "seal"
      BY <2>5 DEF Goto
    <3>2. /\ \A s \in Sessions : s # job[c].sid => audit'[s] = audit[s]
          /\ \A s \in Sessions : audit'[s].dir = audit[s].dir
      BY <2>5 DEF Dirs
    <3>3. audit[job[c].sid].dir
      BY <2>2 DEF WriteInv, Opened, FinishPcs
    <3>4. \A d \in Callers : job[d].pc \in FinishPcs \cup {"launch"} => job[d].sid \in Sessions
      BY DEF JobIds, FinishPcs
    <3>5. FinalDirs'
      BY <3>2, <3>3 DEF WriteInv, FinalDirs
    <3>6. Opened'
      BY <2>1, <2>2, <2>3, <3>1, <3>2, <3>3, <3>4 DEF WriteInv, Opened, FinishPcs
    <3>7. ASSUME ~overlapped'
          PROVE  Unwritten'
      <4>1. runtime = job[c].sid
        BY <2>2, <2>3, <3>7 DEF LiveInv, OneFinisher, InFinish, FinishPcs
      <4>2. IsRunning
        BY <2>2, <4>1, NoneAssumption DEF LiveInv, Slot
      <4>3. \A d \in Callers : job'[d].pc # "launch"
        BY <2>1, <3>1, <4>2 DEF LiveInv, LockOwner, At
      <4> QED
        BY <3>1, <4>3 DEF Unwritten
    <3> QED
      BY <3>5, <3>6, <3>7 DEF WriteInv
  <2> QED
    BY <1>13, <2>4, <2>5 DEF FinishClose
<1>14. ASSUME NEW c \in Callers, FinishRaises(c)
       PROVE  WriteInv'
  <2>1. \A d \in Callers :
          /\ job[d].pc = "seal" => job'[d].pc = "seal"
          /\ job'[d].pc \in FinishPcs \cup {"launch"} =>
               /\ job[d].pc \in FinishPcs \cup {"launch"}
               /\ job'[d].sid = job[d].sid
               /\ job'[d].pc = "launch" => job[d].pc = "launch"
    BY <1>14 DEF FinishRaises, Goto, Return, Idle, At, FinishPcs
  <2> QED
    BY <1>14, <2>1, Unfiled DEF FinishRaises, controller, analysis, history
<1>15. ASSUME NEW c \in Callers, FinishSeal(c)
       PROVE  WriteInv'
  <2>1. \A d \in Callers : d # c => job'[d] = job[d]
    BY <1>15 DEF FinishSeal, Return
  <2>2. job'[c].pc = "idle"
    BY <1>15 DEF FinishSeal, Return, Idle
  <2>3. runtime' = None /\ UNCHANGED <<audit, overlapped>>
    BY <1>15 DEF FinishSeal, LiveInv, Slot, IsRunning, history
  <2>4. FinalDirs' /\ Opened'
    BY <2>1, <2>2, <2>3 DEF WriteInv, FinalDirs, Opened, FinishPcs
  <2>5. ~overlapped' => Unwritten'
    BY <2>1, <2>2, <2>3 DEF WriteInv, Unwritten
  <2> QED
    BY <2>4, <2>5 DEF WriteInv
<1>26. ASSUME NEW c \in Callers, FinishUpdate(c)
       PROVE  WriteInv'
  <2>1. \A d \in Callers :
          /\ job[d].pc = "seal" => job'[d].pc = "seal"
          /\ job'[d].pc \in FinishPcs \cup {"launch"} =>
               /\ job[d].pc \in FinishPcs \cup {"launch"}
               /\ job'[d].sid = job[d].sid
               /\ job'[d].pc = "launch" => job[d].pc = "launch"
    BY <1>26 DEF FinishUpdate, Goto, Return, Idle, At, FinishPcs
  <2> QED
    BY <1>26, <2>1, Unfiled DEF FinishUpdate, controller, analysis, history
<1>27. ASSUME NEW c \in Callers, FinishIncident(c)
       PROVE  WriteInv'
  <2>1. \A d \in Callers :
          /\ job[d].pc = "seal" => job'[d].pc = "seal"
          /\ job'[d].pc \in FinishPcs \cup {"launch"} =>
               /\ job[d].pc \in FinishPcs \cup {"launch"}
               /\ job'[d].sid = job[d].sid
               /\ job'[d].pc = "launch" => job[d].pc = "launch"
    BY <1>27 DEF FinishIncident, Goto, Return, Idle, At, FinishPcs
  <2> QED
    BY <1>27, <2>1, Unfiled DEF FinishIncident, controller, analysis, history
<1>16. ASSUME NEW c \in Callers, ShutdownBegin(c)
       PROVE  WriteInv'
  <2>1. \A d \in Callers : d # c => job'[d] = job[d]
    BY <1>16 DEF ShutdownBegin
  <2>2. /\ job[c].pc = "idle"
        /\ \/ job'[c] = job[c]
           \/ job'[c].pc = "poll" /\ job'[c].sid = runtime /\ runtime # None
    BY <1>16 DEF ShutdownBegin, LiveInv, Slot, Quiet, At
  <2>3. UNCHANGED <<runtime, audit, overlapped>>
    BY <1>16 DEF ShutdownBegin, history
  <2>4. FinalDirs' /\ Opened'
    BY <2>1, <2>2, <2>3 DEF WriteInv, FinalDirs, Opened, FinishPcs
  <2>5. ~overlapped' => Unwritten'
    BY <2>1, <2>2, <2>3 DEF WriteInv, Unwritten
  <2> QED
    BY <2>4, <2>5 DEF WriteInv
<1>17. ASSUME NEW s \in Sessions, Publish(s)
       PROVE  WriteInv'
  BY <1>17, Unfiled DEF Publish, controller, analysis, history
<1>18. ASSUME NEW s \in Sessions, WorkerTake(s)
       PROVE  WriteInv'
  BY <1>18, Unfiled DEF WorkerTake, controller, analysis, history
<1>19. ASSUME NEW s \in Sessions, WorkerExit(s)
       PROVE  WriteInv'
  BY <1>19, Unfiled DEF WorkerExit, controller, analysis, history
<1>20. ASSUME NEW s \in Sessions, QualityWake(s)
       PROVE  WriteInv'
  BY <1>20, Unfiled DEF QualityWake, controller, analysis, history
<1>21. ASSUME NEW s \in Sessions, QualityPoll(s)
       PROVE  WriteInv'
  BY <1>21, Unfiled DEF QualityPoll, controller, analysis, history
<1>28. ASSUME NEW s \in Sessions, NEW k \in Kinds, ThreadUpdate(s, k)
       PROVE  WriteInv'
  BY <1>28, Unfiled DEF ThreadUpdate, controller, analysis, history
<1>22. ASSUME NEW s \in Sessions, NEW k \in Kinds, ThreadFile(s, k)
       PROVE  WriteInv'
  BY <1>22, Unfiled DEF ThreadFile, controller, analysis, history
<1>23. ASSUME ShutdownHub
       PROVE  WriteInv'
  BY <1>23, Unfiled DEF ShutdownHub, controller, analysis, history
<1>24. ASSUME Stopped
       PROVE  WriteInv'
  BY <1>24, Unfiled DEF Stopped, vars, controller, analysis, history
<1>25. ASSUME UNCHANGED vars
       PROVE  WriteInv'
  BY <1>25, Unfiled DEF vars, controller, analysis, history
<1> QED
  BY <1>1, <1>2, <1>3, <1>4, <1>5, <1>6, <1>7, <1>8, <1>9, <1>10, <1>11, <1>12, <1>13,
     <1>14, <1>15, <1>16, <1>17, <1>18, <1>19, <1>20, <1>21, <1>22, <1>23, <1>24, <1>25, <1>26, <1>27,
     <1>28 DEF Next, CallerStep, ThreadStep

\* No final.json is ever replaced unless two callers finished one session at a
\* time: not by a stop that failed half way and was retried, not by a start.
THEOREM FinalOnce == Spec => FinalWrittenOnce
<1> DEFINE Once == \A s \in Sessions : audit[s].final # None /\ ~overlapped'
                                        => audit'[s].final = audit[s].final
<1>1. TypeOK /\ JobIds /\ LiveInv /\ WriteInv /\ [Next]_vars => [Once]_vars
  <2> SUFFICES ASSUME TypeOK, JobIds, LiveInv, WriteInv, Next,
                      NEW s \in Sessions, audit[s].final # None, ~overlapped'
               PROVE  audit'[s].final = audit[s].final
    OBVIOUS
  <2>1. ASSUME NEW c \in Callers, StartFails(c)
        PROVE  audit'[s].final = audit[s].final
    <3>1. ~overlapped /\ job[c].pc = "launch"
      BY <2>1 DEF StartFails, history, At
    <3>2. s # job[c].sid
      BY <3>1 DEF WriteInv, Unwritten
    <3> QED
      BY <2>1, <3>2 DEF StartFails, TypeOK
  <2>2. ASSUME NEW c \in Callers, FinishClose(c)
        PROVE  audit'[s].final = audit[s].final
    <3>1. ~overlapped /\ job[c].pc = "close" /\ job[c].sid \in Sessions
      BY <2>2 DEF FinishClose, history, At, JobIds
    <3>2. runtime = job[c].sid /\ \A d \in Callers : job[d].pc # "seal"
      BY <3>1 DEF LiveInv, OneFinisher, InFinish, FinishPcs
    <3>3. s # job[c].sid
      BY <3>1, <3>2, NoneAssumption DEF WriteInv, Unwritten
    <3> QED
      BY <2>2, <3>3 DEF FinishClose, TypeOK
  <2>3. ASSUME NEW c \in Callers, StartReserve(c) \/ StartRefused(c)
        PROVE  audit'[s].final = audit[s].final
    BY <2>3 DEF StartReserve, StartRefused, TypeOK, Dirs
  <2>4. ASSUME NEW c \in Callers, CallerStep(c)
        PROVE  audit'[s].final = audit[s].final
    <3>1. \/ StartReserve(c) \/ StartRefused(c) \/ StartFails(c) \/ FinishClose(c)
          \/ UNCHANGED audit
      BY <2>4 DEF CallerStep, StartLaunch, FinishPoll, FinishUpdate, FinishFile, FinishHalt,
                  FinishJoin, FinishJoinRace, FinishRaises, FinishIncident, FinishSeal
    <3> QED
      BY <2>1, <2>2, <2>3, <3>1
  <2>5. ASSUME NEW t \in Sessions, Publish(t) \/ ThreadStep(t)
        PROVE  UNCHANGED audit
    BY <2>5 DEF Publish, ThreadStep, WorkerTake, WorkerExit, QualityWake, QualityPoll,
                ThreadUpdate, ThreadFile
  <2>6. ASSUME NEW c \in Callers,
               \/ \E t \in Sessions : StartEnter(c, t)
               \/ \E t \in Sessions, status \in Terminal : FinishEnter(c, t, status)
               \/ FinishJoinTimeout(c) \/ ShutdownBegin(c)
        PROVE  UNCHANGED audit
    BY <2>6 DEF StartEnter, FinishEnter, FinishJoinTimeout, ShutdownBegin
  <2>7. CASE ShutdownHub \/ Stopped
    BY <2>7 DEF ShutdownHub, Stopped, vars
  <2> QED
    BY <2>4, <2>5, <2>6, <2>7 DEF Next
<1>2. Spec => []LiveInv
  BY TypeCorrect, LiveInit, LiveStep, PTL DEF Spec
<1>3. Spec => []WriteInv
  BY TypeCorrect, <1>2, WriteInit, WriteStep, PTL DEF Spec
<1> QED
  BY <1>1, <1>2, <1>3, TypeCorrect, PTL DEF Spec, FinalWrittenOnce

-----------------------------------------------------------------------------

\* Nothing runs for a session that has no directory or is about to be launched.
Untouched ==
  \A s \in Sessions :
    ~audit[s].dir \/ (\E c \in Callers : job[c].pc = "launch" /\ job[c].sid = s) =>
      /\ \A k \in Kinds : thread[s][k].pc = "none"
      /\ backlog[s] = 0 /\ ~wiring[s].joined

\* An active thread belongs to the current runtime, or it is the worker of a start
\* that failed, which nobody gives anything to do, or it outlived its join.
Owned ==
  \A s \in Sessions \ late, k \in Kinds :
    thread[s][k].pc \in Active =>
      \/ runtime = s
      \/ k = "worker" /\ thread[s][k].pc = "run" /\ backlog[s] = 0

\* What was joined has ended, and nothing is closed before it was joined.
Joined ==
  /\ \A s \in Sessions \ late : wiring[s].joined => Joinable(s)
  /\ \A c \in Callers :
       job[c].pc \in {"close", "incident", "seal"} => wiring[job[c].sid].joined

\* Who is about to file has read the session it works for.
Targeted ==
  /\ \A s \in Sessions \ late, k \in Kinds :
       thread[s][k].pc = "file" => thread[s][k].target = s
  /\ \A c \in Callers : job[c].pc = "file" => job[c].target = job[c].sid

FileInv ==
  ~overlapped => /\ Untouched /\ Owned /\ Joined /\ Targeted
                 /\ misfiled = {} /\ afterFinal = {}

LEMMA FileInit == Init => FileInv
<1> SUFFICES ASSUME Init PROVE FileInv
  OBVIOUS
<1>1. \A s \in Sessions, k \in Kinds : thread[s][k].pc = "none"
  BY DEF Init
<1>2. \A c \in Callers : job[c].pc = "idle"
  BY DEF Init, Idle
<1>3. \A s \in Sessions : backlog[s] = 0 /\ ~wiring[s].joined
  BY DEF Init
<1> QED
  BY <1>1, <1>2, <1>3 DEF Init, FileInv, Untouched, Owned, Joined, Targeted, Active

\* A step that touches no thread, brings no caller to launch, and none past the
\* join or into a file, keeps the invariant.
LEMMA Untold ==
  ASSUME FileInv,
         UNCHANGED <<runtime, thread, backlog, late>>,
         overlapped => overlapped',
         ~overlapped' => UNCHANGED <<misfiled, afterFinal>>,
         \A s \in Sessions : audit'[s].dir = audit[s].dir,
         \A s \in Sessions : wiring'[s].joined = wiring[s].joined,
         \A d \in Callers :
           /\ job'[d].pc = "launch" => job[d].pc = "launch" /\ job'[d].sid = job[d].sid
           /\ job'[d].pc \in {"close", "incident", "seal"} =>
                /\ job[d].pc \in {"close", "incident", "seal"} /\ job'[d].sid = job[d].sid
                /\ job'[d].sid \in Sessions
           /\ job'[d].pc = "file" =>
                \/ job'[d].target = job'[d].sid
                \/ job[d].pc = "file" /\ job'[d] = job[d]
  PROVE  FileInv'
<1> SUFFICES ASSUME ~overlapped'
             PROVE  /\ Untouched' /\ Owned' /\ Joined' /\ Targeted'
                    /\ misfiled' = {} /\ afterFinal' = {}
  BY DEF FileInv
<1>1. Untouched /\ Owned /\ Joined /\ Targeted /\ misfiled = {} /\ afterFinal = {}
  BY DEF FileInv
<1>2. Untouched'
  BY <1>1 DEF Untouched
<1>3. Owned'
  BY <1>1 DEF Owned
<1>4. Joined'
  BY <1>1 DEF Joined, Joinable
<1>5. Targeted'
  BY <1>1 DEF Targeted
<1> QED
  BY <1>1, <1>2, <1>3, <1>4, <1>5

\* So does a step of one active thread, if what it is active for is its own.
LEMMA ThreadTold ==
  ASSUME TypeOK, FileInv, NEW s \in Sessions, NEW k \in Kinds, thread[s][k].pc \in Active,
         UNCHANGED <<runtime, job, wiring, audit, late, overlapped>>,
         \A t \in Sessions, j \in Kinds : t # s \/ j # k => thread'[t][j] = thread[t][j],
         \A t \in Sessions : backlog[t] = 0 => backlog'[t] = 0,
         ~overlapped => misfiled' = {} /\ afterFinal' = {},
         ~overlapped /\ s \notin late =>
           /\ thread'[s][k].pc \in Active =>
                \/ runtime = s
                \/ k = "worker" /\ thread'[s][k].pc = "run" /\ backlog'[s] = 0
           /\ thread'[s][k].pc = "file" => thread'[s][k].target = s
  PROVE  FileInv'
<1> SUFFICES ASSUME ~overlapped
             PROVE  Untouched' /\ Owned' /\ Joined' /\ Targeted'
  BY DEF FileInv
<1>1. Untouched /\ Owned /\ Joined /\ Targeted
  BY DEF FileInv
<1>2. Untouched'
  BY <1>1 DEF Untouched, Active
<1>3. Owned'
  BY <1>1 DEF Owned
<1>4. Joined'
  BY <1>1 DEF Joined, Joinable
<1>5. Targeted'
  BY <1>1 DEF Targeted
<1> QED
  BY <1>2, <1>3, <1>4, <1>5

\* A thread that files, or is about to, reads the session it works for.
LEMMA OwnSession ==
  ASSUME TypeOK, LiveInv, FileInv, ~overlapped, NEW s \in Sessions \ late, NEW k \in Kinds,
         thread[s][k].pc \in Active,
         k = "quality" \/ thread[s][k].pc # "run" \/ backlog[s] # 0
  PROVE  runtime = s /\ state # None /\ Target = s
<1>1. runtime = s
  BY DEF FileInv, Owned
<1> QED
  BY <1>1, NoneAssumption DEF LiveInv, Slot, IsRunning, Target

\* What the earlier invariants say about a caller about to launch, and of a
\* finisher, when no finishes overlapped.
LEMMA Launching ==
  ASSUME TypeOK, JobIds, LiveInv, NEW c \in Callers, job[c].pc = "launch"
  PROVE  /\ lock = c /\ runtime = None /\ job[c].sid \in Sessions
         /\ \A d \in Callers : job[d].pc \in StartPcs => d = c
         /\ ~overlapped => \A d \in Callers : job[d].pc \notin FinishPcs
<1>1. lock = c /\ ~IsRunning /\ job[c].sid \in Sessions
  BY DEF LiveInv, LockOwner, JobIds, StartPcs, At
<1>2. runtime = None
  BY <1>1 DEF LiveInv, Slot
<1>3. \A d \in Callers : job[d].pc \in StartPcs => d = c
  BY <1>1 DEF LiveInv, LockOwner
<1>4. \A d \in Callers : job[d].pc \in FinishPcs => job[d].sid \in Sessions
  BY DEF JobIds, FinishPcs
<1>5. ~overlapped => \A d \in Callers : job[d].pc \notin FinishPcs
  BY <1>2, <1>4, NoneAssumption DEF LiveInv, OneFinisher, InFinish
<1> QED
  BY <1>1, <1>2, <1>3, <1>5

LEMMA FinisherOwns ==
  ASSUME TypeOK, JobIds, LiveInv, ~overlapped, NEW c \in Callers, job[c].pc \in FinishPcs
  PROVE  /\ job[c].sid \in Sessions /\ runtime = job[c].sid
         /\ state # None /\ state.id = job[c].sid /\ state.status = "RUNNING"
         /\ \A d \in Callers : job[d].pc \in FinishPcs => d = c
         /\ \A d \in Callers : job[d].pc # "launch"
<1>1. job[c].sid \in Sessions /\ runtime = job[c].sid
  BY DEF LiveInv, OneFinisher, InFinish, JobIds, FinishPcs
<1>2. IsRunning /\ state.id = job[c].sid
  BY <1>1, NoneAssumption DEF LiveInv, Slot
<1>3. \A d \in Callers : job[d].pc \in FinishPcs => d = c
  BY DEF LiveInv, OneFinisher, InFinish
<1>4. \A d \in Callers : job[d].pc # "launch"
  BY <1>2 DEF LiveInv, LockOwner, At
<1> QED
  BY <1>1, <1>2, <1>3, <1>4 DEF IsRunning

\* The current runtime has no final.json while any of its threads, or its finisher,
\* may still file: the one that has it has joined them.
LEMMA NotYetFinal ==
  ASSUME TypeOK, JobIds, LiveInv, WriteInv, FileInv, ~overlapped, NEW s \in Sessions,
         runtime = s,
         \/ \E c \in Callers : job[c].pc \in FinishPcs \ {"seal"}
         \/ s \notin late /\ ~Joinable(s)
  PROVE  audit[s].final = None
<1>1. \A c \in Callers : job[c].pc # "seal"
  <2> SUFFICES ASSUME NEW c \in Callers, job[c].pc = "seal" PROVE FALSE
    OBVIOUS
  <2>1. job[c].sid = s /\ \A d \in Callers : job[d].pc \in FinishPcs => d = c
    BY FinisherOwns DEF FinishPcs
  <2>2. s \notin late /\ ~Joinable(s)
    BY <2>1 DEF FinishPcs
  <2> QED
    BY <2>1, <2>2 DEF FileInv, Joined
<1> QED
  BY <1>1, NoneAssumption DEF WriteInv, Unwritten

\* Every step keeps the invariant.
LEMMA FileStep ==
  TypeOK /\ JobIds /\ LiveInv /\ WriteInv /\ FileInv /\ [Next]_vars => FileInv'
<1> SUFFICES ASSUME TypeOK, JobIds, LiveInv, WriteInv, FileInv, [Next]_vars PROVE FileInv'
  OBVIOUS
<1> USE DEF TypeOK, Jobs
<1> DEFINE Still ==
      \A d \in Callers :
        /\ job'[d].pc = "launch" => job[d].pc = "launch" /\ job'[d].sid = job[d].sid
        /\ job'[d].pc \in {"close", "incident", "seal"} =>
             /\ job[d].pc \in {"close", "incident", "seal"} /\ job'[d].sid = job[d].sid
             /\ job'[d].sid \in Sessions
        /\ job'[d].pc = "file" =>
             \/ job'[d].target = job'[d].sid
             \/ job[d].pc = "file" /\ job'[d] = job[d]
<1>0. \A d \in Callers : job[d].pc \in {"close", "incident", "seal"} => job[d].sid \in Sessions
  BY DEF JobIds
<1>1. ASSUME NEW c \in Callers, NEW s \in Sessions, StartEnter(c, s)
       PROVE  FileInv'
  <2>1. Still
    BY <1>0, <1>1 DEF StartEnter, Goto, Return, Idle, At
  <2>2. /\ \A t \in Sessions : audit'[t].dir = audit[t].dir
        /\ \A t \in Sessions : wiring'[t].joined = wiring[t].joined
    BY <1>1 DEF StartEnter, Dirs, Wirings, controller, analysis, history
  <2> QED
    BY <1>1, <2>1, <2>2, Untold DEF StartEnter, controller, analysis, history
<1>2. ASSUME NEW c \in Callers, StartReserve(c)
       PROVE  FileInv'
  <2>1. SUFFICES ASSUME ~overlapped
                 PROVE  Untouched' /\ Owned' /\ Joined' /\ Targeted'
    BY <1>2 DEF StartReserve, FileInv, history
  <2>2. UNCHANGED <<runtime, thread, backlog, wiring, late>>
    BY <1>2 DEF StartReserve, controller, analysis, history
  <2>3. \A d \in Callers : d # c => job'[d] = job[d]
    BY <1>2 DEF StartReserve, Goto
  <2>4. job'[c].pc = "launch" /\ job'[c].sid = job[c].sid /\ ~audit[job[c].sid].dir
    BY <1>2 DEF StartReserve, Goto
  <2>5. \A s \in Sessions : ~audit'[s].dir => ~audit[s].dir
    BY <1>2 DEF StartReserve, Dirs
  <2>6. Untouched'
    BY <2>1, <2>2, <2>3, <2>4, <2>5 DEF FileInv, Untouched
  <2> QED
    BY <2>1, <2>2, <2>3, <2>4, <2>6 DEF FileInv, Owned, Joined, Joinable, Targeted
<1>3. ASSUME NEW c \in Callers, StartRefused(c)
       PROVE  FileInv'
  <2>1. SUFFICES ASSUME ~overlapped
                 PROVE  Untouched' /\ Owned' /\ Joined' /\ Targeted'
    BY <1>3 DEF StartRefused, FileInv, history
  <2>2. UNCHANGED <<runtime, thread, backlog, wiring, late>>
    BY <1>3 DEF StartRefused, analysis, history
  <2>3. \A d \in Callers : d # c => job'[d] = job[d]
    BY <1>3 DEF StartRefused, Return
  <2>4. job'[c].pc = "idle"
    BY <1>3 DEF StartRefused, Return, Idle
  <2>5. \A s \in Sessions : ~audit'[s].dir => ~audit[s].dir
    BY <1>3 DEF StartRefused, Dirs
  <2>6. Untouched'
    BY <2>1, <2>2, <2>3, <2>4, <2>5 DEF FileInv, Untouched
  <2> QED
    BY <2>1, <2>2, <2>3, <2>4, <2>6 DEF FileInv, Owned, Joined, Joinable, Targeted
<1>4. ASSUME NEW c \in Callers, StartLaunch(c)
       PROVE  FileInv'
  <2> DEFINE s == job[c].sid
  <2>1. SUFFICES ASSUME ~overlapped
                 PROVE  Untouched' /\ Owned' /\ Joined' /\ Targeted'
    BY <1>4 DEF StartLaunch, FileInv, history
  <2>2. /\ job[c].pc = "launch" /\ s \in Sessions /\ runtime = None /\ runtime' = s
        /\ \A d \in Callers : job[d].pc \in StartPcs => d = c
        /\ \A d \in Callers : job[d].pc \notin FinishPcs
    BY <1>4, <2>1, Launching DEF StartLaunch, At
  <2>3. \A d \in Callers : job'[d].pc # "launch" /\ job'[d].pc \notin FinishPcs
    BY <1>4, <2>2 DEF StartLaunch, Return, Idle, StartPcs, FinishPcs
  <2>4. UNCHANGED <<backlog, audit, late>> /\ audit[s].dir
    BY <1>4, <2>2 DEF StartLaunch, WriteInv, Opened, history
  <2>5. \A t \in Sessions : wiring'[t].joined = wiring[t].joined
    BY <1>4 DEF StartLaunch, Wirings
  <2>6. \A t \in Sessions \ {s} : thread'[t] = thread[t]
    BY <1>4 DEF StartLaunch
  <2>7. \A k \in Kinds : thread'[s][k].pc = "run"
    BY <1>4, <2>2 DEF StartLaunch, Threads
  <2>8. ~wiring[s].joined
    BY <2>1, <2>2 DEF FileInv, Untouched
  <2>9. \A t \in Sessions : runtime # t
    BY <2>2, NoneAssumption
  <2>10. Untouched'
    BY <2>1, <2>3, <2>4, <2>5, <2>6 DEF FileInv, Untouched
  <2>11. Owned'
    BY <2>1, <2>2, <2>4, <2>6, <2>9 DEF FileInv, Owned
  <2>12. Joined'
    <3>1. \A t \in Sessions \ late' : wiring'[t].joined => Joinable(t)'
      <4> SUFFICES ASSUME NEW t \in Sessions \ late', wiring'[t].joined
                   PROVE  Joinable(t)'
        OBVIOUS
      <4>1. t # s /\ thread'[t] = thread[t]
        BY <2>5, <2>6, <2>8
      <4>2. Joinable(t)
        BY <2>1, <2>4, <2>5 DEF FileInv, Joined
      <4> QED
        BY <4>1, <4>2 DEF Joinable
    <3> QED
      BY <2>3, <3>1 DEF Joined, FinishPcs
  <2>13. Targeted'
    BY <2>1, <2>3, <2>4, <2>6, <2>7 DEF FileInv, Targeted, FinishPcs
  <2> QED
    BY <2>10, <2>11, <2>12, <2>13
<1>5. ASSUME NEW c \in Callers, StartFails(c)
       PROVE  FileInv'
  <2> DEFINE s == job[c].sid
  <2>1. SUFFICES ASSUME ~overlapped
                 PROVE  Untouched' /\ Owned' /\ Joined' /\ Targeted'
    BY <1>5 DEF StartFails, FileInv, history
  <2>2. /\ job[c].pc = "launch" /\ s \in Sessions /\ runtime = None /\ runtime' = None
        /\ \A d \in Callers : job[d].pc \in StartPcs => d = c
        /\ \A d \in Callers : job[d].pc \notin FinishPcs
    BY <1>5, <2>1, Launching DEF StartFails, At
  <2>3. \A d \in Callers : job'[d].pc # "launch" /\ job'[d].pc \notin FinishPcs
    BY <1>5, <2>2 DEF StartFails, Return, Idle, StartPcs, FinishPcs
  <2>4. UNCHANGED <<backlog, wiring, late>> /\ audit[s].dir
    BY <1>5, <2>2 DEF StartFails, WriteInv, Opened, history
  <2>5. \A t \in Sessions : audit'[t].dir = audit[t].dir
    BY <1>5 DEF StartFails, Dirs
  <2>6. \A t \in Sessions \ {s} : thread'[t] = thread[t]
    BY <1>5 DEF StartFails
  <2>7. /\ thread'[s]["worker"].pc \in {"none", "run"} /\ thread'[s]["quality"].pc = "none"
        /\ backlog[s] = 0 /\ ~wiring[s].joined
    <3>1. \A k \in Kinds : thread[s][k].pc = "none"
      BY <2>1, <2>2 DEF FileInv, Untouched
    <3> QED
      BY <1>5, <2>1, <2>2, <3>1 DEF StartFails, FileInv, Untouched, Kinds, Threads
  <2>9. \A t \in Sessions : runtime # t
    BY <2>2, NoneAssumption
  <2>10. Untouched'
    BY <2>1, <2>3, <2>4, <2>5, <2>6 DEF FileInv, Untouched
  <2>11. Owned'
    BY <2>1, <2>2, <2>4, <2>6, <2>7, <2>9 DEF FileInv, Owned, Kinds, Active
  <2>12. Joined'
    <3>1. \A t \in Sessions \ late' : wiring'[t].joined => Joinable(t)'
      <4> SUFFICES ASSUME NEW t \in Sessions \ late', wiring'[t].joined
                   PROVE  Joinable(t)'
        OBVIOUS
      <4>1. t # s /\ thread'[t] = thread[t]
        BY <2>4, <2>6, <2>7
      <4>2. Joinable(t)
        BY <2>1, <2>4 DEF FileInv, Joined
      <4> QED
        BY <4>1, <4>2 DEF Joinable
    <3> QED
      BY <2>3, <3>1 DEF Joined, FinishPcs
  <2>13. Targeted'
    BY <2>1, <2>3, <2>4, <2>6, <2>7 DEF FileInv, Targeted, FinishPcs, Kinds
  <2> QED
    BY <2>10, <2>11, <2>12, <2>13
<1>6. ASSUME NEW c \in Callers, NEW s \in Sessions, NEW status \in Terminal, FinishEnter(c, s, status)
       PROVE  FileInv'
  <2>1. Still
    BY <1>0, <1>6 DEF FinishEnter, Goto, Return, Idle, At
  <2>2. /\ \A t \in Sessions : audit'[t].dir = audit[t].dir
        /\ \A t \in Sessions : wiring'[t].joined = wiring[t].joined
    BY <1>6 DEF FinishEnter, Dirs, Wirings, controller, analysis
  <2> QED
    BY <1>6, <2>1, <2>2, Untold DEF FinishEnter, controller, analysis
<1>7. ASSUME NEW c \in Callers, FinishPoll(c)
       PROVE  FileInv'
  <2>1. Still
    BY <1>0, <1>7 DEF FinishPoll, Goto, Return, Idle, At
  <2>2. /\ \A s \in Sessions : audit'[s].dir = audit[s].dir
        /\ \A s \in Sessions : wiring'[s].joined = wiring[s].joined
    BY <1>7 DEF FinishPoll, Dirs, Wirings, controller, analysis, history
  <2> QED
    BY <1>7, <2>1, <2>2, Untold DEF FinishPoll, controller, analysis, history
<1>23. ASSUME NEW c \in Callers, FinishUpdate(c)
       PROVE  FileInv'
  <2>1. UNCHANGED <<audit, runtime, state, thread, backlog, wiring, late, misfiled,
                    afterFinal, overlapped>>
    BY <1>23 DEF FinishUpdate, controller, analysis, history
  <2>2. CASE overlapped
    BY <2>1, <2>2 DEF FileInv
  <2>3. CASE ~overlapped
    <3>1. Target = job[c].sid
      BY <1>23, <2>3, FinisherOwns DEF FinishUpdate, At, FinishPcs, Target
    <3>2. \A d \in Callers : d # c => job'[d] = job[d]
      BY <1>23 DEF FinishUpdate
    <3>3. /\ job'[c].pc \in {"halt", "file"} /\ job'[c].sid = job[c].sid
          /\ job'[c].target = job[c].sid
      BY <1>23, <3>1 DEF FinishUpdate
    <3>4. Still
      BY <1>0, <3>2, <3>3
    <3> QED
      BY <2>1, <3>4, Untold
  <2> QED
    BY <2>2, <2>3
<1>8. ASSUME NEW c \in Callers, FinishFile(c)
       PROVE  FileInv'
  <2>1. UNCHANGED <<audit, runtime, thread, backlog, wiring, late, overlapped>>
    BY <1>8 DEF FinishFile, controller, analysis
  <2>2. Still
    BY <1>0, <1>8 DEF FinishFile, Return, Idle, At
  <2>3. ~overlapped => UNCHANGED <<misfiled, afterFinal>>
    <3> SUFFICES ASSUME ~overlapped
                 PROVE  UNCHANGED <<misfiled, afterFinal>>
      OBVIOUS
    <3>1. job[c].pc = "file" /\ runtime = job[c].sid /\ job[c].sid \in Sessions
      BY <1>8, FinisherOwns DEF FinishFile, At, FinishPcs
    <3>2. job[c].target = job[c].sid
      BY <3>1 DEF FileInv, Targeted
    <3>3. audit[job[c].sid].final = None
      BY <3>1, NotYetFinal DEF FinishPcs
    <3> QED
      BY <1>8, <3>2, <3>3 DEF FinishFile, File, FileInv
  <2> QED
    BY <2>1, <2>2, <2>3, Untold
<1>9. ASSUME NEW c \in Callers, FinishHalt(c)
       PROVE  FileInv'
  <2>1. Still
    BY <1>0, <1>9 DEF FinishHalt, Goto, Return, Idle, At
  <2>2. /\ \A s \in Sessions : audit'[s].dir = audit[s].dir
        /\ \A s \in Sessions : wiring'[s].joined = wiring[s].joined
    BY <1>9 DEF FinishHalt, Dirs, Wirings, controller, analysis, history
  <2> QED
    BY <1>9, <2>1, <2>2, Untold DEF FinishHalt, controller, analysis, history
<1>10. ASSUME NEW c \in Callers, FinishJoin(c) \/ FinishJoinTimeout(c)
       PROVE  FileInv'
  <2> DEFINE s == job[c].sid
  <2>1. SUFFICES ASSUME ~overlapped
                 PROVE  Untouched' /\ Owned' /\ Joined' /\ Targeted'
    BY <1>10 DEF FinishJoin, FinishJoinTimeout, FileInv, history
  <2>2. /\ UNCHANGED <<runtime, thread, backlog, audit>> /\ late \subseteq late'
        /\ s \in Sessions
    BY <1>10 DEF FinishJoin, FinishJoinTimeout, controller, history, JobIds, At
  <2>3. \A d \in Callers : d # c => job'[d] = job[d]
    BY <1>10 DEF FinishJoin, FinishJoinTimeout, Goto
  <2>4. job'[c].pc = "close" /\ job'[c].sid = s
    BY <1>10 DEF FinishJoin, FinishJoinTimeout, Goto
  <2>5. /\ \A t \in Sessions \ {s} : wiring'[t] = wiring[t]
        /\ wiring'[s].joined
    BY <1>10, <2>2 DEF FinishJoin, FinishJoinTimeout, Wirings
  <2>6. s \in late' \/ Joinable(s) \/ wiring[s].joined
    BY <1>10 DEF FinishJoin, FinishJoinTimeout
  <2>7. audit[s].dir /\ \A d \in Callers : job[d].pc # "launch"
    BY <1>10, <2>1, FinisherOwns
    DEF FinishJoin, FinishJoinTimeout, At, FinishPcs, WriteInv, Opened
  <2>8. Untouched'
    BY <2>1, <2>2, <2>3, <2>4, <2>5, <2>7 DEF FileInv, Untouched
  <2>9. Joined'
    <3>1. \A t \in Sessions \ late' : wiring'[t].joined => Joinable(t)'
      BY <2>1, <2>2, <2>5, <2>6 DEF FileInv, Joined, Joinable
    <3>2. \A d \in Callers : job'[d].pc \in {"close", "incident", "seal"} =>
                                wiring'[job'[d].sid].joined
      BY <1>0, <2>1, <2>2, <2>3, <2>4, <2>5 DEF FileInv, Joined
    <3> QED
      BY <3>1, <3>2 DEF Joined
  <2> QED
    BY <2>1, <2>2, <2>3, <2>4, <2>8, <2>9 DEF FileInv, Owned, Targeted
<1>11. ASSUME NEW c \in Callers, FinishJoinRace(c)
       PROVE  FileInv'
  <2>1. Still
    BY <1>0, <1>11 DEF FinishJoinRace, Goto, Return, Idle, At
  <2>2. /\ \A s \in Sessions : audit'[s].dir = audit[s].dir
        /\ \A s \in Sessions : wiring'[s].joined = wiring[s].joined
    BY <1>11 DEF FinishJoinRace, Dirs, Wirings, controller, analysis, history
  <2> QED
    BY <1>11, <2>1, <2>2, Untold DEF FinishJoinRace, controller, analysis, history
<1>12. ASSUME NEW c \in Callers, FinishClose(c)
       PROVE  FileInv'
  <2>1. Still
    BY <1>0, <1>12 DEF FinishClose, Goto, Return, Idle, At
  <2>2. /\ \A s \in Sessions : audit'[s].dir = audit[s].dir
        /\ \A s \in Sessions : wiring'[s].joined = wiring[s].joined
    BY <1>12 DEF FinishClose, Dirs, Wirings, controller, analysis, history
  <2> QED
    BY <1>12, <2>1, <2>2, Untold DEF FinishClose, controller, analysis, history
<1>13. ASSUME NEW c \in Callers, FinishRaises(c)
       PROVE  FileInv'
  <2>1. Still
    BY <1>0, <1>13 DEF FinishRaises, Goto, Return, Idle, At
  <2>2. /\ \A s \in Sessions : audit'[s].dir = audit[s].dir
        /\ \A s \in Sessions : wiring'[s].joined = wiring[s].joined
    BY <1>13 DEF FinishRaises, Dirs, Wirings, controller, analysis, history
  <2> QED
    BY <1>13, <2>1, <2>2, Untold DEF FinishRaises, controller, analysis, history
<1>24. ASSUME NEW c \in Callers, FinishIncident(c)
       PROVE  FileInv'
  <2>1. Still
    BY <1>0, <1>24 DEF FinishIncident, Goto, Return, Idle, At
  <2>2. /\ \A s \in Sessions : audit'[s].dir = audit[s].dir
        /\ \A s \in Sessions : wiring'[s].joined = wiring[s].joined
    BY <1>24 DEF FinishIncident, Dirs, Wirings, controller, analysis, history
  <2> QED
    BY <1>24, <2>1, <2>2, Untold DEF FinishIncident, controller, analysis, history
<1>14. ASSUME NEW c \in Callers, FinishSeal(c)
       PROVE  FileInv'
  <2>1. SUFFICES ASSUME ~overlapped
                 PROVE  Untouched' /\ Owned' /\ Joined' /\ Targeted'
    BY <1>14 DEF FinishSeal, FileInv, history
  <2>2. UNCHANGED <<thread, backlog, wiring, audit, late>>
    BY <1>14 DEF FinishSeal, analysis, history
  <2>3. \A d \in Callers : d # c => job'[d] = job[d]
    BY <1>14 DEF FinishSeal, Return
  <2>4. job'[c].pc = "idle"
    BY <1>14 DEF FinishSeal, Return, Idle
  <2>5. job[c].pc = "seal" /\ runtime = job[c].sid /\ job[c].sid \in Sessions
    BY <1>14, <2>1, FinisherOwns DEF FinishSeal, At, FinishPcs
  <2>6. job[c].sid \notin late => Joinable(job[c].sid)
    BY <2>1, <2>5 DEF FileInv, Joined
  <2>7. Owned'
    BY <2>1, <2>2, <2>5, <2>6 DEF FileInv, Owned, Joinable
  <2>8. Untouched'
    BY <2>1, <2>2, <2>3, <2>4 DEF FileInv, Untouched
  <2> QED
    BY <2>1, <2>2, <2>3, <2>4, <2>7, <2>8 DEF FileInv, Joined, Joinable, Targeted
<1>15. ASSUME NEW c \in Callers, ShutdownBegin(c)
       PROVE  FileInv'
  <2>1. Still
    BY <1>0, <1>15 DEF ShutdownBegin, Goto, Return, Idle, At, Quiet
  <2>2. /\ \A s \in Sessions : audit'[s].dir = audit[s].dir
        /\ \A s \in Sessions : wiring'[s].joined = wiring[s].joined
    BY <1>15 DEF ShutdownBegin, Dirs, Wirings, analysis, history
  <2> QED
    BY <1>15, <2>1, <2>2, Untold DEF ShutdownBegin, analysis, history
<1>16. ASSUME NEW s \in Sessions, Publish(s)
       PROVE  FileInv'
  <2>1. SUFFICES ASSUME ~overlapped
                 PROVE  Untouched' /\ Owned' /\ Joined' /\ Targeted'
    BY <1>16 DEF Publish, FileInv, history
  <2>2. UNCHANGED <<runtime, job, thread, wiring, audit, late>>
    BY <1>16 DEF Publish, controller, history
  <2>3. runtime = s
    BY <1>16, <2>1 DEF Publish, LiveInv, LiveOnly, Live
  <2>4. audit[s].dir
    BY <2>3, NoneAssumption DEF WriteInv, Opened
  <2>5. \A c \in Callers : job[c].pc # "launch"
    BY <2>3, Launching, NoneAssumption
  <2>6. \A t \in Sessions \ {s} : backlog'[t] = backlog[t]
    BY <1>16 DEF Publish
  <2>7. Untouched'
    BY <2>1, <2>2, <2>4, <2>5, <2>6 DEF FileInv, Untouched
  <2>8. Owned'
    BY <2>1, <2>2, <2>3, <2>6 DEF FileInv, Owned
  <2> QED
    BY <2>1, <2>2, <2>7, <2>8 DEF FileInv, Joined, Joinable, Targeted
<1>17. ASSUME NEW s \in Sessions, WorkerTake(s)
       PROVE  FileInv'
  <2>1. UNCHANGED <<runtime, job, wiring, audit, late, overlapped, misfiled, afterFinal>>
    BY <1>17 DEF WorkerTake, controller, history
  <2>2. \A t \in Sessions : backlog[t] = 0 => backlog'[t] = 0
    BY <1>17 DEF WorkerTake
  <2>3. thread[s]["worker"].pc = "run" /\ backlog[s] # 0
    BY <1>17, QueueAssumption DEF WorkerTake
  <2>4. \A t \in Sessions, j \in Kinds : t # s \/ j # "worker" => thread'[t][j] = thread[t][j]
    BY <1>17 DEF WorkerTake, StepThread, Threads
  <2>5. thread'[s]["worker"].pc \in {"run", "update"}
    BY <1>17, <2>3 DEF WorkerTake, StepThread, Threads, Kinds
  <2>6. ~overlapped /\ s \notin late => runtime = s
    BY <2>3, OwnSession DEF Active, Kinds
  <2> QED
    BY <2>1, <2>2, <2>3, <2>4, <2>5, <2>6, ThreadTold DEF Active, Kinds, FileInv
<1>18. ASSUME NEW s \in Sessions, WorkerExit(s)
       PROVE  FileInv'
  <2>1. UNCHANGED <<runtime, job, wiring, audit, backlog, late, overlapped, misfiled, afterFinal>>
    BY <1>18 DEF WorkerExit, controller, history
  <2>2. thread[s]["worker"].pc = "run" /\ thread'[s]["worker"].pc = "exited"
    BY <1>18 DEF WorkerExit, StepThread, Threads, Kinds
  <2>3. \A t \in Sessions, j \in Kinds : t # s \/ j # "worker" => thread'[t][j] = thread[t][j]
    BY <1>18 DEF WorkerExit, StepThread, Threads
  <2> QED
    BY <2>1, <2>2, <2>3, ThreadTold DEF Active, Kinds, FileInv
<1>19. ASSUME NEW s \in Sessions, QualityWake(s)
       PROVE  FileInv'
  <2>1. UNCHANGED <<runtime, job, wiring, audit, backlog, late, overlapped, misfiled, afterFinal>>
    BY <1>19 DEF QualityWake, controller, history
  <2>2. thread[s]["quality"].pc = "run" /\ thread'[s]["quality"].pc \in {"exited", "want"}
    BY <1>19 DEF QualityWake, StepThread, Threads, Kinds
  <2>3. \A t \in Sessions, j \in Kinds : t # s \/ j # "quality" => thread'[t][j] = thread[t][j]
    BY <1>19 DEF QualityWake, StepThread, Threads
  <2>4. ~overlapped /\ s \notin late => runtime = s
    BY <2>2, OwnSession DEF Active, Kinds
  <2> QED
    BY <2>1, <2>2, <2>3, <2>4, ThreadTold DEF Active, Kinds, FileInv
<1>20. ASSUME NEW s \in Sessions, QualityPoll(s)
       PROVE  FileInv'
  <2>1. UNCHANGED <<runtime, job, wiring, audit, backlog, late, overlapped, misfiled, afterFinal>>
    BY <1>20 DEF QualityPoll, controller, history
  <2>2. thread[s]["quality"].pc = "want"
    BY <1>20 DEF QualityPoll
  <2>3. \A t \in Sessions, j \in Kinds : t # s \/ j # "quality" => thread'[t][j] = thread[t][j]
    BY <1>20 DEF QualityPoll, StepThread, Threads
  <2>4. thread'[s]["quality"].pc \in {"update", "run"}
    BY <1>20 DEF QualityPoll, StepThread, Threads, Kinds
  <2>5. ~overlapped /\ s \notin late => runtime = s
    BY <2>2, OwnSession DEF Active, Kinds
  <2> QED
    BY <2>1, <2>2, <2>3, <2>4, <2>5, ThreadTold DEF Active, Kinds, FileInv
<1>25. ASSUME NEW s \in Sessions, NEW k \in Kinds, ThreadUpdate(s, k)
       PROVE  FileInv'
  <2>1. UNCHANGED <<runtime, job, wiring, audit, backlog, late, overlapped, misfiled, afterFinal>>
    BY <1>25 DEF ThreadUpdate, controller, history
  <2>2. thread[s][k].pc = "update"
    BY <1>25 DEF ThreadUpdate
  <2>3. \A t \in Sessions, j \in Kinds : t # s \/ j # k => thread'[t][j] = thread[t][j]
    BY <1>25 DEF ThreadUpdate, Threads
  <2>4. thread'[s][k].target = Target
    BY <1>25 DEF ThreadUpdate, Threads
  <2>5. ~overlapped /\ s \notin late => runtime = s /\ Target = s
    BY <2>2, OwnSession DEF Active
  <2> QED
    BY <2>1, <2>2, <2>3, <2>4, <2>5, ThreadTold DEF Active, FileInv
<1>21. ASSUME NEW s \in Sessions, NEW k \in Kinds, ThreadFile(s, k)
       PROVE  FileInv'
  <2>1. UNCHANGED <<runtime, job, wiring, audit, backlog, late, overlapped>>
    BY <1>21 DEF ThreadFile, controller
  <2>2. thread[s][k].pc = "file" /\ thread'[s][k].pc \in {"run", "exited"}
    BY <1>21 DEF ThreadFile, Threads
  <2>3. \A t \in Sessions, j \in Kinds : t # s \/ j # k => thread'[t][j] = thread[t][j]
    BY <1>21 DEF ThreadFile, Threads
  <2>4. ~overlapped /\ s \notin late => runtime = s
    BY <2>2, OwnSession DEF Active, Kinds
  <2>5. ASSUME ~overlapped
        PROVE  misfiled' = {} /\ afterFinal' = {}
    <3>1. misfiled = {} /\ afterFinal = {}
      BY <2>5 DEF FileInv
    <3>2. CASE s \in late
      BY <1>21, <3>1, <3>2 DEF ThreadFile, File
    <3>3. CASE s \notin late
      <4>1. thread[s][k].target = s
        BY <2>2, <2>5, <3>3 DEF FileInv, Targeted
      <4>2. audit[s].final = None
        BY <2>2, <2>4, <2>5, <3>3, NotYetFinal DEF Joinable, Active
      <4> QED
        BY <1>21, <3>1, <4>1, <4>2 DEF ThreadFile, File
    <3> QED
      BY <3>2, <3>3
  <2> QED
    BY <2>1, <2>2, <2>3, <2>4, <2>5, ThreadTold DEF Active
<1>22. CASE ShutdownHub \/ Stopped \/ UNCHANGED vars
  <2>1. UNCHANGED <<runtime, job, audit, analysis, history>>
    BY <1>22 DEF ShutdownHub, Stopped, vars, controller
  <2> QED
    BY <1>0, <2>1, Untold DEF analysis, history
<1> QED
  BY <1>1, <1>2, <1>3, <1>4, <1>5, <1>6, <1>7, <1>8, <1>9, <1>10, <1>11, <1>12, <1>13,
     <1>14, <1>15, <1>16, <1>17, <1>18, <1>19, <1>20, <1>21, <1>22, <1>23, <1>24, <1>25
  DEF Next, CallerStep, ThreadStep

LEMMA FiledAlways == Spec => [](TypeOK /\ FileInv)
<1>1. Spec => []LiveInv
  BY TypeCorrect, LiveInit, LiveStep, PTL DEF Spec
<1>2. Spec => []WriteInv
  BY TypeCorrect, <1>1, WriteInit, WriteStep, PTL DEF Spec
<1> QED
  BY TypeCorrect, <1>1, <1>2, FileInit, FileStep, PTL DEF Spec

\* An update is filed under the session whose runtime made it, unless finishes of
\* one session overlapped or the thread outlived its join.
THEOREM OwnerFiles == Spec => []FiledUnderOwner
<1>1. FileInv => FiledUnderOwner
  BY DEF FileInv, FiledUnderOwner
<1> QED
  BY <1>1, FiledAlways, PTL

\* With the same exceptions, no update is filed once final.json was written.
THEOREM NothingFollows == Spec => []NothingAfterFinal
<1>1. FileInv => NothingAfterFinal
  BY DEF FileInv, NothingAfterFinal
<1> QED
  BY <1>1, FiledAlways, PTL

-----------------------------------------------------------------------------

\* What a finisher past its close wrote is what it is about to report.
Sealed ==
  \A c \in Callers : job[c].pc = "seal" =>
    audit[job[c].sid].final \in {None, job[c].status}

SealInv == ~overlapped => Sealed

LEMMA SealInit == Init => SealInv
BY DEF Init, SealInv, Sealed, Idle

\* A step that writes no final.json and brings no caller to seal keeps it.
LEMMA Unsealed ==
  ASSUME SealInv, JobIds, overlapped => overlapped',
         \A s \in Sessions : audit'[s].final = audit[s].final,
         \A d \in Callers : job'[d].pc = "seal" => job'[d] = job[d]
  PROVE  SealInv'
<1> SUFFICES ASSUME ~overlapped', NEW d \in Callers, job'[d].pc = "seal"
             PROVE  audit'[job'[d].sid].final \in {None, job'[d].status}
  BY DEF SealInv, Sealed
<1>1. job'[d] = job[d] /\ job[d].sid \in Sessions
  BY DEF JobIds
<1> QED
  BY <1>1 DEF SealInv, Sealed

\* Every step keeps it: the close alone writes a final.json while someone finishes,
\* and it is the first to write that one.
LEMMA SealStep ==
  TypeOK /\ JobIds /\ LiveInv /\ WriteInv /\ SealInv /\ [Next]_vars => SealInv'
<1> SUFFICES ASSUME TypeOK, JobIds, LiveInv, WriteInv, SealInv, [Next]_vars PROVE SealInv'
  OBVIOUS
<1> USE DEF TypeOK, Jobs
<1>1. ASSUME NEW c \in Callers,
             \/ \E s \in Sessions : StartEnter(c, s)
             \/ \E s \in Sessions, status \in Terminal : FinishEnter(c, s, status)
             \/ ShutdownBegin(c)
      PROVE  SealInv'
  <2>1. \A d \in Callers : job'[d].pc = "seal" => job'[d] = job[d]
    <3>1. ASSUME NEW s \in Sessions, StartEnter(c, s)
          PROVE  job' = [job EXCEPT ![c] = job'[c]] /\ job'[c].pc = "reserve"
      BY <3>1 DEF StartEnter, Idle
    <3>2. ASSUME NEW s \in Sessions, NEW status \in Terminal, FinishEnter(c, s, status)
          PROVE  job' = [job EXCEPT ![c] = job'[c]] /\ job'[c].pc = "poll"
      BY <3>2 DEF FinishEnter
    <3>3. ASSUME ShutdownBegin(c)
          PROVE  job' = [job EXCEPT ![c] = job'[c]] /\ (job'[c] = job[c] \/ job'[c].pc = "poll")
      BY <3>3 DEF ShutdownBegin
    <3> QED
      BY <1>1, <3>1, <3>2, <3>3
  <2> QED
    BY <1>1, <2>1, Unsealed DEF StartEnter, FinishEnter, ShutdownBegin, history
<1>2. ASSUME NEW c \in Callers, StartReserve(c) \/ StartRefused(c)
      PROVE  SealInv'
  <2>1. \A d \in Callers : job'[d].pc = "seal" => job'[d] = job[d]
    BY <1>2 DEF StartReserve, StartRefused, Goto, Return, Idle
  <2>2. \A s \in Sessions : audit'[s].final = audit[s].final
    BY <1>2 DEF StartReserve, StartRefused, Dirs
  <2> QED
    BY <1>2, <2>1, <2>2, Unsealed DEF StartReserve, StartRefused, history
<1>3. ASSUME NEW c \in Callers, StartLaunch(c) \/ FinishRaises(c) \/ FinishSeal(c)
                                \/ FinishJoinRace(c) \/ FinishFile(c)
      PROVE  SealInv'
  <2>1. \A d \in Callers : job'[d].pc = "seal" => job'[d] = job[d]
    BY <1>3 DEF StartLaunch, FinishRaises, FinishSeal, FinishJoinRace, FinishFile, Return, Idle
  <2> QED
    BY <1>3, <2>1, Unsealed
    DEF StartLaunch, FinishRaises, FinishSeal, FinishJoinRace, FinishFile, history
<1>4. ASSUME NEW c \in Callers, FinishPoll(c) \/ FinishUpdate(c) \/ FinishHalt(c)
                                \/ FinishJoin(c) \/ FinishJoinTimeout(c)
      PROVE  SealInv'
  <2>1. \A d \in Callers : job'[d].pc = "seal" => job'[d] = job[d]
    BY <1>4 DEF FinishPoll, FinishUpdate, FinishHalt, FinishJoin, FinishJoinTimeout, Goto
  <2> QED
    BY <1>4, <2>1, Unsealed
    DEF FinishPoll, FinishUpdate, FinishHalt, FinishJoin, FinishJoinTimeout, history
<1>5. ASSUME NEW c \in Callers, StartFails(c)
      PROVE  SealInv'
  <2>1. \A d \in Callers : d # c => job'[d] = job[d]
    BY <1>5 DEF StartFails, Return
  <2>2. job'[c].pc = "idle" /\ UNCHANGED overlapped
    BY <1>5 DEF StartFails, Return, Idle, history
  <2>3. ~overlapped => \A d \in Callers : job[d].pc \notin FinishPcs
    BY <1>5, Launching DEF StartFails, At
  <2> QED
    BY <2>1, <2>2, <2>3 DEF SealInv, Sealed, FinishPcs
<1>6. ASSUME NEW c \in Callers, FinishClose(c) \/ FinishIncident(c)
      PROVE  SealInv'
  <2> SUFFICES ASSUME ~overlapped', NEW d \in Callers, job'[d].pc = "seal"
               PROVE  audit'[job'[d].sid].final \in {None, job'[d].status}
    BY DEF SealInv, Sealed
  <2>1. ~overlapped /\ job[c].pc \in {"close", "incident"}
    BY <1>6 DEF FinishClose, FinishIncident, At, history
  <2>2. job[c].sid \in Sessions /\ runtime = job[c].sid
        /\ \A e \in Callers : job[e].pc \in FinishPcs => e = c
    BY <2>1, FinisherOwns DEF FinishPcs
  <2>3. audit[job[c].sid].final = None
    BY <2>1, <2>2, NoneAssumption DEF WriteInv, Unwritten, FinishPcs
  <2>4. d = c
    BY <1>6, <2>2 DEF FinishClose, FinishIncident, Goto, Return, FinishPcs
  <2>5. job'[c].sid = job[c].sid /\ job'[c].status = job[c].status
    BY <1>6, <2>4 DEF FinishClose, FinishIncident, Goto, Return, Idle
  <2> QED
    BY <1>6, <2>2, <2>3, <2>4, <2>5 DEF FinishClose, FinishIncident, Dirs
<1>7. ASSUME NEW s \in Sessions, Publish(s) \/ ThreadStep(s)
      PROVE  SealInv'
  <2>1. UNCHANGED <<job, audit, overlapped>>
    BY <1>7 DEF Publish, ThreadStep, WorkerTake, WorkerExit, QualityWake, QualityPoll,
                ThreadUpdate, ThreadFile, history
  <2> QED
    BY <2>1, Unsealed
<1>8. CASE ShutdownHub \/ Stopped \/ UNCHANGED vars
  <2>1. UNCHANGED <<job, audit, overlapped>>
    BY <1>8 DEF ShutdownHub, Stopped, vars, history
  <2> QED
    BY <2>1, Unsealed
<1> QED
  BY <1>1, <1>2, <1>3, <1>4, <1>5, <1>6, <1>7, <1>8 DEF Next, CallerStep

-----------------------------------------------------------------------------

\* What a caller inside start() means for the turn: it is its own once it has
\* reserved, and nothing runs then.
LEMMA TurnOfStart ==
  ASSUME TypeOK, JobIds, LiveInv, NEW c \in Callers, job[c].pc \in StartPcs
  PROVE  /\ lock = c
         /\ job[c].pc = "launch" => ~IsRunning /\ Turn = job[c].sid
         /\ job[c].pc # "launch" => Turn = IF IsRunning THEN state.id ELSE None
<1>1. lock = c /\ c # None
  BY NoneAssumption DEF LiveInv, LockOwner
<1>2. job[c].pc = "launch" => ~IsRunning
  BY DEF LiveInv, LockOwner, At
<1> QED
  BY <1>1, <1>2 DEF Turn, At

\* The turn of the session a finisher works for; the lock's holder is another caller.
LEMMA TurnOfFinish ==
  ASSUME TypeOK, JobIds, LiveInv, ~overlapped, NEW c \in Callers, job[c].pc \in FinishPcs
  PROVE  /\ Turn = job[c].sid /\ job[c].sid \in Sessions
         /\ state = [id |-> job[c].sid, status |-> "RUNNING"]
         /\ lock # None => lock \in Callers /\ lock # c /\ ~At(lock, "launch")
<1>1. /\ job[c].sid \in Sessions /\ state # None
      /\ state.id = job[c].sid /\ state.status = "RUNNING"
      /\ \A d \in Callers : job[d].pc # "launch"
  BY FinisherOwns
<1>2. lock # None => lock \in Callers /\ lock # c /\ ~At(lock, "launch")
  BY <1>1 DEF TypeOK, LiveInv, LockOwner, StartPcs, FinishPcs, At
<1>3. state = [id |-> job[c].sid, status |-> "RUNNING"]
  BY <1>1 DEF TypeOK, States
<1> QED
  BY <1>1, <1>2, <1>3 DEF Turn, IsRunning

\* A step that keeps the lock, the state, the directories and the job of the lock's
\* holder is none of the workstation's.
LEMMA Unseen ==
  ASSUME UNCHANGED <<lock, state, audit>>, lock # None => job'[lock] = job[lock]
  PROVE  UNCHANGED Promise!vars
<1>1. Turn' = Turn
  BY DEF Turn, At, IsRunning
<1> QED
  BY <1>1 DEF Promise!vars

LEMMA PromiseInit == Init => Promise!Init
BY DEF Init, Promise!Init, Turn, IsRunning

\* Every step without an overlap is a step of the workstation, or none of its own.
LEMMA PromiseStep ==
  ASSUME TypeOK, JobIds, LiveInv, WriteInv, SealInv, ~overlapped, [Next]_vars
  PROVE  [Promise!Next]_(Promise!vars)
<1>1. ASSUME NEW c \in Callers, NEW s \in Sessions, StartEnter(c, s)
      PROVE  UNCHANGED Promise!vars
  <2>1. lock = None /\ UNCHANGED <<state, audit>>
    BY <1>1 DEF StartEnter, Unlocked
  <2>2. lock' = c /\ job'[c].pc = "reserve"
    BY <1>1 DEF StartEnter, Idle, TypeOK
  <2>3. Turn' = Turn
    BY <2>1, <2>2 DEF Turn, At, IsRunning
  <2> QED
    BY <2>1, <2>3 DEF Promise!vars
<1>2. ASSUME NEW c \in Callers, StartReserve(c)
      PROVE  Promise!Next
  <2>0. PICK s \in Sessions : s = job[c].sid
    BY <1>2 DEF StartReserve, At, JobIds
  <2>1. job[c].pc = "reserve" /\ ~audit[s].dir /\ c # None
    BY <1>2, <2>0, NoneAssumption DEF StartReserve, At, JobIds
  <2>2. lock = c /\ ~IsRunning /\ Turn = None
    BY <1>2, <2>0, <2>1, TurnOfStart DEF StartReserve, StartPcs
  <2>3. UNCHANGED <<lock, state>>
    BY <1>2 DEF StartReserve, controller
  <2>4. job'[c].pc = "launch" /\ job'[c].sid = s
    BY <1>2, <2>0 DEF StartReserve, Goto, TypeOK, Jobs
  <2>5. Turn' = s
    BY <2>0, <2>1, <2>2, <2>3, <2>4 DEF Turn, At
  <2>6. /\ audit'[s].dir
        /\ \A t \in Sessions : t # s => audit'[t] = audit[t]
        /\ \A t \in Sessions : audit'[t].final = audit[t].final
    BY <1>2, <2>0, <2>1 DEF StartReserve, TypeOK, Dirs
  <2>7. {t \in Sessions : audit'[t].dir} = {t \in Sessions : audit[t].dir} \cup {s}
    BY <2>1, <2>6
  <2>8. [t \in Sessions |-> audit'[t].final] = [t \in Sessions |-> audit[t].final]
    BY <2>6
  <2>9. s \notin {t \in Sessions : audit[t].dir}
    BY <2>1
  <2>10. Promise!Take(s)
    BY <2>2, <2>3, <2>5, <2>7, <2>8, <2>9 DEF Promise!Take
  <2> QED
    BY <2>10 DEF Promise!Next
<1>3. ASSUME NEW c \in Callers, StartRefused(c)
      PROVE  [Promise!Next]_(Promise!vars)
  <2>0. PICK s \in Sessions : s = job[c].sid
    BY <1>3 DEF StartRefused, At, JobIds
  <2>1. job[c].pc = "reserve"
    BY <1>3 DEF StartRefused, At, JobIds
  <2>2. Turn = IF IsRunning THEN state.id ELSE None
    BY <2>0, <2>1, TurnOfStart DEF StartPcs
  <2>3. lock' = None /\ UNCHANGED state
    BY <1>3 DEF StartRefused
  <2>4. Turn' = Turn
    BY <2>2, <2>3 DEF Turn, IsRunning
  <2>5. CASE UNCHANGED audit
    BY <2>3, <2>4, <2>5 DEF Promise!vars
  <2>6. CASE ~IsRunning /\ audit' = [audit EXCEPT ![s].dir = TRUE]
    <3>1. /\ audit'[s].dir
          /\ \A t \in Sessions : t # s => audit'[t] = audit[t]
          /\ \A t \in Sessions : audit'[t].final = audit[t].final
      BY <2>6 DEF TypeOK, Dirs
    <3>2. {t \in Sessions : audit'[t].dir} = {t \in Sessions : audit[t].dir} \cup {s}
      BY <3>1
    <3>3. [t \in Sessions |-> audit'[t].final] = [t \in Sessions |-> audit[t].final]
      BY <3>1
    <3>4. Promise!Waste(s)
      BY <2>2, <2>3, <2>4, <2>6, <3>2, <3>3 DEF Promise!Waste
    <3> QED
      BY <3>4 DEF Promise!Next
  <2> QED
    BY <1>3, <2>0, <2>5, <2>6 DEF StartRefused
<1>4. ASSUME NEW c \in Callers, StartLaunch(c)
      PROVE  Promise!Next
  <2> DEFINE s == job[c].sid
  <2>1. job[c].pc = "launch" /\ s \in Sessions /\ s # None
    BY <1>4, NoneAssumption DEF StartLaunch, At, JobIds
  <2>2. ~IsRunning /\ Turn = s
    BY <2>1, TurnOfStart DEF StartPcs
  <2>3. lock' = None /\ state' = [id |-> s, status |-> "RUNNING"] /\ UNCHANGED audit
    BY <1>4 DEF StartLaunch
  <2>4. \A x : x = [id |-> s, status |-> "RUNNING"] => x # None
    BY <2>1, NoneAssumption DEF Status
  <2>5. Turn' = s
    BY <2>3, <2>4 DEF Turn, IsRunning
  <2>6. state # [id |-> s, status |-> "RUNNING"]
    BY <2>2, <2>4 DEF IsRunning
  <2>7. Promise!Run
    BY <2>1, <2>2, <2>3, <2>5, <2>6 DEF Promise!Run, Promise!Running, Promise!Reported
  <2> QED
    BY <2>7 DEF Promise!Next
<1>5. ASSUME NEW c \in Callers, StartFails(c)
      PROVE  Promise!Next
  <2> DEFINE s == job[c].sid
  <2>1. job[c].pc = "launch" /\ s \in Sessions /\ s # None
    BY <1>5, NoneAssumption DEF StartFails, At, JobIds
  <2>2. ~IsRunning /\ Turn = s
    BY <2>1, TurnOfStart DEF StartPcs
  <2>3. lock' = None /\ state' = None
    BY <1>5 DEF StartFails
  <2>4. Turn' = None
    BY <2>3 DEF Turn, IsRunning
  <2>5. \A x : x = [id |-> s, status |-> "RUNNING"] => x # None
    BY <2>1, NoneAssumption DEF Status
  <2>6. state # [id |-> s, status |-> "RUNNING"]
    BY <2>2, <2>5 DEF IsRunning
  <2>7. audit[s].final = None
    BY <2>1 DEF WriteInv, Unwritten
  <2> DEFINE closed == [t \in Sessions |-> audit[t].final]
  <2>8. \/ UNCHANGED audit
        \/ audit' = [audit EXCEPT ![s].final = "ABORTED"]
    BY <1>5 DEF StartFails
  <2>9. closed' \in {closed, [closed EXCEPT ![s] = "ABORTED"]}
    BY <2>1, <2>8 DEF TypeOK, Dirs
  <2>10. {t \in Sessions : audit'[t].dir} = {t \in Sessions : audit[t].dir}
    BY <2>1, <2>8 DEF TypeOK, Dirs
  <2>11. closed[s] = None
    BY <2>1, <2>7
  <2>12. Promise!Fail
    BY <2>1, <2>2, <2>3, <2>4, <2>6, <2>9, <2>10, <2>11
    DEF Promise!Fail, Promise!Running, Promise!Reported
  <2> QED
    BY <2>12 DEF Promise!Next
<1>6. ASSUME NEW c \in Callers, FinishClose(c)
      PROVE  [Promise!Next]_(Promise!vars)
  <2>0. PICK status \in Terminal : status = job[c].status
    BY <1>6 DEF TypeOK, Jobs
  <2> DEFINE s == job[c].sid
             closed == [t \in Sessions |-> audit[t].final]
  <2>1. job[c].pc = "close"
    BY <1>6 DEF FinishClose, At
  <2>2. /\ Turn = s /\ s \in Sessions /\ s # None
        /\ state = [id |-> s, status |-> "RUNNING"]
        /\ lock # None => job'[lock] = job[lock]
    <3>1. \A d \in Callers : d # c => job'[d] = job[d]
      BY <1>6 DEF FinishClose, Goto, TypeOK
    <3> QED
      BY <2>1, <3>1, TurnOfFinish, NoneAssumption DEF FinishPcs
  <2>3. UNCHANGED <<lock, state>>
    BY <1>6 DEF FinishClose, controller
  <2>4. Turn' = Turn
    BY <2>2, <2>3 DEF Turn, At, IsRunning
  <2>5. CASE UNCHANGED audit
    BY <2>3, <2>4, <2>5 DEF Promise!vars
  <2>6. CASE audit' = [audit EXCEPT ![s].final = status]
    <3>1. runtime = s /\ \A d \in Callers : job[d].pc \in FinishPcs => d = c
      BY <2>1, FinisherOwns DEF FinishPcs
    <3>2. audit[s].final = None
      BY <2>1, <2>2, <3>1 DEF WriteInv, Unwritten, FinishPcs
    <3>3. closed[s] = None /\ closed' = [closed EXCEPT ![s] = status]
      BY <2>2, <2>6, <3>2 DEF TypeOK, Dirs
    <3>4. {t \in Sessions : audit'[t].dir} = {t \in Sessions : audit[t].dir}
      BY <2>6 DEF TypeOK, Dirs
    <3>5. Promise!Close(status)
      BY <2>2, <2>3, <2>4, <3>3, <3>4 DEF Promise!Close, Promise!Running, Promise!Reported
    <3> QED
      BY <3>5 DEF Promise!Next, Promise!Terminal, Terminal
  <2> QED
    BY <1>6, <2>0, <2>5, <2>6 DEF FinishClose
<1>7. ASSUME NEW c \in Callers, FinishSeal(c)
      PROVE  Promise!Next
  <2>0. PICK status \in Terminal : status = job[c].status
    BY <1>7 DEF TypeOK, Jobs
  <2> DEFINE s == job[c].sid
  <2>1. job[c].pc = "seal"
    BY <1>7 DEF FinishSeal, At
  <2>2. /\ Turn = s /\ s \in Sessions /\ s # None
        /\ state = [id |-> s, status |-> "RUNNING"]
    BY <2>1, TurnOfFinish, NoneAssumption DEF FinishPcs
  <2>3. state # None
    BY <2>1, FinisherOwns DEF FinishPcs
  <2>4. lock' = None /\ UNCHANGED audit /\ state' = [state EXCEPT !.status = status]
    BY <1>7, <2>0, <2>2, <2>3 DEF FinishSeal, Unlocked
  <2>5. state' = [id |-> s, status |-> status]
    BY <2>2, <2>4
  <2>6. Turn' = None
    BY <2>4, <2>5 DEF Turn, IsRunning, Terminal
  <2>7. audit[s].final \in {None, status}
    BY <2>0, <2>1 DEF SealInv, Sealed
  <2>8. Promise!End(status)
    BY <2>2, <2>4, <2>5, <2>6, <2>7 DEF Promise!End, Promise!Running, Promise!Reported
  <2> QED
    BY <2>8 DEF Promise!Next, Promise!Terminal, Terminal
<1>8. ASSUME NEW c \in Callers,
             \/ FinishPoll(c) \/ FinishUpdate(c) \/ FinishFile(c) \/ FinishHalt(c)
             \/ FinishJoin(c) \/ FinishJoinTimeout(c) \/ FinishJoinRace(c)
             \/ FinishRaises(c) \/ FinishIncident(c)
      PROVE  UNCHANGED Promise!vars
  <2>1. job[c].pc \in FinishPcs /\ UNCHANGED <<lock, state, audit>>
    BY <1>8 DEF FinishPoll, FinishUpdate, FinishFile, FinishHalt, FinishJoin,
                FinishJoinTimeout, FinishJoinRace, FinishRaises, FinishIncident, At,
                FinishPcs, controller
  <2>2. \A d \in Callers : d # c => job'[d] = job[d]
    BY <1>8 DEF FinishPoll, FinishUpdate, FinishFile, FinishHalt, FinishJoin,
                FinishJoinTimeout, FinishJoinRace, FinishRaises, FinishIncident, Goto,
                Return, TypeOK
  <2>3. lock # None => lock \in Callers /\ lock # c
    BY <2>1, TurnOfFinish
  <2> QED
    BY <2>1, <2>2, <2>3, Unseen
<1>9. ASSUME NEW c \in Callers, NEW s \in Sessions, NEW status \in Terminal,
             FinishEnter(c, s, status)
      PROVE  UNCHANGED Promise!vars
  BY <1>9, Unseen DEF FinishEnter, controller, Unlocked
<1>10. ASSUME NEW c \in Callers, ShutdownBegin(c)
       PROVE  UNCHANGED Promise!vars
  <2>1. lock = None
    BY <1>10 DEF ShutdownBegin, Quiet, At, TypeOK, LiveInv, LockOwner, StartPcs
  <2> QED
    BY <1>10, <2>1, Unseen DEF ShutdownBegin
<1>11. ASSUME NEW s \in Sessions, Publish(s) \/ ThreadStep(s)
       PROVE  UNCHANGED Promise!vars
  <2>1. UNCHANGED <<lock, state, audit, job>>
    BY <1>11 DEF Publish, ThreadStep, WorkerTake, WorkerExit, QualityWake, QualityPoll,
                 ThreadUpdate, ThreadFile, controller
  <2> QED
    BY <2>1, Unseen
<1>12. CASE ShutdownHub \/ Stopped \/ UNCHANGED vars
  <2>1. UNCHANGED <<lock, state, audit, job>>
    BY <1>12 DEF ShutdownHub, Stopped, vars, controller
  <2> QED
    BY <2>1, Unseen
<1> QED
  BY <1>1, <1>2, <1>3, <1>4, <1>5, <1>6, <1>7, <1>8, <1>9, <1>10, <1>11, <1>12
  DEF Next, CallerStep

\* As long as no two callers finish one session at a time, the controller implements
\* a workstation: sessions take turns, each id is used once, and what is reported of
\* a session agrees with its final.json.
THEOREM ImplementsWorkstation == Spec /\ []~overlapped => TakesTurns
<1>1. Spec => []LiveInv
  BY TypeCorrect, LiveInit, LiveStep, PTL DEF Spec
<1>2. Spec => []WriteInv
  BY TypeCorrect, <1>1, WriteInit, WriteStep, PTL DEF Spec
<1>3. Spec => []SealInv
  BY TypeCorrect, <1>1, <1>2, SealInit, SealStep, PTL DEF Spec
<1> QED
  BY TypeCorrect, <1>1, <1>2, <1>3, PromiseInit, PromiseStep, PTL
  DEF Spec, TakesTurns, Promise!Spec
=============================================================================
