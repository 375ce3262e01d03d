------------------------- MODULE SessionController -------------------------
(***************************************************************************)
(* The lifecycle of live sessions: PersistentLiveSessionController and the *)
(* SessionAnalysisRuntime it starts and stops.                             *)
(*                                                                         *)
(* FastAPI runs the synchronous endpoints on a thread pool, so Callers are *)
(* concurrent threads inside one controller.  Each session's runtime owns  *)
(* an inference worker and a quality thread; both report through the       *)
(* controller's _handle_update, which attributes an update to whatever     *)
(* session _state names at that moment.  The controller lock is held for   *)
(* the whole of start() but only at the two ends of _finish().             *)
(* The calls into the query store never raise and nothing here reads their *)
(* outcome: they are the subject of Persistence, and so are crashes.       *)
(*                                                                         *)
(* A definition named <Action>_<Bug> is that action with a plausible bug.  *)
(* Nothing uses it but the mutation runs, which must find a property that  *)
(* it breaks.                                                              *)
(***************************************************************************)
EXTENDS Naturals

CONSTANTS Callers,     \* HTTP worker threads
          Sessions,    \* session ids a request may carry
          None,        \* Python's None
          QueueSize    \* processing_queue_size

Terminal == {"COMPLETED", "ABORTED"}
Status == Terminal \cup {"RUNNING"}

\* None is none of the values it stands beside.
ASSUME NoneAssumption ==
  None \notin Callers \cup Sessions \cup Status \cup [id : Sessions, status : Status]
ASSUME QueueAssumption == QueueSize \in Nat \ {0}

Kinds == {"worker", "quality"}

VARIABLES
  lock,       \* holder of the controller lock, where it keeps it over a step
  hub,        \* hub.running
  closing,    \* the lifespan has begun shutdown()
  runtime,    \* _runtime: the session whose runtime it is, or None
  state,      \* _state: [id, status], or None
  job,        \* what each caller is executing
  wiring,     \* per runtime: subscribed to the hub, _stop set, threads joined
  thread,     \* per runtime: its two threads
  backlog,    \* per runtime: frame sets in its bounded queue
  audit,      \* per session: the audit directory and final.json's status
  overlapped, \* history: two callers were finishing one session at a time
  late,       \* history: sessions with a join that timed out
  misfiled,   \* history: runtimes whose update went to another session
  afterFinal  \* history: runtimes whose update followed a final.json

controller == <<lock, hub, closing, runtime, state>>
analysis == <<wiring, thread, backlog>>
history == <<overlapped, late, misfiled, afterFinal>>
vars == <<controller, job, analysis, audit, history>>

Idle == [pc |-> "idle", sid |-> None, status |-> "ABORTED", target |-> None]

StartPcs == {"reserve", "launch"}
FinishPcs == {"poll", "update", "file", "halt", "join", "close", "incident", "seal"}
Active == {"run", "want", "update", "file"}
ThreadPcs == Active \cup {"none", "exited"}

Goto(c, pc) == job' = [job EXCEPT ![c].pc = pc]
Return(c) == job' = [job EXCEPT ![c] = Idle]
At(c, pc) == job[c].pc = pc

Finishing(s) == {c \in Callers : job[c].pc \in FinishPcs /\ job[c].sid = s}
IsRunning == state # None /\ state.status = "RUNNING"
\* Bug: only the inference worker is joined.
Joinable_WorkerOnly(s) == thread[s]["worker"].pc \notin Active
Joinable(s) == \A k \in Kinds : thread[s][k].pc \notin Active

\* _quality_poll_lock of the runtime of s is held by one of these threads.
QualityPolling(s) ==
  \/ thread[s]["quality"].pc \in {"update", "file"}
  \/ \E c \in Finishing(s) : At(c, "update") \/ At(c, "file")

\* Bug: the controller lock is held while the threads are joined.
Unlocked_Joining == lock = None /\ \A c \in Callers : ~At(c, "join")

\* Nobody holds the controller lock.
Unlocked == lock = None

Init ==
  /\ lock = None /\ hub = TRUE /\ closing = FALSE
  /\ runtime = None /\ state = None
  /\ job = [c \in Callers |-> Idle]
  /\ wiring = [s \in Sessions |->
                 [subscribed |-> FALSE, stop |-> FALSE, joined |-> FALSE]]
  /\ thread = [s \in Sessions |->
                 [k \in Kinds |-> [pc |-> "none", target |-> None]]]
  /\ backlog = [s \in Sessions |-> 0]
  /\ audit = [s \in Sessions |-> [dir |-> FALSE, final |-> None]]
  /\ overlapped = FALSE
  /\ late = {} /\ misfiled = {} /\ afterFinal = {}

(***************************************************************************)
(* _handle_update: a thread or a finishing caller that has an update waits *)
(* for the lock at "update", and takes it to read _state (Target); without *)
(* the lock it then appends to the audit, schedules evidence and records   *)
(* in the query store (File).  Kept of that: that it went to another       *)
(* session's files, or to files already closed.  A failed append is        *)
(* swallowed and leaves nothing.  The histories leave out runtimes whose   *)
(* join timed out.  A poll reports one incident at most.                   *)
(***************************************************************************)
Target == IF state = None THEN None ELSE state.id

File(origin, target) ==
  /\ misfiled' = misfiled \cup ({origin} \ ({target} \cup late))
  /\ afterFinal' = IF audit[target].final # None
                   THEN afterFinal \cup ({origin} \ late) ELSE afterFinal

(***************************************************************************)
(* start(): the checks, the audit directory and the launch all happen      *)
(* under the controller lock.                                              *)
(***************************************************************************)
StartEnter(c, s) ==
  /\ At(c, "idle") /\ ~closing /\ Unlocked
  /\ lock' = c
  /\ job' = [job EXCEPT ![c] = [Idle EXCEPT !.pc = "reserve", !.sid = s]]
  /\ UNCHANGED <<hub, closing, runtime, state, analysis, audit, history>>

\* Bug: a second session may start beside the running one.
StartReserve_NoCheck(c) ==
  LET s == job[c].sid IN
  /\ At(c, "reserve") /\ hub
  /\ ~audit[s].dir
  /\ audit' = [audit EXCEPT ![s].dir = TRUE]
  /\ Goto(c, "launch")
  /\ UNCHANGED <<controller, analysis, history>>

\* Bug: mkdir(exist_ok=True) accepts the directory of an earlier session.
StartReserve_Reuse(c) ==
  /\ At(c, "reserve") /\ hub /\ ~IsRunning
  /\ audit' = [audit EXCEPT ![job[c].sid].dir = TRUE]
  /\ Goto(c, "launch")
  /\ UNCHANGED <<controller, analysis, history>>

\* audit.start() makes the directory and writes the metadata.
StartReserve(c) ==
  LET s == job[c].sid IN
  /\ At(c, "reserve") /\ hub /\ ~IsRunning
  /\ ~audit[s].dir
  /\ audit' = [audit EXCEPT ![s].dir = TRUE]
  /\ Goto(c, "launch")
  /\ UNCHANGED <<controller, analysis, history>>

\* A check or building the runtime fails, mkdir(exist_ok=False) refuses a used id,
\* or the writes fail after it.
StartRefused(c) ==
  LET s == job[c].sid IN
  /\ At(c, "reserve")
  /\ \/ UNCHANGED audit
     \/ hub /\ ~IsRunning /\ audit' = [audit EXCEPT ![s].dir = TRUE]
  /\ lock' = None
  /\ Return(c)
  /\ UNCHANGED <<hub, closing, runtime, state, analysis, history>>

\* runtime.start(): both threads start, then the hub subscription.
StartLaunch(c) ==
  LET s == job[c].sid IN
  /\ At(c, "launch") /\ hub
  /\ runtime' = s
  /\ state' = [id |-> s, status |-> "RUNNING"]
  /\ thread' = [thread EXCEPT ![s] = [k \in Kinds |-> [@[k] EXCEPT !.pc = "run"]]]
  /\ wiring' = [wiring EXCEPT ![s].subscribed = TRUE]
  /\ lock' = None
  /\ Return(c)
  /\ UNCHANGED <<hub, closing, backlog, audit, history>>

\* runtime.start() raises, before or after its worker thread was started (which
\* nobody stops then); the session is closed as ABORTED unless that fails too.
StartFails(c) ==
  LET s == job[c].sid IN
  /\ At(c, "launch")
  /\ runtime' = None
  /\ state' = None
  /\ \/ UNCHANGED thread
     \/ thread' = [thread EXCEPT ![s]["worker"].pc = "run"]
  /\ \/ UNCHANGED audit
     \/ audit' = [audit EXCEPT ![s].final = "ABORTED"]
  /\ lock' = None
  /\ Return(c)
  /\ UNCHANGED <<hub, closing, wiring, backlog, history>>

(***************************************************************************)
(* The camera thread publishes a frame set to the subscribed runtime; when *)
(* its queue is full the oldest one is dropped and the length stays.       *)
(***************************************************************************)
Publish(s) ==
  /\ hub /\ wiring[s].subscribed
  /\ backlog[s] < QueueSize
  /\ backlog' = [backlog EXCEPT ![s] = @ + 1]
  /\ UNCHANGED <<controller, job, wiring, thread, audit, history>>

(***************************************************************************)
(* The two threads of a runtime.                                           *)
(***************************************************************************)
StepThread(s, k, pc) == thread' = [thread EXCEPT ![s][k].pc = pc]

\* A frame set stays in backlog until it is analysed.  Its update then goes to
\* _handle_update, unless analysis failed, which is counted and swallowed.
WorkerTake(s) ==
  /\ thread[s]["worker"].pc = "run" /\ backlog[s] > 0
  /\ backlog' = [backlog EXCEPT ![s] = @ - 1]
  /\ UNCHANGED thread \/ StepThread(s, "worker", "update")
  /\ UNCHANGED <<controller, job, wiring, audit, history>>

WorkerExit(s) ==
  /\ thread[s]["worker"].pc = "run"
  /\ wiring[s].stop /\ backlog[s] = 0
  /\ StepThread(s, "worker", "exited")
  /\ UNCHANGED <<controller, job, wiring, backlog, audit, history>>

\* The stop flag is read before the poll lock is taken.
QualityWake(s) ==
  /\ thread[s]["quality"].pc = "run"
  /\ StepThread(s, "quality", IF wiring[s].stop THEN "exited" ELSE "want")
  /\ UNCHANGED <<controller, job, wiring, backlog, audit, history>>

QualityPoll(s) ==
  /\ thread[s]["quality"].pc = "want" /\ ~QualityPolling(s)
  /\ \E pc \in {"update", "run"} : StepThread(s, "quality", pc)
  /\ UNCHANGED <<controller, job, wiring, backlog, audit, history>>

\* _handle_update without a session returns at once.
ThreadUpdate(s, k) ==
  /\ thread[s][k].pc = "update" /\ Unlocked
  /\ thread' = [thread EXCEPT ![s][k] =
                  [pc |-> IF state = None THEN "run" ELSE "file",
                   target |-> Target]]
  /\ UNCHANGED <<controller, job, wiring, backlog, audit, history>>

\* An error of schedule_evidence leaves _handle_update: the worker swallows it,
\* the quality thread dies of it.
ThreadFile(s, k) ==
  /\ thread[s][k].pc = "file"
  /\ File(s, thread[s][k].target)
  /\ \E pc \in IF k = "quality" THEN {"run", "exited"} ELSE {"run"} :
       thread' = [thread EXCEPT ![s][k] = [pc |-> pc, target |-> None]]
  /\ UNCHANGED <<controller, job, wiring, backlog, audit, overlapped, late>>

(***************************************************************************)
(* _finish(): stop() and abort().                                          *)
(***************************************************************************)
FinishEnter(c, s, status) ==
  /\ At(c, "idle") /\ ~closing /\ Unlocked
  /\ runtime # None /\ state # None /\ state.id = s
  /\ job' = [job EXCEPT ![c] = [pc |-> "poll", sid |-> s, status |-> status,
                                target |-> None]]
  /\ overlapped' = (overlapped \/ Finishing(s) # {})
  /\ UNCHANGED <<controller, analysis, audit, late, misfiled, afterFinal>>

\* runtime.poll_quality_once() on the caller's own thread.
FinishPoll(c) ==
  /\ At(c, "poll") /\ ~QualityPolling(job[c].sid)
  /\ \E pc \in {"update", "halt"} : Goto(c, pc)
  /\ UNCHANGED <<controller, analysis, audit, history>>

FinishUpdate(c) ==
  /\ At(c, "update") /\ Unlocked
  /\ job' = [job EXCEPT ![c].pc = IF state = None THEN "halt" ELSE "file",
                        ![c].target = Target]
  /\ UNCHANGED <<controller, analysis, audit, history>>

\* An error here leaves _finish with the session still RUNNING.
FinishFile(c) ==
  /\ At(c, "file")
  /\ File(job[c].sid, job[c].target)
  /\ \/ job' = [job EXCEPT ![c].pc = "halt", ![c].target = None]
     \/ Return(c)
  /\ UNCHANGED <<controller, analysis, audit, overlapped, late>>

\* Bug: the runtime is unsubscribed but its threads are not joined.
FinishHalt_NoJoin(c) ==
  /\ At(c, "halt")
  /\ wiring' = [wiring EXCEPT ![job[c].sid].subscribed = FALSE,
                              ![job[c].sid].stop = TRUE]
  /\ Goto(c, "close")
  /\ UNCHANGED <<controller, thread, backlog, audit, history>>

\* runtime.stop(): unsubscribe, then the stop event.
FinishHalt(c) ==
  /\ At(c, "halt")
  /\ wiring' = [wiring EXCEPT ![job[c].sid].subscribed = FALSE,
                              ![job[c].sid].stop = TRUE]
  /\ Goto(c, "join")
  /\ UNCHANGED <<controller, thread, backlog, audit, history>>

\* join(): the threads have exited, or another caller already joined them and
\* cleared the references.
FinishJoin(c) ==
  LET s == job[c].sid IN
  /\ At(c, "join")
  /\ Joinable(s) \/ wiring[s].joined
  /\ wiring' = [wiring EXCEPT ![s].joined = TRUE]
  /\ Goto(c, "close")
  /\ UNCHANGED <<controller, thread, backlog, audit, history>>

\* join(timeout=5.0) gives up on a thread that is still active.
FinishJoinTimeout(c) ==
  LET s == job[c].sid IN
  /\ At(c, "join")
  /\ ~Joinable(s)
  /\ wiring' = [wiring EXCEPT ![s].joined = TRUE]
  /\ late' = late \cup {s}
  /\ Goto(c, "close")
  /\ UNCHANGED <<controller, thread, backlog, audit, overlapped, misfiled,
                 afterFinal>>

\* Between the test "_worker is not None" and its use another caller cleared it.
FinishJoinRace(c) ==
  /\ At(c, "join") /\ wiring[job[c].sid].joined
  /\ Return(c)
  /\ UNCHANGED <<controller, analysis, audit, history>>

\* Schedule the last evidence and write final.json; when that write fails the
\* incident is recorded first.
FinishClose(c) ==
  LET s == job[c].sid IN
  /\ At(c, "close")
  /\ \/ audit' = [audit EXCEPT ![s].final = job[c].status] /\ Goto(c, "seal")
     \/ UNCHANGED audit /\ Goto(c, "incident")
  /\ UNCHANGED <<controller, analysis, history>>

\* schedule_evidence raises: the session stays RUNNING.
FinishRaises(c) ==
  /\ At(c, "close")
  /\ Return(c)
  /\ UNCHANGED <<controller, analysis, audit, history>>

\* The event callback is read under the lock; it may raise like the evidence.
FinishIncident(c) ==
  /\ At(c, "incident") /\ Unlocked
  /\ Goto(c, "seal") \/ Return(c)
  /\ UNCHANGED <<controller, analysis, audit, history>>

\* The closing section never checks that _state is still the session it began
\* with; only its absence raises.
FinishSeal(c) ==
  /\ At(c, "seal") /\ Unlocked
  /\ IF state = None THEN UNCHANGED <<runtime, state>>
     ELSE /\ state' = [state EXCEPT !.status = job[c].status]
          /\ runtime' = None
  /\ Return(c)
  /\ UNCHANGED <<lock, hub, closing, analysis, audit, history>>

(***************************************************************************)
(* shutdown(): the server drains its requests first, then the lifespan     *)
(* aborts the running session and stops the hub.                           *)
(***************************************************************************)
Quiet == \A c \in Callers : At(c, "idle")

ShutdownBegin(c) ==
  /\ Quiet /\ ~closing
  /\ closing' = TRUE
  /\ job' = IF IsRunning /\ runtime # None
            THEN [job EXCEPT ![c] = [pc |-> "poll", sid |-> state.id,
                                     status |-> "ABORTED", target |-> None]]
            ELSE job
  /\ UNCHANGED <<lock, hub, runtime, state, analysis, audit, history>>

\* Bug: the hub is stopped before the session is aborted.
ShutdownHub_Early ==
  /\ closing /\ hub
  /\ hub' = FALSE
  /\ UNCHANGED <<lock, closing, runtime, state, job, analysis, audit, history>>

ShutdownHub ==
  /\ closing /\ Quiet /\ hub /\ ~IsRunning
  /\ hub' = FALSE
  /\ UNCHANGED <<lock, closing, runtime, state, job, analysis, audit, history>>

\* After shutdown() returned, or raised, the process is gone.
Stopped == closing /\ Quiet /\ UNCHANGED vars

CallerStep(c) ==
  \/ StartReserve(c) \/ StartRefused(c) \/ StartLaunch(c) \/ StartFails(c)
  \/ FinishPoll(c) \/ FinishUpdate(c) \/ FinishFile(c) \/ FinishHalt(c)
  \/ FinishJoin(c) \/ FinishJoinRace(c) \/ FinishClose(c) \/ FinishRaises(c)
  \/ FinishIncident(c) \/ FinishSeal(c)

ThreadStep(s) ==
  \/ WorkerTake(s) \/ WorkerExit(s) \/ QualityWake(s) \/ QualityPoll(s)
  \/ \E k \in Kinds : ThreadUpdate(s, k) \/ ThreadFile(s, k)

Next ==
  \/ \E c \in Callers :
       \/ \E s \in Sessions : StartEnter(c, s)
       \/ \E s \in Sessions, status \in Terminal : FinishEnter(c, s, status)
       \/ CallerStep(c) \/ FinishJoinTimeout(c) \/ ShutdownBegin(c)
  \/ \E s \in Sessions : Publish(s) \/ ThreadStep(s)
  \/ ShutdownHub
  \/ Stopped

Spec == Init /\ [][Next]_vars

(***************************************************************************)
(* Fairness: a thread that can go on eventually does.  A lock is handed to *)
(* a waiter even when others keep taking it, hence strong fairness.  No    *)
(* step that waits for a lock has an alternative that does not: at every   *)
(* place of a thread or a caller all its steps need the same lock.         *)
(* Nothing is assumed about the five second join timeout.                  *)
(***************************************************************************)
Fairness ==
  /\ \A c \in Callers : SF_vars(CallerStep(c))
  /\ \A s \in Sessions :
       /\ WF_vars(WorkerTake(s)) /\ WF_vars(WorkerExit(s))
       /\ WF_vars(QualityWake(s)) /\ SF_vars(QualityPoll(s))
       /\ \A k \in Kinds : SF_vars(ThreadUpdate(s, k)) /\ WF_vars(ThreadFile(s, k))

FairSpec == Spec /\ Fairness

(***************************************************************************)
(* Properties.                                                             *)
(***************************************************************************)
Jobs == [pc : {"idle"} \cup StartPcs \cup FinishPcs,
         sid : Sessions \cup {None}, status : Terminal,
         target : Sessions \cup {None}]
States == [id : Sessions, status : Status]
Wirings == [subscribed : BOOLEAN, stop : BOOLEAN, joined : BOOLEAN]
Threads == [Kinds -> [pc : ThreadPcs, target : Sessions \cup {None}]]
Dirs == [dir : BOOLEAN, final : Terminal \cup {None}]

\* Every variable keeps its type.
TypeOK ==
  /\ lock \in Callers \cup {None}
  /\ hub \in BOOLEAN /\ closing \in BOOLEAN
  /\ runtime \in Sessions \cup {None}
  /\ state \in States \cup {None}
  /\ job \in [Callers -> Jobs]
  /\ wiring \in [Sessions -> Wirings]
  /\ thread \in [Sessions -> Threads]
  /\ backlog \in [Sessions -> 0 .. QueueSize]
  /\ audit \in [Sessions -> Dirs]
  /\ overlapped \in BOOLEAN
  /\ late \subseteq Sessions
  /\ misfiled \subseteq Sessions
  /\ afterFinal \subseteq Sessions

Live(s) == wiring[s].subscribed

\* shutdown() stops the hub only when no runtime is analysing its frames.
HubOutlivesRuntimes == ~overlapped /\ ~hub => \A s \in Sessions : ~Live(s)

\* The camera hub document: the controller allows one RUNNING session per
\* workstation.  Refuted: a second, overlapping stop of the previous session
\* ends the session that was started in between and forgets its runtime, so
\* that the next start finds nothing running.
OneLiveSession == \A s, t \in Sessions : Live(s) /\ Live(t) => s = t

\* As long as no session was being finished by two callers at a time, a runtime
\* that receives frames is the one the controller holds, whatever starts,
\* failures and timeouts happen around it.
LiveIsCurrent ==
  ~overlapped => \A s \in Sessions : Live(s) => runtime = s /\ IsRunning

\* An update is filed under the session whose runtime made it, although
\* _handle_update looks the session up when the update arrives: only a thread
\* that outlived its join, or an overlapping finish, can file it elsewhere.
FiledUnderOwner ==
  ~overlapped => misfiled = {}

\* No update reaches the audit after final.json was written, since the threads
\* are joined first; only a thread that outlived its join can add one.
NothingAfterFinal == ~overlapped => afterFinal = {}

\* The final.json of a session is written once: a stop that failed half way and
\* was retried, or a start that failed, never replaces it.
FinalWrittenOnce ==
  [][\A s \in Sessions : audit[s].final # None /\ ~overlapped'
       => audit'[s].final = audit[s].final]_vars

\* The session that has the turn: the one start() has reserved, or the running
\* one.
Turn ==
  IF lock # None /\ At(lock, "launch") THEN job[lock].sid
  ELSE IF IsRunning THEN state.id ELSE None

Promise == INSTANCE Workstation WITH
  turn <- Turn,
  opened <- {s \in Sessions : audit[s].dir},
  closed <- [s \in Sessions |-> audit[s].final],
  report <- state

\* Sessions take turns, each id is used once, and what the controller reports
\* of a session agrees with its final.json, whatever fails on the way and is
\* tried again.
TakesTurns == Promise!Spec

\* stop() and abort() return without relying on the join timeout: the thread
\* being joined never waits for something its joiner holds.
FinishReturns ==
  \A c \in Callers : (job[c].pc \in FinishPcs) ~> At(c, "idle")
=============================================================================
