--------------------------- MODULE CameraGateway ---------------------------
(***************************************************************************)
(* The service's lifespan (start_hub and shutdown) and the camera threads  *)
(* of ThreadedLiveGateway, with the state each camera has in the health    *)
(* registry.  The lifespan loads the models, warms them up, starts one     *)
(* thread per camera, and in the end stops them: it sets the stop event,   *)
(* joins every thread for at most three seconds, closes the cameras and    *)
(* reports them STOPPED.                                                   *)
(*                                                                         *)
(* A camera is outside the program: it sends frames (as all do at first),  *)
(* is down, or hangs, in which case whoever opens or reads its stream      *)
(* waits.  A stream that was open when its camera went down stays broken   *)
(* until it is closed.                                                     *)
(*                                                                         *)
(* What becomes of a frame is the subject of FrameFlow.  A definition      *)
(* named <Action>_<Bug> is that action with a plausible bug, and used by   *)
(* the mutation runs only.                                                 *)
(***************************************************************************)
EXTENDS Naturals, FiniteSets

CONSTANTS Cameras,       \* the enabled cameras of the manifest
          WarmupEnabled, \* model_warmup.enabled
          Bounds         \* bounds on what happens outside the program: the
                         \* changes of the cameras and, for Readiness, those of
                         \* the stores and their use; a behaviour has one of them

ASSUME CameraAssumption == IsFiniteSet(Cameras) /\ Cameras # {}
ASSUME WarmupAssumption == WarmupEnabled \in BOOLEAN
ASSUME BoundAssumption == Bounds \subseteq [cameras : Nat, stores : Nat, uses : Nat]

VARIABLES
  service, \* where the lifespan is
  todo,    \* the cameras its current loop has still to visit
  pool,    \* _loaded and _warmup.status of the model pool
  hub,     \* _running of the hub
  stop,    \* the gateway's stop event
  late,    \* history: a join gave up
  source,  \* the cameras themselves
  left,    \* what the bounds leave to happen
  thread,  \* where each camera's thread is
  reader,  \* its capture: closed, open, or open on a dead stream
  health   \* its state in the health registry

lifespan == <<service, todo, pool, hub, stop, late>>
world == <<source, left>>
cameraThreads == <<thread, reader, health>>
gatewayVars == <<lifespan, world, cameraThreads>>

Init ==
  /\ service = "load"
  /\ todo = {}
  /\ pool = [loaded |-> FALSE,
             warmup |-> IF WarmupEnabled THEN "NOT_RUN" ELSE "DISABLED"]
  /\ hub = FALSE /\ stop = FALSE /\ late = FALSE
  /\ source = [c \in Cameras |-> "up"]
  /\ left \in Bounds
  /\ thread = [c \in Cameras |-> "none"]
  /\ reader = [c \in Cameras |-> "closed"]
  /\ health = [c \in Cameras |-> "STARTING"]

(***************************************************************************)
(* Outside the program.                                                    *)
(***************************************************************************)
Spend(what) == left[what] > 0 /\ left' = [left EXCEPT ![what] = @ - 1]

SourceChanges(c, new) ==
  /\ new # source[c]
  /\ Spend("cameras")
  /\ source' = [source EXCEPT ![c] = new]
  /\ reader' = [reader EXCEPT ![c] =
       IF new = "down" /\ @ = "open" THEN "broken" ELSE @]
  /\ UNCHANGED <<lifespan, thread, health>>

(***************************************************************************)
(* The lifespan: start_hub(), then the service is up, then shutdown().     *)
(***************************************************************************)
\* pool.load() loads both models or raises, and then the service never starts.
LoadModels ==
  /\ service = "load"
  /\ \/ /\ pool' = [pool EXCEPT !.loaded = TRUE]
        /\ service' = IF WarmupEnabled THEN "warmup" ELSE "hub"
     \/ service' = "failed" /\ UNCHANGED pool
  /\ UNCHANGED <<todo, hub, stop, late, world, cameraThreads>>

WarmupBegins ==
  /\ service = "warmup"
  /\ pool' = [pool EXCEPT !.warmup = "RUNNING"]
  /\ service' = "infer"
  /\ UNCHANGED <<todo, hub, stop, late, world, cameraThreads>>

\* A warmup that fails is only recorded: the service starts all the same.
WarmupEnds ==
  /\ service = "infer"
  /\ \E result \in {"PASS", "FAIL"} : pool' = [pool EXCEPT !.warmup = result]
  /\ service' = "hub"
  /\ UNCHANGED <<todo, hub, stop, late, world, cameraThreads>>

StartHub ==
  /\ service = "hub"
  /\ hub' = TRUE
  /\ todo' = Cameras
  /\ service' = "cameras"
  /\ UNCHANGED <<pool, stop, late, world, cameraThreads>>

StartCamera(c) ==
  /\ service = "cameras" /\ c \in todo
  /\ health' = [health EXCEPT ![c] = "STARTING"]
  /\ thread' = [thread EXCEPT ![c] = "loop"]
  /\ todo' = todo \ {c}
  /\ service' = IF todo' = {} THEN "up" ELSE "cameras"
  /\ UNCHANGED <<pool, hub, stop, late, world, reader>>

\* The camera factory raises: the threads started so far are left alone, and
\* the service never starts.
StartCameraFails ==
  /\ service = "cameras"
  /\ hub' = FALSE
  /\ todo' = {}
  /\ service' = "failed"
  /\ UNCHANGED <<pool, stop, late, world, cameraThreads>>

StopHub ==
  /\ service = "up"
  /\ hub' = FALSE
  /\ service' = "stop"
  /\ UNCHANGED <<todo, pool, stop, late, world, cameraThreads>>

StopGateway ==
  /\ service = "stop"
  /\ stop' = TRUE
  /\ todo' = Cameras
  /\ service' = "join"
  /\ UNCHANGED <<pool, hub, late, world, cameraThreads>>

Joined(c) ==
  /\ service = "join" /\ c \in todo
  /\ todo' = IF todo = {c} THEN Cameras ELSE todo \ {c}
  /\ service' = IF todo = {c} THEN "close" ELSE "join"

\* Bug: the thread is not waited for.
Join_NoWait(c) ==
  /\ Joined(c)
  /\ UNCHANGED <<pool, hub, stop, late, world, cameraThreads>>

Join(c) ==
  /\ Joined(c)
  /\ thread[c] = "done"
  /\ UNCHANGED <<pool, hub, stop, late, world, cameraThreads>>

\* Bug: join() without a timeout.
JoinTimesOut_Waits(c) ==
  /\ Joined(c)
  /\ thread[c] = "done"
  /\ UNCHANGED <<pool, hub, stop, late, world, cameraThreads>>

\* join(timeout=3.0) gives up on a thread that waits for its camera, or for the
\* callback.  stop() does not look whether it did.
JoinTimesOut(c) ==
  /\ Joined(c)
  /\ thread[c] # "done"
  /\ late' = TRUE
  /\ UNCHANGED <<pool, hub, stop, world, cameraThreads>>

CloseCamera(c) ==
  /\ service = "close" /\ c \in todo
  /\ reader' = [reader EXCEPT ![c] = "closed"]
  /\ health' = [health EXCEPT ![c] = "STOPPED"]
  /\ todo' = todo \ {c}
  /\ service' = IF todo' = {} THEN "stopped" ELSE "close"
  /\ UNCHANGED <<pool, hub, stop, late, world, thread>>

(***************************************************************************)
(* _run_camera(), one thread per camera.                                   *)
(***************************************************************************)
Goto(c, pc) == thread' = [thread EXCEPT ![c] = pc]

\* The loop's condition, and the beginning of read().
BeginRead(c) ==
  /\ thread[c] = "loop"
  /\ Goto(c, CASE stop -> "done"
               [] ~stop /\ reader[c] = "closed" -> "opening"
               [] OTHER -> "reading")
  /\ UNCHANGED <<lifespan, world, reader, health>>

OpenEnds(c) ==
  /\ thread[c] = "opening" /\ source[c] # "hung"
  /\ IF source[c] = "up"
     THEN reader' = [reader EXCEPT ![c] = "open"] /\ Goto(c, "reading")
     ELSE UNCHANGED reader /\ Goto(c, "failed")
  /\ UNCHANGED <<lifespan, world, health>>

\* A frame: camera_frame(), then push() and the callback.
ReadFrame(c) ==
  /\ thread[c] = "reading" /\ source[c] = "up" /\ reader[c] = "open"
  /\ health' = [health EXCEPT ![c] = "ONLINE"]
  /\ Goto(c, "loop")
  /\ UNCHANGED <<lifespan, world, reader>>

\* The stream is dead, was closed underneath, or gives no sample in time.
ReadFails(c) ==
  /\ thread[c] = "reading" /\ source[c] # "hung" /\ reader[c] # "open"
  /\ Goto(c, "failed")
  /\ UNCHANGED <<lifespan, world, reader, health>>

CameraError(c) ==
  /\ thread[c] = "failed"
  /\ health' = [health EXCEPT ![c] = "DEGRADED"]
  /\ Goto(c, "close")
  /\ UNCHANGED <<lifespan, world, reader>>

\* Bug: the next read is left to find the dead stream.
CloseStream_Kept(c) ==
  /\ thread[c] = "close"
  /\ Goto(c, IF stop THEN "done" ELSE "reconnect")
  /\ UNCHANGED <<lifespan, world, reader, health>>

CloseStream(c) ==
  /\ thread[c] = "close"
  /\ reader' = [reader EXCEPT ![c] = "closed"]
  /\ Goto(c, IF stop THEN "done" ELSE "reconnect")
  /\ UNCHANGED <<lifespan, world, health>>

Reconnecting(c) ==
  /\ thread[c] = "reconnect"
  /\ health' = [health EXCEPT ![c] = "RECONNECTING"]
  /\ Goto(c, "wait")
  /\ UNCHANGED <<lifespan, world, reader>>

\* The backoff is over, or the stop event cuts it short.
WaitEnds(c) ==
  /\ thread[c] = "wait"
  /\ Goto(c, "loop")
  /\ UNCHANGED <<lifespan, world, reader, health>>

\* The lifespan on its way up, and on its way down.
Starting ==
  \/ LoadModels \/ WarmupBegins \/ WarmupEnds \/ StartHub
  \/ \E c \in Cameras : StartCamera(c)
  \/ StartCameraFails

Stopping ==
  \/ StopGateway
  \/ \E c \in Cameras : Join(c) \/ JoinTimesOut(c) \/ CloseCamera(c)

Thread(c) ==
  \/ BeginRead(c) \/ OpenEnds(c) \/ ReadFrame(c) \/ ReadFails(c)
  \/ CameraError(c) \/ CloseStream(c) \/ Reconnecting(c) \/ WaitEnds(c)

GatewayNext ==
  \/ Starting \/ StopHub \/ Stopping
  \/ \E c \in Cameras :
       \/ Thread(c)
       \/ \E new \in {"up", "down", "hung"} : SourceChanges(c, new)

GatewaySpec == Init /\ [][GatewayNext]_gatewayVars

(***************************************************************************)
(* Properties.                                                             *)
(***************************************************************************)
\* Every variable keeps its type.
GatewayTypeOK ==
  /\ service \in {"load", "warmup", "infer", "hub", "cameras", "up", "stop",
                  "join", "close", "stopped", "failed"}
  /\ todo \subseteq Cameras
  /\ pool \in [loaded : BOOLEAN, warmup : {"DISABLED", "NOT_RUN", "RUNNING",
                                          "PASS", "FAIL"}]
  /\ {hub, stop, late} \subseteq BOOLEAN
  /\ source \in [Cameras -> {"up", "down", "hung"}]
  /\ left \in [cameras : Nat, stores : Nat, uses : Nat]
  /\ thread \in [Cameras -> {"none", "loop", "opening", "reading", "failed",
                             "close", "reconnect", "wait", "done"}]
  /\ reader \in [Cameras -> {"closed", "open", "broken"}]
  /\ health \in [Cameras -> {"STARTING", "ONLINE", "DEGRADED", "RECONNECTING",
                             "STOPPED"}]

\* When stop() returns and no join gave up, every thread has ended, every
\* stream is closed and every camera reported STOPPED, for good: no thread
\* opens its stream again, or reports a state, behind the back of stop().
StoppedStays ==
  service = "stopped" /\ ~late =>
    \A c \in Cameras :
      thread[c] = "done" /\ reader[c] = "closed" /\ health[c] = "STOPPED"

\* A camera that is up and stays up comes back online, from whatever broke its
\* stream before and however often.
Recovers ==
  \A c \in Cameras : <>[](service = "up" /\ source[c] = "up")
                      => <>[](health[c] = "ONLINE")

\* Shutting down never waits for a camera that hangs.
StopReturns == service = "stop" ~> service = "stopped"
=============================================================================
