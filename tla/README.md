# TLA+ models of the video-pose session service

The repository is a video compliance platform for one workstation: cameras are
read, synchronised and analysed live, actions are judged against rules, and
every session leaves an audit that survives crashes.  This directory holds
TLA+ models of the parts of that service whose correctness depends on the order
in which threads, failures and restarts happen, TLC configurations that check
them on small instances, and TLAPS proofs about them.

Source paths below are relative to `src/src/video_pose/`.

## 1. Inventory

### Components

| Component | State it keeps | Operations | Talks to |
|---|---|---|---|
| Session controller (`persistent_session_controller.py`) | `_runtime`, `_state`, the evidence, quality and rule results of the session, one lock | `start_hub`, `start`, `stop`, `abort`, `shutdown`, `review_violation`, `recover_incomplete_persistence_session`, `reconcile_persistence`, `_handle_update` | all below |
| Session runtime (`session_runtime.py`) | a bounded queue, two threads, `_stop`, `_quality_poll_lock`, drop and error counters | `start`, `stop`, `enqueue_frame_set`, `poll_quality_once` | hub (subscription), controller (`_handle_update`) |
| Session audit (`session_audit.py`) | per session: `metadata.json`, `updates.jsonl`, `reviews.jsonl`, `final.json`; whether its last write succeeded | `start`, `append_payload`, `append_review`, `finish`, `probe` | files only; it is the source of truth |
| Query store (`sql_repository.py`, `resilient_store.py`) | SQL rows; a connectivity status; the reconciliation status NEVER, READY, DIRTY, RUNNING, DEGRADED | `start_session`, `record_update`, `finalize`, `review_violation`, `delete_session`, `reconcile`, `probe` | the database, best effort |
| Reconciliation, reindex (`persistence_reconcile.py`, `reindex.py`) | none of their own | inspect a closed session, delete and replay it | audit files, query store |
| Crash recovery (`incomplete_recovery.py`) | none of its own | list sessions without `final.json`, write one as ABORTED | audit files, then reconciliation |
| Rules (`rules.py`, `realtime_rules.py`) | the events of a session and the last result | `add_event`, `tick`, `add_external_violation` | the runtime calls it |
| Quality guard (`session_quality.py`) | per condition: since when, emitted or not; baselines of cumulative counters | `poll` | camera health, frame store |
| Cameras (`live_gateway.py`, `live_video.py`, `live_health.py`, `persistent_camera.py`) | per camera a thread, a stream with its timestamp epoch, a health record, a bounded buffer; the synchronizer's last reference time | `start`, `stop`, read, reconnect with backoff, push, synchronize, subscribe | the hub publishes frame sets to runtimes and to the evidence |
| Evidence (`live_evidence.py`, `async_evidence.py`, `evidence_retention.py`) | a ring buffer, a recorder queue, pending captures, review overrides, packages on disk | `submit`, `ingest`, `schedule`, `mark_reviewed`, `flush_pending`, `cleanup` | audit (evidence updates) |
| Recognizers (`relations.py`, `fusion.py`, `baseline_action.py`, `tool_operation.py`, `zone_actions.py`, `dwell_action.py`) | per camera, object and hand the looks in a row; per object who holds it, which tool moves where, which zone it is in and since when | `enrich`, `ingest` on every frame set | their actions are the events of the rules |
| Models, readiness (`model_pool.py`, `session_readiness.py`) | loaded or not, the result of the warmup | `load`, `warmup`; a gate before `start` | everything whose health it reads |
| Service, broker, tickets (`live_service.py`, `live_broker.py`, `realtime_ticket.py`) | the last message and its sequence number; issued tickets with an expiry | the lifespan; `publish`, `wait_next`; `issue`, `consume` | controller, web console |
| Web console (`web_console_assets.py`) | one JavaScript object: current session, socket, timers, alerts, evidence cards | connect, refresh, poll, receive, finish, open a historical session, move a slider | HTTP and WebSocket endpoints |

The rest (inference and geometry, identities over time, offline replay,
acceptance tools, the legacy controller, command lines) is listed in
`PROJECT.json` with the reason it is left out.

### How they interact

* The lifespan loads and warms the models, starts the camera threads, and at the
  end ends the running session and stops the cameras.
* The HTTP endpoints are plain `def` functions, so FastAPI runs them on a thread
  pool: calls into the controller are concurrent.  The controller's lock is held
  for the whole of `start()` but only at both ends of `_finish()`.  The readiness
  gate runs before it, without any lock.
* The camera hub runs for the whole process; a session's runtime subscribes to
  it.  The thread of the reference camera synchronizes the frame sets and puts
  them into the runtime's queue, an inference thread takes them out and feeds
  recognizers and rules, a quality thread wakes on a timer, and both report
  through `_handle_update`, which looks up the current session again.
* An update goes to the audit first, then to evidence, then to SQL, and to the
  broker.  The audit is the truth; SQL errors are swallowed and remembered as a
  status that the gate reads before the next session may start.
* Reconciliation and recovery run on request threads, beside a running session
  and beside reviews.
* The console polls, and is pushed the broker's latest message; what it awaits
  comes back after whatever else happened meanwhile.

### What makes them correct

* One session at a time; what it produces is filed under it and under nobody
  else; nothing is filed once its `final.json` exists; `final.json` never changes.
* `stop()` does return although it joins threads that need locks; the hub outlives
  the runtimes fed by it; a stopped gateway stays stopped.
* A frame is never matched backwards: sets are published and analysed in the order
  of their times, no camera goes back, none is lost without being counted.
* The recognizers agree on what is held, and what they tell of an object makes
  sense in its order.
* What the rules have decided is sound and stays decided; the differences the two
  threads report add up to the result.
* An outage of a camera or a source has one incident, in time, and none is raised
  for faults older than the session.
* Evidence is complete, keeps its review, and goes only when it has one.
* A reconciliation status of READY means that SQL has what the audit has; a
  rebuild never damages a running session; the status becomes READY again after
  failures.
* A session starts, or is refused, for reasons that held during the call.
* Whatever answers overtake one another, a console that is shown ends up with the
  session the server has, a stream that is open, and each alert once.

### What is hard

Threads that outlive a `join` with a timeout, state that is read under a lock and
used after it, requests and answers that overtake each other, files and tables
that are written one after the other, transactions that fail half way, clocks
that start again, and processes that die in the middle of a write.  Every such
place is a hazard in `PROJECT.json`, at its line.

## 2. Modules

Every module's comments name what it abstracts; `PROJECT.json` maps each
definition to the lines it stands for.  A definition whose name is that of an
action followed by `_Something` (`FinishHalt_NoJoin`) is that action with a bug
planted in it.  The specifications do not use it: it is substituted in mutation
runs, which must find the property that the bug breaks.

### SessionController: the life of a session

`SessionController.tla` models `PersistentLiveSessionController` and
`SessionAnalysisRuntime` together, because the hard behaviour lies between them.

| Variable | In the code |
|---|---|
| `lock` | who holds `_lock` across several steps of `start()`; short critical sections are one step guarded by `Unlocked` |
| `hub`, `closing` | `hub.running`; the lifespan has called `shutdown()` |
| `runtime`, `state` | `_runtime` and `_state` (id and status only) |
| `job` | the frame of each request thread: where it is in `start`, `stop` or `abort`, with which arguments, and the session it read in `_handle_update` |
| `wiring`, `thread`, `backlog` | per runtime its subscription, `_stop` and `_worker is None`; its inference and quality threads; the length of its queue |
| `audit` | per session whether the directory exists, and the status in `final.json` |
| `overlapped`, `late`, `misfiled`, `afterFinal` | histories: two finishes of one session overlapped; joins that timed out; updates filed elsewhere, or after `final.json` |

`start()` is `StartEnter`, which takes the lock, `StartReserve` (or
`StartRefused`) with the checks and the directory, `StartLaunch` (or
`StartFails`).  `_finish()` is `FinishEnter`, `FinishPoll`, `FinishUpdate`,
`FinishFile`, `FinishHalt`, `FinishJoin` (or `...Timeout`, `...Race`),
`FinishClose` (or `FinishRaises`), `FinishIncident` when `final.json` could not be
written, `FinishSeal`: a step ends wherever another thread can get in.
`_handle_update` is two steps of whoever has an update: at `"update"` it waits for
the lock to read `_state` (`ThreadUpdate`, `FinishUpdate`), and everything after it
is `ThreadFile` or `FinishFile`.  A thread or a finisher that waits there has no
other step, so that a lock held for too long is seen as the deadlock it would be.  Frame contents, rule results and the SQL calls are left
out: the first two decide nothing here, the last is the next module.

`Workstation.tla` says in 30 lines what all this is for: sessions take turns, each
id is used once, a session runs, gets its `final.json` and gives up its turn, and
what `GET /session/current` reports agrees with the file.  `SessionController`
implements it (`TakesTurns`, an instance with a refinement mapping: the turn is
that of the session `start()` has reserved or of the running one) as long as no
two callers finish one session at a time.

### Persistence: files, rows, and the status that compares them

`Persistence.tla` models the writer of the running session, the reviewers, the
reconciliation passes, recovery and crashes, over two stores.

| Variable | In the code |
|---|---|
| `files` | per session: directory, the set of facts in `updates.jsonl`, whether a line of it is half written, status and facts of `final.json` (or `"torn"`), the last decision per violation in `reviews.jsonl` |
| `table` | per session: the `sessions` row's status (`None`: no row), its child rows, the decisions in them |
| `recon`, `busy` | status of `ReconciliationHealth`; `_reconcile_lock` |
| `writer`, `review`, `pass` | the progress of the running session's thread, of each review request, and of each caller of `reconcile()` or of recovery |
| `faults`, `masked`, `raced` | how many failures have happened; histories: a write was lost since the last pass began in a way the status cannot show; the sessions whose recovery was overtaken |

A fact is an identity (an action, a step result, a violation), which is what
`inspect_session_consistency` compares.  Each SQL transaction is one step; so is
each file write.  A write may fail, and with `TornWrites` leave half a record; a
crash keeps files and committed rows and loses the rest.  An update is appended
(`AppendPayload`), then its evidence is scheduled, which may raise (`EvidenceFails`),
then stored (`RecordUpdate`).  A recovery asks whether the session is the running one
(`RecoverCheck`), looks for a `final.json` and reads the updates (`RecoverRead`), and
writes (`RecoverWrite`), with no lock from one to the next.  `ForeignKeys` says
whether the database enforces them: PostgreSQL does, SQLite as the service opens
it does not, and `ON DELETE CASCADE` with it.  Left out: the scores and counters
the comparison also reads, the connectivity half of the health record (see
`Readiness`), the contents of rows.

### RealtimeRules: what a session's events decide, and how it is told

`RealtimeRules.tla` has two layers.  The first is `RuleEngine.evaluate` as a fold
over the events in sequence order: an event goes to the steps that are READY and
have its action; the first step it decides takes it.  A weak event makes a step
UNKNOWN; one that a business rule catches makes it VIOLATED; otherwise it
completes the step, with the violations of order, start delay and duration it
earns.  Predecessors done open further steps.  After the events come the deadlines
(TIMEOUT) and, at the end of the session, what is missing (MISSING).  The second
layer is `RealtimeRuleSession`: it evaluates everything again at each event, tick
and incident, under its lock, and returns the difference to the result before.

| Variable | In the code |
|---|---|
| `events`, `incidents` | `_events`, `_external_violations` |
| `result` | `_result`: per step its state and event, the violations, whether it passed |
| `clock`, `frame`, `polled` | the time of the frames; the frame the worker has at hand; the time the quality thread has read |
| `outbox`, `audit` | per thread the deltas it has evaluated and not yet delivered; what `updates.jsonl` holds, folded |
| `finished` | `finish()` has returned |
| `mixed` | history: deltas of both threads were on their way at once |

Object class and zones are one attribute of an event, a step has at most one
business rule, severities have their defaults, and scores are left out: which
violations there are decides them.  A rule set is a constant: the model's one has
a step with two predecessors, one with a deadline and start delay, and one with a
rule.

### SessionQuality: outages that become violations

`SessionQuality.tla` models `SessionQualityMonitor` with the health records it
samples, the quality thread, and the last poll of `_finish()`.

| Variable | In the code |
|---|---|
| `camera` | `_CameraHealth`: ONLINE or not, age of the last frame |
| `keys` | what the configuration monitors: the cameras, or one counted source |
| `meter` | the source's counters: attempts, outputs, misses, errors, and a flag for limits that are not counts; `None`: no recorder or writer |
| `session`, `polling`, `due` | life of the session; the quality thread lives; the rest of its wait |
| `monitor` | `_conditions`, `_incident_counts`, the baselines, `_last_sync_emitted` |
| `incidents`, `faults` | violations recorded in the rule session; callbacks that raised |
| `past`, `hurt`, `quiet` | histories: how long a condition has failed and whether it has its incident; the source suffered in this session; time since its last output |

The code compares differences of times with limits, so the model keeps ages, in a
coarse unit, up to `MaxAge`.  Sync, processing, evidence and audit know subsets of
the same reasons; a behaviour monitors one of them, because conditions do not
influence each other.  What two conditions in one poll do to each other, when a
callback raises, takes the two cameras.

### Evidence: packages of frames around a violation

`Evidence.tla` models `AsyncLiveEvidenceRecorder` with the `LiveEvidenceBuffer`
behind it and the `EvidenceRetentionManager` that its worker calls.

| Variable | In the code |
|---|---|
| `clock`, `reached` | reference time of the last frame set, and of the last one the worker ingested |
| `submit`, `queue` | the capture thread between `put_nowait`, `get_nowait` and the second put; `_queue` |
| `worker` | the evidence thread: idle, ingesting, in a cleanup (with the packages it read as deletable), exited |
| `frames`, `pending`, `overrides` | `_frames`, `_pending`, `_review_overrides` |
| `disk` | `manifest.json` of each violation, and whether its images are still beside it |
| `review` | a reviewer between reading and writing a manifest, holding `_lock` |
| `hub` | running, stopping (cameras have ended), stopped (flushed) |
| `sampled`, `scheduled`, `removed`, `decided`, `mislaid` | histories |

`ingest`, `schedule` and `flush_pending` hold the buffer's lock and are one action
each, with a second one for a write that fails in the middle; the cleanup and the
submitting thread take no lock and are split where another thread can come
between.  A time counts sample intervals, one camera stands for all (a frame set
has a frame of each), a package has size 1, and pending captures have no order, so
that any of them may be the one cut short.  A file is written whole or not at all.
The recorder's totals are left out: it never reads them.

### FrameFlow: from a camera's frame to the set that is analysed

`FrameFlow.tla` models `NativeTimestampResolver`, `LiveFrameSynchronizer`, the
`MemoryFrameStore`, the hub's `_publish`, `enqueue_frame_set` and the inference
worker's loop.

| Variable | In the code |
|---|---|
| `source` | `timestamp_source`: arrival, PTS or reference timestamps |
| `now` | `time.monotonic_ns()` |
| `reader` | per camera: is the stream open, `_epoch_shift`, the last stamp, the last arrival |
| `pushed`, `buffer`, `store` | `_sequences`, `_buffers`, `_order` |
| `emitted` | `_last_emitted_reference_ms` |
| `published`, `handing` | the set the reference camera's thread carries to the queue, and where in `_publish` and `enqueue_frame_set` it is |
| `listening` | the one session: before `subscribe`, subscribed, unsubscribed |
| `queue`, `inHand`, `telling`, `counts` | the session's queue, the worker's set, is it in the callback, the four counters |
| `stale`, `chosen`, `analysed`, `unheard` | histories; `unheard` counts what was received with nobody subscribed |

A push, the search for the nearest frame of each camera and the decision to emit
hold one lock and are one action.  What follows has one action per touch of shared
state: `Receive` counts a set, before anybody gets it, and whether or not a session is
subscribed; then the queue is found full, the oldest set is taken out (the worker may
take it first), the drop is counted, and the set is put.  The worker counts a set as
processed and only then calls back, and a callback that raises counts as an error
as well.  `clock_offset_ms`, a constant per
camera, is left out.

### CameraGateway and Readiness: the service, and the gate in front of a session

`CameraGateway.tla` models `start_hub()` and `shutdown()` with the model pool, and
the thread of each camera with its stream and its health record.  `Readiness.tla`
extends it with `evaluate_session_readiness`, the two stores the gate probes, and
other users of both, whose operations may fail on a store that works.

| Variable | In the code |
|---|---|
| `service`, `todo` | where the lifespan is, and the cameras its loop has still to visit |
| `pool`, `hub`, `stop`, `late` | `_loaded` and the warmup; `_running`; the stop event; history: a join gave up |
| `source`, `left` | the cameras themselves (up, down, hung); bounds |
| `thread`, `reader`, `health` | per camera where its thread is, its capture, its state in the registry |
| `works`, `ready`, `using` | would an operation on a store succeed; its status; an operation on the query store that is done and not yet noted |
| `gate`, `calls`, `session` | the call: position, probe, what it found so far; how many; a session runs |
| `was` | history: what was the case of the watched check during the call, and which status misled it |

A camera that hangs blocks `open` and `read`, and with them its thread; the
lifespan gives up on it after three seconds.  What the gate only measures
(synchronization, storage, calibration, assets) passes or fails freely.

### Actions: where the events of the rules come from

`Actions.tla` models what turns looks into the events of the rules: the relations
of hands and objects with their counts, their fusion over the cameras, and the
four recognizers.  A frame set is one action, since one thread runs it all.

| Variable | In the code |
|---|---|
| `classes` | `zone_entity_classes` and `inspect_entity_classes`, as the objects they name; none for a recognizer that is off |
| `holds`, `frees` | `_hold_counts` and `_free_counts`, per camera |
| `objects` | `PickPlaceActionRecognizer._objects` |
| `tools` | `ToolOperationRecognizer._states` |
| `active`, `dwell` | `ZoneTransitionRecognizer._active`; `DwellZoneActionRecognizer._counts` and `_emitted` |
| `actions` | what the last frame set gave |
| `close`, `away`, `stream` | histories: looks in a row; what was told of the object so far |

The two recognizers of holding read the same relations, weigh them differently and
reset on different conditions; that they still agree (`ToolInHand`) follows from
no line of either.  Identities over time are left out: an object has its name (two
detections of one class in one picture that `world_identity.py:98` merged would count
twice per frame set).

Which objects the two recognizers of zones are told of is configured for each apart
(`runtime_config.py:53-58`): by default zone changes are off and would be of `person`,
and inspections are of `nose`, so that what is inspected has no entry told of it.
`ActionsAlternate` therefore puts an inspection between entry and exit only for objects
of both classes.

### Console and EvidenceViewer: the page, and the answers it waits for

`Console.tla` models the web console with the broker, the tickets and the
WebSocket handler; `EvidenceViewer.tla` the part of the page that shows earlier
sessions, with a state of its own, which `Console` extends.

| Variable | In the code |
|---|---|
| `server`, `latest`, `issued` | the newest session; the broker's last message; tickets that may be consumed |
| `connected`, `connecting`, `polling`, `hidden` | `state.connected`; `connect()` calls by what they await; the interval timer; `document.hidden` |
| `shown`, `refreshing`, `load` | `state.currentSession`; `state.refreshing`; the `refreshAll()` in flight |
| `pushTimer`, `push` | the timer of a realtime refresh; those in flight |
| `asking`, `socket`, `sockets`, `retry`, `stray` | `startRealtime()` calls; the current socket; every socket; the retry timer; timers it no longer knows |
| `rows`, `keys` | `state.qualityIncidents` and their keys |
| `request` | `finishSession()` in flight |
| `selected`, `views`, `manifests`, `timeline` | the historical session, the calls loading one, and whose panes are shown |
| `versions`, `card`, `renders`, `timers` | `evidenceRenderVersions`, the evidence card, and the calls and timers that draw on it |

JavaScript runs to the next `await`: that is an action.  The operator hides and shows
the page at any time (`TabSwitched`); while it is hidden the interval polls nothing
(`Poll`), and pushes still arrive.  Layout, filters and camera pictures are left out.

## 3. Runs

| Run | Shows |
|---|---|
| `controller_safety` | two callers, two sessions, queue of one; all interleavings of start, stop, abort, shutdown, both threads, failing starts and stops, join timeouts; the controller implements `Workstation`. Constraint `Serial`: states after two finishes of one session overlapped are cut, since every property here is conditional on that not having happened |
| `controller_liveness` | two callers, one session, under fairness: a finish returns without relying on the join timeout, though its threads, the other caller and itself contend for the controller lock and the poll lock |
| `controller_overlap` | without the constraint, three sessions: finds two live sessions at once (section 4) |
| `persistence_safety` | one session, a reviewer with two decisions, two passes or recoveries that overlap, one failure or crash anywhere that may tear a file: READY is truthful, no repair undoes what has ended |
| `persistence_repair` | under fairness, with two failures or crashes: READY again and again |
| `rules_session` | up to two events of every kind (weak, misplaced, late, early, dated back) at every time, an incident, two threads that evaluate and deliver in every order |
| `quality_incidents` | two cameras, or one source of each kind, failing and recovering at any time around the polls; one callback may raise |
| `evidence_packages` | two violations captured, cut short, written, reviewed and cleaned up in every order; a full queue, one failing write or late join, a stop |
| `flow` | two cameras, the three sources of timestamps, reopened streams whose clocks start anywhere, a full store, a full queue |
| `readiness` | the service starts, is asked for a session while camera and stores fail and come back between the checks, and stops while a camera hangs |
| `console` | connects, pushes, polls and clicks that overlap, on a page that is hidden and shown; two `startRealtime()` calls at once; lost tickets, sockets and answers; or the evidence of two earlier sessions, in every order: a page that stays connected and shown catches up with the server, and the stream comes back |
| `actions` | one tool, two cameras that may disagree, two hands: every succession of looks, confidences and zones |

### Bounds, and why they are enough

* Two callers are what overlapping requests need; a third adds no new pair.  Two
  sessions let one be mistaken for the other; the overlap finding takes a third
  because two live sessions have to follow the one that was stopped twice.
* `SessionController!QueueSize = 1`: at one the queue is both empty and full within
  one step, and nothing reads its length otherwise.
* One action fact and one violation: `final.json` repeats one kind and not the
  other, and only one can be reviewed; further facts would behave the same.
* `MaxFaults` 2 in `persistence_repair`: a failure during the recovery from
  another.  A lost append followed by a crash leaves a review of a violation that the
  audit never saw, and the rows never agree with it: `Repairable` is conditional on
  `ReviewsFounded`, which says that this is not so.  `persistence_safety` has one, beside
  recoveries and passes that overlap without any; its theorems hold for every number.
  Torn files are never repaired, so that `persistence_repair` has none.
* A session id is used once in a behaviour, because the code refuses a used one.
* `RealtimeRules`: `Horizon` 4 lies behind every deadline of the rule set, so that an
  event can be before, at and after each; two events can both claim one step.
* `SessionQuality`: `MaxAge` is grace plus two intervals, after which every
  comparison has its last value; `MaxCount` 2 and 30 percent lets a ratio pass
  the limit and come back under it; `MaxIncidents` 2 is a second outage of the same
  condition; `MaxFaults` 1 ends the thread.
* `Evidence`: with one pending capture and one package allowed, two violations meet
  every limit; windows of three sampled times in a buffer without margin are the
  tightest it must hold; `Horizon` 3 sees a window pass and the next one begin.
  `Gap` 2 lets a frame set come after the end of a window.  Two decisions, so that the
  last one can be told from an earlier one.
* `FrameFlow`: three reads of each camera, with buffers of two and a store of two,
  overflow each limit; the recorder and the callback raise only while there is no error
  (`MaxRaises` 1), an analysis at any time; a media clock of 0 to 2 can jump, stand still and start
  again on either side of the tolerance.
* `Readiness`: one camera, since its thread waits for no other; two changes of a
  camera or a store (it fails and comes back), or one of each; one operation of
  somebody else on either store.  One of the checks is watched per call, all of them in turn.
* `Console`: `MCBounds` lists the combinations of sessions, events, connects and
  faults, and `MCConsole` what each is for.  `Calls` has two members: two
  `startRealtime()` calls are in flight at once, one overwrites the socket of the
  other, which stays open and is sent events too, and with two failures the retry timer
  is set over one that still runs (`stray`).  A list of one alert (`Cap`) makes every
  new alert push one out.
* `Actions`: limits of two looks tell a run from a single look; the tool is of both
  zone recognizers' classes, or is inspected only; no bound on the
  length of a behaviour, for the counters stop at their limits.

Deadlock is checked where the system goes on for ever (controller, persistence,
recognizers).  The other modules end: their sessions finish, their clocks reach the
horizon, or their bounds are used up.

### Fairness

`SessionController!Fairness` is weak fairness of each runtime thread's steps, as
for any scheduled thread; strong fairness of what waits for a lock that others
take and give back in between, a request thread, the quality poll and
`ThreadUpdate`: Python's locks do not starve a waiter for ever.  No fair action has
an alternative to a step that waits for a lock, at any place of a thread, so that
fairness never carries a thread around a lock.  Nothing is assumed of the join timeout.
`Persistence!Fairness` is weak fairness of running code, and of operators who end
the running session and keep asking for recovery and reconciliation; no fairness
of faults, which `MaxFaults` stops.
`Readiness!FairSpec`: a shutdown once begun goes on, and so do the camera threads;
the actions of a thread in a hung camera are not enabled, so that nothing is
assumed of it.  Nothing makes a camera come back.
`Console!FairSpec`: requests are answered, answers taken up, timers fire, messages
arrive.  A poll is enabled, and so fair, only while the page is shown, so that
`CatchesUp` is about a page that stays connected and shown: a hidden one that lost a push
may never catch up.  Nothing is assumed of the operator, the camera process or the
network, whose faults are bounded.
The other modules state no liveness: that an outage is reported in time is a safety
property of ages (`OutageReported`), since a tick waits for a poll that is due.

## 4. Findings

`controller_overlap`: two overlapping stops of session A; B starts between
them; the second stop seals B (`persistent_session_controller.py:907`), and a
third session starts beside B, although one RUNNING session is promised
(`docs/video-pose-persistent-camera-hub.org:36`).

Met while modelling, and without a run of their own.

Controller and cameras:

* `_run_quality_monitor` has no handler (`session_runtime.py:193`): a callback that
  raises loses the rest of the poll and ends the guard, so that later outages have no
  violation, although `docs/video-pose-in-session-quality-guard.org:14` promises one.
* A camera thread that outlives its join may open its stream again and report a
  state after STOPPED (`live_gateway.py:149`); `StoppedStays` excludes it.
* A camera that hangs stays ONLINE in the registry; only the age of its last frame
  tells, which the quality guard reads and the gate does not.
* A camera whose factory fails leaves the threads started before it running; a
  `close()` that raises ends its thread.
* With the readiness policy on, `--autostart` asks right after `start_hub()`, is
  refused because no camera is ONLINE yet, and aborts the startup.
* With `reference` timestamps a clock that steps back is not corrected: frames are
  refused as stale until it has caught up (`NeverStale` excludes that source).
* The drop counter may count a set that the worker took meanwhile
  (`session_runtime.py:90`, and `async_evidence.py:126` for the evidence).
* Between a probe and the reading of the status it is for, the gate can be misled:
  an operation of somebody else that ended before the probe may be noted after it
  (`resilient_store.py:286`), and one that fails for its own reasons, such as a session
  directory that is there already (`session_audit.py:98`), makes a store that works
  DEGRADED, so that the session is refused.  These are the exceptions (`was.misled`) in
  `Admission` and `RefusalJustified`.
* Evidence that has had one error is never ready again, and `over_capacity` is read
  from a value up to a minute old (`async_evidence.py:296`).

Audit and query store:

* A write that fails while a pass is RUNNING does not mark DIRTY
  (`resilient_store.py:309`); the pass publishes READY, although
  `docs/video-pose-persistence-reconciliation-health.org:33` promises DIRTY.  It is
  the exception (`masked`) in `ReadyIsTruthful`.
* A review that looked its row up before a rebuild replaced it updates a row id
  that no longer exists; the store returns `None`, which counts as success
  (`persistent_session_controller.py:622`).  READY then covers a missing review until
  the next pass.
* On SQLite, child rows survive `delete_session` (`sql_repository.py:408`), although
  `docs/video-pose-persistence-reconcile.org:42` calls them cascading: nothing sets
  `PRAGMA foreign_keys`.  After one lost append, the row of the lost fact is never
  deleted, and every pass ends DIRTY; `persistence_repair` has them enforced.
* Two reviews of one violation can be stored in the opposite order of
  `reviews.jsonl` (`persistent_session_controller.py:599`).
* A half-written line or `final.json` is never recovered, and every pass fails on it
  (`incomplete_recovery.py:79`).
* Scheduling the evidence of a violation may raise between the append to the audit and
  the write to SQL (`persistent_session_controller.py:735`).  The worker swallows it, the
  store is never asked, and the status stays READY.
* A recovery of a session id that is opened after the check (408), and two recoveries of
  one session, may write a `final.json` over another (`incomplete_recovery.py:166`, 242).
  `NothingUndone` excludes these (`raced`); a recovery and the running session's own end
  cannot meet otherwise.

Rules and evidence:

* One weak event makes a required step UNKNOWN for good; UNKNOWN is neither missing
  nor late, so the session passes (`rules.py:154`), although ADR-003
  (`docs/video-pose-design-index.org:164`) says that low confidence must not become
  PASS.
* The two threads deliver their deltas after the session's lock is released
  (`session_runtime.py:217`); the later append may be the older state of a step,
  which recovery keeps, although `docs/video-pose-incomplete-session-recovery.org:29`
  says that it preserves the latest.
* `mark_evidence_reviewed` may raise after the review went to the audit
  (`persistent_session_controller.py:606`), for one because a cleanup deleted the
  package between read and write (`live_evidence.py:244`).  The store is then never
  asked, and nothing marks DIRTY.
* A decision that came before the manifest is taken from `_review_overrides` before
  the manifest is written (`live_evidence.py:388`).  If the write fails, the retry
  writes UNREVIEWED, although `docs/video-pose-evidence-retention.org` promises that
  a decision before the end of the post-roll reaches the manifest.

Recognizers:

* A tool that is outside every zone still counts as in its last one
  (`tool_operation.py:90`), although `docs/video-pose-industrial-actions.org:20` asks
  for movement inside a work zone.
* A frame set without observations stamps LEAVE_ZONE with time 0
  (`zone_actions.py:43`); zone changes are not debounced at all.
* The hold count of the other wrist is not reset when the closest hand changes; a
  FREE relation below the confidence limit releases the tool but not the object.

Console:

* Event ids start again with every session (`session_quality.py:489`, `rules.py:387`),
  and the page keeps its keys: an incident of the second session that has the key
  of one of the first is silently dropped, although
  `docs/video-pose-web-console-alerts.org` (section 3) lists each as history of the page.
* The broker keeps its last message only, so that a slow reader misses messages
  with new violations in them.
* Two clicks on connect leave a socket behind that nobody closes; a ticket that is
  answered after a disconnect still opens one; an authorization that fails keeps
  sockets and timers.
* A historical session whose answers come late replaces the panes of the one that
  was chosen after it.
* The slider timer of a replaced card makes the new card's rendering outdated
  (`web_console_assets.py:1239`), and it stays without pictures until it is moved
  (`superseded` in `LatestPosition`).
* `fetchEvidenceImage` returns `response.blob()` without awaiting it, so that its `catch`
  misses a body that breaks off (`web_console_assets.py:1310`), and the card goes on
  saying that it loads.  The model has no such failure.

## 5. Proofs

Each module of proofs extends what it is about, and holds for all values of the
constants under the assumptions named there: `None`, or `Null` of the page, is none of
the values it stands beside, sizes are positive, what is counted is finite.  The
properties are carried by inductive invariants that include the typing.

`SessionController_proofs`, for any callers, sessions and queue size:

* `TypeCorrect`: `Spec => []TypeOK`, with `JobIds`: a busy caller's job names a
  session, which typing alone does not say and every later step needs.
* `LiveCurrent`: `Spec => []LiveIsCurrent`.  Not inductive as it stands: that a
  sealed runtime is no longer subscribed must be known before the seal.  The
  invariant `LiveInv` adds that the lock's owner is in `start()`, that a starting
  caller past its checks finds the slot free, that (without overlap) a
  session has one finisher, that a finisher past `runtime.stop()` has
  unsubscribed its runtime, and that a live runtime is the current one.
* `HubOutlives`: from the same invariant: the hub stops only when no session
  runs, and a live runtime means one that runs.
* `FinalOnce`: `Spec => FinalWrittenOnce`.  `WriteInv` adds that a session with a
  `final.json` has a directory, that a running session has a directory, and that
  (without overlap) a session being finished, up to the write, has no `final.json`.
* `OwnerFiles` and `NothingFollows`: `Spec => []FiledUnderOwner` and
  `Spec => []NothingAfterFinal`, by `FileInv`: nothing runs for a session that is not
  launched yet (`Untouched`); an active thread belongs to the current runtime, is the
  idle worker of a start that failed, or outlived its join (`Owned`); what was joined
  has ended, and nothing is closed before the join (`Joined`); and who is about to file
  has read its own session (`Targeted`).
* `ImplementsWorkstation`: `Spec /\ []~overlapped => TakesTurns`, the refinement.  It
  needs all of the above and `SealInv`: what a finisher past its close has written is
  what it is about to report.  Reserving an id takes the turn, a refused start wastes an
  id, the launch runs, a failed one gives the turn back, the close and the seal close
  and end; every other step is invisible to `Workstation`, because the holder of the
  lock is inside `start()` and nobody else moves it.

`Persistence_proofs`, for any sessions, reviewers, passes and number of faults, with
and without torn writes and foreign keys:

* `StoreTypes`, by `PlaceInv`: the typing and who may be where (a writer writes only
  below an open directory, one pass at a time rebuilds, and only sessions with a
  `final.json`).
* `RepairsUndoNothing` (`NothingUndone`), by `RecoverPlace`: a recovery that has made its
  check, and one that has read, is of a session that the writer does not have and that
  has not ended, although neither holds a lock; or its check was overtaken (`raced`).
* `ReadyTellsTheTruth` (`ReadyIsTruthful`), by `Truth`: unless a write was lost behind the
  status, one pass is under way at most; every open session is accounted for when the
  status is READY; and those that a clean pass is done with stay accounted for while it
  goes on.  A session is accounted for when SQL has its row, facts, reviews and end,
  save for what somebody named is just about to write.

`RealtimeRules_proofs`, for every rule set and every sequence of events, ticks and
incidents:

* `DeltasTheorem` (`DeltasComplete`): unless deltas of both threads were on their way
  at once, the audit followed by what is underway folds to the last result, and no
  violation of it is missing.  `DeltaInv` is the shape of results and deltas, the
  statement that audit and outboxes together fold to the result, and that at most
  one outbox holds deltas.  It needs no more of `Evaluate` than that it gives every
  step a standing.
* `RuleTypes`, `ResultsAreSound` (`SoundResult`) and `VerdictsAreKept` (`VerdictsKept`),
  by `RulesInv`, are about what `Evaluate` computes.  The last result is the evaluation
  of all events at some time until now (`Current`), and the state of the engine after
  them is `Sound`: a standing with an event is a verdict with its reason, and a step
  leaves PENDING only once its predecessors are completed.  Each evaluation replays the
  session from the start, so the proof first needs that the replay of one event more is
  one more turn of the engine (`ReplayAppend`): events are sorted into the places they
  already have (`OrderedPlaced`), and the fold over their places takes the last one
  last, for which the equation of the fold is proved by a least counterexample.  Every
  turn keeps `Sound` and takes back no verdict (`Extends`); what the clock adds, lateness
  and what is missing at the end, names no event and is added to that.

  The rule set is assumed to be one the loader accepts: of two bounds the lower one is not
  above the upper one (`RangesAssumption`).

`SessionQuality_proofs`, for all cameras, configurations and limits, and
whatever raises:

* `OneIncident` (`OneIncidentPerOutage`): an outage which has its incident still fails,
  and the monitor remembers it as emitted, since `_conditions` is cleared only by an
  observation that holds (`Remembered`).
* `QualityTypes`, by `Types`, which adds that no incident has a number its condition has
  not counted.
* `NoOutageMissed` (`OutageReported`), by `Watched`: the age of a failure, the age that the
  monitor gives its condition and the time since the last poll bound each other.  The
  grace time is counted from the first poll that sees the failure, and an emitted
  condition covers the outage that goes on.
* `EarlierSessionsForgiven` (`PastForgiven`), by `Clean`: without a miss, an error or a flag
  of this session the counters stand where the baseline found them, and no condition of
  a counted source is older than its last output.

`Evidence_proofs`, for any finite set of violations and all sizes:

* `EvidenceTyping`, `NothingIsLost`, `UnreviewedIsKept` and `PackageWrittenOnce`.  One
  invariant carries all four, `PackageInv`: what is stored is not pending (so that no
  write goes over a package), what the cleanup is about to delete has a review, and
  whoever writes a review has a decision.  It is what makes a cleanup without the
  lock safe: a review is never taken back and a package never written again, so that
  what was deletable when it was read is still deletable.
* `DecisionsStick` (`ReviewSticks`), by `Decided`: a capture that waits for its manifest
  has the last decision with it, and the manifest takes it over.
* `WindowIsKept` (`WindowKept`), by `WindowInv`: batches are ingested in the order of
  their times, wherever they wait (`Arrivals`); the ring buffer still has every sampled
  frame that is not older than both rolls and the margin (`Covered`); and what is
  complete was written when its window had passed (`Timely`).

The same module proves the page that shows the evidence, for any sessions, calls,
tickets, pushes and bounds.  `Console` has a state and a specification of its own
(`ConsoleSpec`), and names them so that both components can be extended at once:

* `AlertsAreDistinct` (`RowsDistinct`): a new alert goes to the front of a list without it,
  and what is cut off is exactly the alert whose key is forgotten.
* `LatestPositionShows` (`LatestPosition`), by `ViewerInv`: no render in flight has a newer
  version than the card's evidence, one with that version renders the position that was
  asked for last, and if there is none, that position is shown or a timer of a replaced
  card has taken a version of its own.
* `ConsoleTypes` (`ConsoleTypeOK`), by `PageInv`: a `connect()` that waits for a `refreshAll()` is
  counted as long as the one it started is under way, so that the count is not zero when
  the answer takes it down.

`FrameFlow_proofs`, for any cameras, clocks, tolerance and sizes: `FlowTypes`;
`AnalysisInOrder`, since what is queued is in order and before what is emitted
(`Ordered`); `EverySetCounted`, by itself, with the moments between a count and what it
counts (`OnTheWay`, `TakenOut`) as terms of it; `ReferenceNeverStale`, since the stamps of one stream
grow whatever its epochs do (`Steady`); and `FramesAdvance`, the hard one.  A set is made
of the frames nearest to a time, and a frame nearer to a later time need not have been
pushed later.  It is once every buffer is in the order of its pushes (`Numbered`) and of
its times (`Rising`), and once every frame before those of the last set is known to be
farther from its time than they are (`Shown`), which no push and no later time changes.

`Readiness_proofs`, for any cameras, policy and bounds: `ServiceTypes`, `ReadinessTypes`;
`ShutdownIsFinal`, by `ShutdownInv`: the loops of `stop()` have dealt with every camera
that is not on their list; `AdmissionIsSound` and `RefusalIsJust`, by `Witnessed`, which
says for every position of the call what the history must have seen of the watched
check by then.

`Actions_proofs`, for any finite set of cameras and any objects, hands, zones and
limits: `ActionTypes`; `NoFlicker`, since counters stay below what was seen in a row
(`Streaks`); `HeldToolIsHeld`, `OneOperation` and `ActionsTakeTurns`, by `Story`: what was
told of an object is what the recognizers remember of it.

The induction theorems of the library take an operator and cannot be instantiated
here.  Where a proof needs a least or a greatest number it gets it from the
well-foundedness of strict inclusion between finite sets (`LeastNatural`, `GreatestOf`).

Only model-checked: liveness (`FinishReturns`, `Repairable`, `Recovers`,
`StopReturns`, `CatchesUp`, `StreamReturns`), which is out of the prover's reach.  Every
invariant and every action property of a passing run is proved.

## 6. Not modelled

`PROJECT.json` lists every component with its reason.  In short: inference, geometry
and identities over time are numeric functions; replay, acceptance and soak tools
and the timeline are sequential programs over files; the HTTP layer, metrics and
traces render what the components hold; capture back-ends and ffmpeg are I/O behind
interfaces that the models treat as nondeterministic; configuration declares the
constants of the modules; the legacy controller (`session_controller.py`,
`live_runtime.py`), which starts the cameras with each session, is used by the demo
command line and the soak tool only.  Within the modelled components: a hub that is
started again after a stop, a restart of the evidence recorder, the page's filters and
pictures.

## 7. Plan

Done, in this order: `SessionController`, `Persistence`, `RealtimeRules`,
`SessionQuality`, `Evidence`; then `FrameFlow`, `CameraGateway` with `Readiness`,
`EvidenceViewer` with `Console`, `Actions`, and `Workstation` as what the controller
implements.  Each module's typing was proved first, then the property that most needs
an invariant of its own.

Then every safety property that a run checks was proved: last the soundness of the
rules (`RulesInv`), the incidents that must come (`Watched`), the windows of the evidence
(`WindowInv`) and the page (`AlertsInv`, `ViewerInv`, `PageInv`).

What could come next: the composition of `Actions` with `RealtimeRules`, whose events
are so far of every kind rather than those the recognizers can tell; a hub and a
recorder that are started again.
