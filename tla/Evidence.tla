------------------------------ MODULE Evidence ------------------------------
(***************************************************************************)
(* Evidence of violations: AsyncLiveEvidenceRecorder in front of           *)
(* LiveEvidenceBuffer, with EvidenceRetentionManager behind it.            *)
(*                                                                         *)
(* The capture thread submits frame sets to a bounded queue; the worker    *)
(* samples them into a ring buffer and writes each pending capture to disk *)
(* when its window has passed, and sometimes cleans up; runtime threads    *)
(* schedule captures; reviewers mark them; stopping the hub flushes what   *)
(* is left.                                                                *)
(*                                                                         *)
(* A time counts sample intervals of the reference clock.  A frame set     *)
(* always has one frame of every camera, so that one camera stands for all *)
(* of them.  Pending captures are kept in no order: the one that is cut    *)
(* short to make room is any of them.  An artifact has size 1.  A file is  *)
(* written whole or not at all; no camera thread outlives its join.  The   *)
(* totals of the recorder are left out: it never reads them, and for the   *)
(* monitor, which does (SessionQuality), they may grow in any way.         *)
(* A definition named <Name>_<Bug> is used by the mutation runs only.      *)
(***************************************************************************)
EXTENDS Integers, Sequences, FiniteSets

CONSTANTS Violations, Decisions, None,
          QueueSize, MaxPending,
          PreRoll, PostRoll,
          Margin,       \* what the ring buffer keeps beyond both
          MaxArtifacts, \* max_total_bytes
          Gap,          \* most intervals between two frame sets
          Horizon,      \* bound on the clock
          MaxFaults     \* bound on failing writes and timed out joins

Windows == [start : Int, end : Int]
Manifests == [complete : BOOLEAN, start : Int, end : Int, images : SUBSET Nat,
              kept : BOOLEAN, review : Decisions \cup {None}, created : Nat]

ASSUME SizesAssumption ==
  /\ QueueSize \in Nat \ {0} /\ MaxPending \in Nat \ {0}
  /\ PreRoll \in Nat /\ PostRoll \in Nat /\ Margin \in Nat
  /\ MaxArtifacts \in Nat \ {0}
ASSUME BoundsAssumption == Gap \in Nat /\ Horizon \in Nat /\ MaxFaults \in Nat
ASSUME NoneAssumption ==
  None \notin Decisions /\ None \notin Windows /\ None \notin Manifests
ASSUME FiniteAssumption == IsFiniteSet(Violations)

VARIABLES
  clock,     \* reference time of the last frame set
  submit,    \* the capture thread in submit(): where, and with which batch
  queue,     \* _queue: reference times
  worker,    \* the evidence thread: where, its batch, what it will delete
  frames,    \* _frames: times in the ring buffer
  reached,   \* reference time of the last batch ingested
  pending,   \* _pending: per violation its window, or None
  overrides, \* _review_overrides
  disk,      \* per violation its manifest, or None
  review,    \* a reviewer in mark_reviewed(), holding the buffer's lock
  hub,       \* "running", "stopping" or "stopped"
  faults,
  \* Histories.
  sampled,   \* every time that was ever put into the ring buffer
  scheduled, \* violations whose schedule() returned
  removed,   \* violations whose evidence was cleaned up
  decided,   \* last decision that was marked
  mislaid    \* violations whose decision went with a manifest that failed

vars == <<clock, submit, queue, worker, frames, reached, pending,
          overrides, disk, review, hub, faults, sampled, scheduled, removed,
          decided, mislaid>>

stream == <<clock, submit, queue>>
ring == <<frames, reached, sampled>>
captures == <<pending, overrides, disk, mislaid>>

Idle == [pc |-> "idle", batch |-> 0]
Resting == [pc |-> "idle", batch |-> 0, doomed |-> {}]
NoReview == [pc |-> "idle", id |-> None, decision |-> None]

Init ==
  /\ clock = 0 /\ reached = 0
  /\ submit = Idle /\ queue = <<>>
  /\ worker = Resting
  /\ frames = {}
  /\ pending = [v \in Violations |-> None]
  /\ overrides = [v \in Violations |-> None]
  /\ disk = [v \in Violations |-> None]
  /\ review = NoReview
  /\ hub = "running" /\ faults = 0
  /\ sampled = {} /\ scheduled = {} /\ removed = {}
  /\ decided = [v \in Violations |-> None]
  /\ mislaid = {}

Fault == faults < MaxFaults /\ faults' = faults + 1
Unlocked == review.pc = "idle"

(***************************************************************************)
(* The capture thread: put the batch, or drop the oldest and put it again. *)
(***************************************************************************)
Full == Len(queue) >= QueueSize

Publish(t) ==
  /\ hub = "running" /\ submit = Idle
  /\ t \in clock + 1 .. clock + Gap /\ t <= Horizon
  /\ clock' = t
  /\ IF Full
     THEN submit' = [pc |-> "full", batch |-> t] /\ UNCHANGED queue
     ELSE queue' = Append(queue, t) /\ UNCHANGED submit
  /\ UNCHANGED <<worker, ring, captures, review, hub, faults, scheduled,
                 removed, decided>>

\* The worker may have emptied the queue meanwhile.
DropOldest ==
  /\ submit.pc = "full"
  /\ queue' = IF queue = <<>> THEN queue ELSE Tail(queue)
  /\ submit' = [submit EXCEPT !.pc = "again"]
  /\ UNCHANGED <<clock, worker, ring, captures, review, hub, faults, scheduled,
                 removed, decided>>

PutAgain ==
  /\ submit.pc = "again" /\ ~Full
  /\ queue' = Append(queue, submit.batch)
  /\ submit' = Idle
  /\ UNCHANGED <<clock, worker, ring, captures, review, hub, faults,
                 scheduled, removed, decided>>

(***************************************************************************)
(* Writing a capture to disk.                                              *)
(***************************************************************************)
Pending == {v \in Violations : pending[v] # None}
Stored == {v \in Violations : disk[v] # None}

\* The manifest of v, written at reference time t from the frames F; its images
\* are kept beside it.
Manifest(v, t, F, partial) ==
  LET window == pending[v]
      images == {f \in F : window.start <= f /\ f <= window.end} IN
  [complete |-> images # {} /\ ~partial, start |-> window.start, end |-> window.end,
   images |-> images, kept |-> TRUE, review |-> overrides[v], created |-> t]

\* The captures of S are written.  Those of L fail at their manifest, when their
\* override has been taken already.
Write(S, L, t, F, partial) ==
  /\ disk' = [v \in Violations |-> IF v \in S THEN Manifest(v, t, F, partial) ELSE disk[v]]
  /\ overrides' = [v \in Violations |-> IF v \in S \cup L THEN None ELSE overrides[v]]
  /\ mislaid' = mislaid \cup {v \in L : overrides[v] # None}

Without(S) == [v \in Violations |-> IF v \in S THEN None ELSE pending[v]]

Finalize(S, t, F, partial) ==
  Write(S, {}, t, F, partial) /\ pending' = Without(S)

\* One of the captures of R fails and stays pending, with those behind it.
FinalizeFails(R, t, F, partial) ==
  \E v \in R : \E S \in SUBSET (R \ {v}), L \in {{}, {v}} :
    Write(S, L, t, F, partial) /\ pending' = Without(S)

(***************************************************************************)
(* The evidence thread.                                                    *)
(***************************************************************************)
WorkerTake ==
  /\ worker.pc = "idle" /\ queue # <<>>
  /\ worker' = [worker EXCEPT !.pc = "ingest", !.batch = Head(queue)]
  /\ queue' = Tail(queue)
  /\ UNCHANGED <<clock, submit, ring, captures, review, hub, faults,
                 scheduled, removed, decided>>

WorkerExit ==
  /\ worker.pc = "idle" /\ queue = <<>> /\ hub # "running"
  /\ worker' = [worker EXCEPT !.pc = "exited"]
  /\ UNCHANGED <<stream, ring, captures, review, hub, faults, scheduled,
                 removed, decided>>

\* Bug: the ring buffer covers the time before a violation only.
Pruned_Tight(t) == {f \in frames \cup {t} : f >= t - PreRoll}

Pruned(t) == {f \in frames \cup {t} : f >= t - (PreRoll + PostRoll + Margin)}

Ready(t) == {v \in Pending : pending[v].end <= t}

\* Sampling, under the lock, is common to what follows.
Sample ==
  /\ worker.pc = "ingest" /\ Unlocked
  /\ frames' = Pruned(worker.batch)
  /\ sampled' = sampled \cup {worker.batch}
  /\ reached' = worker.batch

\* Everything whose window has passed is written; a cleanup may follow.
Ingest ==
  /\ Sample
  /\ Finalize(Ready(worker.batch), worker.batch, frames', FALSE)
  /\ \/ worker' = Resting
     \/ Ready(worker.batch) # {} /\ worker' = [worker EXCEPT !.pc = "clean"]
  /\ UNCHANGED <<stream, review, hub, faults, scheduled, removed, decided>>

IngestFails ==
  /\ Sample
  /\ Fault
  /\ FinalizeFails(Ready(worker.batch), worker.batch, frames', FALSE)
  /\ worker' = Resting
  /\ UNCHANGED <<stream, review, hub, scheduled, removed,
                 decided>>

\* Encoding fails before the frame set reaches the ring buffer.
EncodeFails ==
  /\ worker.pc = "ingest"
  /\ Fault
  /\ worker' = Resting
  /\ UNCHANGED <<stream, ring, captures, review, hub, scheduled,
                 removed, decided>>

(***************************************************************************)
(* Retention: without the buffer's lock, read all manifests, then delete   *)
(* one by one.                                                             *)
(***************************************************************************)
\* Bug: reviewed or not, the oldest goes when the disk is full.
Deletable_Any == Stored
Deletable == {v \in Stored : disk[v].review # None}

\* The oldest deletable ones: those out of date, and as many more as bring the
\* artifacts down to their limit.
Doomed(D) ==
  /\ D \subseteq Deletable
  /\ \A d \in D, v \in Deletable \ D : disk[d].created <= disk[v].created
  /\ Cardinality(Stored \ D) <= MaxArtifacts \/ D = Deletable

CleanupRead ==
  /\ worker.pc = "clean"
  /\ \E D \in SUBSET Deletable :
       Doomed(D) /\ worker' = [worker EXCEPT !.pc = "delete", !.doomed = D]
  /\ UNCHANGED <<stream, ring, captures, review, hub, faults, scheduled,
                 removed, decided>>

CleanupDelete(v) ==
  /\ worker.pc = "delete" /\ v \in worker.doomed
  /\ worker' = [worker EXCEPT !.doomed = @ \ {v}]
  /\ disk' = [disk EXCEPT ![v] = None]
  /\ removed' = removed \cup {v}
  /\ UNCHANGED <<stream, ring, pending, overrides, review, hub, faults,
                 scheduled, decided, mislaid>>

CleanupEnd ==
  /\ worker.pc = "delete" /\ worker.doomed = {}
  /\ worker' = Resting
  /\ UNCHANGED <<stream, ring, captures, review, hub, faults,
                 scheduled, removed, decided>>

\* A deletion that fails may have removed the images or the manifest only.
CleanupFails ==
  /\ worker.pc \in {"clean", "delete"}
  /\ Fault
  /\ \/ UNCHANGED <<disk, removed>>
     \/ \E v \in worker.doomed :
          disk' = [disk EXCEPT ![v].kept = FALSE] /\ UNCHANGED removed
     \/ \E v \in worker.doomed :
          disk' = [disk EXCEPT ![v] = None] /\ removed' = removed \cup {v}
  /\ worker' = Resting
  /\ UNCHANGED <<stream, ring, pending, overrides, review, hub,
                 scheduled, decided, mislaid>>

(***************************************************************************)
(* Runtime threads.                                                        *)
(***************************************************************************)
Window(t) == [start |-> IF t > PreRoll THEN t - PreRoll ELSE 0, end |-> t + PostRoll]

\* What may be cut short so that one more capture can wait.
Room == IF Cardinality(Pending) < MaxPending THEN {{}} ELSE {{w} : w \in Pending}

\* Bug: a violation that is stored is captured again.
Capturable_Again(v) == pending[v] = None
Capturable(v) == pending[v] = None /\ disk[v] = None

\* Bug: what makes room is discarded.
CutShort_Discards(S) == UNCHANGED <<disk, overrides, mislaid>>
CutShort(S) == Write(S, {}, reached, frames, TRUE)

\* schedule(), by any runtime thread, also one that outlived its join.  What is
\* pending or stored already is left as it is.
Schedule(v, t) ==
  /\ Unlocked /\ Capturable(v) /\ t <= clock
  /\ \E S \in Room :
       CutShort(S) /\ pending' = [Without(S) EXCEPT ![v] = Window(t)]
  /\ scheduled' = scheduled \cup {v}
  /\ UNCHANGED <<stream, worker, ring, review, hub, faults, removed, decided>>

\* There is no room, and what should make room fails: v is not captured.
ScheduleFails(v) ==
  /\ Unlocked /\ Capturable(v)
  /\ Cardinality(Pending) >= MaxPending
  /\ Fault
  /\ \E w \in Pending : FinalizeFails({w}, reached, frames, TRUE)
  /\ UNCHANGED <<stream, worker, ring, review, hub, scheduled, removed,
                 decided>>

(***************************************************************************)
(* Reviewers: mark_reviewed() holds the buffer's lock, which a cleanup     *)
(* does not take.                                                          *)
(***************************************************************************)
\* Bug: the decision that came first is kept.
ReviewEarly_KeepsFirst(v, d) ==
  /\ Unlocked /\ v \in scheduled /\ disk[v] = None
  /\ overrides' = [overrides EXCEPT ![v] = IF @ = None THEN d ELSE @]
  /\ decided' = [decided EXCEPT ![v] = d]
  /\ UNCHANGED <<stream, worker, ring, pending, disk, review, hub, faults,
                 scheduled, removed, mislaid>>

\* There is no manifest yet: the decision waits for it, in place of an earlier one.
ReviewEarly(v, d) ==
  /\ Unlocked /\ v \in scheduled /\ disk[v] = None
  /\ overrides' = [overrides EXCEPT ![v] = d]
  /\ decided' = [decided EXCEPT ![v] = d]
  /\ UNCHANGED <<stream, worker, ring, pending, disk, review, hub, faults,
                 scheduled, removed, mislaid>>

ReviewRead(v, d) ==
  /\ Unlocked /\ disk[v] # None
  /\ review' = [pc |-> "write", id |-> v, decision |-> d]
  /\ UNCHANGED <<stream, worker, ring, captures, hub, faults, scheduled,
                 removed, decided>>

ReviewWrite ==
  /\ review.pc = "write" /\ disk[review.id] # None
  /\ disk' = [disk EXCEPT ![review.id].review = review.decision]
  /\ decided' = [decided EXCEPT ![review.id] = review.decision]
  /\ review' = NoReview
  /\ UNCHANGED <<stream, worker, ring, pending, overrides, hub, faults,
                 scheduled, removed, mislaid>>

\* The evidence was deleted in between: the request fails.
ReviewRaises ==
  /\ review.pc = "write" /\ disk[review.id] = None
  /\ review' = NoReview
  /\ UNCHANGED <<stream, worker, ring, captures, hub, faults, scheduled,
                 removed, decided>>

(***************************************************************************)
(* The hub stops: its cameras have stopped before.                         *)
(***************************************************************************)
StopBegin ==
  /\ hub = "running" /\ submit = Idle
  /\ hub' = "stopping"
  /\ UNCHANGED <<stream, worker, ring, captures, review, faults, scheduled,
                 removed, decided>>

\* flush_pending(), after the worker has ended or the join has timed out.
Flush ==
  /\ hub = "stopping" /\ Unlocked
  /\ \/ worker.pc = "exited" /\ UNCHANGED faults
     \/ worker.pc # "exited" /\ Fault
  /\ Finalize(Pending, reached, frames, TRUE)
  /\ hub' = "stopped"
  /\ UNCHANGED <<stream, worker, ring, review, scheduled, removed, decided>>

FlushFails ==
  /\ hub = "stopping" /\ Unlocked /\ worker.pc = "exited"
  /\ Fault
  /\ FinalizeFails(Pending, reached, frames, TRUE)
  /\ hub' = "stopped"
  /\ UNCHANGED <<stream, worker, ring, review, scheduled, removed, decided>>

Next ==
  \/ \E t \in 1 .. Horizon : Publish(t)
  \/ DropOldest \/ PutAgain
  \/ WorkerTake \/ WorkerExit \/ Ingest \/ IngestFails \/ EncodeFails
  \/ CleanupRead \/ CleanupEnd \/ CleanupFails
  \/ \E v \in Violations : CleanupDelete(v)
  \/ \E v \in Violations, t \in 0 .. Horizon : Schedule(v, t)
  \/ \E v \in Violations : ScheduleFails(v)
  \/ \E v \in Violations, d \in Decisions : ReviewEarly(v, d) \/ ReviewRead(v, d)
  \/ ReviewWrite \/ ReviewRaises
  \/ StopBegin \/ Flush \/ FlushFails

Spec == Init /\ [][Next]_vars

(***************************************************************************)
(* What the evidence promises.                                             *)
(***************************************************************************)
\* Every variable has its type; neither the queue nor the captures that wait
\* exceed their limit.
TypeOK ==
  /\ clock \in Nat /\ reached \in Nat
  /\ submit \in [pc : {"idle", "full", "again"}, batch : Nat]
  /\ queue \in Seq(Nat) /\ Len(queue) <= QueueSize
  /\ worker \in [pc : {"idle", "ingest", "clean", "delete", "exited"},
                 batch : Nat, doomed : SUBSET Violations]
  /\ frames \in SUBSET Nat /\ sampled \in SUBSET Nat
  /\ pending \in [Violations -> Windows \cup {None}]
  /\ Cardinality(Pending) <= MaxPending
  /\ overrides \in [Violations -> Decisions \cup {None}]
  /\ disk \in [Violations -> Manifests \cup {None}]
  /\ \/ review = NoReview
     \/ review \in [pc : {"write"}, id : Violations, decision : Decisions]
  /\ hub \in {"running", "stopping", "stopped"} /\ faults \in Nat
  /\ scheduled \in SUBSET Violations /\ removed \in SUBSET Violations
  /\ decided \in [Violations -> Decisions \cup {None}]
  /\ mislaid \in SUBSET Violations

\* A violation whose capture was scheduled waits for its window, or is on disk, or
\* was cleaned up: no full queue, failing write, lack of room or stop in between
\* loses it (LiveEvidenceBuffer, AsyncLiveEvidenceRecorder._run).
NothingLost ==
  \A v \in scheduled : pending[v] # None \/ disk[v] # None \/ v \in removed

\* COMPLETE evidence that was written within the margin of its window holds every
\* frame that was sampled in the window: the ring buffer has not let one go
\* (LiveEvidenceBuffer.ingest, _prune).
WindowKept ==
  \A v \in Stored :
    disk[v].complete /\ disk[v].created <= disk[v].end + Margin =>
      \A f \in sampled : disk[v].start <= f /\ f <= disk[v].end => f \in disk[v].images

\* What nobody has reviewed is not cleaned up, nor are its images, although the
\* cleanup deletes what it read without the lock before
\* (EvidenceRetentionManager.cleanup).
UnreviewedKept ==
  [][\A v \in Violations :
       disk[v] # None /\ disk[v].review = None =>
         disk'[v] # None /\ disk'[v].kept = disk[v].kept]_vars

\* A package on disk is never written a second time: only its review changes,
\* and what a cleanup takes away (LiveEvidenceBuffer.schedule).
PackageKept ==
  [][\A v \in Violations :
       disk[v] # None /\ disk'[v] # None =>
         /\ disk'[v].images = disk[v].images /\ disk'[v].created = disk[v].created
         /\ disk'[v].complete = disk[v].complete]_vars

\* Evidence shows the last decision, whether it came before the manifest or after;
\* a manifest that failed takes an earlier decision with it
\* (LiveEvidenceBuffer.mark_reviewed, _finalize_locked).
ReviewSticks ==
  \A v \in Stored \ (removed \cup mislaid) :
    decided[v] # None => disk[v].review = decided[v]
=============================================================================
