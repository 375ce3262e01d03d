-------------------------- MODULE Evidence_proofs --------------------------
(***************************************************************************)
(* Evidence packages, for any finite set of violations and all sizes, and  *)
(* the page that shows them and the rest of a session.                     *)
(*                                                                         *)
(* Nothing scheduled is lost, nothing unreviewed is deleted and no package *)
(* is written twice.  The cleanup deletes without the lock what it read    *)
(* before.  That is safe because of an invariant of three parts: what is   *)
(* stored is not pending (so that nothing is written over it), what the    *)
(* cleanup is about to delete has a review, and a reviewer who is writing  *)
(* has a decision.                                                         *)
(*                                                                         *)
(* A package shows the last decision: what waits for its manifest has the  *)
(* decision with it (Decided).  A complete one has every frame sampled in  *)
(* its window: batches come in order, and the buffer keeps what a window   *)
(* that is not written yet may need (WindowInv).                           *)
(*                                                                         *)
(* Of the page: its alerts (AlertsInv), its evidence card, whose versions  *)
(* tell the render of the last position from the others (ViewerInv), and   *)
(* the types of all that overlaps on it (PageInv).                         *)
(***************************************************************************)
EXTENDS Evidence, Console, FiniteSetTheorems, SequenceTheorems, TLAPS

Apart == \A v \in Violations : pending[v] = None \/ disk[v] = None

DoomedReviewed ==
  \A v \in worker.doomed : disk[v] # None /\ disk[v].review # None

PackageInv == TypeOK /\ Apart /\ DoomedReviewed /\ NothingLost

\* What a step does to what was stored before it.
SameImages(v) ==
  /\ disk'[v].images = disk[v].images /\ disk'[v].created = disk[v].created
  /\ disk'[v].complete = disk[v].complete

Held(v) ==
  /\ disk'[v] # None /\ disk'[v].kept = disk[v].kept
  /\ disk[v].review # None => disk'[v].review # None

StoredHeld ==
  \A v \in Stored :
    /\ disk'[v] # None => SameImages(v)
    /\ v \in worker.doomed \/ Held(v)

\* What a step does that writes the captures S and nothing else to the disk.
Written(S) ==
  /\ disk' \in [Violations -> Manifests \cup {None}]
  /\ overrides' \in [Violations -> Decisions \cup {None}]
  /\ mislaid' \in SUBSET Violations
  /\ \A v \in S : disk'[v] # None
  /\ \A v \in Violations \ S : disk'[v] = disk[v]

\* What is written as a manifest has its type.
LEMMA ManifestTyped ==
  ASSUME TypeOK, NEW v \in Pending, NEW t \in Nat, NEW F \in SUBSET Nat,
         NEW partial \in BOOLEAN
  PROVE  /\ Manifest(v, t, F, partial) \in Manifests
         /\ Manifest(v, t, F, partial) # None
<1>1. pending[v] \in Windows /\ overrides[v] \in Decisions \cup {None}
  BY DEF TypeOK, Pending
<1>2. Manifest(v, t, F, partial) \in Manifests
  BY <1>1 DEF Manifest, Manifests, Windows
<1> QED
  BY <1>2, NoneAssumption

\* Writing captures that are pending, and no longer or not yet waiting for them,
\* leaves every package alone that is on disk already.
LEMMA WriteHolds ==
  ASSUME PackageInv, NEW S \in SUBSET Pending, NEW L \in SUBSET Pending,
         NEW t \in Nat, NEW F \in SUBSET Nat, NEW partial \in BOOLEAN,
         Write(S, L, t, F, partial)
  PROVE  Written(S) /\ StoredHeld
<1>1. \A v \in S : Manifest(v, t, F, partial) \in Manifests \ {None}
  BY ManifestTyped DEF PackageInv
<1>2. S \subseteq Violations /\ L \subseteq Violations
  BY DEF Pending
<1>3. /\ disk' \in [Violations -> Manifests \cup {None}]
      /\ \A v \in S : disk'[v] # None
      /\ \A v \in Violations \ S : disk'[v] = disk[v]
  BY <1>1, <1>2 DEF Write, PackageInv, TypeOK
<1>4. /\ overrides' \in [Violations -> Decisions \cup {None}]
      /\ mislaid' \in SUBSET Violations
  BY <1>2 DEF Write, PackageInv, TypeOK
<1>5. \A v \in Stored : disk'[v] = disk[v]
  BY <1>3 DEF PackageInv, Apart, Stored, Pending
<1>6. \A v \in Stored : Held(v) /\ SameImages(v)
  BY <1>5 DEF Held, SameImages, Stored
<1> QED
  BY <1>3, <1>4, <1>6 DEF StoredHeld, Written

\* Fewer captures wait when some are finished.
LEMMA WithoutHolds ==
  ASSUME TypeOK, NEW S \in SUBSET Pending
  PROVE  /\ Without(S) \in [Violations -> Windows \cup {None}]
         /\ {v \in Violations : Without(S)[v] # None} = Pending \ S
         /\ Cardinality(Pending \ S) <= MaxPending
<1>1. /\ Without(S) \in [Violations -> Windows \cup {None}]
      /\ {v \in Violations : Without(S)[v] # None} = Pending \ S
  BY DEF TypeOK, Without, Pending
<1>2. IsFiniteSet(Pending)
  BY FiniteAssumption, FS_Subset DEF Pending
<1>3. /\ Cardinality(Pending \ S) \in Nat /\ Cardinality(Pending) \in Nat
      /\ Cardinality(Pending \ S) <= Cardinality(Pending)
  BY <1>2, FS_Subset, FS_CardinalityType
<1> QED
  BY <1>1, <1>3, SizesAssumption DEF TypeOK

\* One more waits when there was room or one was cut short.
LEMMA RoomSuffices ==
  ASSUME TypeOK, NEW S \in Room, NEW v \in Violations
  PROVE  /\ S \subseteq Pending
         /\ Cardinality((Pending \ S) \cup {v}) <= MaxPending
<1>1. IsFiniteSet(Pending) /\ Cardinality(Pending) \in Nat
  BY FiniteAssumption, FS_Subset, FS_CardinalityType DEF Pending
<1>2. S \subseteq Pending
  BY DEF Room
<1>3. Cardinality(Pending \ S) \in Nat /\ Cardinality(Pending \ S) < MaxPending
  <2>1. CASE Cardinality(Pending) < MaxPending
    <3>1. Pending \ S = Pending
      BY <2>1 DEF Room
    <3> QED
      BY <2>1, <3>1, <1>1
  <2>2. CASE ~(Cardinality(Pending) < MaxPending)
    <3>1. PICK w \in Pending : S = {w}
      BY <2>2 DEF Room
    <3>2. Cardinality(Pending \ {w}) = Cardinality(Pending) - 1
      BY <1>1, FS_RemoveElement
    <3>3. Cardinality(Pending \ {w}) \in Nat
      BY <1>1, FS_Subset, FS_CardinalityType
    <3> QED
      BY <3>1, <3>2, <3>3, <1>1, SizesAssumption DEF TypeOK
  <2> QED
    BY <2>1, <2>2
<1>4. IsFiniteSet(Pending \ S)
  BY <1>1, FS_Subset
<1>5. Cardinality((Pending \ S) \cup {v}) <= Cardinality(Pending \ S) + 1
  BY <1>3, <1>4, FS_AddElement
<1>6. Cardinality((Pending \ S) \cup {v}) \in Nat
  BY <1>4, FS_AddElement, FS_CardinalityType
<1> QED
  BY <1>2, <1>3, <1>5, <1>6, SizesAssumption

(***************************************************************************)
(* The steps.                                                              *)
(***************************************************************************)
\* A step that keeps what PackageInv is about, dooms only what has a review and
\* keeps the types of the rest.
LEMMA QuietStep ==
  ASSUME PackageInv, TypeOK', UNCHANGED <<pending, disk, scheduled, removed>>,
         worker'.doomed \subseteq worker.doomed \cup Deletable
  PROVE  PackageInv' /\ StoredHeld
<1>1. Apart' /\ NothingLost'
  BY DEF PackageInv, Apart, NothingLost
<1>2. DoomedReviewed'
  BY DEF PackageInv, DoomedReviewed, Deletable, Stored
<1>3. StoredHeld
  BY DEF StoredHeld, SameImages, Held, Stored
<1> QED
  BY <1>1, <1>2, <1>3 DEF PackageInv

\* What is left of a queue without its head.
LEMMA TailTyped ==
  ASSUME TypeOK, queue # <<>>
  PROVE  Head(queue) \in Nat /\ Tail(queue) \in Seq(Nat) /\ Len(Tail(queue)) <= QueueSize
<1>1. queue \in Seq(Nat) /\ Len(queue) \in Nat /\ Len(queue) <= QueueSize /\ Len(queue) # 0
  BY DEF TypeOK
<1>2. Head(queue) \in Nat /\ Tail(queue) \in Seq(Nat) /\ Len(Tail(queue)) = Len(queue) - 1
  BY <1>1
<1> QED
  BY <1>1, <1>2, SizesAssumption

\* The capture thread.
LEMMA CaptureSteps ==
  ASSUME PackageInv,
         (\E t \in 1 .. Horizon : Publish(t)) \/ DropOldest \/ PutAgain
  PROVE  PackageInv' /\ StoredHeld
<1> USE DEF stream, ring, captures
<1>1. /\ UNCHANGED <<worker, ring, captures, review, hub, faults, scheduled, removed, decided>>
      /\ clock' \in Nat
      /\ submit' \in [pc : {"idle", "full", "again"}, batch : Nat]
      /\ queue' \in Seq(Nat) /\ Len(queue') <= QueueSize
  <2>1. ASSUME NEW t \in 1 .. Horizon, Publish(t) PROVE <1>1!:
    <3>1. /\ UNCHANGED <<worker, ring, captures, review, hub, faults, scheduled, removed, decided>>
          /\ clock' = t /\ t \in Nat /\ submit = Idle
      BY <2>1, BoundsAssumption DEF Publish
    <3>2. CASE Full
      BY <2>1, <3>1, <3>2 DEF Publish, PackageInv, TypeOK
    <3>3. CASE ~Full
      <4>1. queue' = Append(queue, t) /\ submit' = submit
        BY <2>1, <3>3 DEF Publish
      <4>2. queue' \in Seq(Nat) /\ Len(queue') <= QueueSize
        BY <4>1, <3>1, <3>3, SizesAssumption DEF Full, PackageInv, TypeOK
      <4> QED
        BY <4>1, <4>2, <3>1 DEF PackageInv, TypeOK
    <3> QED
      BY <3>2, <3>3
  <2>2. CASE DropOldest
    <3>1. queue' \in Seq(Nat) /\ Len(queue') <= QueueSize
      BY <2>2, TailTyped DEF DropOldest, PackageInv, TypeOK
    <3> QED
      BY <2>2, <3>1 DEF DropOldest, PackageInv, TypeOK
  <2>3. CASE PutAgain
    BY <2>3, SizesAssumption DEF PutAgain, Full, Idle, PackageInv, TypeOK
  <2> QED
    BY <2>1, <2>2, <2>3
<1>2. TypeOK'
  BY <1>1 DEF PackageInv, TypeOK, Pending
<1> QED
  BY <1>1, <1>2, QuietStep

\* The evidence thread, when it writes nothing.
LEMMA WorkerSteps ==
  ASSUME PackageInv,
         WorkerTake \/ WorkerExit \/ EncodeFails \/ CleanupRead \/ CleanupEnd
  PROVE  PackageInv' /\ StoredHeld
<1> USE DEF stream, ring, captures
<1>1. /\ UNCHANGED <<clock, submit, ring, captures, review, hub, scheduled, removed, decided>>
      /\ queue' \in Seq(Nat) /\ Len(queue') <= QueueSize
      /\ worker' \in [pc : {"idle", "ingest", "clean", "delete", "exited"},
                      batch : Nat, doomed : SUBSET Violations]
      /\ worker'.doomed \subseteq worker.doomed \cup Deletable
      /\ faults' \in Nat
  <2>1. CASE WorkerTake
    <3>1. queue' \in Seq(Nat) /\ Len(queue') <= QueueSize /\ Head(queue) \in Nat
      BY <2>1, TailTyped DEF WorkerTake, PackageInv
    <3> QED
      BY <2>1, <3>1 DEF WorkerTake, PackageInv, TypeOK
  <2>2. CASE WorkerExit
    BY <2>2 DEF WorkerExit, PackageInv, TypeOK
  <2>3. CASE EncodeFails
    BY <2>3 DEF EncodeFails, Resting, Fault, PackageInv, TypeOK
  <2>4. CASE CleanupRead
    BY <2>4 DEF CleanupRead, Deletable, Stored, PackageInv, TypeOK
  <2>5. CASE CleanupEnd
    BY <2>5 DEF CleanupEnd, Resting, PackageInv, TypeOK
  <2> QED
    BY <2>1, <2>2, <2>3, <2>4, <2>5
<1>2. TypeOK'
  BY <1>1 DEF PackageInv, TypeOK, Pending
<1> QED
  BY <1>1, <1>2, QuietStep

\* A reviewer who reads or gives up, and the hub that begins to stop.
LEMMA OtherSteps ==
  ASSUME PackageInv,
         \/ \E v \in Violations, d \in Decisions : ReviewEarly(v, d) \/ ReviewRead(v, d)
         \/ ReviewRaises \/ StopBegin
  PROVE  PackageInv' /\ StoredHeld
<1> USE DEF stream, ring, captures
<1>1. /\ UNCHANGED <<stream, worker, ring, pending, disk, mislaid,
                     faults, scheduled, removed>>
      /\ \/ review' = NoReview
         \/ review' \in [pc : {"write"}, id : Violations, decision : Decisions]
      /\ hub' \in {"running", "stopping", "stopped"}
      /\ overrides' \in [Violations -> Decisions \cup {None}]
      /\ decided' \in [Violations -> Decisions \cup {None}]
  <2>1. ASSUME NEW v \in Violations, NEW d \in Decisions, ReviewEarly(v, d) PROVE <1>1!:
    BY <2>1 DEF ReviewEarly, PackageInv, TypeOK
  <2>2. ASSUME NEW v \in Violations, NEW d \in Decisions, ReviewRead(v, d) PROVE <1>1!:
    BY <2>2 DEF ReviewRead, PackageInv, TypeOK
  <2>3. CASE ReviewRaises
    BY <2>3 DEF ReviewRaises, PackageInv, TypeOK
  <2>4. CASE StopBegin
    BY <2>4 DEF StopBegin, PackageInv, TypeOK
  <2> QED
    BY <2>1, <2>2, <2>3, <2>4
<1>2. TypeOK'
  BY <1>1 DEF PackageInv, TypeOK, Pending
<1> QED
  BY <1>1, <1>2, QuietStep

CapturesTyped ==
  /\ pending \in [Violations -> Windows \cup {None}]
  /\ Cardinality(Pending) <= MaxPending
  /\ overrides \in [Violations -> Decisions \cup {None}]
  /\ disk \in [Violations -> Manifests \cup {None}]
  /\ mislaid \in SUBSET Violations

RestTyped ==
  /\ clock \in Nat /\ reached \in Nat
  /\ submit \in [pc : {"idle", "full", "again"}, batch : Nat]
  /\ queue \in Seq(Nat) /\ Len(queue) <= QueueSize
  /\ worker \in [pc : {"idle", "ingest", "clean", "delete", "exited"},
                 batch : Nat, doomed : SUBSET Violations]
  /\ frames \in SUBSET Nat /\ sampled \in SUBSET Nat
  /\ \/ review = NoReview
     \/ review \in [pc : {"write"}, id : Violations, decision : Decisions]
  /\ hub \in {"running", "stopping", "stopped"} /\ faults \in Nat
  /\ scheduled \in SUBSET Violations /\ removed \in SUBSET Violations
  /\ decided \in [Violations -> Decisions \cup {None}]

\* Captures that are finished, or fail to be, change hands and are never lost.
LEMMA WriteStep ==
  ASSUME PackageInv, RestTyped', NEW S \in SUBSET Pending, NEW L \in SUBSET Pending,
         NEW t \in Nat, NEW F \in SUBSET Nat, NEW partial \in BOOLEAN,
         Write(S, L, t, F, partial), pending' = Without(S),
         UNCHANGED <<scheduled, removed>>, worker'.doomed \subseteq worker.doomed
  PROVE  PackageInv' /\ StoredHeld
<1>1. /\ disk' \in [Violations -> Manifests \cup {None}]
      /\ overrides' \in [Violations -> Decisions \cup {None}]
      /\ mislaid' \in SUBSET Violations
      /\ \A v \in S : disk'[v] # None
      /\ \A v \in Violations \ S : disk'[v] = disk[v]
      /\ StoredHeld
  <2>1. Written(S) /\ StoredHeld
    BY WriteHolds
  <2> QED
    BY <2>1 DEF Written
<1>2. /\ Without(S) \in [Violations -> Windows \cup {None}]
      /\ {v \in Violations : Without(S)[v] # None} = Pending \ S
      /\ Cardinality(Pending \ S) <= MaxPending
  BY WithoutHolds DEF PackageInv
<1>3. Pending' = Pending \ S
  BY <1>2 DEF Pending
<1>4. TypeOK'
  <2>1. CapturesTyped'
    BY <1>1, <1>2, <1>3 DEF CapturesTyped
  <2> QED
    BY <2>1 DEF TypeOK, CapturesTyped, RestTyped
<1>5. \A v \in Violations : pending'[v] = None \/ (v \notin S /\ pending'[v] = pending[v])
  BY DEF Without
<1>6. Apart'
  BY <1>1, <1>5 DEF PackageInv, Apart
<1>7. DoomedReviewed'
  <2> SUFFICES ASSUME NEW v \in worker'.doomed PROVE disk'[v] # None /\ disk'[v].review # None
    BY DEF DoomedReviewed
  <2>1. v \in worker.doomed /\ v \in Violations
    BY DEF PackageInv, TypeOK
  <2>2. v \notin S
    BY <2>1 DEF PackageInv, DoomedReviewed, Apart, Pending
  <2> QED
    BY <2>1, <2>2, <1>1 DEF PackageInv, DoomedReviewed
<1>8. NothingLost'
  <2> SUFFICES ASSUME NEW v \in scheduled
               PROVE  pending'[v] # None \/ disk'[v] # None \/ v \in removed
    BY DEF NothingLost
  <2>1. v \in Violations
    BY DEF PackageInv, TypeOK
  <2>2. CASE v \in S
    BY <2>2, <1>1
  <2>3. CASE v \notin S
    BY <2>1, <2>3, <1>1 DEF PackageInv, NothingLost, Without
  <2> QED
    BY <2>2, <2>3
<1> QED
  BY <1>1, <1>4, <1>6, <1>7, <1>8 DEF PackageInv

\* Where one write fails, others may have succeeded.
LEMMA FailedWriteStep ==
  ASSUME PackageInv, RestTyped', NEW R \in SUBSET Pending,
         NEW t \in Nat, NEW F \in SUBSET Nat, NEW partial \in BOOLEAN,
         FinalizeFails(R, t, F, partial),
         UNCHANGED <<scheduled, removed>>, worker'.doomed \subseteq worker.doomed
  PROVE  PackageInv' /\ StoredHeld
<1>1. PICK v \in R : \E S \in SUBSET (R \ {v}), L \in {{}, {v}} :
        Write(S, L, t, F, partial) /\ pending' = Without(S)
  BY DEF FinalizeFails
<1>2. PICK S \in SUBSET (R \ {v}), L \in {{}, {v}} :
        Write(S, L, t, F, partial) /\ pending' = Without(S)
  BY <1>1
<1>3. S \in SUBSET Pending /\ L \in SUBSET Pending
  BY <1>1
<1> QED
  BY <1>2, <1>3, WriteStep

\* The evidence thread writes what is due, or fails to.
LEMMA IngestSteps ==
  ASSUME PackageInv, Ingest \/ IngestFails
  PROVE  PackageInv' /\ StoredHeld
<1> USE DEF stream, ring, captures
<1> DEFINE R == Ready(worker.batch)
<1>1. worker.batch \in Nat /\ worker.doomed \subseteq Violations
  BY DEF PackageInv, TypeOK
<1>2. R \in SUBSET Pending
  BY DEF Ready
<1>3. frames' \in SUBSET Nat /\ sampled' \in SUBSET Nat /\ reached' \in Nat
  BY <1>1 DEF Ingest, IngestFails, Sample, Pruned, PackageInv, TypeOK
<1>4. /\ worker' \in [pc : {"idle", "ingest", "clean", "delete", "exited"},
                      batch : Nat, doomed : SUBSET Violations]
      /\ worker'.doomed \subseteq worker.doomed
  <2>1. worker' \in {Resting, [worker EXCEPT !.pc = "clean"]}
    BY DEF Ingest, IngestFails
  <2>2. worker \in [pc : {"idle", "ingest", "clean", "delete", "exited"},
                   batch : Nat, doomed : SUBSET Violations]
    BY DEF PackageInv, TypeOK
  <2> QED
    BY <2>1, <2>2 DEF Resting
<1>5. faults' \in Nat
  <2>1. faults \in Nat
    BY DEF PackageInv, TypeOK
  <2>2. Fault \/ UNCHANGED faults
    BY DEF Ingest, IngestFails
  <2> QED
    BY <2>1, <2>2 DEF Fault
<1>6. UNCHANGED <<clock, submit, queue, review, hub, scheduled, removed, decided>>
  BY DEF Ingest, IngestFails
<1>7. RestTyped'
  BY <1>3, <1>4, <1>5, <1>6 DEF RestTyped, PackageInv, TypeOK
<1>8. CASE Ingest
  <2>1. Write(R, {}, worker.batch, frames', FALSE) /\ pending' = Without(R)
    BY <1>8 DEF Ingest, Finalize
  <2>2. {} \in SUBSET Pending
    OBVIOUS
  <2> HIDE DEF R
  <2> QED
    BY <2>1, <2>2, <1>1, <1>2, <1>3, <1>4, <1>6, <1>7, WriteStep
<1>9. CASE IngestFails
  <2>1. FinalizeFails(R, worker.batch, frames', FALSE)
    BY <1>9 DEF IngestFails
  <2> HIDE DEF R
  <2> QED
    BY <2>1, <1>1, <1>2, <1>3, <1>4, <1>6, <1>7, FailedWriteStep
<1> QED
  BY <1>8, <1>9

\* The flush, whole or not.
LEMMA FlushSteps ==
  ASSUME PackageInv, Flush \/ FlushFails
  PROVE  PackageInv' /\ StoredHeld
<1> USE DEF stream, ring, captures
<1>1. /\ UNCHANGED <<stream, worker, ring, review, scheduled, removed,
                     decided>>
      /\ hub' = "stopped" /\ faults' \in Nat
  <2>1. faults \in Nat
    BY DEF PackageInv, TypeOK
  <2>2. CASE Flush
    BY <2>1, <2>2 DEF Flush, Fault
  <2>3. CASE FlushFails
    BY <2>1, <2>3 DEF FlushFails, Fault
  <2> QED
    BY <2>2, <2>3
<1>2. RestTyped'
  BY <1>1 DEF RestTyped, PackageInv, TypeOK
<1>3. reached \in Nat /\ frames \in SUBSET Nat
  BY DEF PackageInv, TypeOK
<1>4. Pending \in SUBSET Pending /\ {} \in SUBSET Pending
  OBVIOUS
<1>5. CASE Flush
  <2>1. Write(Pending, {}, reached, frames, TRUE) /\ pending' = Without(Pending)
    BY <1>5 DEF Flush, Finalize
  <2> QED
    BY <2>1, <1>1, <1>2, <1>3, <1>4, WriteStep
<1>6. CASE FlushFails
  <2>1. FinalizeFails(Pending, reached, frames, TRUE)
    BY <1>6 DEF FlushFails
  <2> QED
    BY <2>1, <1>1, <1>2, <1>3, <1>4, FailedWriteStep
<1> QED
  BY <1>5, <1>6

\* A violation is captured, where there is room or room was made.
LEMMA ScheduleStep ==
  ASSUME PackageInv, NEW v \in Violations, NEW t \in 0 .. Horizon, Schedule(v, t)
  PROVE  PackageInv' /\ StoredHeld
<1> USE DEF stream, ring, captures
<1>1. PICK S \in Room : Write(S, {}, reached, frames, TRUE)
                        /\ pending' = [Without(S) EXCEPT ![v] = Window(t)]
  BY DEF Schedule, CutShort
<1>2. /\ UNCHANGED <<stream, worker, ring, review, hub, faults, removed, decided>>
      /\ scheduled' = scheduled \cup {v}
      /\ pending[v] = None /\ disk[v] = None
  BY DEF Schedule, Capturable
<1>3. /\ S \in SUBSET Pending /\ {} \in SUBSET Pending
      /\ Cardinality((Pending \ S) \cup {v}) <= MaxPending
  BY RoomSuffices DEF PackageInv
<1>4. reached \in Nat /\ frames \in SUBSET Nat
  BY DEF PackageInv, TypeOK
<1>5. Written(S) /\ StoredHeld
  BY <1>1, <1>3, <1>4, WriteHolds
<1>6. Window(t) \in Windows /\ Window(t) # None
  <2>1. Window(t) \in Windows
    BY BoundsAssumption, SizesAssumption DEF Window, Windows
  <2> QED
    BY <2>1, NoneAssumption
<1>7. /\ Without(S) \in [Violations -> Windows \cup {None}]
      /\ {w \in Violations : Without(S)[w] # None} = Pending \ S
  BY <1>3, WithoutHolds DEF PackageInv
<1>8. /\ pending' \in [Violations -> Windows \cup {None}]
      /\ pending'[v] = Window(t)
      /\ \A w \in Violations \ {v} : pending'[w] = Without(S)[w]
  BY <1>1, <1>6, <1>7
<1>9. Pending' = (Pending \ S) \cup {v}
  BY <1>6, <1>7, <1>8 DEF Pending
<1>10. TypeOK'
  <2>1. CapturesTyped'
    BY <1>3, <1>5, <1>8, <1>9 DEF CapturesTyped, Written
  <2>2. RestTyped'
    BY <1>2 DEF RestTyped, PackageInv, TypeOK
  <2> QED
    BY <2>1, <2>2 DEF TypeOK, CapturesTyped, RestTyped
<1>11. v \notin S
  BY <1>2, <1>3 DEF Pending
<1>12. Apart'
  <2> SUFFICES ASSUME NEW w \in Violations PROVE pending'[w] = None \/ disk'[w] = None
    BY DEF Apart
  <2>1. CASE w = v
    BY <2>1, <1>2, <1>5, <1>11 DEF Written
  <2>2. CASE w # v /\ w \in S
    BY <2>2, <1>8 DEF Without
  <2>3. CASE w # v /\ w \notin S
    BY <2>3, <1>5, <1>8 DEF Without, Written, PackageInv, Apart
  <2> QED
    BY <2>1, <2>2, <2>3
<1>13. DoomedReviewed'
  <2> SUFFICES ASSUME NEW w \in worker.doomed PROVE disk'[w] # None /\ disk'[w].review # None
    BY <1>2 DEF DoomedReviewed
  <2>1. w \in Violations /\ w \notin S
    BY <1>3 DEF PackageInv, TypeOK, DoomedReviewed, Apart, Pending
  <2> QED
    BY <2>1, <1>5 DEF PackageInv, DoomedReviewed, Written
<1>14. NothingLost'
  <2> SUFFICES ASSUME NEW w \in scheduled \cup {v}
               PROVE  pending'[w] # None \/ disk'[w] # None \/ w \in removed
    BY <1>2 DEF NothingLost
  <2>1. CASE w = v
    BY <2>1, <1>6, <1>8
  <2>2. CASE w # v /\ w \in S
    BY <2>2, <1>5 DEF Written
  <2>3. CASE w # v /\ w \notin S
    <3>1. w \in Violations
      BY DEF PackageInv, TypeOK
    <3> QED
      BY <3>1, <2>3, <1>5, <1>8 DEF Without, Written, PackageInv, NothingLost
  <2> QED
    BY <2>1, <2>2, <2>3
<1> QED
  BY <1>5, <1>10, <1>12, <1>13, <1>14 DEF PackageInv

\* There is no room for it.
LEMMA ScheduleFailsStep ==
  ASSUME PackageInv, NEW v \in Violations, ScheduleFails(v)
  PROVE  PackageInv' /\ StoredHeld
<1> USE DEF stream, ring, captures
<1>1. PICK w \in Pending : FinalizeFails({w}, reached, frames, TRUE)
  BY DEF ScheduleFails
<1>2. UNCHANGED <<stream, worker, ring, review, hub, scheduled, removed, decided>> /\ Fault
  BY DEF ScheduleFails
<1>3. RestTyped'
  BY <1>2 DEF RestTyped, Fault, PackageInv, TypeOK
<1>4. reached \in Nat /\ frames \in SUBSET Nat /\ {w} \in SUBSET Pending
  BY DEF PackageInv, TypeOK
<1> QED
  BY <1>1, <1>2, <1>3, <1>4, FailedWriteStep

\* A cleanup that takes D away, and maybe the images of another that it doomed.
TakesAway(D) ==
  /\ worker'.doomed \subseteq worker.doomed \ D
  /\ removed' = removed \cup D
  /\ disk' \in [Violations -> Manifests \cup {None}]
  /\ \A v \in Violations \ D :
       \/ disk'[v] = disk[v]
       \/ /\ v \in worker.doomed \ worker'.doomed
          /\ disk'[v] = [disk[v] EXCEPT !.kept = FALSE]
  /\ \A v \in D : disk'[v] = None

\* A package without its images is still a package.
LEMMA StrippedTyped ==
  ASSUME NEW m \in Manifests
  PROVE  /\ [m EXCEPT !.kept = FALSE] \in Manifests
         /\ [m EXCEPT !.kept = FALSE] # None
         /\ [m EXCEPT !.kept = FALSE].images = m.images
         /\ [m EXCEPT !.kept = FALSE].created = m.created
         /\ [m EXCEPT !.kept = FALSE].complete = m.complete
<1>1. [m EXCEPT !.kept = FALSE] \in Manifests
  BY DEF Manifests
<1> QED
  BY <1>1, NoneAssumption DEF Manifests

\* What was taken away had been doomed, thus reviewed.
LEMMA TakesAwayHolds ==
  ASSUME PackageInv, RestTyped', NEW D \in SUBSET worker.doomed, TakesAway(D),
         UNCHANGED <<pending, overrides, mislaid, scheduled>>
  PROVE  PackageInv' /\ StoredHeld
<1>1. /\ worker.doomed \subseteq Violations
      /\ disk \in [Violations -> Manifests \cup {None}]
  BY DEF PackageInv, TypeOK
<1>2. ASSUME NEW v \in Violations \ D
      PROVE  /\ disk[v] = None <=> disk'[v] = None
             /\ disk[v] # None => SameImages(v)
             /\ v \notin worker.doomed \/ v \in worker'.doomed => disk'[v] = disk[v]
  <2>1. CASE disk'[v] = disk[v]
    BY <2>1 DEF SameImages
  <2>2. CASE /\ v \in worker.doomed \ worker'.doomed
             /\ disk'[v] = [disk[v] EXCEPT !.kept = FALSE]
    <3>1. disk[v] \in Manifests
      BY <1>1, <2>2 DEF PackageInv, DoomedReviewed
    <3>2. disk[v] # None
      BY <3>1, NoneAssumption
    <3> QED
      BY <2>2, <3>1, <3>2, StrippedTyped DEF SameImages
  <2> QED
    BY <2>1, <2>2 DEF TakesAway
<1>3. TypeOK'
  <2>1. CapturesTyped'
    BY DEF CapturesTyped, TakesAway, PackageInv, TypeOK, Pending
  <2> QED
    BY <2>1 DEF TypeOK, CapturesTyped, RestTyped
<1>4. Apart'
  BY <1>2 DEF Apart, PackageInv, TakesAway
<1>5. DoomedReviewed'
  <2> SUFFICES ASSUME NEW v \in worker'.doomed PROVE disk'[v] # None /\ disk'[v].review # None
    BY DEF DoomedReviewed
  <2>1. v \in worker.doomed /\ v \in Violations \ D
    BY <1>1 DEF TakesAway
  <2>2. disk'[v] = disk[v]
    BY <2>1, <1>2
  <2> QED
    BY <2>1, <2>2 DEF PackageInv, DoomedReviewed
<1>6. NothingLost'
  <2> SUFFICES ASSUME NEW v \in scheduled
               PROVE  pending[v] # None \/ disk'[v] # None \/ v \in removed'
    BY DEF NothingLost
  <2>1. v \in Violations
    BY DEF PackageInv, TypeOK
  <2> QED
    BY <2>1, <1>2 DEF TakesAway, PackageInv, NothingLost
<1>7. StoredHeld
  <2> SUFFICES ASSUME NEW v \in Stored
               PROVE  /\ disk'[v] # None => SameImages(v)
                      /\ v \in worker.doomed \/ Held(v)
    BY DEF StoredHeld
  <2>1. CASE v \in D
    BY <2>1 DEF TakesAway
  <2>2. CASE v \notin D
    BY <2>2, <1>2 DEF Stored, Held
  <2> QED
    BY <2>1, <2>2
<1> QED
  BY <1>3, <1>4, <1>5, <1>6, <1>7 DEF PackageInv

\* A deletion that succeeds.
LEMMA CleanupDeleteStep ==
  ASSUME PackageInv, NEW v \in Violations, CleanupDelete(v)
  PROVE  PackageInv' /\ StoredHeld
<1> USE DEF stream, ring, captures
<1>1. RestTyped'
  BY DEF CleanupDelete, RestTyped, PackageInv, TypeOK
<1>2. {v} \in SUBSET worker.doomed
  BY DEF CleanupDelete
<1>3. TakesAway({v})
  BY DEF CleanupDelete, TakesAway, PackageInv, TypeOK
<1> QED
  BY <1>1, <1>2, <1>3, TakesAwayHolds DEF CleanupDelete

\* A deletion that fails, at either file.
LEMMA CleanupFailsStep ==
  ASSUME PackageInv, CleanupFails
  PROVE  PackageInv' /\ StoredHeld
<1> USE DEF stream, ring, captures
<1>1. /\ UNCHANGED <<clock, submit, queue, ring, pending, overrides, review, hub, scheduled,
                     decided, mislaid>>
      /\ worker' = Resting
  BY DEF CleanupFails
<1>2. faults' \in Nat
  BY DEF CleanupFails, Fault, PackageInv, TypeOK
<1>3. removed' \in SUBSET Violations
  BY DEF CleanupFails, PackageInv, TypeOK
<1>4. RestTyped'
  BY <1>1, <1>2, <1>3 DEF Resting, RestTyped, PackageInv, TypeOK
<1>5. /\ worker'.doomed = {} /\ worker.doomed \subseteq Violations
      /\ disk \in [Violations -> Manifests \cup {None}]
  BY <1>1 DEF Resting, PackageInv, TypeOK
<1>6. CASE UNCHANGED <<disk, removed>>
  <2>1. TakesAway({})
    BY <1>5, <1>6 DEF TakesAway
  <2> QED
    BY <2>1, <1>1, <1>4, TakesAwayHolds
<1>7. ASSUME NEW v \in worker.doomed, disk' = [disk EXCEPT ![v].kept = FALSE],
             UNCHANGED removed
      PROVE  PackageInv' /\ StoredHeld
  <2>1. disk[v] \in Manifests
    BY <1>5 DEF PackageInv, DoomedReviewed
  <2>2. disk' = [disk EXCEPT ![v] = [disk[v] EXCEPT !.kept = FALSE]]
    BY <1>5, <1>7, <2>1
  <2>3. [disk[v] EXCEPT !.kept = FALSE] \in Manifests
    BY <2>1, StrippedTyped
  <2>4. TakesAway({})
    BY <1>5, <1>7, <2>2, <2>3 DEF TakesAway
  <2> QED
    BY <2>4, <1>1, <1>4, TakesAwayHolds
<1>8. ASSUME NEW v \in worker.doomed, disk' = [disk EXCEPT ![v] = None],
             removed' = removed \cup {v}
      PROVE  PackageInv' /\ StoredHeld
  <2>1. TakesAway({v})
    BY <1>5, <1>8 DEF TakesAway
  <2> QED
    BY <2>1, <1>1, <1>4, TakesAwayHolds
<1> QED
  BY <1>6, <1>7, <1>8 DEF CleanupFails

\* A reviewer changes the review of a package and nothing else, to a decision.
LEMMA ReviewWriteStep ==
  ASSUME PackageInv, ReviewWrite
  PROVE  PackageInv' /\ StoredHeld
<1> USE DEF stream, ring, captures
<1> DEFINE r == review.id
           d == review.decision
           m == [disk[r] EXCEPT !.review = d]
<1>1. r \in Violations /\ d \in Decisions /\ d # None
  BY NoneAssumption DEF ReviewWrite, NoReview, PackageInv, TypeOK
<1>2. disk \in [Violations -> Manifests \cup {None}] /\ disk[r] # None
  BY DEF ReviewWrite, PackageInv, TypeOK
<1>3. disk[r] \in Manifests
  BY <1>1, <1>2
<1>4. /\ m \in Manifests /\ m.review = d /\ m.kept = disk[r].kept
      /\ m.images = disk[r].images /\ m.created = disk[r].created
      /\ m.complete = disk[r].complete
  BY <1>1, <1>3 DEF Manifests
<1>5. m # None
  BY <1>4, NoneAssumption
<1>6. disk' = [disk EXCEPT ![r] = m]
  BY <1>1, <1>2 DEF ReviewWrite
<1>7. disk'[r] = m /\ \A v \in Violations \ {r} : disk'[v] = disk[v]
  BY <1>1, <1>2, <1>6
<1>8. UNCHANGED <<stream, worker, ring, pending, overrides, hub, faults, scheduled,
                 removed, mislaid>> /\ review' = NoReview
  BY DEF ReviewWrite
<1>9. TypeOK'
  <2>1. disk' \in [Violations -> Manifests \cup {None}]
    BY <1>1, <1>2, <1>4, <1>6
  <2>2. decided' \in [Violations -> Decisions \cup {None}]
    BY <1>1 DEF ReviewWrite, PackageInv, TypeOK
  <2> QED
    BY <1>8, <2>1, <2>2 DEF PackageInv, TypeOK, Pending
<1> HIDE DEF m
<1>10. Apart' /\ NothingLost'
  BY <1>2, <1>5, <1>7, <1>8 DEF PackageInv, TypeOK, Apart, NothingLost
<1>11. DoomedReviewed'
  BY <1>1, <1>4, <1>5, <1>7, <1>8 DEF PackageInv, TypeOK, DoomedReviewed
<1>12. StoredHeld
  BY <1>1, <1>4, <1>5, <1>7 DEF StoredHeld, SameImages, Held, Stored
<1> QED
  BY <1>9, <1>10, <1>11, <1>12 DEF PackageInv

(***************************************************************************)
(* The theorems.                                                           *)
(***************************************************************************)
\* At first there is nothing to lose.
LEMMA PackageInit == Init => PackageInv
<1> SUFFICES ASSUME Init PROVE PackageInv
  OBVIOUS
<1>1. Pending = {}
  BY DEF Init, Pending
<1>2. Cardinality(Pending) <= MaxPending
  BY <1>1, FS_EmptySet, SizesAssumption
<1>3. <<>> \in Seq(Nat) /\ Len(<<>>) <= QueueSize
  BY SizesAssumption
<1>4. TypeOK
  BY <1>2, <1>3 DEF Init, TypeOK, Idle, Resting
<1>5. Apart /\ DoomedReviewed /\ NothingLost
  BY DEF Init, Apart, DoomedReviewed, NothingLost, Resting
<1> QED
  BY <1>4, <1>5 DEF PackageInv

\* Every step keeps the invariant and holds what is stored.
LEMMA PackageStep ==
  ASSUME PackageInv, [Next]_vars
  PROVE  PackageInv' /\ StoredHeld
<1>1. CASE \/ \E t \in 1 .. Horizon : Publish(t)
           \/ DropOldest \/ PutAgain
  BY <1>1, CaptureSteps
<1>2. CASE WorkerTake \/ WorkerExit \/ EncodeFails \/ CleanupRead \/ CleanupEnd
  BY <1>2, WorkerSteps
<1>3. CASE Ingest \/ IngestFails
  BY <1>3, IngestSteps
<1>4. CASE CleanupFails
  BY <1>4, CleanupFailsStep
<1>5. CASE \E v \in Violations : CleanupDelete(v)
  BY <1>5, CleanupDeleteStep
<1>6. CASE \E v \in Violations, t \in 0 .. Horizon : Schedule(v, t)
  BY <1>6, ScheduleStep
<1>7. CASE \E v \in Violations : ScheduleFails(v)
  BY <1>7, ScheduleFailsStep
<1>8. CASE \/ \E v \in Violations, d \in Decisions : ReviewEarly(v, d) \/ ReviewRead(v, d)
           \/ ReviewRaises \/ StopBegin
  BY <1>8, OtherSteps
<1>9. CASE ReviewWrite
  BY <1>9, ReviewWriteStep
<1>10. CASE Flush \/ FlushFails
  BY <1>10, FlushSteps
<1>11. CASE UNCHANGED vars
  <2>1. UNCHANGED <<pending, disk, scheduled, removed, worker>> /\ TypeOK'
    BY <1>11 DEF vars, PackageInv, TypeOK, Pending
  <2> QED
    BY <2>1, QuietStep
<1> QED
  BY <1>1, <1>2, <1>3, <1>4, <1>5, <1>6, <1>7, <1>8, <1>9, <1>10, <1>11 DEF Next

\* So that it always holds.
LEMMA PackageInvariant == Spec => []PackageInv
<1>1. PackageInv /\ [Next]_vars => PackageInv'
  BY PackageStep
<1> QED
  BY <1>1, PackageInit, PTL DEF Spec

\* Every variable of the evidence keeps its type, and queue and captures their
\* limits (AsyncLiveEvidenceRecorder, LiveEvidenceBuffer).
THEOREM EvidenceTyping == Spec => []TypeOK
<1>1. PackageInv => TypeOK
  BY DEF PackageInv
<1> QED
  BY <1>1, PackageInvariant, PTL

\* However many writes fail, what was scheduled is pending, stored or cleaned up
\* (LiveEvidenceBuffer.schedule, _finalize_locked).
THEOREM NothingIsLost == Spec => []NothingLost
<1>1. PackageInv => NothingLost
  BY DEF PackageInv
<1> QED
  BY <1>1, PackageInvariant, PTL

\* A cleanup that works on what it read earlier deletes nothing unreviewed
\* (EvidenceRetentionManager.cleanup beside LiveEvidenceBuffer.mark_reviewed).
THEOREM UnreviewedIsKept == Spec => UnreviewedKept
<1>1. PackageInv /\ [Next]_vars =>
        [\A v \in Violations :
           disk[v] # None /\ disk[v].review = None =>
             disk'[v] # None /\ disk'[v].kept = disk[v].kept]_vars
  <2> SUFFICES ASSUME PackageInv, [Next]_vars, NEW v \in Violations,
                      disk[v] # None, disk[v].review = None
               PROVE  disk'[v] # None /\ disk'[v].kept = disk[v].kept
    OBVIOUS
  <2>1. StoredHeld
    BY PackageStep
  <2>2. v \notin worker.doomed
    BY DEF PackageInv, DoomedReviewed
  <2> QED
    BY <2>1, <2>2 DEF StoredHeld, Held, Stored
<1> QED
  BY <1>1, PackageInvariant, PTL DEF Spec, UnreviewedKept

\* A package is written once (LiveEvidenceBuffer.schedule, _finalize_locked).
THEOREM PackageWrittenOnce == Spec => PackageKept
<1>1. PackageInv /\ [Next]_vars =>
        [\A v \in Violations :
           disk[v] # None /\ disk'[v] # None =>
             /\ disk'[v].images = disk[v].images /\ disk'[v].created = disk[v].created
             /\ disk'[v].complete = disk[v].complete]_vars
  <2> SUFFICES ASSUME PackageInv, [Next]_vars, NEW v \in Violations,
                      disk[v] # None, disk'[v] # None
               PROVE  /\ disk'[v].images = disk[v].images
                      /\ disk'[v].created = disk[v].created
                      /\ disk'[v].complete = disk[v].complete
    OBVIOUS
  <2>1. StoredHeld
    BY PackageStep
  <2> QED
    BY <2>1 DEF StoredHeld, SameImages, Stored
<1> QED
  BY <1>1, PackageInvariant, PTL DEF Spec, PackageKept

(***************************************************************************)
(* The last decision is the one on the package.                            *)
(***************************************************************************)
\* What waits for its manifest has the decision with it.
Decided ==
  \A v \in Violations \ (removed \cup mislaid) :
    IF disk[v] = None THEN overrides[v] = decided[v]
    ELSE decided[v] # None => disk[v].review = decided[v]

\* A manifest takes the decision with it; one that fails mislays it.
LEMMA DecidedWrite ==
  ASSUME PackageInv, Decided, NEW S \in SUBSET Pending, NEW L \in SUBSET Pending,
         NEW t \in Nat, NEW F \in SUBSET Nat, NEW partial \in BOOLEAN,
         Write(S, L, t, F, partial), UNCHANGED <<removed, decided>>
  PROVE  Decided'
<1> SUFFICES ASSUME NEW v \in Violations, v \notin removed, v \notin mislaid'
             PROVE  IF disk'[v] = None THEN overrides'[v] = decided[v]
                    ELSE decided[v] # None => disk'[v].review = decided[v]
  BY DEF Decided
<1>1. v \notin mislaid /\ (v \in L => overrides[v] = None)
  BY DEF Write
<1>2. CASE v \in S
  <2>1. disk[v] = None
    BY <1>2 DEF PackageInv, Apart, Pending
  <2>2. overrides[v] = decided[v]
    BY <1>1, <2>1 DEF Decided
  <2>3. disk'[v] = Manifest(v, t, F, partial) /\ disk'[v] # None
    BY <1>2, ManifestTyped DEF Write, PackageInv
  <2> QED
    BY <2>2, <2>3 DEF Manifest
<1>3. CASE v \notin S
  <2>1. disk'[v] = disk[v]
    BY <1>3 DEF Write
  <2>2. overrides'[v] = overrides[v]
    BY <1>1, <1>3 DEF Write
  <2> QED
    BY <1>1, <2>1, <2>2 DEF Decided
<1> QED
  BY <1>2, <1>3

\* The same where one of several writes fails.
LEMMA DecidedFailedWrite ==
  ASSUME PackageInv, Decided, NEW R \in SUBSET Pending,
         NEW t \in Nat, NEW F \in SUBSET Nat, NEW partial \in BOOLEAN,
         FinalizeFails(R, t, F, partial), UNCHANGED <<removed, decided>>
  PROVE  Decided'
<1>1. PICK v \in R : \E S \in SUBSET (R \ {v}), L \in {{}, {v}} : Write(S, L, t, F, partial)
  BY DEF FinalizeFails
<1>2. PICK S \in SUBSET (R \ {v}), L \in {{}, {v}} : Write(S, L, t, F, partial)
  BY <1>1
<1>3. S \in SUBSET Pending /\ L \in SUBSET Pending
  BY <1>1
<1> QED
  BY <1>2, <1>3, DecidedWrite

\* Whatever else happens to a package, a decision and the package change together.
LEMMA DecidedStep ==
  ASSUME PackageInv, Decided, [Next]_vars
  PROVE  Decided'
<1> USE DEF stream, ring, captures
<1>1. reached \in Nat /\ frames \in SUBSET Nat /\ worker.batch \in Nat
  BY DEF PackageInv, TypeOK
<1>2. {} \in SUBSET Pending /\ Pending \in SUBSET Pending /\ Ready(worker.batch) \in SUBSET Pending
  BY DEF Ready
<1>3. ASSUME UNCHANGED <<disk, overrides, mislaid, removed, decided>> PROVE Decided'
  BY <1>3 DEF Decided
<1>4. CASE \/ \E t \in 1 .. Horizon : Publish(t)
           \/ DropOldest \/ PutAgain \/ WorkerTake \/ WorkerExit \/ EncodeFails
           \/ CleanupRead \/ CleanupEnd \/ ReviewRaises \/ StopBegin
           \/ \E v \in Violations, d \in Decisions : ReviewRead(v, d)
           \/ UNCHANGED vars
  BY <1>3, <1>4 DEF Publish, DropOldest, PutAgain, WorkerTake, WorkerExit, EncodeFails,
     CleanupRead, CleanupEnd, ReviewRaises, StopBegin, ReviewRead, vars
<1>5. CASE Ingest \/ IngestFails
  <2>1. frames' \in SUBSET Nat
    BY <1>1, <1>5 DEF Ingest, IngestFails, Sample, Pruned
  <2>2. UNCHANGED <<removed, decided>>
    BY <1>5 DEF Ingest, IngestFails
  <2>3. CASE Ingest
    <3>1. Write(Ready(worker.batch), {}, worker.batch, frames', FALSE)
      BY <2>3 DEF Ingest, Finalize
    <3> QED
      BY <3>1, <1>1, <1>2, <2>1, <2>2, DecidedWrite
  <2>4. CASE IngestFails
    <3>1. FinalizeFails(Ready(worker.batch), worker.batch, frames', FALSE)
      BY <2>4 DEF IngestFails
    <3> QED
      BY <3>1, <1>1, <1>2, <2>1, <2>2, DecidedFailedWrite
  <2> QED
    BY <1>5, <2>3, <2>4
<1>6. CASE Flush \/ FlushFails
  <2>1. UNCHANGED <<removed, decided>>
    BY <1>6 DEF Flush, FlushFails
  <2>2. CASE Flush
    <3>1. Write(Pending, {}, reached, frames, TRUE)
      BY <2>2 DEF Flush, Finalize
    <3> QED
      BY <3>1, <1>1, <1>2, <2>1, DecidedWrite
  <2>3. CASE FlushFails
    <3>1. FinalizeFails(Pending, reached, frames, TRUE)
      BY <2>3 DEF FlushFails
    <3> QED
      BY <3>1, <1>1, <1>2, <2>1, DecidedFailedWrite
  <2> QED
    BY <1>6, <2>2, <2>3
<1>7. ASSUME NEW v \in Violations, NEW t \in 0 .. Horizon, Schedule(v, t) PROVE Decided'
  <2>1. PICK S \in Room : Write(S, {}, reached, frames, TRUE)
    BY <1>7 DEF Schedule, CutShort
  <2>2. S \in SUBSET Pending /\ UNCHANGED <<removed, decided>>
    BY <1>7 DEF Room, Schedule
  <2> QED
    BY <2>1, <2>2, <1>1, <1>2, DecidedWrite
<1>8. ASSUME NEW v \in Violations, ScheduleFails(v) PROVE Decided'
  <2>1. PICK w \in Pending : FinalizeFails({w}, reached, frames, TRUE)
    BY <1>8 DEF ScheduleFails
  <2>2. {w} \in SUBSET Pending /\ UNCHANGED <<removed, decided>>
    BY <1>8 DEF ScheduleFails
  <2> QED
    BY <2>1, <2>2, <1>1, DecidedFailedWrite
<1>9. ASSUME NEW v \in Violations, CleanupDelete(v) PROVE Decided'
  BY <1>9 DEF CleanupDelete, Decided, PackageInv, TypeOK
<1>10. CASE CleanupFails
  <2>1. UNCHANGED <<overrides, decided, mislaid>>
    BY <1>10 DEF CleanupFails
  <2>2. CASE UNCHANGED <<disk, removed>>
    BY <2>1, <2>2, <1>3
  <2>3. ASSUME NEW v \in worker.doomed, disk' = [disk EXCEPT ![v].kept = FALSE],
               UNCHANGED removed
        PROVE  Decided'
    <3>1. v \in Violations /\ disk[v] \in Manifests
      BY DEF PackageInv, TypeOK, DoomedReviewed
    <3>2. /\ disk'[v] = [disk[v] EXCEPT !.kept = FALSE]
          /\ \A w \in Violations \ {v} : disk'[w] = disk[w]
      BY <2>3, <3>1 DEF PackageInv, TypeOK
    <3>3. disk'[v] # None /\ disk[v] # None /\ disk'[v].review = disk[v].review
      BY <3>1, <3>2, StrippedTyped, NoneAssumption DEF Manifests
    <3> QED
      BY <2>1, <2>3, <3>1, <3>2, <3>3 DEF Decided
  <2>4. ASSUME NEW v \in worker.doomed, disk' = [disk EXCEPT ![v] = None],
               removed' = removed \cup {v}
        PROVE  Decided'
    BY <2>1, <2>4 DEF Decided, PackageInv, TypeOK
  <2> QED
    BY <1>10, <2>2, <2>3, <2>4 DEF CleanupFails
<1>11. ASSUME NEW v \in Violations, NEW d \in Decisions, ReviewEarly(v, d) PROVE Decided'
  BY <1>11 DEF ReviewEarly, Decided, PackageInv, TypeOK
<1>12. CASE ReviewWrite
  <2>1. review.id \in Violations /\ disk[review.id] # None
    BY <1>12 DEF ReviewWrite, NoReview, PackageInv, TypeOK
  <2>2. disk[review.id] \in Manifests
    BY <2>1 DEF PackageInv, TypeOK
  <2>3. /\ disk'[review.id] = [disk[review.id] EXCEPT !.review = review.decision]
        /\ \A w \in Violations \ {review.id} : disk'[w] = disk[w]
        /\ UNCHANGED <<overrides, removed, mislaid>>
    BY <1>12, <2>1 DEF ReviewWrite, PackageInv, TypeOK
  <2>4. /\ disk'[review.id].review = review.decision
        /\ disk'[review.id] # None
    <3>1. review.decision \in Decisions
      BY <1>12 DEF ReviewWrite, NoReview, PackageInv, TypeOK
    <3>2. disk'[review.id] \in Manifests
      BY <2>2, <2>3, <3>1 DEF Manifests
    <3> QED
      BY <2>2, <2>3, <3>2, NoneAssumption DEF Manifests
  <2>5. /\ decided'[review.id] = review.decision
        /\ \A w \in Violations \ {review.id} : decided'[w] = decided[w]
    BY <1>12, <2>1 DEF ReviewWrite, PackageInv, TypeOK
  <2> QED
    BY <2>1, <2>3, <2>4, <2>5 DEF Decided
<1> QED
  BY <1>4, <1>5, <1>6, <1>7, <1>8, <1>9, <1>10, <1>11, <1>12 DEF Next

\* Evidence shows the last decision, whether it came before the manifest or
\* after (LiveEvidenceBuffer.mark_reviewed, _finalize_locked).
THEOREM DecisionsStick == Spec => []ReviewSticks
<1>1. Init => Decided
  BY DEF Init, Decided
<1>2. PackageInv /\ Decided /\ [Next]_vars => Decided'
  BY DecidedStep
<1>3. Decided => ReviewSticks
  BY DEF Decided, ReviewSticks, Stored
<1> QED
  BY <1>1, <1>2, <1>3, PackageInvariant, PTL DEF Spec

(***************************************************************************)
(* Complete evidence has every frame that was sampled in its window.  The  *)
(* ring buffer goes by the time of the last batch, which is why batches    *)
(* must come in order and a window must be written while it is covered.    *)
(***************************************************************************)
Cover == PreRoll + PostRoll + Margin

\* Nothing that is queued or being ingested is older than what came before it.
Arrivals ==
  /\ \A i, j \in 1 .. Len(queue) : i < j => queue[i] < queue[j]
  /\ \A i \in 1 .. Len(queue) :
       /\ reached < queue[i] /\ queue[i] <= clock
       /\ worker.pc = "ingest" => worker.batch < queue[i]
       /\ submit.pc # "idle" => queue[i] < submit.batch
  /\ worker.pc = "ingest" =>
       /\ reached < worker.batch /\ worker.batch <= clock
       /\ submit.pc # "idle" => worker.batch < submit.batch
  /\ reached <= clock
  /\ submit.pc # "idle" => submit.batch = clock /\ reached < clock

\* The ring buffer lets go of nothing that is younger than what it covers.
Covered ==
  \A f \in sampled : f <= reached /\ (f >= reached - Cover => f \in frames)

\* A window is no longer than both rolls.
Spanned == \A v \in Pending : pending[v].end - pending[v].start <= PreRoll + PostRoll

\* What is complete was written when its window had passed.
Timely ==
  \A v \in Stored : disk[v].complete =>
    disk[v].created <= reached /\ disk[v].end <= disk[v].created

WindowInv == Arrivals /\ Covered /\ Spanned /\ Timely /\ WindowKept

\* The capture thread hands over later and later batches.
LEMMA ArrivalsCapture ==
  ASSUME TypeOK, Arrivals, (\E t \in 1 .. Horizon : Publish(t)) \/ DropOldest \/ PutAgain
  PROVE  Arrivals'
<1> USE DEF stream, ring, captures
<1>1. queue \in Seq(Nat) /\ Len(queue) \in Nat /\ clock \in Nat /\ reached \in Nat
  BY DEF TypeOK
<1>2. UNCHANGED <<worker, reached>>
  BY DEF Publish, DropOldest, PutAgain
<1>3. ASSUME NEW t \in 1 .. Horizon, Publish(t) PROVE Arrivals'
  <2>1. t \in Nat /\ clock' = t /\ clock < t /\ submit.pc = "idle" /\ worker.batch \in Nat
    BY <1>3, <1>1, BoundsAssumption DEF Publish, Idle, TypeOK
  <2>2. CASE Full
    <3>1. submit' = [pc |-> "full", batch |-> t] /\ queue' = queue
      BY <1>3, <2>2 DEF Publish
    <3>2. submit'.batch = t /\ \A i \in 1 .. Len(queue) : queue[i] \in Nat /\ queue[i] <= clock
      BY <3>1, <1>1 DEF Arrivals
    <3> QED
      BY <3>1, <3>2, <2>1, <1>1, <1>2 DEF Arrivals
  <2>3. CASE ~Full
    <3>1. submit' = submit /\ queue' = Append(queue, t)
      BY <1>3, <2>3 DEF Publish
    <3>2. /\ Len(queue') = Len(queue) + 1
          /\ \A i \in 1 .. Len(queue) : queue'[i] = queue[i] /\ queue[i] \in Nat /\ queue[i] <= clock
          /\ queue'[Len(queue) + 1] = t
      BY <3>1, <2>1, <1>1 DEF Arrivals
    <3> QED
      BY <3>1, <3>2, <2>1, <1>1, <1>2 DEF Arrivals
  <2> QED
    BY <2>2, <2>3
<1>4. CASE DropOldest
  <2>1. /\ UNCHANGED clock /\ submit'.pc = "again" /\ submit'.batch = submit.batch
        /\ submit.pc = "full"
    BY <1>4 DEF DropOldest, TypeOK
  <2>2. CASE queue = <<>>
    <3>1. queue' = queue
      BY <1>4, <2>2 DEF DropOldest
    <3> QED
      BY <3>1, <2>1, <1>2 DEF Arrivals
  <2>3. CASE queue # <<>>
    <3>1. queue' = Tail(queue)
      BY <1>4, <2>3 DEF DropOldest
    <3>2. /\ Len(queue') = Len(queue) - 1
          /\ \A i \in 1 .. Len(queue') : queue'[i] = queue[i + 1] /\ i + 1 \in 1 .. Len(queue)
      BY <3>1, <2>3, <1>1
    <3>3. \A i, j \in 1 .. Len(queue') : i < j => queue'[i] < queue'[j]
      <4> SUFFICES ASSUME NEW i \in 1 .. Len(queue'), NEW j \in 1 .. Len(queue'), i < j
                   PROVE  queue'[i] < queue'[j]
        OBVIOUS
      <4>1. i + 1 < j + 1 /\ i + 1 \in 1 .. Len(queue) /\ j + 1 \in 1 .. Len(queue)
        BY <3>2, <1>1
      <4>2. queue[i + 1] < queue[j + 1]
        BY <4>1 DEF Arrivals
      <4> QED
        BY <3>2, <4>2
    <3>4. \A i \in 1 .. Len(queue') :
            /\ reached < queue'[i] /\ queue'[i] <= clock
            /\ worker.pc = "ingest" => worker.batch < queue'[i]
            /\ queue'[i] < submit.batch
      BY <3>2, <2>1 DEF Arrivals
    <3> QED
      BY <3>3, <3>4, <2>1, <1>2 DEF Arrivals
  <2> QED
    BY <2>2, <2>3
<1>5. CASE PutAgain
  <2>1. /\ UNCHANGED clock /\ submit.pc # "idle" /\ submit'.pc = "idle"
        /\ queue' = Append(queue, submit.batch) /\ submit.batch \in Nat
    BY <1>5 DEF PutAgain, Idle, TypeOK
  <2>2. /\ Len(queue') = Len(queue) + 1
        /\ \A i \in 1 .. Len(queue) : queue'[i] = queue[i] /\ queue[i] \in Nat
        /\ queue'[Len(queue) + 1] = submit.batch
    BY <2>1, <1>1
  <2> QED
    BY <2>1, <2>2, <1>1, <1>2 DEF Arrivals
<1> QED
  BY <1>3, <1>4, <1>5

\* The evidence thread takes them in that order.
LEMMA ArrivalsStep ==
  ASSUME TypeOK, Arrivals, [Next]_vars
  PROVE  Arrivals'
<1> USE DEF stream, ring, captures
<1>1. queue \in Seq(Nat) /\ Len(queue) \in Nat /\ clock \in Nat /\ reached \in Nat
  BY DEF TypeOK
<1>2. CASE (\E t \in 1 .. Horizon : Publish(t)) \/ DropOldest \/ PutAgain
  BY <1>2, ArrivalsCapture
<1>3. CASE WorkerTake
  <2>1. /\ UNCHANGED <<clock, reached, submit>> /\ queue # <<>> /\ queue' = Tail(queue)
        /\ worker'.pc = "ingest" /\ worker'.batch = Head(queue)
    BY <1>3 DEF WorkerTake, TypeOK
  <2>2. /\ Len(queue') = Len(queue) - 1 /\ Head(queue) = queue[1] /\ 1 \in 1 .. Len(queue)
        /\ \A i \in 1 .. Len(queue') : queue'[i] = queue[i + 1] /\ i + 1 \in 1 .. Len(queue)
    BY <2>1, <1>1
  <2> QED
    BY <2>1, <2>2, <1>1 DEF Arrivals
<1>4. CASE Ingest \/ IngestFails
  <2>1. /\ UNCHANGED <<clock, submit, queue>>
        /\ worker.pc = "ingest" /\ reached' = worker.batch
    BY <1>4 DEF Ingest, IngestFails, Sample
  <2>2. worker'.pc # "ingest"
    <3>1. worker' \in {Resting, [worker EXCEPT !.pc = "clean"]}
      BY <1>4 DEF Ingest, IngestFails
    <3> QED
      BY <3>1 DEF Resting, TypeOK
  <2> QED
    BY <2>1, <2>2 DEF Arrivals
<1>5. ASSUME UNCHANGED <<clock, submit, queue, reached>>,
             worker' = worker \/ worker'.pc # "ingest"
      PROVE  Arrivals'
  BY <1>5 DEF Arrivals
<1>6. CASE WorkerExit \/ EncodeFails \/ CleanupRead \/ CleanupEnd \/ CleanupFails
           \/ \E v \in Violations : CleanupDelete(v)
  <2>1. UNCHANGED <<clock, submit, queue, reached>>
    BY <1>6 DEF WorkerExit, EncodeFails, CleanupRead, CleanupEnd, CleanupFails, CleanupDelete
  <2>2. worker'.pc # "ingest"
    <3>1. CASE EncodeFails \/ CleanupEnd \/ CleanupFails
      BY <3>1 DEF EncodeFails, CleanupEnd, CleanupFails, Resting
    <3>2. CASE WorkerExit \/ CleanupRead
      BY <3>2 DEF WorkerExit, CleanupRead, TypeOK
    <3>3. ASSUME NEW v \in Violations, CleanupDelete(v) PROVE <2>2!:
      BY <3>3 DEF CleanupDelete, TypeOK
    <3> QED
      BY <1>6, <3>1, <3>2, <3>3
  <2> QED
    BY <2>1, <2>2, <1>5
<1>7. CASE \/ \E v \in Violations, t \in 0 .. Horizon : Schedule(v, t)
           \/ \E v \in Violations : ScheduleFails(v)
           \/ \E v \in Violations, d \in Decisions : ReviewEarly(v, d) \/ ReviewRead(v, d)
           \/ ReviewWrite \/ ReviewRaises \/ StopBegin \/ Flush \/ FlushFails
           \/ UNCHANGED vars
  <2>1. UNCHANGED <<clock, submit, queue, reached, worker>>
    BY <1>7 DEF Schedule, ScheduleFails, ReviewEarly, ReviewRead, ReviewWrite, ReviewRaises,
                StopBegin, Flush, FlushFails, vars
  <2> QED
    BY <2>1, <1>5
<1> QED
  BY <1>2, <1>3, <1>4, <1>6, <1>7 DEF Next

\* What a batch pushes out is older than the ring buffer covers.
LEMMA CoveredStep ==
  ASSUME TypeOK, Arrivals, Covered, [Next]_vars
  PROVE  /\ Covered' /\ reached <= reached'
         /\ \A f \in sampled' \ sampled : reached < f
<1> USE DEF stream, ring, captures
<1>1. reached \in Nat /\ sampled \in SUBSET Nat /\ worker.batch \in Nat /\ Cover \in Nat
  BY SizesAssumption DEF TypeOK, Cover
<1>2. CASE Sample
  <2>1. reached' = worker.batch /\ reached < worker.batch /\ sampled' = sampled \cup {worker.batch}
    BY <1>2 DEF Sample, Arrivals
  <2>2. frames' = {f \in frames \cup {worker.batch} : f >= worker.batch - Cover}
    BY <1>2 DEF Sample, Pruned, Cover
  <2>3. ASSUME NEW f \in sampled'
        PROVE  f <= worker.batch /\ (f >= worker.batch - Cover => f \in frames')
    <3>1. CASE f = worker.batch
      BY <3>1, <2>2, <1>1
    <3>2. CASE f \in sampled
      <4>1. f \in Nat /\ f <= reached /\ (f >= reached - Cover => f \in frames)
        BY <3>2, <1>1 DEF Covered
      <4>2. f >= worker.batch - Cover => f >= reached - Cover
        BY <4>1, <1>1, <2>1
      <4> QED
        BY <4>1, <4>2, <2>1, <2>2, <1>1
    <3> QED
      BY <3>1, <3>2, <2>1
  <2>4. Covered'
    BY <2>1, <2>3 DEF Covered, Cover
  <2> QED
    BY <2>1, <2>4, <1>1
<1>3. CASE UNCHANGED ring
  BY <1>1, <1>3 DEF Covered, Cover
<1>4. Sample \/ UNCHANGED ring
  BY DEF Next, Publish, DropOldest, PutAgain, WorkerTake, WorkerExit, Ingest, IngestFails,
     EncodeFails, CleanupRead, CleanupEnd, CleanupFails, CleanupDelete, Schedule,
     ScheduleFails, ReviewEarly, ReviewRead, ReviewWrite, ReviewRaises, StopBegin, Flush,
     FlushFails, vars
<1> QED
  BY <1>2, <1>3, <1>4

\* Windows are opened no longer than the rolls, and never changed.
LEMMA SpannedStep ==
  ASSUME TypeOK, Spanned, [Next]_vars
  PROVE  Spanned'
<1> USE DEF stream, ring, captures
<1>1. ASSUME \A v \in Violations : pending'[v] = None \/ pending'[v] = pending[v]
      PROVE  Spanned'
  BY <1>1 DEF Spanned, Pending
<1>2. \A S : \A v \in Violations : Without(S)[v] = None \/ Without(S)[v] = pending[v]
  BY DEF Without
<1>3. CASE Ingest \/ IngestFails \/ Flush \/ FlushFails \/ \E v \in Violations : ScheduleFails(v)
  <2>1. \E S : pending' = Without(S)
    BY <1>3 DEF Ingest, IngestFails, Flush, FlushFails, ScheduleFails, Finalize, FinalizeFails
  <2> QED
    BY <2>1, <1>1, <1>2
<1>4. ASSUME NEW v \in Violations, NEW t \in 0 .. Horizon, Schedule(v, t) PROVE Spanned'
  <2>1. PICK S \in Room : pending' = [Without(S) EXCEPT ![v] = Window(t)]
    BY <1>4 DEF Schedule
  <2>2. /\ pending'[v] = Window(t)
        /\ \A w \in Violations \ {v} : pending'[w] = Without(S)[w]
    BY <2>1 DEF Without
  <2>3. Window(t).end - Window(t).start <= PreRoll + PostRoll
    BY BoundsAssumption, SizesAssumption DEF Window
  <2> QED
    BY <2>2, <2>3, <1>2 DEF Spanned, Pending
<1>5. CASE \/ \E t \in 1 .. Horizon : Publish(t)
           \/ DropOldest \/ PutAgain \/ WorkerTake \/ WorkerExit \/ EncodeFails
           \/ CleanupRead \/ CleanupEnd \/ CleanupFails \/ ReviewRaises \/ StopBegin
           \/ \E v \in Violations : CleanupDelete(v)
           \/ \E v \in Violations, d \in Decisions : ReviewEarly(v, d) \/ ReviewRead(v, d)
           \/ ReviewWrite \/ UNCHANGED vars
  <2>1. UNCHANGED pending
    BY <1>5 DEF Publish, DropOldest, PutAgain, WorkerTake, WorkerExit, EncodeFails, CleanupRead,
       CleanupEnd, CleanupFails, CleanupDelete, ReviewEarly, ReviewRead, ReviewWrite,
       ReviewRaises, StopBegin, vars
  <2> QED
    BY <2>1, <1>1
<1> QED
  BY <1>3, <1>4, <1>5 DEF Next

\* How a package may come to be or change: written by an ingest whose ring buffer
\* covers its window, written cut short, or as it was but for review and images.
Arrived(v) ==
  \/ /\ Sample /\ v \in Ready(worker.batch)
     /\ disk'[v] = Manifest(v, worker.batch, frames', FALSE)
  \/ disk'[v] # None /\ ~disk'[v].complete
  \/ /\ disk[v] # None /\ SameImages(v)
     /\ disk'[v].start = disk[v].start /\ disk'[v].end = disk[v].end

\* Of writing captures.
LEMMA CameWrite ==
  ASSUME PackageInv, NEW S \in SUBSET Pending, NEW L \in SUBSET Pending,
         NEW t \in Nat, NEW F \in SUBSET Nat, NEW partial \in BOOLEAN,
         Write(S, L, t, F, partial),
         partial \/ (Sample /\ S \subseteq Ready(worker.batch) /\ t = worker.batch /\ F = frames'),
         NEW v \in Violations, disk'[v] # None
  PROVE  Arrived(v)
<1>1. CASE v \in S
  <2>1. disk'[v] = Manifest(v, t, F, partial)
    BY <1>1 DEF Write
  <2>2. ASSUME partial PROVE ~disk'[v].complete
    <3>1. Manifest(v, t, F, partial).complete
            = ({f \in F : pending[v].start <= f /\ f <= pending[v].end} # {} /\ ~partial)
      BY DEF Manifest
    <3> QED
      BY <2>1, <2>2, <3>1, Zenon
  <2>3. partial = FALSE => Sample /\ v \in Ready(worker.batch) /\ t = worker.batch /\ F = frames'
    BY <1>1
  <2> QED
    BY <2>1, <2>2, <2>3 DEF Arrived
<1>2. CASE v \notin S
  <2>1. disk'[v] = disk[v]
    BY <1>2 DEF Write
  <2> QED
    BY <2>1 DEF Arrived, SameImages
<1> QED
  BY <1>1, <1>2

\* Of writes of which one fails.
LEMMA CameFailedWrite ==
  ASSUME PackageInv, NEW R \in SUBSET Pending,
         NEW t \in Nat, NEW F \in SUBSET Nat, NEW partial \in BOOLEAN,
         FinalizeFails(R, t, F, partial),
         partial \/ (Sample /\ R \subseteq Ready(worker.batch) /\ t = worker.batch /\ F = frames'),
         NEW v \in Violations, disk'[v] # None
  PROVE  Arrived(v)
<1>1. PICK w \in R : \E S \in SUBSET (R \ {w}), L \in {{}, {w}} : Write(S, L, t, F, partial)
  BY DEF FinalizeFails
<1>2. PICK S \in SUBSET (R \ {w}), L \in {{}, {w}} : Write(S, L, t, F, partial)
  BY <1>1
<1>3. S \in SUBSET Pending /\ L \in SUBSET Pending /\ S \subseteq R
  BY <1>1
<1> QED
  BY <1>2, <1>3, CameWrite

\* Of every step.
LEMMA ArrivedStep ==
  ASSUME PackageInv, [Next]_vars, NEW v \in Violations, disk'[v] # None
  PROVE  Arrived(v)
<1> USE DEF stream, ring, captures
<1>1. reached \in Nat /\ frames \in SUBSET Nat /\ worker.batch \in Nat
  BY DEF PackageInv, TypeOK
<1>2. {} \in SUBSET Pending /\ Pending \in SUBSET Pending /\ Ready(worker.batch) \in SUBSET Pending
  BY DEF Ready
<1>3. CASE UNCHANGED disk
  BY <1>3 DEF Arrived, SameImages
<1>4. CASE Ingest \/ IngestFails
  <2>1. frames' \in SUBSET Nat /\ Sample
    BY <1>1, <1>4 DEF Ingest, IngestFails, Sample, Pruned
  <2>2. CASE Ingest
    <3>1. Write(Ready(worker.batch), {}, worker.batch, frames', FALSE)
      BY <2>2 DEF Ingest, Finalize
    <3> QED
      BY <3>1, <1>1, <1>2, <2>1, CameWrite
  <2>3. CASE IngestFails
    <3>1. FinalizeFails(Ready(worker.batch), worker.batch, frames', FALSE)
      BY <2>3 DEF IngestFails
    <3> QED
      BY <3>1, <1>1, <1>2, <2>1, CameFailedWrite
  <2> QED
    BY <1>4, <2>2, <2>3
<1>5. CASE Flush
  <2>1. Write(Pending, {}, reached, frames, TRUE)
    BY <1>5 DEF Flush, Finalize
  <2> QED
    BY <2>1, <1>1, <1>2, CameWrite
<1>6. CASE FlushFails
  <2>1. FinalizeFails(Pending, reached, frames, TRUE)
    BY <1>6 DEF FlushFails
  <2> QED
    BY <2>1, <1>1, <1>2, CameFailedWrite
<1>7. ASSUME NEW w \in Violations, NEW t \in 0 .. Horizon, Schedule(w, t) PROVE Arrived(v)
  <2>1. PICK S \in Room : Write(S, {}, reached, frames, TRUE)
    BY <1>7 DEF Schedule, CutShort
  <2>2. S \in SUBSET Pending
    BY DEF Room
  <2> QED
    BY <2>1, <2>2, <1>1, <1>2, CameWrite
<1>8. ASSUME NEW w \in Violations, ScheduleFails(w) PROVE Arrived(v)
  <2>1. PICK x \in Pending : FinalizeFails({x}, reached, frames, TRUE)
    BY <1>8 DEF ScheduleFails
  <2>2. {x} \in SUBSET Pending
    OBVIOUS
  <2> QED
    BY <2>1, <2>2, <1>1, CameFailedWrite
<1>9. CASE (\E w \in Violations : CleanupDelete(w)) \/ CleanupFails \/ ReviewWrite
  <2>1. disk \in [Violations -> Manifests \cup {None}]
    BY DEF PackageInv, TypeOK
  <2>2. disk[v] # None =>
          /\ disk[v] \in Manifests
          /\ \A d : [disk[v] EXCEPT !.review = d].start = disk[v].start
          /\ [disk[v] EXCEPT !.kept = FALSE].start = disk[v].start
    BY <2>1 DEF Manifests
  <2>3. \/ disk'[v] = disk[v]
        \/ disk[v] \in Manifests /\ \E d : disk'[v] = [disk[v] EXCEPT !.review = d]
        \/ disk[v] \in Manifests /\ disk'[v] = [disk[v] EXCEPT !.kept = FALSE]
    <3>1. ASSUME NEW w \in Violations, CleanupDelete(w) PROVE disk'[v] = disk[v]
      BY <3>1, <2>1 DEF CleanupDelete
    <3>2. CASE ReviewWrite
      BY <3>2, <2>1 DEF ReviewWrite
    <3>3. CASE CleanupFails
      <4>1. \A w \in worker.doomed : w \in Violations /\ disk[w] \in Manifests
        BY <2>1 DEF PackageInv, TypeOK, DoomedReviewed
      <4> QED
        BY <3>3, <4>1, <2>1 DEF CleanupFails
    <3> QED
      BY <1>9, <3>1, <3>2, <3>3
  <2>4. CASE disk'[v] = disk[v]
    BY <2>4 DEF Arrived, SameImages
  <2>5. CASE disk[v] \in Manifests /\ \E d : disk'[v] = [disk[v] EXCEPT !.review = d]
    BY <2>5, NoneAssumption DEF Arrived, SameImages, Manifests
  <2>6. CASE disk[v] \in Manifests /\ disk'[v] = [disk[v] EXCEPT !.kept = FALSE]
    BY <2>6, NoneAssumption DEF Arrived, SameImages, Manifests
  <2> QED
    BY <2>3, <2>4, <2>5, <2>6
<1>10. CASE \/ \E t \in 1 .. Horizon : Publish(t)
            \/ DropOldest \/ PutAgain \/ WorkerTake \/ WorkerExit \/ EncodeFails
            \/ CleanupRead \/ CleanupEnd \/ ReviewRaises \/ StopBegin
            \/ \E w \in Violations, d \in Decisions : ReviewEarly(w, d) \/ ReviewRead(w, d)
            \/ UNCHANGED vars
  BY <1>3, <1>10 DEF Publish, DropOldest, PutAgain, WorkerTake, WorkerExit, EncodeFails,
     CleanupRead, CleanupEnd, ReviewRaises, StopBegin, ReviewEarly, ReviewRead, vars
<1> QED
  BY <1>4, <1>5, <1>6, <1>7, <1>8, <1>9, <1>10 DEF Next

\* A window that is written within the margin is covered, and what is sampled
\* later lies behind it.
LEMMA WindowStep == PackageInv /\ WindowInv /\ [Next]_vars => WindowInv'
<1> SUFFICES ASSUME PackageInv, WindowInv, [Next]_vars PROVE WindowInv'
  OBVIOUS
<1>1. TypeOK /\ Arrivals /\ Covered /\ Spanned
  BY DEF PackageInv, WindowInv
<1>2. Arrivals' /\ Covered' /\ Spanned' /\ reached <= reached'
      /\ \A f \in sampled' \ sampled : reached < f
  BY <1>1, ArrivalsStep, CoveredStep, SpannedStep
<1>3. TypeOK'
  BY PackageStep DEF PackageInv
<1>4. ASSUME NEW v \in Violations, disk'[v] # None, disk'[v].complete
      PROVE  /\ disk'[v].created <= reached' /\ disk'[v].end <= disk'[v].created
             /\ disk'[v].created <= disk'[v].end + Margin =>
                  \A f \in sampled' : disk'[v].start <= f /\ f <= disk'[v].end
                    => f \in disk'[v].images
  <2>1. disk'[v] \in Manifests /\ sampled' \in SUBSET Nat /\ reached \in Nat /\ reached' \in Nat
    BY <1>1, <1>3, <1>4 DEF TypeOK
  <2>2. CASE /\ Sample /\ v \in Ready(worker.batch)
             /\ disk'[v] = Manifest(v, worker.batch, frames', FALSE)
    <3>1. /\ pending[v] \in Windows /\ pending[v].end <= worker.batch
          /\ pending[v].end - pending[v].start <= PreRoll + PostRoll
      BY <1>1, <2>2 DEF Ready, Pending, Spanned, TypeOK
    <3>2. reached' = worker.batch /\ worker.batch \in Nat
      BY <1>1, <2>2 DEF Sample, TypeOK
    <3>3. /\ disk'[v].created = worker.batch
          /\ disk'[v].start = pending[v].start /\ disk'[v].end = pending[v].end
          /\ disk'[v].images = {f \in frames' : pending[v].start <= f /\ f <= pending[v].end}
      BY <2>2 DEF Manifest
    <3>4. ASSUME disk'[v].created <= disk'[v].end + Margin, NEW f \in sampled',
                 disk'[v].start <= f, f <= disk'[v].end
          PROVE  f \in disk'[v].images
      <4>1. f \in Nat /\ pending[v].start \in Int /\ pending[v].end \in Int
        BY <2>1, <3>1 DEF Windows
      <4>2. f >= worker.batch - Cover
        BY <3>1, <3>2, <3>3, <3>4, <4>1, SizesAssumption DEF Cover
      <4>3. f \in frames'
        BY <1>2, <3>2, <4>2 DEF Covered, Cover
      <4> QED
        BY <3>3, <3>4, <4>3
    <3> QED
      BY <3>1, <3>2, <3>3, <3>4
  <2>3. CASE ~disk'[v].complete
    BY <2>3, <1>4
  <2>4. CASE /\ disk[v] # None /\ SameImages(v)
             /\ disk'[v].start = disk[v].start /\ disk'[v].end = disk[v].end
    <3>1. v \in Stored /\ disk[v].complete /\ disk'[v].created = disk[v].created
          /\ disk'[v].images = disk[v].images
      BY <1>4, <2>4 DEF SameImages, Stored
    <3>2. disk[v].created <= reached /\ disk[v].end <= disk[v].created
      BY <3>1 DEF WindowInv, Timely
    <3>3. disk'[v].created \in Nat /\ disk'[v].end \in Int
      BY <2>1 DEF Manifests
    <3>4. ASSUME disk'[v].created <= disk'[v].end + Margin, NEW f \in sampled',
                 disk'[v].start <= f, f <= disk'[v].end
          PROVE  f \in disk'[v].images
      <4>1. f \in Nat /\ f <= reached
        BY <2>1, <2>4, <3>1, <3>2, <3>3, <3>4
      <4>2. f \in sampled
        BY <1>2, <2>1, <4>1
      <4> QED
        BY <2>4, <3>1, <3>4, <4>2 DEF WindowInv, WindowKept
    <3>5. disk'[v].created <= reached' /\ disk'[v].end <= disk'[v].created
      BY <1>2, <2>1, <2>4, <3>1, <3>2, <3>3
    <3> QED
      BY <3>4, <3>5
  <2> QED
    BY <1>4, <2>2, <2>3, <2>4, ArrivedStep DEF Arrived
<1>5. Timely' /\ WindowKept'
  BY <1>4 DEF Timely, WindowKept, Stored
<1> QED
  BY <1>2, <1>5 DEF WindowInv

\* COMPLETE evidence that was written within the margin of its window holds every
\* frame that was sampled in the window (LiveEvidenceBuffer.ingest, _prune).
THEOREM WindowIsKept == Spec => []WindowKept
<1>1. Init => WindowInv
  <2> SUFFICES ASSUME Init PROVE WindowInv
    OBVIOUS
  <2>1. Len(queue) = 0
    BY DEF Init
  <2>2. Arrivals
    BY <2>1 DEF Init, Arrivals, Idle, Resting
  <2>3. Covered /\ Spanned /\ Timely /\ WindowKept
    BY DEF Init, Covered, Spanned, Timely, WindowKept, Pending, Stored
  <2> QED
    BY <2>2, <2>3 DEF WindowInv
<1>2. WindowInv => WindowKept
  BY DEF WindowInv
<1> QED
  BY <1>1, <1>2, WindowStep, PackageInvariant, PTL DEF Spec

(***************************************************************************)
(* The page that shows the evidence: Console, with EvidenceViewer, which   *)
(* have a state and a specification of their own.                          *)
(***************************************************************************)

(***************************************************************************)
(* The alerts.                                                             *)
(***************************************************************************)
AlertsInv ==
  rows \in Seq(Keys) /\ latest.key \in Keys \cup {Null} /\ RowsDistinct

\* A new alert at the front of a list without it, and of the others those there
\* is room for.
LEMMA FrontDistinct ==
  ASSUME NEW key \in Keys, NEW all \in Seq(Keys), IsInjective(all),
         key \notin ToSet(all), NEW m \in 1 .. Len(all) + 1
  PROVE  /\ SubSeq(<<key>> \o all, 1, m) \in Seq(Keys)
         /\ Len(SubSeq(<<key>> \o all, 1, m)) = m
         /\ IsInjective(SubSeq(<<key>> \o all, 1, m))
         /\ ToSet(SubSeq(<<key>> \o all, 1, m)) = {key} \cup {all[k] : k \in 1 .. m - 1}
<1> DEFINE long == <<key>> \o all
           new == SubSeq(long, 1, m)
<1>1. Len(all) \in Nat /\ DOMAIN all = 1 .. Len(all) /\ \A k \in 1 .. Len(all) : all[k] \in Keys
  OBVIOUS
<1>2. /\ long \in Seq(Keys) /\ Len(long) = Len(all) + 1
      /\ \A k \in 1 .. Len(all) + 1 : long[k] = IF k = 1 THEN key ELSE all[k - 1]
  <2>1. <<key>> \in Seq(Keys) /\ Len(<<key>>) = 1 /\ <<key>>[1] = key
    OBVIOUS
  <2>2. /\ long \in Seq(Keys) /\ Len(long) = 1 + Len(all)
        /\ \A k \in 1 .. 1 + Len(all) : long[k] = IF k <= 1 THEN <<key>>[k] ELSE all[k - 1]
    BY <2>1, ConcatProperties
  <2> HIDE DEF long
  <2> QED
    BY <1>1, <2>1, <2>2
<1> HIDE DEF long
<1>3. /\ new \in Seq(Keys) /\ Len(new) = m
      /\ \A k \in 1 .. m : new[k] = long[k]
  <2>1. 1 \in Int /\ m \in Int /\ 1 <= m /\ m - 1 + 1 = m /\ \A k \in 1 .. m : 1 + k - 1 = k
    BY <1>1
  <2>2. \A k \in 1 .. m : long[k] \in Keys
    BY <1>1, <1>2
  <2>3. /\ new \in Seq(Keys) /\ Len(new) = m - 1 + 1
        /\ \A k \in 1 .. m - 1 + 1 : new[k] = long[1 + k - 1]
    BY <2>1, <2>2, SubSeqProperties
  <2> QED
    BY <2>1, <2>3
<1> HIDE DEF new
<1>4. /\ DOMAIN new = 1 .. m
      /\ \A k \in 1 .. m : new[k] = IF k = 1 THEN key ELSE all[k - 1]
  BY <1>1, <1>2, <1>3
<1>5. \A k \in 1 .. Len(all) : all[k] # key
  BY <1>1 DEF ToSet
<1>6. IsInjective(new)
  <2> SUFFICES ASSUME NEW a \in 1 .. m, NEW b \in 1 .. m, new[a] = new[b] PROVE a = b
    BY <1>4 DEF IsInjective
  <2>1. \A k \in 1 .. m : k # 1 => k - 1 \in 1 .. Len(all) /\ new[k] = all[k - 1]
    BY <1>1, <1>4
  <2>2. CASE a # 1 /\ b # 1
    <3>1. a - 1 = b - 1
      BY <1>1, <2>1, <2>2 DEF IsInjective
    <3> QED
      BY <3>1
  <2> QED
    BY <1>4, <1>5, <2>1, <2>2
<1>7. ToSet(new) = {key} \cup {all[k] : k \in 1 .. m - 1}
  <2>1. ASSUME NEW k \in 1 .. m PROVE new[k] \in {key} \cup {all[j] : j \in 1 .. m - 1}
    <3>1. CASE k = 1
      BY <1>4, <3>1
    <3>2. CASE k # 1
      <4>1. k - 1 \in 1 .. m - 1 /\ new[k] = all[k - 1]
        BY <1>4, <3>2
      <4> QED
        BY <4>1
    <3> QED
      BY <3>1, <3>2
  <2>2. key = new[1] /\ 1 \in 1 .. m
    BY <1>4
  <2>3. ASSUME NEW j \in 1 .. m - 1 PROVE \E k \in 1 .. m : all[j] = new[k]
    <3>1. j + 1 \in 1 .. m /\ j + 1 # 1 /\ j + 1 - 1 = j
      BY <1>1
    <3>2. new[j + 1] = all[j]
      BY <1>4, <3>1
    <3> QED
      BY <3>1, <3>2
  <2>4. ToSet(new) = {new[k] : k \in 1 .. m}
    BY <1>4 DEF ToSet
  <2> HIDE DEF long
  <2> QED
    BY <2>1, <2>2, <2>3, <2>4
<1> QED
  BY <1>3, <1>6, <1>7 DEF new, long

\* captureRealtimeIncidents() with a key, of the list or not.
LEMMA CapturedDistinct ==
  ASSUME AlertsInv, NEW key \in Keys \cup {Null}, Captured(key)
  PROVE  rows' \in Seq(Keys) /\ RowsDistinct'
<1>1. CASE key = Null \/ key \in keys
  <2>1. rows' = rows /\ keys' = keys
    BY <1>1 DEF Captured, alerts
  <2> QED
    BY <2>1 DEF AlertsInv, RowsDistinct
<1>2. CASE key # Null /\ key \notin keys
  <2> DEFINE n == Len(rows)
             m == IF n < Cap THEN n + 1 ELSE Cap
  <2>1. /\ rows' = SubSeq(<<key>> \o rows, 1, m)
        /\ keys' = IF n < Cap THEN keys \cup {key}
                   ELSE (keys \cup {key}) \ {Last(rows)}
    BY <1>2 DEF Captured
  <2>2. /\ rows \in Seq(Keys) /\ IsInjective(rows) /\ keys = ToSet(rows)
        /\ n \in Nat /\ n <= Cap /\ Cap \in Nat /\ 1 <= Cap /\ DOMAIN rows = 1 .. n
    BY CapAssumption DEF AlertsInv, RowsDistinct
  <2>3. m \in 1 .. n + 1 /\ m <= Cap
    BY <2>2
  <2>4. /\ rows' \in Seq(Keys) /\ Len(rows') = m /\ IsInjective(rows')
        /\ ToSet(rows') = {key} \cup {rows[k] : k \in 1 .. m - 1}
    <3> HIDE DEF m
    <3> QED
      BY <1>2, <2>1, <2>2, <2>3, FrontDistinct
  <2>5. keys' = {key} \cup {rows[k] : k \in 1 .. m - 1}
    <3>1. keys = {rows[k] : k \in 1 .. n}
      BY <2>2 DEF ToSet
    <3>2. CASE n < Cap
      <4>1. m - 1 = n
        BY <2>2, <3>2
      <4> QED
        BY <2>1, <3>1, <3>2, <4>1
    <3>3. CASE ~(n < Cap)
      <4> HIDE DEF n
      <4>1. n \in Nat /\ n = Cap /\ m = Cap /\ 1 <= Cap
        BY <2>2, <3>3
      <4>2. Last(rows) = rows[n]
        BY Zenon DEF Last, n
      <4> HIDE DEF m
      <4>3. m = n /\ n \in 1 .. n
        BY <4>1
      <4>4. \A k \in 1 .. n - 1 : k \in 1 .. n /\ k # n
        BY <4>1
      <4>5. \A k \in 1 .. n : k \in 1 .. n - 1 \/ k = n
        BY <4>1
      <4>6. \A k \in 1 .. n - 1 : rows[k] # rows[n]
        BY <2>2, <4>3, <4>4 DEF IsInjective
      <4>7. rows[n] # key
        BY <1>2, <3>1, <4>3
      <4>8. {rows[k] : k \in 1 .. n} \ {rows[n]} = {rows[k] : k \in 1 .. n - 1}
        BY <4>3, <4>4, <4>5, <4>6
      <4> QED
        BY <2>1, <3>1, <3>3, <4>2, <4>3, <4>7, <4>8 DEF n
    <3> QED
      BY <3>2, <3>3
  <2> QED
    BY <2>3, <2>4, <2>5 DEF RowsDistinct
<1> QED
  BY <1>1, <1>2

\* Nothing but a message, the operator who clears them, and the broker's next
\* event moves the alerts or the event that brings one.
LEMMA AlertsMove ==
  ASSUME PageNext
  PROVE  \/ UNCHANGED <<rows, keys, latest>>
         \/ PublishEvent \/ ClearAlerts \/ \E t \in Tickets : Receive(t)
<1> USE DEF alerts, serverVars
<1>1. Load \/ Poll \/ Retry => UNCHANGED <<rows, keys, latest>>
  BY DEF Load, LoadAnswered, LoadDrawn, Poll, Retry
<1>2. Connecting \/ Finish => UNCHANGED <<rows, keys, latest>>
  BY DEF Connecting, Authenticated, Connected, Finish,
         FinishServed, FinishReturns
<1>3. \A c \in Calls : Ask(c) \/ AskFails(c) => UNCHANGED <<rows, keys, latest>>
  BY DEF Ask, SocketOpened, Issue, AskFails
<1>4. \A t \in Tickets : Accept(t) \/ Reject(t) \/ TicketLost(t) \/ SocketLost(t)
        => UNCHANGED <<rows, keys, latest>>
  BY DEF Accept, Reject, TicketLost, SocketLost
<1>5. \A p \in Pushes : Push(p) => UNCHANGED <<rows, keys, latest>>
  BY DEF Push, PushFires, PushAnswered, PushDrawn
<1>6. SessionStarts \/ SessionEnds \/ Connect \/ AuthFails
        => UNCHANGED <<rows, keys, latest>>
  BY DEF SessionStarts, SessionEnds, Connect, AuthFails
<1>7. TabSwitched \/ Disconnect \/ FinishClicked \/ OperationReturns
        => UNCHANGED <<rows, keys, latest>>
  BY DEF TabSwitched, Disconnect, FinishClicked, OperationReturns
<1> QED
  BY <1>1, <1>2, <1>3, <1>4, <1>5, <1>6, <1>7, Zenon DEF PageNext, Stream

LEMMA AlertsStep ==
  ASSUME AlertsInv, [ConsoleNext]_consoleVars
  PROVE  AlertsInv'
<1>1. CASE UNCHANGED <<rows, keys, latest>>
  BY <1>1 DEF AlertsInv, RowsDistinct
<1>2. CASE PublishEvent
  <2>1. rows' = rows /\ keys' = keys /\ latest'.key \in Keys \cup {Null}
    BY <1>2 DEF PublishEvent, alerts
  <2> QED
    BY <2>1 DEF AlertsInv, RowsDistinct
<1>3. CASE ClearAlerts
  <2>1. rows' = <<>> /\ keys' = {} /\ latest' = latest
    BY <1>3 DEF ClearAlerts, serverVars
  <2>2. IsInjective(<<>>) /\ ToSet(<<>>) = {} /\ Len(<<>>) <= Cap
    BY CapAssumption DEF IsInjective, ToSet
  <2> QED
    BY <2>1, <2>2 DEF AlertsInv, RowsDistinct
<1>4. CASE \E t \in Tickets : Receive(t)
  <2>1. Captured(latest.key) /\ latest' = latest
    BY <1>4 DEF Receive, serverVars
  <2> QED
    BY <2>1, CapturedDistinct DEF AlertsInv
<1>5. CASE (ViewerNext /\ UNCHANGED pageVars) \/ UNCHANGED consoleVars
  BY <1>1, <1>5 DEF pageVars, consoleVars, alerts, serverVars
<1> QED
  BY <1>1, <1>2, <1>3, <1>4, <1>5, AlertsMove, Zenon DEF ConsoleNext

\* However often the stream repeats an event: the console's list of alerts has
\* one row for it, and its keys are those of its rows (captureRealtimeIncidents).
THEOREM AlertsAreDistinct == ConsoleSpec => []RowsDistinct
<1>1. ConsoleInit => AlertsInv
  <2>1. IsInjective(<<>>) /\ ToSet(<<>>) = {} /\ Len(<<>>) <= Cap
    BY CapAssumption DEF IsInjective, ToSet
  <2> QED
    BY <2>1 DEF ConsoleInit, AlertsInv, RowsDistinct
<1>2. AlertsInv /\ [ConsoleNext]_consoleVars => AlertsInv'
  BY AlertsStep
<1>3. AlertsInv => RowsDistinct
  BY DEF AlertsInv
<1> QED
  BY <1>1, <1>2, <1>3, PTL DEF ConsoleSpec

(***************************************************************************)
(* The evidence card.  A render is drawn only while its version is that of *)
(* the card's evidence; the invariant ties versions to positions, since    *)
(* every position that is asked for takes a new version.                   *)
(***************************************************************************)
Fetches == [session : Archive, for : {"detail", "both", "evidence", "timeline"}]
Cards == [session : Archive, asked : Nat, drawn : Nat, timer : BOOLEAN]

AskedFor(c, all, count, stale) ==
  /\ \A r \in all : r.version <= count /\ (r.version = count => r.position = c.asked)
  /\ c.drawn \in {0, c.asked}
  /\ stale \/ c.drawn = c.asked \/ \E r \in all : r.version = count

\* What the page shows is of earlier sessions, and the calls are typed.
Panes == /\ {selected, manifests, timeline} \subseteq Archive \cup {Null}
         /\ views \in [Views -> Fetches \cup {Null}]
Grid == /\ versions \in [Archive -> Nat] /\ timers \in [Archive -> Nat]
        /\ card = Null \/ card \in Cards
        /\ renders \subseteq [position : Nat, version : Nat]
        /\ superseded \in BOOLEAN
        /\ card = Null => renders = {}
        /\ card # Null => AskedFor(card, renders, versions[card.session], superseded)

ViewerInv == Panes /\ Grid

\* A card is not null.
LEMMA CardIsSome == \A c \in Cards : c # Null
  BY ArchiveAssumption DEF Cards

LEMMA ViewerTypes == ViewerInv => ViewerTypeOK
  BY DEF ViewerTypeOK, ViewerInv, Panes, Grid, Cards, Fetches

LEMMA ViewerInitially ==
  ASSUME ViewerInit
  PROVE  ViewerInv
<1>1. /\ selected = Null /\ manifests = Null /\ timeline = Null
      /\ views = [v \in Views |-> Null] /\ card = Null /\ renders = {}
      /\ versions = [s \in Archive |-> 0] /\ timers = [s \in Archive |-> 0]
      /\ superseded \in BOOLEAN
  BY DEF ViewerInit, Unread
<1> QED
  BY <1>1 DEF ViewerInv, Panes, Grid

\* The calls that load a session.
LEMMA ViewsTyped ==
  ASSUME NEW v \in Views, views \in [Views -> Fetches \cup {Null}]
  PROVE  /\ \A call \in Fetches \cup {Null} :
              [views EXCEPT ![v] = call] \in [Views -> Fetches \cup {Null}]
         /\ \A for : Waits(v, for) => views[v] \in Fetches
         /\ \A for : \A other \in {"timeline", "evidence"} :
              Waits(v, for) /\ Came(v, other) => views' \in [Views -> Fetches \cup {Null}]
         /\ \A for : Waits(v, for)
              => [views EXCEPT ![v].for = "both"] \in [Views -> Fetches \cup {Null}]
<1>1. views[v] \in Fetches \cup {Null}
  OBVIOUS
<1>2. \A for : Waits(v, for) => views[v] \in Fetches
  BY <1>1 DEF Waits
<1>3. \A call \in Fetches \cup {Null} :
        [views EXCEPT ![v] = call] \in [Views -> Fetches \cup {Null}]
  OBVIOUS
<1>4. \A f \in Fetches : \A for \in {"both", "timeline", "evidence"} :
        [f EXCEPT !.for = for] \in Fetches
  BY DEF Fetches
<1>5. ASSUME NEW other \in {"timeline", "evidence"}, NEW for, Waits(v, for), Came(v, other)
      PROVE  views' \in [Views -> Fetches \cup {Null}]
  <2>1. [views[v] EXCEPT !.for = other] \in Fetches
    BY <1>2, <1>4, <1>5
  <2>2. views' = [views EXCEPT ![v] = IF views[v].for = "both"
                                      THEN [views[v] EXCEPT !.for = other] ELSE Null]
    BY <1>5 DEF Came
  <2> QED
    BY <1>3, <2>1, <2>2
<1>6. ASSUME NEW for, Waits(v, for)
      PROVE  [views EXCEPT ![v].for = "both"] \in [Views -> Fetches \cup {Null}]
  <2>1. [views[v] EXCEPT !.for = "both"] \in Fetches
    BY <1>2, <1>4, <1>6
  <2>2. [views EXCEPT ![v].for = "both"] = [views EXCEPT ![v] = [views[v] EXCEPT !.for = "both"]]
    OBVIOUS
  <2> QED
    BY <1>3, <2>1, <2>2
<1> QED
  BY <1>2, <1>3, <1>5, <1>6

\* The card leaves the page, and with it what was to be drawn on it.
LEMMA DetachTyped ==
  ASSUME Grid, Detach
  PROVE  superseded' \in BOOLEAN /\ timers' \in [Archive -> Nat]
<1>1. timers \in [Archive -> Nat] /\ (card = Null \/ card \in Cards)
  BY DEF Grid, Cards
<1>2. superseded' \in BOOLEAN
  BY DEF Detach
<1>3. CASE card # Null /\ card.timer
  <2>1. timers' = [timers EXCEPT ![card.session] = @ + 1]
    BY <1>3 DEF Detach
  <2> QED
    BY <1>1, <1>2, <1>3, <2>1 DEF Cards
<1>4. CASE ~(card # Null /\ card.timer)
  <2>1. timers' = timers
    BY <1>4 DEF Detach
  <2> QED
    BY <1>1, <1>2, <2>1
<1> QED
  BY <1>3, <1>4

LEMMA GridStays == ASSUME Grid, UNCHANGED grid PROVE Grid'
<1>1. UNCHANGED <<versions, card, renders, timers, superseded>>
  BY DEF grid
<1> QED
  BY <1>1 DEF Grid, AskedFor

LEMMA PanesStay == ASSUME Panes, UNCHANGED loading PROVE Panes'
<1>1. UNCHANGED <<selected, views, manifests, timeline>>
  BY DEF loading
<1> QED
  BY <1>1 DEF Panes

\* The calls up to their awaits, and their answers.
LEMMA LoadingStep ==
  ASSUME Panes, NEW v \in Views
  PROVE  /\ \A s \in Archive : Open(v, s) => Panes'
         /\ DetailArrives(v) \/ DetailFails(v) \/ Reload(v) => Panes'
         /\ EvidenceArrives(v) \/ EvidenceFails(v) => Panes'
         /\ TimelineArrives(v) \/ TimelineFails(v) => Panes'
<1> DEFINE Ok == [Views -> Fetches \cup {Null}]
<1>1. /\ selected \in Archive \cup {Null} /\ manifests \in Archive \cup {Null}
      /\ timeline \in Archive \cup {Null} /\ views \in Ok
  BY DEF Panes
<1>2. \A call \in Fetches \cup {Null} : [views EXCEPT ![v] = call] \in Ok
  BY <1>1, ViewsTyped
<1>3. \A for : Waits(v, for) => views[v] \in Fetches
  BY <1>1, ViewsTyped
<1>4. \A for : \A other \in {"timeline", "evidence"} :
        Waits(v, for) /\ Came(v, other) => views' \in Ok
  BY <1>1, ViewsTyped
<1>5. \A for : Waits(v, for) => [views EXCEPT ![v].for = "both"] \in Ok
  BY <1>1, ViewsTyped
<1>6. \A f \in Fetches : f.session \in Archive
  BY DEF Fetches
<1>7. \A s \in Archive, for \in {"detail", "evidence"} : [session |-> s, for |-> for] \in Fetches
  BY DEF Fetches
<1> HIDE DEF Ok
<1>8. selected' \in Archive \cup {Null} /\ manifests' \in Archive \cup {Null}
        /\ timeline' \in Archive \cup {Null} /\ views' \in Ok => Panes'
  BY DEF Panes, Ok
<1>9. ASSUME NEW s \in Archive, Open(v, s) PROVE Panes'
  <2>1. /\ selected' = s /\ views' = [views EXCEPT ![v] = [session |-> s, for |-> "detail"]]
        /\ UNCHANGED <<manifests, timeline>>
    BY <1>9 DEF Open
  <2> QED
    BY <1>1, <1>2, <1>7, <1>8, <2>1
<1>10. ASSUME DetailArrives(v) PROVE Panes'
  <2>1. /\ Waits(v, {"detail"}) /\ views' = [views EXCEPT ![v].for = "both"]
        /\ manifests' = Null /\ UNCHANGED <<selected, timeline>>
    BY <1>10 DEF DetailArrives, Revoke
  <2> QED
    BY <1>1, <1>5, <1>8, <2>1
<1>11. ASSUME DetailFails(v) PROVE Panes'
  <2>1. /\ views' = [views EXCEPT ![v] = Null] /\ UNCHANGED <<selected, manifests, timeline>>
    BY <1>11 DEF DetailFails
  <2> QED
    BY <1>1, <1>2, <1>8, <2>1
<1>12. ASSUME Reload(v) PROVE Panes'
  <2>1. /\ selected # Null
        /\ views' = [views EXCEPT ![v] = [session |-> selected, for |-> "evidence"]]
        /\ manifests' = Null /\ UNCHANGED <<selected, timeline>>
    BY <1>12 DEF Reload, Revoke
  <2>2. [session |-> selected, for |-> "evidence"] \in Fetches
    BY <1>1, <1>7, <2>1
  <2> QED
    BY <1>1, <1>2, <1>8, <2>1, <2>2
<1>13. ASSUME EvidenceArrives(v) PROVE Panes'
  <2>1. /\ Waits(v, {"both", "evidence"}) /\ Came(v, "timeline")
        /\ manifests' = views[v].session /\ UNCHANGED <<selected, timeline>>
    BY <1>13 DEF EvidenceArrives
  <2>2. views[v].session \in Archive
    BY <1>3, <1>6, <2>1
  <2> QED
    BY <1>1, <1>4, <1>8, <2>1, <2>2
<1>14. ASSUME EvidenceFails(v) PROVE Panes'
  <2>1. /\ Waits(v, {"both", "evidence"}) /\ Came(v, "timeline")
        /\ UNCHANGED <<selected, manifests, timeline>>
    BY <1>14 DEF EvidenceFails
  <2> QED
    BY <1>1, <1>4, <1>8, <2>1
<1>15. ASSUME TimelineArrives(v) PROVE Panes'
  <2>1. /\ Waits(v, {"both", "timeline"}) /\ Came(v, "evidence")
        /\ timeline' = views[v].session /\ UNCHANGED <<selected, manifests>>
    BY <1>15 DEF TimelineArrives
  <2>2. views[v].session \in Archive
    BY <1>3, <1>6, <2>1
  <2> QED
    BY <1>1, <1>4, <1>8, <2>1, <2>2
<1>16. ASSUME TimelineFails(v) PROVE Panes'
  <2>1. /\ Waits(v, {"both", "timeline"}) /\ Came(v, "evidence")
        /\ timeline' = Null /\ UNCHANGED <<selected, manifests>>
    BY <1>16 DEF TimelineFails
  <2> QED
    BY <1>1, <1>4, <1>8, <2>1
<1> QED
  BY <1>9, <1>10, <1>11, <1>12, <1>13, <1>14, <1>15, <1>16

\* A card that has gone is drawn on no more.
LEMMA CardGone ==
  ASSUME Grid, Detach, card' = Null, renders' = {},
         versions' = versions \/ versions' = Unread
  PROVE  Grid'
<1>1. superseded' \in BOOLEAN /\ timers' \in [Archive -> Nat]
  BY DetachTyped
<1>2. versions' \in [Archive -> Nat]
  BY DEF Grid, Unread
<1> QED
  BY <1>1, <1>2 DEF Grid

\* Evidence that comes in is shown on a card of its own.
LEMMA CardShown ==
  ASSUME Grid, Panes, NEW v \in Views, EvidenceArrives(v)
  PROVE  Grid'
<1> DEFINE s == views[v].session
           moment == [position |-> 1, version |-> versions[s] + 1]
<1>1. /\ Detach /\ card' = Card(s)
      /\ versions' = [versions EXCEPT ![s] = @ + 1] /\ renders' = {moment}
      /\ Waits(v, {"both", "evidence"})
  BY DEF EvidenceArrives
<1>2. s \in Archive /\ versions \in [Archive -> Nat]
  <2>1. views[v] \in Fetches
    BY <1>1, ViewsTyped DEF Panes
  <2> QED
    BY <2>1 DEF Fetches, Grid
<1> HIDE DEF s
<1>3. superseded' \in BOOLEAN /\ timers' \in [Archive -> Nat]
  BY <1>1, DetachTyped
<1>4. versions' \in [Archive -> Nat] /\ versions'[s] = versions[s] + 1
  BY <1>1, <1>2
<1>5. /\ card' \in Cards /\ card'.session = s /\ card'.asked = 1 /\ card'.drawn = 0
      /\ card' # Null
  <2>1. card' = [session |-> s, asked |-> 1, drawn |-> 0, timer |-> FALSE]
    BY <1>1 DEF Card
  <2>2. card' \in Cards
    BY <1>2, <2>1 DEF Cards
  <2> QED
    BY <2>1, <2>2, CardIsSome
<1>6. moment \in [position : Nat, version : Nat] /\ moment.position = 1
        /\ moment.version = versions'[s]
  BY <1>2, <1>4
<1>7. AskedFor(card', renders', versions'[s], superseded')
  BY <1>1, <1>4, <1>5, <1>6 DEF AskedFor
<1> QED
  BY <1>1, <1>3, <1>4, <1>5, <1>6, <1>7 DEF Grid

\* A position that is asked for takes a new version.
LEMMA CardAsked ==
  ASSUME Grid, TimerFires
  PROVE  Grid'
<1> DEFINE s == card.session
           moment == [position |-> card.asked + 1, version |-> versions[s] + 1]
<1>1. /\ card # Null
      /\ card' = [card EXCEPT !.timer = FALSE, !.asked = @ + 1, !.drawn = 0]
      /\ versions' = [versions EXCEPT ![s] = @ + 1] /\ renders' = renders \cup {moment}
      /\ superseded' = FALSE /\ timers' = timers
  BY DEF TimerFires
<1>2. /\ card \in Cards /\ s \in Archive /\ versions \in [Archive -> Nat]
      /\ versions[s] \in Nat /\ card.asked \in Nat
      /\ renders \subseteq [position : Nat, version : Nat]
      /\ timers \in [Archive -> Nat]
      /\ \A r \in renders : r.version <= versions[s]
  BY <1>1 DEF Grid, Cards, AskedFor
<1>3. /\ card' \in Cards /\ card'.session = s /\ card'.asked = card.asked + 1 /\ card'.drawn = 0
      /\ card' # Null
  <2>1. card' = [session |-> s, asked |-> card.asked + 1, drawn |-> 0, timer |-> FALSE]
    BY <1>1, <1>2 DEF Cards
  <2>2. card' \in Cards
    BY <1>2, <2>1 DEF Cards
  <2> QED
    BY <2>1, <2>2, CardIsSome
<1> HIDE DEF s
<1>4. versions' \in [Archive -> Nat] /\ versions'[s] = versions[s] + 1
  BY <1>1, <1>2
<1>5. moment \in [position : Nat, version : Nat] /\ moment.position = card'.asked
        /\ moment.version = versions'[s]
  BY <1>2, <1>3, <1>4
<1> HIDE DEF moment
<1>6. \A r \in renders : r.version \in Nat /\ r.version < versions'[s]
  BY <1>2, <1>4
<1>7. AskedFor(card', renders', versions'[s], superseded')
  BY <1>1, <1>3, <1>4, <1>5, <1>6, <1>2 DEF AskedFor
<1> QED
  BY <1>1, <1>2, <1>3, <1>4, <1>5, <1>7 DEF Grid

\* A timer of a card that is gone makes what is under way outdated, and says so.
LEMMA CardOutdated ==
  ASSUME Grid, NEW s \in Archive, StrayTimerFires(s)
  PROVE  Grid'
<1>1. /\ timers[s] > 0 /\ timers' = [timers EXCEPT ![s] = @ - 1]
      /\ versions' = [versions EXCEPT ![s] = @ + 1]
      /\ superseded' = (superseded \/ (card # Null /\ card.session = s))
      /\ card' = card /\ renders' = renders
  BY DEF StrayTimerFires
<1>2. /\ versions \in [Archive -> Nat] /\ timers \in [Archive -> Nat]
      /\ card = Null \/ card \in Cards
      /\ renders \subseteq [position : Nat, version : Nat]
      /\ card = Null => renders = {}
  BY DEF Grid
<1>3. versions' \in [Archive -> Nat] /\ timers' \in [Archive -> Nat] /\ superseded' \in BOOLEAN
  BY <1>1, <1>2
<1>4. ASSUME card # Null PROVE AskedFor(card, renders, versions'[card.session], superseded')
  <2>1. AskedFor(card, renders, versions[card.session], superseded) /\ card.session \in Archive
    BY <1>2, <1>4 DEF Grid, Cards
  <2>2. CASE card.session = s
    <3>1. /\ versions'[s] = versions[s] + 1 /\ versions[s] \in Nat /\ superseded'
          /\ \A r \in renders : r.version \in Nat
      BY <1>1, <1>2, <1>4, <2>2
    <3>2. \A r \in renders : r.version < versions'[s]
      BY <2>1, <2>2, <3>1 DEF AskedFor
    <3>3. /\ \A r \in renders : r.version <= versions'[s] /\ r.version # versions'[s]
          /\ card.drawn \in {0, card.asked}
      BY <2>1, <3>1, <3>2 DEF AskedFor
    <3> QED
      BY <2>2, <3>1, <3>3 DEF AskedFor
  <2>3. CASE card.session # s
    <3>1. versions'[card.session] = versions[card.session] /\ (superseded => superseded')
      BY <1>1, <1>2, <2>1, <2>3
    <3> QED
      BY <2>1, <3>1 DEF AskedFor
  <2> QED
    BY <2>2, <2>3
<1> QED
  BY <1>1, <1>2, <1>3, <1>4 DEF Grid

\* The images that come are drawn if nothing was asked for since.
LEMMA CardDrawn ==
  ASSUME Grid, NEW r \in renders, MomentRendered(r)
  PROVE  Grid'
<1>1. /\ renders' = renders \ {r} /\ UNCHANGED <<versions, timers, superseded>>
      /\ card' = IF versions[card.session] = r.version
                 THEN [card EXCEPT !.drawn = r.position] ELSE card
  BY DEF MomentRendered
<1>2. /\ card # Null /\ card \in Cards /\ r \in [position : Nat, version : Nat]
      /\ versions \in [Archive -> Nat] /\ timers \in [Archive -> Nat]
      /\ renders \subseteq [position : Nat, version : Nat] /\ superseded \in BOOLEAN
      /\ AskedFor(card, renders, versions[card.session], superseded)
  BY DEF Grid
<1>3. CASE versions[card.session] = r.version
  <2>1. card' = [card EXCEPT !.drawn = r.position] /\ r.position = card.asked
    BY <1>1, <1>2, <1>3 DEF AskedFor
  <2>2. /\ card' \in Cards /\ card' # Null /\ card'.session = card.session
        /\ card'.asked = card.asked /\ card'.drawn = card.asked
    BY <1>2, <2>1, ArchiveAssumption DEF Cards
  <2>3. AskedFor(card', renders', versions'[card'.session], superseded')
    BY <1>1, <1>2, <2>2 DEF AskedFor
  <2> QED
    BY <1>1, <1>2, <2>2, <2>3 DEF Grid
<1>4. CASE versions[card.session] # r.version
  <2>1. card' = card
    BY <1>1, <1>4
  <2>2. AskedFor(card, renders', versions[card.session], superseded)
    BY <1>1, <1>2, <1>4 DEF AskedFor
  <2> QED
    BY <1>1, <1>2, <2>1, <2>2 DEF Grid
<1> QED
  BY <1>3, <1>4

\* The slider is moved.
LEMMA CardMoved ==
  ASSUME Grid, Slide
  PROVE  Grid'
<1>1. /\ card # Null /\ card' = [card EXCEPT !.timer = TRUE]
      /\ UNCHANGED <<versions, renders, timers, superseded>>
  BY DEF Slide
<1>2. card \in Cards /\ AskedFor(card, renders, versions[card.session], superseded)
  BY <1>1 DEF Grid
<1>3. /\ card' \in Cards /\ card' # Null /\ card'.session = card.session
      /\ card'.asked = card.asked /\ card'.drawn = card.drawn
  BY <1>1, <1>2, ArchiveAssumption DEF Cards
<1>4. AskedFor(card', renders', versions'[card'.session], superseded')
  BY <1>1, <1>2, <1>3 DEF AskedFor
<1> QED
  BY <1>1, <1>3, <1>4 DEF Grid

LEMMA ViewerStep ==
  ASSUME ViewerInv, [ConsoleNext]_consoleVars
  PROVE  ViewerInv'
<1> USE DEF ViewerInv
<1>1. ASSUME UNCHANGED loading, UNCHANGED grid PROVE ViewerInv'
  BY <1>1, PanesStay, GridStays
<1>2. ASSUME NEW v \in Views, NEW s \in Archive, Open(v, s) PROVE ViewerInv'
  <2>1. UNCHANGED grid
    BY <1>2 DEF Open
  <2> QED
    BY <1>2, <2>1, LoadingStep, GridStays
<1>3. ASSUME NEW v \in Views,
             DetailFails(v) \/ TimelineArrives(v) \/ TimelineFails(v)
      PROVE  ViewerInv'
  <2>1. UNCHANGED grid
    BY <1>3 DEF DetailFails, TimelineArrives, TimelineFails
  <2> QED
    BY <1>3, <2>1, LoadingStep, GridStays
<1>4. ASSUME NEW v \in Views, DetailArrives(v) \/ Reload(v) PROVE ViewerInv'
  <2>1. Detach /\ card' = Null /\ renders' = {} /\ versions' = Unread
    BY <1>4 DEF DetailArrives, Reload, Revoke
  <2> QED
    BY <1>4, <2>1, LoadingStep, CardGone
<1>5. ASSUME NEW v \in Views, EvidenceFails(v) PROVE ViewerInv'
  <2>1. Detach /\ card' = Null /\ renders' = {} /\ versions' = versions
    BY <1>5 DEF EvidenceFails
  <2> QED
    BY <1>5, <2>1, LoadingStep, CardGone
<1>6. ASSUME NEW v \in Views, EvidenceArrives(v) PROVE ViewerInv'
  BY <1>6, LoadingStep, CardShown
<1>7. ASSUME Slide \/ FocusTimelineEvidence PROVE ViewerInv'
  <2>1. Slide /\ UNCHANGED loading
    BY <1>7 DEF FocusTimelineEvidence, Slide
  <2> QED
    BY <2>1, PanesStay, CardMoved
<1>8. ASSUME TimerFires PROVE ViewerInv'
  <2>1. UNCHANGED loading
    BY <1>8 DEF TimerFires
  <2> QED
    BY <1>8, <2>1, PanesStay, CardAsked
<1>9. ASSUME NEW s \in Archive, StrayTimerFires(s) PROVE ViewerInv'
  <2>1. UNCHANGED loading
    BY <1>9 DEF StrayTimerFires
  <2> QED
    BY <1>9, <2>1, PanesStay, CardOutdated
<1>10. ASSUME NEW r \in renders, MomentRendered(r) PROVE ViewerInv'
  <2>1. UNCHANGED loading
    BY <1>10 DEF MomentRendered
  <2> QED
    BY <1>10, <2>1, PanesStay, CardDrawn
<1>11. Alone \/ UNCHANGED consoleVars => UNCHANGED loading /\ UNCHANGED grid
  BY DEF Alone, consoleVars, viewerVars
<1> HIDE DEF ViewerInv
<1> QED
  BY <1>1, <1>2, <1>3, <1>4, <1>5, <1>6, <1>7, <1>8, <1>9, <1>10, <1>11, Zenon
     DEF ConsoleNext, ViewerNext

LEMMA ViewerEnough == ViewerInv => LatestPosition
<1> SUFFICES ASSUME ViewerInv, card # Null
             PROVE  /\ card.drawn \in {0, card.asked}
                    /\ renders = {} /\ ~superseded => card.drawn = card.asked
  BY DEF LatestPosition
<1> QED
  BY DEF ViewerInv, Grid, AskedFor

\* Whatever renders, answers and timers overtake one another: an evidence card
\* shows the position that was asked for last, or nothing, and it does show it
\* in the end unless a timer of a replaced card came between
\* (renderEvidenceMoment and its versions).
THEOREM LatestPositionShows == ConsoleSpec => []LatestPosition
<1>1. ConsoleInit => ViewerInv
  BY ViewerInitially DEF ConsoleInit
<1>2. ViewerInv /\ [ConsoleNext]_consoleVars => ViewerInv'
  BY ViewerStep
<1>3. ViewerInv => LatestPosition
  BY ViewerEnough
<1> QED
  BY <1>1, <1>2, <1>3, PTL DEF ConsoleSpec

(***************************************************************************)
(* The types of the page.  A call of connect() waits for a refreshAll()    *)
(* exactly while the one that it started is under way.                     *)
(***************************************************************************)
Budgets == {"sessions", "events", "connects", "faults", "clicks", "moves"}
SocketRecords == [state : {"connecting", "open", "closed"}, sequence : Nat]

LeftOk == left \in [Budgets -> Nat]
ServerOk == /\ server \in [sid : Nat, running : BOOLEAN]
            /\ latest \in [sequence : Nat, key : Keys \cup {Null}]
            /\ issued \subseteq Tickets
LoadOk == /\ refreshing \in BOOLEAN
          /\ load \in Loads \cup {Null}
          /\ refreshing <=> load # Null
          /\ connecting \in [{"auth", "refresh", "preflight"} -> Nat]
          /\ load # Null /\ load.by = "connect" => connecting.refresh > 0
ShownOk == /\ shown \in Sessions \cup {Null}
           /\ push \in [Pushes -> Answers \cup {Null}]
StreamOk == /\ {connected, polling, hidden, pushTimer, retry} \subseteq BOOLEAN
            /\ asking \in [Calls -> Tickets \cup {Null, Sent}]
            /\ socket \in Tickets \cup {Null}
            /\ sockets \in [Tickets -> SocketRecords]
            /\ stray \in Nat
Requests == [named : Nat, pc : {"sent", "ended", "refused"}, ended : Nat]
RequestOk == request \in Requests \cup {Null}

PageInv == LeftOk /\ ServerOk /\ LoadOk /\ ShownOk /\ StreamOk /\ RequestOk

LEMMA PageTypes == PageInv /\ ViewerInv => ConsoleTypeOK
<1> SUFFICES ASSUME PageInv, ViewerInv PROVE ConsoleTypeOK
  OBVIOUS
<1>1. ViewerTypeOK
  BY ViewerTypes
<1>2. /\ left \in [Budgets -> Nat] /\ ServerOk
      /\ request = Null \/ request.pc \in {Sent, "ended", "refused"}
  BY DEF PageInv, LeftOk, RequestOk, Requests, Sent
<1>3. /\ {connected, polling, hidden, refreshing, pushTimer, retry} \subseteq BOOLEAN
      /\ connecting \in [{"auth", "refresh", "preflight"} -> Nat]
      /\ shown \in Sessions \cup {Null}
      /\ refreshing <=> load # Null
  BY DEF PageInv, LoadOk, ShownOk, StreamOk
<1>4. /\ asking \in [Calls -> Tickets \cup {Null, Sent}]
      /\ socket \in Tickets \cup {Null}
      /\ sockets \in [Tickets -> SocketRecords] /\ stray \in Nat
  BY DEF PageInv, StreamOk
<1> QED
  BY <1>1, <1>2, <1>3, <1>4 DEF ConsoleTypeOK, Budgets, SocketRecords, ServerOk

LEMMA PageInitially ==
  ASSUME ConsoleInit
  PROVE  PageInv
<1>1. LeftOk
  <2>1. left \in [sessions : Nat, events : Nat, connects : Nat, faults : Nat,
                  clicks : Nat, moves : Nat]
    BY BoundAssumption DEF ConsoleInit
  <2> QED
    BY <2>1, Zenon DEF LeftOk, Budgets
<1>2. ServerOk
  BY DEF ConsoleInit, ServerOk
<1>3. LoadOk
  <2>1. connecting = [auth |-> 0, refresh |-> 0, preflight |-> 0]
    BY DEF ConsoleInit
  <2>2. DOMAIN connecting = {"auth", "refresh", "preflight"}
    BY <2>1
  <2>3. connecting \in [{"auth", "refresh", "preflight"} -> Nat]
    BY <2>1, <2>2
  <2> QED
    BY <2>3 DEF ConsoleInit, LoadOk
<1>4. ShownOk
  BY DEF ConsoleInit, ShownOk
<1>5. StreamOk
  BY DEF ConsoleInit, StreamOk, Closed, Socket, SocketRecords
<1>6. RequestOk
  BY DEF ConsoleInit, RequestOk
<1> QED
  BY <1>1, <1>2, <1>3, <1>4, <1>5, <1>6 DEF PageInv

\* What is left is spent one by one.
LEMMA SpendTyped ==
  ASSUME LeftOk, NEW what \in Budgets, Spend(what)
  PROVE  LeftOk'
  BY DEF LeftOk, Spend

LEMMA LeftStep ==
  ASSUME LeftOk, [ConsoleNext]_consoleVars
  PROVE  LeftOk'
<1>1. \A what \in Budgets : Spend(what) => LeftOk'
  BY SpendTyped
<1>2. left' = left => LeftOk'
  BY DEF LeftOk
<1>3. Failing \/ left' = left => LeftOk'
  BY <1>1, <1>2 DEF Failing, Budgets
<1>4. ASSUME ViewerNext PROVE LeftOk'
  BY <1>1, <1>2, <1>4 DEF Budgets, ViewerNext, Open, DetailArrives,
     DetailFails, Reload, EvidenceArrives, EvidenceFails,
     TimelineArrives, TimelineFails, Slide, FocusTimelineEvidence,
     TimerFires, StrayTimerFires, MomentRendered
<1>5. ASSUME SessionStarts \/ PublishEvent \/ Connect PROVE LeftOk'
  BY <1>1, <1>5 DEF Budgets, SessionStarts, PublishEvent, Connect
<1>6. ASSUME NEW c \in Calls, Ask(c) \/ AskFails(c) PROVE LeftOk'
  BY <1>3, <1>6 DEF Ask, Issue, SocketOpened, AskFails
<1>7. ASSUME NEW t \in Tickets, Stream(t) \/ TicketLost(t) \/ SocketLost(t)
      PROVE  LeftOk'
  BY <1>3, <1>7 DEF Stream, Accept, Reject, Receive, TicketLost,
     SocketLost
<1>8. ASSUME NEW p \in Pushes, Push(p) PROVE LeftOk'
  BY <1>3, <1>8 DEF Push, PushFires, PushAnswered, PushDrawn
<1>9. ASSUME Load \/ Poll \/ Retry \/ Connecting \/ Finish
      PROVE  LeftOk'
  BY <1>3, <1>9 DEF Load, LoadAnswered, LoadDrawn, Poll, Retry,
     Connecting, Authenticated, Connected, Finish, FinishServed,
     FinishReturns
<1>10. ASSUME SessionEnds \/ ClearAlerts \/ AuthFails \/ Disconnect
              \/ FinishClicked \/ OperationReturns \/ TabSwitched
       PROVE  LeftOk'
  BY <1>3, <1>10 DEF TabSwitched, SessionEnds, ClearAlerts, AuthFails, Disconnect,
     FinishClicked, OperationReturns
<1>11. UNCHANGED consoleVars => left' = left
  BY DEF consoleVars
<1> QED
  BY <1>2, <1>4, <1>5, <1>6, <1>7, <1>8, <1>9, <1>10, <1>11, Zenon
     DEF ConsoleNext, PageNext

LEMMA ServerStep ==
  ASSUME ServerOk, PageNext
  PROVE  ServerOk'
<1>1. /\ server \in [sid : Nat, running : BOOLEAN]
      /\ latest \in [sequence : Nat, key : Keys \cup {Null}]
      /\ issued \subseteq Tickets
  BY DEF ServerOk
<1>2. UNCHANGED serverVars => ServerOk'
  BY <1>1 DEF serverVars, ServerOk
<1>3. ASSUME SessionStarts PROVE ServerOk'
  <2>1. server' = [sid |-> server.sid + 1, running |-> TRUE] /\ UNCHANGED <<latest, issued>>
    BY <1>3 DEF SessionStarts
  <2> QED
    BY <1>1, <2>1 DEF ServerOk
<1>4. ASSUME server' = [server EXCEPT !.running = FALSE], UNCHANGED <<latest, issued>>
      PROVE  ServerOk'
  <2>1. server' = [sid |-> server.sid, running |-> FALSE]
    BY <1>1, <1>4
  <2> QED
    BY <1>1, <1>4, <2>1 DEF ServerOk
<1>5. ASSUME PublishEvent PROVE ServerOk'
  BY <1>1, <1>5 DEF PublishEvent, ServerOk
<1>6. ASSUME NEW c \in Calls, NEW t \in Tickets, Issue(c, t) PROVE ServerOk'
  BY <1>1, <1>6 DEF Issue, ServerOk
<1>7. ASSUME NEW t \in Tickets, TicketLost(t) \/ Accept(t) PROVE ServerOk'
  BY <1>1, <1>7 DEF TicketLost, Accept, ServerOk
<1>8. ASSUME FinishServed PROVE ServerOk'
  BY <1>2, <1>4, <1>8 DEF FinishServed, serverVars
<1>9. SessionEnds => ServerOk'
  BY <1>4 DEF SessionEnds
<1>10. ASSUME NEW c \in Calls, Ask(c) \/ AskFails(c) PROVE ServerOk'
  BY <1>2, <1>6, <1>10 DEF Ask, SocketOpened, AskFails
<1>11. ASSUME NEW t \in Tickets, Reject(t) \/ Receive(t) \/ SocketLost(t)
       PROVE  ServerOk'
  BY <1>2, <1>11 DEF Reject, Receive, SocketLost
<1>12. ASSUME NEW p \in Pushes, Push(p) PROVE ServerOk'
  BY <1>2, <1>12 DEF Push, PushFires, PushAnswered, PushDrawn
<1>13. ASSUME Load \/ Poll \/ Retry \/ Connecting \/ FinishReturns
       PROVE  ServerOk'
  BY <1>2, <1>13 DEF Load, LoadAnswered, LoadDrawn, Poll, Retry,
     Connecting, Authenticated, Connected, FinishReturns
<1>14. ASSUME Connect \/ ClearAlerts \/ AuthFails \/ Disconnect
              \/ FinishClicked \/ OperationReturns \/ TabSwitched
       PROVE  ServerOk'
  BY <1>2, <1>14 DEF TabSwitched, Connect, ClearAlerts, AuthFails, Disconnect,
     FinishClicked, OperationReturns
<1> QED
  BY <1>3, <1>5, <1>7, <1>8, <1>9, <1>10, <1>11, <1>12, <1>13, <1>14, Zenon
     DEF PageNext, Stream, Finish

\* What the server answers is a session, or that there is none.
LEMMA AnswersTyped ==
  ASSUME ServerOk
  PROVE  /\ Answered(Current) \in Answers
         /\ Answered(Null) \in Answers
         /\ Asked \in Answers
         /\ \A a \in Answers : a.session \in Sessions \cup {Null}
<1>1. Current \in Sessions \cup {Null}
  BY DEF ServerOk, Current, Sessions
<1> HIDE DEF Current, Sessions
<1> QED
  BY <1>1 DEF Answered, Answers, Asked

LEMMA ShownStep ==
  ASSUME ServerOk, LoadOk, ShownOk, PageNext
  PROVE  ShownOk'
<1>1. /\ shown \in Sessions \cup {Null} /\ push \in [Pushes -> Answers \cup {Null}]
      /\ load \in Loads \cup {Null}
  BY DEF ShownOk, LoadOk
<1>2. UNCHANGED <<shown, push>> => ShownOk'
  BY DEF ShownOk
<1>3. /\ Answered(Current) \in Answers
      /\ Answered(Null) \in Answers
      /\ Asked \in Answers
      /\ \A a \in Answers : a.session \in Sessions \cup {Null}
  BY AnswersTyped
<1>4. ASSUME LoadDrawn PROVE ShownOk'
  <2>1. load # Null /\ shown' = load.answer.session /\ push' = push
    BY <1>4 DEF LoadDrawn
  <2>2. load.answer \in Answers
    BY <1>1, <2>1 DEF Loads
  <2> QED
    BY <1>1, <1>3, <2>1, <2>2 DEF ShownOk
<1>5. ASSUME NEW p \in Pushes, Push(p) PROVE ShownOk'
  <2>1. CASE PushDrawn(p)
    <3>1. /\ push[p] # Null /\ shown' = push[p].session /\ push' = [push EXCEPT ![p] = Null]
      BY <2>1 DEF PushDrawn
    <3>2. push[p] \in Answers
      BY <1>1, <3>1
    <3> QED
      BY <1>1, <1>3, <3>1, <3>2 DEF ShownOk
  <2>2. CASE PushFires(p) \/ PushAnswered(p)
    <3>1. shown' = shown /\ \E a \in Answers : push' = [push EXCEPT ![p] = a]
      BY <1>3, <2>2 DEF PushFires, PushAnswered
    <3> QED
      BY <1>1, <3>1 DEF ShownOk
  <2> QED
    BY <1>5, <2>1, <2>2 DEF Push
<1>6. ASSUME NEW c \in Calls, Ask(c) \/ AskFails(c) PROVE ShownOk'
  BY <1>2, <1>6 DEF Ask, Issue, SocketOpened, AskFails, view
<1>7. ASSUME NEW t \in Tickets, Stream(t) \/ TicketLost(t) \/ SocketLost(t)
      PROVE  ShownOk'
  BY <1>2, <1>7 DEF Stream, Accept, Reject, Receive, TicketLost,
     SocketLost, view
<1>8. ASSUME LoadAnswered \/ Poll \/ Retry \/ Connecting \/ Finish
      PROVE  ShownOk'
  BY <1>2, <1>8 DEF LoadAnswered, Poll, Retry, Connecting,
     Authenticated, Connected, Finish, FinishServed, FinishReturns,
     view
<1>9. ASSUME SessionStarts \/ SessionEnds \/ PublishEvent \/ ClearAlerts
             \/ Connect \/ AuthFails \/ Disconnect \/ FinishClicked
             \/ OperationReturns \/ TabSwitched
      PROVE  ShownOk'
  BY <1>2, <1>9 DEF TabSwitched, SessionStarts, SessionEnds, PublishEvent, ClearAlerts,
     Connect, AuthFails, Disconnect, FinishClicked,
     OperationReturns, view
<1> QED
  BY <1>4, <1>5, <1>6, <1>7, <1>8, <1>9, Zenon DEF PageNext, Load

\* What finishSession() is told.
LEMMA RequestStep ==
  ASSUME ServerOk, ShownOk, RequestOk, PageNext
  PROVE  RequestOk'
<1>1. UNCHANGED request => RequestOk'
  BY DEF RequestOk
<1>2. ASSUME FinishClicked \/ FinishReturns PROVE RequestOk'
  <2>1. CASE FinishClicked
    <3>1. /\ shown # Null
          /\ request' = [named |-> shown.sid, pc |-> "sent", ended |-> 0]
      BY <2>1 DEF FinishClicked, Sent
    <3>2. shown.sid \in Nat
      BY <3>1 DEF ShownOk, Sessions
    <3> QED
      BY <3>1, <3>2 DEF RequestOk, Requests
  <2>2. CASE FinishReturns
    BY <2>2 DEF FinishReturns, RequestOk
  <2> QED
    BY <1>2, <2>1, <2>2
<1>3. ASSUME FinishServed PROVE RequestOk'
  <2>1. request \in Requests /\ server.sid \in Nat
    BY <1>3 DEF FinishServed, RequestOk, ServerOk
  <2>2. CASE server.running /\ server.sid = request.named
    <3>1. request' = [request EXCEPT !.pc = "ended", !.ended = server.sid]
      BY <1>3, <2>2 DEF FinishServed
    <3>2. request' = [named |-> request.named, pc |-> "ended", ended |-> server.sid]
      BY <2>1, <3>1 DEF Requests
    <3> QED
      BY <2>1, <3>2 DEF RequestOk, Requests
  <2>3. CASE ~(server.running /\ server.sid = request.named)
    <3>1. request' = [request EXCEPT !.pc = "refused"]
      BY <1>3, <2>3 DEF FinishServed
    <3>2. request' = [named |-> request.named, pc |-> "refused", ended |-> request.ended]
      BY <2>1, <3>1 DEF Requests
    <3> QED
      BY <2>1, <3>2 DEF RequestOk, Requests
  <2> QED
    BY <2>2, <2>3
<1>4. ASSUME NEW c \in Calls, Ask(c) \/ AskFails(c) PROVE RequestOk'
  BY <1>1, <1>4 DEF Ask, Issue, SocketOpened, AskFails
<1>5. ASSUME NEW t \in Tickets, Stream(t) \/ TicketLost(t) \/ SocketLost(t)
      PROVE  RequestOk'
  BY <1>1, <1>5 DEF Stream, Accept, Reject, Receive, TicketLost,
     SocketLost
<1>6. ASSUME NEW p \in Pushes, Push(p) PROVE RequestOk'
  BY <1>1, <1>6 DEF Push, PushFires, PushAnswered, PushDrawn
<1>7. ASSUME Load \/ Poll \/ Retry \/ Connecting PROVE RequestOk'
  BY <1>1, <1>7 DEF Load, LoadAnswered, LoadDrawn, Poll, Retry,
     Connecting, Authenticated, Connected
<1>8. ASSUME SessionStarts \/ SessionEnds \/ PublishEvent \/ ClearAlerts
             \/ Connect \/ AuthFails \/ Disconnect \/ OperationReturns
             \/ TabSwitched
      PROVE  RequestOk'
  BY <1>1, <1>8 DEF TabSwitched, SessionStarts, SessionEnds, PublishEvent, ClearAlerts,
     Connect, AuthFails, Disconnect, OperationReturns
<1> QED
  BY <1>2, <1>3, <1>4, <1>5, <1>6, <1>7, <1>8, Zenon DEF PageNext, Finish

\* The counts of the connect() calls.
Callings == [{"auth", "refresh", "preflight"} -> Nat]

LEMMA CountTyped ==
  ASSUME NEW calls \in Callings
  PROVE  /\ \A x \in {"auth", "refresh", "preflight"} :
              [calls EXCEPT ![x] = @ + 1] \in Callings
         /\ \A x \in {"auth", "refresh", "preflight"} :
              calls[x] > 0 => [calls EXCEPT ![x] = @ - 1] \in Callings
         /\ \A x, y, z \in {"auth", "refresh", "preflight"} :
              x # y /\ z # x /\ calls[x] > 0 =>
                /\ [calls EXCEPT ![x] = @ - 1, ![y] = @ + 1] \in Callings
                /\ [calls EXCEPT ![x] = @ - 1, ![y] = @ + 1][z] >= calls[z]
                /\ z = y => [calls EXCEPT ![x] = @ - 1, ![y] = @ + 1][z] > 0
<1> DEFINE Names == {"auth", "refresh", "preflight"}
<1>1. calls \in [Names -> Nat]
  BY DEF Callings
<1> HIDE DEF Names
<1>2. \A x \in Names : calls[x] \in Nat
  BY <1>1
<1>3. \A x \in Names : [calls EXCEPT ![x] = @ + 1] \in [Names -> Nat]
  BY <1>1, <1>2
<1>4. \A x \in Names : calls[x] > 0 => [calls EXCEPT ![x] = @ - 1] \in [Names -> Nat]
  BY <1>1, <1>2
<1>5. ASSUME NEW x \in Names, NEW y \in Names, NEW z \in Names, x # y, z # x, calls[x] > 0
      PROVE  /\ [calls EXCEPT ![x] = @ - 1, ![y] = @ + 1] \in [Names -> Nat]
             /\ [calls EXCEPT ![x] = @ - 1, ![y] = @ + 1][z] >= calls[z]
             /\ z = y => [calls EXCEPT ![x] = @ - 1, ![y] = @ + 1][z] > 0
  <2>1. /\ calls[x] - 1 \in Nat /\ calls[y] + 1 \in Nat /\ calls[y] + 1 > 0
        /\ calls[z] \in Nat
    BY <1>2, <1>5
  <2> QED
    BY <1>1, <1>5, <2>1
<1> QED
  BY <1>3, <1>4, <1>5 DEF Callings, Names

\* refreshAll() and the calls of connect() that wait for it.
LEMMA LoadStep ==
  ASSUME ServerOk, LoadOk, PageNext
  PROVE  LoadOk'
<1> DEFINE Calling == {"auth", "refresh", "preflight"}
<1>1. /\ refreshing \in BOOLEAN /\ load \in Loads \cup {Null}
      /\ refreshing <=> load # Null
      /\ connecting \in Callings
      /\ load # Null /\ load.by = "connect" => connecting.refresh > 0
  BY DEF LoadOk, Callings
<1>2. UNCHANGED <<refreshing, load, connecting>> => LoadOk'
  BY DEF LoadOk
<1>3. /\ Answered(Current) \in Answers
      /\ Answered(Null) \in Answers
      /\ Asked \in Answers
  BY AnswersTyped
<1>4. \A by \in {"connect", "poll", "operator"} : \A a \in Answers :
        /\ [by |-> by, answer |-> a] \in Loads
        /\ [by |-> by, answer |-> a] # Null
        /\ [by |-> by, answer |-> a].by = by
  BY LoadAssumption DEF Loads
<1>5. \A by \in {"poll", "operator"} : Refresh(by) /\ connecting' = connecting => LoadOk'
  <2>1. ASSUME NEW by \in {"poll", "operator"}, Refresh(by), connecting' = connecting
        PROVE  LoadOk'
    <3>1. CASE refreshing
      BY <1>2, <2>1, <3>1 DEF Refresh
    <3>2. CASE ~refreshing
      <4>1. refreshing' = TRUE /\ load' = [by |-> by, answer |-> Asked]
        BY <2>1, <3>2 DEF Refresh
      <4>2. load' \in Loads /\ load' # Null /\ load'.by = by
        BY <1>3, <1>4, <4>1
      <4> QED
        BY <1>1, <2>1, <4>1, <4>2 DEF LoadOk
    <3> QED
      BY <3>1, <3>2
  <2> QED
    BY <2>1
<1>6. ASSUME LoadAnswered PROVE LoadOk'
  <2>1. load # Null /\ UNCHANGED <<refreshing, connecting>>
    BY <1>6 DEF LoadAnswered, session
  <2>2. PICK a \in Answers : load' = [load EXCEPT !.answer = a]
    BY <1>3, <1>6 DEF LoadAnswered
  <2>3. load' = [by |-> load.by, answer |-> a] /\ load.by \in {"connect", "poll", "operator"}
    BY <1>1, <2>1, <2>2 DEF Loads
  <2>4. load' \in Loads /\ load' # Null /\ load'.by = load.by
    BY <1>4, <2>3
  <2> QED
    BY <1>1, <2>1, <2>4 DEF LoadOk
<1>7. ASSUME LoadDrawn PROVE LoadOk'
  <2>1. /\ load # Null /\ load' = Null /\ refreshing' = FALSE
        /\ connecting' = IF load.by = "connect"
             THEN [connecting EXCEPT !.refresh = @ - 1, !.preflight = @ + 1]
             ELSE connecting
    BY <1>7 DEF LoadDrawn
  <2>2. connecting' \in Callings
    <3>1. load.by = "connect" => connecting["refresh"] > 0
      BY <1>1, <2>1
    <3>2. \A y \in Calling : "refresh" # y /\ connecting["refresh"] > 0 =>
            [connecting EXCEPT !["refresh"] = @ - 1, ![y] = @ + 1] \in Callings
      BY <1>1, CountTyped
    <3> QED
      BY <1>1, <2>1, <3>1, <3>2
  <2> QED
    BY <2>1, <2>2 DEF LoadOk, Callings
<1>8. ASSUME Authenticated PROVE LoadOk'
  <2>1. connecting.auth > 0 /\ Refresh("connect")
    BY <1>8 DEF Authenticated
  <2>2. CASE refreshing
    <3>1. /\ UNCHANGED <<refreshing, load>>
          /\ connecting' = [connecting EXCEPT !.auth = @ - 1, !.preflight = @ + 1]
      BY <1>8, <2>1, <2>2 DEF Authenticated, Refresh
    <3>2. connecting' \in Callings /\ connecting'["refresh"] >= connecting["refresh"]
      <4>1. connecting["auth"] > 0 /\ "auth" # "preflight" /\ "auth" # "refresh"
        BY <2>1
      <4>2. \A y, z \in Calling :
              "auth" # y /\ z # "auth" /\ connecting["auth"] > 0 =>
                /\ [connecting EXCEPT !["auth"] = @ - 1, ![y] = @ + 1] \in Callings
                /\ [connecting EXCEPT !["auth"] = @ - 1, ![y] = @ + 1][z] >= connecting[z]
        BY <1>1, CountTyped
      <4> QED
        BY <3>1, <4>1, <4>2
    <3> QED
      BY <1>1, <3>1, <3>2 DEF LoadOk, Callings
  <2>3. CASE ~refreshing
    <3>1. /\ refreshing' = TRUE /\ load' = [by |-> "connect", answer |-> Asked]
          /\ connecting' = [connecting EXCEPT !.auth = @ - 1, !.refresh = @ + 1]
      BY <1>8, <2>1, <2>3 DEF Authenticated, Refresh
    <3>2. connecting' \in Callings /\ connecting'.refresh > 0
      <4>1. /\ [connecting EXCEPT !["auth"] = @ - 1, !["refresh"] = @ + 1] \in Callings
            /\ [connecting EXCEPT !["auth"] = @ - 1, !["refresh"] = @ + 1]["refresh"] > 0
        <5>1. connecting["auth"] > 0 /\ "auth" # "refresh"
          BY <2>1
        <5>2. \A y \in Calling :
                "auth" # y /\ connecting["auth"] > 0 =>
                  /\ [connecting EXCEPT !["auth"] = @ - 1, ![y] = @ + 1] \in Callings
                  /\ [connecting EXCEPT !["auth"] = @ - 1, ![y] = @ + 1][y] > 0
          BY <1>1, CountTyped
        <5> QED
          BY <5>1, <5>2
      <4> QED
        BY <3>1, <4>1
    <3>3. load' \in Loads /\ load' # Null
      BY <1>3, <1>4, <3>1
    <3> QED
      BY <3>1, <3>2, <3>3 DEF LoadOk, Callings
  <2> QED
    BY <2>2, <2>3
<1>9. ASSUME Connect \/ AuthFails \/ Connected PROVE LoadOk'
  <2>1. UNCHANGED <<refreshing, load>>
    BY <1>9 DEF Connect, AuthFails, Connected, view
  <2>2. \/ connecting' = [connecting EXCEPT !["auth"] = @ + 1]
        \/ /\ connecting["auth"] > 0
           /\ connecting' = [connecting EXCEPT !["auth"] = @ - 1]
        \/ /\ connecting["preflight"] > 0
           /\ connecting' = [connecting EXCEPT !["preflight"] = @ - 1]
    BY <1>9 DEF Connect, AuthFails, Connected
  <2>3. connecting' \in Callings
    <3>1. \A x \in Calling :
            /\ [connecting EXCEPT ![x] = @ + 1] \in Callings
            /\ connecting[x] > 0 => [connecting EXCEPT ![x] = @ - 1] \in Callings
      BY <1>1, CountTyped
    <3> QED
      BY <2>2, <3>1
  <2>4. connecting'["refresh"] = connecting["refresh"]
    <3>1. connecting \in [Calling -> Nat] /\ "auth" # "refresh" /\ "preflight" # "refresh"
      BY <1>1 DEF Callings
    <3>2. CASE connecting' = [connecting EXCEPT !["auth"] = @ + 1]
      BY <3>1, <3>2
    <3>3. CASE connecting' = [connecting EXCEPT !["auth"] = @ - 1]
      BY <3>1, <3>3
    <3>4. CASE connecting' = [connecting EXCEPT !["preflight"] = @ - 1]
      BY <3>1, <3>4
    <3> QED
      BY <2>2, <3>2, <3>3, <3>4
  <2> QED
    BY <1>1, <2>1, <2>3, <2>4 DEF LoadOk, Callings
<1>10. ASSUME Poll \/ OperationReturns PROVE LoadOk'
  BY <1>5, <1>10 DEF Poll, OperationReturns, session
<1>11. ASSUME FinishReturns PROVE LoadOk'
  BY <1>2, <1>5, <1>11 DEF FinishReturns, session
<1>12. ASSUME NEW c \in Calls, Ask(c) \/ AskFails(c) PROVE LoadOk'
  BY <1>2, <1>12 DEF Ask, Issue, SocketOpened, AskFails, view,
     session
<1>13. ASSUME NEW t \in Tickets, Stream(t) \/ TicketLost(t) \/ SocketLost(t)
       PROVE  LoadOk'
  BY <1>2, <1>13 DEF Stream, Accept, Reject, Receive, TicketLost,
     SocketLost, view, session
<1>14. ASSUME NEW p \in Pushes, Push(p) PROVE LoadOk'
  BY <1>2, <1>14 DEF Push, PushFires, PushAnswered, PushDrawn,
     session
<1>15. ASSUME SessionStarts \/ SessionEnds \/ PublishEvent \/ ClearAlerts
              \/ Disconnect \/ FinishClicked \/ FinishServed \/ Retry
              \/ TabSwitched
       PROVE  LoadOk'
  BY <1>2, <1>15 DEF TabSwitched, SessionStarts, SessionEnds, PublishEvent, ClearAlerts,
     Disconnect, FinishClicked, FinishServed, Retry, view,
     session
<1> QED
  BY <1>6, <1>7, <1>8, <1>9, <1>10, <1>11, <1>12, <1>13, <1>14, <1>15, Zenon
     DEF PageNext, Load, Connecting, Finish

\* What the actions on the stream are made of.
Flags == {connected, polling, pushTimer, retry} \subseteq BOOLEAN

LEMMA StreamParts ==
  ASSUME StreamOk
  PROVE  /\ SetRetry => retry' \in BOOLEAN /\ stray' \in Nat
         /\ StopRealtime => /\ retry' \in BOOLEAN /\ pushTimer' \in BOOLEAN
                                 /\ socket' \in Tickets \cup {Null}
                                 /\ sockets' \in [Tickets -> SocketRecords]
         /\ \A c \in Calls : \A a \in Tickets \cup {Null, Sent} :
              [asking EXCEPT ![c] = a] \in [Calls -> Tickets \cup {Null, Sent}]
         /\ \A t \in Tickets : \A r \in SocketRecords :
              [sockets EXCEPT ![t] = r] \in [Tickets -> SocketRecords]
         /\ \A s \in {"connecting", "open", "closed"} : Socket(s, 0) \in SocketRecords
         /\ Closed \in SocketRecords
<1>1. /\ retry \in BOOLEAN /\ stray \in Nat /\ socket \in Tickets \cup {Null}
      /\ sockets \in [Tickets -> SocketRecords]
      /\ asking \in [Calls -> Tickets \cup {Null, Sent}]
  BY DEF StreamOk
<1>2. ASSUME SetRetry PROVE retry' \in BOOLEAN /\ stray' \in Nat
  <2>1. CASE connected
    <3>1. retry' = TRUE /\ stray' = IF retry THEN stray + 1 ELSE stray
      BY <1>2, <2>1 DEF SetRetry
    <3>2. stray' = stray + 1 \/ stray' = stray
      BY <3>1, Zenon
    <3> QED
      BY <1>1, <3>1, <3>2
  <2>2. CASE ~connected
    BY <1>1, <1>2, <2>2 DEF SetRetry
  <2> QED
    BY <2>1, <2>2
<1>3. \A s \in {"connecting", "open", "closed"} : Socket(s, 0) \in SocketRecords
  BY DEF Socket, SocketRecords
<1>4. Closed \in SocketRecords
  BY <1>3 DEF Closed
<1>5. \A t \in Tickets : \A r \in SocketRecords :
        [sockets EXCEPT ![t] = r] \in [Tickets -> SocketRecords]
  BY <1>1
<1>6. ASSUME StopRealtime
      PROVE  /\ retry' \in BOOLEAN /\ pushTimer' \in BOOLEAN
             /\ socket' \in Tickets \cup {Null}
             /\ sockets' \in [Tickets -> SocketRecords]
  BY <1>1, <1>4, <1>5, <1>6 DEF StopRealtime
<1>7. \A c \in Calls : \A a \in Tickets \cup {Null, Sent} :
        [asking EXCEPT ![c] = a] \in [Calls -> Tickets \cup {Null, Sent}]
  BY <1>1
<1> QED
  BY <1>2, <1>3, <1>4, <1>5, <1>6, <1>7

\* The tickets, the sockets and the timers of the stream.
LEMMA StreamStep ==
  ASSUME StreamOk, ServerOk, PageNext
  PROVE  StreamOk'
<1>1. /\ {connected, polling, hidden, pushTimer, retry} \subseteq BOOLEAN
      /\ asking \in [Calls -> Tickets \cup {Null, Sent}]
      /\ socket \in Tickets \cup {Null}
      /\ sockets \in [Tickets -> SocketRecords] /\ stray \in Nat
  BY DEF StreamOk
<1>2. /\ SetRetry => retry' \in BOOLEAN /\ stray' \in Nat
      /\ StopRealtime => /\ retry' \in BOOLEAN /\ pushTimer' \in BOOLEAN
                              /\ socket' \in Tickets \cup {Null}
                              /\ sockets' \in [Tickets -> SocketRecords]
  BY StreamParts
<1>3. \A c \in Calls : \A a \in Tickets \cup {Null, Sent} :
        [asking EXCEPT ![c] = a] \in [Calls -> Tickets \cup {Null, Sent}]
  BY StreamParts
<1>4. \A t \in Tickets : \A r \in SocketRecords :
        [sockets EXCEPT ![t] = r] \in [Tickets -> SocketRecords]
  BY StreamParts
<1>5. /\ Socket("connecting", 0) \in SocketRecords
      /\ Socket("open", 0) \in SocketRecords /\ Closed \in SocketRecords
  BY StreamParts
<1>6. UNCHANGED <<connected, polling, hidden>> /\ UNCHANGED realtime /\ pushTimer' \in BOOLEAN
        => StreamOk'
  BY <1>1 DEF realtime, StreamOk
<1>7. StartRealtime => /\ asking' \in [Calls -> Tickets \cup {Null, Sent}]
                            /\ retry' \in BOOLEAN /\ pushTimer' \in BOOLEAN
                            /\ socket' \in Tickets \cup {Null}
                            /\ sockets' \in [Tickets -> SocketRecords]
  BY <1>2, <1>3 DEF StartRealtime
<1>8. ASSUME NEW c \in Calls, Ask(c) \/ AskFails(c) PROVE StreamOk'
  <2>1. CASE SocketOpened(c)
    <3>1. /\ asking[c] \in Tickets /\ socket' = asking[c]
          /\ sockets' = [sockets EXCEPT ![asking[c]] = Socket("connecting", 0)]
          /\ asking' = [asking EXCEPT ![c] = Null]
          /\ UNCHANGED <<connected, polling, hidden, pushTimer, retry, stray>>
      BY <2>1 DEF SocketOpened, session, view
    <3>2. /\ sockets' \in [Tickets -> SocketRecords]
          /\ asking' \in [Calls -> Tickets \cup {Null, Sent}]
      BY <1>3, <1>4, <1>5, <3>1
    <3> QED
      BY <1>1, <3>1, <3>2 DEF StreamOk
  <2>2. ASSUME NEW t \in Tickets, Issue(c, t) PROVE StreamOk'
    <3>1. /\ asking' = [asking EXCEPT ![c] = t]
          /\ UNCHANGED <<connected, polling, hidden, pushTimer, retry, stray, socket, sockets>>
      BY <2>2 DEF Issue, session, view
    <3>2. asking' \in [Calls -> Tickets \cup {Null, Sent}]
      BY <1>3, <3>1
    <3> QED
      BY <1>1, <3>1, <3>2 DEF StreamOk
  <2>3. CASE AskFails(c)
    <3>1. /\ asking' = [asking EXCEPT ![c] = Null] /\ SetRetry
          /\ UNCHANGED <<connected, polling, hidden, pushTimer, socket, sockets>>
      BY <2>3 DEF AskFails, session, view
    <3>2. asking' \in [Calls -> Tickets \cup {Null, Sent}]
      BY <1>3, <3>1
    <3> QED
      BY <1>1, <1>2, <3>1, <3>2 DEF StreamOk
  <2> QED
    BY <1>8, <2>1, <2>2, <2>3 DEF Ask
<1>9. ASSUME NEW t \in Tickets, Stream(t) \/ TicketLost(t) \/ SocketLost(t)
      PROVE  StreamOk'
  <2>1. CASE TicketLost(t)
    BY <1>1, <1>6, <2>1 DEF TicketLost, view, session
  <2>2. CASE Accept(t)
    <3>1. /\ sockets' = [sockets EXCEPT ![t] = Socket("open", 0)]
          /\ UNCHANGED <<connected, polling, hidden, pushTimer, asking, socket, retry, stray>>
      BY <2>2 DEF Accept, session, view
    <3>2. sockets' \in [Tickets -> SocketRecords]
      BY <1>4, <1>5, <3>1
    <3> QED
      BY <1>1, <3>1, <3>2 DEF StreamOk
  <2>3. CASE Reject(t) \/ SocketLost(t)
    <3>1. /\ sockets' = [sockets EXCEPT ![t] = Closed] /\ SetRetry
          /\ UNCHANGED <<connected, polling, hidden, pushTimer, asking, socket>>
      BY <2>3 DEF Reject, SocketLost, session, view
    <3>2. sockets' \in [Tickets -> SocketRecords]
      BY <1>4, <1>5, <3>1
    <3> QED
      BY <1>1, <1>2, <3>1, <3>2 DEF StreamOk
  <2>4. CASE Receive(t)
    <3>1. /\ sockets' = [sockets EXCEPT ![t].sequence = latest.sequence]
          /\ pushTimer' = TRUE
          /\ UNCHANGED <<connected, polling, hidden, asking, socket, retry, stray>>
      BY <2>4 DEF Receive, session
    <3>2. [state |-> sockets[t].state, sequence |-> latest.sequence] \in SocketRecords
      <4>1. sockets[t] \in SocketRecords /\ latest.sequence \in Nat
        BY <1>1 DEF ServerOk
      <4> QED
        BY <4>1 DEF SocketRecords
    <3>3. sockets' = [sockets EXCEPT ![t] = [state |-> sockets[t].state,
                                             sequence |-> latest.sequence]]
      <4>1. sockets' = [sockets EXCEPT ![t] = [sockets[t] EXCEPT !.sequence = latest.sequence]]
        BY <3>1
      <4>2. sockets[t] \in SocketRecords
        BY <1>1
      <4>3. [sockets[t] EXCEPT !.sequence = latest.sequence]
              = [state |-> sockets[t].state, sequence |-> latest.sequence]
        BY <4>2 DEF SocketRecords
      <4> QED
        BY <4>1, <4>3
    <3>4. sockets' \in [Tickets -> SocketRecords]
      BY <1>4, <3>2, <3>3
    <3> QED
      BY <1>1, <3>1, <3>4 DEF StreamOk
  <2> QED
    BY <1>9, <2>1, <2>2, <2>3, <2>4 DEF Stream
<1>10. ASSUME NEW p \in Pushes, Push(p) PROVE StreamOk'
  BY <1>1, <1>6, <1>10 DEF Push, PushFires, PushAnswered, PushDrawn,
     session
<1>11. ASSUME Retry PROVE StreamOk'
  <2>1. stray' \in Nat
    <3>1. stray' = stray \/ (stray > 0 /\ stray' = stray - 1)
      BY <1>11 DEF Retry
    <3> QED
      BY <1>1, <3>1
  <2>2. UNCHANGED <<connected, polling, hidden>>
    BY <1>11 DEF Retry, session
  <2>3. CASE connected
    <3>1. StartRealtime
      BY <1>11, <2>3 DEF Retry
    <3> QED
      BY <1>1, <1>7, <2>1, <2>2, <3>1 DEF StreamOk
  <2>4. CASE ~connected
    <3>1. /\ retry' = (retry /\ stray' # stray)
          /\ UNCHANGED <<asking, socket, sockets, pushTimer>>
      BY <1>11, <2>4 DEF Retry
    <3>2. retry' \in BOOLEAN
      <4>1. CASE retry /\ stray' # stray
        BY <3>1, <4>1
      <4>2. CASE ~(retry /\ stray' # stray)
        BY <3>1, <4>2
      <4> QED
        BY <4>1, <4>2
    <3> QED
      BY <1>1, <2>1, <2>2, <3>1, <3>2 DEF StreamOk
  <2> QED
    BY <2>3, <2>4
<1>12. ASSUME Authenticated \/ AuthFails \/ Connect PROVE StreamOk'
  <2>1. /\ connected' \in BOOLEAN /\ UNCHANGED <<polling, hidden>> /\ UNCHANGED realtime
        /\ pushTimer' = pushTimer
    BY <1>1, <1>12 DEF Authenticated, AuthFails, Connect, view
  <2> QED
    BY <1>1, <2>1 DEF StreamOk, realtime
<1>13. ASSUME Connected PROVE StreamOk'
  <2>1. /\ polling' = TRUE /\ UNCHANGED <<connected, hidden, stray>>
    BY <1>13 DEF Connected
  <2>2. CASE connected
    <3>1. StartRealtime
      BY <1>13, <2>2 DEF Connected
    <3> QED
      BY <1>1, <1>7, <2>1, <3>1 DEF StreamOk
  <2>3. CASE ~connected
    <3>1. UNCHANGED <<retry, asking, socket, sockets, pushTimer>>
      BY <1>13, <2>3 DEF Connected
    <3> QED
      BY <1>1, <2>1, <3>1 DEF StreamOk
  <2> QED
    BY <2>2, <2>3
<1>14. ASSUME Disconnect PROVE StreamOk'
  <2>1. /\ connected' = FALSE /\ polling' = FALSE /\ StopRealtime
        /\ UNCHANGED <<asking, stray, hidden>>
    BY <1>14 DEF Disconnect
  <2> QED
    BY <1>1, <1>2, <2>1 DEF StreamOk
<1>15. ASSUME Load \/ Poll \/ Finish PROVE StreamOk'
  BY <1>1, <1>6, <1>15 DEF Load, LoadAnswered, LoadDrawn, Poll,
     Finish, FinishServed, FinishReturns, session, view
<1>16. ASSUME SessionStarts \/ SessionEnds \/ PublishEvent \/ ClearAlerts
              \/ FinishClicked \/ OperationReturns
       PROVE  StreamOk'
  BY <1>1, <1>6, <1>16 DEF SessionStarts, SessionEnds, PublishEvent,
     ClearAlerts, FinishClicked, OperationReturns, view, session
<1>17. ASSUME TabSwitched PROVE StreamOk'
  <2>1. /\ UNCHANGED <<connected, polling>> /\ UNCHANGED realtime
        /\ pushTimer' = pushTimer /\ hidden' \in BOOLEAN
    BY <1>1, <1>17 DEF TabSwitched, view
  <2> QED
    BY <1>1, <2>1 DEF StreamOk, realtime
<1> QED
  BY <1>8, <1>9, <1>10, <1>11, <1>12, <1>13, <1>14, <1>15, <1>16, <1>17, Zenon
     DEF PageNext, Connecting

LEMMA PageStep ==
  ASSUME PageInv, [ConsoleNext]_consoleVars
  PROVE  PageInv'
<1>1. LeftOk /\ ServerOk /\ LoadOk /\ ShownOk /\ StreamOk /\ RequestOk
  BY DEF PageInv
<1>2. LeftOk'
  BY <1>1, LeftStep
<1>3. CASE PageNext
  <2>1. ServerOk' /\ LoadOk' /\ ShownOk' /\ StreamOk' /\ RequestOk'
    BY <1>1, <1>3, ServerStep, LoadStep, ShownStep, StreamStep, RequestStep
  <2> QED
    BY <1>2, <2>1 DEF PageInv
<1>4. CASE UNCHANGED pageVars
  <2>1. UNCHANGED <<server, latest, issued, connected, connecting, polling, hidden, shown, refreshing,
                    load, pushTimer, push, asking, socket, sockets, retry, stray, request>>
    BY <1>4 DEF pageVars, serverVars, session, view, realtime
  <2>2. ServerOk' /\ LoadOk'
    BY <1>1, <2>1 DEF ServerOk, LoadOk
  <2>3. ShownOk' /\ StreamOk' /\ RequestOk'
    BY <1>1, <2>1 DEF ShownOk, StreamOk, RequestOk
  <2> QED
    BY <1>2, <2>2, <2>3 DEF PageInv
<1> QED
  BY <1>3, <1>4 DEF ConsoleNext, consoleVars

\* Whatever answers, timers and messages overtake one another, every variable
\* of the page keeps its type: no call of connect() is counted below zero, and a
\* refreshAll() is under way exactly while state.refreshing says so (refreshAll
\* and its early return, startRealtime, stopRealtime, finishSession).
THEOREM ConsoleTypes == ConsoleSpec => []ConsoleTypeOK
<1>1. ConsoleInit => PageInv /\ ViewerInv
  BY PageInitially, ViewerInitially DEF ConsoleInit
<1>2. PageInv /\ ViewerInv /\ [ConsoleNext]_consoleVars => PageInv' /\ ViewerInv'
  BY PageStep, ViewerStep
<1>3. PageInv /\ ViewerInv => ConsoleTypeOK
  BY PageTypes
<1> QED
  BY <1>1, <1>2, <1>3, PTL DEF ConsoleSpec
=============================================================================
