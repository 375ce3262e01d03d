----------------------------- MODULE FrameFlow -----------------------------
(***************************************************************************)
(* What happens to a frame between a camera and the session that analyses  *)
(* it: the reader stamps it (NativeTimestampResolver), the synchronizer    *)
(* joins it with its neighbours (LiveFrameSynchronizer), the hub hands the *)
(* set to the session's bounded queue, and one worker takes it from there. *)
(*                                                                         *)
(* Every camera has one thread; the synchronizer's lock orders what they   *)
(* push.  Only the thread of the Reference camera goes on from there: it   *)
(* runs the hub's callback itself, while the worker empties the queue.     *)
(* One session subscribes and unsubscribes.                                *)
(*                                                                         *)
(* A stream that fails is closed and opened again by the next read, and    *)
(* its media clock may then start anywhere, jump, or repeat itself.  Time  *)
(* is a count of small steps; a read takes at least one.                   *)
(*                                                                         *)
(* A definition named <Action>_<Bug> is that action with a plausible bug.  *)
(* Nothing uses it but the mutation runs, which must find a property that  *)
(* it breaks.                                                              *)
(***************************************************************************)
EXTENDS Integers, Sequences, FiniteSets, SequencesExt

CONSTANTS Cameras, Reference,   \* the enabled cameras, and the FRONT one
          None,                 \* Python's None
          Sources,              \* the native_timestamp_source of the service
          Tolerance,            \* manifest.sync_tolerance_ms
          BufferSize,           \* max_buffer_frames
          StoreSize,            \* max_frames of the MemoryFrameStore
          QueueSize,            \* processing_queue_size
          Horizon,              \* bound on the monotonic clock
          MaxMedia,             \* bound on PTS and reference timestamps
          MaxRaises             \* recorder and callback raise only while errors are fewer

Clocks == {"arrival", "pts", "reference"}
ASSUME CameraAssumption == Reference \in Cameras /\ IsFiniteSet(Cameras)
ASSUME SourceAssumption == Sources \subseteq Clocks
ASSUME SizeAssumption ==
  /\ Tolerance \in Nat
  /\ {BufferSize, StoreSize, QueueSize} \subseteq Nat \ {0}
  /\ {Horizon, MaxMedia, MaxRaises} \subseteq Nat

VARIABLES
  source,    \* timestamp_source, fixed when the service starts
  now,       \* time.monotonic_ns()
  reader,    \* per camera: is the stream open, the epoch's shift, last output
  pushed,    \* _sequences: frames pushed, per camera
  buffer,    \* _buffers: the newest packets, per camera
  store,     \* _order: the frames still in memory
  emitted,   \* _last_emitted_reference_ms
  published, \* the set in the hands of the reference camera's thread
  handing,   \* where that thread is in _publish() and enqueue_frame_set()
  listening, \* the session: "before" it subscribes, "subscribed", or "over"
  queue,     \* the session's queue
  inHand,    \* the set its worker is analysing
  telling,   \* the worker is in the session's callback
  counts,    \* frame_sets_{received,processed,dropped}_total, processing_errors
  stale,     \* history: a reference frame was refused as stale
  chosen,    \* history: the packet of each camera in the last emitted set
  analysed,  \* history: the reference time last taken from the queue
  unheard    \* history: sets received with no session subscribed

capture == <<source, now, reader>>
sync == <<pushed, buffer, store, emitted, stale, chosen>>
session == <<published, handing, listening, queue, inHand, telling, counts,
             analysed, unheard>>
vars == <<capture, sync, session>>

Stamps == -1 .. Horizon + 2 * MaxMedia + 2
Packets == [seq : 1 .. Horizon, stamp : Stamps]
FrameSets == [stamp : Stamps, frames : [Cameras -> Packets]]
ASSUME NoneAssumption == None \notin Int /\ None \notin FrameSets

Larger(m, n) == IF m >= n THEN m ELSE n
Distance(m, n) == IF m >= n THEN m - n ELSE n - m

Closed == [open |-> FALSE, shift |-> None, last |-> None, arrival |-> 0]

Init ==
  /\ source \in Sources
  /\ now = 0
  /\ reader = [c \in Cameras |-> Closed]
  /\ pushed = [c \in Cameras |-> 0]
  /\ buffer = [c \in Cameras |-> <<>>]
  /\ store = <<>>
  /\ emitted = -1
  /\ published = None /\ handing = "publish"
  /\ listening = "before"
  /\ queue = <<>>
  /\ inHand = None /\ telling = FALSE
  /\ counts = [received |-> 0, processed |-> 0, dropped |-> 0, errors |-> 0]
  /\ stale = FALSE
  /\ chosen = None
  /\ analysed = None
  /\ unheard = 0

Tick ==
  /\ now < Horizon
  /\ now' = now + 1
  /\ UNCHANGED <<source, reader, sync, session>>

(***************************************************************************)
(* The camera threads.                                                     *)
(***************************************************************************)
\* open(): reset_stream() forgets the epoch and keeps the last output.
\* Bug: the last output is forgotten too.
Opened_ForgetLast(r) ==
  IF r.open THEN r ELSE [r EXCEPT !.open = TRUE, !.shift = None, !.last = None]
Opened(r) ==
  IF r.open THEN r ELSE [r EXCEPT !.open = TRUE, !.shift = None]

\* The baseline of a new PTS epoch: it starts after everything put out so far.
Baseline(r, arrival) ==
  IF r.last = None THEN arrival ELSE Larger(arrival, r.last + 1)

\* resolve() with pts: the reader after it; shift is _timeline_origin minus
\* _pts_origin, so that shift + pts is the output.
\* Bug: an output that does not advance is let through.
ResolvePts_NoEpoch(r, arrival, pts) ==
  LET shift == IF r.shift = None THEN Baseline(r, arrival) - pts ELSE r.shift
  IN  [r EXCEPT !.shift = shift, !.last = shift + pts]

ResolvePts(r, arrival, pts) ==
  LET epoch == Baseline(r, arrival) - pts
      shift == IF r.shift = None THEN epoch ELSE r.shift
      advances == r.last = None \/ shift + pts > r.last
  IN  IF advances THEN [r EXCEPT !.shift = shift, !.last = shift + pts]
      ELSE [r EXCEPT !.shift = epoch, !.last = epoch + pts]

\* read() opens a closed stream first.  media is the buffer's PTS or its
\* reference timestamp.
Read(c, arrival, media) ==
  LET r == [Opened(reader[c]) EXCEPT !.arrival = arrival] IN
  CASE source = "arrival" -> [r EXCEPT !.last = arrival]
    [] source = "reference" -> [r EXCEPT !.last = media]
    [] source = "pts" -> ResolvePts(r, arrival, media)

Newest(s, n) == IF Len(s) > n THEN SubSeq(s, Len(s) - n + 1, Len(s)) ELSE s

\* min(): the first of the packets nearest to the target.
Nearest(packets, target) ==
  LET near(i) == \A j \in DOMAIN packets :
                   Distance(packets[i].stamp, target)
                     <= Distance(packets[j].stamp, target)
  IN  packets[CHOOSE i \in DOMAIN packets :
                near(i) /\ \A j \in 1 .. i - 1 : ~near(j)]

\* _match(): one packet per camera, each within the tolerance, or no set.
Matches(packets, target) ==
  /\ \A c \in Cameras : packets[c] # <<>>
  /\ \A c \in Cameras :
       Distance(Nearest(packets[c], target).stamp, target) <= Tolerance

FrameSet(packets, target) ==
  [stamp |-> target, frames |-> [c \in Cameras |-> Nearest(packets[c], target)]]

\* _push_locked() for the reference camera, after the packet is in its buffer.
Synchronize(stamp) ==
  CASE stamp <= emitted ->
         stale' = TRUE /\ UNCHANGED <<emitted, published, chosen>>
    [] stamp > emitted /\ Matches(buffer', stamp) ->
         /\ emitted' = stamp
         /\ published' = FrameSet(buffer', stamp)
         /\ chosen' = published'.frames
         /\ UNCHANGED stale
    [] OTHER -> UNCHANGED <<emitted, published, chosen, stale>>

\* One read and the push that follows it.  Other threads may push in between:
\* the frame may have arrived some time ago.
Push(c, arrival, media) ==
  LET r == Read(c, arrival, media) IN
  /\ c = Reference => published = None
  /\ arrival \in reader[c].arrival + 1 .. now
  /\ r.last \in Stamps
  /\ reader' = [reader EXCEPT ![c] = r]
  /\ pushed' = [pushed EXCEPT ![c] = @ + 1]
  /\ store' = Newest(Append(store, <<c, pushed'[c]>>), StoreSize)
  /\ buffer' = [buffer EXCEPT ![c] =
       Newest(Append(@, [seq |-> pushed'[c], stamp |-> r.last]), BufferSize)]
  /\ IF c = Reference THEN Synchronize(r.last)
     ELSE UNCHANGED <<emitted, published, chosen, stale>>
  /\ UNCHANGED <<source, now, handing, listening, queue, inHand, telling, counts,
                 analysed, unheard>>

\* read() raises: the camera is closed, and opened again after the backoff.
ReadFails(c) ==
  /\ reader[c].open
  /\ c = Reference => published = None
  /\ reader' = [reader EXCEPT ![c].open = FALSE]
  /\ UNCHANGED <<source, now, sync, session>>

(***************************************************************************)
(* The session subscribes when it starts, and no more once it stops.       *)
(***************************************************************************)
Subscribe ==
  /\ listening = "before"
  /\ listening' = "subscribed"
  /\ UNCHANGED <<capture, sync, published, handing, queue, inHand, telling, counts,
                 analysed, unheard>>

Unsubscribe ==
  /\ listening = "subscribed"
  /\ listening' = "over"
  /\ UNCHANGED <<capture, sync, published, handing, queue, inHand, telling, counts,
                 analysed, unheard>>

(***************************************************************************)
(* _publish(), on the thread of the reference camera.  Every set counts as *)
(* received, before the evidence recorder gets it and the session, if one  *)
(* is subscribed by then: its callback is enqueue_frame_set.               *)
(***************************************************************************)
Counted(counter) == counts' = [counts EXCEPT ![counter] = @ + 1]

\* A recorder that raises is one error more, and the set goes on to the session.
Receive ==
  /\ published # None /\ handing = "publish"
  /\ \E raised \in {0, 1} :
       /\ raised = 1 => counts.errors < MaxRaises
       /\ counts' = [counts EXCEPT !.received = @ + 1, !.errors = @ + raised]
  /\ \/ /\ listening = "subscribed"
        /\ handing' = "offer"
        /\ UNCHANGED <<published, unheard>>
     \/ /\ listening # "subscribed"
        /\ published' = None
        /\ unheard' = unheard + 1
        /\ UNCHANGED handing
  /\ UNCHANGED <<capture, sync, listening, queue, inHand, telling, analysed>>

\* put_nowait() succeeds; after a drop it always does.
Enqueue ==
  /\ handing = "offer" /\ Len(queue) < QueueSize
  /\ queue' = Append(queue, published)
  /\ published' = None /\ handing' = "publish"
  /\ UNCHANGED <<capture, sync, listening, inHand, telling, counts, analysed, unheard>>

QueueFull ==
  /\ handing = "offer" /\ Len(queue) = QueueSize
  /\ handing' = "full"
  /\ UNCHANGED <<capture, sync, published, listening, queue, inHand, telling, counts,
                 analysed, unheard>>

\* get_nowait() takes the oldest set out.  The worker may have emptied the queue
\* in the meantime: then none is taken, and the count is the same.
DropOldest ==
  /\ handing = "full"
  /\ queue' = IF queue = <<>> THEN <<>> ELSE Tail(queue)
  /\ handing' = "dropped"
  /\ UNCHANGED <<capture, sync, published, listening, inHand, telling, counts,
                 analysed, unheard>>

\* Bug: the drop is not counted.
CountDrop_Uncounted ==
  /\ handing = "dropped"
  /\ handing' = "offer"
  /\ UNCHANGED <<capture, sync, published, listening, queue, inHand, telling, counts,
                 analysed, unheard>>

CountDrop ==
  /\ handing = "dropped"
  /\ Counted("dropped")
  /\ handing' = "offer"
  /\ UNCHANGED <<capture, sync, published, listening, queue, inHand, telling,
                 analysed, unheard>>

(***************************************************************************)
(* The session's inference worker.                                         *)
(***************************************************************************)
Free == inHand = None /\ ~telling

\* Bug: the newest set is taken first.
WorkerTake_Newest ==
  /\ Free /\ queue # <<>>
  /\ inHand' = Last(queue)
  /\ analysed' = Last(queue).stamp
  /\ queue' = Front(queue)
  /\ UNCHANGED <<capture, sync, published, handing, listening, telling, counts, unheard>>

WorkerTake ==
  /\ Free /\ queue # <<>>
  /\ inHand' = Head(queue)
  /\ analysed' = Head(queue).stamp
  /\ queue' = Tail(queue)
  /\ UNCHANGED <<capture, sync, published, handing, listening, telling, counts, unheard>>

Loadable(set) ==
  \A c \in Cameras : Contains(store, <<c, set.frames[c].seq>>)

\* process_frame_set() loads the four frames; the session is told what it found.
WorkerProcessed ==
  /\ inHand # None /\ Loadable(inHand)
  /\ inHand' = None /\ telling' = TRUE
  /\ Counted("processed")
  /\ UNCHANGED <<capture, sync, published, handing, listening, queue, analysed, unheard>>

\* A frame that has left the store is a KeyError, and any other failure of the
\* analysis is counted the same way.
WorkerFails ==
  /\ inHand # None
  /\ inHand' = None
  /\ Counted("errors")
  /\ UNCHANGED <<capture, sync, published, handing, listening, queue, telling,
                 analysed, unheard>>

\* A callback that raises makes a set that was processed an error as well.
WorkerTold ==
  /\ telling
  /\ telling' = FALSE
  /\ \/ UNCHANGED counts
     \/ counts.errors < MaxRaises /\ Counted("errors")
  /\ UNCHANGED <<capture, sync, published, handing, listening, queue, inHand,
                 analysed, unheard>>

Next ==
  \/ Tick
  \/ \E c \in Cameras :
       \/ \E arrival \in 1 .. now, media \in 0 .. MaxMedia :
            Push(c, arrival, media)
       \/ ReadFails(c)
  \/ Subscribe \/ Unsubscribe
  \/ Receive \/ Enqueue \/ QueueFull \/ DropOldest \/ CountDrop
  \/ WorkerTake \/ WorkerProcessed \/ WorkerFails \/ WorkerTold

Spec == Init /\ [][Next]_vars

(***************************************************************************)
(* Properties.                                                             *)
(***************************************************************************)
Readers == [open : BOOLEAN, shift : Int \cup {None}, last : Stamps \cup {None},
            arrival : 0 .. Horizon]

\* Every variable keeps its type, and no buffer, store or queue its limit.
TypeOK ==
  /\ source \in Sources
  /\ now \in 0 .. Horizon
  /\ reader \in [Cameras -> Readers]
  /\ pushed \in [Cameras -> 0 .. Horizon]
  /\ buffer \in [Cameras -> Seq(Packets)]
  /\ \A c \in Cameras : Len(buffer[c]) <= BufferSize
  /\ store \in Seq(Cameras \X (1 .. Horizon)) /\ Len(store) <= StoreSize
  /\ emitted \in Stamps
  /\ published \in FrameSets \cup {None}
  /\ handing \in {"publish", "offer", "full", "dropped"}
  /\ handing # "publish" => published # None
  /\ listening \in {"before", "subscribed", "over"}
  /\ queue \in Seq(FrameSets) /\ Len(queue) <= QueueSize
  /\ inHand \in FrameSets \cup {None} /\ telling \in BOOLEAN
  /\ counts \in [received : Nat, processed : Nat, dropped : Nat, errors : Nat]
  /\ stale \in BOOLEAN
  /\ chosen \in [Cameras -> Packets] \cup {None}
  /\ analysed \in Stamps \cup {None}
  /\ unheard \in Nat

\* The resolver rebases every PTS epoch on a timeline that only advances, so
\* that no reference frame is ever refused as stale, however often the stream
\* reconnects, its media clock jumps or repeats itself.  A reference clock is
\* taken as it is, and gives no such guarantee.
NeverStale == source # "reference" => ~stale

\* A set never shows a camera at an earlier frame than the set before it,
\* although the frames are found again by distance each time, in a buffer that
\* loses its oldest packets and whose stream may have restarted.
CamerasAdvance ==
  [][source # "reference" /\ chosen # None /\ chosen' # chosen =>
       \A c \in Cameras : chosen'[c].seq >= chosen[c].seq]_vars

\* Sets are analysed in the order of their reference time, which the action
\* recognizers rely on, whatever the clock does and however many are dropped.
AnalysedInOrder ==
  [][analysed # None /\ analysed' # analysed => analysed' > analysed]_vars

\* The sets that are in the queue, in the worker's hands, or on their way into
\* the queue, and the one that was taken out and is not yet counted.
Waiting == Len(queue) + (IF inHand = None THEN 0 ELSE 1)
OnTheWay == IF handing = "publish" THEN 0 ELSE 1
TakenOut == IF handing = "dropped" THEN 1 ELSE 0

\* A set that the hub counts as received while a session is subscribed is still
\* on its way at every moment, or shows in the counters that the session quality
\* guard reads: none disappears without a trace.  And none is analysed or waits
\* that was not counted first, so that the guard's ratios are of what was there.
NoneUncounted ==
  /\ counts.received <= unheard + Waiting + OnTheWay + TakenOut
                          + counts.processed + counts.errors + counts.dropped
  /\ unheard + Waiting + OnTheWay + counts.processed <= counts.received
=============================================================================
