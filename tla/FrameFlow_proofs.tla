-------------------------- MODULE FrameFlow_proofs --------------------------
(***************************************************************************)
(* Proofs about the way of a frame, for any cameras, clocks, tolerance and *)
(* sizes: the types (FlowTypes), that frame sets are analysed and          *)
(* published in the order of their times (AnalysisInOrder, by Ordered),    *)
(* that each is accounted for (EverySetCounted), that the time last        *)
(* emitted is never ahead of the reference camera (ReferenceNeverStale, by *)
(* Steady) and that no camera goes back from one set to the next           *)
(* (FramesAdvance).                                                        *)
(*                                                                         *)
(* The last is the hard one.  A set is made of the frames nearest to a     *)
(* time, and times grow; but a frame that is nearer to a later time need   *)
(* not have been pushed later.  It is once every buffer is in the order of *)
(* its pushes (Numbered) and of its times (Rising), and once every frame   *)
(* before those of the last set is known to be farther from its time than  *)
(* they are (Shown), which no push and no later time changes.              *)
(***************************************************************************)
EXTENDS FrameFlow, FiniteSetTheorems, SequenceTheorems, WellFoundedInduction, TLAPS

(***************************************************************************)
(* Operators.                                                              *)
(***************************************************************************)
\* A nonempty set of naturals has a least element: the initial intervals of
\* its elements are finite sets, on which inclusion is well founded.
LEMMA LeastNatural ==
  ASSUME NEW S \in SUBSET Nat, S # {}
  PROVE  \E m \in S : \A k \in S : m <= k
<1> DEFINE T == {0 .. n : n \in S}
           R == StrictSubsetOrdering(Nat)
<1>1. T \subseteq FiniteSubsetsOf(Nat)
  <2>1. \A n \in S : IsFiniteSet(0 .. n) /\ 0 .. n \in SUBSET Nat
    BY FS_Interval
  <2> QED
    BY <2>1 DEF FiniteSubsetsOf
<1>2. T # {}
  OBVIOUS
<1>3. PICK x \in T : \A y \in T : ~ (<<y, x>> \in R)
  BY <1>1, <1>2, WFMin, FS_StrictSubsetOrderingWellFounded
<1>4. PICK m \in S : x = 0 .. m
  OBVIOUS
<1>5. ASSUME NEW k \in S, k < m PROVE FALSE
  <2>1. 0 .. k \subseteq 0 .. m /\ 0 .. k # 0 .. m
    BY <1>5
  <2>2. <<0 .. k, 0 .. m>> \in R
    BY <2>1 DEF StrictSubsetOrdering
  <2> QED
    BY <2>2, <1>3, <1>4
<1> QED
  BY <1>5

\* The newest of a sequence are a suffix of it.
LEMMA NewestIs ==
  ASSUME NEW S, NEW s \in Seq(S), NEW n \in Nat \ {0}
  PROVE  /\ Newest(s, n) \in Seq(S)
         /\ Len(Newest(s, n)) <= n
         /\ Len(s) > 0 => Len(Newest(s, n)) > 0
         /\ \E d \in 0 .. Len(s) :
              /\ Len(Newest(s, n)) = Len(s) - d
              /\ \A i \in 1 .. Len(s) - d : Newest(s, n)[i] = s[i + d]
<1>1. CASE Len(s) > n
  <2> DEFINE d == Len(s) - n
  <2>1. d \in 0 .. Len(s) /\ Newest(s, n) = SubSeq(s, d + 1, Len(s))
    BY <1>1 DEF Newest
  <2>2. /\ Newest(s, n) \in Seq(S)
        /\ Len(Newest(s, n)) = n
        /\ \A i \in 1 .. n : Newest(s, n)[i] = s[i + d]
    BY <1>1, <2>1, SubSeqProperties
  <2> HIDE DEF d
  <2>3. Len(s) - d = n
    BY <1>1 DEF d
  <2>4. d \in 0 .. Len(s) /\ Len(Newest(s, n)) = Len(s) - d
    BY <2>1, <2>2, <2>3
  <2>5. \A i \in 1 .. Len(s) - d : Newest(s, n)[i] = s[i + d]
    BY <2>2, <2>3
  <2>6. Len(Newest(s, n)) <= n /\ Len(Newest(s, n)) > 0
    BY <2>2
  <2> QED
    BY <2>2, <2>4, <2>5, <2>6
<1>2. CASE ~ (Len(s) > n)
  BY <1>2 DEF Newest
<1> QED
  BY <1>1, <1>2

\* Nearest() finds the first of the packets at the least distance.
LEMMA NearestIs ==
  ASSUME NEW s \in Seq(Packets), s # <<>>, NEW t \in Int
  PROVE  \E i \in 1 .. Len(s) :
           /\ Nearest(s, t) = s[i]
           /\ \A j \in 1 .. Len(s) :
                Distance(s[i].stamp, t) <= Distance(s[j].stamp, t)
           /\ \A j \in 1 .. i - 1 :
                Distance(s[i].stamp, t) < Distance(s[j].stamp, t)
<1> DEFINE far(i) == Distance(s[i].stamp, t)
           near(i) == \A j \in DOMAIN s : far(i) <= far(j)
           D == {far(i) : i \in DOMAIN s}
           N == {i \in DOMAIN s : near(i)}
<1>1. DOMAIN s = 1 .. Len(s) /\ Len(s) > 0
  OBVIOUS
<1>2. \A i \in DOMAIN s : far(i) \in Nat
  <2>1. \A p \in Packets : p.stamp \in Int
    BY SizeAssumption DEF Packets, Stamps
  <2>2. \A i \in DOMAIN s : s[i] \in Packets
    BY <1>1
  <2> QED
    BY <2>1, <2>2 DEF Distance
<1>3. D # {} /\ D \in SUBSET Nat
  BY <1>1, <1>2
<1>4. N # {}
  <2>1. PICK m \in D : \A k \in D : m <= k
    BY <1>3, LeastNatural
  <2>2. PICK i \in DOMAIN s : m = far(i)
    OBVIOUS
  <2>3. near(i)
    BY <2>1, <2>2
  <2> QED
    BY <2>3
<1>5. N \in SUBSET Nat
  BY <1>1
<1>6. PICK m \in N : \A k \in N : m <= k
  BY <1>4, <1>5, LeastNatural
<1>7. m \in DOMAIN s /\ near(m) /\ \A j \in 1 .. m - 1 : ~near(j)
  <2>1. ASSUME NEW j \in 1 .. m - 1, near(j) PROVE FALSE
    <3>1. j \in DOMAIN s
      BY <1>1
    <3> QED
      BY <1>5, <1>6, <2>1, <3>1
  <2> QED
    BY <2>1
<1> DEFINE first == CHOOSE i \in DOMAIN s : near(i) /\ \A j \in 1 .. i - 1 : ~near(j)
<1>8. first \in DOMAIN s /\ near(first) /\ \A j \in 1 .. first - 1 : ~near(j)
  <2> HIDE DEF near
  <2> QED
    BY <1>7
<1>9. Nearest(s, t) = s[first]
  BY DEF Nearest
<1> HIDE DEF first
<1>10. ASSUME NEW j \in 1 .. first - 1 PROVE far(first) < far(j)
  <2>1. j \in DOMAIN s /\ ~near(j)
    <3> HIDE DEF near
    <3> QED
      BY <1>1, <1>8
  <2>2. PICK k \in DOMAIN s : ~ (far(j) <= far(k))
    BY <2>1
  <2> HIDE DEF far
  <2>3. far(first) <= far(k) /\ far(j) \in Nat /\ far(k) \in Nat /\ far(first) \in Nat
    BY <1>2, <1>8, <2>1, <2>2
  <2> QED
    BY <2>2, <2>3
<1> QED
  BY <1>1, <1>8, <1>9, <1>10

(***************************************************************************)
(* Types.                                                                  *)
(***************************************************************************)
\* A camera pushes at most one frame per unit of time.
Paced == \A c \in Cameras : pushed[c] <= reader[c].arrival

FlowTyped == TypeOK /\ Paced

LEMMA StampsAreIntegers ==
  /\ Stamps \subseteq Int /\ None \notin Stamps
  /\ \A p \in Packets : p.stamp \in Int /\ p.seq \in Int
  /\ \A f \in FrameSets : f.stamp \in Int
<1>1. Stamps \subseteq Int
  BY SizeAssumption DEF Stamps
<1>2. 1 .. Horizon \subseteq Int
  BY SizeAssumption
<1> QED
  BY <1>1, <1>2, NoneAssumption DEF Packets, FrameSets

\* What a read leaves of the reader.
LEMMA ReadTyped ==
  ASSUME TypeOK, NEW c \in Cameras, NEW arrival \in 1 .. Horizon,
         NEW media \in 0 .. MaxMedia, Read(c, arrival, media).last \in Stamps
  PROVE  /\ Read(c, arrival, media) \in Readers
         /\ Read(c, arrival, media).arrival = arrival
<1> DEFINE r == [Opened(reader[c]) EXCEPT !.arrival = arrival]
<1>1. /\ r \in Readers /\ r.arrival = arrival
      /\ r.last = reader[c].last
  <2>1. reader[c] \in Readers /\ arrival \in 0 .. Horizon
    BY SizeAssumption DEF TypeOK
  <2>2. Opened(reader[c]) \in Readers /\ Opened(reader[c]).last = reader[c].last
    BY <2>1 DEF Opened, Readers
  <2> QED
    BY <2>1, <2>2 DEF Readers
<1>2. arrival \in Int /\ media \in Int
  BY SizeAssumption
<1> HIDE DEF r
<1>3. CASE source = "arrival"
  BY <1>1, <1>3 DEF Read, r, Readers
<1>4. CASE source = "reference"
  BY <1>1, <1>4 DEF Read, r, Readers
<1>5. CASE source = "pts"
  <2>1. Read(c, arrival, media) = ResolvePts(r, arrival, media)
    BY <1>5 DEF Read, r
  <2>2. r.last = None \/ r.last \in Int
    BY <1>1, StampsAreIntegers DEF Readers
  <2>3. Baseline(r, arrival) \in Int
    BY <1>2, <2>2 DEF Baseline, Larger
  <2>4. Baseline(r, arrival) - media \in Int
    BY <1>2, <2>3
  <2>5. \E e \in Int : \E l : ResolvePts(r, arrival, media) = [r EXCEPT !.shift = e, !.last = l]
    <3> DEFINE epoch == Baseline(r, arrival) - media
               shift == IF r.shift = None THEN epoch ELSE r.shift
               first == [r EXCEPT !.shift = shift, !.last = shift + media]
               again == [r EXCEPT !.shift = epoch, !.last = epoch + media]
    <3>1. shift \in Int /\ epoch \in Int
      BY <1>1, <2>4 DEF Readers
    <3>2. ResolvePts(r, arrival, media) = first \/ ResolvePts(r, arrival, media) = again
      BY DEF ResolvePts
    <3>3. CASE ResolvePts(r, arrival, media) = first
      BY <3>1, <3>3, Zenon
    <3>4. CASE ResolvePts(r, arrival, media) = again
      BY <3>1, <3>4, Zenon
    <3> QED
      BY <3>2, <3>3, <3>4, Zenon
  <2> QED
    BY <1>1, <2>1, <2>5 DEF Readers
<1> QED
  BY <1>3, <1>4, <1>5, SourceAssumption DEF TypeOK, Clocks

\* A set that matches has its frames.
LEMMA FrameSetTyped ==
  ASSUME NEW b \in [Cameras -> Seq(Packets)], NEW t \in Stamps, Matches(b, t)
  PROVE  FrameSet(b, t) \in FrameSets
<1>1. ASSUME NEW c \in Cameras PROVE Nearest(b[c], t) \in Packets
  <2>1. b[c] \in Seq(Packets) /\ b[c] # <<>> /\ t \in Int
    BY StampsAreIntegers DEF Matches
  <2>2. PICK i \in 1 .. Len(b[c]) : Nearest(b[c], t) = b[c][i]
    BY <2>1, NearestIs
  <2> QED
    BY <2>1, <2>2
<1> QED
  BY <1>1 DEF FrameSet, FrameSets

LEMMA TypedInit == Init => FlowTyped
<1> SUFFICES ASSUME Init PROVE FlowTyped
  OBVIOUS
<1>1. 0 \in 0 .. Horizon /\ -1 \in Stamps
  BY SizeAssumption DEF Stamps
<1>2. Closed \in Readers
  BY <1>1 DEF Closed, Readers
<1>3. /\ buffer \in [Cameras -> Seq(Packets)]
      /\ \A c \in Cameras : Len(buffer[c]) <= BufferSize
  BY SizeAssumption DEF Init
<1>4. Paced
  BY DEF Init, Paced, Closed
<1>5. reader \in [Cameras -> Readers] /\ pushed \in [Cameras -> 0 .. Horizon]
  BY <1>1, <1>2 DEF Init
<1>6. /\ store \in Seq(Cameras \X (1 .. Horizon)) /\ Len(store) <= StoreSize
      /\ queue \in Seq(FrameSets) /\ Len(queue) <= QueueSize
  BY SizeAssumption DEF Init
<1>7. counts \in [received : Nat, processed : Nat, dropped : Nat, errors : Nat]
  BY DEF Init
<1> QED
  BY <1>1, <1>3, <1>4, <1>5, <1>6, <1>7 DEF Init, FlowTyped, TypeOK

LEMMA PushTyped ==
  ASSUME FlowTyped, NEW c \in Cameras, NEW arrival \in 1 .. now,
         NEW media \in 0 .. MaxMedia, Push(c, arrival, media)
  PROVE  FlowTyped'
<1> DEFINE r == Read(c, arrival, media)
<1>1. arrival \in 1 .. Horizon /\ r.last \in Stamps
  BY SizeAssumption DEF FlowTyped, TypeOK, Push
<1>2. r \in Readers /\ r.arrival = arrival
  BY <1>1, ReadTyped DEF FlowTyped
<1>3. pushed' = [pushed EXCEPT ![c] = @ + 1] /\ pushed[c] < arrival
  <2>1. arrival \in reader[c].arrival + 1 .. now /\ pushed' = [pushed EXCEPT ![c] = @ + 1]
    BY DEF Push
  <2>2. reader[c].arrival \in Int /\ pushed[c] \in Int /\ now \in Int
    BY SizeAssumption DEF FlowTyped, TypeOK, Readers
  <2>3. pushed[c] <= reader[c].arrival
    BY DEF FlowTyped, Paced
  <2> QED
    BY <2>1, <2>2, <2>3
<1>4. pushed'[c] \in 1 .. Horizon /\ pushed' \in [Cameras -> 0 .. Horizon]
  <2>1. pushed \in [Cameras -> 0 .. Horizon] /\ Horizon \in Nat
    BY SizeAssumption DEF FlowTyped, TypeOK
  <2>2. pushed[c] + 1 \in 1 .. Horizon
    BY <1>1, <1>3, <2>1
  <2> HIDE DEF r
  <2> QED
    BY <1>3, <2>1, <2>2
<1>5. reader' \in [Cameras -> Readers] /\ Paced'
  BY <1>1, <1>2, <1>3 DEF Push, FlowTyped, TypeOK, Paced
<1>6. /\ store' \in Seq(Cameras \X (1 .. Horizon)) /\ Len(store') <= StoreSize
  <2>1. Append(store, <<c, pushed'[c]>>) \in Seq(Cameras \X (1 .. Horizon))
    BY <1>4 DEF FlowTyped, TypeOK
  <2>2. StoreSize \in Nat \ {0}
    BY SizeAssumption
  <2> QED
    BY <2>1, <2>2, NewestIs DEF Push
<1>7. /\ buffer' \in [Cameras -> Seq(Packets)]
      /\ \A k \in Cameras : Len(buffer'[k]) <= BufferSize
  <2> DEFINE grown == Append(buffer[c], [seq |-> pushed'[c], stamp |-> r.last])
  <2>1. grown \in Seq(Packets)
    <3>1. [seq |-> pushed'[c], stamp |-> r.last] \in Packets
      BY <1>1, <1>4 DEF Packets
    <3>2. buffer[c] \in Seq(Packets)
      BY DEF FlowTyped, TypeOK
    <3> QED
      BY <3>1, <3>2
  <2>2. BufferSize \in Nat \ {0}
    BY SizeAssumption
  <2>3. Newest(grown, BufferSize) \in Seq(Packets) /\ Len(Newest(grown, BufferSize)) <= BufferSize
    BY <2>1, <2>2, NewestIs
  <2>4. buffer' = [buffer EXCEPT ![c] = Newest(grown, BufferSize)]
    BY DEF Push
  <2> HIDE DEF grown
  <2> QED
    BY <2>3, <2>4 DEF FlowTyped, TypeOK
<1>8. /\ emitted' \in Stamps /\ stale' \in BOOLEAN
      /\ published' \in FrameSets \cup {None}
      /\ chosen' \in [Cameras -> Packets] \cup {None}
  <2>1. CASE c = Reference
    <3>1. Synchronize(r.last)
      BY <2>1 DEF Push
    <3>2. CASE r.last > emitted /\ Matches(buffer', r.last)
      <4>1. FrameSet(buffer', r.last) \in FrameSets
        BY <1>1, <1>7, <3>2, FrameSetTyped
      <4>2. ~ (r.last <= emitted)
        <5>1. emitted \in Int /\ r.last \in Int
          BY <1>1, StampsAreIntegers DEF FlowTyped, TypeOK
        <5> HIDE DEF r
        <5> QED
          BY <3>2, <5>1
      <4> QED
        BY <1>1, <3>1, <3>2, <4>1, <4>2 DEF Synchronize, FlowTyped, TypeOK, FrameSets
    <3>3. CASE ~ (r.last > emitted /\ Matches(buffer', r.last))
      BY <3>1, <3>3 DEF Synchronize, FlowTyped, TypeOK
    <3> QED
      BY <3>2, <3>3
  <2>2. CASE c # Reference
    BY <2>2 DEF Push, FlowTyped, TypeOK
  <2> QED
    BY <2>1, <2>2
<1>9. handing' = handing /\ (handing' # "publish" => published' # None)
  <2>1. handing' = handing /\ (c = Reference => handing = "publish")
    BY DEF Push, FlowTyped, TypeOK
  <2>2. c # Reference => published' = published
    BY DEF Push
  <2> QED
    BY <2>1, <2>2 DEF FlowTyped, TypeOK
<1> QED
  BY <1>4, <1>5, <1>6, <1>7, <1>8, <1>9 DEF Push, FlowTyped, TypeOK

Counts == [received : Nat, processed : Nat, dropped : Nat, errors : Nat]

\* A counter goes up by one and leaves the others alone.
LEMMA CountedTyped ==
  ASSUME FlowTyped, Counted("processed") \/ Counted("dropped") \/ Counted("errors")
                      \/ UNCHANGED counts
  PROVE  /\ counts' \in Counts
         /\ counts'.received = counts.received
         /\ counts'.processed >= counts.processed
         /\ counts'.dropped >= counts.dropped
         /\ counts'.errors >= counts.errors
         /\ Counted("processed") => counts'.processed = counts.processed + 1
         /\ ~Counted("processed") => counts'.processed = counts.processed
         /\ Counted("dropped") => counts'.dropped = counts.dropped + 1
         /\ Counted("errors") => counts'.errors = counts.errors + 1
<1>1. counts \in Counts
  BY DEF FlowTyped, TypeOK, Counts
<1>2. CASE Counted("processed")
  BY <1>1, <1>2 DEF Counted, Counts
<1>3. CASE Counted("dropped")
  BY <1>1, <1>3 DEF Counted, Counts
<1>4. CASE Counted("errors")
  BY <1>1, <1>4 DEF Counted, Counts
<1>5. CASE UNCHANGED counts
  BY <1>1, <1>5 DEF Counted, Counts
<1> QED
  BY <1>2, <1>3, <1>4, <1>5

LEMMA TypedStep == FlowTyped /\ [Next]_vars => FlowTyped'
<1> SUFFICES ASSUME FlowTyped, [Next]_vars PROVE FlowTyped'
  OBVIOUS
<1> USE DEF capture, sync, session
<1>1. CASE Tick
  <2>1. now' \in 0 .. Horizon
    BY <1>1, SizeAssumption DEF Tick, FlowTyped, TypeOK
  <2> QED
    BY <1>1, <2>1 DEF Tick, FlowTyped, TypeOK, Paced
<1>2. ASSUME NEW c \in Cameras, NEW arrival \in 1 .. now, NEW media \in 0 .. MaxMedia,
             Push(c, arrival, media)
      PROVE  FlowTyped'
  BY <1>2, PushTyped
<1>3. ASSUME NEW c \in Cameras, ReadFails(c) PROVE FlowTyped'
  <2>1. reader' \in [Cameras -> Readers] /\ Paced'
    BY <1>3 DEF ReadFails, FlowTyped, TypeOK, Paced, Readers
  <2> QED
    BY <1>3, <2>1 DEF ReadFails, FlowTyped, TypeOK
<1>4. CASE Subscribe \/ Unsubscribe \/ QueueFull
  BY <1>4 DEF Subscribe, Unsubscribe, QueueFull, FlowTyped, TypeOK, Paced
<1>5. CASE Receive
  <2>1. counts' \in Counts
    <3>1. PICK raised \in {0, 1} :
            counts' = [counts EXCEPT !.received = @ + 1, !.errors = @ + raised]
      BY <1>5 DEF Receive
    <3>2. counts \in Counts
      BY DEF FlowTyped, TypeOK, Counts
    <3>3. counts' = [received |-> counts.received + 1, processed |-> counts.processed,
                     dropped |-> counts.dropped, errors |-> counts.errors + raised]
      BY <3>1, <3>2 DEF Counts
    <3>4. /\ counts.received + 1 \in Nat /\ counts.errors + raised \in Nat
          /\ counts.processed \in Nat /\ counts.dropped \in Nat
      BY <3>2 DEF Counts
    <3> QED
      BY <3>3, <3>4 DEF Counts
  <2>2. unheard' \in Nat
    BY <1>5 DEF Receive, FlowTyped, TypeOK
  <2> QED
    BY <1>5, <2>1, <2>2 DEF Receive, FlowTyped, TypeOK, Paced, Counts
<1>6. CASE Enqueue
  <2>1. published \in FrameSets
    BY <1>6 DEF Enqueue, FlowTyped, TypeOK
  <2>2. queue' \in Seq(FrameSets) /\ Len(queue') <= QueueSize
    BY <1>6, <2>1, SizeAssumption DEF Enqueue, FlowTyped, TypeOK
  <2> QED
    BY <1>6, <2>2 DEF Enqueue, FlowTyped, TypeOK, Paced
<1>7. CASE DropOldest
  <2>1. queue' \in Seq(FrameSets) /\ Len(queue') <= QueueSize
    BY <1>7, SizeAssumption DEF DropOldest, FlowTyped, TypeOK
  <2> QED
    BY <1>7, <2>1 DEF DropOldest, FlowTyped, TypeOK, Paced
<1>8. CASE CountDrop
  <2>1. counts' \in Counts
    BY <1>8, CountedTyped DEF CountDrop
  <2> QED
    BY <1>8, <2>1 DEF CountDrop, FlowTyped, TypeOK, Paced, Counts
<1>9. CASE WorkerTake
  <2>1. queue' \in Seq(FrameSets) /\ Len(queue') <= QueueSize
    BY <1>9, SizeAssumption DEF WorkerTake, FlowTyped, TypeOK
  <2>2. Head(queue) \in FrameSets
    BY <1>9 DEF WorkerTake, FlowTyped, TypeOK
  <2>3. Head(queue).stamp \in Stamps
    BY <2>2 DEF FrameSets
  <2> QED
    BY <1>9, <2>1, <2>2, <2>3 DEF WorkerTake, FlowTyped, TypeOK, Paced
<1>10. CASE WorkerProcessed \/ WorkerFails \/ WorkerTold
  <2>1. Counted("processed") \/ Counted("errors") \/ UNCHANGED counts
    BY <1>10 DEF WorkerProcessed, WorkerFails, WorkerTold
  <2>2. counts' \in Counts
    BY <2>1, CountedTyped
  <2> QED
    BY <1>10, <2>2 DEF WorkerProcessed, WorkerFails, WorkerTold, FlowTyped, TypeOK, Paced,
                       Counts
<1>11. CASE UNCHANGED vars
  BY <1>11 DEF vars, FlowTyped, TypeOK, Paced
<1> QED
  BY <1>1, <1>2, <1>3, <1>4, <1>5, <1>6, <1>7, <1>8, <1>9, <1>10, <1>11 DEF Next

\* Every variable keeps its type, and no buffer, store or queue its limit.
THEOREM FlowTypes == Spec => []TypeOK
<1>1. FlowTyped => TypeOK
  BY DEF FlowTyped
<1> QED
  BY <1>1, TypedInit, TypedStep, PTL DEF Spec

(***************************************************************************)
(* The order of the sets.                                                  *)
(***************************************************************************)
\* What the push of a reference frame does, by what it finds.
Refused(stamp) ==
  stamp <= emitted /\ stale' = TRUE /\ UNCHANGED <<emitted, published, chosen>>
Emitted(stamp) ==
  /\ stamp > emitted /\ Matches(buffer', stamp) /\ emitted' = stamp
  /\ published' = FrameSet(buffer', stamp) /\ chosen' = published'.frames
  /\ UNCHANGED stale
Unmatched(stamp) ==
  stamp > emitted /\ UNCHANGED <<emitted, published, chosen, stale>>

LEMMA PushEffect ==
  ASSUME FlowTyped, NEW c \in Cameras, NEW arrival \in 1 .. now,
         NEW media \in 0 .. MaxMedia, Push(c, arrival, media)
  PROVE  LET stamp == Read(c, arrival, media).last IN
         /\ stamp \in Stamps
         /\ c # Reference => UNCHANGED <<emitted, published, chosen, stale>>
         /\ c = Reference => /\ published = None
                             /\ Refused(stamp) \/ Emitted(stamp) \/ Unmatched(stamp)
<1> DEFINE stamp == Read(c, arrival, media).last
<1>1. stamp \in Stamps /\ stamp \in Int /\ emitted \in Int
  BY StampsAreIntegers DEF Push, FlowTyped, TypeOK
<1>2. /\ c = Reference => published = None /\ Synchronize(stamp)
      /\ c # Reference => UNCHANGED <<emitted, published, chosen, stale>>
  BY DEF Push
<1> HIDE DEF stamp
<1>3. ASSUME Synchronize(stamp)
      PROVE  Refused(stamp) \/ Emitted(stamp) \/ Unmatched(stamp)
  <2>1. CASE stamp <= emitted
    <3>1. ~ (stamp > emitted)
      BY <1>1, <2>1
    <3> QED
      BY <1>3, <2>1, <3>1 DEF Synchronize, Refused
  <2>2. CASE stamp > emitted /\ Matches(buffer', stamp)
    <3>1. ~ (stamp <= emitted)
      BY <1>1, <2>2
    <3> QED
      BY <1>3, <2>2, <3>1 DEF Synchronize, Emitted
  <2>3. CASE stamp > emitted /\ ~Matches(buffer', stamp)
    <3>1. ~ (stamp <= emitted)
      BY <1>1, <2>3
    <3> QED
      BY <1>3, <2>3, <3>1 DEF Synchronize, Unmatched
  <2> QED
    BY <1>1, <2>1, <2>2, <2>3
<1> QED
  BY <1>1, <1>2, <1>3 DEF stamp

\* Whatever waits is newer than what was analysed, the set in the hands of the
\* reference camera's thread newer than the queue, and the queue in order.
Ordered ==
  /\ \A i \in 1 .. Len(queue) :
       /\ queue[i].stamp <= emitted
       /\ analysed # None => analysed < queue[i].stamp
       /\ published # None => queue[i].stamp < published.stamp
  /\ \A i, j \in 1 .. Len(queue) : i < j => queue[i].stamp < queue[j].stamp
  /\ published # None =>
       published.stamp <= emitted /\ (analysed # None => analysed < published.stamp)
  /\ analysed # None => analysed <= emitted

LEMMA OrderedInit == Init => Ordered
BY DEF Init, Ordered

LEMMA OrderedPush ==
  ASSUME FlowTyped, Ordered, NEW c \in Cameras, NEW arrival \in 1 .. now,
         NEW media \in 0 .. MaxMedia, Push(c, arrival, media)
  PROVE  Ordered'
<1> DEFINE stamp == Read(c, arrival, media).last
<1>1. queue' = queue /\ analysed' = analysed
  BY DEF Push
<1>2. CASE UNCHANGED <<emitted, published>>
  BY <1>1, <1>2 DEF Ordered
<1>3. CASE Emitted(stamp)
  <2>1. /\ stamp \in Int /\ emitted \in Int /\ emitted < stamp
        /\ analysed # None => analysed \in Int
        /\ \A i \in 1 .. Len(queue) : queue[i].stamp \in Int
    <3>1. stamp \in Int /\ emitted \in Int
      BY PushEffect, StampsAreIntegers DEF FlowTyped, TypeOK
    <3>2. emitted < stamp
      BY <1>3, <3>1 DEF Emitted
    <3>3. analysed # None => analysed \in Int
      BY StampsAreIntegers DEF FlowTyped, TypeOK
    <3>4. \A i \in 1 .. Len(queue) : queue[i] \in FrameSets
      BY DEF FlowTyped, TypeOK
    <3> QED
      BY <3>1, <3>2, <3>3, <3>4, StampsAreIntegers
  <2>2. emitted' = stamp /\ published'.stamp = stamp
    BY <1>3 DEF Emitted, FrameSet
  <2> HIDE DEF stamp
  <2> QED
    BY <1>1, <2>1, <2>2 DEF Ordered
<1> QED
  BY <1>2, <1>3, PushEffect DEF Refused, Unmatched

LEMMA OrderedStep == FlowTyped /\ Ordered /\ [Next]_vars => Ordered'
<1> SUFFICES ASSUME FlowTyped, Ordered, [Next]_vars PROVE Ordered'
  OBVIOUS
<1> USE DEF capture, sync, session
<1>1. ASSUME UNCHANGED <<queue, analysed, published, emitted>> PROVE Ordered'
  BY <1>1 DEF Ordered
<1>2. ASSUME NEW c \in Cameras, NEW arrival \in 1 .. now, NEW media \in 0 .. MaxMedia,
             Push(c, arrival, media)
      PROVE  Ordered'
  BY <1>2, OrderedPush
<1>3. /\ queue \in Seq(FrameSets) /\ \A f \in FrameSets : f.stamp \in Int
      /\ emitted \in Int
  BY StampsAreIntegers DEF FlowTyped, TypeOK
<1>4. CASE Enqueue
  <2>0. published # None
    BY <1>4 DEF Enqueue, FlowTyped, TypeOK
  <2>1. published \in FrameSets /\ published.stamp \in Int
    BY <1>3, <2>0 DEF FlowTyped, TypeOK
  <2>2. queue' = Append(queue, published) /\ UNCHANGED <<analysed, emitted>> /\ published' = None
    BY <1>4 DEF Enqueue
  <2>3. /\ Len(queue') = Len(queue) + 1
        /\ \A i \in 1 .. Len(queue) : queue'[i] = queue[i]
        /\ queue'[Len(queue) + 1] = published
    BY <1>3, <2>1, <2>2
  <2>4. \A i \in 1 .. Len(queue') : i \in 1 .. Len(queue) \/ i = Len(queue) + 1
    BY <1>3, <2>3
  <2> QED
    BY <1>3, <2>0, <2>1, <2>2, <2>3, <2>4 DEF Ordered
<1>5. ASSUME queue # <<>>, queue' = Tail(queue), UNCHANGED <<emitted, published>>,
             analysed' = analysed \/ analysed' = Head(queue).stamp
      PROVE  Ordered'
  <2>1. /\ Len(queue') = Len(queue) - 1 /\ Head(queue) = queue[1] /\ Len(queue) > 0
        /\ \A i \in 1 .. Len(queue') : queue'[i] = queue[i + 1] /\ i + 1 \in 2 .. Len(queue)
    BY <1>3, <1>5
  <2>2. CASE analysed' = analysed
    BY <1>3, <1>5, <2>1, <2>2 DEF Ordered
  <2>3. CASE analysed' = queue[1].stamp
    <3>1. queue[1] \in FrameSets /\ queue[1].stamp \in Int /\ 1 \in 1 .. Len(queue)
      BY <1>3, <2>1
    <3> QED
      BY <1>3, <1>5, <2>1, <2>3, <3>1 DEF Ordered
  <2> QED
    BY <1>5, <2>1, <2>2, <2>3
<1>6. CASE DropOldest
  BY <1>1, <1>5, <1>6 DEF DropOldest
<1>7. CASE WorkerTake
  BY <1>5, <1>7 DEF WorkerTake
<1>8. CASE \/ Tick \/ Subscribe \/ Unsubscribe \/ QueueFull \/ CountDrop
           \/ WorkerProcessed \/ WorkerFails \/ WorkerTold \/ UNCHANGED vars
  BY <1>1, <1>8 DEF Tick, Subscribe, Unsubscribe, QueueFull, CountDrop, WorkerProcessed,
                    WorkerFails, WorkerTold, vars
<1>10. CASE Receive
  <2>1. UNCHANGED <<queue, analysed, emitted>> /\ published' \in {published, None}
    BY <1>10 DEF Receive
  <2> QED
    BY <1>1, <2>1 DEF Ordered
<1>9. ASSUME NEW c \in Cameras, ReadFails(c) PROVE Ordered'
  BY <1>1, <1>9 DEF ReadFails
<1> QED
  BY <1>2, <1>4, <1>6, <1>7, <1>8, <1>9, <1>10 DEF Next

\* Sets are analysed in the order of their reference time, for all clocks.
THEOREM AnalysisInOrder == Spec => AnalysedInOrder
<1>1. ASSUME FlowTyped, Ordered, [Next]_vars
      PROVE  [analysed # None /\ analysed' # analysed => analysed' > analysed]_vars
  <2> SUFFICES ASSUME analysed # None, analysed' # analysed PROVE analysed' > analysed
    OBVIOUS
  <2>1. WorkerTake
    BY <1>1 DEF Next, Tick, Push, ReadFails, Subscribe, Unsubscribe, Receive, Enqueue,
                QueueFull, DropOldest, CountDrop, WorkerProcessed, WorkerFails, WorkerTold,
                vars, capture, sync, session
  <2>2. analysed' = queue[1].stamp /\ queue # <<>> /\ queue \in Seq(FrameSets)
    BY <1>1, <2>1 DEF WorkerTake, FlowTyped, TypeOK
  <2>3. analysed \in Int /\ queue[1] \in FrameSets /\ queue[1].stamp \in Int
    BY <1>1, <2>2, StampsAreIntegers DEF FlowTyped, TypeOK
  <2> QED
    BY <1>1, <2>2, <2>3 DEF Ordered
<1> QED
  BY <1>1, TypedInit, TypedStep, OrderedInit, OrderedStep, PTL DEF Spec, AnalysedInOrder

(***************************************************************************)
(* The counters.                                                           *)
(***************************************************************************)
\* Every set that is received while a session is subscribed is processed, failed,
\* dropped, waiting, being analysed or on its way, and none is that was not
\* received, at every moment between the steps of the camera's thread and of the
\* worker and in whatever order they come.
THEOREM EverySetCounted == Spec => []NoneUncounted
<1>1. Init => NoneUncounted
  BY DEF Init, NoneUncounted, Waiting, OnTheWay, TakenOut
<1>2. ASSUME FlowTyped, NoneUncounted, [Next]_vars PROVE NoneUncounted'
  <2> USE DEF capture, sync, session
  <2>1. /\ counts \in Counts /\ queue \in Seq(FrameSets) /\ Len(queue) \in Nat
        /\ unheard \in Nat
        /\ counts' \in Counts /\ Len(queue') \in Nat /\ unheard' \in Nat
    <3>1. FlowTyped'
      BY <1>2, TypedStep
    <3> QED
      BY <1>2, <3>1 DEF FlowTyped, TypeOK, Counts
  <2>2. /\ unheard \in Nat /\ unheard' \in Nat
        /\ Waiting \in Nat /\ OnTheWay \in Nat /\ TakenOut \in Nat
        /\ counts.received \in Nat /\ counts.processed \in Nat
        /\ counts.dropped \in Nat /\ counts.errors \in Nat
        /\ Waiting' \in Nat /\ OnTheWay' \in Nat /\ TakenOut' \in Nat
        /\ counts'.received \in Nat /\ counts'.processed \in Nat
        /\ counts'.dropped \in Nat /\ counts'.errors \in Nat
    BY <2>1 DEF Waiting, OnTheWay, TakenOut, Counts
  <2>3. CASE UNCHANGED <<counts, queue, inHand, handing, unheard>>
    BY <1>2, <2>3 DEF NoneUncounted, Waiting, OnTheWay, TakenOut
  <2>4. CASE Receive
    <3>1. PICK raised \in {0, 1} :
            counts' = [counts EXCEPT !.received = @ + 1, !.errors = @ + raised]
      BY <2>4 DEF Receive
    <3>2. /\ counts'.received = counts.received + 1
          /\ counts'.errors = counts.errors + raised
          /\ counts'.processed = counts.processed /\ counts'.dropped = counts.dropped
      BY <2>1, <3>1 DEF Counts
    <3>3. Waiting' = Waiting /\ OnTheWay = 0 /\ TakenOut = 0 /\ TakenOut' = 0
      BY <2>4 DEF Receive, Waiting, OnTheWay, TakenOut
    <3>4. raised \in Nat
      OBVIOUS
    <3>5. CASE listening = "subscribed"
      <4>1. unheard' = unheard /\ OnTheWay' = 1
        BY <2>4, <3>5 DEF Receive, OnTheWay
      <4> QED
        BY <1>2, <2>2, <3>2, <3>3, <3>4, <4>1 DEF NoneUncounted
    <3>6. CASE listening # "subscribed"
      <4>1. unheard' = unheard + 1 /\ OnTheWay' = 0
        BY <2>4, <3>6 DEF Receive, OnTheWay
      <4> QED
        BY <1>2, <2>2, <3>2, <3>3, <3>4, <4>1 DEF NoneUncounted
    <3> QED
      BY <3>5, <3>6
  <2>5. CASE Enqueue
    <3>1. /\ Len(queue') = Len(queue) + 1 /\ inHand' = inHand /\ counts' = counts
          /\ unheard' = unheard /\ handing = "offer" /\ handing' = "publish"
      BY <2>1, <2>5 DEF Enqueue
    <3>2. /\ Waiting' = Waiting + 1 /\ OnTheWay = 1 /\ OnTheWay' = 0
          /\ TakenOut = 0 /\ TakenOut' = 0
      BY <2>1, <3>1 DEF Waiting, OnTheWay, TakenOut
    <3> QED
      BY <1>2, <2>2, <3>1, <3>2 DEF NoneUncounted
  <2>6. CASE QueueFull
    <3>1. /\ UNCHANGED <<counts, unheard>> /\ Waiting' = Waiting /\ OnTheWay' = OnTheWay
          /\ TakenOut' = TakenOut
      BY <2>6 DEF QueueFull, Waiting, OnTheWay, TakenOut
    <3> QED
      BY <1>2, <3>1 DEF NoneUncounted
  <2>7. CASE DropOldest
    <3>1. /\ inHand' = inHand /\ counts' = counts /\ unheard' = unheard
          /\ OnTheWay = 1 /\ OnTheWay' = 1 /\ TakenOut = 0 /\ TakenOut' = 1
      BY <2>7 DEF DropOldest, OnTheWay, TakenOut
    <3>2. CASE queue = <<>>
      <4>1. Waiting' = Waiting
        BY <2>7, <3>1, <3>2 DEF DropOldest, Waiting
      <4> QED
        BY <1>2, <2>2, <3>1, <4>1 DEF NoneUncounted
    <3>3. CASE queue # <<>>
      <4>1. Len(queue') = Len(queue) - 1
        BY <2>1, <2>7, <3>3 DEF DropOldest
      <4>2. Waiting' = Waiting - 1
        BY <2>1, <3>1, <4>1 DEF Waiting
      <4> QED
        BY <1>2, <2>2, <3>1, <4>2 DEF NoneUncounted
    <3> QED
      BY <3>2, <3>3
  <2>8. CASE CountDrop
    <3>1. /\ UNCHANGED unheard /\ Waiting' = Waiting /\ OnTheWay' = OnTheWay
          /\ TakenOut = 1 /\ TakenOut' = 0 /\ Counted("dropped")
      BY <2>8 DEF CountDrop, Waiting, OnTheWay, TakenOut
    <3>2. /\ counts' \in Counts /\ counts'.received = counts.received
          /\ counts'.dropped = counts.dropped + 1 /\ counts'.errors = counts.errors
          /\ counts'.processed = counts.processed
      BY <2>1, <3>1 DEF Counted, Counts
    <3> QED
      BY <1>2, <2>2, <3>1, <3>2 DEF NoneUncounted
  <2>9. CASE WorkerTake
    <3>1. /\ Len(queue') = Len(queue) - 1 /\ inHand = None /\ queue # <<>>
          /\ UNCHANGED <<counts, unheard, handing>>
      BY <2>1, <2>9 DEF WorkerTake, Free
    <3>2. inHand' # None
      <4>1. inHand' = Head(queue) /\ queue # <<>>
        BY <2>9 DEF WorkerTake
      <4> QED
        BY <2>1, <4>1, NoneAssumption
    <3>3. Waiting' = Waiting /\ OnTheWay' = OnTheWay /\ TakenOut' = TakenOut
      BY <2>1, <3>1, <3>2 DEF Waiting, OnTheWay, TakenOut
    <3> QED
      BY <1>2, <3>1, <3>3 DEF NoneUncounted
  <2>10. CASE WorkerProcessed \/ WorkerFails
    <3>1. /\ inHand # None /\ inHand' = None /\ UNCHANGED <<queue, handing, unheard>>
          /\ Counted("processed") \/ Counted("errors")
      BY <2>10 DEF WorkerProcessed, WorkerFails
    <3>2. Waiting' = Waiting - 1 /\ OnTheWay' = OnTheWay /\ TakenOut' = TakenOut
      BY <2>1, <3>1 DEF Waiting, OnTheWay, TakenOut
    <3>3. /\ counts'.received = counts.received /\ counts'.dropped = counts.dropped
          /\ \/ /\ counts'.processed = counts.processed + 1
                /\ counts'.errors = counts.errors
             \/ /\ counts'.processed = counts.processed
                /\ counts'.errors = counts.errors + 1
      BY <2>1, <3>1 DEF Counted, Counts
    <3>4. /\ counts'.processed + counts'.errors = counts.processed + counts.errors + 1
          /\ counts'.processed <= counts.processed + 1
      BY <2>2, <3>3
    <3> QED
      BY <1>2, <2>2, <3>1, <3>2, <3>3, <3>4 DEF NoneUncounted
  <2>11. CASE WorkerTold
    <3>1. /\ UNCHANGED <<queue, inHand, handing, unheard>>
          /\ Counted("errors") \/ UNCHANGED counts
      BY <2>11 DEF WorkerTold
    <3>2. /\ counts'.received = counts.received /\ counts'.dropped = counts.dropped
          /\ counts'.processed = counts.processed
          /\ counts'.errors >= counts.errors
      BY <2>1, <3>1 DEF Counted, Counts
    <3>3. Waiting' = Waiting /\ OnTheWay' = OnTheWay /\ TakenOut' = TakenOut
      BY <3>1 DEF Waiting, OnTheWay, TakenOut
    <3> QED
      BY <1>2, <2>2, <3>1, <3>2, <3>3 DEF NoneUncounted
  <2> QED
    BY <1>2, <2>3, <2>4, <2>5, <2>6, <2>7, <2>8, <2>9, <2>10, <2>11
    DEF Next, Tick, Push, ReadFails, Subscribe, Unsubscribe, vars
<1> QED
  BY <1>1, <1>2, TypedInit, TypedStep, PTL DEF Spec

(***************************************************************************)
(* The timelines of the cameras.                                           *)
(***************************************************************************)
\* No frame in a buffer, and for the reference camera no set, is newer than the
\* last output of the camera's reader.
Steady ==
  source # "reference" =>
    \A c \in Cameras :
      /\ reader[c].last = None =>
           /\ reader[c].shift = None /\ buffer[c] = <<>>
           /\ c = Reference => emitted = -1
      /\ reader[c].last # None =>
           /\ \A i \in 1 .. Len(buffer[c]) : buffer[c][i].stamp <= reader[c].last
           /\ c = Reference => emitted <= reader[c].last
      /\ source = "arrival" => reader[c].last \in {None, reader[c].arrival}

\* A read puts out more than the one before it, the first one its arrival.
LEMMA ReadAdvances ==
  ASSUME FlowTyped, Steady, source # "reference", NEW c \in Cameras,
         NEW arrival \in 1 .. Horizon, reader[c].arrival < arrival,
         NEW media \in 0 .. MaxMedia, NEW out, out = Read(c, arrival, media).last
  PROVE  /\ out \in Int /\ out # None
         /\ reader[c].last = None => out = arrival
         /\ reader[c].last # None => out > reader[c].last
         /\ source = "arrival" => out = arrival
<1> DEFINE r == [Opened(reader[c]) EXCEPT !.arrival = arrival]
<1>1. reader[c] \in Readers
  BY DEF FlowTyped, TypeOK
<1>2. /\ r.last = reader[c].last
      /\ r.shift = reader[c].shift \/ r.shift = None
      /\ r \in [open : BOOLEAN, shift : Int \cup {None}, last : Stamps \cup {None}, arrival : Int]
  <2>1. /\ Opened(reader[c]) \in Readers /\ Opened(reader[c]).last = reader[c].last
        /\ Opened(reader[c]).shift = reader[c].shift \/ Opened(reader[c]).shift = None
    BY <1>1 DEF Opened, Readers
  <2>2. arrival \in Int
    BY SizeAssumption
  <2> QED
    BY <2>1, <2>2 DEF Readers
<1>3. arrival \in Int /\ arrival > 0 /\ media \in Int
  BY SizeAssumption
<1>4. CASE source = "arrival"
  <2>1. out = arrival
    BY <1>2, <1>4 DEF Read
  <2>2. reader[c].last # None => reader[c].last = reader[c].arrival
    BY <1>4 DEF Steady
  <2> QED
    BY <1>3, <2>1, <2>2, NoneAssumption
<1>5. CASE source = "pts"
  <2>1. out = ResolvePts(r, arrival, media).last
    BY <1>5 DEF Read
  <2> HIDE DEF r
  <2>2. CASE reader[c].last = None
    <3>1. r.last = None /\ r.shift = None
      BY <1>2, <2>2 DEF Steady
    <3>2. ResolvePts(r, arrival, media)
            = [r EXCEPT !.shift = arrival - media, !.last = arrival - media + media]
      BY <3>1 DEF ResolvePts, Baseline
    <3>3. out = arrival - media + media
      BY <1>2, <2>1, <3>2
    <3> QED
      BY <1>3, <2>2, <3>3, <1>5, NoneAssumption
  <2>3. CASE reader[c].last # None
    <3>1. r.last \in Int /\ r.last # None
      BY <1>2, <2>3, StampsAreIntegers
    <3> DEFINE base == Baseline(r, arrival)
               shift == IF r.shift = None THEN base - media ELSE r.shift
    <3>2. base \in Int /\ base > r.last
      BY <1>3, <3>1 DEF Baseline, Larger
    <3>3. shift \in Int
      BY <1>2, <1>3, <3>2
    <3>4. out = IF shift + media > r.last THEN shift + media ELSE base - media + media
      <4>1. CASE shift + media > r.last
        BY <1>2, <2>1, <3>1, <4>1 DEF ResolvePts
      <4>2. CASE ~ (shift + media > r.last)
        BY <1>2, <2>1, <3>1, <4>2 DEF ResolvePts
      <4> QED
        BY <4>1, <4>2
    <3> HIDE DEF base, shift
    <3>5. out \in Int /\ out > r.last
      BY <1>3, <3>1, <3>2, <3>3, <3>4
    <3> QED
      BY <1>2, <1>5, <2>3, <3>5, NoneAssumption
  <2> QED
    BY <2>2, <2>3
<1> QED
  BY <1>4, <1>5, SourceAssumption DEF Clocks, FlowTyped, TypeOK

\* What a push does to the buffers: the camera's gets the new packet and may
\* lose its oldest ones.
LEMMA PushSlides ==
  ASSUME FlowTyped, NEW c \in Cameras, NEW arrival \in 1 .. now,
         NEW media \in 0 .. MaxMedia, Push(c, arrival, media)
  PROVE  /\ pushed'[c] = pushed[c] + 1
         /\ \A k \in Cameras \ {c} : buffer'[k] = buffer[k] /\ pushed'[k] = pushed[k]
         /\ \E d \in 0 .. Len(buffer[c]) + 1 :
              /\ Len(buffer'[c]) = Len(buffer[c]) + 1 - d
              /\ \A i \in 1 .. Len(buffer'[c]) :
                   \/ i + d \in 1 .. Len(buffer[c]) /\ buffer'[c][i] = buffer[c][i + d]
                   \/ /\ i + d = Len(buffer[c]) + 1
                      /\ buffer'[c][i].seq = pushed[c] + 1
                      /\ buffer'[c][i].stamp = Read(c, arrival, media).last
<1> DEFINE packet == [seq |-> pushed'[c], stamp |-> Read(c, arrival, media).last]
           grown == Append(buffer[c], packet)
<1>1. pushed' = [pushed EXCEPT ![c] = @ + 1] /\ buffer' = [buffer EXCEPT ![c] = Newest(grown, BufferSize)]
  BY DEF Push
<1>2. pushed'[c] = pushed[c] + 1 /\ buffer'[c] = Newest(grown, BufferSize)
  BY <1>1 DEF FlowTyped, TypeOK
<1>3. buffer[c] \in Seq(Packets) /\ BufferSize \in Nat \ {0}
  BY SizeAssumption DEF FlowTyped, TypeOK
<1>4. packet.seq = pushed[c] + 1 /\ packet.stamp = Read(c, arrival, media).last
  BY <1>2
<1> HIDE DEF packet
<1> DEFINE S == Packets \cup {packet}
<1>5. /\ grown \in Seq(S) /\ Len(grown) = Len(buffer[c]) + 1
      /\ \A i \in 1 .. Len(buffer[c]) : grown[i] = buffer[c][i]
      /\ grown[Len(buffer[c]) + 1] = packet
  <2>1. buffer[c] \in Seq(S)
    BY <1>3
  <2> QED
    BY <2>1
<1> HIDE DEF grown, S
<1>6. PICK d \in 0 .. Len(grown) :
        /\ Len(Newest(grown, BufferSize)) = Len(grown) - d
        /\ \A i \in 1 .. Len(grown) - d : Newest(grown, BufferSize)[i] = grown[i + d]
  <2>1. grown \in Seq(S) /\ BufferSize \in Nat \ {0}
    BY <1>3, <1>5
  <2> QED
    BY <2>1, NewestIs
<1>7. Len(buffer[c]) \in Nat
  BY <1>3
<1>8. ASSUME NEW i \in 1 .. Len(buffer'[c])
      PROVE  \/ i + d \in 1 .. Len(buffer[c]) /\ buffer'[c][i] = buffer[c][i + d]
             \/ /\ i + d = Len(buffer[c]) + 1
                /\ buffer'[c][i].seq = pushed[c] + 1
                /\ buffer'[c][i].stamp = Read(c, arrival, media).last
  <2>1. i \in 1 .. Len(grown) - d /\ buffer'[c][i] = grown[i + d]
    BY <1>2, <1>6
  <2>2. i + d \in 1 .. Len(buffer[c]) \/ i + d = Len(buffer[c]) + 1
    BY <1>5, <1>6, <1>7, <2>1
  <2> QED
    BY <1>4, <1>5, <2>1, <2>2
<1>9. \A k \in Cameras \ {c} : buffer'[k] = buffer[k] /\ pushed'[k] = pushed[k]
  BY <1>1 DEF FlowTyped, TypeOK
<1> QED
  BY <1>2, <1>5, <1>6, <1>8, <1>9

LEMMA SteadyInit == Init => Steady /\ ~stale
BY DEF Init, Steady, Closed

LEMMA SteadyPush ==
  ASSUME FlowTyped, Steady, NEW c \in Cameras, NEW arrival \in 1 .. now,
         NEW media \in 0 .. MaxMedia, Push(c, arrival, media), source # "reference"
  PROVE  Steady' /\ stale' = stale
<1> DEFINE out == Read(c, arrival, media).last
<1>1. arrival \in 1 .. Horizon /\ reader[c].arrival < arrival
  <2>1. arrival \in reader[c].arrival + 1 .. now
    BY DEF Push
  <2>2. reader[c].arrival \in Int /\ now \in 0 .. Horizon
    BY SizeAssumption DEF FlowTyped, TypeOK, Readers
  <2> QED
    BY <2>1, <2>2, SizeAssumption
<1>2. /\ out \in Int /\ out # None
      /\ reader[c].last = None => out = arrival
      /\ reader[c].last # None => out > reader[c].last
      /\ source = "arrival" => out = arrival
  BY <1>1, ReadAdvances
<1>3. reader' = [reader EXCEPT ![c] = Read(c, arrival, media)] /\ source' = source
  BY DEF Push
<1>4. reader'[c].last = out /\ reader'[c].arrival = arrival
  BY <1>1, <1>3, ReadTyped DEF FlowTyped, TypeOK, Push
<1>5. \A k \in Cameras \ {c} : reader'[k] = reader[k] /\ buffer'[k] = buffer[k]
  BY <1>3, PushSlides DEF FlowTyped, TypeOK
<1>6. emitted \in Int /\ arrival \in Int /\ (reader[c].last # None => reader[c].last \in Int)
  <2>1. emitted \in Stamps /\ reader[c] \in Readers
    BY DEF FlowTyped, TypeOK
  <2>2. reader[c].last \in Stamps \cup {None}
    BY <2>1 DEF Readers
  <2>3. arrival \in Int
    BY <1>1, SizeAssumption
  <2> QED
    BY <2>1, <2>2, <2>3, StampsAreIntegers
<1>7. c = Reference => out > emitted
  BY <1>1, <1>2, <1>6 DEF Steady
<1>8. /\ stale' = stale
      /\ c = Reference => emitted' \in {emitted, out}
      /\ c # Reference => emitted' = emitted
  <2>1. CASE c # Reference
    BY <2>1, PushEffect
  <2>2. CASE c = Reference
    <3>1. Refused(out) \/ Emitted(out) \/ Unmatched(out)
      BY <2>2, PushEffect
    <3> HIDE DEF out
    <3>2. ~ (out <= emitted)
      BY <1>2, <1>6, <1>7, <2>2
    <3> QED
      BY <2>2, <3>1, <3>2 DEF Refused, Emitted, Unmatched
  <2> QED
    BY <2>1, <2>2
<1>9. \A i \in 1 .. Len(buffer'[c]) : buffer'[c][i].stamp <= out
  <2>1. \A i \in 1 .. Len(buffer[c]) : buffer[c][i].stamp \in Int /\ buffer[c][i].stamp <= out
    <3>1. \A i \in 1 .. Len(buffer[c]) : buffer[c][i].stamp \in Int
      BY StampsAreIntegers DEF FlowTyped, TypeOK
    <3>2. reader[c].last = None => buffer[c] = <<>>
      BY DEF Steady
    <3>3. reader[c].last # None =>
            \A i \in 1 .. Len(buffer[c]) : buffer[c][i].stamp <= reader[c].last
      BY DEF Steady
    <3> QED
      BY <1>2, <1>6, <3>1, <3>2, <3>3
  <2>2. PICK d \in 0 .. Len(buffer[c]) + 1 :
           \A i \in 1 .. Len(buffer'[c]) :
             \/ i + d \in 1 .. Len(buffer[c]) /\ buffer'[c][i] = buffer[c][i + d]
             \/ /\ i + d = Len(buffer[c]) + 1
                /\ buffer'[c][i].seq = pushed[c] + 1
                /\ buffer'[c][i].stamp = out
    BY PushSlides
  <2> HIDE DEF out
  <2>3. ASSUME NEW i \in 1 .. Len(buffer'[c]) PROVE buffer'[c][i].stamp <= out
    <3>1. CASE i + d \in 1 .. Len(buffer[c]) /\ buffer'[c][i] = buffer[c][i + d]
      BY <2>1, <3>1
    <3>2. CASE buffer'[c][i].stamp = out
      BY <1>2, <3>2
    <3> QED
      BY <2>2, <3>1, <3>2
  <2> QED
    BY <2>3
<1>10. emitted' <= out \/ c # Reference
  BY <1>2, <1>6, <1>7, <1>8
<1>11. ASSUME NEW k \in Cameras
       PROVE  /\ reader'[k].last = None =>
                   /\ reader'[k].shift = None /\ buffer'[k] = <<>>
                   /\ k = Reference => emitted' = -1
              /\ reader'[k].last # None =>
                   /\ \A i \in 1 .. Len(buffer'[k]) : buffer'[k][i].stamp <= reader'[k].last
                   /\ k = Reference => emitted' <= reader'[k].last
              /\ source' = "arrival" => reader'[k].last \in {None, reader'[k].arrival}
  <2> HIDE DEF out
  <2>1. CASE k = c
    BY <1>2, <1>3, <1>4, <1>9, <1>10, <2>1
  <2>2. CASE k # c
    BY <1>3, <1>5, <1>8, <2>2 DEF Steady
  <2> QED
    BY <2>1, <2>2
<1> QED
  BY <1>8, <1>11 DEF Steady

LEMMA SteadyStep ==
  ASSUME FlowTyped, Steady, NeverStale, [Next]_vars
  PROVE  Steady' /\ NeverStale'
<1> USE DEF capture, sync, session
<1>1. ASSUME UNCHANGED <<source, reader, buffer, emitted, stale>> PROVE Steady' /\ NeverStale'
  BY <1>1 DEF Steady, NeverStale
<1>2. ASSUME NEW c \in Cameras, NEW arrival \in 1 .. now, NEW media \in 0 .. MaxMedia,
             Push(c, arrival, media)
      PROVE  Steady' /\ NeverStale'
  <2>1. source' = source
    BY <1>2 DEF Push
  <2>2. CASE source = "reference"
    BY <2>1, <2>2 DEF Steady, NeverStale
  <2> QED
    BY <1>2, <2>1, <2>2, SteadyPush DEF NeverStale
<1>3. ASSUME NEW c \in Cameras, ReadFails(c) PROVE Steady' /\ NeverStale'
  <2>1. /\ UNCHANGED <<source, buffer, emitted, stale>>
        /\ reader' = [reader EXCEPT ![c].open = FALSE]
    BY <1>3 DEF ReadFails
  <2>2. \A k \in Cameras : /\ reader'[k].last = reader[k].last
                           /\ reader'[k].shift = reader[k].shift
                           /\ reader'[k].arrival = reader[k].arrival
    BY <2>1 DEF FlowTyped, TypeOK, Readers
  <2> QED
    BY <2>1, <2>2 DEF Steady, NeverStale
<1> QED
  BY <1>1, <1>2, <1>3 DEF Next, Tick, Subscribe, Unsubscribe, Receive, Enqueue, QueueFull, DropOldest,
      CountDrop, WorkerTake, WorkerProcessed, WorkerFails, WorkerTold, vars

\* No frame of the reference camera is ever refused as stale, for any
\* succession of reconnects, clock jumps and repeated buffers.
THEOREM ReferenceNeverStale == Spec => []NeverStale
<1>1. Init => Steady /\ NeverStale
  BY SteadyInit DEF NeverStale
<1> QED
  BY <1>1, TypedInit, TypedStep, SteadyStep, PTL DEF Spec

(***************************************************************************)
(* The frames of the sets.                                                 *)
(***************************************************************************)
\* The frames in a buffer are numbered without a gap, up to the last one pushed.
Numbered ==
  \A c \in Cameras : \A i \in 1 .. Len(buffer[c]) :
    buffer[c][i].seq = pushed[c] - Len(buffer[c]) + i

\* Their times increase, unless they are taken from a reference clock.
Rising ==
  source # "reference" => \A c \in Cameras : \A i, j \in 1 .. Len(buffer[c]) :
    i < j => buffer[c][i].stamp < buffer[c][j].stamp

\* Of what is still in the buffers n frames of each camera have been pushed to,
\* all that came before the frames of a set is farther than they are from the
\* time t they were found for.
Farther(b, n, set, t) ==
  \A c \in Cameras :
    /\ set[c].seq <= n[c]
    /\ \A i \in 1 .. Len(b[c]) :
         /\ b[c][i].seq = set[c].seq => b[c][i].stamp = set[c].stamp
         /\ b[c][i].seq < set[c].seq =>
              /\ b[c][i].stamp < set[c].stamp
              /\ Distance(set[c].stamp, t) < Distance(b[c][i].stamp, t)

Shown ==
  source # "reference" /\ chosen # None => Farther(buffer, pushed, chosen, emitted)

LEMMA NumberedPush ==
  ASSUME FlowTyped, Numbered, NEW c \in Cameras, NEW arrival \in 1 .. now,
         NEW media \in 0 .. MaxMedia, Push(c, arrival, media)
  PROVE  Numbered'
<1>1. ASSUME NEW i \in 1 .. Len(buffer'[c])
      PROVE  buffer'[c][i].seq = pushed'[c] - Len(buffer'[c]) + i
  <2>1. PICK d \in 0 .. Len(buffer[c]) + 1 :
          /\ Len(buffer'[c]) = Len(buffer[c]) + 1 - d
          /\ \/ i + d \in 1 .. Len(buffer[c]) /\ buffer'[c][i] = buffer[c][i + d]
             \/ i + d = Len(buffer[c]) + 1 /\ buffer'[c][i].seq = pushed[c] + 1
    BY PushSlides
  <2>2. pushed'[c] = pushed[c] + 1
    BY PushSlides
  <2>3. pushed[c] \in Int /\ Len(buffer[c]) \in Nat
    BY SizeAssumption DEF FlowTyped, TypeOK
  <2>4. CASE i + d \in 1 .. Len(buffer[c]) /\ buffer'[c][i] = buffer[c][i + d]
    <3>1. buffer[c][i + d].seq = pushed[c] - Len(buffer[c]) + (i + d)
      BY <2>4 DEF Numbered
    <3> QED
      BY <2>1, <2>2, <2>3, <2>4, <3>1
  <2>5. CASE i + d = Len(buffer[c]) + 1 /\ buffer'[c][i].seq = pushed[c] + 1
    <3>1. pushed'[c] - Len(buffer'[c]) + i = pushed[c] + 1
      BY <2>1, <2>2, <2>3, <2>5
    <3> QED
      BY <2>5, <3>1
  <2> QED
    BY <2>1, <2>4, <2>5
<1>2. ASSUME NEW k \in Cameras \ {c}, NEW i \in 1 .. Len(buffer'[k])
      PROVE  buffer'[k][i].seq = pushed'[k] - Len(buffer'[k]) + i
  <2>1. buffer'[k] = buffer[k] /\ pushed'[k] = pushed[k]
    BY PushSlides
  <2>2. buffer[k][i].seq = pushed[k] - Len(buffer[k]) + i
    BY <2>1 DEF Numbered
  <2> QED
    BY <2>1, <2>2
<1> QED
  BY <1>1, <1>2 DEF Numbered

LEMMA RisingPush ==
  ASSUME FlowTyped, Steady, Rising, NEW c \in Cameras, NEW arrival \in 1 .. now,
         NEW media \in 0 .. MaxMedia, Push(c, arrival, media), source # "reference"
  PROVE  Rising'
<1> DEFINE out == Read(c, arrival, media).last
<1>1. arrival \in 1 .. Horizon /\ reader[c].arrival < arrival
  <2>1. arrival \in reader[c].arrival + 1 .. now
    BY DEF Push
  <2>2. reader[c].arrival \in Int /\ now \in 0 .. Horizon
    BY SizeAssumption DEF FlowTyped, TypeOK, Readers
  <2> QED
    BY <2>1, <2>2, SizeAssumption
<1>2. out \in Int /\ \A i \in 1 .. Len(buffer[c]) : buffer[c][i].stamp < out
  <2>1. /\ out \in Int
        /\ reader[c].last # None => out > reader[c].last /\ reader[c].last \in Int
    <3>1. reader[c].last \in Stamps \cup {None}
      BY DEF FlowTyped, TypeOK, Readers
    <3> QED
      <4>1. out \in Int /\ (reader[c].last # None => out > reader[c].last)
        BY <1>1, ReadAdvances
      <4> HIDE DEF out
      <4> QED
        BY <3>1, <4>1, StampsAreIntegers
  <2>2. \A i \in 1 .. Len(buffer[c]) : buffer[c][i].stamp \in Int
    BY StampsAreIntegers DEF FlowTyped, TypeOK
  <2>3. reader[c].last = None => buffer[c] = <<>>
    BY DEF Steady
  <2>4. reader[c].last # None => \A i \in 1 .. Len(buffer[c]) : buffer[c][i].stamp <= reader[c].last
    BY DEF Steady
  <2> HIDE DEF out
  <2> QED
    BY <2>1, <2>2, <2>3, <2>4
<1>3. PICK d \in 0 .. Len(buffer[c]) + 1 :
        /\ Len(buffer'[c]) = Len(buffer[c]) + 1 - d
        /\ \A i \in 1 .. Len(buffer'[c]) :
             \/ i + d \in 1 .. Len(buffer[c]) /\ buffer'[c][i] = buffer[c][i + d]
             \/ i + d = Len(buffer[c]) + 1 /\ buffer'[c][i].stamp = out
  BY PushSlides
<1>4. Len(buffer[c]) \in Nat
  BY DEF FlowTyped, TypeOK
<1> HIDE DEF out
<1>5. ASSUME NEW i \in 1 .. Len(buffer'[c]), NEW j \in 1 .. Len(buffer'[c]), i < j
      PROVE  buffer'[c][i].stamp < buffer'[c][j].stamp
  <2>1. i + d \in 1 .. Len(buffer[c]) /\ buffer'[c][i] = buffer[c][i + d]
    BY <1>3, <1>4, <1>5
  <2>2. CASE j + d \in 1 .. Len(buffer[c]) /\ buffer'[c][j] = buffer[c][j + d]
    <3>1. i + d < j + d
      BY <1>5
    <3> QED
      BY <2>1, <2>2, <3>1 DEF Rising
  <2>3. CASE buffer'[c][j].stamp = out
    BY <1>2, <2>1, <2>3
  <2> QED
    BY <1>3, <2>2, <2>3
<1>6. ASSUME NEW k \in Cameras \ {c}, NEW i \in 1 .. Len(buffer'[k]),
             NEW j \in 1 .. Len(buffer'[k]), i < j
      PROVE  buffer'[k][i].stamp < buffer'[k][j].stamp
  BY <1>6, PushSlides DEF Rising
<1> QED
  BY <1>5, <1>6 DEF Rising

\* A push takes nothing away from what is known of the last set.
LEMMA FartherPush ==
  ASSUME FlowTyped, chosen # None, Farther(buffer, pushed, chosen, emitted),
         NEW c \in Cameras, NEW arrival \in 1 .. now,
         NEW media \in 0 .. MaxMedia, Push(c, arrival, media)
  PROVE  Farther(buffer', pushed', chosen, emitted)
<1>1. \A k \in Cameras : chosen[k].seq \in Int /\ pushed[k] \in Int /\ chosen[k].seq <= pushed[k]
  <2>1. chosen \in [Cameras -> Packets] /\ pushed \in [Cameras -> 0 .. Horizon]
    BY DEF FlowTyped, TypeOK
  <2> QED
    BY <2>1, SizeAssumption, StampsAreIntegers DEF Farther
<1>2. /\ pushed'[c] = pushed[c] + 1
      /\ \A k \in Cameras \ {c} : buffer'[k] = buffer[k] /\ pushed'[k] = pushed[k]
  BY PushSlides
<1>3. ASSUME NEW i \in 1 .. Len(buffer'[c])
      PROVE  /\ buffer'[c][i].seq = chosen[c].seq => buffer'[c][i].stamp = chosen[c].stamp
             /\ buffer'[c][i].seq < chosen[c].seq =>
                  /\ buffer'[c][i].stamp < chosen[c].stamp
                  /\ Distance(chosen[c].stamp, emitted) < Distance(buffer'[c][i].stamp, emitted)
  <2>1. \/ \E j \in 1 .. Len(buffer[c]) : buffer'[c][i] = buffer[c][j]
        \/ buffer'[c][i].seq = pushed[c] + 1
    BY PushSlides
  <2>2. CASE \E j \in 1 .. Len(buffer[c]) : buffer'[c][i] = buffer[c][j]
    BY <2>2 DEF Farther
  <2>3. CASE buffer'[c][i].seq = pushed[c] + 1
    BY <1>1, <2>3
  <2> QED
    BY <2>1, <2>2, <2>3
<1>4. chosen[c].seq <= pushed'[c]
  BY <1>1, <1>2
<1> QED
  BY <1>2, <1>3, <1>4 DEF Farther

\* A set that is found anew has the property that Shown keeps.
LEMMA FoundFarther ==
  ASSUME NEW b \in [Cameras -> Seq(Packets)], NEW n \in [Cameras -> Int], NEW t \in Stamps,
         Matches(b, t),
         \A c \in Cameras : \A i \in 1 .. Len(b[c]) : b[c][i].seq = n[c] - Len(b[c]) + i,
         \A c \in Cameras : \A i, j \in 1 .. Len(b[c]) : i < j => b[c][i].stamp < b[c][j].stamp
  PROVE  Farther(b, n, FrameSet(b, t).frames, t)
<1> SUFFICES ASSUME NEW c \in Cameras
             PROVE  LET p == Nearest(b[c], t) IN
                    /\ p.seq <= n[c]
                    /\ \A i \in 1 .. Len(b[c]) :
                         /\ b[c][i].seq = p.seq => b[c][i].stamp = p.stamp
                         /\ b[c][i].seq < p.seq =>
                              /\ b[c][i].stamp < p.stamp
                              /\ Distance(p.stamp, t) < Distance(b[c][i].stamp, t)
  BY DEF Farther, FrameSet
<1>1. b[c] \in Seq(Packets) /\ b[c] # <<>> /\ t \in Int
  BY StampsAreIntegers DEF Matches
<1>2. PICK m \in 1 .. Len(b[c]) :
        /\ Nearest(b[c], t) = b[c][m]
        /\ \A j \in 1 .. m - 1 : Distance(b[c][m].stamp, t) < Distance(b[c][j].stamp, t)
  BY <1>1, NearestIs
<1>3. n[c] \in Int /\ Len(b[c]) \in Nat
  BY <1>1
<1>4. b[c][m].seq = n[c] - Len(b[c]) + m
  OBVIOUS
<1>5. b[c][m].seq <= n[c]
  BY <1>3, <1>4
<1>6. ASSUME NEW i \in 1 .. Len(b[c])
      PROVE  /\ b[c][i].seq = b[c][m].seq => i = m
             /\ b[c][i].seq < b[c][m].seq => i < m
  <2>1. b[c][i].seq = n[c] - Len(b[c]) + i
    OBVIOUS
  <2> QED
    BY <1>3, <1>4, <2>1
<1>7. ASSUME NEW i \in 1 .. Len(b[c]), i < m
      PROVE  /\ b[c][i].stamp < b[c][m].stamp
             /\ Distance(b[c][m].stamp, t) < Distance(b[c][i].stamp, t)
  <2>1. i \in 1 .. m - 1
    BY <1>7
  <2> QED
    BY <1>2, <1>7, <2>1
<1> QED
  BY <1>2, <1>5, <1>6, <1>7

\* Of two frames of which the earlier one was farther from the earlier of two
\* times, it is also farther from the later one.
LEMMA StillFarther ==
  ASSUME NEW p \in Int, NEW q \in Int, NEW e \in Int, NEW t \in Int,
         p < q, e < t, Distance(q, e) < Distance(p, e)
  PROVE  Distance(q, t) < Distance(p, t)
BY DEF Distance

LEMMA NeverBack ==
  ASSUME FlowTyped, FlowTyped', Numbered', Shown, source # "reference",
         chosen # None, NEW c \in Cameras, NEW arrival \in 1 .. now,
         NEW media \in 0 .. MaxMedia, Push(c, arrival, media), NEW t, Emitted(t),
         NEW k \in Cameras
  PROVE  chosen'[k].seq >= chosen[k].seq
<1> DEFINE p == chosen'[k]
           q == chosen[k]
<1>1. /\ t \in Int /\ emitted \in Int /\ emitted < t /\ t \in Stamps
      /\ p = Nearest(buffer'[k], t) /\ buffer'[k] # <<>>
      /\ buffer'[k] \in Seq(Packets)
  <2>1. emitted \in Stamps /\ emitted' \in Stamps /\ buffer' \in [Cameras -> Seq(Packets)]
    BY DEF FlowTyped, TypeOK
  <2>2. emitted' = t /\ t > emitted /\ Matches(buffer', t) /\ chosen' = FrameSet(buffer', t).frames
    BY DEF Emitted
  <2>3. emitted \in Int /\ t \in Int
    BY <2>1, <2>2, StampsAreIntegers
  <2>4. p = Nearest(buffer'[k], t)
    BY <2>2 DEF FrameSet
  <2> HIDE DEF p
  <2> QED
    BY <2>1, <2>2, <2>3, <2>4 DEF Matches
<1>2. PICK m \in 1 .. Len(buffer'[k]) :
        /\ p = buffer'[k][m]
        /\ \A j \in 1 .. Len(buffer'[k]) : Distance(p.stamp, t) <= Distance(buffer'[k][j].stamp, t)
  BY <1>1, NearestIs
<1>3. Farther(buffer', pushed', chosen, emitted)
  BY FartherPush DEF Shown
<1>4. p \in Packets /\ q \in Packets
  <2>1. p \in Packets
    BY <1>1, <1>2
  <2>2. q \in Packets
    BY DEF FlowTyped, TypeOK
  <2> QED
    BY <2>1, <2>2
<1>5. p.seq \in Int /\ q.seq \in Int /\ p.stamp \in Int /\ q.stamp \in Int
  BY <1>4, StampsAreIntegers
<1>6. pushed'[k] \in Int /\ Len(buffer'[k]) \in Nat
  BY <1>1, SizeAssumption DEF FlowTyped, TypeOK
<1> SUFFICES ASSUME p.seq < q.seq PROVE FALSE
  BY <1>5
<1>7. p.stamp < q.stamp /\ Distance(q.stamp, emitted) < Distance(p.stamp, emitted)
      /\ q.seq <= pushed'[k]
  BY <1>2, <1>3 DEF Farther
<1>8. p.seq = pushed'[k] - Len(buffer'[k]) + m
  BY <1>2 DEF Numbered
<1> DEFINE j == m + (q.seq - p.seq)
<1>9. j \in 1 .. Len(buffer'[k])
  BY <1>5, <1>6, <1>7, <1>8
<1>10. buffer'[k][j].seq = q.seq
  <2>1. buffer'[k][j].seq = pushed'[k] - Len(buffer'[k]) + j
    BY <1>9 DEF Numbered
  <2> HIDE DEF p, q
  <2>2. pushed'[k] - Len(buffer'[k]) + (m + (q.seq - p.seq)) = q.seq
    BY <1>5, <1>6, <1>8
  <2> QED
    BY <2>1, <2>2
<1>11. buffer'[k][j].stamp = q.stamp
  BY <1>3, <1>9, <1>10 DEF Farther
<1>12. Distance(p.stamp, t) <= Distance(q.stamp, t)
  BY <1>2, <1>9, <1>11
<1>13. Distance(q.stamp, t) < Distance(p.stamp, t)
  BY <1>1, <1>5, <1>7, StillFarther
<1> HIDE DEF p, q
<1> QED
  BY <1>1, <1>5, <1>12, <1>13 DEF Distance

AdvanceInv == FlowTyped /\ Steady /\ NeverStale /\ Numbered /\ Rising /\ Shown

LEMMA AdvanceInit == Init => AdvanceInv
BY TypedInit, SteadyInit DEF AdvanceInv, Init, NeverStale, Numbered, Rising, Shown

LEMMA AdvanceStep == AdvanceInv /\ [Next]_vars => AdvanceInv'
<1> SUFFICES ASSUME AdvanceInv, [Next]_vars PROVE AdvanceInv'
  OBVIOUS
<1> USE DEF capture, sync, session
<1>1. FlowTyped' /\ Steady' /\ NeverStale'
  BY TypedStep, SteadyStep DEF AdvanceInv
<1>2. ASSUME UNCHANGED <<source, buffer, pushed, chosen, emitted>>
      PROVE  (Numbered /\ Rising /\ Shown)'
  BY <1>2 DEF AdvanceInv, Numbered, Rising, Shown, Farther
<1>3. ASSUME NEW c \in Cameras, NEW arrival \in 1 .. now, NEW media \in 0 .. MaxMedia,
             Push(c, arrival, media)
      PROVE  (Numbered /\ Rising /\ Shown)'
  <2>1. Numbered' /\ source' = source
    BY <1>3, NumberedPush DEF AdvanceInv, Push
  <2>2. CASE source = "reference"
    BY <2>1, <2>2 DEF Rising, Shown
  <2>3. CASE source # "reference"
    <3>1. Rising'
      BY <1>3, <2>3, RisingPush DEF AdvanceInv
    <3>2. ASSUME UNCHANGED <<chosen, emitted>> PROVE Shown'
      BY <1>3, <2>1, <2>3, <3>2, FartherPush DEF AdvanceInv, Shown
    <3>3. ASSUME NEW t, Emitted(t) PROVE Shown'
      <4>1. /\ t = emitted' /\ Matches(buffer', t) /\ chosen' = FrameSet(buffer', t).frames
        BY <3>3 DEF Emitted
      <4>2. /\ t \in Stamps /\ buffer' \in [Cameras -> Seq(Packets)]
            /\ pushed' \in [Cameras -> Int]
        BY <1>1, <4>1, SizeAssumption DEF FlowTyped, TypeOK
      <4>3. Farther(buffer', pushed', FrameSet(buffer', t).frames, t)
        BY <2>1, <2>3, <3>1, <4>1, <4>2, FoundFarther DEF Numbered, Rising
      <4> QED
        BY <4>1, <4>3 DEF Shown
    <3> QED
      BY <1>3, <2>1, <3>1, <3>2, <3>3, PushEffect DEF AdvanceInv, Refused, Unmatched
  <2> QED
    BY <2>1, <2>2, <2>3
<1>4. ASSUME NEW c \in Cameras, ReadFails(c) PROVE (Numbered /\ Rising /\ Shown)'
  BY <1>2, <1>4 DEF ReadFails
<1> QED
  BY <1>1, <1>2, <1>3, <1>4
  DEF Next, AdvanceInv, Tick, Subscribe, Unsubscribe, Receive, Enqueue, QueueFull, DropOldest,
      CountDrop, WorkerTake, WorkerProcessed, WorkerFails, WorkerTold, vars

\* A set never shows a camera at an earlier frame than the set before it.
THEOREM FramesAdvance == Spec => CamerasAdvance
<1>1. ASSUME AdvanceInv, AdvanceInv', [Next]_vars
      PROVE  [source # "reference" /\ chosen # None /\ chosen' # chosen =>
                \A c \in Cameras : chosen'[c].seq >= chosen[c].seq]_vars
  <2> SUFFICES ASSUME source # "reference", chosen # None, chosen' # chosen, NEW k \in Cameras
               PROVE  chosen'[k].seq >= chosen[k].seq
    OBVIOUS
  <2>1. PICK c \in Cameras, arrival \in 1 .. now, media \in 0 .. MaxMedia :
          Push(c, arrival, media)
    BY <1>1 DEF Next, Tick, ReadFails, Subscribe, Unsubscribe, Receive, Enqueue, QueueFull,
                DropOldest, CountDrop, WorkerTake, WorkerProcessed, WorkerFails, WorkerTold,
                vars, capture, sync, session
  <2>2. Emitted(Read(c, arrival, media).last)
    BY <1>1, <2>1, PushEffect DEF AdvanceInv, Refused, Unmatched
  <2> QED
    BY <1>1, <2>1, <2>2, NeverBack DEF AdvanceInv
<1> QED
  BY <1>1, AdvanceInit, AdvanceStep, PTL DEF Spec, CamerasAdvance
=============================================================================
