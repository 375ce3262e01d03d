----------------------- MODULE RealtimeRules_proofs -----------------------
(***************************************************************************)
(* Two arguments, for every rule set and any number of events.             *)
(*                                                                         *)
(* Whoever folds the deltas of a session has its last result: DeltaInv     *)
(* needs no more of an evaluation than a standing for every step.          *)
(*                                                                         *)
(* What the evaluations say is sound and is kept.  An evaluation replays   *)
(* the session; ReplayAppend reduces the replay of one event more to one   *)
(* more turn of the engine, Sound is kept by every turn, Extends says what *)
(* a turn leaves alone, and RulesInv ties the last result to the replay    *)
(* of the events the session has taken.                                    *)
(***************************************************************************)
EXTENDS RealtimeRules, FiniteSetTheorems, WellFoundedInduction, TLAPS

IsFcn(f) == f = [x \in DOMAIN f |-> f[x]]
Fold(k) == Overlay(audit, outbox[k]).steps

\* The deltas are functions of some steps, a result is one of all steps.
Shapes ==
  /\ DOMAIN outbox = Threads /\ IsFcn(outbox)
  /\ DOMAIN audit.steps \subseteq StepIds /\ IsFcn(audit.steps)
  /\ \A k \in Threads : DOMAIN outbox[k].steps \subseteq StepIds
  /\ result # None => IsFcn(result.steps) /\ DOMAIN result.steps = StepIds

\* No violation is lost between the result and the audit.
Underway ==
  result # None /\ ~finished =>
    result.violations \subseteq
      audit.violations \cup UNION {outbox[k].violations : k \in Threads}

\* Only one thread holds deltas, and they complete the audit.
OneHolder ==
  ~mixed /\ ~finished => \E k \in Threads :
    /\ \A other \in Threads \ {k} : outbox[other] = NoDelta
    /\ result # None => Fold(k) = result.steps

DeltaInv == Shapes /\ Underway /\ OneHolder

\* A result of the engine has a standing for every step.
LEMMA EvaluateShape ==
  ASSUME NEW es, NEW external, NEW now, NEW finalize
  PROVE  /\ IsFcn(Evaluate(es, external, now, finalize).steps)
         /\ DOMAIN Evaluate(es, external, now, finalize).steps = StepIds
  BY DEF Evaluate, IsFcn

\* An overlay is a function of the steps of both.
LEMMA OverlayShape ==
  ASSUME NEW older, NEW newer
  PROVE  /\ IsFcn(Overlay(older, newer).steps)
         /\ DOMAIN Overlay(older, newer).steps = DOMAIN older.steps \cup DOMAIN newer.steps
         /\ \A i \in DOMAIN newer.steps : Overlay(older, newer).steps[i] = newer.steps[i]
         /\ \A i \in DOMAIN older.steps \ DOMAIN newer.steps :
              Overlay(older, newer).steps[i] = older.steps[i]
         /\ Overlay(older, newer).violations = older.violations \cup newer.violations
  BY DEF Overlay, IsFcn

\* An empty delta changes nothing.
LEMMA OverlayNothing ==
  ASSUME NEW d, IsFcn(d.steps)
  PROVE  Overlay(d, NoDelta).steps = d.steps
<1> DEFINE all == Overlay(d, NoDelta).steps
<1>1. DOMAIN NoDelta.steps = {}
  BY DEF NoDelta
<1>2. /\ IsFcn(all) /\ DOMAIN all = DOMAIN d.steps
      /\ \A i \in DOMAIN d.steps : all[i] = d.steps[i]
  <2>1. IsFcn(all)
    BY OverlayShape
  <2>2. DOMAIN all = DOMAIN d.steps \cup DOMAIN NoDelta.steps
    BY OverlayShape
  <2>3. \A i \in DOMAIN d.steps \ DOMAIN NoDelta.steps : all[i] = d.steps[i]
    BY OverlayShape
  <2> QED
    BY <1>1, <2>1, <2>2, <2>3
<1> HIDE DEF all
<1>3. all = [i \in DOMAIN d.steps |-> d.steps[i]]
  BY <1>2 DEF IsFcn
<1>4. all = d.steps
  BY <1>3, Zenon DEF IsFcn
<1> QED
  BY <1>4 DEF all

\* Before the first evaluation there is nothing to fold.
LEMMA DeltaInit == Init => DeltaInv
<1> SUFFICES ASSUME Init PROVE DeltaInv
  OBVIOUS
<1> USE DEF Init
<1>1. Shapes
  BY DEF Shapes, NoDelta, IsFcn
<1>2. Underway /\ OneHolder
  BY DEF Underway, OneHolder, Threads
<1> QED
  BY <1>1, <1>2 DEF DeltaInv

\* An evaluation hands what changed to the thread that asked for it.
LEMMA ReportStep ==
  ASSUME DeltaInv, NEW k \in Threads, NEW now, Report(k, now),
         UNCHANGED <<audit, finished>>
  PROVE  DeltaInv'
<1> DEFINE new == Evaluate(events', incidents', now, FALSE)
           delta == Delta(result, new)
<1>1. result' = new /\ outbox' = [outbox EXCEPT ![k] = Overlay(@, delta)]
  <2>1. result' = new /\ outbox' = [outbox EXCEPT ![k] = Overlay(@, Delta(result, result'))]
    BY DEF Report
  <2> QED
    BY <2>1
<1>2. IsFcn(new.steps) /\ DOMAIN new.steps = StepIds
  BY EvaluateShape
<1> HIDE DEF new
<1>3. /\ DOMAIN delta.steps \subseteq StepIds
      /\ \A i \in DOMAIN delta.steps : delta.steps[i] = new.steps[i]
      /\ \A i \in StepIds \ DOMAIN delta.steps :
           result # None /\ result.steps[i] = new.steps[i]
      /\ new.violations \subseteq delta.violations \cup
           (IF result = None THEN {} ELSE result.violations)
  BY <1>2 DEF Delta
<1> HIDE DEF delta
<1>4. /\ outbox'[k] = Overlay(outbox[k], delta)
      /\ \A other \in Threads \ {k} : outbox'[other] = outbox[other]
      /\ DOMAIN outbox' = Threads /\ IsFcn(outbox')
  BY <1>1 DEF DeltaInv, Shapes, IsFcn
<1>5. Shapes'
  BY <1>1, <1>2, <1>3, <1>4, OverlayShape DEF Shapes, DeltaInv
<1>6. Underway'
  <2> SUFFICES ASSUME ~finished, NEW v \in new.violations
               PROVE  \/ v \in audit.violations
                      \/ \E j \in Threads : v \in outbox'[j].violations
    BY <1>1 DEF Underway
  <2>1. CASE v \in delta.violations
    BY <2>1, <1>4, OverlayShape
  <2>2. CASE v \notin delta.violations
    <3>1. result # None /\ v \in result.violations
      BY <2>2, <1>3
    <3>2. v \in audit.violations \/ \E j \in Threads : v \in outbox[j].violations
      BY <3>1 DEF DeltaInv, Underway
    <3>3. outbox[k].violations \subseteq outbox'[k].violations
      BY <1>4, OverlayShape
    <3> QED
      BY <3>2, <3>3, <1>4
  <2> QED
    BY <2>1, <2>2
<1>7. OneHolder'
  <2> SUFFICES ASSUME ~mixed', ~finished
               PROVE  /\ \A other \in Threads \ {k} : outbox'[other] = NoDelta
                      /\ Overlay(audit, outbox'[k]).steps = new.steps
    BY <1>1 DEF OneHolder, Fold
  <2>1. ~mixed /\ \A other \in Threads \ {k} : outbox[other] = NoDelta
    BY DEF Report
  <2>2. \A other \in Threads \ {k} : outbox'[other] = NoDelta
    BY <2>1, <1>4
  <2>3. result # None => Overlay(audit, outbox[k]).steps = result.steps
    <3>1. PICK j \in Threads :
            /\ \A other \in Threads \ {j} : outbox[other] = NoDelta
            /\ result # None => Fold(j) = result.steps
      BY <2>1 DEF DeltaInv, OneHolder
    <3>2. outbox[k] = outbox[j]
      BY <3>1, <2>1
    <3> QED
      BY <3>1, <3>2 DEF Fold
  <2> DEFINE all == Overlay(audit, outbox'[k]).steps
  <2>4. IsFcn(all) /\ DOMAIN all = StepIds
    <3>1. /\ IsFcn(all)
          /\ DOMAIN all = DOMAIN audit.steps \cup DOMAIN outbox[k].steps \cup DOMAIN delta.steps
      BY <1>4, OverlayShape
    <3>2. DOMAIN all \subseteq StepIds
      BY <3>1, <1>3 DEF DeltaInv, Shapes
    <3>3. CASE result = None
      BY <3>1, <3>2, <3>3, <1>3
    <3>4. CASE result # None
      <4>1. DOMAIN audit.steps \cup DOMAIN outbox[k].steps = StepIds
        BY <2>3, <3>4, OverlayShape DEF DeltaInv, Shapes
      <4> QED
        BY <4>1, <3>1, <3>2
    <3> QED
      BY <3>1, <3>3, <3>4
  <2>5. ASSUME NEW i \in StepIds PROVE all[i] = new.steps[i]
    <3>1. CASE i \in DOMAIN delta.steps
      <4>1. i \in DOMAIN outbox'[k].steps /\ outbox'[k].steps[i] = new.steps[i]
        BY <3>1, <1>3, <1>4, OverlayShape
      <4> QED
        BY <4>1, OverlayShape
    <3>2. CASE i \notin DOMAIN delta.steps
      <4>1. result # None /\ result.steps[i] = new.steps[i]
        BY <3>2, <1>3
      <4>2. Overlay(audit, outbox[k]).steps = result.steps
        BY <4>1, <2>3
      <4>3. all[i] = Overlay(audit, outbox[k]).steps[i]
        <5>1. CASE i \in DOMAIN outbox[k].steps
          <6>1. /\ i \in DOMAIN outbox'[k].steps
                /\ outbox'[k].steps[i] = outbox[k].steps[i]
            BY <5>1, <3>2, <1>4, OverlayShape
          <6> QED
            BY <6>1, <5>1, OverlayShape
        <5>2. CASE i \notin DOMAIN outbox[k].steps
          <6>1. i \in DOMAIN audit.steps
            BY <5>2, <4>1, <4>2, OverlayShape DEF DeltaInv, Shapes
          <6>2. i \notin DOMAIN outbox'[k].steps
            BY <5>2, <3>2, <1>4, OverlayShape
          <6> QED
            BY <6>1, <6>2, <5>2, OverlayShape
        <5> QED
          BY <5>1, <5>2
      <4> QED
        BY <4>1, <4>2, <4>3
    <3> QED
      BY <3>1, <3>2
  <2>6. all = new.steps
    BY <2>4, <2>5, <1>2 DEF IsFcn
  <2> QED
    BY <2>2, <2>6
<1> QED
  BY <1>5, <1>6, <1>7 DEF DeltaInv

\* The audit takes over what a thread held.
LEMMA DeliverStep ==
  ASSUME DeltaInv, NEW k \in Threads, Deliver(k)
  PROVE  DeltaInv'
<1>1. /\ audit' = Overlay(audit, outbox[k])
      /\ outbox' = [outbox EXCEPT ![k] = NoDelta]
      /\ UNCHANGED <<result, finished, mixed>>
  BY DEF Deliver
<1>2. /\ outbox'[k] = NoDelta
      /\ \A other \in Threads \ {k} : outbox'[other] = outbox[other]
      /\ DOMAIN outbox' = Threads /\ IsFcn(outbox')
  BY <1>1 DEF DeltaInv, Shapes, IsFcn
<1>3. DOMAIN NoDelta.steps = {}
  BY DEF NoDelta
<1>4. /\ IsFcn(audit'.steps)
      /\ DOMAIN audit'.steps = DOMAIN audit.steps \cup DOMAIN outbox[k].steps
      /\ audit'.violations = audit.violations \cup outbox[k].violations
  BY <1>1, OverlayShape
<1>5. Shapes'
  BY <1>1, <1>2, <1>3, <1>4 DEF Shapes, DeltaInv
<1>6. Underway'
  <2> SUFFICES ASSUME result # None, ~finished, NEW v \in result.violations
               PROVE  \/ v \in audit'.violations
                      \/ \E j \in Threads : v \in outbox'[j].violations
    BY <1>1 DEF Underway
  <2>1. v \in audit.violations \/ \E j \in Threads : v \in outbox[j].violations
    BY DEF DeltaInv, Underway
  <2> QED
    BY <2>1, <1>2, <1>4
<1>7. OneHolder'
  <2> SUFFICES ASSUME ~mixed, ~finished
               PROVE  \E j \in Threads :
                        /\ \A other \in Threads \ {j} : outbox'[other] = NoDelta
                        /\ result # None => Overlay(audit', outbox'[j]).steps = result.steps
    BY <1>1 DEF OneHolder, Fold
  <2>1. PICK j \in Threads :
          /\ \A other \in Threads \ {j} : outbox[other] = NoDelta
          /\ result # None => Overlay(audit, outbox[j]).steps = result.steps
    BY DEF DeltaInv, OneHolder, Fold
  <2>2. Overlay(audit', NoDelta).steps = audit'.steps
    BY <1>4, OverlayNothing
  <2>3. CASE k = j
    <3>1. \A other \in Threads : outbox'[other] = NoDelta
      BY <2>1, <2>3, <1>2
    <3>2. Overlay(audit', outbox'[j]).steps = audit'.steps
      BY <3>1, <2>2
    <3> QED
      BY <3>1, <3>2, <2>1, <2>3, <1>1
  <2>4. CASE k # j
    <3>1. outbox[k] = NoDelta
      BY <2>1, <2>4
    <3>2. FALSE
      BY <3>1 DEF Deliver
    <3> QED
      BY <3>2
  <2> QED
    BY <2>3, <2>4
<1> QED
  BY <1>5, <1>6, <1>7 DEF DeltaInv

\* Every step keeps the invariant.
LEMMA DeltaStep == DeltaInv /\ [Next]_vars => DeltaInv'
<1> SUFFICES ASSUME DeltaInv, [Next]_vars PROVE DeltaInv'
  OBVIOUS
<1>1. ASSUME NEW t \in 1 .. Horizon, FrameTick(t) PROVE DeltaInv'
  BY <1>1, ReportStep DEF FrameTick, Threads
<1>2. ASSUME NEW t \in 1 .. Horizon, NEW n \in Ids, FrameActions(t, n) PROVE DeltaInv'
  BY <1>2 DEF FrameActions, DeltaInv, Shapes, Underway, OneHolder, Fold
<1>3. ASSUME NEW e \in Candidates, Ingest(e) PROVE DeltaInv'
  BY <1>3, ReportStep DEF Ingest, Threads
<1>4. ASSUME NEW q \in Incidents, QualityPoll(q) PROVE DeltaInv'
  BY <1>4 DEF QualityPoll, DeltaInv, Shapes, Underway, OneHolder, Fold
<1>5. ASSUME QualityRecord PROVE DeltaInv'
  BY <1>5, ReportStep DEF QualityRecord, Threads
<1>6. ASSUME NEW k \in Threads, Deliver(k) PROVE DeltaInv'
  BY <1>6, DeliverStep
<1>7. ASSUME Finish PROVE DeltaInv'
  <2>1. /\ UNCHANGED <<outbox, audit>> /\ finished'
        /\ result' = Evaluate(events, incidents, clock, TRUE)
    BY <1>7 DEF Finish
  <2>2. IsFcn(result'.steps) /\ DOMAIN result'.steps = StepIds
    BY <2>1, EvaluateShape
  <2> QED
    BY <2>1, <2>2 DEF DeltaInv, Shapes, Underway, OneHolder
<1>8. CASE UNCHANGED vars
  BY <1>8 DEF vars, DeltaInv, Shapes, Underway, OneHolder, Fold
<1> QED
  BY <1>1, <1>2, <1>3, <1>4, <1>5, <1>6, <1>7, <1>8 DEF Next

\* When nothing is on its way the invariant is the property.
LEMMA DeltaEnough == DeltaInv => DeltasComplete
<1> SUFFICES ASSUME DeltaInv, Settled, ~finished, ~mixed
             PROVE  audit.steps = result.steps /\ result.violations \subseteq audit.violations
  BY DEF DeltasComplete
<1>1. result # None /\ \A k \in Threads : outbox[k] = NoDelta
  BY DEF Settled
<1>2. PICK k \in Threads : Overlay(audit, NoDelta).steps = result.steps
  BY <1>1 DEF DeltaInv, OneHolder, Fold
<1>3. audit.steps = result.steps
  <2>1. DOMAIN NoDelta.steps = {} /\ IsFcn(audit.steps)
    BY DEF NoDelta, DeltaInv, Shapes
  <2>2. Overlay(audit, NoDelta).steps = audit.steps
    BY <2>1, OverlayNothing
  <2> QED
    BY <1>2, <2>2
<1>4. result.violations \subseteq audit.violations
  BY <1>1 DEF DeltaInv, Underway, NoDelta
<1> QED
  BY <1>3, <1>4

\* The deltas a RealtimeRuleSession returns leave nothing out: folded in the
\* order they were returned they are its last result.
THEOREM DeltasTheorem == Spec => []DeltasComplete
<1>1. Init => DeltaInv
  BY DeltaInit
<1>2. DeltaInv /\ [Next]_vars => DeltaInv'
  BY DeltaStep
<1>3. DeltaInv => DeltasComplete
  BY DeltaEnough
<1> QED
  BY <1>1, <1>2, <1>3, PTL DEF Spec

(***************************************************************************)
(* Replay.  Sorting by sequence number leaves a session's events where     *)
(* they are, and replaying one event more is one more step of the engine.  *)
(***************************************************************************)
\* A nonempty set of naturals has a least element: the initial intervals of
\* its elements are finite sets, on which inclusion is well founded.
LEMMA LeastNatural ==
  ASSUME NEW S \in SUBSET Nat, S # {}
  PROVE  \E m \in S : \A k \in S : m <= k
<1> DEFINE T == {0 .. n : n \in S}
           R == StrictSubsetOrdering(Nat)
<1>1. T \subseteq FiniteSubsetsOf(Nat)
  <2>1. \A n \in S : IsFiniteSet(0 .. n) /\ 0 .. n \in SUBSET Nat
    BY FS_Interval
  <2> QED
    BY <2>1 DEF FiniteSubsetsOf
<1>2. T # {}
  OBVIOUS
<1>3. PICK x \in T : \A y \in T : ~ (<<y, x>> \in R)
  BY <1>1, <1>2, WFMin, FS_StrictSubsetOrderingWellFounded
<1>4. PICK m \in S : x = 0 .. m
  OBVIOUS
<1>5. ASSUME NEW k \in S, k < m PROVE FALSE
  <2>1. 0 .. k \subseteq 0 .. m /\ 0 .. k # 0 .. m
    BY <1>5
  <2>2. <<0 .. k, 0 .. m>> \in R
    BY <2>1 DEF StrictSubsetOrdering
  <2> QED
    BY <2>2, <1>3, <1>4
<1> QED
  BY <1>5

\* A nonempty set of naturals below a bound has a greatest element.
LEMMA GreatestNatural ==
  ASSUME NEW n \in Nat, NEW S \in SUBSET (0 .. n), S # {}
  PROVE  \E m \in S : \A k \in S : m >= k
<1> DEFINE D == {n - k : k \in S}
<1>1. D \in SUBSET Nat
  OBVIOUS
<1>2. D # {}
  BY Zenon
<1>3. PICK d \in D : \A c \in D : d <= c
  <2> HIDE DEF D
  <2> QED
    BY <1>1, <1>2, LeastNatural
<1>4. PICK m \in S : d = n - m
  OBVIOUS
<1>5. ASSUME NEW k \in S PROVE m >= k
  <2>1. n - m <= n - k
    BY <1>3, <1>4
  <2> QED
    BY <2>1
<1> QED
  BY <1>5

LEMMA MaxIs ==
  ASSUME NEW n \in Nat, NEW S \in SUBSET (0 .. n), S # {}
  PROVE  Max(S) \in S /\ \A k \in S : Max(S) >= k
  BY GreatestNatural DEF Max

\* An increasing function of an interval into itself is the identity.
LEMMA IncreasingIdentity ==
  ASSUME NEW n \in Nat, NEW p \in [1 .. n -> 1 .. n],
         \A j, k \in 1 .. n : j < k => p[j] < p[k]
  PROVE  \A k \in 1 .. n : p[k] = k
<1>1. \A k \in 1 .. n : p[k] >= k
  <2> DEFINE S == {k \in 1 .. n : p[k] < k}
  <2> SUFFICES ASSUME S # {} PROVE FALSE
    OBVIOUS
  <2>1. PICK m \in S : \A k \in S : m <= k
    <3>1. S \in SUBSET Nat
      OBVIOUS
    <3> HIDE DEF S
    <3> QED
      BY <3>1, LeastNatural
  <2>2. CASE m = 1
    BY <2>2
  <2>3. CASE m # 1
    <3>1. m - 1 \in 1 .. n /\ m - 1 < m
      BY <2>3
    <3>2. m - 1 \notin S
      BY <2>1, <3>1
    <3>3. p[m - 1] >= m - 1 /\ p[m - 1] < p[m]
      BY <3>1, <3>2
    <3> QED
      BY <3>3
  <2> QED
    BY <2>2, <2>3
<1>2. \A k \in 1 .. n : p[k] <= k
  <2> DEFINE S == {k \in 1 .. n : p[k] > k}
  <2> SUFFICES ASSUME S # {} PROVE FALSE
    OBVIOUS
  <2>1. PICK m \in S : \A k \in S : m >= k
    <3>1. S \in SUBSET (0 .. n)
      OBVIOUS
    <3> HIDE DEF S
    <3> QED
      BY <3>1, GreatestNatural
  <2>2. CASE m = n
    BY <2>2
  <2>3. CASE m # n
    <3>1. m + 1 \in 1 .. n /\ m < m + 1
      BY <2>3
    <3>2. m + 1 \notin S
      BY <2>1, <3>1
    <3>3. p[m + 1] <= m + 1 /\ p[m] < p[m + 1]
      BY <3>1, <3>2
    <3> QED
      BY <3>3
  <2> QED
    BY <2>2, <2>3
<1> QED
  BY <1>1, <1>2

\* The events of a session carry their place as their number.
Placed(es) ==
  /\ Len(es) \in Nat /\ es = [k \in 1 .. Len(es) |-> es[k]]
  /\ \A k \in 1 .. Len(es) : es[k].id = k

\* Sorted by number they stay where they are.
LEMMA OrderedPlaced == ASSUME NEW es, Placed(es) PROVE Ordered(es) = es
<1> DEFINE D == DOMAIN es
           Before(j, k) == es[j].id < es[k].id \/ (es[j].id = es[k].id /\ j < k)
           Sorts(p) == \A j, k \in D : j < k => Before(p[j], p[k])
           place == CHOOSE p \in [D -> D] : Sorts(p)
<1>1. Len(es) \in Nat /\ D = 1 .. Len(es)
  BY DEF Placed
<1>2. Ordered(es) = [k \in D |-> es[place[k]]]
  BY Zenon DEF Ordered, SortedBy
<1> HIDE DEF D
<1>3. \A j, k \in D : Before(j, k) <=> j < k
  BY <1>1 DEF Placed
<1>4. place \in [D -> D] /\ Sorts(place)
  <2>1. [k \in D |-> k] \in [D -> D] /\ Sorts([k \in D |-> k])
    BY <1>3
  <2> HIDE DEF Sorts
  <2> QED
    BY <2>1
<1> HIDE DEF place
<1>5. \A j, k \in D : j < k => place[j] < place[k]
  BY <1>3, <1>4
<1>6. \A k \in D : place[k] = k
  BY <1>1, <1>4, <1>5, IncreasingIdentity
<1>7. Ordered(es) = [k \in D |-> es[k]]
  BY <1>2, <1>6
<1> QED
  BY <1>1, <1>7, Zenon DEF Placed

\* What the engine does with one event.
Turn(st, e) == Refresh(Apply(st, e))

\* The fold's function on the sets of places up to n.
Iterates(g, n, es) ==
  g = [s \in SUBSET (1 .. n) |->
         IF s = {} THEN Fresh ELSE Turn(g[s \ {Max(s)}], es[Max(s)])]

\* The last place is the greatest of a set that has it.
LEMMA MaxLast ==
  ASSUME NEW n \in Nat, NEW s \in SUBSET (1 .. n + 1), n + 1 \in s
  PROVE  Max(s) = n + 1 /\ s \ {Max(s)} \in SUBSET (1 .. n)
<1>1. s \in SUBSET (0 .. n + 1) /\ n + 1 \in Nat
  OBVIOUS
<1>2. Max(s) \in s /\ \A k \in s : Max(s) >= k
  BY <1>1, MaxIs
<1>3. Max(s) = n + 1
  <2>1. Max(s) \in 1 .. n + 1 /\ Max(s) >= n + 1
    BY <1>2
  <2> HIDE DEF Max
  <2> QED
    BY <2>1
<1>4. \A k \in s \ {n + 1} : k \in 1 .. n
  OBVIOUS
<1> QED
  BY <1>3, <1>4

\* The function exists for every length: one place more adds the sets that
\* have it.
LEMMA IterateExists ==
  ASSUME NEW es, NEW n \in Nat
  PROVE  \E g : Iterates(g, n, es)
<1> DEFINE S == {k \in Nat : ~ \E g : Iterates(g, k, es)}
<1> SUFFICES ASSUME S # {} PROVE FALSE
  OBVIOUS
<1>1. PICK m \in S : \A k \in S : m <= k
  <2>1. S \in SUBSET Nat
    OBVIOUS
  <2> HIDE DEF S
  <2> QED
    BY <2>1, LeastNatural
<1>2. m \in Nat /\ ~ \E g : Iterates(g, m, es)
  OBVIOUS
<1>3. CASE m = 0
  <2> DEFINE g == [s \in SUBSET (1 .. 0) |-> Fresh]
  <2>1. \A s \in SUBSET (1 .. 0) : s = {}
    OBVIOUS
  <2>2. g = [s \in SUBSET (1 .. 0) |->
               IF s = {} THEN Fresh ELSE Turn(g[s \ {Max(s)}], es[Max(s)])]
    BY <2>1
  <2> QED
    BY <1>2, <1>3, <2>2 DEF Iterates
<1>4. CASE m # 0
  <2> DEFINE n1 == m - 1
  <2>1. n1 \in Nat /\ n1 + 1 = m /\ n1 < m
    BY <1>2, <1>4
  <2>2. n1 \notin S
    <3> HIDE DEF S, n1
    <3> QED
      BY <1>1, <1>2, <2>1
  <2>3. PICK f : Iterates(f, n1, es)
    BY <2>1, <2>2
  <2> HIDE DEF n1, S
  <2> DEFINE g == [s \in SUBSET (1 .. m) |->
                     IF m \in s THEN Turn(f[s \ {m}], es[m]) ELSE f[s]]
  <2>4. ASSUME NEW s \in SUBSET (1 .. m)
        PROVE  g[s] = IF s = {} THEN Fresh ELSE Turn(g[s \ {Max(s)}], es[Max(s)])
    <3>1. CASE m \in s
      <4>1. Max(s) = m /\ s \ {m} \in SUBSET (1 .. n1)
        BY <2>1, <3>1, MaxLast
      <4>2. s \ {m} \in SUBSET (1 .. m) /\ m \notin s \ {m}
        BY <1>2, <4>1
      <4>3. g[s \ {m}] = f[s \ {m}]
        BY <4>2
      <4>4. g[s] = Turn(f[s \ {m}], es[m]) /\ s # {}
        BY <3>1
      <4> QED
        BY <4>1, <4>3, <4>4
    <3>2. CASE m \notin s
      <4>1. s \in SUBSET (1 .. n1)
        BY <1>2, <2>1, <3>2
      <4>2. g[s] = f[s]
        BY <3>2
      <4>3. f[s] = IF s = {} THEN Fresh ELSE Turn(f[s \ {Max(s)}], es[Max(s)])
        BY <2>3, <4>1, Zenon DEF Iterates
      <4>4. g[s \ {Max(s)}] = f[s \ {Max(s)}]
        <5>1. s \ {Max(s)} \in SUBSET (1 .. m) /\ m \notin s \ {Max(s)}
          BY <3>2
        <5> QED
          BY <5>1
      <4> QED
        BY <4>2, <4>3, <4>4
    <3> QED
      BY <3>1, <3>2
  <2>5. g = [s \in SUBSET (1 .. m) |-> g[s]]
    OBVIOUS
  <2> HIDE DEF g
  <2>6. Iterates(g, m, es)
    BY <2>4, <2>5, Zenon DEF Iterates
  <2> QED
    BY <1>2, <2>6
<1> QED
  BY <1>3, <1>4

\* There is only one, and what it says of a set depends on the places in it.
LEMMA IterateSame ==
  ASSUME NEW n \in Nat, NEW j \in Nat, NEW k \in Nat, n <= j, n <= k,
         NEW g, NEW h, NEW ds, NEW es, Iterates(g, j, ds), Iterates(h, k, es),
         \A i \in 1 .. n : ds[i] = es[i]
  PROVE  g[1 .. n] = h[1 .. n]
<1> DEFINE S == {i \in 0 .. n : \E s \in SUBSET (1 .. i) : g[s] # h[s]}
<1>1. CASE S = {}
  <2>1. n \notin S /\ n \in 0 .. n /\ 1 .. n \in SUBSET (1 .. n)
    BY <1>1
  <2> QED
    BY <2>1
<1>2. CASE S # {}
  <2>1. PICK m \in S : \A i \in S : m <= i
    <3>1. S \in SUBSET Nat
      OBVIOUS
    <3> HIDE DEF S
    <3> QED
      BY <1>2, <3>1, LeastNatural
  <2>2. m \in 0 .. n
    OBVIOUS
  <2>3. PICK s \in SUBSET (1 .. m) : g[s] # h[s]
    OBVIOUS
  <2>4. s \in SUBSET (1 .. j) /\ s \in SUBSET (1 .. k)
    BY <2>2
  <2>5. /\ g[s] = IF s = {} THEN Fresh ELSE Turn(g[s \ {Max(s)}], ds[Max(s)])
        /\ h[s] = IF s = {} THEN Fresh ELSE Turn(h[s \ {Max(s)}], es[Max(s)])
    BY <2>4, Zenon DEF Iterates
  <2>6. s # {}
    BY <2>3, <2>5
  <2>7. m \in Nat /\ m # 0
    <3>1. PICK l \in s : l \in 1 .. m
      BY <2>6
    <3> QED
      BY <2>2, <3>1
  <2>8. PICK l \in Nat : m = l + 1
    <3>1. m - 1 \in Nat /\ m = m - 1 + 1
      BY <2>7
    <3> QED
      BY <3>1
  <2>9. \A t \in SUBSET (1 .. l) : g[t] = h[t]
    <3>1. l \in 0 .. n /\ l < m
      BY <2>2, <2>8
    <3>2. l \notin S
      <4> HIDE DEF S
      <4> QED
        BY <2>1, <2>2, <2>8, <3>1
    <3> QED
      BY <3>1, <3>2
  <2> HIDE DEF S
  <2>10. m \in s
    <3>1. s \notin SUBSET (1 .. l)
      BY <2>3, <2>9
    <3>2. 1 .. m \subseteq 1 .. l \cup {m}
      BY <2>8
    <3> QED
      BY <3>1, <3>2
  <2>11. Max(s) = m /\ s \ {Max(s)} \in SUBSET (1 .. l)
    BY <2>8, <2>10, MaxLast
  <2>12. g[s \ {Max(s)}] = h[s \ {Max(s)}]
    BY <2>9, <2>11
  <2>13. ds[Max(s)] = es[Max(s)]
    BY <2>2, <2>7, <2>11
  <2> QED
    BY <2>3, <2>5, <2>6, <2>12, <2>13
<1> QED
  BY <1>1, <1>2

\* The fold over a session's events is such a function of all their places.
LEMMA ReplayIterates ==
  ASSUME NEW es, Placed(es)
  PROVE  \E g : Iterates(g, Len(es), es) /\ Replay(es) = g[1 .. Len(es)]
<1>1. Ordered(es) = es /\ DOMAIN es = 1 .. Len(es) /\ Len(es) \in Nat
  BY OrderedPlaced DEF Placed
<1> DEFINE G(g) == g = [s \in SUBSET (DOMAIN es) |->
                          IF s = {} THEN Fresh
                          ELSE Refresh(Apply(g[s \ {Max(s)}], es[Max(s)]))]
<1>2. Replay(es) = (CHOOSE g : G(g))[DOMAIN es]
  <2>1. FoldLeft(LAMBDA st, e : Refresh(Apply(st, e)), Fresh, es) = (CHOOSE g : G(g))[DOMAIN es]
    BY Zenon DEF FoldLeft, MapThenFoldSet
  <2> QED
    BY <1>1, <2>1, Zenon DEF Replay
<1>3. \A g : G(g) <=> Iterates(g, Len(es), es)
  BY <1>1, Zenon DEF Iterates, Turn
<1>4. \E g : G(g)
  BY <1>1, <1>3, IterateExists
<1> HIDE DEF G
<1>5. G(CHOOSE g : G(g))
  BY <1>4
<1> QED
  BY <1>1, <1>2, <1>3, <1>5

\* Before the first event the engine is fresh.
LEMMA ReplayNothing == Replay(<<>>) = Fresh
<1>1. Placed(<<>>) /\ Len(<<>>) = 0
  BY DEF Placed
<1>2. PICK g : Iterates(g, 0, <<>>) /\ Replay(<<>>) = g[1 .. 0]
  BY <1>1, ReplayIterates
<1>3. 1 .. 0 = {} /\ {} \in SUBSET (1 .. 0)
  OBVIOUS
<1>4. g[{}] = Fresh
  BY <1>2, <1>3, Zenon DEF Iterates
<1> QED
  BY <1>2, <1>3, <1>4

\* One event more is one more turn.
LEMMA ReplayAppend ==
  ASSUME NEW es, Placed(es), NEW ds, Placed(ds), Len(ds) = Len(es) + 1,
         \A k \in 1 .. Len(es) : ds[k] = es[k]
  PROVE  Replay(ds) = Turn(Replay(es), ds[Len(ds)])
<1> DEFINE n == Len(es)
<1>1. n \in Nat /\ Len(ds) = n + 1
  BY DEF Placed
<1>2. PICK g : Iterates(g, n, es) /\ Replay(es) = g[1 .. n]
  BY ReplayIterates
<1>3. PICK h : Iterates(h, n + 1, ds) /\ Replay(ds) = h[1 .. n + 1]
  BY <1>1, ReplayIterates
<1> HIDE DEF n
<1>4. g[1 .. n] = h[1 .. n]
  BY <1>1, <1>2, <1>3, IterateSame
<1>5. n + 1 \in 1 .. n + 1 /\ 1 .. n + 1 \in SUBSET (1 .. n + 1) /\ 1 .. n + 1 # {}
  BY <1>1
<1>6. h[1 .. n + 1] = Turn(h[(1 .. n + 1) \ {Max(1 .. n + 1)}], ds[Max(1 .. n + 1)])
  BY <1>3, <1>5, Zenon DEF Iterates
<1>7. Max(1 .. n + 1) = n + 1
  BY <1>1, <1>5, MaxLast
<1>8. (1 .. n + 1) \ {n + 1} = 1 .. n
  BY <1>1
<1> QED
  BY <1>1, <1>2, <1>3, <1>4, <1>6, <1>7, <1>8

(***************************************************************************)
(* The engine.  Sound says what holds of its state after n events, and     *)
(* Extends what a turn never takes back.                                   *)
(***************************************************************************)
Moments == 0 .. Horizon
Event == [id : Ids, action : Actions, zone : Zones, confidence : Confidences,
          started : Moments, ended : Moments \cup {None}]
Decided == {"COMPLETED", "VIOLATED", "UNKNOWN"}
EventRules == {"START-DELAY", "TIMEOUT", "TEMPORAL", "RULE", "ORDER"}

States(n) ==
  [steps : [StepIds -> [state : {"PENDING", "READY"} \cup Decided, event : (1 .. n) \cup {None}]],
   violations : SUBSET [rule : EventRules, step : StepIds, event : 1 .. n],
   ordered : SUBSET StepIds,
   completed : [StepIds -> Moments \cup {None}],
   ready : [StepIds -> Moments \cup {None}]]

\* A standing with an event is a verdict, which has its reason; a step leaves
\* PENDING when its predecessors are completed.
StepSound(st, i) ==
  /\ st.steps[i].event # None <=> st.steps[i].state \in Decided
  /\ st.completed[i] # None <=> st.steps[i].state = "COMPLETED"
  /\ st.steps[i].state = "READY" => st.ready[i] # None
  /\ st.steps[i].state = "PENDING" => Steps[i].predecessors # {}
  /\ st.steps[i].state # "PENDING" => Steps[i].predecessors \subseteq Completed(st)
  /\ st.steps[i].state = "VIOLATED" => Violation("RULE", i, st.steps[i].event) \in st.violations

\* A reason names the verdict it stands for.
ReasonSound(st, v) ==
  /\ v.rule = "RULE" => st.steps[v.step] = Standing("VIOLATED", v.event)
  /\ v.rule = "TIMEOUT" => st.steps[v.step].state = "COMPLETED"

Sound(st, n) ==
  /\ st \in States(n)
  /\ \A i \in StepIds : StepSound(st, i)
  /\ \A v \in st.violations : ReasonSound(st, v)

Extends(st, next) ==
  /\ \A i \in StepIds : st.steps[i].event # None => next.steps[i] = st.steps[i]
  /\ st.violations \subseteq next.violations

\* The configured steps.
LEMMA StepFacts ==
  ASSUME NEW i \in StepIds
  PROVE  /\ i \in Nat /\ i # None
         /\ Steps[i].predecessors \in SUBSET StepIds
         /\ Steps[i].minDelay \in Bound /\ Steps[i].maxDelay \in Bound
         /\ Steps[i].minDelay # None /\ Steps[i].maxDelay # None
              => Steps[i].minDelay <= Steps[i].maxDelay
<1>1. Len(Steps) \in Nat /\ DOMAIN Steps = StepIds
  BY StepsAssumption DEF StepIds
<1>2. i \in Nat /\ i # None
  BY <1>1, NoneAssumption DEF StepIds
<1> DEFINE R == [action : Actions, zone : Zones \cup {None},
                 predecessors : SUBSET StepIds, required : BOOLEAN,
                 minConfidence : Confidences,
                 minDuration : Bound, maxDuration : Bound,
                 minDelay : Bound, maxDelay : Bound,
                 rule : Zones \cup {None}]
<1>3. Steps[i] \in R
  <2>1. Steps \in Seq(R) /\ i \in 1 .. Len(Steps)
    BY StepsAssumption DEF StepIds
  <2> HIDE DEF R
  <2> QED
    BY <2>1
<1>4. /\ Steps[i].predecessors \in SUBSET StepIds
      /\ Steps[i].minDelay \in Bound /\ Steps[i].maxDelay \in Bound
  BY <1>3
<1>5. Steps[i].minDelay # None /\ Steps[i].maxDelay # None
        => Steps[i].minDelay <= Steps[i].maxDelay
  BY <1>1, RangesAssumption
<1> QED
  BY <1>2, <1>4, <1>5

\* The first of some steps, and the latest of some times, exist.
LEMMA LeastStep == ASSUME NEW S \in SUBSET StepIds, S # {} PROVE Least(S) \in S
<1>1. S \in SUBSET Nat
  BY StepFacts
<1>2. \E m \in S : \A k \in S : m <= k
  BY <1>1, LeastNatural
<1> QED
  BY <1>2 DEF Least

LEMMA LatestMoment == ASSUME NEW S \in SUBSET Moments, S # {} PROVE Latest(S) \in S
<1>1. \E m \in S : \A k \in S : m >= k
  BY GreatestNatural, BoundsAssumption DEF Moments
<1> QED
  BY <1>1 DEF Latest

\* A state of the engine, field by field.
LEMMA StateFields ==
  ASSUME NEW n, NEW st \in States(n)
  PROVE  /\ st = [steps |-> st.steps, violations |-> st.violations, ordered |-> st.ordered,
                  completed |-> st.completed, ready |-> st.ready]
         /\ st.steps \in [StepIds -> [state : {"PENDING", "READY"} \cup Decided,
                                      event : (1 .. n) \cup {None}]]
         /\ st.violations \subseteq [rule : EventRules, step : StepIds, event : 1 .. n]
         /\ st.ordered \subseteq StepIds
         /\ st.completed \in [StepIds -> Moments \cup {None}]
         /\ st.ready \in [StepIds -> Moments \cup {None}]
  BY DEF States

\* A fresh engine is sound, and no event has decided anything.
LEMMA FreshSound == Sound(Fresh, 0)
<1>1. \A i \in StepIds :
        /\ Steps[i].predecessors = {} => Fresh.steps[i] = Standing("READY", None)
        /\ Steps[i].predecessors # {} => Fresh.steps[i] = Standing("PENDING", None)
        /\ Fresh.completed[i] = None
        /\ Fresh.ready[i] = IF Steps[i].predecessors = {} THEN 0 ELSE None
  BY DEF Fresh
<1>2. 0 \in Moments /\ 0 # None
  BY BoundsAssumption, NoneAssumption DEF Moments
<1>3. Fresh \in States(0)
  <2>1. Fresh.steps \in [StepIds -> [state : {"PENDING", "READY"} \cup Decided,
                                     event : (1 .. 0) \cup {None}]]
    BY DEF Fresh, Standing
  <2>2. Fresh.completed \in [StepIds -> Moments \cup {None}]
    BY DEF Fresh
  <2>3. Fresh.ready \in [StepIds -> Moments \cup {None}]
    BY <1>2 DEF Fresh
  <2>4. Fresh = [steps |-> Fresh.steps, violations |-> {}, ordered |-> {},
                 completed |-> Fresh.completed, ready |-> Fresh.ready]
    BY DEF Fresh
  <2> QED
    BY <2>1, <2>2, <2>3, <2>4 DEF States
<1>4. ASSUME NEW i \in StepIds PROVE StepSound(Fresh, i)
  <2>1. CASE Steps[i].predecessors = {}
    <3>1. /\ Fresh.steps[i].state = "READY" /\ Fresh.steps[i].event = None
          /\ Fresh.completed[i] = None /\ Fresh.ready[i] # None
      <4>1. Fresh.steps[i] = Standing("READY", None) /\ Fresh.ready[i] = 0
        BY <1>1, <2>1
      <4> QED
        BY <1>1, <1>2, <4>1 DEF Standing
    <3> QED
      BY <2>1, <3>1 DEF StepSound, Decided
  <2>2. CASE Steps[i].predecessors # {}
    <3>1. /\ Fresh.steps[i].state = "PENDING" /\ Fresh.steps[i].event = None
          /\ Fresh.completed[i] = None
      <4>1. Fresh.steps[i] = Standing("PENDING", None)
        BY <1>1, <2>2
      <4> QED
        BY <1>1, <4>1 DEF Standing
    <3> QED
      BY <2>2, <3>1 DEF StepSound, Decided
  <2> QED
    BY <2>1, <2>2
<1>5. Fresh.violations = {}
  BY DEF Fresh
<1> QED
  BY <1>3, <1>4, <1>5 DEF Sound

\* A verdict on one step: its standing, its reasons, and when it was completed.
Ruled(st, i, standing, reasons, time) ==
  [steps |-> [st.steps EXCEPT ![i] = standing],
   violations |-> st.violations \cup reasons, ordered |-> st.ordered,
   completed |-> [st.completed EXCEPT ![i] = time], ready |-> st.ready]

LateRules == {"START-DELAY", "TIMEOUT", "TEMPORAL"}

\* The updates of Decide and of Complete.
Judged(st, i, standing, reasons) ==
  [st EXCEPT !.steps[i] = standing, !.violations = @ \cup reasons]
Closed(st, i, standing, reasons, time) ==
  [st EXCEPT !.steps[i] = standing, !.completed[i] = time, !.violations = @ \cup reasons]

\* They are verdicts; a step that was not completed is not by a violation.
LEMMA RuledUpdates ==
  ASSUME NEW n, NEW st \in States(n), NEW i \in StepIds, st.completed[i] = None,
         NEW standing, NEW reasons, NEW time
  PROVE  /\ Judged(st, i, standing, reasons) = Ruled(st, i, standing, reasons, None)
         /\ Closed(st, i, standing, reasons, time) = Ruled(st, i, standing, reasons, time)
<1> DEFINE steps == [st.steps EXCEPT ![i] = standing]
           completed == [st.completed EXCEPT ![i] = time]
           v == st.violations \cup reasons
           s1 == [steps |-> steps, violations |-> st.violations,
                  ordered |-> st.ordered, completed |-> st.completed, ready |-> st.ready]
           s2 == [steps |-> steps, violations |-> st.violations,
                  ordered |-> st.ordered, completed |-> completed, ready |-> st.ready]
<1>1. st = [steps |-> st.steps, violations |-> st.violations, ordered |-> st.ordered,
            completed |-> st.completed, ready |-> st.ready]
  BY StateFields
<1>2. [st EXCEPT !.steps[i] = standing] = s1 /\ s1.violations = st.violations
  BY <1>1
<1>3. [s1 EXCEPT !.completed[i] = time] = s2 /\ s2.violations = st.violations
  OBVIOUS
<1>4. st.completed = [st.completed EXCEPT ![i] = None]
  BY StateFields
<1> HIDE DEF steps, completed, v
<1>5. [s1 EXCEPT !.violations = v]
        = [steps |-> steps, violations |-> v,
           ordered |-> st.ordered, completed |-> st.completed, ready |-> st.ready]
  OBVIOUS
<1>6. [s2 EXCEPT !.violations = v]
        = [steps |-> steps, violations |-> v,
           ordered |-> st.ordered, completed |-> completed, ready |-> st.ready]
  OBVIOUS
<1> HIDE DEF s1, s2
<1>7. Judged(st, i, standing, reasons)
        = [steps |-> steps, violations |-> v,
           ordered |-> st.ordered, completed |-> st.completed, ready |-> st.ready]
  BY <1>2, <1>5 DEF Judged, v
<1>8. Closed(st, i, standing, reasons, time)
        = [steps |-> steps, violations |-> v,
           ordered |-> st.ordered, completed |-> completed, ready |-> st.ready]
  BY <1>2, <1>3, <1>6 DEF Closed, v
<1> QED
  BY <1>4, <1>7, <1>8, Zenon DEF Ruled, steps, completed, v

\* What an event that decides a step does.
LEMMA DecideKinds ==
  ASSUME NEW n, NEW st, Sound(st, n), NEW i \in InState(st, "READY"), NEW e
  PROVE  \/ Decide(st, i, e) = Ruled(st, i, Standing("UNKNOWN", e.id), {}, None)
         \/ Decide(st, i, e) = Ruled(st, i, Standing("VIOLATED", e.id),
                                     {Violation("RULE", i, e.id)}, None)
         \/ \E reasons \in SUBSET {Violation(rule, i, e.id) : rule \in LateRules} :
              /\ Decide(st, i, e)
                   = Ruled(st, i, Standing("COMPLETED", e.id), reasons, Ended(e))
              /\ StartDelay(st, i, e) \subseteq reasons
<1>1. st \in States(n) /\ i \in StepIds /\ st.steps[i].state = "READY"
  BY DEF Sound, InState
<1>2. st.completed[i] = None
  BY <1>1 DEF Sound, StepSound
<1>3. CASE Weak(i, e)
  <2>1. Decide(st, i, e) = [st EXCEPT !.steps[i] = Standing("UNKNOWN", e.id)]
    BY <1>3, Zenon DEF Decide
  <2>2. [st EXCEPT !.steps[i] = Standing("UNKNOWN", e.id)]
          = [steps |-> [st.steps EXCEPT ![i] = Standing("UNKNOWN", e.id)],
             violations |-> st.violations, ordered |-> st.ordered,
             completed |-> st.completed, ready |-> st.ready]
    BY <1>1, StateFields
  <2>3. st.violations = st.violations \cup {} /\ st.completed = [st.completed EXCEPT ![i] = None]
    BY <1>1, <1>2, StateFields
  <2> QED
    BY <2>1, <2>2, <2>3, Zenon DEF Ruled
<1>4. CASE ~Weak(i, e) /\ Mismatch(i, e)
  <2> DEFINE why == {Violation("RULE", i, e.id)}
  <2>1. Decide(st, i, e) = Judged(st, i, Standing("VIOLATED", e.id), why)
    BY <1>4, Zenon DEF Decide, Judged
  <2> QED
    BY <1>1, <1>2, <2>1, RuledUpdates, Zenon
<1>5. CASE ~Weak(i, e) /\ ~Mismatch(i, e)
  <2> DEFINE late == StartDelay(st, i, e)
             brief == IF Duration(i, e) THEN {Violation("TEMPORAL", i, e.id)} ELSE {}
             why == late \cup brief
  <2>1. why \in SUBSET {Violation(rule, i, e.id) : rule \in LateRules}
    BY DEF StartDelay, LateRules
  <2>2. Decide(st, i, e)
          = [st EXCEPT !.steps[i] = Standing("COMPLETED", e.id), !.completed[i] = Ended(e),
                       !.violations = @ \cup late \cup brief]
    BY <1>5, Zenon DEF Decide, Complete
  <2> HIDE DEF late, brief
  <2>3. \A S : S \cup late \cup brief = S \cup (late \cup brief)
    OBVIOUS
  <2>4. Decide(st, i, e) = Closed(st, i, Standing("COMPLETED", e.id), why, Ended(e))
    BY <2>2, <2>3, Zenon DEF Closed
  <2>5. Decide(st, i, e) = Ruled(st, i, Standing("COMPLETED", e.id), why, Ended(e))
    BY <1>1, <1>2, <2>4, RuledUpdates, Zenon
  <2>6. StartDelay(st, i, e) \subseteq why
    BY DEF late
  <2> QED
    BY <2>1, <2>5, <2>6
<1> QED
  BY <1>3, <1>4, <1>5

\* More events may have decided a state that is typed.
LEMMA StatesGrow ==
  ASSUME NEW n \in Nat, NEW st \in States(n)
  PROVE  st \in States(n + 1)
<1>1. 1 .. n \subseteq 1 .. n + 1
  OBVIOUS
<1>2. /\ st.steps \in [StepIds -> [state : {"PENDING", "READY"} \cup Decided,
                                   event : (1 .. n + 1) \cup {None}]]
      /\ st.violations \subseteq [rule : EventRules, step : StepIds, event : 1 .. n + 1]
  BY <1>1, StateFields
<1>3. /\ st = [steps |-> st.steps, violations |-> st.violations, ordered |-> st.ordered,
               completed |-> st.completed, ready |-> st.ready]
      /\ st.ordered \subseteq StepIds
      /\ st.completed \in [StepIds -> Moments \cup {None}]
      /\ st.ready \in [StepIds -> Moments \cup {None}]
  BY StateFields
<1> QED
  BY <1>2, <1>3 DEF States

\* The times and the number of an event.
LEMMA EventFacts ==
  ASSUME NEW e \in Event
  PROVE  /\ e.id \in Nat \ {0} /\ e.id # None
         /\ Ended(e) \in Moments /\ Ended(e) # None
<1>1. e.id \in Ids /\ e.started \in Moments /\ e.ended \in Moments \cup {None}
  BY DEF Event
<1>2. \A t \in Moments : t \in Nat
  BY BoundsAssumption DEF Moments
<1>3. e.id \in Nat \ {0}
  BY <1>1, BoundsAssumption DEF Ids
<1> QED
  BY <1>1, <1>2, <1>3, NoneAssumption DEF Ended

\* A verdict on a step that is ready keeps the engine sound and takes nothing
\* back.
LEMMA RuledSound ==
  ASSUME NEW n \in Nat, NEW st, Sound(st, n), NEW i \in InState(st, "READY"),
         NEW e \in Event, e.id = n + 1, NEW state \in Decided, NEW reasons, NEW time,
         \/ state = "UNKNOWN" /\ reasons = {} /\ time = None
         \/ state = "VIOLATED" /\ reasons = {Violation("RULE", i, e.id)} /\ time = None
         \/ /\ state = "COMPLETED" /\ time = Ended(e)
            /\ reasons \subseteq {Violation(rule, i, e.id) : rule \in LateRules}
  PROVE  LET new == Ruled(st, i, Standing(state, e.id), reasons, time) IN
         Sound(new, n + 1) /\ Extends(st, new)
<1> DEFINE new == Ruled(st, i, Standing(state, e.id), reasons, time)
<1>1. /\ new.steps = [st.steps EXCEPT ![i] = Standing(state, e.id)]
      /\ new.violations = st.violations \cup reasons /\ new.ordered = st.ordered
      /\ new.completed = [st.completed EXCEPT ![i] = time] /\ new.ready = st.ready
      /\ new = [steps |-> new.steps, violations |-> new.violations, ordered |-> new.ordered,
                completed |-> new.completed, ready |-> new.ready]
  BY DEF Ruled
<1> HIDE DEF new
<1>2. st \in States(n + 1) /\ i \in StepIds /\ st.steps[i].state = "READY"
  BY StatesGrow DEF Sound, InState
<1>3. /\ st.steps \in [StepIds -> [state : {"PENDING", "READY"} \cup Decided,
                                   event : (1 .. n + 1) \cup {None}]]
      /\ st.violations \subseteq [rule : EventRules, step : StepIds, event : 1 .. n + 1]
      /\ st.ordered \subseteq StepIds
      /\ st.completed \in [StepIds -> Moments \cup {None}]
      /\ st.ready \in [StepIds -> Moments \cup {None}]
  BY <1>2, StateFields
<1>4. e.id \in 1 .. n + 1 /\ e.id # None /\ Ended(e) \in Moments /\ Ended(e) # None
  BY EventFacts
<1>5. \A v \in reasons : v.step = i /\ v.event = e.id /\ v.rule \in LateRules \cup {"RULE"}
  BY DEF Violation
<1>6. reasons \subseteq [rule : EventRules, step : StepIds, event : 1 .. n + 1]
  BY <1>2, <1>4 DEF Violation, EventRules, LateRules
<1>7. new \in States(n + 1)
  <2>1. new.steps \in [StepIds -> [state : {"PENDING", "READY"} \cup Decided,
                                   event : (1 .. n + 1) \cup {None}]]
    <3>1. Standing(state, e.id) \in [state : {"PENDING", "READY"} \cup Decided,
                                     event : (1 .. n + 1) \cup {None}]
      BY <1>4 DEF Standing
    <3> QED
      BY <1>1, <1>2, <1>3, <3>1
  <2>2. new.completed \in [StepIds -> Moments \cup {None}]
    BY <1>1, <1>2, <1>3, <1>4
  <2>3. new.violations \in SUBSET [rule : EventRules, step : StepIds, event : 1 .. n + 1]
    BY <1>1, <1>3, <1>6
  <2> QED
    BY <1>1, <1>3, <2>1, <2>2, <2>3 DEF States
<1>8. /\ new.steps[i] = Standing(state, e.id) /\ new.completed[i] = time
      /\ \A j \in StepIds \ {i} : new.steps[j] = st.steps[j] /\ new.completed[j] = st.completed[j]
  BY <1>1, <1>2, <1>3
<1>9. st.completed[i] = None /\ st.steps[i].event = None
  BY <1>2 DEF Sound, StepSound, Decided
<1>10. Completed(st) \subseteq Completed(new)
  BY <1>8, <1>9 DEF Completed
<1>11. ASSUME NEW j \in StepIds PROVE StepSound(new, j)
  <2>1. StepSound(st, j)
    BY DEF Sound
  <2>2. CASE j # i
    BY <1>1, <1>8, <1>10, <2>1, <2>2 DEF StepSound
  <2>3. CASE j = i
    <3>1. new.steps[i].state = state /\ new.steps[i].event = e.id
      BY <1>8 DEF Standing
    <3>2. time # None <=> state = "COMPLETED"
      BY <1>4
    <3>3. Steps[i].predecessors \subseteq Completed(new)
      BY <1>2, <1>10, <2>1, <2>3 DEF StepSound
    <3>4. state = "VIOLATED" => Violation("RULE", i, e.id) \in new.violations
      BY <1>1
    <3>5. state # "READY" /\ state # "PENDING"
      BY DEF Decided
    <3> QED
      BY <1>4, <1>8, <2>3, <3>1, <3>2, <3>3, <3>4, <3>5 DEF StepSound
  <2> QED
    BY <2>2, <2>3
<1>12. ASSUME NEW v \in new.violations PROVE ReasonSound(new, v)
  <2>1. CASE v \in st.violations
    <3>1. ReasonSound(st, v) /\ v.step \in StepIds
      BY <1>3, <2>1 DEF Sound
    <3>2. CASE v.step # i
      BY <1>8, <3>1, <3>2 DEF ReasonSound
    <3>3. CASE v.step = i
      <4>1. v.rule # "RULE" /\ v.rule # "TIMEOUT"
        BY <1>2, <3>1, <3>3 DEF ReasonSound, Standing
      <4> QED
        BY <4>1 DEF ReasonSound
    <3> QED
      BY <3>2, <3>3
  <2>2. CASE v \in reasons
    <3>1. v.step = i /\ v.event = e.id
      BY <1>5, <2>2
    <3>2. v.rule = "RULE" => state = "VIOLATED"
      BY <2>2 DEF Violation, LateRules
    <3>3. v.rule = "TIMEOUT" => state = "COMPLETED"
      BY <2>2 DEF Violation
    <3> QED
      BY <1>8, <3>1, <3>2, <3>3 DEF ReasonSound, Standing
  <2> QED
    BY <1>1, <2>1, <2>2
<1>13. Extends(st, new)
  BY <1>1, <1>8, <1>9 DEF Extends
<1> QED
  BY <1>7, <1>11, <1>12, <1>13 DEF Sound, new

\* A step done too early is reported, and stays where it was.
Reported(st, i, e) ==
  [st EXCEPT !.ordered = @ \cup {i}, !.violations = @ \cup {Violation("ORDER", i, e.id)}]

\* What an event does: nothing, a report, or a verdict on a step that is ready.
LEMMA ApplyKinds ==
  ASSUME NEW n, NEW st, Sound(st, n), NEW e
  PROVE  \/ Apply(st, e) = st
         \/ \E i \in StepIds : Apply(st, e) = Reported(st, i, e)
         \/ \E i \in InState(st, "READY") : Apply(st, e) = Decide(st, i, e)
<1> DEFINE candidates == {i \in InState(st, "READY") : Steps[i].action = e.action}
           deciding == {i \in candidates : Weak(i, e) \/ ~Mismatch(i, e) \/ Caught(i, e)}
           early == {i \in InState(st, "PENDING") :
                       /\ Steps[i].action = e.action
                       /\ ~Weak(i, e) /\ ~Mismatch(i, e)
                       /\ Steps[i].predecessors \ Completed(st) # {}}
<1>1. Apply(st, e) = IF candidates = {} THEN OutOfOrder(st, e)
                     ELSE IF deciding = {} THEN st ELSE Decide(st, Least(deciding), e)
  BY Zenon DEF Apply
<1>2. OutOfOrder(st, e) = IF early = {} \/ Least(early) \in st.ordered THEN st
                          ELSE Reported(st, Least(early), e)
  BY Zenon DEF OutOfOrder, Reported
<1>3. early \subseteq StepIds /\ deciding \subseteq InState(st, "READY")
      /\ InState(st, "READY") \subseteq StepIds
  BY DEF InState
<1> HIDE DEF candidates, deciding, early
<1>4. early # {} => Least(early) \in StepIds
  BY <1>3, LeastStep
<1>5. deciding # {} => Least(deciding) \in InState(st, "READY")
  BY <1>3, LeastStep
<1> QED
  BY <1>1, <1>2, <1>4, <1>5

\* A report keeps the engine sound.
LEMMA ReportedSound ==
  ASSUME NEW n \in Nat, NEW st, Sound(st, n), NEW i \in StepIds,
         NEW e \in Event, e.id = n + 1
  PROVE  Sound(Reported(st, i, e), n + 1) /\ Extends(st, Reported(st, i, e))
<1> DEFINE new == Reported(st, i, e)
           v == Violation("ORDER", i, e.id)
           violations == st.violations \cup {v}
           ordered == st.ordered \cup {i}
           s1 == [steps |-> st.steps, violations |-> st.violations, ordered |-> ordered,
                  completed |-> st.completed, ready |-> st.ready]
<1>1. st \in States(n + 1)
  BY StatesGrow DEF Sound
<1>2. /\ st.steps \in [StepIds -> [state : {"PENDING", "READY"} \cup Decided,
                                   event : (1 .. n + 1) \cup {None}]]
      /\ st.violations \subseteq [rule : EventRules, step : StepIds, event : 1 .. n + 1]
      /\ st.ordered \subseteq StepIds
      /\ st.completed \in [StepIds -> Moments \cup {None}]
      /\ st.ready \in [StepIds -> Moments \cup {None}]
      /\ st = [steps |-> st.steps, violations |-> st.violations, ordered |-> st.ordered,
               completed |-> st.completed, ready |-> st.ready]
  BY <1>1, StateFields
<1>3. st = [steps |-> st.steps, violations |-> st.violations, ordered |-> st.ordered,
            completed |-> st.completed, ready |-> st.ready]
  BY <1>2
<1> HIDE DEF v, violations, ordered
<1>4. [st EXCEPT !.ordered = ordered] = s1 /\ s1.violations = st.violations
  BY <1>3
<1>5. [s1 EXCEPT !.violations = violations]
        = [steps |-> st.steps, violations |-> violations, ordered |-> ordered,
           completed |-> st.completed, ready |-> st.ready]
  OBVIOUS
<1> HIDE DEF s1
<1>6. new = [steps |-> st.steps, violations |-> st.violations \cup {v},
              ordered |-> st.ordered \cup {i}, completed |-> st.completed, ready |-> st.ready]
  BY <1>4, <1>5 DEF Reported, v, violations, ordered
<1> USE DEF v
<1> HIDE DEF new
<1>7. v \in [rule : EventRules, step : StepIds, event : 1 .. n + 1]
  BY EventFacts DEF Violation, EventRules
<1>8. new \in States(n + 1)
  <2> HIDE DEF v
  <2> QED
    BY <1>2, <1>6, <1>7 DEF States
<1>9. ASSUME NEW j \in StepIds PROVE StepSound(new, j)
  <2>1. StepSound(st, j)
    BY DEF Sound
  <2>2. Completed(new) = Completed(st)
    BY <1>6 DEF Completed
  <2> HIDE DEF v
  <2> QED
    BY <1>6, <2>1, <2>2 DEF StepSound
<1>10. ASSUME NEW w \in new.violations PROVE ReasonSound(new, w)
  <2>1. CASE w \in st.violations
    <3>1. ReasonSound(st, w)
      BY <2>1 DEF Sound
    <3> QED
      BY <1>6, <3>1 DEF ReasonSound
  <2>2. CASE w = v
    BY <2>2 DEF ReasonSound, Violation
  <2> QED
    BY <1>6, <2>1, <2>2
<1>11. Extends(st, new)
  BY <1>6 DEF Extends
<1> QED
  BY <1>8, <1>9, <1>10, <1>11 DEF Sound, new

\* What an event does keeps the engine sound and takes nothing back.
LEMMA ApplySound ==
  ASSUME NEW n \in Nat, NEW st, Sound(st, n), NEW e \in Event, e.id = n + 1
  PROVE  Sound(Apply(st, e), n + 1) /\ Extends(st, Apply(st, e))
<1>1. CASE Apply(st, e) = st
  <2>1. Sound(st, n + 1)
    BY StatesGrow DEF Sound
  <2> QED
    BY <1>1, <2>1 DEF Extends
<1>2. CASE \E i \in StepIds : Apply(st, e) = Reported(st, i, e)
  BY <1>2, ReportedSound
<1>3. CASE \E i \in InState(st, "READY") : Apply(st, e) = Decide(st, i, e)
  <2>1. PICK i \in InState(st, "READY") : Apply(st, e) = Decide(st, i, e)
    BY <1>3
  <2>2. CASE Decide(st, i, e) = Ruled(st, i, Standing("UNKNOWN", e.id), {}, None)
    BY <2>1, <2>2, RuledSound DEF Decided
  <2>3. CASE Decide(st, i, e) = Ruled(st, i, Standing("VIOLATED", e.id),
                                      {Violation("RULE", i, e.id)}, None)
    BY <2>1, <2>3, RuledSound DEF Decided
  <2>4. CASE \E reasons \in SUBSET {Violation(rule, i, e.id) : rule \in LateRules} :
               Decide(st, i, e) = Ruled(st, i, Standing("COMPLETED", e.id), reasons, Ended(e))
    BY <2>1, <2>4, RuledSound DEF Decided
  <2> QED
    BY <2>2, <2>3, <2>4, DecideKinds
<1> QED
  BY <1>1, <1>2, <1>3, ApplyKinds

\* Steps are opened when their predecessors are completed: nothing else moves.
LEMMA RefreshSound ==
  ASSUME NEW n \in Nat, NEW st, Sound(st, n)
  PROVE  Sound(Refresh(st), n) /\ Extends(st, Refresh(st))
<1> DEFINE opened == Opened(st)
           new == Refresh(st)
           times(i) == {st.completed[p] : p \in Steps[i].predecessors \cap Completed(st)}
           steps == [i \in StepIds |-> IF i \in opened THEN Standing("READY", None)
                                       ELSE st.steps[i]]
           ready == [i \in StepIds |-> IF i \in opened THEN Latest(times(i)) ELSE st.ready[i]]
           s1 == [steps |-> steps, violations |-> st.violations, ordered |-> st.ordered,
                  completed |-> st.completed, ready |-> st.ready]
<1>1. /\ st.steps \in [StepIds -> [state : {"PENDING", "READY"} \cup Decided,
                                   event : (1 .. n) \cup {None}]]
      /\ st.violations \subseteq [rule : EventRules, step : StepIds, event : 1 .. n]
      /\ st.ordered \subseteq StepIds
      /\ st.completed \in [StepIds -> Moments \cup {None}]
      /\ st.ready \in [StepIds -> Moments \cup {None}]
      /\ st = [steps |-> st.steps, violations |-> st.violations, ordered |-> st.ordered,
               completed |-> st.completed, ready |-> st.ready]
  BY StateFields DEF Sound
<1>2. CASE opened = {}
  <2>1. new = st
    BY <1>2, Zenon DEF Refresh
  <2> QED
    BY <2>1 DEF Extends
<1>3. CASE opened # {}
  <2>1. new = [[st EXCEPT !.steps = steps] EXCEPT !.ready = ready]
    <3>1. new = [st EXCEPT
             !.steps = [i \in StepIds |->
                          IF i \in opened THEN Standing("READY", None) ELSE @[i]],
             !.ready = [i \in StepIds |->
                          IF i \in opened THEN Latest(times(i)) ELSE @[i]]]
      BY <1>3, Zenon DEF Refresh
    <3>2. [st EXCEPT !.steps = steps].ready = st.ready
      BY <1>1
    <3> QED
      BY <3>1, <3>2
  <2>2. ASSUME NEW i \in opened
        PROVE  /\ i \in StepIds /\ st.steps[i].state = "PENDING"
               /\ Steps[i].predecessors \subseteq Completed(st)
               /\ Latest(times(i)) \in Moments
    <3>1. i \in StepIds /\ st.steps[i].state = "PENDING"
          /\ Steps[i].predecessors \subseteq Completed(st)
      BY DEF Opened, InState
    <3>2. Steps[i].predecessors # {}
      BY <3>1 DEF Sound, StepSound
    <3>3. \A p \in Completed(st) : p \in StepIds /\ st.completed[p] \in Moments
      BY <1>1 DEF Completed
    <3>4. times(i) \in SUBSET Moments
      BY <3>3
    <3>5. times(i) # {}
      BY <3>1, <3>2
    <3> HIDE DEF times
    <3> QED
      BY <3>1, <3>4, <3>5, LatestMoment
  <2>3. \A t \in Moments : t # None
    BY BoundsAssumption, NoneAssumption DEF Moments
  <2> HIDE DEF steps, ready
  <2>4. [st EXCEPT !.steps = steps] = s1
    BY <1>1
  <2>5. [s1 EXCEPT !.ready = ready]
          = [steps |-> steps, violations |-> st.violations, ordered |-> st.ordered,
             completed |-> st.completed, ready |-> ready]
    OBVIOUS
  <2> HIDE DEF s1
  <2>6. new = [steps |-> steps, violations |-> st.violations, ordered |-> st.ordered,
               completed |-> st.completed, ready |-> ready]
    BY <2>1, <2>4, <2>5
  <2> HIDE DEF new, opened, times
  <2>7. /\ new.steps = steps /\ new.violations = st.violations /\ new.ordered = st.ordered
        /\ new.completed = st.completed /\ new.ready = ready
    BY <2>6
  <2>8. \A i \in StepIds :
          /\ i \in opened => steps[i] = Standing("READY", None) /\ ready[i] = Latest(times(i))
          /\ i \notin opened => steps[i] = st.steps[i] /\ ready[i] = st.ready[i]
    BY DEF steps, ready
  <2>9. new \in States(n)
    <3>1. Standing("READY", None) \in [state : {"PENDING", "READY"} \cup Decided,
                                       event : (1 .. n) \cup {None}]
      BY DEF Standing
    <3>2. steps \in [StepIds -> [state : {"PENDING", "READY"} \cup Decided,
                                 event : (1 .. n) \cup {None}]]
      BY <1>1, <3>1 DEF steps
    <3>3. ready \in [StepIds -> Moments \cup {None}]
      BY <1>1, <2>2 DEF ready
    <3> QED
      BY <1>1, <2>6, <3>2, <3>3 DEF States
  <2>10. Completed(new) = Completed(st)
    BY <2>7 DEF Completed
  <2>11. ASSUME NEW i \in StepIds PROVE StepSound(new, i)
    <3>1. StepSound(st, i)
      BY DEF Sound
    <3>2. CASE i \in opened
      <4>1. /\ new.steps[i].state = "READY" /\ new.steps[i].event = None
            /\ new.ready[i] # None
        BY <2>2, <2>3, <2>7, <2>8, <3>2 DEF Standing
      <4>2. new.completed[i] = None
        BY <2>2, <2>7, <3>1, <3>2 DEF StepSound
      <4>3. Steps[i].predecessors \subseteq Completed(new)
        BY <2>2, <2>10, <3>2
      <4> QED
        BY <4>1, <4>2, <4>3 DEF StepSound, Decided
    <3>3. CASE i \notin opened
      <4>1. new.steps[i] = st.steps[i] /\ new.ready[i] = st.ready[i]
        BY <2>7, <2>8, <3>3
      <4> QED
        BY <2>7, <2>10, <3>1, <4>1 DEF StepSound
    <3> QED
      BY <3>2, <3>3
  <2>12. ASSUME NEW i \in StepIds, st.steps[i].state \in Decided
         PROVE  new.steps[i] = st.steps[i]
    <3>1. i \notin opened
      BY <2>2, <2>12 DEF Decided
    <3> QED
      BY <2>7, <2>8, <3>1
  <2>13. ASSUME NEW v \in new.violations PROVE ReasonSound(new, v)
    <3>1. ReasonSound(st, v) /\ v.step \in StepIds
      BY <1>1, <2>7 DEF Sound
    <3>2. v.rule \in {"RULE", "TIMEOUT"} => st.steps[v.step].state \in Decided
      BY <3>1 DEF ReasonSound, Standing, Decided
    <3> QED
      BY <2>12, <3>1, <3>2 DEF ReasonSound
  <2>14. Extends(st, new)
    <3>1. \A i \in StepIds : st.steps[i].event # None => st.steps[i].state \in Decided
      BY DEF Sound, StepSound
    <3> QED
      BY <2>7, <2>12, <3>1 DEF Extends
  <2> QED
    BY <2>9, <2>11, <2>13, <2>14 DEF Sound, new
<1> QED
  BY <1>2, <1>3

\* A turn of the engine.
LEMMA TurnSound ==
  ASSUME NEW n \in Nat, NEW st, Sound(st, n), NEW e \in Event, e.id = n + 1
  PROVE  Sound(Turn(st, e), n + 1) /\ Extends(st, Turn(st, e))
<1>1. Sound(Apply(st, e), n + 1) /\ Extends(st, Apply(st, e))
  BY ApplySound
<1>2. Sound(Turn(st, e), n + 1) /\ Extends(Apply(st, e), Turn(st, e))
  BY <1>1, RefreshSound DEF Turn
<1> QED
  BY <1>1, <1>2 DEF Extends

(***************************************************************************)
(* The session.                                                            *)
(***************************************************************************)
Results == [steps : [StepIds -> Standings], violations : SUBSET ViolationKeys]
Typed(d) ==
  /\ DOMAIN d.steps \subseteq StepIds
  /\ \A i \in DOMAIN d.steps : d.steps[i] \in Standings
  /\ d.violations \subseteq ViolationKeys

\* The events the session has taken.
Taken ==
  /\ events \in Seq(Event) /\ Len(events) + frame <= MaxEvents
  /\ \A k \in DOMAIN events : events[k].id = k /\ events[k].started \in 0 .. clock
  /\ Sound(Replay(events), Len(events))

\* Its clock and what is on its way.
Running ==
  /\ clock \in Moments /\ frame \in Nat /\ (frame > 0 => clock > 0)
  /\ incidents \subseteq Incidents
  /\ polled \in {None} \cup [rule : Incidents, now : 0 .. clock]
  /\ finished \in BOOLEAN /\ mixed \in BOOLEAN
  /\ finished => frame = 0 /\ polled = None

\* The last result is an evaluation of all events, at some time until now; the
\* last of all is made by finish().
Evaluated(fin) ==
  \E external \in SUBSET Incidents, now \in 0 .. clock :
    result = Evaluate(events, external, now, fin)
Current ==
  /\ finished => Evaluated(TRUE)
  /\ ~finished /\ result # None => Evaluated(FALSE)

Reports ==
  /\ result \in {None} \cup Results
  /\ DOMAIN outbox = Threads
  /\ Typed(audit) /\ \A k \in Threads : Typed(outbox[k])

RulesInv == Taken /\ Running /\ Current /\ Reports

\* Who is late at a time, and who is missing when the session ends then.
Late(es, now) == Overdue(Replay(es), now)
Missing(es, now, fin) == IF fin THEN Unfinished(Replay(es), now) ELSE {}
Timed(es, now, fin) == Late(es, now) \cup Missing(es, now, fin)
Raises(es, external, now, fin) ==
  Replay(es).violations \cup Raised("TIMEOUT", Late(es, now))
    \cup Raised("MISSING", Missing(es, now, fin))
    \cup {Violation(q, None, None) : q \in external}

\* An evaluation, field by field.
LEMMA EvaluateFields ==
  ASSUME NEW es, NEW external, NEW now, NEW fin
  PROVE  Evaluate(es, external, now, fin)
           = [steps |-> [i \in StepIds |-> IF i \in Timed(es, now, fin)
                                           THEN Standing("VIOLATED", None)
                                           ELSE Replay(es).steps[i]],
              violations |-> Raises(es, external, now, fin)]
  BY Zenon DEF Evaluate, Late, Missing, Timed, Raises

\* Time moves only steps without a verdict.
LEMMA TimeMoves ==
  ASSUME NEW es, NEW n, Sound(Replay(es), n), NEW now, NEW fin
  PROVE  /\ \A i \in Timed(es, now, fin) :
              /\ i \in StepIds
              /\ Replay(es).steps[i].state \notin Decided
              /\ Replay(es).steps[i].event = None
         /\ Late(es, now) \cap Missing(es, now, fin) = {}
<1>1. \A i \in Late(es, now) : i \in StepIds /\ Replay(es).steps[i].state = "READY"
  BY DEF Late, Overdue, InState
<1>2. \A i \in Missing(es, now, fin) :
        i \in StepIds \ Late(es, now) /\ Replay(es).steps[i].state \notin Decided
  BY DEF Missing, Late, Unfinished, Decided
<1>3. \A i \in Timed(es, now, fin) : i \in StepIds /\ Replay(es).steps[i].state \notin Decided
  BY <1>1, <1>2 DEF Decided, Timed
<1>4. \A i \in Timed(es, now, fin) : Replay(es).steps[i].event = None
  BY <1>3 DEF Sound, StepSound
<1> QED
  BY <1>2, <1>3, <1>4

\* What an evaluation says about events is what the engine says.
LEMMA EvaluateKeeps ==
  ASSUME NEW es, NEW n, Sound(Replay(es), n), NEW external, NEW now, NEW fin,
         NEW new, new = Evaluate(es, external, now, fin)
  PROVE  /\ \A i \in StepIds :
              Replay(es).steps[i].event # None \/ new.steps[i].event # None
                => new.steps[i] = Replay(es).steps[i]
         /\ Replay(es).violations \subseteq new.violations
         /\ \A v \in new.violations : v.event # None => v \in Replay(es).violations
<1>1. /\ \A i \in StepIds : new.steps[i] = IF i \in Timed(es, now, fin)
                                          THEN Standing("VIOLATED", None)
                                          ELSE Replay(es).steps[i]
      /\ new.violations = Raises(es, external, now, fin)
  BY EvaluateFields
<1>2. Standing("VIOLATED", None).event = None
  BY DEF Standing
<1>3. \A i \in StepIds :
        Replay(es).steps[i].event # None \/ new.steps[i].event # None
          => new.steps[i] = Replay(es).steps[i]
  BY <1>1, <1>2, TimeMoves
<1>4. \A rule, S : \A v \in Raised(rule, S) : v.event = None
  BY DEF Raised, Violation
<1>5. \A v \in {Violation(q, None, None) : q \in external} : v.event = None
  BY DEF Violation
<1> QED
  BY <1>1, <1>3, <1>4, <1>5 DEF Raises

\* A result has its type.
LEMMA EvaluateTypes ==
  ASSUME NEW es, NEW n \in 0 .. MaxEvents, Sound(Replay(es), n),
         NEW external \in SUBSET Incidents, NEW now, NEW fin
  PROVE  Evaluate(es, external, now, fin) \in Results
<1> DEFINE st == Replay(es)
<1>1. st \in States(n)
  BY DEF Sound
<1>2. 1 .. n \subseteq Ids
  BY BoundsAssumption DEF Ids
<1>3. \A i \in StepIds : st.steps[i] \in Standings
  <2>1. \A i \in StepIds :
          st.steps[i] \in [state : {"PENDING", "READY"} \cup Decided, event : (1 .. n) \cup {None}]
    BY <1>1, StateFields
  <2> HIDE DEF st
  <2> QED
    BY <1>2, <2>1 DEF Standings, Decided
<1>4. Standing("VIOLATED", None) \in Standings
  BY DEF Standing, Standings
<1>5. st.violations \subseteq ViolationKeys
  <2>1. st.violations \subseteq [rule : EventRules, step : StepIds, event : 1 .. n]
    BY <1>1, StateFields
  <2> HIDE DEF st
  <2> QED
    BY <1>2, <2>1 DEF ViolationKeys, Rules, EventRules
<1>6. Timed(es, now, fin) \subseteq StepIds
  BY TimeMoves
<1>7. Late(es, now) \subseteq StepIds /\ Missing(es, now, fin) \subseteq StepIds
  BY <1>6 DEF Timed
<1>8. \A S \in SUBSET StepIds :
        /\ Raised("TIMEOUT", S) \subseteq ViolationKeys
        /\ Raised("MISSING", S) \subseteq ViolationKeys
  BY DEF Raised, Violation, ViolationKeys, Rules
<1>9. {Violation(q, None, None) : q \in external} \subseteq ViolationKeys
  BY DEF Violation, ViolationKeys
<1>10. Raises(es, external, now, fin) \subseteq ViolationKeys
  BY <1>5, <1>7, <1>8, <1>9 DEF Raises
<1> DEFINE steps == [i \in StepIds |-> IF i \in Timed(es, now, fin)
                                       THEN Standing("VIOLATED", None) ELSE st.steps[i]]
<1> HIDE DEF st
<1>11. steps \in [StepIds -> Standings]
  BY <1>3, <1>4
<1> HIDE DEF steps
<1>12. [steps |-> steps, violations |-> Raises(es, external, now, fin)] \in Results
  BY <1>10, <1>11 DEF Results
<1> QED
  BY <1>12, EvaluateFields, Zenon DEF steps, st

\* Deltas of results, and their overlays, keep their type.
LEMMA DeltaTyped ==
  ASSUME NEW old \in {None} \cup Results, NEW new \in Results
  PROVE  Typed(Delta(old, new))
<1>1. Typed(new)
  BY DEF Typed, Results
<1>2. CASE old = None
  BY <1>1, <1>2 DEF Delta
<1>3. CASE old # None
  BY <1>3 DEF Delta, Typed, Results
<1> QED
  BY <1>2, <1>3

LEMMA OverlayTyped ==
  ASSUME NEW older, NEW newer, Typed(older), Typed(newer)
  PROVE  Typed(Overlay(older, newer))
  BY OverlayShape DEF Typed

LEMMA NothingTyped == Typed(NoDelta)
  BY DEF Typed, NoDelta

LEMMA RulesInit == Init => RulesInv
<1> SUFFICES ASSUME Init PROVE RulesInv
  OBVIOUS
<1>1. Taken
  <2>1. Sound(Replay(<<>>), 0)
    BY ReplayNothing, FreshSound
  <2>2. events = <<>> /\ frame = 0
    BY DEF Init
  <2>3. <<>> \in Seq(Event) /\ Len(<<>>) = 0 /\ DOMAIN <<>> = {}
    OBVIOUS
  <2>4. Sound(Replay(events), Len(events))
    BY <2>1, <2>2, <2>3
  <2> QED
    BY <2>2, <2>3, <2>4, BoundsAssumption DEF Taken
<1>2. Running
  <2>1. clock = 0 /\ frame = 0 /\ incidents = {} /\ polled = None /\ ~finished /\ ~mixed
    BY Zenon DEF Init
  <2>2. finished \in BOOLEAN /\ mixed \in BOOLEAN
    BY Zenon DEF Init
  <2>3. 0 \in Moments /\ 0 \in Nat /\ ~(0 > 0)
    BY BoundsAssumption DEF Moments
  <2> QED
    BY <2>1, <2>2, <2>3, Zenon DEF Running
<1>3. Current
  BY Zenon DEF Init, Current
<1>4. Reports
  BY NothingTyped DEF Init, Reports
<1> QED
  BY <1>1, <1>2, <1>3, <1>4 DEF RulesInv

\* A session's events are placed.
LEMMA TakenPlaced ==
  ASSUME NEW es \in Seq(Event), \A k \in DOMAIN es : es[k].id = k
  PROVE  Placed(es)
  BY DEF Placed

\* One event more.
LEMMA TakeEvent ==
  ASSUME NEW es \in Seq(Event), \A k \in DOMAIN es : es[k].id = k,
         Sound(Replay(es), Len(es)), NEW e \in Event, e.id = Len(es) + 1
  PROVE  /\ Append(es, e) \in Seq(Event) /\ Len(Append(es, e)) = Len(es) + 1
         /\ \A k \in DOMAIN es : Append(es, e)[k] = es[k]
         /\ Append(es, e)[Len(es) + 1] = e
         /\ \A k \in DOMAIN Append(es, e) : Append(es, e)[k].id = k
         /\ Replay(Append(es, e)) = Turn(Replay(es), e)
         /\ Sound(Replay(Append(es, e)), Len(es) + 1)
         /\ Extends(Replay(es), Replay(Append(es, e)))
<1> DEFINE ds == Append(es, e)
           n == Len(es)
<1>1. /\ n \in Nat /\ DOMAIN es = 1 .. n
      /\ ds \in Seq(Event) /\ Len(ds) = n + 1 /\ DOMAIN ds = 1 .. n + 1
      /\ \A k \in 1 .. n : ds[k] = es[k]
      /\ ds[n + 1] = e
  OBVIOUS
<1> HIDE DEF ds, n
<1>2. \A k \in DOMAIN ds : ds[k].id = k
  <2> TAKE k \in DOMAIN ds
  <2>1. k \in 1 .. n \/ k = n + 1
    BY <1>1
  <2> QED
    BY <1>1, <2>1 DEF n
<1>3. Placed(es) /\ Placed(ds)
  BY <1>1, <1>2, TakenPlaced
<1>4. Replay(ds) = Turn(Replay(es), e)
  <2>1. Replay(ds) = Turn(Replay(es), ds[Len(ds)])
    BY <1>1, <1>3, ReplayAppend DEF n
  <2> QED
    BY <1>1, <2>1
<1>5. Sound(Turn(Replay(es), e), n + 1) /\ Extends(Replay(es), Turn(Replay(es), e))
  BY <1>1, TurnSound DEF n
<1> QED
  BY <1>1, <1>2, <1>4, <1>5 DEF ds, n

\* What a recognizer emits for the current frame set is an event.
LEMMA CandidateEvent ==
  ASSUME Taken, Running, frame > 0, NEW e \in Candidates
  PROVE  /\ e \in Event /\ e.id = Len(events) + 1
         /\ e.started \in 0 .. clock /\ Ended(e) \in 0 .. clock
<1>1. PICK k \in Kinds, t \in Spans :
        e = [id |-> Len(events) + 1, action |-> k.action, zone |-> k.zone,
             confidence |-> k.confidence, started |-> t[1], ended |-> t[2]]
  BY DEF Candidates
<1>2. clock \in Nat /\ clock > 0 /\ clock <= Horizon
  BY BoundsAssumption DEF Running, Moments
<1>3. t[1] \in 0 .. clock /\ t[2] \in 0 .. clock \cup {None}
  BY <1>2 DEF Spans
<1>4. k.action \in Actions /\ k.zone \in Zones /\ k.confidence \in Confidences
  BY KindsAssumption
<1>5. Len(events) + 1 \in Ids
  BY BoundsAssumption DEF Taken, Running, Ids
<1>6. 0 .. clock \subseteq Moments
  BY <1>2, BoundsAssumption DEF Moments
<1>7. e \in Event
  BY <1>1, <1>3, <1>4, <1>5, <1>6 DEF Event
<1>8. e.id = Len(events) + 1 /\ e.started = t[1] /\ e.ended = t[2]
  BY <1>1
<1> QED
  BY <1>3, <1>7, <1>8 DEF Ended

\* An evaluation that is reported to a thread.
LEMMA ReportTyped ==
  ASSUME Taken', Running', Reports, NEW k \in Threads, NEW now \in 0 .. clock',
         Report(k, now), ~finished', audit' = audit
  PROVE  Current' /\ Reports'
<1>1. /\ result' = Evaluate(events', incidents', now, FALSE)
      /\ outbox' = [outbox EXCEPT ![k] = Overlay(@, Delta(result, result'))]
  BY DEF Report
<1>2. Sound(Replay(events'), Len(events')) /\ Len(events') \in 0 .. MaxEvents
  BY BoundsAssumption DEF Taken, Running
<1>3. incidents' \in SUBSET Incidents
  BY DEF Running
<1>4. result' \in Results
  BY <1>1, <1>2, <1>3, EvaluateTypes
<1>5. Current'
  BY <1>1, <1>3 DEF Current, Evaluated
<1>6. Typed(Delta(result, result'))
  BY <1>4, DeltaTyped DEF Reports
<1>7. Typed(Overlay(outbox[k], Delta(result, result')))
  BY <1>6, OverlayTyped DEF Reports
<1> QED
  BY <1>1, <1>4, <1>5, <1>7 DEF Reports

\* Every step keeps the invariant.
LEMMA RulesStep == RulesInv /\ [Next]_vars => RulesInv'
<1> SUFFICES ASSUME RulesInv, [Next]_vars PROVE RulesInv'
  OBVIOUS
<1> USE DEF RulesInv
<1>1. clock \in Nat /\ clock <= Horizon /\ Horizon \in Nat /\ frame \in Nat
  BY BoundsAssumption DEF Running, Moments
<1>2. ASSUME NEW t \in 1 .. Horizon, FrameTick(t) PROVE RulesInv'
  <2>1. /\ ~finished /\ frame = 0 /\ clock' = t /\ t > clock /\ Report("worker", t)
        /\ UNCHANGED <<events, incidents, frame, polled, audit, finished>>
        /\ mixed' \in BOOLEAN
    BY <1>2 DEF FrameTick, Report
  <2>2. 0 .. clock \subseteq 0 .. t /\ t \in Moments /\ t \in 0 .. t
    BY <1>1, <2>1 DEF Moments
  <2>3. Taken'
    BY <2>1, <2>2 DEF Taken
  <2>4. Running'
    BY <2>1, <2>2 DEF Running
  <2>5. Current' /\ Reports'
    BY <2>1, <2>2, <2>3, <2>4, ReportTyped DEF Threads
  <2> QED
    BY <2>3, <2>4, <2>5
<1>3. ASSUME NEW t \in 1 .. Horizon, NEW n \in Ids, FrameActions(t, n) PROVE RulesInv'
  <2>1. /\ ~finished /\ frame = 0 /\ clock' = t /\ t > clock /\ frame' = n
        /\ n \in 1 .. MaxEvents - Len(events)
        /\ UNCHANGED <<events, incidents, result, polled, outbox, audit, finished, mixed>>
    BY <1>3 DEF FrameActions
  <2>2. 0 .. clock \subseteq 0 .. t /\ t \in Moments /\ t > 0
    BY <1>1, <2>1 DEF Moments
  <2>3. Taken'
    BY <2>1, <2>2, BoundsAssumption DEF Taken
  <2>4. Running'
    BY <2>1, <2>2, BoundsAssumption DEF Running
  <2>5. Current' /\ Reports'
    BY <2>1, <2>2 DEF Current, Evaluated, Reports
  <2> QED
    BY <2>3, <2>4, <2>5
<1>4. ASSUME NEW e \in Candidates, Ingest(e) PROVE RulesInv'
  <2>1. /\ frame > 0 /\ events' = Append(events, e) /\ frame' = frame - 1
        /\ UNCHANGED <<incidents, clock, polled, audit, finished>>
        /\ Report("worker", Ended(e)) /\ mixed' \in BOOLEAN
    BY <1>4 DEF Ingest, Report
  <2>2. /\ e \in Event /\ e.id = Len(events) + 1
        /\ e.started \in 0 .. clock /\ Ended(e) \in 0 .. clock
    BY <2>1, CandidateEvent
  <2>3. Taken'
    <3>1. /\ events \in Seq(Event) /\ \A j \in DOMAIN events : events[j].id = j
          /\ Sound(Replay(events), Len(events)) /\ Len(events) + frame <= MaxEvents
          /\ \A j \in DOMAIN events : events[j].started \in 0 .. clock
      BY DEF Taken
    <3>2. /\ events' \in Seq(Event) /\ Len(events') = Len(events) + 1
          /\ \A j \in DOMAIN events : events'[j] = events[j]
          /\ events'[Len(events) + 1] = e
          /\ \A j \in DOMAIN events' : events'[j].id = j
          /\ Sound(Replay(events'), Len(events'))
      BY <2>1, <2>2, <3>1, TakeEvent
    <3>3. \A j \in DOMAIN events' : j \in DOMAIN events \/ j = Len(events) + 1
      BY <3>1, <3>2
    <3>4. \A j \in DOMAIN events' : events'[j].started \in 0 .. clock'
      BY <2>1, <2>2, <3>1, <3>2, <3>3
    <3>5. Len(events') + frame' <= MaxEvents
      BY <1>1, <2>1, <3>1, <3>2, BoundsAssumption
    <3> QED
      BY <3>2, <3>4, <3>5 DEF Taken
  <2>4. Running'
    BY <1>1, <2>1 DEF Running
  <2>5. ~finished
    BY <1>1, <2>1 DEF Running
  <2>6. Current' /\ Reports'
    BY <2>1, <2>2, <2>3, <2>4, <2>5, ReportTyped DEF Threads
  <2> QED
    BY <2>3, <2>4, <2>6
<1>5. ASSUME NEW q \in Incidents, QualityPoll(q) PROVE RulesInv'
  <2>1. /\ ~finished /\ polled' = [rule |-> q, now |-> clock]
        /\ UNCHANGED <<events, incidents, result, clock, frame, outbox, audit, finished, mixed>>
    BY <1>5 DEF QualityPoll
  <2>2. Taken' /\ Current' /\ Reports'
    BY <2>1 DEF Taken, Current, Evaluated, Reports
  <2>3. Running'
    BY <1>1, <2>1 DEF Running
  <2> QED
    BY <2>2, <2>3
<1>6. ASSUME QualityRecord PROVE RulesInv'
  <2>1. /\ polled # None /\ incidents' = incidents \cup {polled.rule} /\ polled' = None
        /\ UNCHANGED <<events, clock, frame, audit, finished>>
        /\ Report("quality", polled.now) /\ mixed' \in BOOLEAN
    BY <1>6 DEF QualityRecord, Report
  <2>2. polled.rule \in Incidents /\ polled.now \in 0 .. clock /\ ~finished
    BY <2>1 DEF Running
  <2>3. Taken'
    BY <2>1 DEF Taken
  <2>4. Running'
    BY <2>1, <2>2 DEF Running
  <2>5. Current' /\ Reports'
    BY <2>1, <2>2, <2>3, <2>4, ReportTyped DEF Threads
  <2> QED
    BY <2>3, <2>4, <2>5
<1>7. ASSUME NEW k \in Threads, Deliver(k) PROVE RulesInv'
  <2>1. /\ audit' = Overlay(audit, outbox[k]) /\ outbox' = [outbox EXCEPT ![k] = NoDelta]
        /\ UNCHANGED <<events, incidents, result, clock, frame, polled, finished, mixed>>
    BY <1>7 DEF Deliver
  <2>2. Taken' /\ Running' /\ Current'
    BY <2>1 DEF Taken, Running, Current, Evaluated
  <2>3. Typed(audit')
    BY <2>1, OverlayTyped DEF Reports
  <2>4. Reports'
    BY <2>1, <2>3, NothingTyped DEF Reports
  <2> QED
    BY <2>2, <2>4
<1>8. ASSUME Finish PROVE RulesInv'
  <2>1. /\ frame = 0 /\ polled = None /\ finished'
        /\ result' = Evaluate(events, incidents, clock, TRUE)
        /\ UNCHANGED <<events, incidents, clock, frame, polled, outbox, audit, mixed>>
        /\ finished' \in BOOLEAN
    BY <1>8 DEF Finish
  <2>2. Taken'
    BY <2>1 DEF Taken
  <2>3. Running'
    BY <1>1, <2>1 DEF Running
  <2>4. Current'
    <3>1. incidents \in SUBSET Incidents /\ clock \in 0 .. clock
      BY <1>1 DEF Running
    <3>2. Evaluated(TRUE)'
      BY <2>1, <3>1 DEF Evaluated
    <3> QED
      BY <2>1, <3>2, Zenon DEF Current
  <2>5. result' \in Results
    <3>1. Sound(Replay(events), Len(events)) /\ Len(events) \in 0 .. MaxEvents
      BY <1>1, BoundsAssumption DEF Taken
    <3> QED
      BY <2>1, <3>1, EvaluateTypes DEF Running
  <2>6. Reports'
    BY <2>1, <2>5 DEF Reports
  <2> QED
    BY <2>2, <2>3, <2>4, <2>6
<1>9. CASE UNCHANGED vars
  <2>1. UNCHANGED <<events, incidents, result, clock, frame, polled, outbox, audit,
                    finished, mixed>>
    BY <1>9 DEF vars
  <2> QED
    BY <2>1 DEF Taken, Running, Current, Evaluated, Reports
<1> QED
  BY <1>2, <1>3, <1>4, <1>5, <1>6, <1>7, <1>8, <1>9 DEF Next

LEMMA RulesTypes == RulesInv => TypeOK
<1> SUFFICES ASSUME RulesInv PROVE TypeOK
  OBVIOUS
<1> USE DEF RulesInv
<1>1. /\ Len(events) <= MaxEvents /\ frame \in 0 .. MaxEvents
      /\ \A k \in DOMAIN events : events[k].id = k /\ events[k].started \in 0 .. clock
  <2>1. Len(events) \in Nat
    BY DEF Taken
  <2> QED
    BY <2>1, BoundsAssumption DEF Taken, Running
<1>2. /\ clock \in 0 .. Horizon /\ incidents \subseteq Incidents
      /\ polled \in {None} \cup [rule : Incidents, now : 0 .. Horizon]
  <2>1. clock \in 0 .. Horizon /\ 0 .. clock \subseteq 0 .. Horizon
    BY BoundsAssumption DEF Running, Moments
  <2> QED
    BY <2>1 DEF Running
<1>3. finished \in BOOLEAN /\ mixed \in BOOLEAN
  BY Zenon DEF Running
<1>4. result \in {None} \cup [steps : [StepIds -> Standings], violations : SUBSET ViolationKeys]
  BY DEF Reports, Results
<1>5. \A d \in {audit} \cup {outbox[k] : k \in Threads} :
        /\ DOMAIN d.steps \subseteq StepIds
        /\ \A i \in DOMAIN d.steps : d.steps[i] \in Standings
        /\ d.violations \subseteq ViolationKeys
  BY DEF Reports, Typed
<1> QED
  BY <1>1, <1>2, <1>3, <1>4, <1>5, Zenon DEF TypeOK

\* The last result is made from what the session has taken.
LEMMA LastResult ==
  ASSUME RulesInv, result # None \/ finished
  PROVE  \E external \in SUBSET Incidents, now \in 0 .. clock, fin \in BOOLEAN :
           result = Evaluate(events, external, now, fin)
<1>1. CASE finished
  BY <1>1 DEF RulesInv, Current, Evaluated
<1>2. CASE ~finished
  BY <1>2 DEF RulesInv, Current, Evaluated
<1> QED
  BY <1>1, <1>2

\* A violation without an event was raised by the end of time.
LEMMA EventlessViolations ==
  ASSUME NEW es, NEW n \in Nat, Sound(Replay(es), n), NEW external, NEW now, NEW fin,
         NEW v \in Raises(es, external, now, fin), v.event = None, v.step \in StepIds
  PROVE  \/ v.rule = "TIMEOUT" /\ v = Violation("TIMEOUT", v.step, None)
              /\ v.step \in Late(es, now)
         \/ v.rule = "MISSING" /\ v = Violation("MISSING", v.step, None)
              /\ v.step \in Missing(es, now, fin)
<1>1. v \notin Replay(es).violations
  <2>1. Replay(es).violations \subseteq [rule : EventRules, step : StepIds, event : 1 .. n]
    BY StateFields DEF Sound
  <2>2. None \notin 1 .. n
    BY NoneAssumption
  <2> QED
    BY <2>1, <2>2
<1>2. v \notin {Violation(q, None, None) : q \in external}
  BY StepFacts DEF Violation
<1>3. v \in Raised("TIMEOUT", Late(es, now)) \/ v \in Raised("MISSING", Missing(es, now, fin))
  BY <1>1, <1>2 DEF Raises
<1> QED
  BY <1>3 DEF Raised, Violation

\* The results say what the engine's soundness gives.
LEMMA RulesSound == RulesInv => SoundResult
<1> SUFFICES ASSUME RulesInv PROVE PredecessorsFirst /\ OneVerdict
  BY DEF SoundResult
<1> DEFINE st == Replay(events)
           n == Len(events)
<1>1. Sound(st, n) /\ n \in Nat
  BY DEF RulesInv, Taken
<1>2. \A external, now, fin : \A i \in StepIds :
        Evaluate(events, external, now, fin).steps[i]
          = IF i \in Timed(events, now, fin) THEN Standing("VIOLATED", None) ELSE st.steps[i]
  BY EvaluateFields
<1>3. Standing("VIOLATED", None).state = "VIOLATED" /\ Standing("VIOLATED", None).event = None
  BY DEF Standing
<1>4. PredecessorsFirst
  <2> SUFFICES ASSUME result # None, NEW i \in StepIds, result.steps[i].state = "COMPLETED",
                      NEW p \in Steps[i].predecessors
               PROVE  result.steps[p].state = "COMPLETED"
    BY DEF PredecessorsFirst
  <2>1. PICK external \in SUBSET Incidents, now \in 0 .. clock, fin \in BOOLEAN :
          result = Evaluate(events, external, now, fin)
    BY LastResult
  <2>2. st.steps[i].state = "COMPLETED"
    <3> HIDE DEF st
    <3> QED
      BY <1>2, <1>3, <2>1
  <2>3. p \in StepIds /\ st.completed[p] # None
    BY <1>1, <2>2, StepFacts DEF Sound, StepSound, Completed
  <2>4. st.steps[p].state = "COMPLETED"
    BY <1>1, <2>3 DEF Sound, StepSound
  <2>5. p \notin Timed(events, now, fin)
    BY <1>1, <2>4, TimeMoves DEF Decided
  <2> HIDE DEF st
  <2> QED
    BY <1>2, <2>1, <2>3, <2>4, <2>5
<1>5. OneVerdict
  <2> SUFFICES ASSUME finished, NEW i \in StepIds
               PROVE  /\ result.steps[i].state = "VIOLATED" =>
                           \E v : {w \in Reasons(i) : w.event = result.steps[i].event} = {v}
                      /\ Steps[i].required => result.steps[i].state \in Decided
    BY DEF OneVerdict, Decided
  <2>1. PICK external \in SUBSET Incidents, now \in 0 .. clock :
          result = Evaluate(events, external, now, TRUE)
    BY DEF RulesInv, Current, Evaluated
  <2>2. result.violations = Raises(events, external, now, TRUE)
    BY <2>1, EvaluateFields
  <2> DEFINE why == {w \in Reasons(i) : w.event = result.steps[i].event}
  <2>3. CASE i \in Timed(events, now, TRUE)
    <3>1. result.steps[i].state = "VIOLATED" /\ result.steps[i].event = None
      BY <1>2, <1>3, <2>1, <2>3
    <3>2. \A w \in why : \/ w = Violation("TIMEOUT", i, None) /\ i \in Late(events, now)
                         \/ w = Violation("MISSING", i, None) /\ i \in Missing(events, now, TRUE)
      <4> TAKE w \in why
      <4>1. /\ w \in Raises(events, external, now, TRUE) /\ w.step = i /\ w.event = None
        BY <2>2, <3>1 DEF Reasons
      <4>2. w.step \in StepIds
        BY <4>1
      <4> HIDE DEF why, st, n
      <4>3. \/ w.rule = "TIMEOUT" /\ w = Violation("TIMEOUT", w.step, None)
                 /\ w.step \in Late(events, now)
            \/ w.rule = "MISSING" /\ w = Violation("MISSING", w.step, None)
                 /\ w.step \in Missing(events, now, TRUE)
        BY <1>1, <4>1, <4>2, EventlessViolations DEF st, n
      <4> QED
        BY <4>1, <4>3
    <3>3. /\ i \in Late(events, now) => Violation("TIMEOUT", i, None) \in why
          /\ i \in Missing(events, now, TRUE) => Violation("MISSING", i, None) \in why
      BY <2>2, <3>1 DEF Raises, Raised, Reasons, Violation
    <3>4. ~(i \in Late(events, now) /\ i \in Missing(events, now, TRUE))
      BY <1>1, TimeMoves
    <3>5. i \in Late(events, now) \/ i \in Missing(events, now, TRUE)
      BY <2>3 DEF Timed
    <3>6. \E v : why = {v}
      <4> HIDE DEF why
      <4>1. CASE i \in Late(events, now)
        <5>1. why = {Violation("TIMEOUT", i, None)}
          BY <3>2, <3>3, <3>4, <4>1
        <5> QED
          BY <5>1
      <4>2. CASE i \in Missing(events, now, TRUE)
        <5>1. why = {Violation("MISSING", i, None)}
          BY <3>2, <3>3, <3>4, <4>2
        <5> QED
          BY <5>1
      <4> QED
        BY <3>5, <4>1, <4>2
    <3> QED
      BY <3>1, <3>6 DEF Decided
  <2>4. CASE i \notin Timed(events, now, TRUE)
    <3>1. result.steps[i] = st.steps[i]
      BY <1>2, <2>1, <2>4
    <3>2. ASSUME st.steps[i].state = "VIOLATED" PROVE \E v : why = {v}
      <4> DEFINE v == Violation("RULE", i, st.steps[i].event)
      <4>1. v \in st.violations /\ st.steps[i].event # None
        BY <1>1, <3>2 DEF Sound, StepSound, Decided
      <4>2. st.violations \subseteq [rule : EventRules, step : StepIds, event : 1 .. n]
        BY <1>1, StateFields DEF Sound
      <4>3. v \in why
        BY <2>2, <3>1, <4>1 DEF Raises, Reasons, Violation
      <4>4. ASSUME NEW w \in why PROVE w = v
        <5>1. /\ w \in result.violations /\ w.step = i /\ w.event = st.steps[i].event
              /\ w.rule \in {"TIMEOUT", "MISSING", "RULE"}
          BY <3>1 DEF Reasons
        <5>2. w \in st.violations
          BY <1>1, <2>1, <4>1, <5>1, EvaluateKeeps
        <5>3. w.rule # "MISSING"
          BY <4>2, <5>2 DEF EventRules
        <5>4. w.rule # "TIMEOUT"
          BY <1>1, <3>2, <5>1, <5>2 DEF Sound, ReasonSound
        <5>5. w = [rule |-> w.rule, step |-> w.step, event |-> w.event]
          BY <4>2, <5>2
        <5> QED
          BY <5>1, <5>3, <5>4, <5>5 DEF Violation
      <4> HIDE DEF v, why
      <4> QED
        BY <4>3, <4>4
    <3>3. ASSUME Steps[i].required PROVE st.steps[i].state \in Decided
      <4>1. i \notin Late(events, now) /\ i \notin Missing(events, now, TRUE)
        BY <2>4 DEF Timed
      <4> QED
        BY <3>3, <4>1 DEF Missing, Late, Unfinished, Decided
    <3> QED
      BY <3>1, <3>2, <3>3
  <2> QED
    BY <2>3, <2>4
<1> QED
  BY <1>4, <1>5

\* No value of a variable leaves its type, for every rule set and every session.
THEOREM RuleTypes == Spec => []TypeOK
<1>1. Init => RulesInv
  BY RulesInit
<1>2. RulesInv /\ [Next]_vars => RulesInv'
  BY RulesStep
<1>3. RulesInv => TypeOK
  BY RulesTypes
<1> QED
  BY <1>1, <1>2, <1>3, PTL DEF Spec

\* For every rule set and every sequence of events, ticks and incidents: each
\* result of RuleEngine.evaluate completes a step only after its predecessors,
\* and at the end a violated step has one reason and a required step a verdict.
THEOREM ResultsAreSound == Spec => []SoundResult
<1>1. Init => RulesInv
  BY RulesInit
<1>2. RulesInv /\ [Next]_vars => RulesInv'
  BY RulesStep
<1>3. RulesInv => SoundResult
  BY RulesSound
<1> QED
  BY <1>1, <1>2, <1>3, PTL DEF Spec

(***************************************************************************)
(* From one result to the next.                                            *)
(***************************************************************************)
\* A step leaves the result and what it was made from alone, or makes a new
\* one; the engine only adds to what it said.
LEMMA ResultChanges ==
  ASSUME RulesInv, [Next]_vars
  PROVE  /\ \/ UNCHANGED <<events, result>>
            \/ \E external, now, fin : result' = Evaluate(events', external, now, fin)
         /\ Extends(Replay(events), Replay(events'))
<1> USE DEF RulesInv
<1>1. events' = events => Extends(Replay(events), Replay(events'))
  BY DEF Extends
<1>2. ASSUME NEW t \in 1 .. Horizon, FrameTick(t)
      PROVE  events' = events /\ result' = Evaluate(events', incidents', t, FALSE)
  BY <1>2 DEF FrameTick, Report
<1>3. ASSUME NEW t \in 1 .. Horizon, NEW k \in Ids, FrameActions(t, k)
      PROVE  UNCHANGED <<events, result>>
  BY <1>3 DEF FrameActions
<1>4. ASSUME NEW e \in Candidates, Ingest(e)
      PROVE  /\ result' = Evaluate(events', incidents', Ended(e), FALSE)
             /\ Extends(Replay(events), Replay(events'))
  <2>1. /\ frame > 0 /\ events' = Append(events, e)
        /\ result' = Evaluate(events', incidents', Ended(e), FALSE)
    BY <1>4 DEF Ingest, Report
  <2>2. e \in Event /\ e.id = Len(events) + 1
    BY <2>1, CandidateEvent
  <2>3. Extends(Replay(events), Replay(Append(events, e)))
    BY <2>2, TakeEvent DEF Taken
  <2> QED
    BY <2>1, <2>3
<1>5. ASSUME NEW q \in Incidents, QualityPoll(q) PROVE UNCHANGED <<events, result>>
  BY <1>5 DEF QualityPoll
<1>6. ASSUME QualityRecord
      PROVE  events' = events /\ result' = Evaluate(events', incidents', polled.now, FALSE)
  BY <1>6 DEF QualityRecord, Report
<1>7. ASSUME NEW k \in Threads, Deliver(k) PROVE UNCHANGED <<events, result>>
  BY <1>7 DEF Deliver
<1>8. ASSUME Finish
      PROVE  events' = events /\ result' = Evaluate(events', incidents, clock, TRUE)
  BY <1>8 DEF Finish
<1>9. CASE UNCHANGED vars
  BY <1>1, <1>9 DEF vars
<1> QED
  BY <1>1, <1>2, <1>3, <1>4, <1>5, <1>6, <1>7, <1>8, <1>9, Zenon DEF Next

\* What an event has decided stays in the results.
LEMMA VerdictStays ==
  ASSUME RulesInv, RulesInv', [Next]_vars, result # None
  PROVE  /\ \A i \in StepIds : result.steps[i].event # None => result'.steps[i] = result.steps[i]
         /\ \A v \in result.violations : v.event # None => v \in result'.violations
<1>1. CASE UNCHANGED <<events, result>>
  BY <1>1
<1>2. CASE \E external, now, fin : result' = Evaluate(events', external, now, fin)
  <2> DEFINE st == Replay(events)
             next == Replay(events')
  <2>1. Extends(st, next)
    BY ResultChanges
  <2>2. /\ \A i \in StepIds : result.steps[i].event # None => result.steps[i] = st.steps[i]
        /\ \A v \in result.violations : v.event # None => v \in st.violations
    <3>1. PICK external \in SUBSET Incidents, now \in 0 .. clock, fin \in BOOLEAN :
            result = Evaluate(events, external, now, fin)
      BY LastResult
    <3>2. Sound(st, Len(events))
      BY DEF RulesInv, Taken
    <3> QED
      BY <3>1, <3>2, EvaluateKeeps
  <2>3. /\ \A i \in StepIds : next.steps[i].event # None => result'.steps[i] = next.steps[i]
        /\ next.violations \subseteq result'.violations
    <3>1. PICK external, now, fin : result' = Evaluate(events', external, now, fin)
      BY <1>2
    <3>2. Sound(next, Len(events'))
      BY DEF RulesInv, Taken
    <3> QED
      BY <3>1, <3>2, EvaluateKeeps
  <2> HIDE DEF st, next
  <2> QED
    BY <2>1, <2>2, <2>3 DEF Extends
<1> QED
  BY <1>1, <1>2, ResultChanges

\* Opening steps decides nothing.
LEMMA RefreshKeeps ==
  ASSUME NEW st, NEW i \in StepIds, Refresh(st).steps[i].event # None,
         NEW n, st \in States(n)
  PROVE  Refresh(st).steps[i] = st.steps[i]
<1>1. CASE Opened(st) = {}
  BY <1>1 DEF Refresh
<1>2. CASE Opened(st) # {}
  <2>1. Refresh(st).steps[i] = IF i \in Opened(st) THEN Standing("READY", None)
                               ELSE st.steps[i]
    BY <1>2, StateFields DEF Refresh
  <2> QED
    BY <2>1 DEF Standing
<1> QED
  BY <1>1, <1>2

\* An event that completes a step was its verdict, with the reasons for it.
LEMMA TurnCompletes ==
  ASSUME NEW n \in Nat, NEW st, Sound(st, n), NEW e \in Event, e.id = n + 1,
         NEW i \in StepIds, st.steps[i].event = None,
         Turn(st, e).steps[i] = Standing("COMPLETED", e.id)
  PROVE  StartDelay(st, i, e) \subseteq Turn(st, e).violations
<1>1. Sound(Apply(st, e), n + 1)
  BY ApplySound
<1>2. e.id # None
  BY EventFacts
<1>3. Standing("COMPLETED", e.id).event = e.id /\ Standing("COMPLETED", e.id).state = "COMPLETED"
  BY DEF Standing
<1>4. Apply(st, e).steps[i] = Standing("COMPLETED", e.id)
  <2>1. Refresh(Apply(st, e)).steps[i] = Standing("COMPLETED", e.id)
    BY DEF Turn
  <2>2. Refresh(Apply(st, e)).steps[i].event # None /\ Apply(st, e) \in States(n + 1)
    BY <1>1, <1>2, <1>3, <2>1 DEF Sound
  <2> QED
    BY <2>1, <2>2, RefreshKeeps
<1>5. st.steps[i] # Apply(st, e).steps[i]
  BY <1>2, <1>3, <1>4
<1>6. st \in States(n)
  BY DEF Sound
<1>7. ASSUME NEW j \in StepIds, Apply(st, e) = Reported(st, j, e) PROVE FALSE
  <2>1. Reported(st, j, e).steps = st.steps
    BY <1>6, StateFields DEF Reported
  <2> QED
    BY <1>5, <1>7, <2>1
<1>8. PICK j \in InState(st, "READY") : Apply(st, e) = Decide(st, j, e)
  BY <1>5, <1>7, ApplyKinds
<1>9. j \in StepIds
  BY DEF InState
<1>10. \A standing, reasons, time :
         /\ Ruled(st, j, standing, reasons, time).steps[i]
              = IF i = j THEN standing ELSE st.steps[i]
         /\ reasons \subseteq Ruled(st, j, standing, reasons, time).violations
  BY <1>6, <1>9, StateFields DEF Ruled
<1>11. i = j
  <2>1. \E standing, reasons, time : Apply(st, e) = Ruled(st, j, standing, reasons, time)
    BY <1>8, DecideKinds
  <2> QED
    BY <1>5, <1>10, <2>1
<1>12. Standing("UNKNOWN", e.id).state = "UNKNOWN" /\ Standing("VIOLATED", e.id).state = "VIOLATED"
  BY DEF Standing
<1>13. \E reasons, time :
         /\ Apply(st, e) = Ruled(st, j, Standing("COMPLETED", e.id), reasons, time)
         /\ StartDelay(st, j, e) \subseteq reasons
  <2>1. \A reasons, time :
          /\ Apply(st, e) # Ruled(st, j, Standing("UNKNOWN", e.id), reasons, time)
          /\ Apply(st, e) # Ruled(st, j, Standing("VIOLATED", e.id), reasons, time)
    BY <1>3, <1>4, <1>10, <1>11, <1>12
  <2> QED
    BY <1>8, <2>1, DecideKinds
<1>14. StartDelay(st, i, e) \subseteq Apply(st, e).violations
  BY <1>10, <1>11, <1>13
<1>15. Apply(st, e).violations \subseteq Turn(st, e).violations
  BY <1>1, RefreshSound DEF Turn, Extends
<1> QED
  BY <1>14, <1>15

\* An event dated now begins after a deadline that had passed at any time before.
LEMMA LateStart ==
  ASSUME NEW n \in Nat, NEW st, Sound(st, n), NEW i \in InState(st, "READY"),
         NEW time \in Moments, NEW now \in 0 .. time, NEW e, e.started = time,
         Above(now - st.ready[i], Steps[i].maxDelay)
  PROVE  StartDelay(st, i, e) = {Violation("TIMEOUT", i, e.id)}
<1>1. i \in StepIds /\ st.steps[i].state = "READY"
  BY DEF InState
<1>2. st.ready[i] \in Moments
  <2>1. st.ready[i] \in Moments \cup {None} /\ st.ready[i] # None
    BY <1>1, StateFields DEF Sound, StepSound
  <2> QED
    BY <2>1
<1> DEFINE before == now - st.ready[i]
           delay == e.started - st.ready[i]
<1>3. before \in Int /\ delay \in Int /\ before <= delay
  BY <1>2, BoundsAssumption DEF Moments
<1> HIDE DEF before
<1>4. /\ Steps[i].maxDelay \in Nat /\ before > Steps[i].maxDelay
      /\ Steps[i].minDelay \in Nat \cup {None}
      /\ Steps[i].minDelay # None => Steps[i].minDelay <= Steps[i].maxDelay
  BY <1>1, StepFacts DEF Above, Bound, before
<1> HIDE DEF delay
<1>5. ~ Below(delay, Steps[i].minDelay)
  BY <1>3, <1>4 DEF Below
<1>6. Above(delay, Steps[i].maxDelay)
  BY <1>3, <1>4, NoneAssumption DEF Above
<1> QED
  BY <1>5, <1>6 DEF StartDelay, delay

\* A step that a tick reported late keeps its TIMEOUT when it is completed.
LEMMA LateStays ==
  ASSUME RulesInv, RulesInv', [Next]_vars, NEW i \in StepIds,
         result # None, events' # events,
         Violation("TIMEOUT", i, None) \in result.violations,
         result'.steps[i] = Standing("COMPLETED", Len(events')),
         Last(events').started = clock
  PROVE  Violation("TIMEOUT", i, Len(events')) \in result'.violations
<1> DEFINE st == Replay(events)
           next == Replay(events')
           n == Len(events)
<1>1. /\ events \in Seq(Event) /\ n \in Nat /\ Sound(st, n)
      /\ \A k \in DOMAIN events : events[k].id = k
      /\ events' \in Seq(Event) /\ Sound(next, Len(events'))
  BY DEF RulesInv, Taken
<1>2. PICK e \in Candidates : Ingest(e)
  <2>1. \A t, k : ~FrameTick(t) /\ ~FrameActions(t, k)
    BY DEF FrameTick, FrameActions
  <2>2. \A q : ~QualityPoll(q)
    BY DEF QualityPoll
  <2>3. ~QualityRecord /\ ~Finish /\ ~UNCHANGED vars
    BY DEF QualityRecord, Finish, vars
  <2>4. \A k : ~Deliver(k)
    BY DEF Deliver
  <2> QED
    BY <2>1, <2>2, <2>3, <2>4, Zenon DEF Next
<1>3. /\ events' = Append(events, e) /\ frame > 0
      /\ result' = Evaluate(events', incidents', Ended(e), FALSE)
  BY <1>2 DEF Ingest, Report
<1>4. e \in Event /\ e.id = n + 1
  BY <1>3, CandidateEvent DEF RulesInv
<1>5. next = Turn(st, e) /\ Len(events') = e.id
  BY <1>1, <1>3, <1>4, TakeEvent
<1>6. e.started = clock
  <2>1. Last(events') = e
    BY <1>1, <1>3 DEF Last
  <2> QED
    BY <2>1
<1>7. next.steps[i] = Standing("COMPLETED", e.id)
  <2>1. result'.steps[i].event # None
    BY <1>4, <1>5, EventFacts DEF Standing
  <2>2. result'.steps[i] = next.steps[i]
    <3>1. Sound(next, Len(events'))
      BY <1>1
    <3>2. PICK external, now, fin : result' = Evaluate(events', external, now, fin)
      BY ResultChanges
    <3>3. \A j \in StepIds : result'.steps[j].event # None => result'.steps[j] = next.steps[j]
      BY <3>1, <3>2, EvaluateKeeps
    <3> QED
      BY <2>1, <3>3
  <2> QED
    BY <1>5, <2>2
<1>8. PICK now \in 0 .. clock : i \in Late(events, now)
  <2>1. PICK external \in SUBSET Incidents, now \in 0 .. clock, fin \in BOOLEAN :
          result = Evaluate(events, external, now, fin)
    BY LastResult
  <2>2. Violation("TIMEOUT", i, None) \in Raises(events, external, now, fin)
    BY <2>1, EvaluateFields
  <2>3. /\ Violation("TIMEOUT", i, None).event = None
        /\ Violation("TIMEOUT", i, None).step = i
        /\ Violation("TIMEOUT", i, None).rule = "TIMEOUT"
    BY DEF Violation
  <2>4. i \in Late(events, now)
    <3> HIDE DEF st
    <3> QED
      BY <1>1, <2>2, <2>3, EventlessViolations DEF st
  <2> QED
    BY <2>4
<1>9. i \in InState(st, "READY") /\ Above(now - st.ready[i], Steps[i].maxDelay)
  BY <1>8 DEF Late, Overdue
<1>10. StartDelay(st, i, e) = {Violation("TIMEOUT", i, e.id)}
  <2>1. clock \in Moments
    BY DEF RulesInv, Running
  <2> HIDE DEF st, n
  <2> QED
    BY <1>1, <1>6, <1>8, <1>9, <2>1, LateStart
<1>11. StartDelay(st, i, e) \subseteq next.violations
  <2>1. st.steps[i].event = None
    BY <1>1, <1>9 DEF InState, Sound, StepSound, Decided
  <2> HIDE DEF st, next, n
  <2> QED
    BY <1>1, <1>4, <1>5, <1>7, <2>1, TurnCompletes
<1>12. next.violations \subseteq result'.violations
  BY <1>1, <1>3, EvaluateKeeps
<1> QED
  BY <1>5, <1>10, <1>11, <1>12

\* For every rule set and every sequence of events, ticks and incidents: what an
\* event has decided is never taken back by a later RuleEngine.evaluate, and a
\* step reported late that is completed now keeps its TIMEOUT.
THEOREM VerdictsAreKept == Spec => VerdictsKept
<1>1. Init => RulesInv
  BY RulesInit
<1>2. RulesInv /\ [Next]_vars => RulesInv'
  BY RulesStep
<1>3. RulesInv /\ RulesInv' /\ [Next]_vars
        => [result # None =>
             /\ \A i \in StepIds : result.steps[i].event # None
                  => result'.steps[i] = result.steps[i]
             /\ \A v \in result.violations : v.event # None => v \in result'.violations]_vars
  BY VerdictStays
<1>4. RulesInv /\ RulesInv' /\ [Next]_vars
        => [\A i \in StepIds :
             /\ result # None /\ events' # events
             /\ Violation("TIMEOUT", i, None) \in result.violations
             /\ result'.steps[i] = Standing("COMPLETED", Len(events'))
             /\ Last(events').started = clock
             => Violation("TIMEOUT", i, Len(events')) \in result'.violations]_vars
  BY LateStays
<1> QED
  BY <1>1, <1>2, <1>3, <1>4, PTL DEF Spec, VerdictsKept, VerdictsStay, LateKeepsTimeout
=============================================================================
