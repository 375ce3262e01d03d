--------------------------- MODULE RealtimeRules ---------------------------
(***************************************************************************)
(* RuleEngine.evaluate and the RealtimeRuleSession that calls it anew for  *)
(* every action, tick and incident, and reports what changed.              *)
(*                                                                         *)
(* Two threads use a session: the inference worker (actions and ticks) and *)
(* the quality thread (incidents).  Each evaluation is one step, under the *)
(* session's lock; the deltas it returns reach the audit later, when the   *)
(* thread calls _handle_update.  Whoever reads the updates back, crash     *)
(* recovery and the step rows in SQL, folds those deltas.                  *)
(*                                                                         *)
(* Times are milliseconds in a coarse unit.  The object class and the two  *)
(* zones an action is compared by are one attribute, its zone; a step has  *)
(* at most one business rule.  Severities have their default values.       *)
(* A definition named <Name>_<Bug> is used by the mutation runs only.      *)
(***************************************************************************)
EXTENDS Integers, Sequences, SequencesExt

CONSTANTS Steps,      \* rule_set.steps, in order
          None,
          Actions, Zones, Confidences,
          Kinds,      \* what the recognizers emit: action, zone, confidence
          Incidents,  \* rule ids of session quality incidents
          Horizon,    \* bound on the time of a frame
          MaxEvents   \* bound on the actions of a session

StepIds == 1 .. Len(Steps)
Ids == 1 .. MaxEvents

\* RuleSet.validate_references; a bound is None where it is not configured.
Bound == Nat \cup {None}
ASSUME StepsAssumption ==
  Steps \in Seq([action : Actions, zone : Zones \cup {None},
                 predecessors : SUBSET StepIds, required : BOOLEAN,
                 minConfidence : Confidences,
                 minDuration : Bound, maxDuration : Bound,
                 minDelay : Bound, maxDelay : Bound,
                 rule : Zones \cup {None}])
\* StepDefinition.validate_temporal_ranges.
ASSUME RangesAssumption ==
  \A i \in DOMAIN Steps :
    /\ None \notin {Steps[i].minDuration, Steps[i].maxDuration}
         => Steps[i].minDuration <= Steps[i].maxDuration
    /\ None \notin {Steps[i].minDelay, Steps[i].maxDelay}
         => Steps[i].minDelay <= Steps[i].maxDelay
ASSUME NoneAssumption == None \notin Nat
ASSUME BoundsAssumption == Horizon \in Nat /\ MaxEvents \in Nat
ASSUME KindsAssumption ==
  Kinds \subseteq [action : Actions, zone : Zones, confidence : Confidences]

VARIABLES
  events,    \* _events, in the order of arrival
  incidents, \* _external_violations
  result,    \* _last_result
  clock,     \* _last_timestamp_ms of the runtime
  frame,     \* actions of the current frame set still to be ingested
  polled,    \* the time the quality thread read for its incident
  outbox,    \* per thread: deltas returned to it and not yet delivered
  audit,     \* the deltas folded in the order they were delivered
  finished,  \* finish() was called
  mixed      \* history: both threads held undelivered deltas at one time

vars == <<events, incidents, result, clock, frame, polled, outbox, audit,
          finished, mixed>>

Threads == {"worker", "quality"}

(***************************************************************************)
(* The engine: a fold over the events in sequence order.                   *)
(***************************************************************************)
Standing(state, event) == [state |-> state, event |-> event]
Violation(rule, i, event) == [rule |-> rule, step |-> i, event |-> event]

Below(x, bound) == bound # None /\ x < bound
Above(x, bound) == bound # None /\ x > bound
Least(S) == CHOOSE x \in S : \A y \in S : x <= y
Latest(S) == CHOOSE x \in S : \A y \in S : x >= y

Ended(e) == IF e.ended = None THEN e.started ELSE e.ended
Weak(i, e) == e.confidence < Steps[i].minConfidence
Mismatch(i, e) == Steps[i].zone \notin {None, e.zone}
Caught(i, e) == Steps[i].rule \notin {None, e.zone}

Fresh ==
  [steps |-> [i \in StepIds |->
     Standing(IF Steps[i].predecessors = {} THEN "READY" ELSE "PENDING", None)],
   violations |-> {}, ordered |-> {},
   completed |-> [i \in StepIds |-> None],
   ready |-> [i \in StepIds |-> IF Steps[i].predecessors = {} THEN 0 ELSE None]]

InState(st, state) == {i \in StepIds : st.steps[i].state = state}
Completed(st) == {i \in StepIds : st.completed[i] # None}

Duration(i, e) ==
  LET bounds == {Steps[i].minDuration, Steps[i].maxDuration}
      length == e.ended - e.started IN
  /\ bounds # {None}
  /\ \/ e.ended = None
     \/ Below(length, Steps[i].minDuration) \/ Above(length, Steps[i].maxDuration)

StartDelay(st, i, e) ==
  LET delay == e.started - st.ready[i] IN
  IF Below(delay, Steps[i].minDelay) THEN {Violation("START-DELAY", i, e.id)}
  ELSE IF Above(delay, Steps[i].maxDelay) THEN {Violation("TIMEOUT", i, e.id)}
  ELSE {}

Complete(st, i, e) ==
  [st EXCEPT
     !.steps[i] = Standing("COMPLETED", e.id),
     !.completed[i] = Ended(e),
     !.violations = @ \cup StartDelay(st, i, e)
       \cup (IF Duration(i, e) THEN {Violation("TEMPORAL", i, e.id)} ELSE {})]

\* The first candidate that the event decides; a mismatch that no business rule
\* names leaves it to the next one.
Decide(st, i, e) ==
  IF Weak(i, e) THEN [st EXCEPT !.steps[i] = Standing("UNKNOWN", e.id)]
  ELSE IF Mismatch(i, e)
  THEN [st EXCEPT !.steps[i] = Standing("VIOLATED", e.id),
                  !.violations = @ \cup {Violation("RULE", i, e.id)}]
  ELSE Complete(st, i, e)

OutOfOrder(st, e) ==
  LET early == {i \in InState(st, "PENDING") :
                  /\ Steps[i].action = e.action
                  /\ ~Weak(i, e) /\ ~Mismatch(i, e)
                  /\ Steps[i].predecessors \ Completed(st) # {}}
      i == Least(early) IN
  IF early = {} \/ i \in st.ordered THEN st
  ELSE [st EXCEPT !.ordered = @ \cup {i},
                  !.violations = @ \cup {Violation("ORDER", i, e.id)}]

Apply(st, e) ==
  LET candidates == {i \in InState(st, "READY") : Steps[i].action = e.action}
      deciding == {i \in candidates :
                     Weak(i, e) \/ ~Mismatch(i, e) \/ Caught(i, e)} IN
  IF candidates = {} THEN OutOfOrder(st, e)
  ELSE IF deciding = {} THEN st ELSE Decide(st, Least(deciding), e)

Opened(st) ==
  {i \in InState(st, "PENDING") : Steps[i].predecessors \subseteq Completed(st)}

Refresh(st) ==
  LET opened == Opened(st) IN
  IF opened = {} THEN st ELSE
  [st EXCEPT
     !.steps = [i \in StepIds |->
                  IF i \in opened THEN Standing("READY", None) ELSE @[i]],
     !.ready = [i \in StepIds |->
                  IF i \in opened
                  THEN Latest({st.completed[p] :
                                 p \in Steps[i].predecessors \cap Completed(st)})
                  ELSE @[i]]]

\* sorted() by a key: what compares equal keeps its order.
SortedBy(Key(_), es) ==
  LET Before(j, k) == Key(es[j]) < Key(es[k]) \/ (Key(es[j]) = Key(es[k]) /\ j < k)
      place == CHOOSE p \in [DOMAIN es -> DOMAIN es] :
                 \A j, k \in DOMAIN es : j < k => Before(p[j], p[k]) IN
  [k \in DOMAIN es |-> es[place[k]]]

\* Bug: events are replayed by the time they started.
Ordered_ByStart(es) == SortedBy(LAMBDA e : e.started, es)

\* The composite recognizer numbers events and ids alike.
Ordered(es) == SortedBy(LAMBDA e : e.id, es)

Replay(es) == FoldLeft(LAMBDA st, e : Refresh(Apply(st, e)), Fresh, Ordered(es))

Overdue(st, now) ==
  {i \in InState(st, "READY") : Above(now - st.ready[i], Steps[i].maxDelay)}

\* Bug: a step that timed out is missing as well.
Unfinished_AlsoLate(st, now) ==
  {i \in StepIds :
     /\ Steps[i].required
     /\ st.steps[i].state \notin {"COMPLETED", "VIOLATED", "UNKNOWN"}}

Unfinished(st, now) ==
  {i \in StepIds \ Overdue(st, now) :
     /\ Steps[i].required
     /\ st.steps[i].state \notin {"COMPLETED", "VIOLATED", "UNKNOWN"}}

\* Violations raised by the end of time, not by an event: session-timeout and
\* session-finalize.
Raised(rule, S) == {Violation(rule, i, None) : i \in S}

Evaluate(es, external, now, finalize) ==
  LET st == Replay(es)
      late == Overdue(st, now)
      missing == IF finalize THEN Unfinished(st, now) ELSE {} IN
  [steps |-> [i \in StepIds |-> IF i \in late \cup missing
                                THEN Standing("VIOLATED", None) ELSE st.steps[i]],
   violations |-> st.violations \cup Raised("TIMEOUT", late)
                    \cup Raised("MISSING", missing)
                    \cup {Violation(q, None, None) : q \in external}]

(***************************************************************************)
(* The realtime session.                                                   *)
(***************************************************************************)
NoDelta == [steps |-> <<>>, violations |-> {}]
Overlay(older, newer) ==
  [steps |-> [i \in DOMAIN older.steps \cup DOMAIN newer.steps |->
                IF i \in DOMAIN newer.steps THEN newer.steps[i] ELSE older.steps[i]],
   violations |-> older.violations \cup newer.violations]

\* Bug: a step that has only been opened is not reported.
Delta_NotOpened(old, new) ==
  IF old = None THEN new
  ELSE [steps |-> [i \in {j \in StepIds : /\ old.steps[j] # new.steps[j]
                                         /\ new.steps[j].state # "READY"} |-> new.steps[i]],
        violations |-> new.violations \ old.violations]

\* changed_steps and new_violations.
Delta(old, new) ==
  IF old = None THEN new
  ELSE [steps |-> [i \in {j \in StepIds : old.steps[j] # new.steps[j]} |-> new.steps[i]],
        violations |-> new.violations \ old.violations]

Report(thread, now) ==
  /\ result' = Evaluate(events', incidents', now, FALSE)
  /\ outbox' = [outbox EXCEPT ![thread] = Overlay(@, Delta(result, result'))]
  /\ mixed' = (mixed \/ \E other \in Threads \ {thread} : outbox[other] # NoDelta)

Init ==
  /\ events = <<>> /\ incidents = {} /\ result = None
  /\ clock = 0 /\ frame = 0 /\ polled = None
  /\ outbox = [k \in Threads |-> NoDelta]
  /\ audit = NoDelta
  /\ finished = FALSE /\ mixed = FALSE

\* Action events of the current frame set.  Observations of one camera may be
\* older than the frame set, and an event without observations is dated 0.
Spans == {t \in {0, clock - 1, clock} \X {None, clock - 1, clock} :
            t[2] = None \/ t[1] <= t[2]}
\* Bug: the number is taken before it is advanced.
Candidates_Unadvanced ==
  {[id |-> Len(events), action |-> k.action, zone |-> k.zone,
    confidence |-> k.confidence, started |-> t[1], ended |-> t[2]] :
     k \in Kinds, t \in Spans}

Candidates ==
  {[id |-> Len(events) + 1, action |-> k.action, zone |-> k.zone,
    confidence |-> k.confidence, started |-> t[1], ended |-> t[2]] :
     k \in Kinds, t \in Spans}

\* process_frame_set without actions: a tick.
FrameTick(t) ==
  /\ ~finished /\ frame = 0 /\ outbox["worker"] = NoDelta
  /\ t > clock /\ t <= Horizon
  /\ clock' = t
  /\ UNCHANGED <<events, incidents, frame, polled, audit, finished>>
  /\ Report("worker", t)

\* process_frame_set with n actions, which are ingested one by one.
FrameActions(t, n) ==
  /\ ~finished /\ frame = 0 /\ outbox["worker"] = NoDelta
  /\ t > clock /\ t <= Horizon
  /\ n \in 1 .. MaxEvents - Len(events)
  /\ clock' = t /\ frame' = n
  /\ UNCHANGED <<events, incidents, result, polled, outbox, audit, finished,
                 mixed>>

\* ingest(): evaluated at the end of the event, whatever was evaluated before.
\* The recognizers never repeat a number, so that every event is kept.
Ingest(e) ==
  /\ frame > 0
  /\ events' = Append(events, e)
  /\ frame' = frame - 1
  /\ UNCHANGED <<incidents, clock, polled, audit, finished>>
  /\ Report("worker", Ended(e))

\* The quality thread has found an incident and read the runtime's clock.
QualityPoll(q) ==
  /\ ~finished /\ polled = None /\ outbox["quality"] = NoDelta
  /\ q \notin incidents
  /\ polled' = [rule |-> q, now |-> clock]
  /\ UNCHANGED <<events, incidents, result, clock, frame, outbox, audit,
                 finished, mixed>>

\* record_external_violation.
QualityRecord ==
  /\ polled # None
  /\ incidents' = incidents \cup {polled.rule}
  /\ polled' = None
  /\ UNCHANGED <<events, clock, frame, audit, finished>>
  /\ Report("quality", polled.now)

\* The thread's callback: _handle_update appends to updates.jsonl.
Deliver(k) ==
  /\ outbox[k] # NoDelta
  /\ k = "worker" => frame = 0
  /\ audit' = Overlay(audit, outbox[k])
  /\ outbox' = [outbox EXCEPT ![k] = NoDelta]
  /\ UNCHANGED <<events, incidents, result, clock, frame, polled, finished,
                 mixed>>

\* runtime.stop(): both threads are joined.
Finish ==
  /\ ~finished /\ frame = 0 /\ polled = None
  /\ \A k \in Threads : outbox[k] = NoDelta
  /\ finished' = TRUE
  /\ result' = Evaluate(events, incidents, clock, TRUE)
  /\ UNCHANGED <<events, incidents, clock, frame, polled, outbox, audit, mixed>>

Next ==
  \/ \E t \in 1 .. Horizon : FrameTick(t) \/ \E n \in Ids : FrameActions(t, n)
  \/ \E e \in Candidates : Ingest(e)
  \/ \E q \in Incidents : QualityPoll(q)
  \/ QualityRecord
  \/ \E k \in Threads : Deliver(k)
  \/ Finish

Spec == Init /\ [][Next]_vars

(***************************************************************************)
(* Properties.                                                             *)
(***************************************************************************)
Rules == {"START-DELAY", "TIMEOUT", "TEMPORAL", "RULE", "ORDER", "MISSING"}
Standings == [state : {"PENDING", "READY", "COMPLETED", "VIOLATED", "UNKNOWN"},
              event : Ids \cup {None}]
ViolationKeys == [rule : Rules \cup Incidents, step : StepIds \cup {None},
                  event : Ids \cup {None}]

\* Every variable keeps its type.
TypeOK ==
  /\ Len(events) <= MaxEvents
  /\ \A k \in DOMAIN events : events[k].id = k /\ events[k].started \in 0 .. clock
  /\ incidents \subseteq Incidents
  /\ result \in {None} \cup [steps : [StepIds -> Standings],
                            violations : SUBSET ViolationKeys]
  /\ clock \in 0 .. Horizon /\ frame \in 0 .. MaxEvents
  /\ polled \in {None} \cup [rule : Incidents, now : 0 .. Horizon]
  /\ \A d \in {audit} \cup {outbox[k] : k \in Threads} :
       /\ DOMAIN d.steps \subseteq StepIds
       /\ \A i \in DOMAIN d.steps : d.steps[i] \in Standings
       /\ d.violations \subseteq ViolationKeys
  /\ finished \in BOOLEAN /\ mixed \in BOOLEAN

\* Folding what was delivered gives the steps and violations of the last result
\* as soon as nothing is on its way, if the two threads never had deltas on
\* their way together: changed_steps and new_violations leave nothing out.
Settled == result # None /\ \A k \in Threads : outbox[k] = NoDelta
DeltasComplete ==
  Settled /\ ~finished /\ ~mixed =>
    /\ audit.steps = result.steps
    /\ result.violations \subseteq audit.violations

\* At the end each violated step has exactly one reason, and every required
\* step has a verdict: a step that timed out is not missing as well.
Reasons(i) == {v \in result.violations : v.step = i /\ v.rule \in {"TIMEOUT", "MISSING", "RULE"}}
OneVerdict ==
  finished => \A i \in StepIds :
    LET state == result.steps[i].state
        reasons == {v \in Reasons(i) : v.event = result.steps[i].event} IN
    /\ state = "VIOLATED" => \E v \in reasons : reasons = {v}
    /\ Steps[i].required => state \in {"COMPLETED", "VIOLATED", "UNKNOWN"}

\* What the rules say is sound: a completed step has its predecessors completed,
\* in every result, and at the end there is one verdict per step.
PredecessorsFirst ==
  result # None => \A i \in StepIds : result.steps[i].state = "COMPLETED" =>
    \A p \in Steps[i].predecessors : result.steps[p].state = "COMPLETED"
SoundResult == PredecessorsFirst /\ OneVerdict

\* Every evaluation replays the whole session, yet what an event has decided
\* stays: a step's verdict and a violation with an event are never withdrawn,
\* whatever time the evaluation is made for.
VerdictsStay ==
  [][result # None =>
       /\ \A i \in StepIds : result.steps[i].event # None
            => result'.steps[i] = result.steps[i]
       /\ \A v \in result.violations : v.event # None => v \in result'.violations]_vars

\* An action that begins late completes its step and keeps the TIMEOUT: when a
\* tick has reported that the deadline passed, an event dated at the current
\* frame is late too, for the two compare with the same boundary.
LateKeepsTimeout ==
  [][\A i \in StepIds :
       /\ result # None /\ events' # events
       /\ Violation("TIMEOUT", i, None) \in result.violations
       /\ result'.steps[i] = Standing("COMPLETED", Len(events'))
       /\ Last(events').started = clock
       => Violation("TIMEOUT", i, Len(events')) \in result'.violations]_vars

\* What the rules have said is not taken back, and what is late stays late.
VerdictsKept == VerdictsStay /\ LateKeepsTimeout
=============================================================================
