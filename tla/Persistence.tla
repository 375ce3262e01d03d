---------------------------- MODULE Persistence ----------------------------
(***************************************************************************)
(* The audit files, the query store derived from them, and the pass that   *)
(* reconciles the two while sessions and reviews go on.                    *)
(*                                                                         *)
(* The audit directory of a session is the source of truth: metadata.json, *)
(* updates.jsonl, reviews.jsonl and, once it has ended, final.json.  The   *)
(* query store (SQL) gets every fact second and on a best-effort basis:    *)
(* ResilientSessionStore swallows its errors and keeps a reconciliation    *)
(* status.  A reconciliation pass compares each closed session with its    *)
(* rows and rebuilds them, one transaction at a time, when they differ.    *)
(*                                                                         *)
(* A fact stands for an action id, a step code or a violation identity     *)
(* (rule, step, event): what the consistency check compares.  The writer   *)
(* is the one running session; SessionController models its threads.       *)
(*                                                                         *)
(* A definition named <Name>_<Bug> is that definition with a plausible     *)
(* bug; only the mutation runs use it.                                     *)
(***************************************************************************)
EXTENDS Naturals, FiniteSets

CONSTANTS Sessions, Reviewers, Passes, None,
          Actions,      \* facts that final.json does not repeat
          Violations,   \* facts that final.json repeats and reviews decide on
          Incident,     \* SYSTEM-QUALITY-AUDIT, added when final.json fails
          Recovery,     \* SYSTEM-QUALITY-RECOVERY, added by crash recovery
          Decisions,    \* of a reviewer: CONFIRMED, DISMISSED
          ForeignKeys,  \* the database enforces them: PostgreSQL, not SQLite
          TornWrites,   \* a failed write or a crash may leave half a record
          MaxFaults     \* bound on failed writes, failed reads and crashes

Emitted == Actions \cup Violations
Facts == Emitted \cup {Incident, Recovery}
Terminal == {"COMPLETED", "ABORTED"}
Status == Terminal \cup {"RUNNING"}
ReconciliationStatus == {"NEVER", "READY", "DIRTY", "RUNNING", "DEGRADED"}

ASSUME FactsAssumption ==
  /\ Incident \notin Emitted /\ Recovery \notin Emitted
  /\ Incident # Recovery
  /\ IsFiniteSet(Emitted)
ASSUME NoneAssumption == None \notin Sessions \cup Status \cup Decisions \cup {"torn"}
ASSUME BoundAssumption == MaxFaults \in Nat
ASSUME SwitchAssumption == ForeignKeys \in BOOLEAN /\ TornWrites \in BOOLEAN

VARIABLES
  files,   \* per session: its audit directory
  table,   \* per session: its row and child rows in the query store
  recon,   \* status of ReconciliationHealth
  busy,    \* _reconcile_lock is held
  writer,  \* the running session's thread in the controller
  review,  \* per reviewer: the request it is serving
  pass,    \* per caller of reconcile: its progress
  faults,  \* failures so far
  masked,  \* history: since the last pass began, a write was lost in a way the
           \* status cannot show
  raced    \* history: the sessions recovered on a check that was overtaken

vars == <<files, table, recon, busy, writer, review, pass, faults, masked, raced>>

NoReviews == [v \in Violations |-> None]
NoWriter == [pc |-> "idle", sid |-> None, fact |-> None, status |-> "RUNNING",
             emitted |-> {}]
NoReview == [pc |-> "idle", sid |-> None, fact |-> None, decision |-> None,
             fresh |-> FALSE]
NoPass == [pc |-> "idle", sid |-> None, todo |-> {}, clean |-> TRUE, found |-> {}]

Init ==
  /\ files = [s \in Sessions |->
                [open |-> FALSE, updates |-> {}, torn |-> FALSE,
                 final |-> None, facts |-> {}, reviews |-> NoReviews]]
  /\ table = [s \in Sessions |->
                [status |-> None, facts |-> {}, reviews |-> NoReviews]]
  /\ recon = "NEVER" /\ busy = FALSE
  /\ writer = NoWriter
  /\ review = [r \in Reviewers |-> NoReview]
  /\ pass = [p \in Passes |-> NoPass]
  /\ faults = 0 /\ masked = FALSE /\ raced = {}

Fault == faults < MaxFaults /\ faults' = faults + 1
NoFault == UNCHANGED faults

\* The rows hold what the files say, and nothing else.
Consistent(s) ==
  /\ table[s].status = files[s].final
  /\ table[s].facts = files[s].updates \cup files[s].facts
  /\ table[s].reviews = files[s].reviews

PassUnderway ==
  \E p \in Passes : pass[p].pc \notin {"idle", "checked", "read", "recovered"}

(***************************************************************************)
(* A best-effort transaction on the rows of s.  An error makes the         *)
(* reconciliation DIRTY, except while a pass is RUNNING.                   *)
(***************************************************************************)
\* Bug: the status forgets that a write was lost.
MarkWriteError_Silent ==
  /\ UNCHANGED recon
  /\ masked' = (masked \/ PassUnderway)

MarkWriteError ==
  /\ recon' = IF recon = "RUNNING" THEN recon ELSE "DIRTY"
  /\ masked' = (masked \/ PassUnderway)

Store(s, allowed, rows) ==
  \/ /\ allowed /\ table' = [table EXCEPT ![s] = rows]
     /\ NoFault /\ UNCHANGED <<recon, masked>>
  \/ /\ ~allowed /\ NoFault /\ MarkWriteError /\ UNCHANGED table
  \/ Fault /\ MarkWriteError /\ UNCHANGED table

\* A child row needs its session row where foreign keys are enforced.
HasParent(s) == table[s].status # None \/ ~ForeignKeys
WithFacts(s, added) == [table[s] EXCEPT !.facts = @ \cup added]
\* UPDATE ... WHERE session_id: no effect without the row.
WithStatus(rows, status) ==
  IF rows.status = None THEN rows ELSE [rows EXCEPT !.status = status]

(***************************************************************************)
(* The running session.                                                    *)
(***************************************************************************)
\* The recoveries of s that have come so far.
At(pc, s) == {p \in Passes : pass[p].pc = pc /\ pass[p].sid = s}

Open(s) ==
  /\ writer.pc = "idle" /\ ~files[s].open
  /\ files' = [files EXCEPT ![s].open = TRUE]
  /\ writer' = [NoWriter EXCEPT !.pc = "start", !.sid = s]
  /\ raced' = IF At("checked", s) # {} THEN raced \cup {s} ELSE raced
  /\ UNCHANGED <<table, recon, busy, review, pass, faults, masked>>

StartSession ==
  /\ writer.pc = "start"
  /\ Store(writer.sid, table[writer.sid].status = None,
           [table[writer.sid] EXCEPT !.status = "RUNNING"])
  /\ writer' = [writer EXCEPT !.pc = "running"]
  /\ UNCHANGED <<files, busy, review, pass, raced>>

\* runtime.start() fails, and so does writing final.json: the session is gone and
\* looks like one whose process died.
StartRaises ==
  /\ writer.pc = "running" /\ writer.emitted = {}
  /\ Fault
  /\ \/ UNCHANGED files
     \/ TornWrites /\ files' = [files EXCEPT ![writer.sid].final = "torn"]
  /\ writer' = NoWriter
  /\ UNCHANGED <<table, recon, busy, review, pass, masked, raced>>

\* audit.append_payload: its errors are swallowed, the session goes on.  A write
\* that stops half way leaves a line that is not JSON.
AppendPayload(f) ==
  LET s == writer.sid IN
  /\ writer.pc = "running"
  /\ f \notin writer.emitted
  /\ \/ /\ files' = [files EXCEPT ![s].updates = @ \cup {f}]
        /\ NoFault
     \/ /\ UNCHANGED files
        /\ Fault
     \/ /\ TornWrites
        /\ files' = [files EXCEPT ![s].torn = TRUE]
        /\ Fault
  /\ writer' = [writer EXCEPT !.pc = "record", !.fact = f,
                              !.emitted = @ \cup {f}]
  /\ UNCHANGED <<table, recon, busy, review, pass, masked, raced>>

\* Scheduling the evidence of a violation comes next, and its error ends the
\* update: the inference worker swallows it, the store is never asked.
EvidenceFails ==
  /\ writer.pc = "record"
  /\ Fault
  /\ masked' = TRUE
  /\ writer' = [writer EXCEPT !.pc = "running", !.fact = None]
  /\ UNCHANGED <<files, table, recon, busy, review, pass, raced>>

RecordUpdate ==
  LET s == writer.sid IN
  /\ writer.pc = "record"
  /\ Store(s, HasParent(s), WithFacts(s, {writer.fact}))
  /\ writer' = [writer EXCEPT !.pc = "running", !.fact = None]
  /\ UNCHANGED <<files, busy, review, pass, raced>>

\* What the in-memory rule result repeats in final.json.
Known == writer.emitted \ Actions

\* audit.finish writes final.json in place.
WriteFinal(status) ==
  LET s == writer.sid IN
  /\ writer.pc = "running"
  /\ files' = [files EXCEPT ![s].final = status, ![s].facts = Known]
  /\ writer' = [writer EXCEPT !.pc = "index", !.status = status]
  /\ UNCHANGED <<table, recon, busy, review, pass, faults, masked, raced>>

\* When that write fails the incident goes to the query store and the session
\* still ends.
WriteFinalFails(status) ==
  LET s == writer.sid IN
  /\ writer.pc = "running"
  /\ Fault
  /\ \/ UNCHANGED files
     \/ TornWrites /\ files' = [files EXCEPT ![s].final = "torn"]
  /\ writer' = [writer EXCEPT !.pc = "incident", !.status = status,
                              !.emitted = @ \cup {Incident}]
  /\ UNCHANGED <<table, recon, busy, review, pass, masked, raced>>

RecordIncident ==
  LET s == writer.sid IN
  /\ writer.pc = "incident"
  /\ Store(s, HasParent(s), WithFacts(s, {Incident}))
  /\ writer' = [writer EXCEPT !.pc = "index"]
  /\ UNCHANGED <<files, busy, review, pass, raced>>

\* Its evidence or its callback raises: stop() fails, the session goes on, and the
\* next stop() knows nothing of the incident.
IncidentRaises ==
  /\ writer.pc = "index" /\ Incident \in writer.emitted
  /\ Fault
  /\ writer' = [writer EXCEPT !.pc = "running", !.status = "RUNNING",
                              !.emitted = @ \ {Incident}]
  /\ UNCHANGED <<files, table, recon, busy, review, pass, masked, raced>>

Finalize ==
  LET s == writer.sid IN
  /\ writer.pc = "index"
  /\ Store(s, HasParent(s) \/ Known = {},
           WithStatus(WithFacts(s, Known), writer.status))
  /\ writer' = NoWriter
  /\ UNCHANGED <<files, busy, review, pass, raced>>

(***************************************************************************)
(* Review of a violation: find its row id, append to the audit, update the *)
(* row by id.                                                              *)
(***************************************************************************)
ReviewLookup(r, s, v, d) ==
  /\ review[r].pc = "idle"
  /\ table[s].status # None /\ v \in table[s].facts
  /\ review' = [review EXCEPT ![r] = [pc |-> "append", sid |-> s, fact |-> v,
                                      decision |-> d, fresh |-> TRUE]]
  /\ UNCHANGED <<files, table, recon, busy, writer, pass, faults, masked, raced>>

ReviewAppend(r) ==
  LET j == review[r] IN
  /\ j.pc = "append"
  /\ files' = [files EXCEPT ![j.sid].reviews[j.fact] = j.decision]
  /\ review' = [review EXCEPT ![r].pc = "update"]
  /\ UNCHANGED <<table, recon, busy, writer, pass, faults, masked, raced>>

\* An append error ends the request.
ReviewAppendFails(r) ==
  /\ review[r].pc = "append"
  /\ Fault
  /\ review' = [review EXCEPT ![r] = NoReview]
  /\ UNCHANGED <<files, table, recon, busy, writer, pass, masked, raced>>

\* Marking the evidence of the violation comes next, and its error ends the
\* request: the store is never asked, and has nothing to report.
ReviewMarkFails(r) ==
  /\ review[r].pc = "update"
  /\ Fault
  /\ masked' = TRUE
  /\ review' = [review EXCEPT ![r] = NoReview]
  /\ UNCHANGED <<files, table, recon, busy, writer, pass, raced>>

\* The row was found by id: the decision is stored, though a later one may
\* already be in the files.
ReviewUpdate(r) ==
  LET j == review[r] IN
  /\ j.pc = "update" /\ j.fresh
  /\ \/ /\ table' = [table EXCEPT ![j.sid].reviews[j.fact] = j.decision]
        /\ masked' = (masked \/ files[j.sid].reviews[j.fact] # j.decision)
        /\ NoFault /\ UNCHANGED recon
     \/ Fault /\ MarkWriteError /\ UNCHANGED table
  /\ review' = [review EXCEPT ![r] = NoReview]
  /\ UNCHANGED <<files, busy, writer, pass, raced>>

\* A rebuild gave the violation another row id in between: the store returns
\* None, which counts as a success.
ReviewMissesRow(r) ==
  /\ review[r].pc = "update" /\ ~review[r].fresh
  /\ masked' = TRUE
  /\ review' = [review EXCEPT ![r] = NoReview]
  /\ UNCHANGED <<files, table, recon, busy, writer, pass, faults, raced>>

(***************************************************************************)
(* A reconciliation pass.                                                  *)
(***************************************************************************)
Step(p, pc) == pass' = [pass EXCEPT ![p].pc = pc]
\* The exception of one session is caught, and the pass goes on to the next.
SessionFails(p) == pass' = [pass EXCEPT ![p].pc = "scan", ![p].sid = None,
                                        ![p].clean = FALSE]
Unreadable(s) == files[s].torn \/ files[s].final = "torn"

PassBegin(p) ==
  /\ pass[p].pc \in {"idle", "recovered"} /\ ~busy
  /\ busy' = TRUE /\ recon' = "RUNNING"
  /\ masked' = PassUnderway
  /\ pass' = [pass EXCEPT ![p] = [NoPass EXCEPT !.pc = "scan",
                                    !.todo = {s \in Sessions : files[s].open}]]
  /\ UNCHANGED <<files, table, writer, review, faults, raced>>

\* reconcile_session: inspect one session and decide.
PassVisit(p, s) ==
  /\ pass[p].pc = "scan" /\ s \in pass[p].todo
  /\ LET unclean == Unreadable(s) \/ files[s].final = None
         visited == [pass[p] EXCEPT !.todo = @ \ {s}] IN
     pass' = [pass EXCEPT ![p] =
                IF unclean THEN [visited EXCEPT !.clean = FALSE]
                ELSE IF Consistent(s) THEN visited
                ELSE [visited EXCEPT !.pc = "delete", !.sid = s]]
  /\ UNCHANGED <<files, table, recon, busy, writer, review, faults, masked, raced>>

\* Reading its rows or its files fails.
PassVisitFails(p, s) ==
  /\ pass[p].pc = "scan" /\ s \in pass[p].todo
  /\ Fault
  /\ pass' = [pass EXCEPT ![p].todo = @ \ {s}, ![p].clean = FALSE]
  /\ UNCHANGED <<files, table, recon, busy, writer, review, masked, raced>>

\* Delete the session row; its child rows go with it, and their ids, where
\* foreign keys cascade.
PassDelete(p) ==
  LET s == pass[p].sid IN
  /\ pass[p].pc = "delete"
  /\ IF table[s].status = None THEN UNCHANGED <<table, review>>
     ELSE IF ForeignKeys
     THEN /\ table' = [table EXCEPT ![s] = [status |-> None, facts |-> {},
                                            reviews |-> NoReviews]]
          /\ review' = [r \in Reviewers |->
                          IF review[r].sid = s
                          THEN [review[r] EXCEPT !.fresh = FALSE] ELSE review[r]]
     ELSE /\ table' = [table EXCEPT ![s].status = None]
          /\ UNCHANGED review
  /\ Step(p, "insert")
  /\ UNCHANGED <<files, recon, busy, writer, faults, masked, raced>>

PassInsert(p) ==
  LET s == pass[p].sid IN
  /\ pass[p].pc = "insert"
  /\ IF table[s].status = None
     THEN table' = [table EXCEPT ![s].status = "RUNNING"] /\ Step(p, "replay")
     ELSE UNCHANGED table /\ SessionFails(p)
  /\ UNCHANGED <<files, recon, busy, writer, review, faults, masked, raced>>

\* One line of updates.jsonl per transaction; a fact already there is kept.
PassReplay(p) ==
  LET s == pass[p].sid
      missing == files[s].updates \ table[s].facts IN
  /\ pass[p].pc = "replay"
  /\ \/ /\ files[s].torn
        /\ UNCHANGED table /\ SessionFails(p)
     \/ /\ missing = {} /\ ~files[s].torn
        /\ UNCHANGED table /\ Step(p, "finalize")
     \/ \E f \in missing :
          table' = [table EXCEPT ![s] = WithFacts(s, {f})] /\ UNCHANGED pass
  /\ UNCHANGED <<files, recon, busy, writer, review, faults, masked, raced>>

PassFinalize(p) ==
  LET s == pass[p].sid IN
  /\ pass[p].pc = "finalize"
  /\ IF files[s].final = "torn"
     THEN UNCHANGED table /\ SessionFails(p)
     ELSE /\ table' = [table EXCEPT ![s] = WithStatus(WithFacts(s, files[s].facts),
                                                    files[s].final)]
          /\ Step(p, "reviews")
  /\ UNCHANGED <<files, recon, busy, writer, review, faults, masked, raced>>

\* reviews.jsonl is replayed by identity; the last line of a violation wins.
PassReviews(p) ==
  LET s == pass[p].sid
      behind == {v \in Violations \cap table[s].facts :
                   files[s].reviews[v] \notin {None, table[s].reviews[v]}} IN
  /\ pass[p].pc = "reviews"
  /\ \/ /\ behind = {}
        /\ UNCHANGED table /\ Step(p, "verify")
     \/ \E v \in behind :
          /\ table' = [table EXCEPT ![s].reviews[v] = files[s].reviews[v]]
          /\ UNCHANGED pass
  /\ UNCHANGED <<files, recon, busy, writer, review, faults, masked, raced>>

PassVerify(p) ==
  /\ pass[p].pc = "verify"
  /\ IF Consistent(pass[p].sid) /\ ~Unreadable(pass[p].sid)
     THEN pass' = [pass EXCEPT ![p].pc = "scan", ![p].sid = None]
     ELSE SessionFails(p)
  /\ UNCHANGED <<files, table, recon, busy, writer, review, faults, masked, raced>>

\* A transaction of the rebuild fails: what was committed before it stays.
PassSqlFails(p) ==
  /\ pass[p].pc \in {"delete", "insert", "replay", "finalize", "reviews",
                     "verify"}
  /\ Fault
  /\ SessionFails(p)
  /\ UNCHANGED <<files, table, recon, busy, writer, review, masked, raced>>

\* Bug: the lock is kept when the pass raises.
PassRaises_KeepsLock(p) ==
  /\ pass[p].pc = "scan"
  /\ Fault
  /\ recon' = "DEGRADED"
  /\ pass' = [pass EXCEPT ![p] = NoPass]
  /\ UNCHANGED <<files, table, busy, writer, review, masked, raced>>

\* The pass itself raises, for instance when the audit root cannot be listed.
PassRaises(p) ==
  /\ pass[p].pc = "scan"
  /\ Fault
  /\ recon' = "DEGRADED" /\ busy' = FALSE
  /\ pass' = [pass EXCEPT ![p] = NoPass]
  /\ UNCHANGED <<files, table, writer, review, masked, raced>>

\* The lock is released before the verdict is published.
PassRelease(p) ==
  /\ pass[p].pc = "scan" /\ pass[p].todo = {}
  /\ busy' = FALSE
  /\ Step(p, "publish")
  /\ UNCHANGED <<files, table, recon, writer, review, faults, masked, raced>>

PassPublish(p) ==
  /\ pass[p].pc = "publish"
  /\ recon' = IF pass[p].clean THEN "READY" ELSE "DIRTY"
  /\ pass' = [pass EXCEPT ![p] = NoPass]
  /\ UNCHANGED <<files, table, busy, writer, review, faults, masked, raced>>

(***************************************************************************)
(* Recovery of a session whose process died: is it not the running one; is *)
(* there no final.json, and what do the updates say; write it; then the    *)
(* caller reconciles.  No lock is held from one step to the next.          *)
(***************************************************************************)
\* current() waits for the controller's lock, which start() holds.  The session
\* need not exist yet.
RecoverCheck(p, s) ==
  /\ pass[p].pc = "idle" /\ writer.pc # "start" /\ writer.sid # s
  /\ pass' = [pass EXCEPT ![p].pc = "checked", ![p].sid = s]
  /\ UNCHANGED <<files, table, recon, busy, writer, review, faults, masked, raced>>

\* Bug: a session that has ended may be recovered again.
Recoverable_Closed(s) == files[s].open /\ ~files[s].torn

Recoverable(s) == files[s].open /\ files[s].final = None /\ ~files[s].torn

\* final.json.exists(), and the updates: no update is written once it exists.
RecoverRead(p) ==
  LET s == pass[p].sid IN
  /\ pass[p].pc = "checked"
  /\ pass' = [pass EXCEPT ![p] = IF Recoverable(s)
                 THEN [@ EXCEPT !.pc = "read", !.found = files[s].updates] ELSE NoPass]
  /\ UNCHANGED <<files, table, recon, busy, writer, review, faults, masked, raced>>

\* Another recovery of s has read the same, and its write is still to come.
Overtakes(p) ==
  LET s == pass[p].sid IN
  raced' = IF At("read", s) # {p} THEN raced \cup {s} ELSE raced

RecoverWrite(p) ==
  LET s == pass[p].sid IN
  /\ pass[p].pc = "read"
  /\ files' = [files EXCEPT ![s].final = "ABORTED",
                 ![s].facts = (pass[p].found \ Actions) \cup {Recovery}]
  /\ pass' = [pass EXCEPT ![p].pc = "recovered", ![p].found = {}]
  /\ Overtakes(p)
  /\ UNCHANGED <<table, recon, busy, writer, review, faults, masked>>

\* Writing final.json fails: the request ends there.
RecoverWriteFails(p) ==
  LET s == pass[p].sid IN
  /\ pass[p].pc = "read"
  /\ Fault
  /\ \/ UNCHANGED files
     \/ TornWrites /\ files' = [files EXCEPT ![s].final = "torn"]
  /\ pass' = [pass EXCEPT ![p] = NoPass]
  /\ Overtakes(p)
  /\ UNCHANGED <<table, recon, busy, writer, review, masked>>

\* Another pass holds the lock: the request fails after final.json was written.
RecoverRefused(p) ==
  /\ pass[p].pc = "recovered" /\ busy
  /\ masked' = TRUE
  /\ pass' = [pass EXCEPT ![p] = NoPass]
  /\ UNCHANGED <<files, table, recon, busy, writer, review, faults, raced>>

(***************************************************************************)
(* The process dies and starts again.  Files and committed transactions    *)
(* survive; a write in progress may be left half done.                     *)
(***************************************************************************)
Crash ==
  /\ Fault
  /\ \/ UNCHANGED files
     \/ /\ TornWrites /\ writer.pc = "running"
        /\ \/ files' = [files EXCEPT ![writer.sid].torn = TRUE]
           \/ files' = [files EXCEPT ![writer.sid].final = "torn"]
  /\ recon' = "NEVER" /\ busy' = FALSE
  /\ writer' = NoWriter
  /\ review' = [r \in Reviewers |-> NoReview]
  /\ pass' = [p \in Passes |-> NoPass]
  /\ masked' = FALSE
  /\ UNCHANGED <<table, raced>>

WriterStep ==
  \/ StartSession \/ StartRaises \/ EvidenceFails \/ RecordUpdate
  \/ RecordIncident \/ IncidentRaises \/ Finalize
  \/ \E f \in Emitted : AppendPayload(f)
  \/ \E status \in Terminal : WriteFinal(status) \/ WriteFinalFails(status)

ReviewStep(r) ==
  \/ ReviewAppend(r) \/ ReviewAppendFails(r) \/ ReviewMarkFails(r)
  \/ ReviewUpdate(r) \/ ReviewMissesRow(r)

PassStep(p) ==
  \/ \E s \in Sessions : PassVisit(p, s) \/ PassVisitFails(p, s)
  \/ PassDelete(p) \/ PassInsert(p) \/ PassReplay(p) \/ PassFinalize(p)
  \/ PassReviews(p) \/ PassVerify(p) \/ PassSqlFails(p) \/ PassRaises(p)
  \/ PassRelease(p) \/ PassPublish(p)
  \/ RecoverRead(p) \/ RecoverWrite(p) \/ RecoverWriteFails(p) \/ RecoverRefused(p)

Next ==
  \/ WriterStep
  \/ \E s \in Sessions :
       Open(s) \/ \E p \in Passes : RecoverCheck(p, s)
  \/ \E r \in Reviewers : ReviewStep(r)
  \/ \E r \in Reviewers, s \in Sessions, v \in Violations, d \in Decisions :
       ReviewLookup(r, s, v, d)
  \/ \E p \in Passes : PassBegin(p) \/ PassStep(p)
  \/ Crash

Spec == Init /\ [][Next]_vars

(***************************************************************************)
(* Fairness, for the repair property: running code goes on, an operator    *)
(* ends the session that is running, and one keeps calling for recovery    *)
(* and reconciliation (POST .../recover and .../reconcile).                *)
(***************************************************************************)
Fairness ==
  /\ WF_vars(WriterStep)
  /\ \A r \in Reviewers : WF_vars(ReviewStep(r))
  /\ \A p \in Passes :
       /\ SF_vars(PassBegin(p)) /\ WF_vars(PassStep(p))
       /\ \A s \in Sessions : SF_vars(RecoverCheck(p, s))

FairSpec == Spec /\ Fairness

(***************************************************************************)
(* Properties.                                                             *)
(***************************************************************************)
Reviews == [Violations -> Decisions \cup {None}]

\* Every variable keeps its type.
TypeOK ==
  /\ files \in [Sessions ->
       [open : BOOLEAN, updates : SUBSET Emitted, torn : BOOLEAN,
        final : Terminal \cup {"torn", None}, facts : SUBSET Facts,
        reviews : Reviews]]
  /\ table \in [Sessions ->
       [status : Status \cup {None}, facts : SUBSET Facts, reviews : Reviews]]
  /\ recon \in ReconciliationStatus
  /\ busy \in BOOLEAN
  /\ writer \in [pc : {"idle", "start", "running", "record", "incident",
                      "index"},
                 sid : Sessions \cup {None}, fact : Emitted \cup {None},
                 status : Status, emitted : SUBSET Facts]
  /\ review \in [Reviewers ->
       [pc : {"idle", "append", "update"}, sid : Sessions \cup {None},
        fact : Violations \cup {None}, decision : Decisions \cup {None},
        fresh : BOOLEAN]]
  /\ pass \in [Passes ->
       [pc : {"idle", "checked", "read", "recovered", "scan", "delete", "insert",
              "replay", "finalize", "reviews", "verify", "publish"},
        sid : Sessions \cup {None}, todo : SUBSET Sessions, clean : BOOLEAN,
        found : SUBSET Emitted]]
  /\ faults \in 0 .. MaxFaults
  /\ masked \in BOOLEAN /\ raced \in SUBSET Sessions

Closed(s) == files[s].final \in Terminal

\* Nobody is between the audit write and the store write of session s.
Settled(s) ==
  /\ writer.sid = s => writer.pc = "running"
  /\ \A r \in Reviewers : review[r].pc = "update" => review[r].sid # s
  /\ \A p \in Passes : pass[p].pc = "recovered" => pass[p].sid # s

\* The query store holds everything the audit holds of session s.
Complete(s) ==
  /\ files[s].updates \cup files[s].facts \subseteq table[s].facts
  /\ table[s].reviews = files[s].reviews
  /\ Closed(s) => table[s].status = files[s].final

\* What READY promises: the query store contains the complete audit history.  A
\* write error while a pass is RUNNING breaks it, since it leaves no trace.
ReadyMeansComplete ==
  recon = "READY" /\ ~PassUnderway =>
    \A s \in Sessions \ raced : files[s].open /\ Settled(s) => Complete(s)

\* The promise holds as long as no write was lost behind the status' back: a
\* write error during a pass, a review by a row id that a rebuild replaced, one
\* overtaken by a later one or ended by the evidence store, a refused recovery,
\* a pass that began before the verdict of the previous one was published.
ReadyIsTruthful == ~masked => ReadyMeansComplete

\* A session that ended keeps its final.json: the writer's and a recovery's
\* checks, made without a common lock at different times, keep them from both
\* writing it, and it is never half overwritten.
FinalKept ==
  [][\A s \in Sessions \ raced' : Closed(s) =>
       /\ files'[s].final = files[s].final
       /\ files'[s].facts = files[s].facts]_vars

\* A pass never removes the row of a session that has not ended: only sessions
\* with a final.json are rebuilt, and they still have it when their row goes.
RunningRowKept ==
  [][\A s \in Sessions \ raced' : table[s].status # None /\ ~Closed(s)
       => table'[s].status # None]_vars

\* Neither what has ended nor what has not is undone by whoever repairs it.  The
\* exceptions are a session that is opened after its recovery has been found not to
\* be of the running session, and one that two recoveries have both read.
NothingUndone == FinalKept /\ RunningRowKept

\* What has been reviewed is a violation the audit of an ended session holds.  It
\* does not where the violation was lost for updates.jsonl and final.json comes
\* from a recovery; the rebuilt rows then never agree with that review.
ReviewsFounded ==
  \A s \in Sessions, v \in Violations :
    Closed(s) /\ files[s].reviews[v] # None
      => v \in files[s].updates \cup files[s].facts

\* Once failures stop, recovery and reconciliation make the store READY again
\* and again, if every review has its violation.
Repairable == <>[]ReviewsFounded => []<>(recon = "READY")
=============================================================================
