------------------------- MODULE Persistence_proofs -------------------------
(***************************************************************************)
(* Proofs about the audit files and the query store that follows them, for *)
(* any sessions, facts, reviewers, passes and faults, torn writes and      *)
(* stores without foreign keys included.                                   *)
(*                                                                         *)
(* PlaceInv is the typing and says where everybody may be (StoreTypes).    *)
(* RecoverPlace says what a recovery knows when it comes to write, between *)
(* checks made without a lock.  RepairsUndoNothing follows from the two    *)
(* step by step.  Truth says of every session how much the store may lack, *)
(* by who is on the way with it, and what a pass under way has already     *)
(* seen (ReadyTellsTheTruth).                                              *)
(***************************************************************************)
EXTENDS Persistence, TLAPS

(***************************************************************************)
(* Types, and where everybody may be.                                      *)
(***************************************************************************)
Rebuild == {"delete", "insert", "replay", "finalize", "reviews", "verify"}
Working(p) == pass[p].pc \in Rebuild \cup {"scan"}

Unopened ==
  \A s \in Sessions : ~files[s].open =>
    /\ files[s].final = None /\ files[s].updates = {} /\ files[s].facts = {}
    /\ files[s].reviews = NoReviews
    /\ table[s].status = None /\ table[s].facts = {} /\ table[s].reviews = NoReviews

WriterEnds ==
  /\ writer.pc # "index" \/ Incident \in writer.emitted => ~Closed(writer.sid)
  /\ Closed(writer.sid) => files[writer.sid].final = writer.status

\* A session that was not recovered on an overtaken check has no final.json yet,
\* or the writer's own: it is with the incident only if that was not written.
WriterPlace ==
  writer.pc # "idle" =>
    /\ writer.sid \in Sessions /\ files[writer.sid].open
    /\ writer.pc = "record" => writer.fact \in Emitted
    /\ Incident \in writer.emitted => writer.pc \in {"incident", "index"}
    /\ writer.sid \in raced \/ WriterEnds

ReviewPlace ==
  \A r \in Reviewers : review[r].pc # "idle" =>
    /\ review[r].sid \in Sessions /\ files[review[r].sid].open
    /\ review[r].fact \in Violations /\ review[r].decision \in Decisions

\* It once had a final.json that could be read.
Rebuildable(s) ==
  s \in Sessions /\ files[s].final # None /\ (s \in raced \/ Closed(s))

PassPlace ==
  \A p \in Passes :
    /\ pass[p].pc \in Rebuild => Rebuildable(pass[p].sid)
    /\ pass[p].pc = "recovered" => pass[p].sid \in Sessions
    /\ pass[p].pc \in {"scan", "publish"} => pass[p].sid = None
    /\ pass[p].pc = "publish" => pass[p].todo = {}
    /\ Working(p) => busy /\ \A q \in Passes : Working(q) => q = p

\* A recovery is of a session that is not the running one, and that has not ended
\* when the recovery has read it, unless the check has been overtaken.
RecoverPlace ==
  \A p \in Passes : pass[p].pc \in {"checked", "read"} =>
    /\ pass[p].sid \in Sessions
    /\ pass[p].sid \in raced \/ writer.sid # pass[p].sid
    /\ pass[p].pc = "read" => /\ files[pass[p].sid].open
                              /\ pass[p].sid \in raced \/ ~Closed(pass[p].sid)

PlaceInv == TypeOK /\ Unopened /\ WriterPlace /\ ReviewPlace /\ PassPlace

LEMMA NoReviewsTyped == NoReviews \in Reviews
BY DEF NoReviews, Reviews

\* A closed session is an open one, and one that has not ended has no final.json
\* or half of one.
LEMMA ClosedFacts ==
  ASSUME PlaceInv, NEW s \in Sessions
  PROVE  /\ Closed(s) => files[s].open /\ files[s].final # None
         /\ files[s].final # None /\ ~Unreadable(s) => Closed(s)
BY NoneAssumption DEF PlaceInv, TypeOK, Unopened, Closed, Unreadable, Terminal, Status

LEMMA PlaceInit == Init => PlaceInv
<1> SUFFICES ASSUME Init
             PROVE  PlaceInv
  OBVIOUS
<1>1. TypeOK
  <2>1. /\ files \in [Sessions ->
             [open : BOOLEAN, updates : SUBSET Emitted, torn : BOOLEAN,
              final : Terminal \cup {"torn", None}, facts : SUBSET Facts,
              reviews : Reviews]]
        /\ table \in [Sessions ->
             [status : Status \cup {None}, facts : SUBSET Facts, reviews : Reviews]]
    BY NoReviewsTyped DEF Init
  <2>2. /\ writer \in [pc : {"idle", "start", "running", "record", "incident",
                             "index"},
                       sid : Sessions \cup {None}, fact : Emitted \cup {None},
                       status : Status, emitted : SUBSET Facts]
    BY DEF Init, NoWriter, Status
  <2>3. review \in [Reviewers ->
          [pc : {"idle", "append", "update"}, sid : Sessions \cup {None},
           fact : Violations \cup {None}, decision : Decisions \cup {None},
           fresh : BOOLEAN]]
    BY DEF Init, NoReview
  <2>4. pass \in [Passes ->
          [pc : {"idle", "checked", "read", "recovered", "scan", "delete", "insert",
                 "replay", "finalize", "reviews", "verify", "publish"},
           sid : Sessions \cup {None}, todo : SUBSET Sessions, clean : BOOLEAN,
           found : SUBSET Emitted]]
    BY DEF Init, NoPass
  <2>5. faults \in 0 .. MaxFaults
    BY BoundAssumption DEF Init
  <2>6. /\ recon \in ReconciliationStatus /\ busy \in BOOLEAN /\ masked \in BOOLEAN
        /\ raced \in SUBSET Sessions
    BY DEF Init, ReconciliationStatus
  <2> QED BY <2>1, <2>2, <2>3, <2>4, <2>5, <2>6 DEF TypeOK
<1>2. Unopened
  BY DEF Init, Unopened
<1>3. WriterPlace /\ ReviewPlace /\ PassPlace
  BY DEF Init, WriterPlace, WriterEnds, ReviewPlace, PassPlace, Rebuildable, NoWriter, NoReview, NoPass,
         Rebuild, Working
<1> QED BY <1>1, <1>2, <1>3 DEF PlaceInv

LEMMA FaultTyped ==
  ASSUME TypeOK, Fault
  PROVE  faults' \in 0 .. MaxFaults
BY BoundAssumption DEF TypeOK, Fault

LEMMA MarkTyped ==
  ASSUME TypeOK, MarkWriteError
  PROVE  recon' \in ReconciliationStatus /\ masked' \in BOOLEAN
<1>1. masked' \in BOOLEAN
  BY DEF MarkWriteError
<1>2. recon' \in ReconciliationStatus
  BY DEF TypeOK, MarkWriteError, ReconciliationStatus
<1> QED BY <1>1, <1>2

\* Either the rows are stored or the write is lost, and marked.
LEMMA StoreEffect ==
  ASSUME TypeOK, NEW s \in Sessions, NEW allowed, NEW rows, Store(s, allowed, rows)
  PROVE  /\ \/ /\ allowed /\ table' = [table EXCEPT ![s] = rows]
               /\ UNCHANGED <<recon, masked>>
            \/ UNCHANGED table /\ MarkWriteError
         /\ recon' \in ReconciliationStatus /\ masked' \in BOOLEAN
         /\ faults' \in 0 .. MaxFaults
<1>1. CASE /\ allowed /\ table' = [table EXCEPT ![s] = rows]
           /\ NoFault /\ UNCHANGED <<recon, masked>>
  BY <1>1 DEF NoFault, TypeOK
<1>2. CASE ~allowed /\ NoFault /\ MarkWriteError /\ UNCHANGED table
  BY <1>2, MarkTyped DEF NoFault, TypeOK
<1>3. CASE Fault /\ MarkWriteError /\ UNCHANGED table
  BY <1>3, MarkTyped, FaultTyped
<1> QED BY <1>1, <1>2, <1>3 DEF Store

\* Nothing but the writer's own steps and the table's rows change.
LEMMA StorePlaces ==
  ASSUME PlaceInv, writer.pc # "idle", UNCHANGED <<files, busy, review, pass, raced>>,
         NEW allowed, NEW rows \in [status : Status \cup {None},
                                    facts : SUBSET Facts, reviews : Reviews],
         Store(writer.sid, allowed, rows)
  PROVE  /\ table' \in [Sessions -> [status : Status \cup {None},
                                     facts : SUBSET Facts, reviews : Reviews]]
         /\ recon' \in ReconciliationStatus /\ masked' \in BOOLEAN
         /\ faults' \in 0 .. MaxFaults
         /\ Unopened'
         /\ ReviewPlace' /\ PassPlace'
<1>1. writer.sid \in Sessions /\ files[writer.sid].open
  BY DEF PlaceInv, WriterPlace, WriterEnds
<1>2. TypeOK
  BY DEF PlaceInv
<1>3. /\ table' = [table EXCEPT ![writer.sid] = rows] \/ table' = table
      /\ recon' \in ReconciliationStatus /\ masked' \in BOOLEAN
      /\ faults' \in 0 .. MaxFaults
  BY <1>1, <1>2, StoreEffect
<1>4. table' \in [Sessions -> [status : Status \cup {None},
                               facts : SUBSET Facts, reviews : Reviews]]
  BY <1>1, <1>2, <1>3 DEF TypeOK
<1>5. Unopened'
  BY <1>1, <1>2, <1>3 DEF TypeOK, Unopened, PlaceInv
<1>6. ReviewPlace' /\ PassPlace'
  BY DEF PlaceInv, ReviewPlace, PassPlace, Rebuildable, Working, Closed
<1> QED BY <1>3, <1>4, <1>5, <1>6

LEMMA KnownTyped == TypeOK => Known \in SUBSET Facts
BY DEF TypeOK, Known

Dirs == [open : BOOLEAN, updates : SUBSET Emitted, torn : BOOLEAN,
         final : Terminal \cup {"torn", None}, facts : SUBSET Facts,
         reviews : Reviews]
Rows == [status : Status \cup {None}, facts : SUBSET Facts, reviews : Reviews]

LEMMA WithTyped ==
  ASSUME TypeOK, NEW s \in Sessions, NEW added \in SUBSET Facts, NEW status \in Status
  PROVE  /\ WithFacts(s, added) \in Rows
         /\ WithStatus(WithFacts(s, added), status) \in Rows
<1>1. WithFacts(s, added) \in Rows
  BY DEF TypeOK, WithFacts, Rows
<1>2. \A rows \in Rows : WithStatus(rows, status) \in Rows
  BY DEF WithStatus, Rows
<1> QED BY <1>1, <1>2

\* Writing final.json has failed, half way or before.
LEMMA TornFinal ==
  ASSUME files \in [Sessions -> Dirs], NEW s \in Sessions,
         files' = files \/ files' = [files EXCEPT ![s].final = "torn"]
  PROVE  /\ files' \in [Sessions -> Dirs]
         /\ \A x \in Sessions : /\ files'[x].open = files[x].open
                                /\ files'[x].updates = files[x].updates
                                /\ files'[x].facts = files[x].facts
                                /\ files'[x].reviews = files[x].reviews
                                /\ x # s => files'[x] = files[x]
         /\ files'[s].final \in {files[s].final, "torn"}
<1>1. CASE files' = files
  BY <1>1
<1>2. CASE files' = [files EXCEPT ![s].final = "torn"]
  <2>1. files[s] \in Dirs /\ [files[s] EXCEPT !.final = "torn"] \in Dirs
    BY DEF Dirs
  <2>2. files' = [files EXCEPT ![s] = [files[s] EXCEPT !.final = "torn"]]
    BY <1>2
  <2> QED BY <2>1, <2>2 DEF Dirs
<1> QED BY <1>1, <1>2

LEMMA WriterPlaces ==
  ASSUME PlaceInv, WriterStep
  PROVE  PlaceInv'
<1> DEFINE s == writer.sid
<1>0. TypeOK /\ WriterPlace /\ Unopened /\ ReviewPlace /\ PassPlace
  BY DEF PlaceInv
<1>1. CASE StartSession
  <2>1. s \in Sessions /\ files[s].open /\ writer.pc = "start"
    BY <1>0, <1>1 DEF StartSession, WriterPlace, WriterEnds
  <2>2. [table[s] EXCEPT !.status = "RUNNING"] \in Rows
    <3>1. table[s] \in Rows
      BY <1>0, <2>1 DEF TypeOK, Rows
    <3> QED BY <3>1 DEF Rows, Status
  <2>3. /\ table' \in [Sessions -> Rows] /\ faults' \in 0 .. MaxFaults
        /\ recon' \in ReconciliationStatus /\ masked' \in BOOLEAN
        /\ Unopened' /\ ReviewPlace' /\ PassPlace'
    BY <1>1, <2>1, <2>2, StorePlaces DEF StartSession, Rows
  <2>4. /\ writer' = [writer EXCEPT !.pc = "running"]
        /\ UNCHANGED <<files, busy, review, pass, raced>>
    BY <1>1 DEF StartSession
  <2>5. TypeOK'
    BY <1>0, <2>3, <2>4 DEF TypeOK, Rows
  <2>6. WriterPlace'
    BY <1>0, <2>1, <2>4, NoneAssumption DEF TypeOK, WriterPlace, WriterEnds, Closed, Terminal,
       Status
  <2> QED BY <2>3, <2>5, <2>6 DEF PlaceInv
<1>2. ASSUME NEW f \in Emitted, AppendPayload(f)
      PROVE  PlaceInv'
  <2>1. s \in Sessions /\ files[s].open /\ writer.pc = "running"
    BY <1>0, <1>2 DEF AppendPayload, WriterPlace, WriterEnds
  <2>2. \/ files' = [files EXCEPT ![s].updates = @ \cup {f}]
        \/ files' = files
        \/ files' = [files EXCEPT ![s].torn = TRUE]
    BY <1>2 DEF AppendPayload
  <2>3. /\ writer' = [writer EXCEPT !.pc = "record", !.fact = f,
                                    !.emitted = @ \cup {f}]
        /\ UNCHANGED <<table, recon, busy, review, pass, masked, raced>>
    BY <1>2 DEF AppendPayload
  <2>4. faults' \in 0 .. MaxFaults
    BY <1>0, <1>2, FaultTyped DEF AppendPayload, NoFault, TypeOK
  <2>a. files \in [Sessions -> Dirs]
    BY <1>0 DEF TypeOK, Dirs
  <2>b. /\ files' \in [Sessions -> Dirs]
        /\ \A x \in Sessions : /\ files'[x].open = files[x].open
                               /\ files'[x].final = files[x].final
                               /\ ~files[x].open => files'[x] = files[x]
    <3>1. CASE files' = [files EXCEPT ![s].updates = @ \cup {f}]
      <4>1. files[s] \in Dirs
        BY <2>a, <2>1
      <4>2. files[s].updates \cup {f} \in SUBSET Emitted
        BY <4>1 DEF Dirs
      <4>3. [files[s] EXCEPT !.updates = @ \cup {f}] \in Dirs
        BY <4>1, <4>2 DEF Dirs
      <4>4. files' = [files EXCEPT ![s] = [files[s] EXCEPT !.updates = @ \cup {f}]]
        BY <2>a, <2>1, <3>1
      <4> QED BY <2>a, <2>1, <4>1, <4>3, <4>4 DEF Dirs
    <3>2. CASE files' = files
      BY <2>a, <3>2
    <3>3. CASE files' = [files EXCEPT ![s].torn = TRUE]
      <4>1. files[s] \in Dirs
        BY <2>a, <2>1
      <4>2. [files[s] EXCEPT !.torn = TRUE] \in Dirs
        BY <4>1 DEF Dirs
      <4>3. files' = [files EXCEPT ![s] = [files[s] EXCEPT !.torn = TRUE]]
        BY <2>a, <2>1, <3>3
      <4> QED BY <2>a, <2>1, <4>1, <4>2, <4>3 DEF Dirs
    <3> QED BY <2>2, <3>1, <3>2, <3>3
  <2>c. writer' \in [pc : {"idle", "start", "running", "record", "incident",
                           "index"},
                     sid : Sessions \cup {None}, fact : Emitted \cup {None},
                     status : Status, emitted : SUBSET Facts]
    BY <1>0, <2>3 DEF TypeOK, Facts
  <2>5. TypeOK'
    BY <1>0, <2>b, <2>c, <2>3, <2>4 DEF TypeOK, Dirs
  <2>6. \A x \in Sessions : /\ files'[x].open = files[x].open
                            /\ files'[x].final = files[x].final
                            /\ ~files[x].open => files'[x] = files[x]
    BY <2>b
  <2>7. Unopened'
    BY <1>0, <2>3, <2>6 DEF Unopened
  <2>8. WriterPlace'
    BY <1>0, <2>1, <2>3, <2>6, NoneAssumption, FactsAssumption DEF TypeOK, WriterPlace, WriterEnds, Closed,
       Terminal, Status
  <2>9. ReviewPlace' /\ PassPlace'
    BY <1>0, <2>3, <2>6 DEF ReviewPlace, PassPlace, Rebuildable, Working, Closed
  <2> QED BY <2>5, <2>7, <2>8, <2>9 DEF PlaceInv
<1>3. CASE RecordUpdate
  <2>1. s \in Sessions /\ files[s].open /\ writer.pc = "record"
        /\ writer.fact \in Facts
    BY <1>0, <1>3 DEF RecordUpdate, WriterPlace, WriterEnds, Facts
  <2>2. WithFacts(s, {writer.fact}) \in Rows
    BY <1>0, <2>1, WithTyped DEF Status
  <2>3. /\ table' \in [Sessions -> Rows] /\ faults' \in 0 .. MaxFaults
        /\ recon' \in ReconciliationStatus /\ masked' \in BOOLEAN
        /\ Unopened' /\ ReviewPlace' /\ PassPlace'
    BY <1>3, <2>1, <2>2, StorePlaces DEF RecordUpdate, Rows
  <2>4. /\ writer' = [writer EXCEPT !.pc = "running", !.fact = None]
        /\ UNCHANGED <<files, busy, review, pass, raced>>
    BY <1>3 DEF RecordUpdate
  <2>5. TypeOK'
    BY <1>0, <2>3, <2>4 DEF TypeOK, Rows
  <2>6. WriterPlace'
    BY <1>0, <2>1, <2>4, NoneAssumption DEF TypeOK, WriterPlace, WriterEnds, Closed, Terminal,
       Status
  <2> QED BY <2>3, <2>5, <2>6 DEF PlaceInv
<1>4. ASSUME NEW status \in Terminal, WriteFinal(status)
      PROVE  PlaceInv'
  <2>1. s \in Sessions /\ files[s].open /\ writer.pc = "running"
    BY <1>0, <1>4 DEF WriteFinal, WriterPlace, WriterEnds
  <2>2. writer' = [writer EXCEPT !.pc = "index", !.status = status]
    BY <1>4 DEF WriteFinal
  <2>u. UNCHANGED <<table, recon, busy, review, pass, faults, masked, raced>>
    BY <1>4 DEF WriteFinal
  <2>a. files \in [Sessions -> Dirs]
    BY <1>0 DEF TypeOK, Dirs
  <2>b. /\ files' \in [Sessions -> Dirs]
        /\ \A x \in Sessions : x # s => files'[x] = files[x]
        /\ files'[s].open = files[s].open /\ files'[s].final = status
        /\ status # None
    <3>1. files[s] \in Dirs /\ Known \in SUBSET Facts
      BY <1>0, <2>a, <2>1, KnownTyped
    <3>2. [files[s] EXCEPT !.final = status, !.facts = Known] \in Dirs
      BY <3>1 DEF Dirs
    <3>3. files' = [files EXCEPT ![s] =
                      [files[s] EXCEPT !.final = status, !.facts = Known]]
      BY <1>4, <2>a, <2>1 DEF WriteFinal
    <3> HIDE DEF s
    <3> QED BY <2>a, <2>1, <3>1, <3>2, <3>3, <1>4, NoneAssumption DEF Dirs, Status
  <2>3. TypeOK'
    BY <1>0, <2>2, <2>b, <2>u DEF TypeOK, Dirs, Status
  <2>5. Unopened'
    BY <1>0, <2>1, <2>u, <2>b DEF Unopened
  <2>6. WriterPlace'
    BY <1>0, <2>1, <2>2, <2>b DEF TypeOK, WriterPlace, WriterEnds, Closed
  <2>7. ReviewPlace' /\ PassPlace'
    <3>1. \A x \in Sessions : /\ Closed(x) => Closed(x)'
                              /\ files[x].final # None => files'[x].final # None
      BY <2>1, <2>b DEF Closed
    <3>2. \A x \in Sessions : files'[x].open = files[x].open
      BY <2>b
    <3>3. \A x : Rebuildable(x) => Rebuildable(x)'
      BY <2>u, <3>1 DEF Rebuildable
    <3> QED BY <1>0, <2>u, <3>2, <3>3 DEF ReviewPlace, PassPlace, Working
  <2> QED BY <2>3, <2>5, <2>6, <2>7 DEF PlaceInv
<1>5. ASSUME NEW status \in Terminal, WriteFinalFails(status)
      PROVE  PlaceInv'
  <2>1. s \in Sessions /\ files[s].open /\ writer.pc = "running"
    BY <1>0, <1>5 DEF WriteFinalFails, WriterPlace, WriterEnds
  <2>2. files' = files \/ files' = [files EXCEPT ![s].final = "torn"]
    BY <1>5 DEF WriteFinalFails
  <2>w. writer' = [writer EXCEPT !.pc = "incident", !.status = status,
                                 !.emitted = @ \cup {Incident}]
    BY <1>5 DEF WriteFinalFails
  <2>u. UNCHANGED <<table, recon, busy, review, pass, masked, raced>>
    BY <1>5 DEF WriteFinalFails
  <2>3. faults' \in 0 .. MaxFaults
    BY <1>0, <1>5, FaultTyped DEF WriteFinalFails
  <2>a. files \in [Sessions -> Dirs]
    BY <1>0 DEF TypeOK, Dirs
  <2>b. /\ files' \in [Sessions -> Dirs]
        /\ \A x \in Sessions : /\ files'[x].open = files[x].open
                               /\ x # s => files'[x] = files[x]
        /\ files'[s].final \in {files[s].final, "torn"}
    BY <2>a, <2>1, <2>2, TornFinal
  <2>c. writer' \in [pc : {"idle", "start", "running", "record", "incident",
                           "index"},
                     sid : Sessions \cup {None}, fact : Emitted \cup {None},
                     status : Status, emitted : SUBSET Facts]
    BY <1>0, <2>w DEF TypeOK, Facts, Status
  <2>4. TypeOK'
    BY <1>0, <2>b, <2>c, <2>u, <2>3 DEF TypeOK, Dirs
  <2>5. "torn" # None /\ "torn" \notin Terminal /\ Incident \notin Emitted
    BY NoneAssumption, FactsAssumption DEF Terminal
  <2>6. Unopened'
    BY <1>0, <2>1, <2>u, <2>b DEF Unopened
  <2>7. WriterPlace'
    BY <1>0, <2>1, <2>w, <2>u, <2>b, <2>5
       DEF TypeOK, WriterPlace, WriterEnds, Closed
  <2>8. ReviewPlace' /\ PassPlace'
    <3>1. \A x \in Sessions : /\ x \notin raced => (Closed(x)' <=> Closed(x))
                              /\ files[x].final # None => files'[x].final # None
      BY <1>0, <2>1, <2>b, <2>5 DEF Closed, WriterPlace, WriterEnds
    <3>2. \A x : Rebuildable(x) => Rebuildable(x)'
      BY <2>u, <3>1 DEF Rebuildable
    <3> QED BY <1>0, <2>u, <2>b, <3>2 DEF ReviewPlace, PassPlace, Working
  <2> QED BY <2>4, <2>6, <2>7, <2>8 DEF PlaceInv
<1>6. CASE RecordIncident
  <2>1. s \in Sessions /\ files[s].open /\ writer.pc = "incident"
    BY <1>0, <1>6 DEF RecordIncident, WriterPlace, WriterEnds
  <2>2. WithFacts(s, {Incident}) \in Rows
    BY <1>0, <2>1, WithTyped DEF Status, Facts
  <2>3. /\ table' \in [Sessions -> Rows] /\ faults' \in 0 .. MaxFaults
        /\ recon' \in ReconciliationStatus /\ masked' \in BOOLEAN
        /\ Unopened' /\ ReviewPlace' /\ PassPlace'
    BY <1>6, <2>1, <2>2, StorePlaces DEF RecordIncident, Rows
  <2>4. /\ writer' = [writer EXCEPT !.pc = "index"]
        /\ UNCHANGED <<files, busy, review, pass, raced>>
    BY <1>6 DEF RecordIncident
  <2>5. TypeOK'
    BY <1>0, <2>3, <2>4 DEF TypeOK, Rows
  <2>6. WriterPlace'
    BY <1>0, <2>1, <2>4 DEF TypeOK, WriterPlace, WriterEnds, Closed
  <2> QED BY <2>3, <2>5, <2>6 DEF PlaceInv
<1>7. CASE Finalize
  <2>1. s \in Sessions /\ writer.pc = "index" /\ writer.status \in Status
    BY <1>0, <1>7 DEF Finalize, WriterPlace, WriterEnds, TypeOK
  <2>2. WithStatus(WithFacts(s, Known), writer.status) \in Rows
    BY <1>0, <2>1, WithTyped, KnownTyped
  <2>3. /\ table' \in [Sessions -> Rows] /\ faults' \in 0 .. MaxFaults
        /\ recon' \in ReconciliationStatus /\ masked' \in BOOLEAN
        /\ Unopened' /\ ReviewPlace' /\ PassPlace'
    BY <1>7, <2>1, <2>2, StorePlaces DEF Finalize, Rows
  <2>4. writer' = NoWriter /\ UNCHANGED <<files, busy, review, pass, raced>>
    BY <1>7 DEF Finalize
  <2>5. TypeOK'
    BY <1>0, <2>3, <2>4 DEF TypeOK, Rows, NoWriter, Status
  <2>6. WriterPlace'
    BY <2>4 DEF WriterPlace, WriterEnds, NoWriter
  <2> QED BY <2>3, <2>5, <2>6 DEF PlaceInv
<1>8. CASE StartRaises
  <2>1. s \in Sessions /\ files[s].open /\ writer.pc = "running"
    BY <1>0, <1>8 DEF StartRaises, WriterPlace
  <2>2. /\ files' = files \/ files' = [files EXCEPT ![s].final = "torn"]
        /\ writer' = NoWriter
        /\ UNCHANGED <<table, recon, busy, review, pass, masked, raced>>
        /\ faults' \in 0 .. MaxFaults
    BY <1>0, <1>8, FaultTyped DEF StartRaises
  <2>3. /\ files' \in [Sessions -> Dirs]
        /\ \A x \in Sessions : /\ files'[x].open = files[x].open
                               /\ x # s => files'[x] = files[x]
        /\ files'[s].final \in {files[s].final, "torn"}
    <3>1. files \in [Sessions -> Dirs]
      BY <1>0 DEF TypeOK, Dirs
    <3> QED BY <2>1, <2>2, <3>1, TornFinal
  <2>4. "torn" # None /\ "torn" \notin Terminal
    BY NoneAssumption DEF Terminal
  <2>5. TypeOK'
    BY <1>0, <2>2, <2>3 DEF TypeOK, Dirs, NoWriter, Status
  <2>6. Unopened'
    BY <1>0, <2>1, <2>2, <2>3 DEF Unopened
  <2>7. WriterPlace'
    BY <2>2 DEF WriterPlace, NoWriter
  <2>8. ReviewPlace' /\ PassPlace'
    <3>1. \A x \in Sessions : /\ x \notin raced => (Closed(x)' <=> Closed(x))
                              /\ files[x].final # None => files'[x].final # None
      BY <1>0, <2>1, <2>3, <2>4 DEF Closed, WriterPlace, WriterEnds
    <3>2. \A x : Rebuildable(x) => Rebuildable(x)'
      BY <2>2, <3>1 DEF Rebuildable
    <3> QED BY <1>0, <2>2, <2>3, <3>2 DEF ReviewPlace, PassPlace, Working
  <2> QED BY <2>5, <2>6, <2>7, <2>8 DEF PlaceInv
<1>9. CASE EvidenceFails \/ IncidentRaises
  <2>1. /\ s \in Sessions /\ files[s].open /\ writer.pc \in {"record", "index"}
        /\ UNCHANGED <<files, table, recon, busy, review, pass, raced>>
        /\ masked' \in BOOLEAN /\ faults' \in 0 .. MaxFaults
    BY <1>0, <1>9, FaultTyped DEF EvidenceFails, IncidentRaises, WriterPlace, TypeOK
  <2>2. /\ writer'.sid = s /\ writer'.pc = "running"
        /\ Incident \notin writer'.emitted
        /\ s \in raced \/ ~Closed(s)
        /\ writer' \in [pc : {"idle", "start", "running", "record", "incident",
                              "index"},
                        sid : Sessions \cup {None}, fact : Emitted \cup {None},
                        status : Status, emitted : SUBSET Facts]
    <3>1. CASE EvidenceFails
      BY <1>0, <3>1 DEF EvidenceFails, WriterPlace, WriterEnds, TypeOK
    <3>2. CASE IncidentRaises
      <4>1. s \in raced \/ ~Closed(s)
        BY <1>0, <3>2 DEF IncidentRaises, WriterPlace, WriterEnds
      <4>2. /\ writer' = [writer EXCEPT !.pc = "running", !.status = "RUNNING",
                                        !.emitted = writer.emitted \ {Incident}]
            /\ "RUNNING" \in Status
        BY <3>2 DEF IncidentRaises, Status
      <4> QED BY <1>0, <4>1, <4>2 DEF TypeOK
    <3> QED BY <1>9, <3>1, <3>2
  <2>3. TypeOK'
    BY <1>0, <2>1, <2>2 DEF TypeOK
  <2>4. Unopened' /\ ReviewPlace' /\ PassPlace'
    BY <1>0, <2>1 DEF Unopened, ReviewPlace, PassPlace, Rebuildable, Working, Closed
  <2>5. WriterPlace'
    BY <2>1, <2>2 DEF WriterPlace, WriterEnds, Closed
  <2> QED BY <2>3, <2>4, <2>5 DEF PlaceInv
<1> QED BY <1>1, <1>2, <1>3, <1>4, <1>5, <1>6, <1>7, <1>8, <1>9 DEF WriterStep

LEMMA OpenPlaces ==
  ASSUME PlaceInv, NEW s \in Sessions, Open(s)
  PROVE  PlaceInv'
<1>0. TypeOK /\ WriterPlace /\ Unopened /\ ReviewPlace /\ PassPlace
  BY DEF PlaceInv
<1>1. files \in [Sessions -> Dirs]
  BY <1>0 DEF TypeOK, Dirs
<1>2. /\ files' \in [Sessions -> Dirs]
      /\ \A x \in Sessions : x # s => files'[x] = files[x]
      /\ files'[s].open = TRUE /\ files'[s].final = None /\ ~files[s].open
  <2>1. files' = [files EXCEPT ![s] = [files[s] EXCEPT !.open = TRUE]]
    BY <1>1 DEF Open
  <2>2. files[s] \in Dirs /\ ~files[s].open /\ files[s].final = None
    BY <1>0, <1>1 DEF Open, Unopened
  <2>3. [files[s] EXCEPT !.open = TRUE] \in Dirs
    BY <2>2 DEF Dirs
  <2> QED BY <1>1, <2>1, <2>2, <2>3 DEF Dirs
<1>3. /\ writer' = [NoWriter EXCEPT !.pc = "start", !.sid = s]
      /\ UNCHANGED <<table, recon, busy, review, pass, faults, masked>>
      /\ raced' \in {raced, raced \cup {s}}
  BY DEF Open
<1>4. TypeOK'
  BY <1>0, <1>2, <1>3 DEF TypeOK, Dirs, NoWriter, Status
<1>5. Unopened'
  BY <1>0, <1>2, <1>3 DEF Unopened
<1>6. WriterPlace'
  BY <1>2, <1>3, NoneAssumption DEF WriterPlace, WriterEnds, NoWriter, Closed, Terminal, Status
<1>7. ReviewPlace' /\ PassPlace'
  <2>1. \A x \in Sessions : files[x].open => files'[x] = files[x]
    BY <1>2
  <2>2. \A x \in Sessions : Rebuildable(x) => Rebuildable(x)'
    <3>1. \A x \in Sessions : files[x].final # None => files'[x] = files[x]
      BY <1>0, <2>1 DEF Unopened
    <3> QED BY <1>3, <3>1 DEF Rebuildable, Closed
  <2>3. \A x : Rebuildable(x) => x \in Sessions
    BY DEF Rebuildable
  <2> QED BY <1>0, <1>3, <2>1, <2>2, <2>3 DEF ReviewPlace, PassPlace, Working
<1> QED BY <1>4, <1>5, <1>6, <1>7 DEF PlaceInv

Requests == [pc : {"idle", "append", "update"}, sid : Sessions \cup {None},
             fact : Violations \cup {None}, decision : Decisions \cup {None},
             fresh : BOOLEAN]

LEMMA ReviewPlaces ==
  ASSUME PlaceInv, NEW r \in Reviewers,
         \/ ReviewStep(r)
         \/ \E s \in Sessions, v \in Violations, d \in Decisions :
              ReviewLookup(r, s, v, d)
  PROVE  PlaceInv'
<1> DEFINE j == review[r]
<1>0. /\ TypeOK /\ WriterPlace /\ Unopened /\ ReviewPlace /\ PassPlace
      /\ review \in [Reviewers -> Requests] /\ files \in [Sessions -> Dirs]
      /\ table \in [Sessions -> Rows]
  BY DEF PlaceInv, TypeOK, Requests, Dirs, Rows
<1>1. ASSUME NEW s \in Sessions, NEW v \in Violations, NEW d \in Decisions,
             ReviewLookup(r, s, v, d)
      PROVE  PlaceInv'
  <2>1. /\ review' = [review EXCEPT ![r] = [pc |-> "append", sid |-> s, fact |-> v,
                                            decision |-> d, fresh |-> TRUE]]
        /\ UNCHANGED <<files, table, recon, busy, writer, pass, faults, masked, raced>>
        /\ table[s].status # None
    BY <1>1 DEF ReviewLookup
  <2>2. review' \in [Reviewers -> Requests]
    BY <1>0, <2>1 DEF Requests
  <2>3. files[s].open
    BY <1>0, <2>1 DEF Unopened
  <2>4. TypeOK' /\ Unopened' /\ WriterPlace' /\ PassPlace'
    BY <1>0, <2>1, <2>2 DEF TypeOK, Requests, Unopened, WriterPlace, WriterEnds, PassPlace, Rebuildable,
                            Working, Closed
  <2>5. ReviewPlace'
    BY <1>0, <2>1, <2>3 DEF ReviewPlace, Requests
  <2> QED BY <2>4, <2>5 DEF PlaceInv
<1>2. CASE ReviewAppend(r)
  <2>1. /\ j.pc = "append" /\ j.sid \in Sessions /\ files[j.sid].open
        /\ j.fact \in Violations /\ j.decision \in Decisions
    BY <1>0, <1>2 DEF ReviewAppend, ReviewPlace
  <2>2. /\ files' = [files EXCEPT ![j.sid].reviews[j.fact] = j.decision]
        /\ review' = [review EXCEPT ![r].pc = "update"]
        /\ UNCHANGED <<table, recon, busy, writer, pass, faults, masked, raced>>
    BY <1>2 DEF ReviewAppend
  <2>3. /\ files' \in [Sessions -> Dirs]
        /\ \A x \in Sessions : /\ files'[x].open = files[x].open
                               /\ files'[x].final = files[x].final
                               /\ x # j.sid => files'[x] = files[x]
    <3> DEFINE t == j.sid
               after == [files[t].reviews EXCEPT ![j.fact] = j.decision]
    <3>1. files[t] \in Dirs
      BY <1>0, <2>1
    <3>2. after \in Reviews
      BY <2>1, <3>1 DEF Dirs, Reviews
    <3>3. [files[t] EXCEPT !.reviews = after] \in Dirs
      BY <3>1, <3>2 DEF Dirs
    <3>4. files' = [files EXCEPT ![t] = [files[t] EXCEPT !.reviews = after]]
      BY <1>0, <2>1, <2>2
    <3> HIDE DEF after, t
    <3>5. t \in Sessions
      BY <2>1 DEF t
    <3>6. /\ files' \in [Sessions -> Dirs]
          /\ \A x \in Sessions : /\ files'[x].open = files[x].open
                                 /\ files'[x].final = files[x].final
                                 /\ x # t => files'[x] = files[x]
      BY <1>0, <3>1, <3>3, <3>4, <3>5 DEF Dirs
    <3> QED BY <3>6 DEF t
  <2>4. review' \in [Reviewers -> Requests]
    BY <1>0, <2>2 DEF Requests
  <2>5. TypeOK'
    BY <1>0, <2>2, <2>3, <2>4 DEF TypeOK, Requests, Dirs
  <2>6. Unopened'
    BY <1>0, <2>1, <2>2, <2>3 DEF Unopened
  <2>7. WriterPlace' /\ PassPlace'
    BY <1>0, <2>2, <2>3 DEF WriterPlace, WriterEnds, PassPlace, Rebuildable, Working, Closed
  <2>8. ReviewPlace'
    <3>1. /\ \A q \in Reviewers \ {r} : review'[q] = review[q]
          /\ review'[r].sid = j.sid /\ review'[r].fact = j.fact
          /\ review'[r].decision = j.decision
      BY <1>0, <2>2 DEF Requests
    <3> QED BY <1>0, <2>1, <2>3, <3>1 DEF ReviewPlace
  <2> QED BY <2>5, <2>6, <2>7, <2>8 DEF PlaceInv
<1>3. CASE /\ review' = [review EXCEPT ![r] = NoReview]
           /\ UNCHANGED <<files, busy, writer, pass, raced>>
           /\ table' \in [Sessions -> Rows]
           /\ \A x \in Sessions : ~files[x].open => table'[x] = table[x]
           /\ recon' \in ReconciliationStatus /\ masked' \in BOOLEAN
           /\ faults' \in 0 .. MaxFaults
  <2>1. review' \in [Reviewers -> Requests]
    BY <1>0, <1>3 DEF Requests, NoReview
  <2>2. TypeOK'
    BY <1>0, <1>3, <2>1 DEF TypeOK, Requests, Rows
  <2>3. Unopened'
    BY <1>0, <1>3 DEF Unopened
  <2>4. WriterPlace' /\ PassPlace'
    BY <1>0, <1>3 DEF WriterPlace, WriterEnds, PassPlace, Rebuildable, Working, Closed
  <2>5. ReviewPlace'
    BY <1>0, <1>3 DEF ReviewPlace, NoReview, Requests
  <2> QED BY <2>2, <2>3, <2>4, <2>5 DEF PlaceInv
<1>4. CASE ReviewAppendFails(r)
  BY <1>0, <1>3, <1>4, FaultTyped DEF ReviewAppendFails, TypeOK
<1>5. CASE ReviewMarkFails(r)
  BY <1>0, <1>3, <1>5, FaultTyped DEF ReviewMarkFails, TypeOK
<1>6. CASE ReviewMissesRow(r)
  BY <1>0, <1>3, <1>6 DEF ReviewMissesRow, TypeOK
<1>7. CASE ReviewUpdate(r)
  <2>1. /\ j.pc = "update" /\ j.sid \in Sessions /\ files[j.sid].open
        /\ j.fact \in Violations /\ j.decision \in Decisions
    BY <1>0, <1>7 DEF ReviewUpdate, ReviewPlace
  <2>2. /\ review' = [review EXCEPT ![r] = NoReview]
        /\ UNCHANGED <<files, busy, writer, pass, raced>>
    BY <1>7 DEF ReviewUpdate
  <2>3. CASE /\ table' = [table EXCEPT ![j.sid].reviews[j.fact] = j.decision]
             /\ masked' = (masked \/ files[j.sid].reviews[j.fact] # j.decision)
             /\ NoFault /\ UNCHANGED recon
    <3> DEFINE t == j.sid
               after == [table[t].reviews EXCEPT ![j.fact] = j.decision]
    <3>1. table[t] \in Rows
      BY <1>0, <2>1
    <3>2. after \in Reviews
      BY <2>1, <3>1 DEF Rows, Reviews
    <3>3. [table[t] EXCEPT !.reviews = after] \in Rows
      BY <3>1, <3>2 DEF Rows
    <3>4. table' = [table EXCEPT ![t] = [table[t] EXCEPT !.reviews = after]]
      BY <1>0, <2>1, <2>3
    <3>5. masked' \in BOOLEAN
      BY <2>3
    <3>6. t \in Sessions /\ files[t].open
      BY <2>1
    <3> HIDE DEF after, t
    <3>7. /\ table' \in [Sessions -> Rows]
          /\ \A x \in Sessions : ~files[x].open => table'[x] = table[x]
      BY <1>0, <3>3, <3>4, <3>6
    <3> QED BY <1>0, <1>3, <2>2, <2>3, <3>5, <3>7 DEF NoFault, TypeOK
  <2>4. CASE Fault /\ MarkWriteError /\ UNCHANGED table
    BY <1>0, <1>3, <2>2, <2>4, FaultTyped, MarkTyped
  <2> QED BY <1>7, <2>3, <2>4 DEF ReviewUpdate
<1> QED BY <1>1, <1>2, <1>4, <1>5, <1>6, <1>7 DEF ReviewStep

Progress == [pc : {"idle", "checked", "read", "recovered", "scan", "delete", "insert",
                   "replay", "finalize", "reviews", "verify", "publish"},
             sid : Sessions \cup {None}, todo : SUBSET Sessions, clean : BOOLEAN,
             found : SUBSET Emitted]

\* A pass leaves the files, the writer and the requests alone, except that a
\* request may lose its row, and touches rows of open sessions only.
LEMMA PassLeaves ==
  ASSUME PlaceInv,
         pass' \in [Passes -> Progress],
         UNCHANGED <<files, writer, raced>>,
         review' \in [Reviewers -> Requests],
         \A r \in Reviewers : \A k \in {"pc", "sid", "fact", "decision"} :
           review'[r][k] = review[r][k],
         table' \in [Sessions -> Rows],
         \A x \in Sessions : ~files[x].open => table'[x] = table[x],
         recon' \in ReconciliationStatus, busy' \in BOOLEAN, masked' \in BOOLEAN,
         faults' \in 0 .. MaxFaults
  PROVE  TypeOK' /\ Unopened' /\ WriterPlace' /\ ReviewPlace'
<1>0. TypeOK /\ WriterPlace /\ Unopened /\ ReviewPlace
  BY DEF PlaceInv
<1>1. TypeOK'
  BY <1>0 DEF TypeOK, Progress, Requests, Rows
<1>2. Unopened'
  BY <1>0 DEF Unopened
<1>3. WriterPlace'
  BY <1>0 DEF WriterPlace, WriterEnds, Closed
<1>4. ReviewPlace'
  <2>1. \A r \in Reviewers : /\ review'[r].pc = review[r].pc
                             /\ review'[r].sid = review[r].sid
                             /\ review'[r].fact = review[r].fact
                             /\ review'[r].decision = review[r].decision
    OBVIOUS
  <2> QED BY <1>0, <2>1 DEF ReviewPlace
<1> QED BY <1>1, <1>2, <1>3, <1>4

\* The pass moves within its session, fails there, or starts over.
LEMMA PassMoves ==
  ASSUME PlaceInv, NEW p \in Passes, NEW new \in Progress,
         pass' = [pass EXCEPT ![p] = new], UNCHANGED <<files, busy, raced>>,
         \/ Working(p) /\ new.pc = "scan" /\ new.sid = None
         \/ /\ Working(p) /\ new.pc \in Rebuild
            /\ Rebuildable(new.sid)
         \/ new.pc \in {"idle", "checked", "read"}
  PROVE  PassPlace' /\ pass' \in [Passes -> Progress]
<1>0. PassPlace /\ pass \in [Passes -> Progress]
  BY DEF PlaceInv, TypeOK, Progress
<1>1. pass' \in [Passes -> Progress] /\ pass'[p] = new
        /\ \A q \in Passes \ {p} : pass'[q] = pass[q]
  BY <1>0
<1>2. \A q \in Passes : Working(q)' => Working(q)
  BY <1>1 DEF Working, Rebuild
<1>3. \A q \in Passes : Working(q)' => busy' /\ \A x \in Passes : Working(x)' => x = q
  BY <1>0, <1>2 DEF PassPlace, Rebuildable
<1>4. \A x : Rebuildable(x) => Rebuildable(x)'
  BY DEF Rebuildable, Closed
<1>5. /\ new.pc \in Rebuild => Rebuildable(new.sid)
      /\ new.pc # "recovered" /\ new.pc # "publish"
      /\ new.pc = "scan" => new.sid = None
  BY DEF Rebuild
<1> QED BY <1>0, <1>1, <1>3, <1>4, <1>5 DEF PassPlace

\* What a pass does to the rows of the session it rebuilds.
RebuildRows(s, t) == t \in [Sessions -> Rows]
                       /\ \A x \in Sessions \ {s} : t[x] = table[x]

LEMMA RebuildPlaces ==
  ASSUME PlaceInv, NEW p \in Passes,
         \/ PassDelete(p) \/ PassInsert(p) \/ PassReplay(p) \/ PassFinalize(p)
         \/ PassReviews(p) \/ PassVerify(p) \/ PassSqlFails(p)
  PROVE  PlaceInv' /\ RebuildRows(pass[p].sid, table')
<1> DEFINE s == pass[p].sid
<1>0. /\ TypeOK /\ WriterPlace /\ Unopened /\ ReviewPlace /\ PassPlace
      /\ review \in [Reviewers -> Requests] /\ files \in [Sessions -> Dirs]
      /\ table \in [Sessions -> Rows] /\ pass \in [Passes -> Progress]
  BY DEF PlaceInv, TypeOK, Requests, Dirs, Rows, Progress
<1>1. pass[p].pc \in Rebuild /\ Working(p)
  BY DEF PassDelete, PassInsert, PassReplay, PassFinalize, PassReviews, PassVerify,
         PassSqlFails, Rebuild, Working
<1>2. /\ s \in Sessions /\ Rebuildable(s) /\ files[s].open /\ table[s] \in Rows
      /\ files[s] \in Dirs /\ files[s].final \in Terminal \cup {"torn"}
  BY <1>0, <1>1 DEF PassPlace, Rebuildable, Unopened, Dirs
<1>3. UNCHANGED <<files, busy, writer, recon, masked, raced>>
  BY DEF PassDelete, PassInsert, PassReplay, PassFinalize, PassReviews, PassVerify,
         PassSqlFails
<1>4. faults' \in 0 .. MaxFaults
  <2>1. CASE PassSqlFails(p)
    BY <1>0, <2>1, FaultTyped DEF PassSqlFails
  <2>2. CASE ~PassSqlFails(p)
    BY <1>0, <2>2 DEF PassDelete, PassInsert, PassReplay, PassFinalize, PassReviews,
                      PassVerify, TypeOK
  <2> QED BY <2>1, <2>2
<1>5. \E new \in Progress :
        /\ pass' = [pass EXCEPT ![p] = new]
        /\ \/ new.pc = "scan" /\ new.sid = None
           \/ new.pc \in Rebuild /\ new.sid = s
  <2>1. ASSUME NEW pc \in Rebuild, Step(p, pc)
        PROVE  /\ [pass[p] EXCEPT !.pc = pc] \in Progress
               /\ pass' = [pass EXCEPT ![p] = [pass[p] EXCEPT !.pc = pc]]
    BY <1>0, <2>1 DEF Step, Progress, Rebuild
  <2>2. ASSUME SessionFails(p)
        PROVE  \E new \in Progress : /\ pass' = [pass EXCEPT ![p] = new]
                                     /\ new.pc = "scan" /\ new.sid = None
    <3>1. [pass[p] EXCEPT !.pc = "scan", !.sid = None, !.clean = FALSE] \in Progress
      BY <1>0 DEF Progress
    <3>2. pass' = [pass EXCEPT ![p] =
                     [pass[p] EXCEPT !.pc = "scan", !.sid = None, !.clean = FALSE]]
      BY <1>0, <2>2 DEF SessionFails
    <3> QED BY <1>0, <3>1, <3>2 DEF Progress
  <2>3. ASSUME pass' = [pass EXCEPT ![p].pc = "scan", ![p].sid = None]
        PROVE  \E new \in Progress : /\ pass' = [pass EXCEPT ![p] = new]
                                     /\ new.pc = "scan" /\ new.sid = None
    <3>1. [pass[p] EXCEPT !.pc = "scan", !.sid = None] \in Progress
      BY <1>0 DEF Progress
    <3>2. pass' = [pass EXCEPT ![p] = [pass[p] EXCEPT !.pc = "scan", !.sid = None]]
      BY <1>0, <2>3
    <3> QED BY <1>0, <3>1, <3>2 DEF Progress
  <2>4. ASSUME pass' = pass
        PROVE  pass[p] \in Progress /\ pass' = [pass EXCEPT ![p] = pass[p]]
    BY <1>0, <2>4
  <2>5. \/ \E pc \in Rebuild : Step(p, pc)
        \/ SessionFails(p)
        \/ pass' = [pass EXCEPT ![p].pc = "scan", ![p].sid = None]
        \/ pass' = pass
    BY DEF PassDelete, PassInsert, PassReplay, PassFinalize, PassReviews,
           PassVerify, PassSqlFails, Rebuild
  <2>6. ASSUME NEW pc \in Rebuild, Step(p, pc)
        PROVE  \E new \in Progress : /\ pass' = [pass EXCEPT ![p] = new]
                                     /\ new.pc \in Rebuild /\ new.sid = s
    <3>1. /\ [pass[p] EXCEPT !.pc = pc].pc = pc
          /\ [pass[p] EXCEPT !.pc = pc].sid = s
      BY <1>0 DEF Progress
    <3> QED BY <2>1, <2>6, <3>1
  <2> QED BY <1>1, <2>2, <2>3, <2>4, <2>5, <2>6
<1>6. PassPlace' /\ pass' \in [Passes -> Progress]
  BY <1>1, <1>2, <1>3, <1>5, PassMoves
<1>7. /\ review' \in [Reviewers -> Requests]
      /\ \A r \in Reviewers : \A k \in {"pc", "sid", "fact", "decision"} :
           review'[r][k] = review[r][k]
  <2>1. CASE UNCHANGED review
    BY <1>0, <2>1
  <2>2. CASE review' = [r \in Reviewers |->
                          IF review[r].sid = s
                          THEN [review[r] EXCEPT !.fresh = FALSE] ELSE review[r]]
    BY <1>0, <2>2 DEF Requests
  <2> QED
    BY <2>1, <2>2 DEF PassDelete, PassInsert, PassReplay, PassFinalize, PassReviews,
                      PassVerify, PassSqlFails
<1>8. \E row \in Rows : table' = [table EXCEPT ![s] = row]
  <2>0. table = [table EXCEPT ![s] = table[s]]
    BY <1>0
  <2>1. CASE UNCHANGED table
    BY <1>2, <2>0, <2>1
  <2>2. CASE PassDelete(p) /\ table' # table
    <3>1. [status |-> None, facts |-> {}, reviews |-> NoReviews] \in Rows
      BY NoReviewsTyped DEF Rows
    <3>2. [table[s] EXCEPT !.status = None] \in Rows
      BY <1>2 DEF Rows
    <3>3. [table EXCEPT ![s].status = None]
            = [table EXCEPT ![s] = [table[s] EXCEPT !.status = None]]
      BY <1>0, <1>2
    <3> QED BY <2>2, <3>1, <3>2, <3>3 DEF PassDelete
  <2>3. CASE PassInsert(p) /\ table' # table
    <3>1. [table[s] EXCEPT !.status = "RUNNING"] \in Rows
      BY <1>2 DEF Rows, Status
    <3>2. [table EXCEPT ![s].status = "RUNNING"]
            = [table EXCEPT ![s] = [table[s] EXCEPT !.status = "RUNNING"]]
      BY <1>0, <1>2
    <3> QED BY <2>3, <3>1, <3>2 DEF PassInsert
  <2>4. CASE PassReplay(p) /\ table' # table
    <3>1. PICK f \in files[s].updates : table' = [table EXCEPT ![s] = WithFacts(s, {f})]
      BY <2>4 DEF PassReplay
    <3>2. {f} \in SUBSET Facts
      BY <1>2, <3>1 DEF Dirs, Facts
    <3> HIDE DEF s
    <3>3. WithFacts(s, {f}) \in Rows
      BY <1>0, <1>2, <3>2, WithTyped DEF Status
    <3> QED BY <3>1, <3>3
  <2>5. CASE PassFinalize(p) /\ table' # table
    <3>1. files[s].facts \in SUBSET Facts /\ files[s].final \in Status
      BY <1>2, <2>5 DEF Dirs, Status, PassFinalize
    <3>2. WithStatus(WithFacts(s, files[s].facts), files[s].final) \in Rows
      BY <1>0, <1>2, <3>1, WithTyped
    <3> QED BY <2>5, <3>2 DEF PassFinalize
  <2>6. CASE PassReviews(p) /\ table' # table
    <3>1. PICK v \in Violations :
            table' = [table EXCEPT ![s].reviews[v] = files[s].reviews[v]]
      BY <2>6 DEF PassReviews
    <3> DEFINE after == [table[s].reviews EXCEPT ![v] = files[s].reviews[v]]
    <3>2. after \in Reviews
      BY <1>2 DEF Rows, Dirs, Reviews
    <3>3. [table[s] EXCEPT !.reviews = after] \in Rows
      BY <1>2, <3>2 DEF Rows
    <3>4. table' = [table EXCEPT ![s] = [table[s] EXCEPT !.reviews = after]]
      BY <1>0, <1>2, <3>1
    <3> QED BY <3>3, <3>4
  <2> QED BY <2>1, <2>2, <2>3, <2>4, <2>5, <2>6 DEF PassVerify, PassSqlFails
<1>9. RebuildRows(s, table')
  BY <1>0, <1>2, <1>8 DEF RebuildRows
<1>10. TypeOK' /\ Unopened' /\ WriterPlace' /\ ReviewPlace'
  <2>1. \A x \in Sessions : ~files[x].open => table'[x] = table[x]
    BY <1>2, <1>9 DEF RebuildRows
  <2>2. table' \in [Sessions -> Rows]
    BY <1>9 DEF RebuildRows
  <2>3. recon' \in ReconciliationStatus /\ busy' \in BOOLEAN /\ masked' \in BOOLEAN
    BY <1>0, <1>3 DEF TypeOK
  <2> QED BY <1>3, <1>4, <1>6, <1>7, <2>1, <2>2, <2>3, PassLeaves
<1> QED BY <1>6, <1>9, <1>10 DEF PlaceInv

LEMMA ScanPlaces ==
  ASSUME PlaceInv, NEW p \in Passes,
         \/ \E s \in Sessions : PassVisit(p, s) \/ PassVisitFails(p, s)
         \/ PassRaises(p) \/ PassRelease(p) \/ PassPublish(p) \/ PassBegin(p)
         \/ RecoverRefused(p)
  PROVE  PlaceInv'
<1>0. /\ TypeOK /\ WriterPlace /\ Unopened /\ ReviewPlace /\ PassPlace
      /\ review \in [Reviewers -> Requests] /\ files \in [Sessions -> Dirs]
      /\ table \in [Sessions -> Rows] /\ pass \in [Passes -> Progress]
      /\ NoPass \in Progress
  BY DEF PlaceInv, TypeOK, Requests, Dirs, Rows, Progress, NoPass
<1>1. UNCHANGED <<files, writer, table, review, raced>>
  BY DEF PassVisit, PassVisitFails, PassRaises, PassRelease, PassPublish, PassBegin,
         RecoverRefused
<1>2. /\ recon' \in ReconciliationStatus /\ busy' \in BOOLEAN
      /\ masked' \in BOOLEAN /\ faults' \in 0 .. MaxFaults
  <2>1. faults' \in 0 .. MaxFaults
    <3>1. faults' = faults \/ Fault
      BY DEF PassVisit, PassVisitFails, PassRaises, PassRelease, PassPublish,
             PassBegin, RecoverRefused
    <3> QED BY <1>0, <3>1, FaultTyped DEF TypeOK
  <2>2. recon' \in ReconciliationStatus
    BY <1>0 DEF PassVisit, PassVisitFails, PassRaises, PassRelease, PassPublish,
       PassBegin, RecoverRefused, TypeOK, ReconciliationStatus
  <2>3. busy' \in BOOLEAN
    BY <1>0 DEF PassVisit, PassVisitFails, PassRaises, PassRelease, PassPublish,
       PassBegin, RecoverRefused, TypeOK
  <2>4. masked' \in BOOLEAN
    <3>1. masked' = masked \/ masked' = TRUE \/ masked' = PassUnderway
      BY DEF PassVisit, PassVisitFails, PassRaises, PassRelease, PassPublish,
             PassBegin, RecoverRefused
    <3>2. PassUnderway \in BOOLEAN
      BY DEF PassUnderway
    <3> QED BY <1>0, <3>1, <3>2 DEF TypeOK
  <2> QED BY <2>1, <2>2, <2>3, <2>4
<1>3. ASSUME PassPlace', pass' \in [Passes -> Progress]
      PROVE  PlaceInv'
  <2>1. TypeOK' /\ Unopened' /\ WriterPlace' /\ ReviewPlace'
    BY <1>0, <1>1, <1>2, <1>3, PassLeaves
  <2> QED BY <1>3, <2>1 DEF PlaceInv
<1>4. ASSUME NEW s \in Sessions, PassVisit(p, s) \/ PassVisitFails(p, s)
      PROVE  PlaceInv'
  <2>1. pass[p].pc = "scan" /\ pass[p].sid = None /\ pass[p] \in Progress /\ Working(p)
          /\ UNCHANGED <<files, busy, raced>>
    BY <1>0, <1>4 DEF PassVisit, PassVisitFails, PassPlace, Rebuildable, Working
  <2> DEFINE visited == [pass[p] EXCEPT !.todo = @ \ {s}]
  <2>2. /\ visited \in Progress
        /\ [visited EXCEPT !.clean = FALSE] \in Progress
        /\ [visited EXCEPT !.pc = "delete", !.sid = s] \in Progress
    BY <2>1 DEF Progress
  <2>3. /\ visited.pc = "scan" /\ visited.sid = None
        /\ [visited EXCEPT !.clean = FALSE].pc = "scan"
        /\ [visited EXCEPT !.clean = FALSE].sid = None
        /\ [visited EXCEPT !.pc = "delete", !.sid = s].pc = "delete"
        /\ [visited EXCEPT !.pc = "delete", !.sid = s].sid = s
    BY <2>1 DEF Progress
  <2>4. CASE PassVisitFails(p, s)
    <3>1. pass' = [pass EXCEPT ![p] = [visited EXCEPT !.clean = FALSE]]
      BY <1>0, <2>1, <2>4 DEF PassVisitFails
    <3> HIDE DEF visited
    <3> QED BY <1>3, <2>1, <2>2, <2>3, <3>1, PassMoves
  <2>5. CASE PassVisit(p, s)
    <3>1. pass' = [pass EXCEPT ![p] =
                     IF Unreadable(s) \/ files[s].final = None
                     THEN [visited EXCEPT !.clean = FALSE]
                     ELSE IF Consistent(s) THEN visited
                     ELSE [visited EXCEPT !.pc = "delete", !.sid = s]]
      BY <2>5 DEF PassVisit
    <3> HIDE DEF visited
    <3>2. CASE Unreadable(s) \/ files[s].final = None
      BY <1>3, <2>1, <2>2, <2>3, <3>1, <3>2, PassMoves
    <3>3. CASE ~(Unreadable(s) \/ files[s].final = None) /\ Consistent(s)
      BY <1>3, <2>1, <2>2, <2>3, <3>1, <3>3, PassMoves
    <3>4. CASE ~(Unreadable(s) \/ files[s].final = None) /\ ~Consistent(s)
      <4>1. Rebuildable(s)
        BY <3>4, ClosedFacts DEF Rebuildable
      <4>2. "delete" \in Rebuild
        BY DEF Rebuild
      <4> QED BY <1>3, <2>1, <2>2, <2>3, <3>1, <3>4, <4>1, <4>2, PassMoves
    <3> QED BY <3>2, <3>3, <3>4
  <2> QED BY <1>4, <2>4, <2>5
<1>5. CASE PassRaises(p)
  <2>1. pass' = [pass EXCEPT ![p] = NoPass] /\ pass[p].pc = "scan" /\ busy' = FALSE
    BY <1>5 DEF PassRaises
  <2>2. pass' \in [Passes -> Progress] /\ pass'[p] = NoPass
          /\ \A q \in Passes \ {p} : pass'[q] = pass[q]
    BY <1>0, <2>1
  <2>3. \A q \in Passes : ~Working(q)'
    <3>1. \A q \in Passes \ {p} : ~Working(q)
      BY <1>0, <2>1 DEF PassPlace, Rebuildable, Working
    <3> QED BY <2>2, <3>1 DEF Working, NoPass, Rebuild
  <2>4. PassPlace'
    BY <1>0, <1>1, <2>2, <2>3 DEF PassPlace, Rebuildable, NoPass, Closed, Rebuild
  <2> QED BY <1>3, <2>2, <2>4
<1>6. CASE PassRelease(p)
  <2>1. /\ pass' = [pass EXCEPT ![p] = [pass[p] EXCEPT !.pc = "publish"]]
        /\ pass[p].pc = "scan" /\ pass[p].sid = None /\ pass[p].todo = {}
        /\ busy' = FALSE
    BY <1>0, <1>6 DEF PassRelease, Step, PassPlace, Rebuildable
  <2>2. /\ pass' \in [Passes -> Progress]
        /\ pass'[p].pc = "publish" /\ pass'[p].sid = None /\ pass'[p].todo = {}
        /\ \A q \in Passes \ {p} : pass'[q] = pass[q]
    BY <1>0, <2>1 DEF Progress
  <2>3. \A q \in Passes : ~Working(q)'
    <3>1. \A q \in Passes \ {p} : ~Working(q)
      BY <1>0, <2>1 DEF PassPlace, Rebuildable, Working
    <3> QED BY <2>2, <3>1 DEF Working, Rebuild
  <2>4. PassPlace'
    BY <1>0, <1>1, <2>2, <2>3 DEF PassPlace, Rebuildable, Closed, Rebuild
  <2> QED BY <1>3, <2>2, <2>4
<1>7. CASE PassPublish(p) \/ RecoverRefused(p)
  <2>1. pass' = [pass EXCEPT ![p] = NoPass] /\ NoPass.pc = "idle" /\ busy' = busy
    BY <1>7 DEF PassPublish, RecoverRefused, NoPass
  <2> QED BY <1>0, <1>1, <1>3, <2>1, PassMoves
<1>8. CASE PassBegin(p)
  <2> DEFINE new == [NoPass EXCEPT !.pc = "scan",
                                   !.todo = {s \in Sessions : files[s].open}]
  <2>1. pass' = [pass EXCEPT ![p] = new] /\ busy' = TRUE /\ ~busy
    BY <1>8 DEF PassBegin
  <2>2. new \in Progress /\ new.pc = "scan" /\ new.sid = None
    BY DEF Progress, NoPass
  <2> HIDE DEF new
  <2>3. /\ pass' \in [Passes -> Progress]
        /\ pass'[p].pc = "scan" /\ pass'[p].sid = None
        /\ \A q \in Passes \ {p} : pass'[q] = pass[q]
    BY <1>0, <2>1, <2>2
  <2>4. \A q \in Passes : Working(q)' => busy' /\ \A x \in Passes : Working(x)' => x = q
    BY <1>0, <2>1, <2>3 DEF PassPlace, Rebuildable, Working
  <2>5. PassPlace'
    BY <1>0, <1>1, <2>3, <2>4 DEF PassPlace, Rebuildable, Closed, Rebuild
  <2> QED BY <1>3, <2>3, <2>5
<1> QED BY <1>4, <1>5, <1>6, <1>7, <1>8

\* A recovery is checked, and reads what the files say.
LEMMA RecoverReadPlaces ==
  ASSUME PlaceInv, RecoverPlace, NEW p \in Passes,
         RecoverRead(p) \/ \E s \in Sessions : RecoverCheck(p, s)
  PROVE  PlaceInv'
<1>0. /\ TypeOK /\ review \in [Reviewers -> Requests] /\ files \in [Sessions -> Dirs]
      /\ table \in [Sessions -> Rows] /\ pass \in [Passes -> Progress]
      /\ NoPass \in Progress
  BY DEF PlaceInv, TypeOK, Requests, Dirs, Rows, Progress, NoPass
<1>1. UNCHANGED <<files, table, recon, busy, writer, review, faults, masked, raced>>
  BY DEF RecoverRead, RecoverCheck
<1>2. \E new \in Progress : /\ new.pc \in {"idle", "checked", "read"}
                            /\ pass' = [pass EXCEPT ![p] = new]
  <2>1. ASSUME NEW s \in Sessions, RecoverCheck(p, s)
        PROVE  \E new \in Progress : /\ new.pc \in {"idle", "checked", "read"}
                                     /\ pass' = [pass EXCEPT ![p] = new]
    <3>1. [pass[p] EXCEPT !.pc = "checked", !.sid = s] \in Progress
      BY <1>0 DEF Progress
    <3>2. pass' = [pass EXCEPT ![p] = [pass[p] EXCEPT !.pc = "checked", !.sid = s]]
      BY <1>0, <2>1 DEF RecoverCheck
    <3> QED BY <1>0, <3>1, <3>2 DEF Progress
  <2>2. CASE RecoverRead(p)
    <3> DEFINE s == pass[p].sid
               d == [pass[p] EXCEPT !.pc = "read", !.found = files[s].updates]
    <3>1. CASE Recoverable(s) /\ s \in Sessions
      <4>1. files[s].updates \in SUBSET Emitted
        BY <1>0, <3>1 DEF Dirs
      <4>2. d \in Progress /\ d.pc = "read"
        BY <1>0, <4>1 DEF Progress
      <4>3. pass' = [pass EXCEPT ![p] = d]
        BY <2>2, <3>1 DEF RecoverRead
      <4> HIDE DEF d
      <4> QED BY <4>2, <4>3
    <3>2. CASE ~Recoverable(s)
      BY <1>0, <2>2, <3>2 DEF RecoverRead, NoPass
    <3> QED BY <2>2, <3>1, <3>2 DEF RecoverRead, RecoverPlace
  <2> QED BY <2>1, <2>2
<1>3. PassPlace' /\ pass' \in [Passes -> Progress]
  BY <1>1, <1>2, PassMoves
<1>4. TypeOK' /\ Unopened' /\ WriterPlace' /\ ReviewPlace'
  BY <1>0, <1>1, <1>3, PassLeaves DEF TypeOK
<1> QED BY <1>3, <1>4 DEF PlaceInv

\* What a recovery writes, or fails to.
LEMMA RecoverFiles ==
  ASSUME PlaceInv, RecoverPlace, NEW p \in Passes,
         RecoverWrite(p) \/ RecoverWriteFails(p)
  PROVE  /\ pass[p].sid \in Sessions /\ files[pass[p].sid].open
         /\ files' \in [Sessions -> Dirs]
         /\ \A x \in Sessions : /\ files'[x].open = files[x].open
                                /\ x # pass[p].sid => files'[x] = files[x]
         /\ files'[pass[p].sid].final
              \in {files[pass[p].sid].final, "torn", "ABORTED"}
<1> DEFINE s == pass[p].sid
<1>1. /\ s \in Sessions /\ files[s].open /\ files \in [Sessions -> Dirs]
      /\ files[s] \in Dirs /\ pass[p].found \in SUBSET Emitted
  BY DEF RecoverWrite, RecoverWriteFails, RecoverPlace, PlaceInv, TypeOK, Dirs
<1>2. CASE RecoverWrite(p)
  <2> DEFINE d == [files[s] EXCEPT !.final = "ABORTED",
                     !.facts = (pass[p].found \ Actions) \cup {Recovery}]
  <2>1. d \in Dirs /\ d.open = files[s].open /\ d.final = "ABORTED"
    BY <1>1 DEF Dirs, Terminal, Facts
  <2>2. files' = [files EXCEPT ![s] = d]
    BY <1>1, <1>2 DEF RecoverWrite
  <2> HIDE DEF d, s
  <2>3. /\ files' \in [Sessions -> Dirs]
        /\ \A x \in Sessions : /\ files'[x].open = files[x].open
                               /\ x # s => files'[x] = files[x]
        /\ files'[s].final = "ABORTED"
    BY <1>1, <2>1, <2>2
  <2> QED BY <1>1, <2>3 DEF s
<1>3. CASE RecoverWriteFails(p)
  <2>1. files' = files \/ files' = [files EXCEPT ![s].final = "torn"]
    BY <1>3 DEF RecoverWriteFails
  <2>2. /\ files' \in [Sessions -> Dirs]
        /\ \A x \in Sessions : /\ files'[x].open = files[x].open
                               /\ x # s => files'[x] = files[x]
        /\ files'[s].final \in {files[s].final, "torn"}
    BY <1>1, <2>1, TornFinal
  <2> QED BY <1>1, <2>2
<1> QED BY <1>2, <1>3

LEMMA RecoverPlaces ==
  ASSUME PlaceInv, RecoverPlace, NEW p \in Passes,
         RecoverWrite(p) \/ RecoverWriteFails(p)
  PROVE  PlaceInv'
<1> DEFINE s == pass[p].sid
<1>0. /\ TypeOK /\ WriterPlace /\ Unopened /\ ReviewPlace /\ PassPlace
      /\ files \in [Sessions -> Dirs] /\ pass \in [Passes -> Progress]
  BY DEF PlaceInv, TypeOK, Dirs, Progress
<1>1. /\ s \in Sessions /\ files[s].open /\ pass[p].pc = "read"
      /\ s \in raced \/ (writer.sid # s /\ ~Closed(s))
      /\ UNCHANGED <<table, recon, busy, writer, review, masked>>
  BY DEF RecoverWrite, RecoverWriteFails, RecoverPlace
<1>2. /\ files' \in [Sessions -> Dirs]
      /\ \A x \in Sessions : /\ files'[x].open = files[x].open
                             /\ x # s => files'[x] = files[x]
      /\ files'[s].final \in {files[s].final, "torn", "ABORTED"}
  BY RecoverFiles
<1>3. raced' \in SUBSET Sessions /\ raced \subseteq raced'
  BY <1>0, <1>1 DEF RecoverWrite, RecoverWriteFails, Overtakes, TypeOK
<1>4. /\ pass' \in [Passes -> Progress]
      /\ \A q \in Passes : q # p => pass'[q] = pass[q]
      /\ pass'[p].pc = "idle" \/ (pass'[p].pc = "recovered" /\ pass'[p].sid = s)
  <2>1. CASE RecoverWrite(p)
    <3> DEFINE d == [pass[p] EXCEPT !.pc = "recovered", !.found = {}]
    <3>1. pass' = [pass EXCEPT ![p] = d]
      BY <1>0, <2>1 DEF RecoverWrite
    <3>2. d \in Progress /\ d.pc = "recovered" /\ d.sid = s
      BY <1>0 DEF Progress
    <3> HIDE DEF d, s
    <3> QED BY <1>0, <3>1, <3>2
  <2>2. CASE RecoverWriteFails(p)
    <3>1. pass' = [pass EXCEPT ![p] = NoPass]
      BY <2>2 DEF RecoverWriteFails
    <3>2. NoPass \in Progress /\ NoPass.pc = "idle"
      BY DEF NoPass, Progress
    <3> QED BY <1>0, <3>1, <3>2
  <2> QED BY <2>1, <2>2
<1>5. \A q \in Passes : Working(q)' => Working(q)
  BY <1>4 DEF Working, Rebuild
<1>6. faults' \in 0 .. MaxFaults
  BY <1>0, FaultTyped DEF RecoverWrite, RecoverWriteFails, TypeOK
<1>7. TypeOK'
  BY <1>0, <1>1, <1>2, <1>3, <1>4, <1>6 DEF TypeOK, Dirs, Progress
<1>8. Unopened'
  BY <1>0, <1>1, <1>2 DEF Unopened
<1>9. WriterPlace'
  BY <1>0, <1>1, <1>2, <1>3 DEF WriterPlace, WriterEnds, Closed
<1>10. ReviewPlace'
  BY <1>0, <1>1, <1>2 DEF ReviewPlace
<1>11. PassPlace'
  <2>1. \A x : Rebuildable(x) => Rebuildable(x)'
    <3>1. "torn" # None /\ "ABORTED" # None
      BY NoneAssumption DEF Status, Terminal
    <3> QED BY <1>1, <1>2, <1>3, <3>1 DEF Rebuildable, Closed
  <2> QED BY <1>0, <1>1, <1>4, <1>5, <2>1 DEF PassPlace, Rebuild, Working
<1> QED BY <1>7, <1>8, <1>9, <1>10, <1>11 DEF PlaceInv

LEMMA CrashPlaces ==
  ASSUME PlaceInv, Crash
  PROVE  PlaceInv'
<1> DEFINE s == writer.sid
<1>0. /\ TypeOK /\ WriterPlace /\ Unopened
      /\ files \in [Sessions -> Dirs]
  BY DEF PlaceInv, TypeOK, Dirs
<1>1. /\ UNCHANGED table /\ recon' = "NEVER" /\ busy' = FALSE /\ writer' = NoWriter
      /\ review' = [r \in Reviewers |-> NoReview]
      /\ pass' = [q \in Passes |-> NoPass] /\ masked' = FALSE /\ raced' = raced
  BY DEF Crash
<1>2. /\ files' \in [Sessions -> Dirs]
      /\ \A x \in Sessions : files'[x].open = files[x].open
      /\ \A x \in Sessions : ~files[x].open => files'[x] = files[x]
  <2>1. CASE files' = files
    BY <1>0, <2>1
  <2>2. CASE writer.pc = "running" /\ files' = [files EXCEPT ![s].torn = TRUE]
    <3>1. s \in Sessions /\ files[s].open /\ files[s] \in Dirs
      BY <1>0, <2>2 DEF WriterPlace, WriterEnds
    <3>2. [files[s] EXCEPT !.torn = TRUE] \in Dirs
      BY <3>1 DEF Dirs
    <3>3. files' = [files EXCEPT ![s] = [files[s] EXCEPT !.torn = TRUE]]
      BY <1>0, <2>2, <3>1
    <3> QED BY <1>0, <3>1, <3>2, <3>3 DEF Dirs
  <2>3. CASE writer.pc = "running" /\ files' = [files EXCEPT ![s].final = "torn"]
    <3>1. s \in Sessions /\ files[s].open /\ files[s] \in Dirs
      BY <1>0, <2>3 DEF WriterPlace, WriterEnds
    <3>2. [files[s] EXCEPT !.final = "torn"] \in Dirs
      BY <3>1 DEF Dirs
    <3>3. files' = [files EXCEPT ![s] = [files[s] EXCEPT !.final = "torn"]]
      BY <1>0, <2>3, <3>1
    <3> QED BY <1>0, <3>1, <3>2, <3>3 DEF Dirs
  <2> QED BY <2>1, <2>2, <2>3 DEF Crash
<1>3. NoWriter \in [pc : {"idle", "start", "running", "record", "incident", "index"},
                    sid : Sessions \cup {None}, fact : Emitted \cup {None},
                    status : Status, emitted : SUBSET Facts]
        /\ NoReview \in Requests /\ NoPass \in Progress
  BY DEF NoWriter, NoReview, NoPass, Requests, Progress, Status
<1>4. faults' \in 0 .. MaxFaults
  BY <1>0, FaultTyped DEF Crash
<1>5. TypeOK'
  <2>1. review' \in [Reviewers -> Requests] /\ pass' \in [Passes -> Progress]
    BY <1>1, <1>3
  <2>2. recon' \in ReconciliationStatus /\ busy' \in BOOLEAN /\ masked' \in BOOLEAN
    BY <1>1 DEF ReconciliationStatus
  <2>3. table' \in [Sessions -> Rows]
    BY <1>0, <1>1 DEF TypeOK, Rows
  <2>4. raced' \in SUBSET Sessions
    BY <1>0, <1>1 DEF TypeOK
  <2>5. writer' \in [pc : {"idle", "start", "running", "record", "incident", "index"},
                     sid : Sessions \cup {None}, fact : Emitted \cup {None},
                     status : Status, emitted : SUBSET Facts]
    BY <1>1, <1>3
  <2> QED BY <1>2, <1>4, <2>1, <2>2, <2>3, <2>4, <2>5
          DEF TypeOK, Dirs, Requests, Progress, Rows
<1>6. Unopened'
  BY <1>0, <1>1, <1>2 DEF Unopened
<1>7. WriterPlace' /\ ReviewPlace' /\ PassPlace'
  BY <1>1 DEF WriterPlace, WriterEnds, ReviewPlace, PassPlace, Rebuildable, NoWriter, NoReview, NoPass,
              Working, Rebuild
<1> QED BY <1>5, <1>6, <1>7 DEF PlaceInv

LEMMA PlaceStep == PlaceInv /\ RecoverPlace /\ [Next]_vars => PlaceInv'
<1> SUFFICES ASSUME PlaceInv, RecoverPlace, [Next]_vars
             PROVE  PlaceInv'
  OBVIOUS
<1>1. CASE UNCHANGED vars
  BY <1>1 DEF vars, PlaceInv, TypeOK, Unopened, WriterPlace, WriterEnds, ReviewPlace,
              PassPlace, Rebuildable, Working, Closed
<1>2. CASE WriterStep
  BY <1>2, WriterPlaces
<1>3. ASSUME NEW s \in Sessions, Open(s) \/ \E p \in Passes : RecoverCheck(p, s)
      PROVE  PlaceInv'
  BY <1>3, OpenPlaces, RecoverReadPlaces
<1>4. ASSUME NEW r \in Reviewers, ReviewStep(r)
      PROVE  PlaceInv'
  BY <1>4, ReviewPlaces
<1>5. ASSUME NEW r \in Reviewers, NEW s \in Sessions, NEW v \in Violations,
             NEW d \in Decisions, ReviewLookup(r, s, v, d)
      PROVE  PlaceInv'
  BY <1>5, ReviewPlaces
<1>6. ASSUME NEW p \in Passes, PassBegin(p) \/ PassStep(p)
      PROVE  PlaceInv'
  BY <1>6, RebuildPlaces, ScanPlaces, RecoverReadPlaces, RecoverPlaces DEF PassStep
<1>7. CASE Crash
  BY <1>7, CrashPlaces
<1> QED BY <1>1, <1>2, <1>3, <1>4, <1>5, <1>6, <1>7 DEF Next

\* The writer changes its own session's files only.
LEMMA WriterFiles ==
  ASSUME PlaceInv, WriterStep
  PROVE  /\ writer.sid \in Sessions /\ UNCHANGED <<pass, raced>>
         /\ writer'.sid \in {writer.sid, None}
         /\ \A x \in Sessions : files'[x].open = files[x].open
         /\ \A x \in Sessions \ {writer.sid} : files'[x] = files[x]
<1>0. TypeOK /\ WriterPlace /\ files \in [Sessions -> Dirs]
  BY DEF PlaceInv, TypeOK, Dirs
<1>1. writer.sid \in Sessions /\ UNCHANGED <<pass, raced>>
  BY <1>0 DEF WriterStep, StartSession, StartRaises, EvidenceFails, RecordUpdate,
     RecordIncident, IncidentRaises, Finalize, AppendPayload, WriteFinal,
     WriteFinalFails, WriterPlace
<1>2. writer'.sid \in {writer.sid, None}
  <2>1. CASE writer' = NoWriter
    BY <2>1 DEF NoWriter
  <2>2. CASE StartSession \/ EvidenceFails \/ RecordUpdate \/ RecordIncident
    BY <1>0, <2>2 DEF StartSession, EvidenceFails, RecordUpdate, RecordIncident, TypeOK
  <2>3. CASE IncidentRaises
    BY <1>0, <2>3 DEF IncidentRaises, TypeOK
  <2>4. ASSUME NEW f \in Emitted, AppendPayload(f)
        PROVE  writer'.sid = writer.sid
    BY <1>0, <2>4 DEF AppendPayload, TypeOK
  <2>5. ASSUME NEW status \in Terminal, WriteFinal(status) \/ WriteFinalFails(status)
        PROVE  writer'.sid = writer.sid
    BY <1>0, <2>5 DEF WriteFinal, WriteFinalFails, TypeOK
  <2> QED BY <2>1, <2>2, <2>3, <2>4, <2>5 DEF WriterStep, StartRaises, Finalize
<1>3. PICK s \in Sessions : s = writer.sid
  BY <1>1
<1>4. CASE files' = files
  BY <1>1, <1>2, <1>4
<1>5. CASE files' = [files EXCEPT ![s].final = "torn"]
  BY <1>0, <1>1, <1>2, <1>3, <1>5, TornFinal
<1>6. CASE files' = [files EXCEPT ![s].torn = TRUE]
  BY <1>0, <1>1, <1>2, <1>3, <1>6 DEF Dirs
<1>7. ASSUME NEW f \in Emitted, files' = [files EXCEPT ![s].updates = @ \cup {f}]
      PROVE  /\ \A x \in Sessions : files'[x].open = files[x].open
             /\ \A x \in Sessions \ {writer.sid} : files'[x] = files[x]
  BY <1>0, <1>3, <1>7 DEF Dirs
<1>8. ASSUME NEW status, files' = [files EXCEPT ![s].final = status, ![s].facts = Known]
      PROVE  /\ \A x \in Sessions : files'[x].open = files[x].open
             /\ \A x \in Sessions \ {writer.sid} : files'[x] = files[x]
  <2>1. files' = [files EXCEPT ![s] =
                    [files[s] EXCEPT !.final = status, !.facts = Known]]
    BY <1>0, <1>8
  <2>2. [files[s] EXCEPT !.final = status, !.facts = Known].open = files[s].open
    BY <1>0 DEF Dirs
  <2> QED BY <1>0, <1>3, <2>1, <2>2
<1>9. \/ files' = files \/ files' = [files EXCEPT ![s].final = "torn"]
      \/ files' = [files EXCEPT ![s].torn = TRUE]
      \/ \E f \in Emitted : files' = [files EXCEPT ![s].updates = @ \cup {f}]
      \/ \E status : files' = [files EXCEPT ![s].final = status, ![s].facts = Known]
  BY <1>3 DEF WriterStep, StartSession, StartRaises, EvidenceFails, RecordUpdate,
     RecordIncident, IncidentRaises, Finalize, AppendPayload, WriteFinal,
     WriteFinalFails
<1> QED BY <1>1, <1>2, <1>4, <1>5, <1>6, <1>7, <1>8, <1>9

\* What a recovery knows stays so unless its own session is written by the writer.
LEMMA RecoverKept ==
  ASSUME PlaceInv, RecoverPlace, raced \subseteq raced',
         \A p \in Passes : /\ pass'[p].pc \in {"checked", "read"} => pass'[p] = pass[p]
                           /\ pass'[p].pc \in {"checked", "read"}
                                => \/ pass[p].sid \in raced'
                                   \/ writer'.sid # pass[p].sid,
         \A x \in Sessions : /\ files[x].open => files'[x].open
                             /\ x \notin raced' /\ writer.sid # x /\ ~Closed(x)
                                  => ~Closed(x)'
  PROVE  RecoverPlace'
BY DEF RecoverPlace

LEMMA RecoverStep == PlaceInv /\ RecoverPlace /\ [Next]_vars => RecoverPlace'
<1> SUFFICES ASSUME PlaceInv, RecoverPlace, [Next]_vars
             PROVE  RecoverPlace'
  OBVIOUS
<1>0. /\ pass \in [Passes -> Progress] /\ files \in [Sessions -> Dirs] /\ Unopened
      /\ raced \in SUBSET Sessions /\ NoPass.pc = "idle" /\ NoWriter.sid = None
      /\ None \notin Sessions /\ ReviewPlace
      /\ None \notin Terminal
  BY NoneAssumption DEF PlaceInv, TypeOK, Progress, Dirs, NoPass, NoWriter, Status
<1>1. CASE UNCHANGED vars
  BY <1>1 DEF vars, RecoverPlace, Closed
<1>2. CASE WriterStep
  <2>1. /\ UNCHANGED <<pass, raced>> /\ writer'.sid \in {writer.sid, None}
        /\ \A x \in Sessions : /\ files'[x].open = files[x].open
                               /\ x # writer.sid => files'[x] = files[x]
    BY <1>2, WriterFiles
  <2>2. \A x \in Sessions : writer.sid # x /\ ~Closed(x) => ~Closed(x)'
    BY <2>1 DEF Closed
  <2> QED BY <1>0, <2>1, <2>2, RecoverKept DEF RecoverPlace
<1>3. ASSUME NEW s \in Sessions, Open(s)
      PROVE  RecoverPlace'
  <2>1. /\ pass' = pass /\ writer'.sid = s /\ ~files[s].open
        /\ raced' = IF At("checked", s) # {} THEN raced \cup {s} ELSE raced
        /\ \A x \in Sessions : /\ x # s => files'[x] = files[x]
                               /\ files[x].open => files'[x].open
    BY <1>0, <1>3 DEF Open, NoWriter
  <2>2. ASSUME NEW p \in Passes, pass[p].pc \in {"checked", "read"}
        PROVE  pass[p].sid \in raced' \/ writer'.sid # pass[p].sid
    <3>1. CASE pass[p].pc = "read"
      BY <2>1, <3>1 DEF RecoverPlace
    <3>2. CASE pass[p].pc = "checked" /\ pass[p].sid = s
      <4>1. p \in At("checked", s)
        BY <3>2 DEF At
      <4> QED BY <2>1, <3>2, <4>1
    <3> QED BY <2>1, <2>2, <3>1, <3>2
  <2>3. \A x \in Sessions : ~Closed(x) => ~Closed(x)'
    <3>1. files'[s].final = files[s].final
      BY <1>0, <1>3 DEF Open, Dirs
    <3> QED BY <2>1, <3>1 DEF Closed
  <2> QED BY <2>1, <2>2, <2>3, RecoverKept
<1>4. ASSUME NEW s \in Sessions, NEW p \in Passes, RecoverCheck(p, s)
      PROVE  RecoverPlace'
  <2>1. /\ UNCHANGED <<files, writer, raced>> /\ writer.sid # s
        /\ pass'[p].pc = "checked" /\ pass'[p].sid = s
        /\ \A q \in Passes \ {p} : pass'[q] = pass[q]
    BY <1>0, <1>4 DEF RecoverCheck, Progress
  <2> QED BY <2>1 DEF RecoverPlace, Closed
<1>5. ASSUME NEW p \in Passes, RecoverRead(p)
      PROVE  RecoverPlace'
  <2>1. /\ UNCHANGED <<files, writer, raced>> /\ pass[p].pc = "checked"
        /\ \A q \in Passes \ {p} : pass'[q] = pass[q]
    BY <1>0, <1>5 DEF RecoverRead
  <2>2. \/ pass'[p].pc = "idle"
        \/ /\ pass'[p].pc = "read" /\ pass'[p].sid = pass[p].sid
           /\ Recoverable(pass[p].sid)
    BY <1>0, <1>5 DEF RecoverRead, Progress
  <2>3. Recoverable(pass[p].sid) => files[pass[p].sid].open /\ ~Closed(pass[p].sid)
    BY <1>0 DEF Recoverable, Closed
  <2> QED BY <2>1, <2>2, <2>3 DEF RecoverPlace, Closed
<1>6. ASSUME NEW p \in Passes, RecoverWrite(p) \/ RecoverWriteFails(p)
      PROVE  RecoverPlace'
  <2> DEFINE s == pass[p].sid
  <2>1. /\ s \in Sessions /\ writer' = writer /\ pass[p].pc = "read"
        /\ raced' = IF At("read", s) # {p} THEN raced \cup {s} ELSE raced
        /\ pass'[p].pc \in {"idle", "recovered"}
        /\ \A q \in Passes \ {p} : pass'[q] = pass[q]
    BY <1>0, <1>6 DEF RecoverWrite, RecoverWriteFails, Overtakes, RecoverPlace, Progress
  <2>2. \A x \in Sessions : /\ files'[x].open = files[x].open
                            /\ x # s => files'[x] = files[x]
    BY <1>6, RecoverFiles
  <2>3. ASSUME NEW q \in Passes \ {p}, pass[q].pc = "read", pass[q].sid = s
        PROVE  s \in raced'
    <3>1. q \in At("read", s)
      BY <2>3 DEF At
    <3> QED BY <2>1, <2>3, <3>1
  <2> HIDE DEF s
  <2>4. ASSUME NEW q \in Passes, pass'[q].pc \in {"checked", "read"}
        PROVE  /\ pass'[q].sid \in Sessions
               /\ pass'[q].sid \in raced' \/ writer'.sid # pass'[q].sid
               /\ pass'[q].pc = "read" => /\ files'[pass'[q].sid].open
                                          /\ pass'[q].sid \in raced' \/ ~Closed(pass[q].sid)'
    <3>1. q # p /\ pass'[q] = pass[q] /\ raced \subseteq raced'
      BY <2>1, <2>4
    <3>2. /\ pass[q].sid \in Sessions /\ writer' = writer
          /\ pass[q].sid \in raced' \/ writer.sid # pass[q].sid
          /\ pass[q].pc = "read" => /\ files[pass[q].sid].open
                                    /\ pass[q].sid \in raced' \/ ~Closed(pass[q].sid)
      BY <2>1, <2>4, <3>1 DEF RecoverPlace
    <3>3. CASE pass[q].sid = s /\ pass[q].pc = "read"
      BY <2>2, <2>3, <3>1, <3>2, <3>3
    <3>4. CASE pass[q].sid # s \/ pass[q].pc # "read"
      BY <2>2, <3>1, <3>2, <3>4 DEF Closed
    <3> QED BY <3>3, <3>4
  <2> QED BY <2>4 DEF RecoverPlace
<1>7. ASSUME NEW r \in Reviewers, ReviewStep(r)
      PROVE  RecoverPlace'
  <2>1. UNCHANGED <<writer, pass, raced>>
    BY <1>7 DEF ReviewStep, ReviewAppend, ReviewAppendFails, ReviewMarkFails,
                ReviewUpdate, ReviewMissesRow
  <2>2. \A x \in Sessions : /\ files'[x].open = files[x].open
                            /\ files'[x].final = files[x].final
    <3>1. CASE ReviewAppend(r)
      <4>1. review[r].sid \in Sessions /\ review[r].fact \in Violations
        BY <1>0, <3>1 DEF ReviewAppend, ReviewPlace
      <4> QED BY <1>0, <3>1, <4>1 DEF ReviewAppend, Dirs
    <3> QED BY <1>7, <3>1 DEF ReviewStep, ReviewAppendFails, ReviewMarkFails,
                ReviewUpdate, ReviewMissesRow
  <2> QED BY <2>1, <2>2 DEF RecoverPlace, Closed
<1>8. ASSUME NEW r \in Reviewers, NEW s \in Sessions, NEW v \in Violations,
             NEW d \in Decisions, ReviewLookup(r, s, v, d)
      PROVE  RecoverPlace'
  BY <1>8 DEF ReviewLookup, RecoverPlace, Closed
<1>9. ASSUME NEW p \in Passes, PassBegin(p) \/ PassStep(p), ~RecoverRead(p),
             ~RecoverWrite(p), ~RecoverWriteFails(p)
      PROVE  RecoverPlace'
  <2>1. UNCHANGED <<files, writer, raced>>
    BY <1>9 DEF PassStep, PassBegin, PassVisit, PassVisitFails, PassDelete, PassInsert,
       PassReplay, PassFinalize, PassReviews, PassVerify, PassSqlFails, PassRaises,
       PassRelease, PassPublish, RecoverRefused
  <2>2. /\ \A q \in Passes \ {p} : pass'[q] = pass[q]
        /\ pass'[p].pc \notin {"checked", "read"}
    <3>1. ASSUME NEW pc \in Rebuild \cup {"scan", "publish"}, Step(p, pc)
          PROVE  pass'[p].pc = pc /\ \A q \in Passes \ {p} : pass'[q] = pass[q]
      BY <1>0, <3>1 DEF Step, Progress
    <3>2. ASSUME SessionFails(p)
          PROVE  pass'[p].pc = "scan" /\ \A q \in Passes \ {p} : pass'[q] = pass[q]
      BY <1>0, <3>2 DEF SessionFails, Progress
    <3>3. CASE PassDelete(p) \/ PassInsert(p) \/ PassReplay(p) \/ PassFinalize(p)
                 \/ PassReviews(p) \/ PassSqlFails(p) \/ PassRelease(p)
      <4>1. \/ \E pc \in Rebuild \cup {"scan", "publish"} : Step(p, pc)
            \/ SessionFails(p)
            \/ pass' = pass /\ pass[p].pc \in Rebuild
        BY <3>3 DEF PassDelete, PassInsert, PassReplay, PassFinalize, PassReviews,
                    PassSqlFails, PassRelease, Rebuild
      <4> QED BY <3>1, <3>2, <4>1 DEF Rebuild
    <3>4. CASE PassVerify(p)
      BY <1>0, <3>2, <3>4 DEF PassVerify, Progress
    <3>5. CASE PassRaises(p) \/ PassPublish(p) \/ RecoverRefused(p)
      BY <1>0, <3>5 DEF PassRaises, PassPublish, RecoverRefused
    <3>6. CASE PassBegin(p)
      BY <1>0, <3>6 DEF PassBegin, NoPass
    <3>7. ASSUME NEW t \in Sessions, PassVisit(p, t) \/ PassVisitFails(p, t)
          PROVE  /\ \A q \in Passes \ {p} : pass'[q] = pass[q]
                 /\ pass'[p].pc \in {"scan", "delete"}
      <4>1. pass[p] \in Progress /\ pass[p].pc = "scan"
        BY <1>0, <3>7 DEF PassVisit, PassVisitFails
      <4>2. \E new \in Progress : /\ pass' = [pass EXCEPT ![p] = new]
                                  /\ new.pc \in {"scan", "delete"}
        <5> DEFINE visited == [pass[p] EXCEPT !.todo = @ \ {t}]
        <5>1. visited \in Progress /\ visited.pc = "scan"
          BY <4>1 DEF Progress
        <5>2. /\ [visited EXCEPT !.clean = FALSE] \in Progress
              /\ [visited EXCEPT !.clean = FALSE].pc = "scan"
              /\ [visited EXCEPT !.pc = "delete", !.sid = t] \in Progress
              /\ [visited EXCEPT !.pc = "delete", !.sid = t].pc = "delete"
          BY <5>1 DEF Progress
        <5>3. \/ pass' = [pass EXCEPT ![p] = [visited EXCEPT !.clean = FALSE]]
              \/ pass' = [pass EXCEPT ![p] = visited]
              \/ pass' = [pass EXCEPT ![p] = [visited EXCEPT !.pc = "delete", !.sid = t]]
          <6>1. CASE PassVisitFails(p, t)
            <7>1. [visited EXCEPT !.clean = FALSE]
                    = [pass[p] EXCEPT !.todo = pass[p].todo \ {t}, !.clean = FALSE]
              OBVIOUS
            <7> QED BY <1>0, <6>1, <7>1 DEF PassVisitFails
          <6>2. CASE PassVisit(p, t)
            BY <6>2 DEF PassVisit
          <6> QED BY <3>7, <6>1, <6>2
        <5> HIDE DEF visited
        <5> QED BY <5>1, <5>2, <5>3
      <4> QED BY <1>0, <4>2
    <3> QED BY <1>9, <3>3, <3>4, <3>5, <3>6, <3>7 DEF PassStep
  <2> QED BY <2>1, <2>2 DEF RecoverPlace, Closed
<1>10. CASE Crash
  BY <1>0, <1>10 DEF Crash, RecoverPlace
<1> QED BY <1>1, <1>2, <1>3, <1>4, <1>5, <1>6, <1>7, <1>8, <1>9, <1>10
        DEF Next, PassStep

LEMMA PlaceAlways == Spec => [](PlaceInv /\ RecoverPlace)
<1>1. Init => RecoverPlace
  BY DEF Init, RecoverPlace, NoPass
<1> QED BY <1>1, PlaceInit, PlaceStep, RecoverStep, PTL DEF Spec

\* Every variable keeps its type.
THEOREM StoreTypes == Spec => []TypeOK
<1>1. PlaceInv => TypeOK
  BY DEF PlaceInv
<1> QED BY <1>1, PlaceAlways, PTL

(***************************************************************************)
(* What has ended is not undone, and what has not keeps its row.           *)
(***************************************************************************)
LEMMA RacedGrows == Next => raced \subseteq raced'
BY DEF Next, WriterStep, StartSession, StartRaises, EvidenceFails, RecordUpdate,
   RecordIncident, IncidentRaises, Finalize, AppendPayload, WriteFinal,
   WriteFinalFails, Open, ReviewLookup, ReviewStep, ReviewAppend, ReviewAppendFails,
   ReviewMarkFails, ReviewUpdate, ReviewMissesRow, PassStep, PassBegin, PassVisit,
   PassVisitFails, PassDelete, PassInsert, PassReplay, PassFinalize, PassReviews,
   PassVerify, PassSqlFails, PassRaises, PassRelease, PassPublish, RecoverCheck,
   RecoverRead, RecoverWrite, RecoverWriteFails, RecoverRefused, Overtakes, Crash

LEMMA EndedKept ==
  ASSUME PlaceInv, RecoverPlace, Next, NEW s \in Sessions \ raced', Closed(s)
  PROVE  files'[s].final = files[s].final /\ files'[s].facts = files[s].facts
<1>0. /\ TypeOK /\ WriterPlace /\ ReviewPlace /\ s \notin raced
      /\ files \in [Sessions -> Dirs] /\ files[s].open /\ files[s].final # None
  BY ClosedFacts, RacedGrows DEF PlaceInv, TypeOK, Dirs
<1>1. CASE WriterStep
  <2>1. CASE writer.pc = "running" \/ writer.sid # s
    <3>1. writer.sid # s
      BY <1>0, <2>1 DEF WriterPlace, WriterEnds
    <3> QED BY <1>1, <3>1, WriterFiles
  <2>2. CASE writer.pc # "running"
    BY <1>1, <2>2 DEF WriterStep, StartSession, StartRaises, EvidenceFails,
       RecordUpdate, RecordIncident, IncidentRaises, Finalize, AppendPayload,
       WriteFinal, WriteFinalFails
  <2> QED BY <2>1, <2>2
<1>2. ASSUME NEW t \in Sessions, Open(t)
      PROVE  files'[s] = files[s]
  BY <1>0, <1>2 DEF Open
<1>3. ASSUME NEW p \in Passes, RecoverWrite(p) \/ RecoverWriteFails(p)
      PROVE  files'[s] = files[s]
  <2>1. pass[p].sid # s
    BY <1>0, <1>3 DEF RecoverWrite, RecoverWriteFails, RecoverPlace
  <2> QED BY <1>3, <2>1, RecoverFiles
<1>4. ASSUME NEW r \in Reviewers, ReviewStep(r)
      PROVE  files'[s].final = files[s].final /\ files'[s].facts = files[s].facts
  <2>1. CASE ReviewAppend(r)
    <3>1. review[r].sid \in Sessions /\ review[r].fact \in Violations
      BY <1>0, <2>1 DEF ReviewAppend, ReviewPlace
    <3>2. files' = [files EXCEPT ![review[r].sid].reviews[review[r].fact]
                                   = review[r].decision]
      BY <2>1 DEF ReviewAppend
    <3> QED BY <1>0, <3>1, <3>2 DEF Dirs
  <2> QED BY <1>4, <2>1 DEF ReviewStep, ReviewAppendFails, ReviewMarkFails,
                            ReviewUpdate, ReviewMissesRow
<1>5. ASSUME NEW r \in Reviewers, NEW t \in Sessions, NEW v \in Violations,
             NEW d \in Decisions, ReviewLookup(r, t, v, d)
      PROVE  files' = files
  BY <1>5 DEF ReviewLookup
<1>6. ASSUME NEW p \in Passes, PassBegin(p) \/ PassStep(p)
      PROVE  files' = files \/ RecoverWrite(p) \/ RecoverWriteFails(p)
  BY <1>6 DEF PassStep, RecoverRead, PassBegin, PassVisit, PassVisitFails, PassDelete, PassInsert,
         PassReplay, PassFinalize, PassReviews, PassVerify, PassSqlFails, PassRaises,
         PassRelease, PassPublish, RecoverRefused
<1>7. CASE Crash
  <2>1. CASE UNCHANGED files
    BY <2>1
  <2>2. CASE writer.pc = "running"
    <3>1. writer.sid # s /\ writer.sid \in Sessions
      BY <1>0, <2>2 DEF WriterPlace, WriterEnds
    <3> QED BY <1>0, <1>7, <3>1 DEF Crash
  <2> QED BY <1>7, <2>1, <2>2 DEF Crash
<1>8. ASSUME NEW p \in Passes, NEW t \in Sessions, RecoverCheck(p, t)
      PROVE  files' = files
  BY <1>8 DEF RecoverCheck
<1> QED BY <1>1, <1>2, <1>3, <1>4, <1>5, <1>6, <1>7, <1>8 DEF Next

\* A row goes only when a pass deletes it.
LEMMA RowKept ==
  ASSUME PlaceInv, Next, NEW s \in Sessions, table[s].status # None,
         table'[s].status = None
  PROVE  \E p \in Passes : PassDelete(p) /\ pass[p].sid = s
<1>0. /\ TypeOK /\ WriterPlace /\ ReviewPlace /\ table \in [Sessions -> Rows]
      /\ "RUNNING" # None /\ \A x \in Status : x # None
  BY NoneAssumption DEF PlaceInv, TypeOK, Rows, Status
<1> SUFFICES ASSUME table' # table
             PROVE  \E p \in Passes : PassDelete(p) /\ pass[p].sid = s
  OBVIOUS
<1>1. CASE WriterStep
  <2>1. writer.sid \in Sessions /\ writer.status \in Status
    BY <1>0, <1>1 DEF WriterStep, StartSession, RecordUpdate, RecordIncident,
       Finalize, AppendPayload, WriteFinal, WriteFinalFails, StartRaises, EvidenceFails,
       IncidentRaises, WriterPlace, TypeOK
  <2>2. PICK row : /\ table' = [table EXCEPT ![writer.sid] = row]
                   /\ row.status = None => table[writer.sid].status = None
    <3>1. ASSUME NEW allowed, NEW row, Store(writer.sid, allowed, row)
          PROVE  table' = [table EXCEPT ![writer.sid] = row]
      BY <1>0, <2>1, <3>1, StoreEffect
    <3>2. table[writer.sid] \in Rows
      BY <1>0, <2>1
    <3>3. \A added : WithFacts(writer.sid, added).status = table[writer.sid].status
      BY <3>2 DEF WithFacts, Rows
    <3>4. [table[writer.sid] EXCEPT !.status = "RUNNING"].status = "RUNNING"
      BY <3>2 DEF Rows
    <3>5. WithStatus(WithFacts(writer.sid, Known), writer.status).status = None
            => table[writer.sid].status = None
      BY <1>0, <2>1, <3>2, <3>3 DEF WithStatus, WithFacts, Rows
    <3>6. CASE StartSession
      <4>1. table' = [table EXCEPT ![writer.sid] =
                        [table[writer.sid] EXCEPT !.status = "RUNNING"]]
        BY <3>1, <3>6 DEF StartSession
      <4> QED BY <1>0, <3>4, <4>1
    <3>7. CASE RecordUpdate
      BY <3>1, <3>3, <3>7 DEF RecordUpdate
    <3>8. CASE RecordIncident
      BY <3>1, <3>3, <3>8 DEF RecordIncident
    <3>9. CASE Finalize
      BY <3>1, <3>5, <3>9 DEF Finalize
    <3>10. ASSUME NEW f \in Emitted, AppendPayload(f)
           PROVE  FALSE
      BY <3>10 DEF AppendPayload
    <3>11. ASSUME NEW status \in Terminal, WriteFinal(status) \/ WriteFinalFails(status)
           PROVE  FALSE
      BY <3>11 DEF WriteFinal, WriteFinalFails
    <3>12. ~StartRaises /\ ~EvidenceFails /\ ~IncidentRaises
      BY DEF StartRaises, EvidenceFails, IncidentRaises
    <3> QED BY <1>1, <3>6, <3>7, <3>8, <3>9, <3>10, <3>11, <3>12 DEF WriterStep
  <2> QED BY <1>0, <2>1, <2>2
<1>2. ASSUME NEW r \in Reviewers, ReviewStep(r)
      PROVE  FALSE
  <2>1. /\ table' = [table EXCEPT ![review[r].sid].reviews[review[r].fact]
                                    = review[r].decision]
        /\ review[r].pc = "update"
    BY <1>2 DEF ReviewStep, ReviewAppend, ReviewAppendFails, ReviewMarkFails,
                ReviewUpdate, ReviewMissesRow
  <2>2. review[r].sid \in Sessions
    BY <1>0, <2>1 DEF ReviewPlace
  <2> QED BY <1>0, <2>1, <2>2 DEF Rows
<1>3. ASSUME NEW p \in Passes, PassBegin(p) \/ PassStep(p)
      PROVE  PassDelete(p) /\ pass[p].sid = s
  <2>1. /\ PassDelete(p) \/ PassInsert(p) \/ PassReplay(p) \/ PassFinalize(p)
             \/ PassReviews(p)
    BY <1>3 DEF PassStep, PassBegin, PassVisit, PassVisitFails, PassVerify,
       PassSqlFails, PassRaises, PassRelease, PassPublish, RecoverRefused, RecoverRead,
       RecoverWrite, RecoverWriteFails
  <2>2. pass[p].sid = s
    <3>1. RebuildRows(pass[p].sid, table')
      BY <2>1, RebuildPlaces
    <3> QED BY <3>1 DEF RebuildRows
  <2>3. table[s] \in Rows
    BY <1>0
  <2>4. ~PassInsert(p)
    BY <1>0, <2>2 DEF PassInsert
  <2>5. ~PassReplay(p)
    <3>1. \A added : WithFacts(s, added).status = table[s].status
      BY <2>3 DEF WithFacts, Rows
    <3> QED BY <1>0, <2>2, <3>1 DEF PassReplay
  <2>6. ~PassFinalize(p)
    <3>1. SUFFICES ASSUME PassFinalize(p)
                   PROVE  FALSE
      OBVIOUS
    <3>2. files[s].final \in Terminal /\ Terminal \subseteq Status
      BY <2>2, <3>1 DEF PlaceInv, TypeOK, PassPlace, Rebuildable, PassFinalize, Rebuild,
         Status
    <3>3. WithStatus(WithFacts(s, files[s].facts), files[s].final).status # None
      BY <1>0, <2>3, <3>2 DEF WithStatus, WithFacts, Rows
    <3> QED BY <1>0, <2>2, <3>1, <3>3 DEF PassFinalize
  <2>7. ~PassReviews(p)
    BY <1>0, <2>2, <2>3 DEF PassReviews, Rows
  <2> QED BY <2>1, <2>2, <2>4, <2>5, <2>6, <2>7
<1>4. ASSUME NEW t \in Sessions, Open(t)
      PROVE  FALSE
  BY <1>4 DEF Open
<1>5. ASSUME NEW t \in Sessions, NEW p \in Passes, RecoverCheck(p, t)
      PROVE  FALSE
  BY <1>5 DEF RecoverCheck
<1>6. ASSUME NEW r \in Reviewers, NEW t \in Sessions, NEW v \in Violations,
             NEW d \in Decisions, ReviewLookup(r, t, v, d)
      PROVE  FALSE
  BY <1>6 DEF ReviewLookup
<1>7. ~Crash
  BY DEF Crash
<1> QED BY <1>1, <1>2, <1>3, <1>4, <1>5, <1>6, <1>7 DEF Next

\* A session that ended keeps its final.json, and a pass never removes the row of
\* one that has not, unless a recovery of it was overtaken.
THEOREM RepairsUndoNothing == Spec => NothingUndone
<1>1. ASSUME PlaceInv, RecoverPlace, [Next]_vars
      PROVE  [\A s \in Sessions \ raced' : Closed(s) =>
               /\ files'[s].final = files[s].final
               /\ files'[s].facts = files[s].facts]_vars
  BY <1>1, EndedKept
<1>2. ASSUME PlaceInv, [Next]_vars
      PROVE  [\A s \in Sessions \ raced' : table[s].status # None /\ ~Closed(s)
                => table'[s].status # None]_vars
  <2> SUFFICES ASSUME Next, NEW s \in Sessions \ raced', table[s].status # None,
                      ~Closed(s), table'[s].status = None
               PROVE  FALSE
    BY <1>2
  <2>1. PICK p \in Passes : PassDelete(p) /\ pass[p].sid = s
    BY <1>2, RowKept
  <2>2. s \notin raced
    BY RacedGrows
  <2> QED BY <1>2, <2>1, <2>2 DEF PlaceInv, PassPlace, Rebuildable, PassDelete, Rebuild
<1> QED BY <1>1, <1>2, PlaceAlways, PTL DEF Spec, NothingUndone, FinalKept, RunningRowKept

(***************************************************************************)
(* READY is truthful.  A session is accounted for when the store holds     *)
(* what its files say but for what somebody is about to store.             *)
(***************************************************************************)
Underway(p) == pass[p].pc \notin {"idle", "checked", "read", "recovered"}

Coming(s) ==
  {f \in Facts : /\ writer.sid = s
                 /\ \/ writer.pc = "record" /\ f = writer.fact
                    \/ writer.pc = "index" /\ Incident \notin writer.emitted /\ f \in Known}

Recovering(s) == \E p \in Passes : pass[p].pc = "recovered" /\ pass[p].sid = s

HasRow(s) == table[s].status # None \/ (writer.pc = "start" /\ writer.sid = s)
HasFacts(s) == files[s].updates \cup files[s].facts \subseteq table[s].facts \cup Coming(s)
HasReviews(s) ==
  \A v \in Violations :
    \/ table[s].reviews[v] = files[s].reviews[v]
    \/ \E r \in Reviewers : /\ review[r].pc = "update" /\ review[r].sid = s
                            /\ review[r].fact = v
HasEnd(s) ==
  Closed(s) => \/ table[s].status = files[s].final
               \/ writer.pc = "index" /\ writer.sid = s

Accounted(s) ==
  s \in raced \/ Recovering(s)
    \/ (HasRow(s) /\ HasFacts(s) /\ HasReviews(s) /\ HasEnd(s))

\* Unless a write was lost behind the status' back: one pass is under way at
\* most, every open session is accounted for when the status is READY, and those
\* that a clean pass is done with are while it goes on.
Truth ==
  ~masked =>
    /\ \A p, q \in Passes : Underway(p) /\ Underway(q) => p = q
    /\ recon = "RUNNING" => PassUnderway
    /\ recon = "READY" /\ ~PassUnderway =>
         \A s \in Sessions : files[s].open => Accounted(s)
    /\ \A p \in Passes : Underway(p) /\ pass[p].clean =>
         \A s \in Sessions \ (pass[p].todo \cup {pass[p].sid}) :
           files[s].open => Accounted(s)

LEMMA TruthInit == Init => Truth
BY DEF Init, Truth, Underway, NoPass

LEMMA UnderwayIs == PassUnderway <=> \E p \in Passes : Underway(p)
BY DEF PassUnderway, Underway

\* A step that leaves the status and the passes under way alone, and after which
\* everybody is still accounted for.
LEMMA TruthKept ==
  ASSUME Truth, ~masked' => ~masked, recon' = recon,
         \A p \in Passes : /\ Underway(p)' <=> Underway(p)
                           /\ Underway(p) => pass'[p] = pass[p],
         ~masked' => \A s \in Sessions :
           files'[s].open /\ (files[s].open => Accounted(s)) => Accounted(s)'
  PROVE  Truth'
<1> SUFFICES ASSUME ~masked'
             PROVE  /\ \A p, q \in Passes : Underway(p)' /\ Underway(q)' => p = q
                    /\ recon' = "RUNNING" => PassUnderway'
                    /\ recon' = "READY" /\ ~PassUnderway' =>
                         \A s \in Sessions : files'[s].open => Accounted(s)'
                    /\ \A p \in Passes : Underway(p)' /\ pass'[p].clean =>
                         \A s \in Sessions \ (pass'[p].todo \cup {pass'[p].sid}) :
                           files'[s].open => Accounted(s)'
  BY DEF Truth
<1>1. PassUnderway' <=> PassUnderway
  BY DEF PassUnderway, Underway
<1>2. /\ \A p, q \in Passes : Underway(p) /\ Underway(q) => p = q
      /\ recon = "RUNNING" => PassUnderway
      /\ recon = "READY" /\ ~PassUnderway =>
           \A s \in Sessions : files[s].open => Accounted(s)
      /\ \A p \in Passes : Underway(p) /\ pass[p].clean =>
           \A s \in Sessions \ (pass[p].todo \cup {pass[p].sid}) :
             files[s].open => Accounted(s)
  BY DEF Truth
<1>3. \A p, q \in Passes : Underway(p)' /\ Underway(q)' => p = q
  BY <1>2
<1>4. recon' = "RUNNING" => PassUnderway'
  BY <1>1, <1>2
<1>5. recon' = "READY" /\ ~PassUnderway' =>
        \A s \in Sessions : files'[s].open => Accounted(s)'
  BY <1>1, <1>2
<1>6. \A p \in Passes : Underway(p)' /\ pass'[p].clean =>
        \A s \in Sessions \ (pass'[p].todo \cup {pass'[p].sid}) :
          files'[s].open => Accounted(s)'
  BY <1>2
<1> QED BY <1>3, <1>4, <1>5, <1>6

\* A lost write shows in the status, or is masked by a pass.
LEMMA TruthMarked ==
  ASSUME Truth, MarkWriteError, UNCHANGED pass
  PROVE  Truth'
<1> SUFFICES ASSUME ~masked'
             PROVE  Truth'
  BY DEF Truth
<1>1. ~masked /\ ~PassUnderway
  BY DEF MarkWriteError
<1>2. recon' = "DIRTY"
  BY <1>1 DEF MarkWriteError, Truth
<1>3. \A p \in Passes : ~Underway(p)'
  BY <1>1, UnderwayIs DEF Underway
<1> QED BY <1>2, <1>3 DEF Truth

\* What neither the writer nor anybody else touches stays accounted for.
LEMMA OthersKept ==
  ASSUME NEW s \in Sessions, Accounted(s), writer.sid # s \/ UNCHANGED writer,
         writer'.sid # s \/ UNCHANGED writer, raced \subseteq raced',
         files'[s] = files[s], table'[s] = table[s],
         \A r \in Reviewers : /\ review'[r].pc = review[r].pc
                              /\ review'[r].sid = review[r].sid
                              /\ review'[r].fact = review[r].fact,
         \A p \in Passes : pass[p].pc = "recovered" => pass'[p] = pass[p]
  PROVE  Accounted(s)'
<1>1. CASE s \in raced \/ Recovering(s)
  BY <1>1 DEF Accounted, Recovering
<1>2. CASE HasRow(s) /\ HasFacts(s) /\ HasReviews(s) /\ HasEnd(s)
  <2>1. Coming(s)' = Coming(s)
    BY DEF Coming, Known
  <2>2. HasRow(s)' /\ HasEnd(s)'
    BY <1>2 DEF HasRow, HasEnd, Closed
  <2>3. HasFacts(s)'
    BY <1>2, <2>1 DEF HasFacts
  <2>4. HasReviews(s)'
    BY <1>2 DEF HasReviews
  <2> QED BY <2>2, <2>3, <2>4 DEF Accounted
<1> QED BY <1>1, <1>2 DEF Accounted

LEMMA WriterTruth ==
  ASSUME PlaceInv, Truth, WriterStep
  PROVE  Truth'
<1>a. PICK s \in Sessions : s = writer.sid
  BY DEF PlaceInv, WriterPlace, WriterStep, StartSession, StartRaises, EvidenceFails,
         RecordUpdate, RecordIncident, IncidentRaises, Finalize, AppendPayload,
         WriteFinal, WriteFinalFails
<1>0. /\ TypeOK /\ WriterPlace /\ s \in Sessions /\ s = writer.sid
      /\ files \in [Sessions -> Dirs] /\ table \in [Sessions -> Rows]
      /\ UNCHANGED <<review, pass, raced>> /\ files[s].open
      /\ None \notin Status /\ Known \in SUBSET Facts /\ writer.status \in Status
      /\ s \in raced \/ WriterEnds
  BY <1>a, KnownTyped, NoneAssumption
     DEF PlaceInv, TypeOK, Dirs, Rows, WriterPlace, WriterStep, StartSession,
         StartRaises, EvidenceFails, RecordUpdate, RecordIncident, IncidentRaises,
         Finalize, AppendPayload, WriteFinal, WriteFinalFails
<1>1. ASSUME recon' = recon, masked' = masked,
             s \notin raced /\ Accounted(s) => Accounted(s)',
             \A x \in Sessions \ {s} : files'[x] = files[x] /\ table'[x] = table[x],
             writer'.sid \in {s, None}, files[s].open
      PROVE  Truth'
  <2>1. \A x \in Sessions \ {s} : Accounted(x) => Accounted(x)'
    <3> SUFFICES ASSUME NEW x \in Sessions \ {s}, Accounted(x)
                 PROVE  Accounted(x)'
      OBVIOUS
    <3>1. writer.sid # x /\ writer'.sid # x
      BY <1>0, <1>1, NoneAssumption
    <3> QED BY <1>0, <1>1, <3>1, OthersKept
  <2>2. \A p \in Passes : /\ Underway(p)' <=> Underway(p)
                          /\ Underway(p) => pass'[p] = pass[p]
    BY <1>0 DEF Underway
  <2>3. s \in raced => Accounted(s)'
    BY <1>0 DEF Accounted
  <2>4. \A x \in Sessions :
          files'[x].open /\ (files[x].open => Accounted(x)) => Accounted(x)'
    BY <1>1, <2>1, <2>3
  <2> QED BY <1>1, <2>2, <2>4, TruthKept
<1>2. Recovering(s) => Recovering(s)'
  BY <1>0 DEF Recovering
<1>3. ASSUME NEW allowed, NEW rows, Store(s, allowed, rows), UNCHANGED files,
             writer'.sid \in {s, None}, files[s].open,
             table' = [table EXCEPT ![s] = rows] /\ s \notin raced
               /\ HasRow(s) /\ HasFacts(s) /\ HasReviews(s) /\ HasEnd(s)
               => HasRow(s)' /\ HasFacts(s)' /\ HasReviews(s)' /\ HasEnd(s)'
      PROVE  Truth'
  <2>1. CASE UNCHANGED table /\ MarkWriteError
    BY <1>0, <2>1, TruthMarked
  <2>2. CASE table' = [table EXCEPT ![s] = rows] /\ UNCHANGED <<recon, masked>>
    <3>1. s \notin raced /\ Accounted(s) => Accounted(s)'
      BY <1>2, <1>3, <2>2 DEF Accounted
    <3> QED BY <1>0, <1>1, <1>3, <2>2, <3>1
  <2> QED BY <1>0, <1>3, <2>1, <2>2, StoreEffect
<1>4. HasReviews(s) /\ table'[s].reviews = table[s].reviews
        /\ files'[s].reviews = files[s].reviews => HasReviews(s)'
  BY <1>0 DEF HasReviews
<1>5. CASE StartSession
  <2> DEFINE row == [table[s] EXCEPT !.status = "RUNNING"]
  <2>1. /\ writer.pc = "start" /\ writer' = [writer EXCEPT !.pc = "running"]
        /\ files' = files /\ Store(s, table[s].status = None, row)
        /\ s \in raced \/ ~Closed(s)
    BY <1>0, <1>5 DEF StartSession, WriterEnds
  <2>2. writer'.sid = s /\ writer'.pc = "running"
    BY <1>0, <2>1 DEF TypeOK
  <2>3. ASSUME table' = [table EXCEPT ![s] = row], s \notin raced, HasRow(s),
               HasFacts(s), HasReviews(s), HasEnd(s)
        PROVE  HasRow(s)' /\ HasFacts(s)' /\ HasReviews(s)' /\ HasEnd(s)'
    <3>1. /\ table'[s].status = "RUNNING" /\ table'[s].facts = table[s].facts
          /\ table'[s].reviews = table[s].reviews
      BY <1>0, <2>3 DEF Rows
    <3>2. HasRow(s)'
      BY <1>0, <3>1 DEF HasRow, Status
    <3>3. HasFacts(s)'
      BY <2>1, <2>3, <3>1 DEF HasFacts, Coming
    <3>4. HasEnd(s)'
      BY <2>1, <2>3 DEF HasEnd, Closed
    <3> QED BY <1>4, <2>1, <2>3, <3>1, <3>2, <3>3, <3>4
  <2> HIDE DEF row
  <2> QED BY <1>0, <1>3, <2>1, <2>2, <2>3
<1>6. ASSUME NEW added \in SUBSET Facts,
             \/ RecordUpdate /\ added = {writer.fact}
             \/ RecordIncident /\ added = {Incident}
      PROVE  Truth'
  <2> DEFINE row == WithFacts(s, added)
  <2>1. /\ writer.pc \in {"record", "incident"}
        /\ writer'.sid = s /\ writer'.pc \in {"running", "index"}
        /\ files' = files /\ (s \in raced \/ ~Closed(s))
        /\ writer.pc = "record" => added = {writer.fact}
    BY <1>0, <1>6 DEF RecordUpdate, RecordIncident, WriterEnds, TypeOK
  <2>2. Store(s, HasParent(s), row)
    BY <1>0, <1>6 DEF RecordUpdate, RecordIncident
  <2>3. ASSUME table' = [table EXCEPT ![s] = row], s \notin raced, HasRow(s),
               HasFacts(s), HasReviews(s), HasEnd(s)
        PROVE  HasRow(s)' /\ HasFacts(s)' /\ HasReviews(s)' /\ HasEnd(s)'
    <3>1. /\ table'[s].status = table[s].status
          /\ table'[s].facts = table[s].facts \cup added
          /\ table'[s].reviews = table[s].reviews
      BY <1>0, <2>3 DEF Rows, WithFacts
    <3>2. HasRow(s)'
      BY <2>1, <2>3, <3>1 DEF HasRow
    <3>3. HasFacts(s)'
      <4>1. Coming(s) \subseteq added
        BY <2>1 DEF Coming
      <4> QED BY <2>1, <2>3, <3>1, <4>1 DEF HasFacts
    <3>4. HasEnd(s)'
      BY <2>1, <2>3 DEF HasEnd, Closed
    <3> QED BY <1>4, <2>1, <2>3, <3>1, <3>2, <3>3, <3>4
  <2> HIDE DEF row
  <2> QED BY <1>0, <1>3, <2>1, <2>2, <2>3
<1>7. ASSUME NEW f \in Emitted, AppendPayload(f)
      PROVE  Truth'
  <2>1. /\ writer.pc = "running" /\ writer'.sid = s /\ writer'.pc = "record"
        /\ writer'.fact = f
        /\ table' = table /\ (s \in raced \/ ~Closed(s))
        /\ recon' = recon /\ masked' = masked /\ f \in Facts
    BY <1>0, <1>7 DEF AppendPayload, WriterEnds, TypeOK, Facts
  <2>2. /\ files'[s].updates \subseteq files[s].updates \cup {f}
        /\ files'[s].facts = files[s].facts /\ files'[s].final = files[s].final
        /\ files'[s].reviews = files[s].reviews
        /\ \A x \in Sessions \ {s} : files'[x] = files[x]
    <3>1. files[s] \in Dirs
      BY <1>0
    <3>2. CASE files' = files
      BY <2>1, <3>2
    <3>3. CASE files' = [files EXCEPT ![s].updates = @ \cup {f}]
      BY <1>0, <2>1, <3>1, <3>3 DEF Dirs
    <3>4. CASE files' = [files EXCEPT ![s].torn = TRUE]
      BY <1>0, <2>1, <3>1, <3>4 DEF Dirs
    <3> QED BY <1>0, <1>7, <3>2, <3>3, <3>4 DEF AppendPayload
  <2>3. ASSUME s \notin raced, HasRow(s), HasFacts(s), HasReviews(s)
        PROVE  HasRow(s)' /\ HasFacts(s)' /\ HasReviews(s)' /\ HasEnd(s)'
    <3>1. HasRow(s)'
      BY <2>1, <2>3 DEF HasRow
    <3>2. HasFacts(s)'
      <4>1. Coming(s) = {} /\ f \in Coming(s)'
        BY <2>1 DEF Coming
      <4> QED BY <2>1, <2>2, <2>3, <4>1 DEF HasFacts
    <3>3. HasEnd(s)'
      BY <2>1, <2>2, <2>3 DEF HasEnd, Closed
    <3> QED BY <1>4, <2>1, <2>2, <2>3, <3>1, <3>2, <3>3
  <2>4. s \notin raced /\ Accounted(s) => Accounted(s)'
    BY <1>2, <2>3 DEF Accounted
  <2> QED BY <1>0, <1>1, <2>1, <2>2, <2>4
<1>8. ASSUME NEW status \in Terminal, WriteFinal(status) \/ WriteFinalFails(status)
      PROVE  Truth'
  <2>1. /\ writer.pc = "running" /\ writer'.sid = s
        /\ writer'.pc = IF WriteFinal(status) THEN "index" ELSE "incident"
        /\ WriteFinal(status) => Known' = Known /\ writer'.emitted = writer.emitted
        /\ Incident \notin writer.emitted
        /\ table' = table /\ (s \in raced \/ ~Closed(s))
        /\ recon' = recon /\ masked' = masked
    BY <1>0, <1>8 DEF WriteFinal, WriteFinalFails, WriterPlace, WriterEnds, TypeOK, Known
  <2>2. /\ files'[s].updates = files[s].updates
        /\ files'[s].facts =
             IF WriteFinal(status) THEN Known ELSE files[s].facts
        /\ WriteFinal(status) \/ files'[s].final \in {files[s].final, "torn"}
        /\ files'[s].reviews = files[s].reviews
        /\ \A x \in Sessions \ {s} : files'[x] = files[x]
    <3>1. files[s] \in Dirs
      BY <1>0
    <3>2. CASE WriteFinal(status)
      BY <1>0, <3>1, <3>2 DEF WriteFinal, Dirs
    <3>3. CASE ~WriteFinal(status)
      <4>1. files' = files \/ files' = [files EXCEPT ![s].final = "torn"]
        BY <1>0, <1>8, <3>3 DEF WriteFinalFails
      <4> QED BY <1>0, <3>3, <4>1, TornFinal
    <3> QED BY <3>2, <3>3
  <2>3. ASSUME s \notin raced, HasRow(s), HasFacts(s), HasReviews(s)
        PROVE  HasRow(s)' /\ HasFacts(s)' /\ HasReviews(s)' /\ HasEnd(s)'
    <3>1. HasRow(s)'
      BY <2>1, <2>3 DEF HasRow
    <3>2. HasFacts(s)'
      <4>1. /\ Coming(s) = {}
            /\ WriteFinal(status) => Known \subseteq Coming(s)'
        BY <1>0, <2>1 DEF Coming
      <4> QED BY <2>1, <2>2, <2>3, <4>1 DEF HasFacts
    <3>3. HasEnd(s)'
      BY <2>1, <2>2, <2>3 DEF HasEnd, Closed, Terminal
    <3> QED BY <1>4, <2>1, <2>2, <2>3, <3>1, <3>2, <3>3
  <2>4. s \notin raced /\ Accounted(s) => Accounted(s)'
    BY <1>2, <2>3 DEF Accounted
  <2> QED BY <1>0, <1>1, <2>1, <2>2, <2>4
<1>9. CASE Finalize
  <2> DEFINE row == WithStatus(WithFacts(s, Known), writer.status)
  <2>1. /\ writer.pc = "index" /\ writer' = NoWriter
        /\ files' = files
        /\ s \in raced \/ (Closed(s) => files[s].final = writer.status)
        /\ Store(s, HasParent(s) \/ Known = {}, row)
    BY <1>0, <1>9 DEF Finalize, WriterEnds
  <2>2. writer'.sid = None
    BY <2>1 DEF NoWriter
  <2>3. ASSUME table' = [table EXCEPT ![s] = row], s \notin raced, HasRow(s),
               HasFacts(s), HasReviews(s), HasEnd(s)
        PROVE  HasRow(s)' /\ HasFacts(s)' /\ HasReviews(s)' /\ HasEnd(s)'
    <3>1. table[s].status # None /\ table[s] \in Rows
      BY <1>0, <2>1, <2>3 DEF HasRow
    <3>2. row = [WithFacts(s, Known) EXCEPT !.status = writer.status]
      BY <3>1 DEF WithStatus, WithFacts, Rows
    <3>3. /\ row.status = writer.status /\ row.facts = table[s].facts \cup Known
          /\ row.reviews = table[s].reviews
      BY <3>1, <3>2 DEF WithFacts, Rows
    <3>4. table'[s] = row
      BY <1>0, <2>3
    <3> HIDE DEF row
    <3>5. HasRow(s)'
      BY <1>0, <3>3, <3>4 DEF HasRow
    <3>6. HasFacts(s)'
      <4>1. Coming(s) \subseteq Known
        BY <2>1 DEF Coming
      <4> QED BY <2>1, <2>3, <3>3, <3>4, <4>1 DEF HasFacts
    <3>7. HasEnd(s)'
      BY <2>1, <2>3, <3>3, <3>4 DEF HasEnd, Closed
    <3> QED BY <1>4, <2>1, <2>3, <3>3, <3>4, <3>5, <3>6, <3>7
  <2> HIDE DEF row
  <2> QED BY <1>0, <1>3, <2>1, <2>2, <2>3
<1>10. RecordUpdate => {writer.fact} \in SUBSET Facts
  BY <1>0 DEF RecordUpdate, WriterPlace, Facts
<1>11. {Incident} \in SUBSET Facts
  BY DEF Facts
<1>12. CASE StartRaises
  <2>1. /\ writer.pc = "running" /\ writer' = NoWriter /\ UNCHANGED table
        /\ recon' = recon /\ masked' = masked /\ (s \in raced \/ ~Closed(s))
        /\ files' = files \/ files' = [files EXCEPT ![s].final = "torn"]
    BY <1>0, <1>12 DEF StartRaises, WriterEnds
  <2>2. /\ \A x \in Sessions : /\ files'[x].updates = files[x].updates
                               /\ files'[x].facts = files[x].facts
                               /\ files'[x].reviews = files[x].reviews
                               /\ x # s => files'[x] = files[x]
        /\ files'[s].final \in {files[s].final, "torn"}
    BY <1>0, <2>1, TornFinal
  <2>3. ASSUME s \notin raced, HasRow(s), HasFacts(s), HasReviews(s)
        PROVE  HasRow(s)' /\ HasFacts(s)' /\ HasReviews(s)' /\ HasEnd(s)'
    <3>1. HasRow(s)'
      BY <2>1, <2>3 DEF HasRow
    <3>2. HasFacts(s)'
      <4>1. Coming(s) = {}
        BY <2>1 DEF Coming
      <4> QED BY <2>1, <2>2, <2>3, <4>1 DEF HasFacts
    <3>3. HasEnd(s)'
      BY <2>1, <2>2, <2>3 DEF HasEnd, Closed, Terminal
    <3> QED BY <1>4, <2>1, <2>2, <2>3, <3>1, <3>2, <3>3
  <2>4. s \notin raced /\ Accounted(s) => Accounted(s)'
    BY <1>2, <2>3 DEF Accounted
  <2>5. writer'.sid = None
    BY <2>1 DEF NoWriter
  <2> QED BY <1>0, <1>1, <2>1, <2>2, <2>4, <2>5
<1>13. CASE EvidenceFails
  BY <1>13 DEF EvidenceFails, Truth
<1>14. CASE IncidentRaises
  <2>1. /\ writer.pc = "index" /\ Incident \in writer.emitted
        /\ writer'.pc = "running" /\ writer'.sid = s
        /\ UNCHANGED <<files, table>> /\ recon' = recon /\ masked' = masked
        /\ s \in raced \/ ~Closed(s)
    BY <1>0, <1>14 DEF IncidentRaises, WriterEnds, TypeOK
  <2>2. ASSUME s \notin raced, HasRow(s), HasFacts(s), HasReviews(s)
        PROVE  HasRow(s)' /\ HasFacts(s)' /\ HasReviews(s)' /\ HasEnd(s)'
    <3>1. HasRow(s)'
      BY <2>1, <2>2 DEF HasRow
    <3>2. HasFacts(s)'
      <4>1. Coming(s) = {}
        BY <2>1 DEF Coming
      <4> QED BY <2>1, <2>2, <4>1 DEF HasFacts
    <3>3. HasEnd(s)'
      BY <2>1, <2>2 DEF HasEnd, Closed
    <3> QED BY <1>4, <2>1, <2>2, <3>1, <3>2, <3>3
  <2>3. s \notin raced /\ Accounted(s) => Accounted(s)'
    BY <1>2, <2>2 DEF Accounted
  <2> QED BY <1>0, <1>1, <2>1, <2>3
<1> QED BY <1>5, <1>6, <1>7, <1>8, <1>9, <1>10, <1>11, <1>12, <1>13, <1>14
        DEF WriterStep

LEMMA RequestTruth ==
  ASSUME PlaceInv, Truth, NEW r \in Reviewers,
         \/ ReviewStep(r)
         \/ \E s \in Sessions, v \in Violations, d \in Decisions :
              ReviewLookup(r, s, v, d)
  PROVE  Truth'
<1>0. /\ TypeOK /\ ReviewPlace
      /\ files \in [Sessions -> Dirs] /\ table \in [Sessions -> Rows]
      /\ review \in [Reviewers -> Requests]
      /\ UNCHANGED <<writer, pass, raced>>
  BY DEF PlaceInv, TypeOK, Dirs, Rows, Requests, ReviewStep, ReviewAppend,
         ReviewAppendFails, ReviewMarkFails, ReviewUpdate, ReviewMissesRow,
         ReviewLookup
<1>1. \A p \in Passes : /\ Underway(p)' <=> Underway(p)
                        /\ Underway(p) => pass'[p] = pass[p]
  BY <1>0 DEF Underway
<1>2. \A s \in Sessions : Recovering(s) => Recovering(s)'
  BY <1>0 DEF Recovering
<1>3. ASSUME recon' = recon, ~masked' => ~masked,
             ~masked' => \A s \in Sessions :
               /\ files'[s].open = files[s].open
               /\ files'[s].final = files[s].final
               /\ files'[s].updates = files[s].updates
               /\ files'[s].facts = files[s].facts
               /\ table'[s].status = table[s].status
               /\ table'[s].facts = table[s].facts
               /\ HasReviews(s) => HasReviews(s)'
      PROVE  Truth'
  <2>1. ASSUME ~masked', NEW s \in Sessions, Accounted(s)
        PROVE  Accounted(s)'
    <3>1. CASE s \in raced \/ Recovering(s)
      BY <1>0, <1>2, <3>1 DEF Accounted
    <3>2. CASE HasRow(s) /\ HasFacts(s) /\ HasReviews(s) /\ HasEnd(s)
      <4>1. HasRow(s)' /\ HasEnd(s)' /\ Coming(s)' = Coming(s)
        BY <1>0, <1>3, <2>1, <3>2 DEF HasRow, HasEnd, Closed, Coming, Known
      <4>2. HasFacts(s)'
        BY <1>3, <2>1, <3>2, <4>1 DEF HasFacts
      <4> QED BY <1>3, <2>1, <3>2, <4>1, <4>2 DEF Accounted
    <3> QED BY <2>1, <3>1, <3>2 DEF Accounted
  <2>2. ~masked' => \A s \in Sessions :
          files'[s].open /\ (files[s].open => Accounted(s)) => Accounted(s)'
    BY <1>3, <2>1
  <2> QED BY <1>1, <1>3, <2>2, TruthKept
<1>4. ASSUME NEW s \in Sessions, NEW v \in Violations, NEW d \in Decisions,
             ReviewLookup(r, s, v, d)
      PROVE  Truth'
  <2>1. /\ UNCHANGED <<files, table, recon, masked>> /\ review[r].pc = "idle"
        /\ \A q \in Reviewers \ {r} : review'[q] = review[q]
    BY <1>0, <1>4 DEF ReviewLookup
  <2>2. \A x \in Sessions : HasReviews(x) => HasReviews(x)'
    BY <2>1 DEF HasReviews
  <2> QED BY <1>3, <2>1, <2>2
<1>5. CASE ReviewAppend(r)
  <2> DEFINE j == review[r]
  <2>1. /\ j.pc = "append" /\ j.sid \in Sessions /\ j.fact \in Violations
        /\ UNCHANGED <<table, recon, masked>>
        /\ files' = [files EXCEPT ![j.sid].reviews[j.fact] = j.decision]
    BY <1>0, <1>5 DEF ReviewAppend, ReviewPlace
  <2>2. /\ review'[r].pc = "update" /\ review'[r].sid = j.sid
        /\ review'[r].fact = j.fact
        /\ \A q \in Reviewers \ {r} : review'[q] = review[q]
    BY <1>0, <1>5 DEF ReviewAppend, Requests
  <2>3. \A x \in Sessions :
          /\ files'[x].open = files[x].open /\ files'[x].final = files[x].final
          /\ files'[x].updates = files[x].updates /\ files'[x].facts = files[x].facts
          /\ \A v \in Violations : x # j.sid \/ v # j.fact =>
               files'[x].reviews[v] = files[x].reviews[v]
    <3>1. \A x \in Sessions : files[x] \in Dirs
      BY <1>0
    <3> QED BY <1>0, <2>1, <3>1 DEF Dirs, Reviews
  <2>4. \A x \in Sessions : HasReviews(x) => HasReviews(x)'
    BY <1>0, <2>1, <2>2, <2>3 DEF HasReviews
  <2> QED BY <1>3, <2>1, <2>3, <2>4
<1>6. CASE ReviewAppendFails(r)
  <2>1. /\ UNCHANGED <<files, table, recon, masked>> /\ review[r].pc = "append"
        /\ \A q \in Reviewers \ {r} : review'[q] = review[q]
    BY <1>0, <1>6 DEF ReviewAppendFails
  <2>2. \A x \in Sessions : HasReviews(x) => HasReviews(x)'
    BY <2>1 DEF HasReviews
  <2> QED BY <1>3, <2>1, <2>2
<1>7. CASE ReviewMarkFails(r) \/ ReviewMissesRow(r)
  BY <1>7 DEF ReviewMarkFails, ReviewMissesRow, Truth
<1>8. CASE ReviewUpdate(r)
  <2> DEFINE j == review[r]
  <2>1. /\ j.pc = "update" /\ j.sid \in Sessions /\ j.fact \in Violations
        /\ files' = files /\ \A q \in Reviewers \ {r} : review'[q] = review[q]
    BY <1>0, <1>8 DEF ReviewUpdate, ReviewPlace
  <2>2. CASE Fault /\ MarkWriteError /\ UNCHANGED table
    BY <1>0, <2>2, TruthMarked
  <2>3. CASE /\ table' = [table EXCEPT ![j.sid].reviews[j.fact] = j.decision]
             /\ masked' = (masked \/ files[j.sid].reviews[j.fact] # j.decision)
             /\ NoFault /\ UNCHANGED recon
    <3>1. \A x \in Sessions :
            /\ table'[x].status = table[x].status /\ table'[x].facts = table[x].facts
            /\ \A v \in Violations :
                 table'[x].reviews[v] = IF x = j.sid /\ v = j.fact THEN j.decision
                                        ELSE table[x].reviews[v]
      <4>1. \A x \in Sessions : table[x] \in Rows
        BY <1>0
      <4> QED BY <1>0, <2>1, <2>3, <4>1 DEF Rows, Reviews
    <3>2. ~masked' => ~masked /\ files[j.sid].reviews[j.fact] = j.decision
      BY <2>3
    <3>3. ~masked' => \A x \in Sessions : HasReviews(x) => HasReviews(x)'
      BY <2>1, <3>1, <3>2 DEF HasReviews
    <3> QED BY <1>3, <2>1, <2>3, <3>1, <3>2, <3>3
  <2> QED BY <1>8, <2>2, <2>3 DEF ReviewUpdate
<1> QED BY <1>4, <1>5, <1>6, <1>7, <1>8 DEF ReviewStep

LEMMA OpenTruth ==
  ASSUME PlaceInv, Truth, NEW s \in Sessions, Open(s)
  PROVE  Truth'
<1>0. /\ TypeOK /\ Unopened /\ files \in [Sessions -> Dirs] /\ None \notin Terminal
  BY NoneAssumption DEF PlaceInv, TypeOK, Dirs, Status
<1>1. /\ UNCHANGED <<table, recon, review, pass, masked>> /\ raced \subseteq raced'
      /\ writer.pc = "idle" /\ writer'.sid = s /\ writer'.pc = "start"
      /\ ~files[s].open
  BY DEF Open, NoWriter
<1>2. /\ \A x \in Sessions \ {s} : files'[x] = files[x]
      /\ files'[s].final = files[s].final /\ files'[s].updates = files[s].updates
      /\ files'[s].facts = files[s].facts /\ files'[s].reviews = files[s].reviews
  BY <1>0 DEF Open, Dirs
<1>3. Accounted(s)'
  <2>1. /\ files'[s].final = None /\ files'[s].updates = {} /\ files'[s].facts = {}
        /\ files'[s].reviews = NoReviews /\ table'[s].reviews = NoReviews
    BY <1>0, <1>1, <1>2 DEF Unopened
  <2>2. HasRow(s)' /\ HasFacts(s)' /\ HasReviews(s)'
    BY <1>1, <2>1 DEF HasRow, HasFacts, HasReviews
  <2>3. HasEnd(s)'
    BY <1>0, <2>1 DEF HasEnd, Closed
  <2> QED BY <2>2, <2>3 DEF Accounted
<1>4. ASSUME NEW x \in Sessions \ {s}, Accounted(x)
      PROVE  Accounted(x)'
  <2>1. CASE x \in raced \/ Recovering(x)
    BY <1>1, <2>1 DEF Accounted, Recovering
  <2>2. CASE HasRow(x) /\ HasFacts(x) /\ HasReviews(x) /\ HasEnd(x)
    <3>1. HasRow(x)' /\ HasReviews(x)' /\ HasEnd(x)'
      BY <1>1, <1>2, <1>4, <2>2 DEF HasRow, HasReviews, HasEnd, Closed
    <3>2. HasFacts(x)'
      <4>1. Coming(x) = {}
        BY <1>1 DEF Coming
      <4> QED BY <1>1, <1>2, <1>4, <2>2, <4>1 DEF HasFacts
    <3> QED BY <3>1, <3>2 DEF Accounted
  <2> QED BY <1>4, <2>1, <2>2 DEF Accounted
<1>5. \A p \in Passes : /\ Underway(p)' <=> Underway(p)
                        /\ Underway(p) => pass'[p] = pass[p]
  BY <1>1 DEF Underway
<1>6. \A x \in Sessions :
        files'[x].open /\ (files[x].open => Accounted(x)) => Accounted(x)'
  BY <1>2, <1>3, <1>4
<1> QED BY <1>1, <1>5, <1>6, TruthKept

LEMMA RecoverTruth ==
  ASSUME PlaceInv, RecoverPlace, Truth, NEW p \in Passes,
         \/ \E s \in Sessions : RecoverCheck(p, s)
         \/ RecoverRead(p) \/ RecoverWrite(p) \/ RecoverWriteFails(p)
  PROVE  Truth'
<1>0. /\ files \in [Sessions -> Dirs] /\ pass \in [Passes -> Progress]
      /\ pass[p].pc \in {"idle", "checked", "read"}
      /\ UNCHANGED <<table, recon, writer, review, masked>> /\ raced \subseteq raced'
      /\ \A q \in Passes \ {p} : pass'[q] = pass[q]
  BY DEF PlaceInv, TypeOK, Dirs, Progress, RecoverCheck, RecoverRead, RecoverWrite,
         RecoverWriteFails, Overtakes
<1>1. /\ pass'[p].pc \in {"idle", "checked", "read", "recovered"}
      /\ RecoverWrite(p) => pass'[p].pc = "recovered" /\ pass'[p].sid = pass[p].sid
  <2>1. pass[p] \in Progress
    BY <1>0
  <2>2. ASSUME NEW s \in Sessions, RecoverCheck(p, s)
        PROVE  pass'[p].pc = "checked" /\ ~RecoverWrite(p)
    <3>1. pass' = [pass EXCEPT ![p] = [pass[p] EXCEPT !.pc = "checked", !.sid = s]]
      BY <2>2 DEF RecoverCheck
    <3>2. ~RecoverWrite(p)
      BY <2>2 DEF RecoverCheck, RecoverWrite
    <3> QED BY <1>0, <2>1, <3>1, <3>2 DEF Progress
  <2>3. CASE RecoverRead(p)
    BY <1>0, <2>1, <2>3 DEF RecoverRead, RecoverWrite, Progress, NoPass
  <2>4. CASE RecoverWrite(p)
    BY <1>0, <2>1, <2>4 DEF RecoverWrite, Progress
  <2>5. CASE RecoverWriteFails(p) /\ ~RecoverWrite(p)
    BY <1>0, <2>5 DEF RecoverWriteFails, NoPass
  <2> QED BY <2>2, <2>3, <2>4, <2>5
<1>2. \A q \in Passes : /\ Underway(q)' <=> Underway(q)
                        /\ Underway(q) => pass'[q] = pass[q]
  BY <1>0, <1>1 DEF Underway
<1>3. ASSUME NEW x \in Sessions, Accounted(x), files'[x] = files[x]
      PROVE  Accounted(x)'
  <2>1. \A q \in Passes : pass[q].pc = "recovered" => pass'[q] = pass[q]
    BY <1>0
  <2> QED BY <1>0, <1>3, <2>1, OthersKept
<1>4. CASE UNCHANGED files
  BY <1>0, <1>2, <1>3, <1>4, TruthKept
<1>5. CASE RecoverWrite(p) \/ RecoverWriteFails(p)
  <2>1. PICK s \in Sessions :
          s = pass[p].sid /\ files[s].open /\ (s \in raced \/ ~Closed(s))
    BY <1>5 DEF RecoverPlace, RecoverWrite, RecoverWriteFails
  <2>2. \A x \in Sessions \ {s} : files'[x] = files[x]
    BY <1>0, <1>5, <2>1 DEF RecoverWrite, RecoverWriteFails
  <2>3. ASSUME Accounted(s)
        PROVE  Accounted(s)'
    <3>1. CASE RecoverWrite(p)
      BY <1>1, <2>1, <3>1 DEF Accounted, Recovering
    <3>2. CASE RecoverWriteFails(p)
      <4>1. files' = files \/ files' = [files EXCEPT ![s].final = "torn"]
        BY <2>1, <3>2 DEF RecoverWriteFails
      <4>2. /\ files'[s].updates = files[s].updates /\ files'[s].facts = files[s].facts
            /\ files'[s].reviews = files[s].reviews
            /\ files'[s].final \in {files[s].final, "torn"}
        BY <1>0, <2>1, <4>1, TornFinal
      <4>3. CASE s \in raced \/ Recovering(s)
        BY <1>0, <4>3 DEF Accounted, Recovering
      <4>4. CASE s \notin raced /\ HasRow(s) /\ HasFacts(s) /\ HasReviews(s)
        <5>1. HasRow(s)' /\ HasReviews(s)'
          BY <1>0, <4>2, <4>4 DEF HasRow, HasReviews
        <5>2. HasEnd(s)'
          BY <2>1, <4>2, <4>4 DEF HasEnd, Closed, Terminal
        <5>3. Coming(s)' = Coming(s)
          BY <1>0 DEF Coming, Known
        <5>4. HasFacts(s)'
          BY <1>0, <4>2, <4>4, <5>3 DEF HasFacts
        <5> QED BY <5>1, <5>2, <5>4 DEF Accounted
      <4> QED BY <2>3, <4>3, <4>4 DEF Accounted
    <3> QED BY <1>5, <3>1, <3>2
  <2>4. \A x \in Sessions :
          files'[x].open /\ (files[x].open => Accounted(x)) => Accounted(x)'
    BY <1>3, <2>1, <2>2, <2>3
  <2> QED BY <1>0, <1>2, <2>4, TruthKept
<1> QED BY <1>4, <1>5 DEF RecoverCheck, RecoverRead

\* What a pass found consistent is accounted for.
LEMMA ConsistentAccounted ==
  ASSUME PlaceInv, NEW s \in Sessions, Consistent(s), Closed(s)
  PROVE  Accounted(s)
<1>1. HasRow(s)
  BY NoneAssumption DEF Consistent, Closed, HasRow, Terminal, Status
<1>2. HasFacts(s) /\ HasReviews(s) /\ HasEnd(s)
  BY DEF Consistent, HasFacts, HasReviews, HasEnd
<1> QED BY <1>1, <1>2 DEF Accounted

\* The only pass under way moves on: it is done with no more sessions than it
\* was, or than it has just found consistent, or it is not clean.
LEMMA PassOnTruth ==
  ASSUME PlaceInv, Truth, NEW p \in Passes, Underway(p), Underway(p)',
         UNCHANGED <<recon, masked, writer, files, raced>>,
         \A q \in Passes \ {p} : pass'[q] = pass[q],
         \A r \in Reviewers : /\ review'[r].pc = review[r].pc
                              /\ review'[r].sid = review[r].sid
                              /\ review'[r].fact = review[r].fact,
         \A x \in Sessions \ {pass[p].sid} : table'[x] = table[x],
         pass'[p].clean =>
           /\ pass[p].clean
           /\ \A x \in Sessions \ (pass'[p].todo \cup {pass'[p].sid}) :
                \/ x \notin pass[p].todo \cup {pass[p].sid}
                \/ Consistent(x) /\ Closed(x) /\ table'[x] = table[x]
  PROVE  Truth'
<1> SUFFICES ASSUME ~masked'
             PROVE  Truth'
  BY DEF Truth
<1>1. /\ ~masked
      /\ \A q, x \in Passes : Underway(q) /\ Underway(x) => q = x
      /\ pass[p].clean =>
           \A x \in Sessions \ (pass[p].todo \cup {pass[p].sid}) :
             files[x].open => Accounted(x)
  BY DEF Truth
<1>2. \A q \in Passes : Underway(q)' <=> q = p
  BY <1>1 DEF Underway
<1>3. PassUnderway'
  BY <1>2 DEF PassUnderway, Underway
<1>4. ASSUME NEW x \in Sessions, Accounted(x), table'[x] = table[x]
      PROVE  Accounted(x)'
  <2>1. \A q \in Passes : pass[q].pc = "recovered" => pass'[q] = pass[q]
    BY DEF Underway
  <2> QED BY <1>4, <2>1, OthersKept
<1>5. ASSUME pass'[p].clean, NEW x \in Sessions \ (pass'[p].todo \cup {pass'[p].sid}),
             files'[x].open
      PROVE  Accounted(x)'
  <2>1. CASE x \notin pass[p].todo \cup {pass[p].sid}
    BY <1>1, <1>4, <1>5, <2>1
  <2>2. CASE Consistent(x) /\ Closed(x) /\ table'[x] = table[x]
    BY <1>4, <2>2, ConsistentAccounted
  <2> QED BY <1>5, <2>1, <2>2
<1> QED BY <1>2, <1>3, <1>5 DEF Truth

LEMMA ScanTruth ==
  ASSUME PlaceInv, Truth, NEW p \in Passes, NEW s \in Sessions,
         PassVisit(p, s) \/ PassVisitFails(p, s)
  PROVE  Truth'
<1>0. /\ pass \in [Passes -> Progress] /\ pass[p] \in Progress /\ pass[p].pc = "scan"
      /\ pass[p].sid = None /\ None \notin Sessions
      /\ UNCHANGED <<recon, masked, writer, files, table, review, raced>>
      /\ \A q \in Passes \ {p} : pass'[q] = pass[q]
  BY NoneAssumption
     DEF PlaceInv, TypeOK, Progress, PassPlace, Rebuildable, PassVisit, PassVisitFails
<1> DEFINE visited == [pass[p] EXCEPT !.todo = @ \ {s}]
<1>1. /\ visited.todo = pass[p].todo \ {s} /\ visited.sid = None
      /\ visited.pc = "scan" /\ visited.clean = pass[p].clean /\ visited \in Progress
  BY <1>0 DEF Progress
<1> HIDE DEF visited
<1>2. CASE pass'[p] = [visited EXCEPT !.clean = FALSE]
  <2>1. pass'[p].pc = "scan" /\ ~pass'[p].clean
    BY <1>1, <1>2 DEF Progress
  <2>2. Underway(p) /\ Underway(p)'
    BY <1>0, <2>1 DEF Underway
  <2> QED BY <1>0, <2>1, <2>2, PassOnTruth
<1>3. CASE pass'[p] = visited /\ Consistent(s) /\ Closed(s)
  <2>1. Underway(p) /\ Underway(p)'
    BY <1>0, <1>1, <1>3 DEF Underway
  <2>2. pass'[p].clean =>
          /\ pass[p].clean
          /\ \A x \in Sessions \ (pass'[p].todo \cup {pass'[p].sid}) :
               \/ x \notin pass[p].todo \cup {pass[p].sid}
               \/ Consistent(x) /\ Closed(x) /\ table'[x] = table[x]
    BY <1>0, <1>1, <1>3
  <2> QED BY <1>0, <2>1, <2>2, PassOnTruth
<1>4. CASE pass'[p] = [visited EXCEPT !.pc = "delete", !.sid = s]
  <2>1. /\ pass'[p].pc = "delete" /\ pass'[p].sid = s
        /\ pass'[p].todo = pass[p].todo \ {s} /\ pass'[p].clean = pass[p].clean
    BY <1>1, <1>4 DEF Progress
  <2>2. Underway(p) /\ Underway(p)'
    BY <1>0, <2>1 DEF Underway
  <2>3. pass'[p].clean =>
          /\ pass[p].clean
          /\ \A x \in Sessions \ (pass'[p].todo \cup {pass'[p].sid}) :
               \/ x \notin pass[p].todo \cup {pass[p].sid}
               \/ Consistent(x) /\ Closed(x) /\ table'[x] = table[x]
    BY <1>0, <2>1
  <2> QED BY <1>0, <2>2, <2>3, PassOnTruth
<1>5. CASE PassVisitFails(p, s)
  <2>1. pass'[p] = [visited EXCEPT !.clean = FALSE]
    BY <1>0, <1>5 DEF PassVisitFails, visited
  <2> QED BY <1>2, <2>1
<1>6. CASE PassVisit(p, s)
  <2>1. pass'[p] = IF Unreadable(s) \/ files[s].final = None
                   THEN [visited EXCEPT !.clean = FALSE]
                   ELSE IF Consistent(s) THEN visited
                   ELSE [visited EXCEPT !.pc = "delete", !.sid = s]
    BY <1>0, <1>6 DEF PassVisit, visited
  <2>2. Closed(s) \/ Unreadable(s) \/ files[s].final = None
    BY ClosedFacts
  <2> QED BY <1>2, <1>3, <1>4, <2>1, <2>2
<1> QED BY <1>5, <1>6

LEMMA RebuildTruth ==
  ASSUME PlaceInv, Truth, NEW p \in Passes,
         \/ PassDelete(p) \/ PassInsert(p) \/ PassReplay(p) \/ PassFinalize(p)
         \/ PassReviews(p) \/ PassVerify(p) \/ PassSqlFails(p)
  PROVE  Truth'
<1>0. /\ pass \in [Passes -> Progress] /\ pass[p] \in Progress
      /\ pass[p].pc \in Rebuild /\ Rebuildable(pass[p].sid)
      /\ UNCHANGED <<recon, masked, writer, files, raced>>
      /\ \A x \in Sessions \ {pass[p].sid} : table'[x] = table[x]
      /\ review \in [Reviewers -> Requests]
  BY RebuildPlaces DEF PlaceInv, TypeOK, Progress, Requests, PassPlace, Rebuildable, PassDelete,
     PassInsert, PassReplay, PassFinalize, PassReviews, PassVerify, PassSqlFails,
     Rebuild, RebuildRows
<1>1. \A q \in Passes \ {p} : pass'[q] = pass[q]
  BY <1>0 DEF PassDelete, PassInsert, PassReplay, PassFinalize, PassReviews,
     PassVerify, PassSqlFails, Step, SessionFails
<1>2. \A r \in Reviewers : /\ review'[r].pc = review[r].pc
                           /\ review'[r].sid = review[r].sid
                           /\ review'[r].fact = review[r].fact
  <2>1. CASE UNCHANGED review
    BY <2>1
  <2>2. CASE PassDelete(p) /\ review' # review
    BY <1>0, <2>2 DEF PassDelete, Requests
  <2> QED BY <2>1, <2>2 DEF PassInsert, PassReplay, PassFinalize, PassReviews,
             PassVerify, PassSqlFails
<1>3. \/ /\ pass'[p].pc \in Rebuild /\ pass'[p].sid = pass[p].sid
         /\ pass'[p].todo = pass[p].todo /\ pass'[p].clean = pass[p].clean
      \/ pass'[p].pc = "scan" /\ ~pass'[p].clean
      \/ /\ pass'[p].pc = "scan" /\ pass'[p].clean = pass[p].clean
         /\ pass'[p].todo = pass[p].todo /\ pass'[p].sid = None
         /\ Consistent(pass[p].sid) /\ Closed(pass[p].sid) /\ UNCHANGED table
  <2>1. ASSUME NEW pc \in Rebuild, Step(p, pc)
        PROVE  /\ pass'[p].pc = pc /\ pass'[p].sid = pass[p].sid
               /\ pass'[p].todo = pass[p].todo /\ pass'[p].clean = pass[p].clean
    BY <1>0, <2>1 DEF Step, Progress
  <2>2. ASSUME SessionFails(p)
        PROVE  pass'[p].pc = "scan" /\ ~pass'[p].clean
    BY <1>0, <2>2 DEF SessionFails, Progress
  <2>3. CASE PassVerify(p) /\ Consistent(pass[p].sid) /\ ~Unreadable(pass[p].sid)
    <3>1. Closed(pass[p].sid)
      BY <1>0, <2>3, ClosedFacts DEF Rebuildable
    <3>2. /\ pass'[p] = [pass[p] EXCEPT !.pc = "scan", !.sid = None]
          /\ UNCHANGED table
      BY <1>0, <2>3 DEF PassVerify
    <3> QED BY <1>0, <2>3, <3>1, <3>2 DEF Progress
  <2>4. CASE ~(PassVerify(p) /\ Consistent(pass[p].sid) /\ ~Unreadable(pass[p].sid))
    <3>1. (\E pc \in Rebuild : Step(p, pc)) \/ SessionFails(p) \/ pass' = pass
      BY <2>4 DEF PassDelete, PassInsert, PassReplay, PassFinalize, PassReviews,
         PassVerify, PassSqlFails, Rebuild
    <3> QED BY <1>0, <2>1, <2>2, <3>1
  <2> QED BY <2>3, <2>4
<1>4. Underway(p) /\ Underway(p)'
  BY <1>0, <1>3 DEF Underway, Rebuild
<1>5. pass'[p].clean =>
        /\ pass[p].clean
        /\ \A x \in Sessions \ (pass'[p].todo \cup {pass'[p].sid}) :
             \/ x \notin pass[p].todo \cup {pass[p].sid}
             \/ Consistent(x) /\ Closed(x) /\ table'[x] = table[x]
  BY <1>0, <1>3
<1> QED BY <1>0, <1>1, <1>2, <1>4, <1>5, PassOnTruth

LEMMA VerdictTruth ==
  ASSUME PlaceInv, Truth, NEW p \in Passes,
         \/ PassRaises(p) \/ PassRelease(p) \/ PassPublish(p) \/ PassBegin(p)
         \/ RecoverRefused(p)
  PROVE  Truth'
<1>0. /\ pass \in [Passes -> Progress] /\ pass[p] \in Progress /\ PassPlace
      /\ UNCHANGED <<writer, files, table, review, raced>>
      /\ None \notin Sessions
      /\ \A q \in Passes \ {p} : pass'[q] = pass[q]
  BY NoneAssumption DEF PlaceInv, TypeOK, Progress, PassRaises, PassRelease, Step,
     PassPublish, PassBegin, RecoverRefused
<1>1. CASE RecoverRefused(p)
  BY <1>1 DEF RecoverRefused, Truth
<1>2. CASE PassRaises(p) \/ PassPublish(p)
  <2>1. /\ Underway(p) /\ ~Underway(p)' /\ UNCHANGED masked
        /\ recon' \in {"DEGRADED", "DIRTY", "READY"}
        /\ recon' = "READY" => PassPublish(p) /\ pass[p].clean
    BY <1>0, <1>2 DEF PassRaises, PassPublish, Underway, NoPass
  <2> SUFFICES ASSUME ~masked'
               PROVE  Truth'
    BY DEF Truth
  <2>2. \A q \in Passes : ~Underway(q)'
    BY <1>0, <2>1 DEF Truth, Underway
  <2>3. ASSUME recon' = "READY", NEW s \in Sessions, files'[s].open
        PROVE  Accounted(s)'
    <3>1. pass[p].todo = {} /\ pass[p].sid = None /\ pass[p].clean
      BY <1>0, <2>1, <2>3 DEF PassPublish, PassPlace, Rebuildable
    <3>2. Accounted(s)
      BY <1>0, <2>1, <2>3, <3>1 DEF Truth
    <3>3. \A q \in Passes : pass[q].pc = "recovered" => pass'[q] = pass[q]
      BY <1>0, <2>1 DEF Underway
    <3> QED BY <1>0, <3>2, <3>3, OthersKept
  <2> QED BY <2>1, <2>2, <2>3 DEF Truth
<1>3. CASE PassRelease(p)
  <2>1. /\ pass'[p].pc = "publish" /\ pass'[p].sid = pass[p].sid
        /\ pass'[p].todo = pass[p].todo /\ pass'[p].clean = pass[p].clean
        /\ UNCHANGED <<recon, masked>> /\ pass[p].pc = "scan"
    BY <1>0, <1>3 DEF PassRelease, Step, Progress
  <2>2. Underway(p) /\ Underway(p)'
    BY <2>1 DEF Underway
  <2> QED BY <1>0, <2>1, <2>2, PassOnTruth
<1>4. CASE PassBegin(p)
  <2>1. /\ pass'[p].pc = "scan" /\ pass'[p].todo = {s \in Sessions : files[s].open}
        /\ recon' = "RUNNING" /\ masked' = PassUnderway
    BY <1>0, <1>4 DEF PassBegin
  <2> SUFFICES ASSUME ~masked'
               PROVE  Truth'
    BY DEF Truth
  <2>2. \A q \in Passes : Underway(q)' <=> q = p
    BY <1>0, <2>1, UnderwayIs DEF Underway
  <2>3. PassUnderway'
    BY <2>2 DEF PassUnderway, Underway
  <2>4. ASSUME NEW x \in Sessions \ (pass'[p].todo \cup {pass'[p].sid}), files'[x].open
        PROVE  FALSE
    BY <1>0, <2>1, <2>4
  <2> QED BY <2>1, <2>2, <2>3, <2>4 DEF Truth
<1> QED BY <1>1, <1>2, <1>3, <1>4

LEMMA TruthStep == PlaceInv /\ RecoverPlace /\ Truth /\ [Next]_vars => Truth'
<1> SUFFICES ASSUME PlaceInv, RecoverPlace, Truth, [Next]_vars
             PROVE  Truth'
  OBVIOUS
<1>1. CASE UNCHANGED vars
  <2>1. UNCHANGED <<files, table, recon, writer, review, pass, masked, raced>>
    BY <1>1 DEF vars
  <2>2. \A s \in Sessions : Accounted(s) => Accounted(s)'
    BY <2>1, OthersKept
  <2>3. \A p \in Passes : /\ Underway(p)' <=> Underway(p)
                          /\ Underway(p) => pass'[p] = pass[p]
    BY <2>1 DEF Underway
  <2> QED BY <2>1, <2>2, <2>3, TruthKept
<1>2. CASE WriterStep
  BY <1>2, WriterTruth
<1>3. ASSUME NEW s \in Sessions,
             Open(s) \/ \E p \in Passes : RecoverCheck(p, s)
      PROVE  Truth'
  BY <1>3, OpenTruth, RecoverTruth
<1>4. ASSUME NEW r \in Reviewers, ReviewStep(r)
      PROVE  Truth'
  BY <1>4, RequestTruth
<1>5. ASSUME NEW r \in Reviewers, NEW s \in Sessions, NEW v \in Violations,
             NEW d \in Decisions, ReviewLookup(r, s, v, d)
      PROVE  Truth'
  BY <1>5, RequestTruth
<1>6. ASSUME NEW p \in Passes, PassBegin(p) \/ PassStep(p)
      PROVE  Truth'
  BY <1>6, ScanTruth, RebuildTruth, VerdictTruth, RecoverTruth DEF PassStep
<1>7. CASE Crash
  BY <1>7 DEF Crash, Truth, Underway, NoPass
<1> QED BY <1>1, <1>2, <1>3, <1>4, <1>5, <1>6, <1>7 DEF Next

\* READY means that the query store holds what the audit files say of every
\* session nobody is working on, unless a write was lost in a way the status
\* cannot show.
THEOREM ReadyTellsTheTruth == Spec => []ReadyIsTruthful
<1>1. PlaceInv /\ Truth => ReadyIsTruthful
  <2> SUFFICES ASSUME PlaceInv, Truth, ~masked, recon = "READY", ~PassUnderway,
                      NEW s \in Sessions \ raced, files[s].open, Settled(s)
               PROVE  Complete(s)
    BY DEF ReadyIsTruthful, ReadyMeansComplete
  <2>1. Accounted(s)
    BY DEF Truth
  <2>2. ~Recovering(s)
    BY DEF Settled, Recovering
  <2>3. HasFacts(s) /\ HasReviews(s) /\ HasEnd(s)
    BY <2>1, <2>2 DEF Accounted
  <2>4. Coming(s) = {}
    BY DEF Settled, Coming
  <2>5. files[s].updates \cup files[s].facts \subseteq table[s].facts
    BY <2>3, <2>4 DEF HasFacts
  <2>6. table[s].reviews = files[s].reviews
    <3>1. table[s].reviews \in Reviews /\ files[s].reviews \in Reviews
      BY DEF PlaceInv, TypeOK
    <3>2. \A v \in Violations : table[s].reviews[v] = files[s].reviews[v]
      BY <2>3 DEF HasReviews, Settled
    <3> QED BY <3>1, <3>2 DEF Reviews
  <2>7. Closed(s) => table[s].status = files[s].final
    BY <2>3 DEF HasEnd, Settled
  <2> QED BY <2>5, <2>6, <2>7 DEF Complete
<1> QED BY <1>1, TruthInit, TruthStep, PlaceAlways, PTL DEF Spec
=============================================================================
