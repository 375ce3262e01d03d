---------------------------- MODULE Workstation ----------------------------
(***************************************************************************)
(* What the session controller promises to a workstation: its sessions     *)
(* take turns.  Each id is used once.  The session that has the turn runs, *)
(* gets its final.json and then gives up the turn, and what the controller *)
(* reports of it agrees with that file.  SessionController implements this *)
(* as long as no two callers finish one session at a time.                 *)
(***************************************************************************)
CONSTANTS Sessions,  \* session ids
          None       \* Python's None

VARIABLES
  turn,    \* the session that has the turn, or None
  opened,  \* the ids used so far
  closed,  \* per session the status in final.json, or None
  report   \* what GET /session/current says: [id, status], or None

vars == <<turn, opened, closed, report>>

Terminal == {"COMPLETED", "ABORTED"}

Reported(status) == [id |-> turn, status |-> status]
Running == turn # None /\ report = Reported("RUNNING")

Init ==
  /\ turn = None /\ report = None
  /\ opened = {}
  /\ closed = [s \in Sessions |-> None]

Take(s) ==
  /\ turn = None /\ s \notin opened
  /\ turn' = s
  /\ opened' = opened \cup {s}
  /\ UNCHANGED <<closed, report>>

\* A start that is refused may use its id up all the same.
Waste(s) ==
  /\ turn = None
  /\ opened' = opened \cup {s}
  /\ UNCHANGED <<turn, closed, report>>

Run ==
  /\ turn # None /\ ~Running
  /\ report' = Reported("RUNNING")
  /\ UNCHANGED <<turn, opened, closed>>

\* A start that fails gives the turn back.
Fail ==
  /\ turn # None /\ ~Running /\ closed[turn] = None
  /\ turn' = None /\ report' = None
  /\ closed' \in {closed, [closed EXCEPT ![turn] = "ABORTED"]}
  /\ UNCHANGED opened

Close(status) ==
  /\ Running /\ closed[turn] = None
  /\ closed' = [closed EXCEPT ![turn] = status]
  /\ UNCHANGED <<turn, opened, report>>

\* The file that could not be written is missing, but never says otherwise.
End(status) ==
  /\ Running /\ closed[turn] \in {None, status}
  /\ turn' = None
  /\ report' = Reported(status)
  /\ UNCHANGED <<opened, closed>>

Next ==
  \/ \E s \in Sessions : Take(s) \/ Waste(s)
  \/ Run \/ Fail
  \/ \E status \in Terminal : Close(status) \/ End(status)

Spec == Init /\ [][Next]_vars
=============================================================================
