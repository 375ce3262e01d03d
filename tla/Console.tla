------------------------------ MODULE Console ------------------------------
(***************************************************************************)
(* The operator's web console (web_console_assets.py) and what it talks    *)
(* to: the session API, the realtime tickets, and the realtime stream,     *)
(* which always sends the latest event of the broker.                      *)
(*                                                                         *)
(* The console is one JavaScript thread: what runs between two awaits is   *)
(* one action.  Everything it awaits stays in flight meanwhile: it asks,   *)
(* the server answers with what is the case at that moment, and the answer *)
(* is taken up later, after whatever the operator did and whatever other   *)
(* answers, timers and messages came first.                                *)
(*                                                                         *)
(* The session's evaluation, the health and the lists of the page are read *)
(* and drawn together with the session, and stand for nothing of their own *)
(* here.  The evidence of earlier sessions has a module of its own, and    *)
(* shares the page with the rest.  A definition named <Action>_<Bug> is    *)
(* that action with a plausible bug, and used by the mutation runs only.   *)
(***************************************************************************)
EXTENDS EvidenceViewer, Sequences, FiniteSets, SequencesExt

CONSTANTS Keys,        \* what tells alerts apart: rule and event id
          Tickets,     \* a ticket, and the socket and stream it opens
          Calls,       \* startRealtime() calls that may wait at once
          Pushes,      \* realtime refreshes that may wait at once
          Cap          \* the most alerts kept (100)

ASSUME NullAssumption == Null \notin Tickets \cup Keys
ASSUME TicketAssumption == IsFiniteSet(Tickets)
\* Of Bounds, Console uses those on the sessions started, the events published,
\* the clicks on connect, and what fails: requests, sockets, tickets.
ASSUME CapAssumption == Cap \in Nat \ {0}

VARIABLES
  server,     \* the newest session, and whether it runs
  latest,     \* the broker's latest event, and the alert it brings
  issued,     \* the tickets that may still be consumed
  connected,  \* state.connected
  connecting, \* connect() calls, by what they wait for
  polling,    \* the interval timer is set
  hidden,     \* document.hidden: the page is in a tab that is not shown
  shown,      \* state.currentSession
  refreshing, \* state.refreshing
  load,       \* refreshAll(): who called it, and the answer
  pushTimer,  \* state.realtimeRefresh is set
  push,       \* the realtime refreshes in flight
  asking,     \* the startRealtime() calls in flight
  socket,     \* state.socket
  sockets,    \* every socket, and the last event that was sent on it
  retry,      \* state.realtimeRetry is set
  stray,      \* timers it was set to before, and that still run
  rows,       \* state.qualityIncidents
  keys,       \* state.qualityIncidentKeys
  request     \* finishSession(): the session it names, and what it ended

serverVars == <<server, latest, issued>>
session == <<connected, connecting, polling, hidden>>
view == <<shown, refreshing, load, pushTimer, push>>
realtime == <<asking, socket, sockets, retry, stray>>
alerts == <<rows, keys>>
pageVars == <<serverVars, session, view, realtime, alerts, request>>
consoleVars == <<pageVars, left, viewerVars>>

Sessions == [sid : Nat \ {0}, running : BOOLEAN]
Answers == [done : BOOLEAN, session : Sessions \cup {Null}]
Loads == [by : {"connect", "poll", "operator"}, answer : Answers]
ASSUME LoadAssumption == Null \notin Loads

Current == IF server.sid = 0 THEN Null ELSE server
Sent == "sent"
\* A read of the session in flight: asked for, then answered.
Asked == [done |-> FALSE, session |-> Null]
Answered(value) == [done |-> TRUE, session |-> value]
Socket(state, sequence) == [state |-> state, sequence |-> sequence]
Closed == Socket("closed", 0)

ConsoleInit ==
  /\ left \in Bounds
  /\ ViewerInit
  /\ server = [sid |-> 0, running |-> FALSE]
  /\ latest = [sequence |-> 0, key |-> Null]
  /\ issued = {}
  /\ connected = FALSE
  /\ connecting = [auth |-> 0, refresh |-> 0, preflight |-> 0]
  /\ polling = FALSE /\ hidden = FALSE
  /\ shown = Null /\ refreshing = FALSE /\ load = Null
  /\ pushTimer = FALSE /\ push = [p \in Pushes |-> Null]
  /\ asking = [c \in Calls |-> Null]
  /\ socket = Null
  /\ sockets = [t \in Tickets |-> Closed]
  /\ retry = FALSE /\ stray = 0
  /\ rows = <<>> /\ keys = {}
  /\ request = Null

Failing == Spend("faults")

(***************************************************************************)
(* The server.                                                             *)
(***************************************************************************)
\* A session is started or ended, by this console or another one.
SessionStarts ==
  /\ ~server.running /\ Spend("sessions")
  /\ server' = [sid |-> server.sid + 1, running |-> TRUE]
  /\ UNCHANGED <<latest, issued, session, view, realtime, alerts, request>>

SessionEnds ==
  /\ server.running
  /\ server' = [server EXCEPT !.running = FALSE]
  /\ UNCHANGED <<latest, issued, left, session, view, realtime,
                 alerts, request>>

\* The broker keeps the latest event only.  It may bring a severe violation;
\* event ids start over in every session, so that keys come again.
PublishEvent ==
  /\ Spend("events")
  /\ \E key \in Keys \cup {Null} :
       latest' = [sequence |-> latest.sequence + 1, key |-> key]
  /\ UNCHANGED <<server, issued, session, view, realtime,
                 alerts, request>>

\* A ticket is given to a call that asked for one.
Free(t) ==
  /\ t \notin issued /\ sockets[t] = Closed /\ socket # t
  /\ \A c \in Calls : asking[c] # t

Issue(c, t) ==
  /\ asking[c] = Sent /\ Free(t)
  /\ issued' = issued \cup {t}
  /\ asking' = [asking EXCEPT ![c] = t]
  /\ UNCHANGED <<server, latest, left, session, view, socket, sockets,
                 retry, stray, alerts, request>>

\* A ticket expires, or makes room for newer ones; that of a socket that was
\* closed before the handshake does so in any case.
TicketLost(t) ==
  /\ t \in issued
  /\ IF sockets[t] = Closed /\ \A c \in Calls : asking[c] # t
     THEN UNCHANGED left ELSE Failing
  /\ issued' = issued \ {t}
  /\ UNCHANGED <<server, latest, session, view, realtime, alerts,
                 request>>

\* setTimeout(startRealtime): a timer that was set before goes on running.
SetRetry ==
  IF connected
  THEN retry' = TRUE /\ stray' = (IF retry THEN stray + 1 ELSE stray)
  ELSE UNCHANGED <<retry, stray>>

\* The handshake consumes the ticket.  Without one the server closes the
\* socket, and the console's onclose tries again.
Accept(t) ==
  /\ sockets[t].state = "connecting" /\ t \in issued
  /\ sockets' = [sockets EXCEPT ![t] = Socket("open", 0)]
  /\ issued' = issued \ {t}
  /\ UNCHANGED <<server, latest, left, session, view, asking, socket,
                 retry, stray, alerts, request>>

Reject(t) ==
  /\ sockets[t].state = "connecting" /\ t \notin issued
  /\ sockets' = [sockets EXCEPT ![t] = Closed]
  /\ SetRetry
  /\ UNCHANGED <<serverVars, left, session, view, asking, socket, alerts,
                 request>>

(***************************************************************************)
(* refreshAll(): at most one at a time.                                    *)
(***************************************************************************)
\* A connected console calls refreshAll(); by is who awaits it.
Refresh(by) ==
  IF ~refreshing
  THEN refreshing' = TRUE /\ load' = [by |-> by, answer |-> Asked]
  ELSE UNCHANGED <<refreshing, load>>

\* optionalApi() answers null when the request fails.
LoadAnswered ==
  /\ load # Null /\ ~load.answer.done
  /\ \/ load' = [load EXCEPT !.answer = Answered(Current)] /\ UNCHANGED left
     \/ load' = [load EXCEPT !.answer = Answered(Null)] /\ Failing
  /\ UNCHANGED <<serverVars, session, shown, refreshing, pushTimer, push,
                 realtime, alerts, request>>

\* Bug: refreshing is not reset when there is no session.
LoadDrawn_Stuck ==
  /\ load # Null /\ load.answer.done
  /\ shown' = load.answer.session
  /\ refreshing' = (load.answer.session = Null)
  /\ load' = Null
  /\ connecting' = IF load.by = "connect"
       THEN [connecting EXCEPT !.refresh = @ - 1, !.preflight = @ + 1]
       ELSE connecting
  /\ UNCHANGED <<serverVars, left, connected, polling, hidden, pushTimer,
                 push, realtime, alerts, request>>

LoadDrawn ==
  /\ load # Null /\ load.answer.done
  /\ shown' = load.answer.session
  /\ refreshing' = FALSE
  /\ load' = Null
  /\ connecting' = IF load.by = "connect"
       THEN [connecting EXCEPT !.refresh = @ - 1, !.preflight = @ + 1]
       ELSE connecting
  /\ UNCHANGED <<serverVars, left, connected, polling, hidden, pushTimer,
                 push, realtime, alerts, request>>

\* Bug: the session is polled only while there is no stream to push it.
Poll_WithoutStream ==
  /\ polling /\ connected /\ ~refreshing /\ ~hidden /\ socket = Null
  /\ Refresh("poll")
  /\ UNCHANGED <<serverVars, left, session, shown, pushTimer, push, realtime,
                 alerts, request>>

\* The interval goes on while the page is hidden, and does nothing.
Poll ==
  /\ polling /\ connected /\ ~refreshing /\ ~hidden
  /\ Refresh("poll")
  /\ UNCHANGED <<serverVars, left, session, shown, pushTimer, push, realtime,
                 alerts, request>>

(***************************************************************************)
(* The realtime stream.                                                    *)
(***************************************************************************)
\* stopRealtime(): the socket and the timers that state still knows.  The
\* onclose of that socket is taken away.
StopRealtime ==
  /\ retry' = FALSE /\ pushTimer' = FALSE
  /\ socket' = Null
  /\ sockets' = IF socket = Null THEN sockets
                ELSE [sockets EXCEPT ![socket] = Closed]

\* startRealtime() up to its first await.
StartRealtime ==
  \E c \in Calls :
    /\ asking[c] = Null
    /\ asking' = [asking EXCEPT ![c] = Sent]
    /\ StopRealtime

SocketOpened(c) ==
  /\ asking[c] \in Tickets
  /\ socket' = asking[c]
  /\ sockets' = [sockets EXCEPT ![asking[c]] = Socket("connecting", 0)]
  /\ asking' = [asking EXCEPT ![c] = Null]
  /\ UNCHANGED <<serverVars, left, session, view, retry, stray, alerts,
                 request>>

\* Bug: a request that fails is not tried again.
AskFails_GiveUp(c) ==
  /\ asking[c] = Sent /\ Failing
  /\ asking' = [asking EXCEPT ![c] = Null]
  /\ UNCHANGED <<serverVars, session, view, socket, sockets, retry, stray,
                 alerts, request>>

AskFails(c) ==
  /\ asking[c] = Sent /\ Failing
  /\ asking' = [asking EXCEPT ![c] = Null]
  /\ SetRetry
  /\ UNCHANGED <<serverVars, session, view, socket, sockets, alerts, request>>

\* The connection is lost, with what was under way on it.
SocketLost(t) ==
  /\ sockets[t].state = "open" /\ Failing
  /\ sockets' = [sockets EXCEPT ![t] = Closed]
  /\ SetRetry
  /\ UNCHANGED <<serverVars, session, view, asking, socket, alerts, request>>

\* A timer calls startRealtime(), which clears the other one if it goes on.
Retry ==
  /\ \/ retry /\ UNCHANGED stray
     \/ stray > 0 /\ stray' = stray - 1
  /\ IF connected THEN StartRealtime
     ELSE /\ retry' = (retry /\ stray' # stray)
          /\ UNCHANGED <<asking, socket, sockets, pushTimer>>
  /\ UNCHANGED <<serverVars, left, session, shown, refreshing, load, push,
                 alerts, request>>

\* captureRealtimeIncidents(): a new one goes to the front, and the oldest
\* makes room for it.
\* Bug: the key of a dropped alert is kept.
Captured_KeyKept(key) ==
  IF key = Null \/ key \in keys THEN UNCHANGED alerts
  ELSE /\ rows' = SubSeq(<<key>> \o rows, 1, IF Len(rows) < Cap
                                                  THEN Len(rows) + 1 ELSE Cap)
       /\ keys' = keys \cup {key}

Captured(key) ==
  IF key = Null \/ key \in keys THEN UNCHANGED alerts
  ELSE /\ rows' = SubSeq(<<key>> \o rows, 1, IF Len(rows) < Cap
                                                  THEN Len(rows) + 1 ELSE Cap)
       /\ keys' = IF Len(rows) < Cap THEN keys \cup {key}
                  ELSE (keys \cup {key}) \ {Last(rows)}

\* The realtime handler sends the latest event, if it is later than the last
\* it sent on the socket; the console's onmessage takes it up.
Receive(t) ==
  /\ sockets[t].state = "open" /\ latest.sequence > sockets[t].sequence
  /\ Captured(latest.key)
  /\ pushTimer' = TRUE
  /\ sockets' = [sockets EXCEPT ![t].sequence = latest.sequence]
  /\ UNCHANGED <<serverVars, left, session, shown, refreshing, load, push,
                 asking, socket, retry, stray, request>>

ClearAlerts ==
  /\ rows # <<>>
  /\ rows' = <<>> /\ keys' = {}
  /\ UNCHANGED <<serverVars, left, session, view, realtime, request>>

\* The refresh that a message asks for, 80 ms later.
PushFires(p) ==
  /\ pushTimer /\ push[p] = Null
  /\ pushTimer' = FALSE
  /\ push' = [push EXCEPT ![p] = Asked]
  /\ UNCHANGED <<serverVars, left, session, shown, refreshing, load, realtime,
                 alerts, request>>

PushAnswered(p) ==
  /\ push[p] = Asked
  /\ \/ push' = [push EXCEPT ![p] = Answered(Current)] /\ UNCHANGED left
     \/ push' = [push EXCEPT ![p] = Answered(Null)] /\ Failing
  /\ UNCHANGED <<serverVars, session, shown, refreshing, load, pushTimer,
                 realtime, alerts, request>>

PushDrawn(p) ==
  /\ push[p] # Null /\ push[p].done
  /\ shown' = push[p].session
  /\ push' = [push EXCEPT ![p] = Null]
  /\ UNCHANGED <<serverVars, left, session, refreshing, load, pushTimer,
                 realtime, alerts, request>>

(***************************************************************************)
(* connect() and disconnect().                                             *)
(***************************************************************************)
Connect ==
  /\ Spend("connects")
  /\ connecting' = [connecting EXCEPT !.auth = @ + 1]
  /\ UNCHANGED <<serverVars, connected, polling, hidden, view, realtime, alerts,
                 request>>

\* The operator turns to another tab, or back to this one.
TabSwitched ==
  /\ hidden' = ~hidden
  /\ UNCHANGED <<serverVars, left, connected, connecting, polling, view, realtime,
                 alerts, request>>

Authenticated ==
  /\ connecting.auth > 0
  /\ connected' = TRUE
  /\ Refresh("connect")
  /\ connecting' = IF refreshing
       THEN [connecting EXCEPT !.auth = @ - 1, !.preflight = @ + 1]
       ELSE [connecting EXCEPT !.auth = @ - 1, !.refresh = @ + 1]
  /\ UNCHANGED <<serverVars, left, polling, hidden, shown, pushTimer, push,
                 realtime, alerts, request>>

\* The request fails: timers and sockets of an earlier connect() live on.
AuthFails ==
  /\ connecting.auth > 0 /\ Failing
  /\ connected' = FALSE
  /\ connecting' = [connecting EXCEPT !.auth = @ - 1]
  /\ UNCHANGED <<serverVars, polling, hidden, view, realtime, alerts, request>>

\* After refreshPreflight(): startPolling() and startRealtime().
Connected ==
  /\ connecting.preflight > 0
  /\ connecting' = [connecting EXCEPT !.preflight = @ - 1]
  /\ polling' = TRUE
  /\ IF connected THEN StartRealtime
     ELSE UNCHANGED <<retry, asking, socket, sockets, pushTimer>>
  /\ UNCHANGED <<serverVars, left, connected, hidden, shown, refreshing, load,
                 push, stray, alerts, request>>

\* The operator's click, or an answer 401.
Disconnect ==
  /\ connected
  /\ connected' = FALSE /\ polling' = FALSE
  /\ StopRealtime
  /\ UNCHANGED <<serverVars, left, connecting, hidden, shown, refreshing, load,
                 push, asking, stray, alerts, request>>

(***************************************************************************)
(* finishSession(): stop and abort name the session that is shown.         *)
(***************************************************************************)
FinishClicked ==
  /\ connected /\ shown # Null /\ request = Null
  /\ request' = [named |-> shown.sid, pc |-> Sent, ended |-> 0]
  /\ UNCHANGED <<serverVars, left, session, view, realtime, alerts>>

FinishServed ==
  /\ request # Null /\ request.pc = Sent
  /\ IF server.running /\ server.sid = request.named
     THEN /\ server' = [server EXCEPT !.running = FALSE]
          /\ request' = [request EXCEPT !.pc = "ended", !.ended = server.sid]
     ELSE UNCHANGED server /\ request' = [request EXCEPT !.pc = "refused"]
  /\ UNCHANGED <<latest, issued, left, session, view, realtime,
                 alerts>>

FinishReturns ==
  /\ request # Null /\ request.pc # Sent
  /\ IF request.pc = "ended" /\ connected THEN Refresh("operator")
     ELSE UNCHANGED <<refreshing, load>>
  /\ request' = Null
  /\ UNCHANGED <<serverVars, left, session, shown, pushTimer, push, realtime,
                 alerts>>

\* reconcile() and reviewViolation(), like every other request of the operator,
\* end with a refresh.  What they do at the server is left to Persistence.
OperationReturns ==
  /\ connected /\ ~refreshing
  /\ Refresh("operator")
  /\ UNCHANGED <<serverVars, left, session, shown, pushTimer, push, realtime,
                 alerts, request>>

\* What goes on without the operator: answers, messages and timers.
Load == LoadAnswered \/ LoadDrawn
Connecting == Authenticated \/ Connected
Finish == FinishServed \/ FinishReturns
Ask(c) == SocketOpened(c) \/ \E t \in Tickets : Issue(c, t)
Stream(t) == Accept(t) \/ Reject(t) \/ Receive(t)
Push(p) == PushFires(p) \/ PushAnswered(p) \/ PushDrawn(p)

PageNext ==
  \/ Load \/ Poll \/ Retry \/ Connecting \/ Finish
  \/ \E c \in Calls : Ask(c) \/ AskFails(c)
  \/ \E t \in Tickets : Stream(t) \/ TicketLost(t) \/ SocketLost(t)
  \/ \E p \in Pushes : Push(p)
  \/ SessionStarts \/ SessionEnds \/ PublishEvent
  \/ ClearAlerts \/ TabSwitched \/ Connect \/ AuthFails \/ Disconnect
  \/ FinishClicked \/ OperationReturns

Alone == UNCHANGED viewerVars

ConsoleNext ==
  \/ PageNext /\ Alone
  \/ ViewerNext /\ UNCHANGED pageVars

ConsoleSpec == ConsoleInit /\ [][ConsoleNext]_consoleVars

\* Requests are answered, answers taken up, timers fire and messages arrive.
\* The operator, the camera process and the network owe nothing.
FairSpec ==
  /\ ConsoleSpec
  /\ WF_consoleVars(Load /\ Alone) /\ WF_consoleVars(Poll /\ Alone) /\ WF_consoleVars(Retry /\ Alone)
  /\ WF_consoleVars(Connecting /\ Alone) /\ WF_consoleVars(Finish /\ Alone)
  /\ \A c \in Calls : WF_consoleVars(Ask(c) /\ Alone)
  /\ \A t \in Tickets : WF_consoleVars(Stream(t) /\ Alone)
  /\ \A p \in Pushes : WF_consoleVars(Push(p) /\ Alone)

(***************************************************************************)
(* Properties.                                                             *)
(***************************************************************************)
\* Every variable keeps its type, and there is one refreshAll() at most.
ConsoleTypeOK ==
  /\ left \in [{"sessions", "events", "connects", "faults", "clicks", "moves"} -> Nat]
  /\ ViewerTypeOK
  /\ server \in [sid : Nat, running : BOOLEAN]
  /\ latest \in [sequence : Nat, key : Keys \cup {Null}]
  /\ issued \subseteq Tickets
  /\ {connected, polling, hidden, refreshing, pushTimer, retry} \subseteq BOOLEAN
  /\ connecting \in [{"auth", "refresh", "preflight"} -> Nat]
  /\ shown \in Sessions \cup {Null}
  /\ refreshing <=> load # Null
  /\ asking \in [Calls -> Tickets \cup {Null, Sent}]
  /\ socket \in Tickets \cup {Null}
  /\ sockets \in [Tickets -> [state : {"connecting", "open", "closed"},
                             sequence : Nat]]
  /\ stray \in Nat
  /\ request = Null \/ request.pc \in {Sent, "ended", "refused"}

\* However often an event arrives, on however many sockets, the list of alerts
\* has one row for it, and knows exactly its own rows: an alert that made room
\* for others may come back.
RowsDistinct ==
  /\ IsInjective(rows) /\ Len(rows) <= Cap
  /\ keys = ToSet(rows)

\* Whatever answers overtake one another, and whatever fails, the console ends
\* up showing the session the server has, if it stays connected and the operator
\* stays with it: a page that is hidden, and lost a push, may be late for ever.
CatchesUp == <>[](connected /\ polling /\ ~hidden) => <>[](shown = Current)

\* While the console is connected the realtime stream comes back, whichever of
\* the ticket, the handshake and the socket fails.
StreamReturns ==
  <>[](connected /\ polling)
    => <>[](socket # Null /\ sockets[socket].state = "open")
=============================================================================
