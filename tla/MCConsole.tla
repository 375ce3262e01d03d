----------------------------- MODULE MCConsole -----------------------------
(* Every behaviour has one of these bounds: two sessions, so that an       *)
(* answer or a click may be about the wrong one; two events, so that an    *)
(* alert makes room for another and the stream repeats one; two clicks on  *)
(* connect, so that two startRealtime() overlap and one leaves the socket  *)
(* of the other open, which an event then reaches twice; with two failures *)
(* the retry timer is set over one that still runs.  The last two are for  *)
(* the evidence: three loads, so that one replaces the card of another     *)
(* while a third is in flight, and two moves of a slider.                  *)
EXTENDS Console

Bound(sessions, events, connects, faults) ==
  [sessions |-> sessions, events |-> events, connects |-> connects,
   faults |-> faults, clicks |-> 0, moves |-> 0]
MCBounds == {Bound(2, 1, 1, 0), Bound(2, 0, 1, 1), Bound(0, 2, 1, 2),
             Bound(0, 1, 2, 1), Bound(1, 0, 2, 0), Bound(0, 0, 2, 2),
             [Bound(0, 0, 0, 0) EXCEPT !.clicks = 3, !.moves = 2],
             [Bound(0, 0, 0, 1) EXCEPT !.clicks = 2, !.moves = 2]}
=============================================================================
