--------------------------- MODULE EvidenceViewer ---------------------------
(***************************************************************************)
(* The part of the web console that shows the evidence of an earlier       *)
(* session: openHistoricalSession() and what it loads, and the time slider *)
(* of an evidence card.                                                    *)
(*                                                                         *)
(* Nothing orders the answers: a click while an earlier one is still being *)
(* served leaves two requests in flight, and the later answer replaces the *)
(* page of the earlier one.  The slider's timer runs for 70 ms, whether or *)
(* not its card is still there.  Render versions are kept per evidence id, *)
(* and so are shared by a card and the one that replaces it.               *)
(*                                                                         *)
(* Here a session has one evidence package.  A card that left the page may *)
(* still be drawn on, which nobody sees: only its timers are kept.  Images *)
(* that cannot be fetched are left out of what is drawn.  Which frame of a *)
(* camera is closest to a position is data, and positions are told apart   *)
(* by the order in which they were asked for.                              *)
(***************************************************************************)
EXTENDS Naturals

CONSTANTS Archive, \* the earlier sessions
          Views,   \* the calls that may load a session at once
          Null,    \* null
          Bounds   \* bounds on the clicks that load a session, the moves of a
                   \* slider and the failing requests (faults), and on what
                   \* Console counts; a behaviour has one of them

ASSUME ArchiveAssumption ==
  Null \notin Archive \cup [session : Archive, asked : Nat, drawn : Nat, timer : BOOLEAN]
ASSUME BoundAssumption ==
  Bounds \subseteq [sessions : Nat, events : Nat, connects : Nat, faults : Nat,
                    clicks : Nat, moves : Nat]

VARIABLES
  left,       \* what the bounds leave to happen
  selected,   \* state.selectedSessionId
  views,      \* the calls in flight: for which session, waiting for what
  manifests,  \* state.evidenceManifests: whose they are
  versions,   \* state.evidenceRenderVersions
  card,       \* the evidence card on the page
  renders,    \* the renderEvidenceMoment() calls in flight for that card
  timers,     \* timers of cards that left the page, per session
  timeline,   \* the session whose audit timeline is on the page
  superseded  \* history: a timer of such a card made the page's card outdated

loading == <<selected, views, manifests, timeline>>
grid == <<versions, card, renders, timers, superseded>>
viewerVars == <<loading, grid>>

\* A card counts the positions that were asked for, and knows which of them its
\* images show, 0 while they load.
Card(s) == [session |-> s, asked |-> 1, drawn |-> 0, timer |-> FALSE]
Unread == [s \in Archive |-> 0]

ViewerInit ==
  /\ selected = Null /\ manifests = Null /\ timeline = Null
  /\ views = [v \in Views |-> Null]
  /\ versions = Unread /\ timers = Unread
  /\ card = Null /\ renders = {}
  /\ superseded = FALSE

Spend(what) == left[what] > 0 /\ left' = [left EXCEPT ![what] = @ - 1]

(***************************************************************************)
(* Loading a session.                                                      *)
(***************************************************************************)
\* The card leaves the page, and its timer lives on.
Detach ==
  /\ superseded' = FALSE
  /\ timers' = IF card # Null /\ card.timer
               THEN [timers EXCEPT ![card.session] = @ + 1] ELSE timers

\* revokeEvidenceUrls(), after which the grid is cleared.
Revoke ==
  /\ Detach
  /\ card' = Null /\ renders' = {}
  /\ manifests' = Null
  /\ versions' = Unread

Waits(v, for) == views[v] # Null /\ views[v].for \in for
\* One of two answers has come, or the only one.
Came(v, other) ==
  views' = [views EXCEPT ![v] = IF @.for = "both" THEN [@ EXCEPT !.for = other]
                                ELSE Null]

Open(v, s) ==
  /\ views[v] = Null /\ Spend("clicks")
  /\ selected' = s
  /\ views' = [views EXCEPT ![v] = [session |-> s, for |-> "detail"]]
  /\ UNCHANGED <<manifests, timeline, grid>>

\* renderHistoricalDetail(), then the evidence and the timeline are asked for.
DetailArrives(v) ==
  /\ Waits(v, {"detail"})
  /\ views' = [views EXCEPT ![v].for = "both"]
  /\ Revoke
  /\ UNCHANGED <<left, selected, timeline>>

DetailFails(v) ==
  /\ Waits(v, {"detail"}) /\ Spend("faults")
  /\ views' = [views EXCEPT ![v] = Null]
  /\ UNCHANGED <<selected, manifests, timeline, grid>>

\* The button that loads the evidence of the selected session again.
Reload(v) ==
  /\ views[v] = Null /\ selected # Null /\ Spend("clicks")
  /\ views' = [views EXCEPT ![v] = [session |-> selected, for |-> "evidence"]]
  /\ Revoke
  /\ UNCHANGED <<selected, timeline>>

\* renderEvidence() shows the session that was asked for, whichever is selected
\* by now, and renders its card at the centre.
EvidenceArrives(v) ==
  LET s == views[v].session IN
  /\ Waits(v, {"both", "evidence"})
  /\ Came(v, "timeline")
  /\ Detach
  /\ manifests' = s /\ card' = Card(s)
  /\ versions' = [versions EXCEPT ![s] = @ + 1]
  /\ renders' = {[position |-> 1, version |-> versions[s] + 1]}
  /\ UNCHANGED <<left, selected, timeline>>

\* The error takes the place of the card.
EvidenceFails(v) ==
  /\ Waits(v, {"both", "evidence"}) /\ Spend("faults")
  /\ Came(v, "timeline")
  /\ Detach
  /\ card' = Null /\ renders' = {}
  /\ UNCHANGED <<selected, manifests, timeline, versions>>

TimelineArrives(v) ==
  /\ Waits(v, {"both", "timeline"})
  /\ Came(v, "evidence")
  /\ timeline' = views[v].session
  /\ UNCHANGED <<left, selected, manifests, grid>>

TimelineFails(v) ==
  /\ Waits(v, {"both", "timeline"}) /\ Spend("faults")
  /\ Came(v, "evidence")
  /\ timeline' = Null
  /\ UNCHANGED <<selected, manifests, grid>>

(***************************************************************************)
(* The slider of the card.                                                 *)
(***************************************************************************)
\* The timer starts over, and reads the slider when it fires.
Slide ==
  /\ card # Null /\ Spend("moves")
  /\ card' = [card EXCEPT !.timer = TRUE]
  /\ UNCHANGED <<loading, versions, renders, timers, superseded>>

\* A click on an event of the timeline: the evidence it matches is looked for
\* among the manifests, then on the page, and its slider is moved.
FocusTimelineEvidence ==
  /\ timeline # Null /\ manifests = timeline
  /\ Slide

\* renderEvidenceMoment() up to its await.
TimerFires ==
  /\ card # Null /\ card.timer
  /\ card' = [card EXCEPT !.timer = FALSE, !.asked = @ + 1, !.drawn = 0]
  /\ versions' = [versions EXCEPT ![card.session] = @ + 1]
  /\ renders' = renders \cup {[position |-> card.asked + 1,
                               version |-> versions[card.session] + 1]}
  /\ superseded' = FALSE
  /\ UNCHANGED <<left, loading, timers>>

StrayTimerFires(s) ==
  /\ timers[s] > 0
  /\ timers' = [timers EXCEPT ![s] = @ - 1]
  /\ versions' = [versions EXCEPT ![s] = @ + 1]
  /\ superseded' = (superseded \/ (card # Null /\ card.session = s))
  /\ UNCHANGED <<left, loading, card, renders>>

\* Bug: the images are drawn whatever was asked for since.
MomentRendered_AnyVersion(r) ==
  /\ r \in renders
  /\ renders' = renders \ {r}
  /\ card' = [card EXCEPT !.drawn = r.position]
  /\ UNCHANGED <<left, loading, versions, timers, superseded>>

\* The images have come: they are drawn unless a newer version was asked for.
MomentRendered(r) ==
  /\ r \in renders
  /\ renders' = renders \ {r}
  /\ card' = IF versions[card.session] = r.version
             THEN [card EXCEPT !.drawn = r.position] ELSE card
  /\ UNCHANGED <<left, loading, versions, timers, superseded>>

ViewerNext ==
  \/ \E v \in Views :
       \/ \E s \in Archive : Open(v, s)
       \/ DetailArrives(v) \/ DetailFails(v) \/ Reload(v)
       \/ EvidenceArrives(v) \/ EvidenceFails(v)
       \/ TimelineArrives(v) \/ TimelineFails(v)
  \/ Slide \/ FocusTimelineEvidence \/ TimerFires
  \/ \E s \in Archive : StrayTimerFires(s)
  \/ \E r \in renders : MomentRendered(r)

(***************************************************************************)
(* Properties.                                                             *)
(***************************************************************************)
\* Every variable keeps its type.
ViewerTypeOK ==
  /\ {selected, manifests, timeline} \subseteq Archive \cup {Null}
  /\ \A v \in Views : views[v] = Null \/
       views[v] \in [session : Archive,
                     for : {"detail", "both", "evidence", "timeline"}]
  /\ versions \in [Archive -> Nat] /\ timers \in [Archive -> Nat]
  /\ card = Null \/
       card \in [session : Archive, asked : Nat, drawn : Nat, timer : BOOLEAN]
  /\ renders \subseteq [position : Nat, version : Nat]
  /\ superseded \in BOOLEAN

\* However slowly the images of one position come, and whatever was loaded
\* again meanwhile, a card shows no position but the one asked for last.  It
\* does show that one in the end, unless a timer of a replaced card of the same
\* evidence made it outdated.
LatestPosition ==
  card # Null =>
    /\ card.drawn \in {0, card.asked}
    /\ renders = {} /\ ~superseded => card.drawn = card.asked
=============================================================================
