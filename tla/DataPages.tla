----------------------------- MODULE DataPages -----------------------------
(***************************************************************************)
(* The pages that load their data over REST and show it: Occupancy.tsx and *)
(* Timeline.tsx, which load again when a control changes and on a timer,   *)
(* the drawer of ChannelDetail.tsx and the dialog ObservationsModal of     *)
(* Channels.tsx, whose effects cancel what they asked for, Investigate.tsx *)
(* with its poll, and Decoder.tsx and SurveyReport.tsx, which load once.   *)
(*                                                                         *)
(* What a page asks for is a key: the controls of the heatmap, the window  *)
(* of the timeline, the channel of the drawer.  Data is known by its key.  *)
(*                                                                         *)
(* An operator named Bug... is a wrong variant of the operator after it,   *)
(* which no specification uses.                                            *)
(***************************************************************************)
EXTENDS Integers

CONSTANTS Key, NoData,
          Request   \* bound on the requests in flight

ASSUME DataAssumption == NoData \notin Key /\ Key # {} /\ Request # {}

VARIABLES
    view,     \* which page it is
    asks,     \* the key of the controls
    auto,     \* autoRefresh
    loading,
    failed,   \* error
    shown,    \* the key of the data
    loads     \* the requests in flight

dataVars == <<view, asks, auto, loading, failed, shown, loads>>

View == {"occupancy", "timeline", "drawer", "history", "decoder", "survey", "investigate"}
Drawers == {"drawer", "history"}
Polled == {"occupancy", "timeline", "investigate"}
Quiet == {"survey", "investigate"}   \* never show that they are loading

NoLoad == [at |-> "none"]
Load == [at : {"asked", "answered", "refused"}, key : Key, loud : BOOLEAN, cancelled : BOOLEAN]
InFlight == {r \in Request : loads[r] # NoLoad}

DataTypeOK ==
    /\ view \in View /\ asks \in Key
    /\ {auto, loading, failed} \subseteq BOOLEAN
    /\ shown \in Key \cup {NoData}
    /\ loads \in [Request -> {NoLoad} \cup Load]

Asked(k, loud) == [at |-> "asked", key |-> k, loud |-> loud, cancelled |-> FALSE]

DataClosed ==
    /\ view = "survey" /\ asks = CHOOSE k \in Key : TRUE
    /\ auto = FALSE /\ loading = FALSE /\ failed = FALSE
    /\ shown = NoData
    /\ loads = [r \in Request |-> NoLoad]

\* The page is opened and loads.  What a page that is closed had asked for is
\* answered to nobody.
DataOpens ==
    /\ view' \in View /\ asks' \in Key
    /\ auto' = (view' \in Polled) /\ loading' = (view' \notin Quiet) /\ failed' = FALSE
    /\ shown' = NoData
    /\ loads' = [[r \in Request |-> NoLoad] EXCEPT ![CHOOSE r \in Request : TRUE] = Asked(asks', TRUE)]
DataCloses ==
    /\ view' = "survey" /\ asks' = CHOOSE k \in Key : TRUE
    /\ auto' = FALSE /\ loading' = FALSE /\ failed' = FALSE
    /\ shown' = NoData
    /\ loads' = [r \in Request |-> NoLoad]

-----------------------------------------------------------------------------
\* A request for k in a free slot r; loud for one that shows "Loading".
Ask(r, k, loud, before) ==
    /\ before[r] = NoLoad
    /\ loads' = [before EXCEPT ![r] = Asked(k, loud)]
    /\ loading' = (loading \/ loud)

\* The effect on the controls, or on the channel of a drawer: a new load.  A
\* drawer cancels the one before; the heatmap and the timeline let it be.
Cancelled == [q \in Request |-> IF loads[q] = NoLoad THEN NoLoad
                                ELSE [loads[q] EXCEPT !.cancelled = TRUE]]

BugControlChanges(r, k) ==
    /\ k # asks
    /\ asks' = k
    /\ Ask(r, k, TRUE, loads)
    /\ failed' = (failed /\ view # "drawer")
    /\ UNCHANGED <<view, auto, shown>>

ControlChanges(r, k) ==
    /\ k # asks
    /\ asks' = k
    /\ Ask(r, k, TRUE, IF view \in Drawers THEN Cancelled ELSE loads)
    /\ failed' = (failed /\ view # "drawer")
    /\ UNCHANGED <<view, auto, shown>>

\* The Refresh button, disabled while loading.
Refresh(r) ==
    /\ ~loading
    /\ Ask(r, asks, TRUE, loads)
    /\ UNCHANGED <<view, asks, auto, failed, shown>>

ToggleAuto ==
    /\ auto' = ~auto
    /\ UNCHANGED <<view, asks, loading, failed, shown, loads>>

BugPoll(r) ==
    /\ auto
    /\ Ask(r, IF shown = NoData THEN asks ELSE shown, FALSE, loads)
    /\ UNCHANGED <<view, asks, auto, failed, shown>>

\* The timer, whatever is still in flight.
Poll(r) ==
    /\ auto
    /\ Ask(r, asks, FALSE, loads)
    /\ UNCHANGED <<view, asks, auto, failed, shown>>

\* The controls of the two pages that have them, and a click or key that opens
\* a drawer on another channel.
OccupancyControls(r) ==
    view = "occupancy" /\ (Refresh(r) \/ ToggleAuto \/ \E k \in Key : ControlChanges(r, k))
TimelineControls(r) ==
    view = "timeline" /\ (Refresh(r) \/ ToggleAuto \/ \E k \in Key : ControlChanges(r, k))
OpensAnother(r) == view \in Drawers /\ \E k \in Key : ControlChanges(r, k)

-----------------------------------------------------------------------------
(* Answers, in any order.                                                   *)

Answer(r) ==
    /\ loads[r] # NoLoad /\ loads[r].at = "asked"
    /\ \E at \in {"answered", "refused"} : loads' = [loads EXCEPT ![r].at = at]
    /\ UNCHANGED <<view, asks, auto, loading, failed, shown>>

\* What a page does with an answer, or with a failure.
Show(l) == shown' = IF l.at = "answered" THEN l.key ELSE shown
Fail(l) == failed' = (failed \/ l.at = "refused")

\* A poll of the heatmap is silent to the end; one of the timeline, which
\* shows a channel that fails as one without bursts, ends the "Loading" of
\* another load.
EndsLoading(l) == l.loud \/ view = "timeline"

OccupancySettles(l) ==
    /\ Show(l) /\ failed' = (l.at = "refused")
    /\ loading' = (loading /\ ~l.loud)
TimelineSettles(l) == shown' = l.key /\ loading' = FALSE /\ UNCHANGED failed
DrawerSettles(l) ==
    IF l.cancelled THEN UNCHANGED <<shown, failed, loading>>
    ELSE Show(l) /\ Fail(l) /\ loading' = FALSE
HistorySettles(l) == DrawerSettles(l)
DecoderSettles(l) == Show(l) /\ Fail(l) /\ loading' = FALSE
SurveySettles(l) == Show(l) /\ Fail(l) /\ UNCHANGED loading
InvestigateSettles(l) == Show(l) /\ UNCHANGED <<failed, loading>>

Settle(r) ==
    /\ loads[r] # NoLoad /\ loads[r].at # "asked"
    /\ LET l == loads[r]
       IN  CASE view = "occupancy" -> OccupancySettles(l)
             [] view = "timeline" -> TimelineSettles(l)
             [] view = "drawer" -> DrawerSettles(l)
             [] view = "history" -> HistorySettles(l)
             [] view = "decoder" -> DecoderSettles(l)
             [] view = "survey" -> SurveySettles(l)
             [] view = "investigate" -> InvestigateSettles(l)
    /\ loads' = [loads EXCEPT ![r] = NoLoad]
    /\ UNCHANGED <<view, asks, auto>>

DataNext ==
    \E r \in Request :
        \/ OccupancyControls(r) \/ TimelineControls(r) \/ OpensAnother(r)
        \/ Poll(r) \/ Answer(r) \/ Settle(r)

\* Requests are answered or fail, and the timer goes on while it is set.
DataFairness ==
    /\ WF_dataVars(\E r \in Request : Poll(r))
    /\ \A r \in Request : WF_dataVars(Answer(r) \/ Settle(r))

-----------------------------------------------------------------------------
(* Properties.                                                              *)

\* What a drawer has loaded is never the observations of another channel
\* than the one in its header, however late an answer is and whatever was
\* asked before; and "Loading" is shown only while a load is in flight that
\* will end it, so that Refresh is never disabled for good.
ShownIsAsked ==
    /\ view \in Drawers /\ ~loading /\ ~failed => shown = asks
    /\ loading => \E r \in InFlight : ~loads[r].cancelled /\ EndsLoading(loads[r])

\* A poll corrects what a late answer for other controls has overwritten:
\* with "Live" on, the heatmap and the timeline end with the data that the
\* controls ask for, or with the error.
PollCorrects ==
    \A k \in Key :
        <>[](auto /\ asks = k /\ view # "investigate") => <>[](shown = k \/ failed)
=============================================================================
