---------------------------- MODULE LiveSpectrum ----------------------------
(***************************************************************************)
(* The Spectrum page (frontend/src/pages/Spectrum.tsx): the frame that is  *)
(* shown, its plot (components/SpectrumChart.tsx) and the waterfall        *)
(* (components/Waterfall.tsx).  Two animation loops run while the display  *)
(* is not paused: tick() of the page takes the newest frame of the store,  *)
(* and React shows it later; render() of the waterfall draws a row for the *)
(* frame that is shown.                                                    *)
(*                                                                         *)
(* A frame is the number of its arrival; 0 is no frame.                    *)
(*                                                                         *)
(* An operator named Bug... is a wrong variant of the operator after it,   *)
(* which no specification uses.                                            *)
(***************************************************************************)
EXTENDS Integers, Sequences

CONSTANTS MaxFrame,   \* bound on the frames that arrive
          Height      \* rows of the canvas

ASSUME SpectrumAssumption == MaxFrame \in Nat /\ Height \in Nat \ {0}

VARIABLES
    newest,     \* latestRef: the frame of the store
    channels,   \* the channels of the store, by their version
    paused,
    taken,      \* shown in tick(): what the loop has taken, 0 when it starts
    pending,    \* what tick() has set last; React shows it later
    display,    \* displayFrame
    tracked,    \* lastFrameRef
    drawn,      \* drawnFrame, 0 when the loop starts
    waterfall,  \* the rows on the canvas, newest first
    plot        \* the frame and the channel markers of the plot

spectrumVars == <<newest, channels, paused, taken, pending, display, tracked, drawn, waterfall, plot>>

Frame == 0 .. MaxFrame
\* A row, and whether it is the first that its loop has drawn.
Row == [frame : Frame, first : BOOLEAN]

SpectrumTypeOK ==
    /\ {newest, taken, pending, display, tracked, drawn} \subseteq Frame
    /\ channels \in {0, 1} /\ paused \in BOOLEAN
    /\ waterfall \in Seq(Row) /\ Len(waterfall) <= Height
    /\ plot \in [frame : Frame, markers : {0, 1}]

SpectrumClosed ==
    /\ newest = 0 /\ channels = 0 /\ paused = FALSE
    /\ taken = 0 /\ pending = 0 /\ display = 0
    /\ tracked = 0 /\ drawn = 0 /\ waterfall = << >>
    /\ plot = [frame |-> 0, markers |-> 0]

\* The page is mounted on what the store has.
SpectrumMount(f, c) ==
    /\ newest' = f /\ channels' = c /\ paused' = FALSE
    /\ taken' = 0 /\ pending' = f /\ display' = f
    /\ tracked' = f /\ drawn' = 0 /\ waterfall' = << >>
    /\ plot' = [frame |-> f, markers |-> c]
SpectrumOpens == \E f \in Frame : f <= 1 /\ SpectrumMount(f, 0)
SpectrumCloses == SpectrumMount(0, 0)

-----------------------------------------------------------------------------
\* A frame, or another list of channels, comes over the WebSocket.  The page
\* renders: latestRef and markersRef follow, the canvas and the plot do not.
SpectrumArrives ==
    /\ newest < MaxFrame /\ newest' = newest + 1
    /\ UNCHANGED <<channels, paused, taken, pending, display, tracked, drawn, waterfall, plot>>
MarkersArrive ==
    /\ channels' = 1 - channels
    /\ UNCHANGED <<newest, paused, taken, pending, display, tracked, drawn, waterfall, plot>>

BugDue == tracked # 0

\* render() of the waterfall: a frame that it has not drawn yet becomes the top
\* row, and the others move down.
Due == tracked # 0 /\ tracked # drawn
Scrolled ==
    LET all == <<[frame |-> tracked, first |-> drawn = 0]>> \o waterfall
    IN  SubSeq(all, 1, IF Len(all) < Height THEN Len(all) ELSE Height)
WaterfallDraws ==
    /\ waterfall' = IF Due THEN Scrolled ELSE waterfall
    /\ drawn' = IF Due THEN tracked ELSE drawn

\* tick() of the page.
TickTakes ==
    IF newest \notin {0, taken} THEN taken' = newest /\ pending' = newest
    ELSE UNCHANGED <<taken, pending>>

\* One animation frame: the callbacks in the order of the effects that asked
\* for them, a child's before its parent's.
AnimationFrame ==
    /\ ~paused
    /\ WaterfallDraws /\ TickTakes
    /\ UNCHANGED <<newest, channels, paused, display, tracked, plot>>

\* React shows what tick() has set, also when the display was paused after
\* that; the waterfall follows unless it is paused, and the plot gets the data
\* and draws the markers over it.
Shown ==
    /\ pending # display /\ display' = pending
    /\ tracked' = IF paused THEN tracked ELSE pending
    /\ plot' = [frame |-> pending, markers |-> channels]
    /\ UNCHANGED <<newest, channels, paused, taken, pending, drawn, waterfall>>

\* The Pause button: both loops end or start anew.  The waterfall tracks the
\* frame that is shown as soon as it is not paused.
PauseButton ==
    /\ paused' = ~paused
    /\ taken' = 0 /\ drawn' = 0
    /\ tracked' = IF paused THEN display ELSE tracked
    /\ UNCHANGED <<newest, channels, pending, display, waterfall, plot>>

\* The checkbox of the reference bands draws the plot again.
ReferenceBox ==
    /\ plot' = [plot EXCEPT !.markers = IF plot.frame = 0 THEN plot.markers ELSE channels]
    /\ UNCHANGED <<newest, channels, paused, taken, pending, display, tracked, drawn, waterfall>>

SpectrumNext ==
    \/ SpectrumArrives \/ MarkersArrive
    \/ AnimationFrame \/ Shown \/ PauseButton \/ ReferenceBox

-----------------------------------------------------------------------------
(* Properties.                                                              *)

\* The waterfall is a history of what was plotted: its rows are in the order
\* the frames came, none twice except where a resumed display starts with the
\* frame it was paused on, and none ahead of the plot.
RowsInOrder ==
    /\ plot.frame = display
    /\ \A i \in DOMAIN waterfall :
           /\ waterfall[i].frame <= display
           /\ i > 1 => \/ waterfall[i].frame < waterfall[i - 1].frame
                       \/ waterfall[i].frame = waterfall[i - 1].frame /\ waterfall[i - 1].first
=============================================================================
