---------------------------- MODULE ScopeHistory ----------------------------
(***************************************************************************)
(* The spectrogram of the Scope page (frontend/src/components/             *)
(* ScopeSpectrogram.tsx): a ring buffer of columns, the view on it that    *)
(* the wheel zooms and the mouse drags, and the animation loop that takes  *)
(* the frame in the store, pushes it and paints what the view shows.       *)
(*                                                                         *)
(* A column is known by its absolute index, which is also its time, and a  *)
(* frame by its seq; NoFrame stands for no frame and for one without bins. *)
(* A position on the canvas is a number of its OutputWidth pixels.         *)
(*                                                                         *)
(* An operator named Bug... is a wrong variant of the operator after it,   *)
(* which no specification uses.                                            *)
(***************************************************************************)
EXTENDS Integers

CONSTANTS HistoryCapacity, MinVisible, Rows, OutputWidth,
          FrameSeq, NoFrame,
          MaxPushed    \* bound on totalRef

ASSUME ScopeAssumption ==
    /\ {HistoryCapacity, MinVisible, Rows, OutputWidth} \subseteq Nat \ {0}
    /\ MinVisible <= HistoryCapacity
    /\ MaxPushed \in Nat
    /\ NoFrame \notin FrameSeq

VARIABLES
    frame,     \* seq of the frame in the store
    lastSeq,   \* lastSeqRef
    total,     \* totalRef: columns ever pushed
    ring,      \* the column in each slot of the history, -1 if none yet
    follow,    \* followRef
    span,      \* spanRef
    anchor,    \* anchorAbsRef
    dragging,
    dragStart, \* dragStartAnchor
    dirty,     \* dirtyRef
    painted,   \* the columns on the canvas
    ui         \* badge and axis: live, and the age of each tick

viewVars == <<follow, span, anchor, dragging, dragStart>>
scopeVars == <<frame, lastSeq, total, ring, viewVars, dirty, painted, ui>>

Slots == 0 .. HistoryCapacity - 1
Slot(a) == a % HistoryCapacity
Tick == 0 .. 4

Least(a, b) == IF a <= b THEN a ELSE b
Most(a, b) == IF a >= b THEN a ELSE b
Within(x, lo, hi) == Most(lo, Least(hi, x))

\* Math.round of a fraction with positive denominator.
RoundDiv(a, b) == (2 * a + b) \div (2 * b)

Count(t) == Least(t, HistoryCapacity)

BugClampView(t, s, a, f) ==
    LET sp == Within(s, Least(MinVisible, Count(t)), Count(t))
        end == Least(IF f THEN t - 1 ELSE a, t - 1)
    IN  [start |-> end - sp + 1, end |-> end, span |-> sp]

\* clampView() of a history that is not empty.
ClampView(t, s, a, f) ==
    LET sp == Within(s, Least(MinVisible, Count(t)), Count(t))
        end == Within(IF f THEN t - 1 ELSE a, t - Count(t) + sp - 1, t - 1)
    IN  [start |-> end - sp + 1, end |-> end, span |-> sp]

CurrentView == ClampView(total, span, anchor, follow)

\* pushColumn(): the next column overwrites the oldest one.
Pushed(r, t) == [r EXCEPT ![Slot(t)] = t]

\* The column under x out of w pixels.
ColumnAbsForX(x, w, view) == view.start + Least(view.span - 1, (x * view.span) \div w)

\* render(): what the view v finds in the slots of r, pixel by pixel.
Rendered(r, v) ==
    {r[Slot(ColumnAbsForX(2 * x + 1, 2 * OutputWidth, v))] : x \in 0 .. OutputWidth - 1}

\* The badge and the ages at the five ticks, read from the slots.
Readout(t, r, v, f) ==
    [live |-> f /\ v.end = t - 1,
     age |-> [i \in Tick |-> r[Slot(t - 1)] - r[Slot(v.start + RoundDiv(i * (v.span - 1), 4))]]]

NoReadout == [live |-> TRUE, age |-> [i \in Tick |-> 0]]

\* The refs and the state of a mount.
ScopeInit ==
    /\ frame = NoFrame /\ lastSeq = NoFrame
    /\ total = 0 /\ ring = [s \in Slots |-> -1]
    /\ follow = TRUE /\ span = Most(MinVisible, Rows) /\ anchor = 0
    /\ dragging = FALSE /\ dragStart = 0
    /\ dirty = TRUE /\ painted = {} /\ ui = NoReadout

ScopeRemounted ==
    /\ lastSeq' = NoFrame
    /\ total' = 0 /\ ring' = [s \in Slots |-> -1]
    /\ follow' = TRUE /\ span' = Most(MinVisible, Rows) /\ anchor' = 0
    /\ dragging' = FALSE /\ dragStart' = 0
    /\ dirty' = TRUE /\ painted' = {} /\ ui' = NoReadout

ScopeTypeOK ==
    /\ frame \in FrameSeq \cup {NoFrame} /\ lastSeq \in FrameSeq \cup {NoFrame}
    /\ total \in 0 .. MaxPushed
    /\ ring \in [Slots -> -1 .. MaxPushed - 1]
    /\ follow \in BOOLEAN /\ dirty \in BOOLEAN /\ dragging \in BOOLEAN
    /\ span \in Nat \ {0} /\ anchor \in Int /\ dragStart \in Int
    /\ painted \subseteq 0 .. MaxPushed - 1
    /\ ui.live \in BOOLEAN
    /\ ui.age \in [Tick -> 0 .. HistoryCapacity - 1]

-----------------------------------------------------------------------------
\* setScope(): a message of the server replaces the frame in the store.
FrameArrives ==
    /\ frame' \in FrameSeq
    /\ UNCHANGED <<lastSeq, total, ring, viewVars, dirty, painted, ui>>

\* The first frame of another window: the page keys the component by its
\* window, so it is mounted anew.
NewWindow == frame # NoFrame /\ frame' \in FrameSeq /\ ScopeRemounted

\* One turn of the animation loop that pushes a new frame, or repaints, or
\* both; the labels are updated when a quarter of a second has passed.
Loop ==
    LET new == frame \notin {NoFrame, lastSeq}
        t == IF new THEN total + 1 ELSE total
        r == IF new THEN Pushed(ring, total) ELSE ring
        v == ClampView(t, span, anchor, follow)
    IN  /\ dirty \/ new
        /\ new => total < MaxPushed
        /\ lastSeq' = IF new THEN frame ELSE lastSeq
        /\ total' = t /\ ring' = r /\ dirty' = FALSE
        /\ IF t > 0
           THEN /\ painted' = Rendered(r, v)
                /\ span' = v.span
                /\ anchor' = IF follow THEN v.end ELSE anchor
                /\ ui' \in {ui, Readout(t, r, v, follow)}
           ELSE UNCHANGED <<painted, span, anchor, ui>>
        /\ UNCHANGED <<frame, follow, dragging, dragStart>>

\* The labels alone, in a turn that has nothing to paint.
UpdateUi ==
    /\ ~dirty /\ frame \in {NoFrame, lastSeq} /\ total > 0
    /\ ui' = Readout(total, ring, CurrentView, follow)
    /\ UNCHANGED <<frame, lastSeq, total, ring, viewVars, dirty, painted>>

-----------------------------------------------------------------------------
(* The mouse.                                                               *)

\* onWheel() at x: zoom by 1.2 in or out, live or around the cursor.
Wheel(x, in) ==
    LET v == CurrentView
        zoomed == IF in THEN RoundDiv(v.span * 5, 6) ELSE RoundDiv(v.span * 6, 5)
        new == Within(zoomed, Least(MinVisible, Count(total)), Count(total))
        start == RoundDiv(ColumnAbsForX(x, OutputWidth, v) * OutputWidth - x * new, OutputWidth)
    IN  /\ total > 0
        /\ span' = new
        /\ anchor' = IF follow THEN anchor ELSE start + new - 1
        /\ dirty' = TRUE
        /\ UNCHANGED <<frame, lastSeq, total, ring, follow, dragging, dragStart, painted, ui>>

MouseDown ==
    /\ total > 0 /\ ~dragging
    /\ dragging' = TRUE
    /\ dragStart' = CurrentView.end
    /\ follow' = FALSE
    /\ UNCHANGED <<frame, lastSeq, total, ring, span, anchor, dirty, painted, ui>>

\* onDrag() by dx pixels from where the button went down.
BugDrag(dx) ==
    /\ dragging
    /\ anchor' = RoundDiv(dragStart * OutputWidth - dx * span, OutputWidth)
    /\ UNCHANGED <<frame, lastSeq, total, ring, follow, span, dragging, dragStart, dirty, painted, ui>>

Drag(dx) ==
    /\ dragging
    /\ anchor' = ClampView(total, span,
                           RoundDiv(dragStart * OutputWidth - dx * span, OutputWidth), FALSE).end
    /\ dirty' = TRUE
    /\ UNCHANGED <<frame, lastSeq, total, ring, follow, span, dragging, dragStart, painted, ui>>

\* onUp(): live again when released at the newest edge.
MouseUp ==
    /\ dragging
    /\ dragging' = FALSE
    /\ follow' = (follow \/ anchor >= total - 1)
    /\ dirty' = TRUE
    /\ UNCHANGED <<frame, lastSeq, total, ring, span, anchor, dragStart, painted, ui>>

\* The Reset button, and a double click, whose button is up again.
ResetView ==
    /\ ~dragging
    /\ follow' = TRUE
    /\ span' = HistoryCapacity
    /\ anchor' = total - 1
    /\ dirty' = TRUE
    /\ UNCHANGED <<frame, lastSeq, total, ring, dragging, dragStart, painted, ui>>

\* onHover() at x: the age of the column under the mouse, which the tooltip
\* shows until the mouse moves again.
HoverAge(x) == ring[Slot(total - 1)] - ring[Slot(ColumnAbsForX(x, OutputWidth, CurrentView))]

Watching == FrameArrives \/ NewWindow \/ Loop \/ UpdateUi
Mouse ==
    \/ \E x \in 0 .. OutputWidth, in \in BOOLEAN : Wheel(x, in)
    \/ \E dx \in -OutputWidth .. OutputWidth : Drag(dx)
    \/ MouseDown \/ MouseUp \/ ResetView

ScopeNext == Watching \/ Mouse

-----------------------------------------------------------------------------
(* Properties.                                                              *)

\* Whatever is zoomed, dragged and pushed in between, every column of the
\* view is still in the ring, in its own slot: pushColumn() has not written
\* over it, and clampView() keeps the view inside the history.  So is the
\* column under the mouse.
ViewRetained ==
    total > 0 =>
        /\ \A a \in CurrentView.start .. CurrentView.end : ring[Slot(a)] = a
        /\ \A x \in 0 .. OutputWidth : HoverAge(x) \in 0 .. HistoryCapacity - 1

\* When no repaint is due, the canvas shows the columns of the current view:
\* no handler changes the view, and no frame the history, without dirtyRef.
CanvasCurrent ==
    ~dirty /\ total > 0 =>
        painted = {ColumnAbsForX(2 * x + 1, 2 * OutputWidth, CurrentView) :
                       x \in 0 .. OutputWidth - 1}
=============================================================================
