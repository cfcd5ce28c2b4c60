---------------------------- MODULE BrowserProofs ----------------------------
(***************************************************************************)
(* What the pages of the browser keep whatever the user, the server and    *)
(* the other clients do, and however often a page is closed and opened     *)
(* again: for every size of the histories and canvases, every number of    *)
(* recordings, channels and requests, and every text that is typed.        *)
(*                                                                         *)
(* A step of the browser is, for each page, one of the page or one that    *)
(* opens or closes it (PageSteps); the rest goes page by page.             *)
(***************************************************************************)
EXTENDS Browser, FiniteSetTheorems, SequenceTheorems, TLAPS

USE ScopeAssumption, RecordingsAssumption

-----------------------------------------------------------------------------
(* What a step of the browser is to each page.                              *)

ScopeStep == [ScopeNext]_scopeVars \/ (ScopeRemounted /\ frame' \in FrameSeq \cup {NoFrame})
SettingsStep ==
    \/ SettingsNext /\ page = "settings" /\ UNCHANGED page
    \/ UNCHANGED settingsVars /\ (page' = "settings" <=> page = "settings")
    \/ SettingsOpens /\ page = "none"
    \/ SettingsCloses
EnteredStep == [EnteredNext]_entered \/ entered' = << >>
AlertsStep == [AlertsNext]_alertVars \/ AlertsOpens \/ AlertsCloses
DataStep == [DataNext]_dataVars \/ DataOpens \/ DataCloses
ChannelsStep == [ChannelsNext]_tableVars \/ ChannelsOpens \/ ChannelsCloses
RecordingsStep == [RecordingsNext]_recordingsVars \/ RecordingsOpens \/ RecordingsCloses
SpectrumStep == [SpectrumNext]_spectrumVars \/ SpectrumOpens \/ SpectrumCloses

LEMMA PageSteps ==
  ASSUME [BrowserNext]_browserVars
  PROVE  /\ ScopeStep /\ SettingsStep /\ EnteredStep /\ AlertsStep
         /\ DataStep /\ ChannelsStep /\ RecordingsStep /\ SpectrumStep
<1> USE DEF ScopeStep, SettingsStep, EnteredStep, AlertsStep, DataStep, ChannelsStep,
            RecordingsStep, SpectrumStep
<1>1. CASE UNCHANGED browserVars
  BY <1>1 DEF browserVars
<1>2. CASE Leave
  BY <1>2 DEF Leave
<1>3. ASSUME NEW p \in Page, Enter(p)
      PROVE  /\ ScopeStep /\ SettingsStep /\ EnteredStep /\ AlertsStep
             /\ DataStep /\ ChannelsStep /\ RecordingsStep /\ SpectrumStep
  BY <1>3 DEF Enter, Others, Page
<1>4. CASE On("scope") /\ ScopeNext
  BY <1>4 DEF On, Others
<1>5. CASE On("settings") /\ SettingsNext
  BY <1>5 DEF On, Others
<1>6. CASE On("typing") /\ EnteredNext
  BY <1>6 DEF On, Others
<1>7. CASE On("dashboard") /\ AlertsNext
  BY <1>7 DEF On, Others
<1>8. CASE On("data") /\ DataNext
  BY <1>8 DEF On, Others
<1>9. CASE On("channels") /\ ChannelsNext
  BY <1>9 DEF On, Others
<1>10. CASE On("recordings") /\ RecordingsNext
  BY <1>10 DEF On, Others
<1>11. CASE On("spectrum") /\ SpectrumNext
  BY <1>11 DEF On, Others
<1> QED
  BY <1>1, <1>2, <1>3, <1>4, <1>5, <1>6, <1>7, <1>8, <1>9, <1>10, <1>11 DEF BrowserNext

LEMMA PageTyped ==
  ASSUME page \in Page \cup {"none"}, [BrowserNext]_browserVars
  PROVE  page' \in Page \cup {"none"}
<1> QED
  BY DEF BrowserNext, browserVars, Leave, Enter, On

-----------------------------------------------------------------------------
(* The slots of the ring.                                                   *)

LEMMA DivMod ==
  ASSUME NEW a \in Int, NEW n \in Nat \ {0}
  PROVE  /\ a % n \in 0 .. n - 1 /\ a \div n \in Int
         /\ a = n * (a \div n) + (a % n)
<1>1. a % n \in 0 .. n - 1
  OBVIOUS
<1>2. a \div n \in Int
  OBVIOUS
<1>3. a = n * (a \div n) + (a % n)
  OBVIOUS
<1> QED
  BY <1>1, <1>2, <1>3

\* Columns less than the capacity apart are in different slots.
LEMMA SlotsDiffer ==
  ASSUME NEW a \in Nat, NEW b \in Nat, a < b, b - a < HistoryCapacity
  PROVE  Slot(a) # Slot(b)
<1> DEFINE n == HistoryCapacity
           p == a \div n
           q == b \div n
<1>0. n \in Nat \ {0}
  OBVIOUS
<1>1. /\ n \in Nat \ {0} /\ p \in Int /\ q \in Int
      /\ a % n \in Int /\ b % n \in Int
      /\ a = n * p + (a % n) /\ b = n * q + (b % n)
  <2> HIDE DEF n
  <2>0. a \in Int /\ b \in Int
    OBVIOUS
  <2>1. a % n \in 0 .. n - 1 /\ a \div n \in Int /\ a = n * (a \div n) + (a % n)
    BY <1>0, <2>0, DivMod, Zenon
  <2>2. b % n \in 0 .. n - 1 /\ b \div n \in Int /\ b = n * (b \div n) + (b % n)
    BY <1>0, <2>0, DivMod, Zenon
  <2>3. \A x \in 0 .. n - 1 : x \in Int
    OBVIOUS
  <2> QED
    BY <1>0, <2>1, <2>2, <2>3, Zenon
<1> SUFFICES ASSUME a % n = b % n PROVE FALSE
  BY DEF Slot
<1> HIDE DEF n, p, q
<1>2. b - a = n * (q - p)
  BY <1>1
<1>3. q - p \in Int /\ (q - p <= 0 \/ q - p >= 1)
  BY <1>1
<1>4. CASE q - p <= 0
  BY <1>1, <1>2, <1>4
<1>5. CASE q - p >= 1
  BY <1>1, <1>2, <1>5 DEF n
<1> QED
  BY <1>3, <1>4, <1>5

LEMMA SlotIs == ASSUME NEW a \in Int PROVE Slot(a) \in Slots
BY DivMod DEF Slot, Slots

LEMMA DivIsNat ==
  ASSUME NEW a \in Nat, NEW n \in Nat \ {0}
  PROVE  a \div n \in Nat
<1>1. a \div n \in Int /\ a % n \in 0 .. n - 1 /\ a = n * (a \div n) + (a % n)
  BY DivMod
<1>2. CASE a \div n < 0
  <2> DEFINE q == a \div n
  <2> HIDE DEF q
  <2>1. q \in Int /\ q <= -1 => n * q <= -n
    OBVIOUS
  <2> QED
    BY <1>1, <1>2, <2>1 DEF q
<1> QED
  BY <1>1, <1>2

-----------------------------------------------------------------------------
(* The view.                                                                *)

LEMMA CountIs ==
  ASSUME NEW t \in Nat, t > 0
  PROVE  Count(t) \in 1 .. HistoryCapacity /\ Count(t) <= t
BY DEF Count, Least

LEMMA WithinIs ==
  ASSUME NEW x \in Int, NEW lo \in Nat \ {0}, NEW hi \in Nat \ {0}
  PROVE  Within(x, lo, hi) \in Nat \ {0}
BY DEF Within, Least, Most

\* clampView() is a window of the history that is kept.
Window(v, t) ==
    /\ v = [start |-> v.end - v.span + 1, end |-> v.end, span |-> v.span]
    /\ v.span \in 1 .. Count(t) /\ v.end \in Int /\ v.start \in Int
    /\ v.start = v.end - v.span + 1
    /\ t - Count(t) <= v.start /\ v.end <= t - 1

LEMMA ViewIs ==
  ASSUME NEW t \in Nat, t > 0, NEW s \in Int, NEW a \in Int, NEW f \in BOOLEAN
  PROVE  /\ Window(ClampView(t, s, a, f), t)
         /\ f => ClampView(t, s, a, f).end = t - 1
         /\ ClampView(t, ClampView(t, s, a, f).span,
                      IF f THEN ClampView(t, s, a, f).end ELSE a, f) = ClampView(t, s, a, f)
<1> DEFINE c == Count(t)
           lo == Least(MinVisible, c)
           sp == Within(s, lo, c)
           x == IF f THEN t - 1 ELSE a
           end == Within(x, t - c + sp - 1, t - 1)
<1>1. c \in Nat /\ c >= 1 /\ c <= t
  BY CountIs
<1> HIDE DEF c
<1>2. lo \in Nat /\ 1 <= lo /\ lo <= c
  BY <1>1 DEF Least
<1> HIDE DEF lo
<1>3. sp \in Nat /\ lo <= sp /\ sp <= c /\ Within(sp, lo, c) = sp
  BY <1>1, <1>2 DEF Within, Least, Most
<1> HIDE DEF sp
<1>4. x \in Int /\ end \in Int /\ t - c + sp - 1 <= end /\ end <= t - 1 /\ (f => end = t - 1)
  BY <1>1, <1>3 DEF Within, Least, Most
<1>5. ClampView(t, s, a, f) = [start |-> end - sp + 1, end |-> end, span |-> sp]
  BY DEF ClampView, c, lo, sp
<1>6. ClampView(t, sp, IF f THEN end ELSE a, f) = [start |-> end - sp + 1, end |-> end, span |-> sp]
  BY <1>3 DEF ClampView, c, lo
<1> HIDE DEF end, x
<1>7. Window([start |-> end - sp + 1, end |-> end, span |-> sp], t)
  <2>1. /\ end - sp + 1 \in Int /\ t - c <= end - sp + 1 /\ sp \in 1 .. c
        /\ end \in Int /\ end <= t - 1
    BY <1>1, <1>2, <1>3, <1>4
  <2> QED
    BY <2>1 DEF Window, c
<1> QED
  BY <1>4, <1>5, <1>6, <1>7

\* A pixel, or the right edge, shows a column of the view.
LEMMA ColumnIs ==
  ASSUME NEW t \in Nat, t > 0, NEW v, Window(v, t), NEW x \in Nat, NEW w \in Nat \ {0}
  PROVE  ColumnAbsForX(x, w, v) \in v.start .. v.end
<1>1. v.span \in Nat /\ v.span >= 1 /\ v.end \in Int /\ v.start = v.end - v.span + 1
  BY CountIs DEF Window
<1>2. x * v.span \in Nat
  BY <1>1
<1>3. (x * v.span) \div w \in Nat
  BY <1>2, DivIsNat
<1>4. Least(v.span - 1, (x * v.span) \div w) \in 0 .. v.span - 1
  <2> DEFINE q == (x * v.span) \div w
  <2> HIDE DEF q
  <2>1. q \in Nat => Least(v.span - 1, q) \in 0 .. v.span - 1
    BY <1>1 DEF Least
  <2> QED
    BY <1>3, <2>1 DEF q
<1> QED
  BY <1>1, <1>4 DEF ColumnAbsForX

LEMMA TickIs ==
  ASSUME NEW m \in Nat, NEW i \in Tick
  PROVE  RoundDiv(i * m, 4) \in 0 .. m
<1>1. i * m \in 0 .. 4 * m
  BY DEF Tick
<1>2. \A k \in 0 .. 4 * m : (2 * k + 4) \div 8 \in 0 .. m
  OBVIOUS
<1> QED
  BY <1>1, <1>2 DEF RoundDiv

-----------------------------------------------------------------------------
(* The history.                                                             *)

\* Every column that the history still has is in its slot.
Holding(r, t) == \A a \in Nat : t - Count(t) <= a /\ a < t => r[Slot(a)] = a

LEMMA PushedHolds ==
  ASSUME NEW t \in Nat, NEW r \in [Slots -> Int], Holding(r, t)
  PROVE  Holding(Pushed(r, t), t + 1)
<1> SUFFICES ASSUME NEW a \in Nat, (t + 1) - Count(t + 1) <= a, a < t + 1
             PROVE  Pushed(r, t)[Slot(a)] = a
  BY DEF Holding
<1>1. Slot(a) \in Slots /\ Slot(t) \in Slots
  BY SlotIs
<1>2. CASE a = t
  BY <1>1, <1>2 DEF Pushed
<1>3. CASE a < t
  <2>0. HistoryCapacity \in Nat \ {0}
    OBVIOUS
  <2>1. t - a < HistoryCapacity /\ t - Count(t) <= a
    BY <1>3, <2>0 DEF Count, Least
  <2>2. Slot(a) # Slot(t)
    BY <1>3, <2>1, SlotsDiffer
  <2>3. r[Slot(a)] = a
    BY <1>3, <2>1 DEF Holding
  <2> QED
    BY <1>1, <2>2, <2>3 DEF Pushed
<1> QED
  BY <1>2, <1>3

LEMMA ViewHeld ==
  ASSUME NEW t \in Nat, t > 0, NEW r, Holding(r, t), NEW v, Window(v, t), NEW a \in v.start .. v.end
  PROVE  r[Slot(a)] = a /\ a \in 0 .. t - 1 /\ t - 1 - a \in 0 .. HistoryCapacity - 1
<1>1. a \in Nat /\ t - Count(t) <= a /\ a < t
  BY CountIs DEF Window
<1> QED
  BY <1>1, CountIs DEF Holding

LEMMA RenderedIs ==
  ASSUME NEW t \in Nat, t > 0, NEW r, Holding(r, t), NEW v, Window(v, t)
  PROVE  /\ Rendered(r, v) = {ColumnAbsForX(2 * x + 1, 2 * OutputWidth, v) : x \in 0 .. OutputWidth - 1}
         /\ Rendered(r, v) \subseteq 0 .. t - 1
<1> DEFINE Col(x) == ColumnAbsForX(2 * x + 1, 2 * OutputWidth, v)
<1>1. \A x \in 0 .. OutputWidth - 1 : Col(x) \in v.start .. v.end
  BY ColumnIs
<1>2. \A x \in 0 .. OutputWidth - 1 : r[Slot(Col(x))] = Col(x) /\ Col(x) \in 0 .. t - 1
  BY <1>1, ViewHeld
<1>3. Rendered(r, v) = {r[Slot(Col(x))] : x \in 0 .. OutputWidth - 1}
  BY DEF Rendered
<1> HIDE DEF Col
<1> QED
  BY <1>2, <1>3 DEF Col

LEMMA ReadoutIs ==
  ASSUME NEW t \in Nat, t > 0, NEW r, Holding(r, t), NEW v, Window(v, t), NEW f \in BOOLEAN
  PROVE  /\ Readout(t, r, v, f).live \in BOOLEAN
         /\ Readout(t, r, v, f).age \in [Tick -> 0 .. HistoryCapacity - 1]
<1> DEFINE At(i) == v.start + RoundDiv(i * (v.span - 1), 4)
<1>1. r[Slot(t - 1)] = t - 1
  <2>1. t - 1 \in Nat /\ t - Count(t) <= t - 1 /\ t - 1 < t
    BY CountIs
  <2> QED
    BY <2>1 DEF Holding
<1>2. \A i \in Tick : At(i) \in v.start .. v.end
  <2>1. v.span - 1 \in Nat /\ v.start \in Int /\ v.end = v.start + (v.span - 1)
    BY CountIs DEF Window
  <2>2. \A i \in Tick : RoundDiv(i * (v.span - 1), 4) \in 0 .. v.span - 1
    BY <2>1, TickIs
  <2> QED
    BY <2>1, <2>2
<1> HIDE DEF At
<1>3. ASSUME NEW i \in Tick
      PROVE  r[Slot(t - 1)] - r[Slot(At(i))] \in 0 .. HistoryCapacity - 1
  <2>1. At(i) \in v.start .. v.end
    BY <1>2
  <2>2. r[Slot(At(i))] = At(i) /\ t - 1 - At(i) \in 0 .. HistoryCapacity - 1
    BY <2>1, ViewHeld
  <2> QED
    BY <1>1, <2>2
<1> QED
  BY <1>3 DEF Readout, At

-----------------------------------------------------------------------------
(* The steps of the spectrogram.                                            *)

\* The anchor of a view that follows is brought up by every turn that paints,
\* so that grabbing the view does not move it.
ScopeIInv ==
    /\ ScopeTypeOK
    /\ Holding(ring, total)
    /\ dragging => total > 0
    /\ ~dirty /\ total > 0 /\ follow => anchor = total - 1
    /\ CanvasCurrent

LEMMA ScopeFacts ==
  ASSUME ScopeIInv
  PROVE  /\ total \in Nat /\ ring \in [Slots -> Int] /\ follow \in BOOLEAN
         /\ span \in Int /\ anchor \in Int /\ dragStart \in Int
         /\ total > 0 => Window(CurrentView, total)
<1>1. /\ total \in Nat /\ follow \in BOOLEAN
      /\ span \in Int /\ anchor \in Int /\ dragStart \in Int
  BY DEF ScopeIInv, ScopeTypeOK
<1>2. ring \in [Slots -> Int]
  BY DEF ScopeIInv, ScopeTypeOK
<1> QED
  BY <1>1, <1>2, ViewIs DEF CurrentView

LEMMA MountType ==
  /\ Holding([s \in Slots |-> -1], 0)
  /\ [s \in Slots |-> -1] \in [Slots -> -1 .. MaxPushed - 1]
  /\ Most(MinVisible, Rows) \in Nat \ {0}
  /\ NoReadout.live \in BOOLEAN /\ NoReadout.age \in [Tick -> 0 .. HistoryCapacity - 1]
<1>1. Holding([s \in Slots |-> -1], 0)
  BY DEF Holding
<1>2. Most(MinVisible, Rows) \in Nat \ {0}
  BY DEF Most
<1>3. NoReadout.age \in [Tick -> 0 .. HistoryCapacity - 1]
  BY DEF NoReadout
<1> QED
  BY <1>1, <1>2, <1>3 DEF NoReadout

LEMMA InitScope == ScopeInit => ScopeIInv
<1> SUFFICES ASSUME ScopeInit PROVE ScopeIInv
  OBVIOUS
<1>1. total = 0 /\ ring = [s \in Slots |-> -1] /\ dirty = TRUE /\ dragging = FALSE
      /\ frame = NoFrame /\ lastSeq = NoFrame
      /\ follow = TRUE /\ span = Most(MinVisible, Rows) /\ anchor = 0
      /\ dragStart = 0 /\ painted = {} /\ ui = NoReadout
  BY DEF ScopeInit
<1>2. ScopeTypeOK
  <2>1. frame \in FrameSeq \cup {NoFrame} /\ lastSeq \in FrameSeq \cup {NoFrame}
    BY <1>1
  <2>2. total \in 0 .. MaxPushed /\ ring \in [Slots -> -1 .. MaxPushed - 1]
    BY <1>1, MountType
  <2>3. follow \in BOOLEAN /\ dirty \in BOOLEAN /\ dragging \in BOOLEAN
    BY <1>1
  <2>4. span \in Nat \ {0} /\ anchor \in Int /\ dragStart \in Int
    BY <1>1, MountType
  <2>5. painted \subseteq 0 .. MaxPushed - 1
    BY <1>1
  <2>6. ui.live \in BOOLEAN /\ ui.age \in [Tick -> 0 .. HistoryCapacity - 1]
    BY <1>1, MountType
  <2> QED
    BY <2>1, <2>2, <2>3, <2>4, <2>5, <2>6 DEF ScopeTypeOK
<1>3. Holding(ring, total)
  BY <1>1, MountType
<1> QED
  BY <1>1, <1>2, <1>3 DEF ScopeIInv, CanvasCurrent

\* The page is closed, or opened on the frame that the store has.
LEMMA ScopeMount ==
  ASSUME ScopeRemounted, frame' \in FrameSeq \cup {NoFrame}
  PROVE  ScopeIInv'
<1>2. total' = 0 /\ ring' = [s \in Slots |-> -1] /\ dirty' = TRUE /\ dragging' = FALSE
  BY DEF ScopeRemounted
<1>3. ScopeTypeOK'
  <2>1. /\ lastSeq' = NoFrame /\ follow' = TRUE /\ span' = Most(MinVisible, Rows) /\ anchor' = 0
        /\ dragStart' = 0 /\ painted' = {} /\ ui' = NoReadout
    BY DEF ScopeRemounted
  <2>2. frame' \in FrameSeq \cup {NoFrame} /\ lastSeq' \in FrameSeq \cup {NoFrame}
    BY <2>1
  <2>3. total' \in 0 .. MaxPushed /\ ring' \in [Slots -> -1 .. MaxPushed - 1]
    BY <1>2, MountType
  <2>4. follow' \in BOOLEAN /\ dirty' \in BOOLEAN /\ dragging' \in BOOLEAN
    BY <1>2, <2>1
  <2>5. span' \in Nat \ {0} /\ anchor' \in Int /\ dragStart' \in Int
    BY <2>1, MountType
  <2>6. painted' \subseteq 0 .. MaxPushed - 1
    BY <2>1
  <2>7. ui'.live \in BOOLEAN /\ ui'.age \in [Tick -> 0 .. HistoryCapacity - 1]
    BY <2>1, MountType
  <2> QED
    BY <2>2, <2>3, <2>4, <2>5, <2>6, <2>7 DEF ScopeTypeOK
<1>4. Holding(ring', total')
  BY <1>2, MountType
<1>5. CanvasCurrent'
  BY <1>2 DEF CanvasCurrent
<1> QED
  BY <1>2, <1>3, <1>4, <1>5 DEF ScopeIInv

LEMMA WindowStep == ASSUME ScopeIInv, NewWindow PROVE ScopeIInv'
<1> QED
  BY ScopeMount DEF NewWindow

LEMMA FrameStep == ASSUME ScopeIInv, FrameArrives PROVE ScopeIInv'
<1>1. frame' \in FrameSeq /\ UNCHANGED <<lastSeq, total, ring, viewVars, dirty, painted, ui>>
  BY DEF FrameArrives
<1>2. UNCHANGED <<lastSeq, total, ring, follow, span, anchor, dragging, dragStart, dirty, painted, ui>>
  BY <1>1 DEF viewVars
<1>3. ScopeTypeOK'
  BY <1>1, <1>2 DEF ScopeIInv, ScopeTypeOK
<1>4. CurrentView' = CurrentView
  BY <1>2 DEF CurrentView
<1>5. CanvasCurrent'
  BY <1>1, <1>2, <1>4 DEF ScopeIInv, CanvasCurrent
<1> QED
  BY <1>2, <1>3, <1>5 DEF ScopeIInv

LEMMA LabelStep == ASSUME ScopeIInv, UpdateUi PROVE ScopeIInv'
<1>1. ui'.live \in BOOLEAN /\ ui'.age \in [Tick -> 0 .. HistoryCapacity - 1]
  BY ScopeFacts, ReadoutIs DEF UpdateUi, ScopeIInv
<1> QED
  BY <1>1 DEF UpdateUi, viewVars, ScopeIInv, ScopeTypeOK, CanvasCurrent, CurrentView

LEMMA LoopStep == ASSUME ScopeIInv, Loop PROVE ScopeIInv'
<1> DEFINE new == frame \notin {NoFrame, lastSeq}
           t == IF new THEN total + 1 ELSE total
           r == IF new THEN Pushed(ring, total) ELSE ring
           v == ClampView(t, span, anchor, follow)
<1>1. /\ new => total < MaxPushed
      /\ lastSeq' = (IF new THEN frame ELSE lastSeq)
      /\ total' = t /\ ring' = r /\ dirty' = FALSE
      /\ UNCHANGED <<frame, follow, dragging, dragStart>>
      /\ t > 0 => /\ painted' = Rendered(r, v) /\ span' = v.span
                  /\ anchor' = (IF follow THEN v.end ELSE anchor)
                  /\ ui' \in {ui, Readout(t, r, v, follow)}
      /\ ~(t > 0) => UNCHANGED <<painted, span, anchor, ui>>
  BY DEF Loop
<1>2. t \in 0 .. MaxPushed /\ t \in Nat /\ total <= t
  BY <1>1, ScopeFacts DEF ScopeIInv, ScopeTypeOK
<1>3. Holding(r, t)
  <2>1. Holding(ring, total)
    BY DEF ScopeIInv
  <2> QED
    BY <2>1, ScopeFacts, PushedHolds
<1>4. r \in [Slots -> -1 .. MaxPushed - 1]
  BY <1>1, ScopeFacts, SlotIs DEF Pushed, ScopeIInv, ScopeTypeOK
<1> HIDE DEF t, r, new
<1>5. CASE t > 0
  <2>1. /\ Window(v, t) /\ (follow => v.end = t - 1)
        /\ ClampView(t, v.span, IF follow THEN v.end ELSE anchor, follow) = v
    BY <1>2, <1>5, ScopeFacts, ViewIs
  <2> HIDE DEF v
  <2>2. v.span \in Nat \ {0} /\ v.end \in Int
    BY <2>1, <1>2, <1>5, CountIs DEF Window
  <2>3. /\ Rendered(r, v) = {ColumnAbsForX(2 * x + 1, 2 * OutputWidth, v) : x \in 0 .. OutputWidth - 1}
        /\ Rendered(r, v) \subseteq 0 .. t - 1
    BY <2>1, <1>2, <1>3, <1>5, RenderedIs
  <2>4. ui'.live \in BOOLEAN /\ ui'.age \in [Tick -> 0 .. HistoryCapacity - 1]
    BY <2>1, <1>1, <1>2, <1>3, <1>5, ScopeFacts, ReadoutIs DEF v, ScopeIInv, ScopeTypeOK
  <2>5. CurrentView' = v
    BY <2>1, <1>1, <1>5 DEF CurrentView, v
  <2>6. CanvasCurrent'
    BY <2>3, <2>5, <1>1, <1>5 DEF CanvasCurrent, v
  <2>7. painted' \subseteq 0 .. MaxPushed - 1
    BY <2>3, <1>1, <1>2, <1>5 DEF v
  <2>8. span' \in Nat \ {0} /\ anchor' \in Int /\ (follow => anchor' = t - 1)
    BY <2>1, <2>2, <1>1, <1>5, ScopeFacts DEF v
  <2>9. frame' \in FrameSeq \cup {NoFrame} /\ lastSeq' \in FrameSeq \cup {NoFrame}
    BY <1>1 DEF ScopeIInv, ScopeTypeOK
  <2>10. ScopeTypeOK'
    BY <2>4, <2>7, <2>8, <2>9, <1>1, <1>2, <1>4 DEF ScopeIInv, ScopeTypeOK
  <2> QED
    BY <2>6, <2>8, <2>10, <1>1, <1>3, <1>5 DEF ScopeIInv
<1>6. CASE ~(t > 0)
  <2>1. total' = 0 /\ total = 0
    BY <1>1, <1>2, <1>6, ScopeFacts
  <2>2. ScopeTypeOK'
    <3>1. lastSeq' \in FrameSeq \cup {NoFrame}
      BY <1>1 DEF ScopeIInv, ScopeTypeOK
    <3> QED
      BY <3>1, <1>1, <1>2, <1>4, <1>6 DEF ScopeIInv, ScopeTypeOK
  <2> QED
    BY <2>1, <2>2, <1>1, <1>3 DEF ScopeIInv, CanvasCurrent
<1> QED
  BY <1>5, <1>6

LEMMA RoundIs == ASSUME NEW a \in Int, NEW b \in Nat \ {0} PROVE RoundDiv(a, b) \in Int
<1>1. 2 * a + b \in Int /\ 2 * b \in Nat \ {0}
  OBVIOUS
<1> QED
  BY <1>1, DivMod DEF RoundDiv

LEMMA WheelStep ==
  ASSUME ScopeIInv, NEW x \in 0 .. OutputWidth, NEW in \in BOOLEAN, Wheel(x, in)
  PROVE  ScopeIInv'
<1> DEFINE v == CurrentView
           zoomed == IF in THEN RoundDiv(v.span * 5, 6) ELSE RoundDiv(v.span * 6, 5)
           n == Within(zoomed, Least(MinVisible, Count(total)), Count(total))
           start == RoundDiv(ColumnAbsForX(x, OutputWidth, v) * OutputWidth - x * n, OutputWidth)
<1>1. /\ total > 0 /\ span' = n /\ anchor' = (IF follow THEN anchor ELSE start + n - 1)
      /\ dirty' = TRUE
      /\ UNCHANGED <<frame, lastSeq, total, ring, follow, dragging, dragStart, painted, ui>>
  BY DEF Wheel
<1>2. Window(v, total) /\ total \in Nat /\ anchor \in Int
  BY <1>1, ScopeFacts
<1> HIDE DEF v
<1>3. v.span \in Nat /\ v.start \in Int /\ v.end \in Int
  BY <1>1, <1>2, CountIs DEF Window
<1>4. zoomed \in Int
  <2>1. v.span * 5 \in Int /\ v.span * 6 \in Int
    BY <1>3
  <2>2. 5 \in Nat \ {0} /\ 6 \in Nat \ {0}
    OBVIOUS
  <2>3. RoundDiv(v.span * 5, 6) \in Int /\ RoundDiv(v.span * 6, 5) \in Int
    BY <2>1, <2>2, RoundIs, Zenon
  <2> QED
    BY <2>3, Zenon
<1> HIDE DEF zoomed
<1>5. n \in Nat \ {0}
  <2>1. Count(total) \in Nat \ {0}
    BY <1>1, <1>2, CountIs
  <2>2. Least(MinVisible, Count(total)) \in Nat \ {0}
    BY <2>1 DEF Least
  <2> QED
    BY <1>4, <2>1, <2>2, WithinIs
<1> HIDE DEF n
<1>6. start \in Int
  <2>0. x \in Nat /\ OutputWidth \in Nat \ {0}
    OBVIOUS
  <2> HIDE ScopeAssumption, RecordingsAssumption
  <2>1. ColumnAbsForX(x, OutputWidth, v) \in v.start .. v.end
    BY <1>1, <1>2, <2>0, ColumnIs
  <2> USE ScopeAssumption
  <2>2. ColumnAbsForX(x, OutputWidth, v) * OutputWidth - x * n \in Int
    BY <2>1, <1>3, <1>5
  <2> QED
    BY <2>2, RoundIs
<1> HIDE DEF start
<1>7. span' \in Nat \ {0} /\ anchor' \in Int
  BY <1>1, <1>2, <1>5, <1>6
<1> QED
  BY <1>1, <1>7 DEF ScopeIInv, ScopeTypeOK, CanvasCurrent

LEMMA DragStep ==
  ASSUME ScopeIInv, NEW dx \in -OutputWidth .. OutputWidth, Drag(dx)
  PROVE  ScopeIInv'
<1> DEFINE a == RoundDiv(dragStart * OutputWidth - dx * span, OutputWidth)
<1>1. total > 0
  BY DEF Drag, ScopeIInv
<1>2. a \in Int
  <2>1. dragStart * OutputWidth - dx * span \in Int
    BY ScopeFacts
  <2> QED
    BY <2>1, RoundIs
<1> HIDE DEF a
<1>3. anchor' = ClampView(total, span, a, FALSE).end
  BY DEF Drag, a
<1>4. anchor' \in Int
  BY <1>1, <1>2, <1>3, ScopeFacts, ViewIs DEF Window
<1> QED
  BY <1>4 DEF Drag, ScopeIInv, ScopeTypeOK, CanvasCurrent

LEMMA ButtonStep ==
  ASSUME ScopeIInv, MouseDown \/ MouseUp \/ ResetView
  PROVE  ScopeIInv'
<1>1. CASE MouseDown
  <2>1. total > 0 /\ Window(CurrentView, total)
    BY <1>1, ScopeFacts DEF MouseDown
  <2>2. dragStart' \in Int
    BY <1>1, <2>1 DEF MouseDown, Window
  <2>3. ~dirty => CurrentView' = CurrentView
    BY <1>1 DEF MouseDown, CurrentView, ClampView, ScopeIInv
  <2> QED
    BY <1>1, <2>1, <2>2, <2>3 DEF MouseDown, ScopeIInv, ScopeTypeOK, CanvasCurrent
<1>2. CASE MouseUp
  BY <1>2 DEF MouseUp, ScopeIInv, ScopeTypeOK, CanvasCurrent
<1>3. CASE ResetView
  BY <1>3 DEF ResetView, ScopeIInv, ScopeTypeOK, CanvasCurrent
<1> QED
  BY <1>1, <1>2, <1>3

LEMMA ScopeInductive == ASSUME ScopeIInv, ScopeStep PROVE ScopeIInv'
<1>1. CASE UNCHANGED scopeVars
  BY <1>1 DEF scopeVars, viewVars, ScopeIInv, ScopeTypeOK, CanvasCurrent, CurrentView
<1>2. CASE ScopeNext
  BY <1>2, FrameStep, WindowStep, LoopStep, LabelStep, WheelStep, DragStep, ButtonStep
     DEF ScopeNext, Watching, Mouse
<1> QED
  BY <1>1, <1>2, ScopeMount DEF ScopeStep

LEMMA ScopeInvariant == BrowserSpec => []ScopeIInv
<1>1. BrowserInit => ScopeIInv
  BY InitScope DEF BrowserInit
<1>2. ScopeIInv /\ [BrowserNext]_browserVars => ScopeIInv'
  BY PageSteps, ScopeInductive
<1> QED
  BY <1>1, <1>2, PTL DEF BrowserSpec

\* Whatever is pushed, zoomed, dragged and reset, every column of the view and
\* under the mouse is in the ring, in its own slot (clampView, pushColumn), for
\* every capacity of the history and every width of the canvas.
THEOREM ScopeRetainsView == BrowserSpec => []ViewRetained
<1>1. ScopeIInv => ViewRetained
  <2> SUFFICES ASSUME ScopeIInv, total > 0
               PROVE  /\ \A a \in CurrentView.start .. CurrentView.end : ring[Slot(a)] = a
                      /\ \A x \in 0 .. OutputWidth : HoverAge(x) \in 0 .. HistoryCapacity - 1
    BY DEF ViewRetained
  <2>1. total \in Nat /\ Window(CurrentView, total) /\ Holding(ring, total)
    BY ScopeFacts DEF ScopeIInv
  <2>2. ring[Slot(total - 1)] = total - 1
    <3>1. total - 1 \in Nat /\ total - Count(total) <= total - 1 /\ total - 1 < total
      BY <2>1, CountIs
    <3> QED
      BY <3>1, <2>1 DEF Holding
  <2>3. ASSUME NEW x \in 0 .. OutputWidth
        PROVE  HoverAge(x) \in 0 .. HistoryCapacity - 1
    <3>1. ColumnAbsForX(x, OutputWidth, CurrentView) \in CurrentView.start .. CurrentView.end
      BY <2>1, ColumnIs
    <3> DEFINE col == ColumnAbsForX(x, OutputWidth, CurrentView)
    <3> HIDE DEF col
    <3>2. ring[Slot(col)] = col /\ total - 1 - col \in 0 .. HistoryCapacity - 1
      BY <3>1, <2>1, ViewHeld DEF col
    <3> QED
      BY <2>2, <3>2 DEF HoverAge, col
  <2>4. \A a \in CurrentView.start .. CurrentView.end : ring[Slot(a)] = a
    BY <2>1, ViewHeld, SMTT(20)
  <2> QED
    BY <2>3, <2>4, Zenon
<1> QED
  BY <1>1, ScopeInvariant, PTL

\* When no repaint is due the canvas shows the columns of the current view: no
\* handler of the mouse and no frame changes them without dirtyRef, for every
\* capacity of the history and every width of the canvas.
THEOREM ScopePaintsView == BrowserSpec => []CanvasCurrent
<1>1. ScopeIInv => CanvasCurrent
  BY DEF ScopeIInv
<1> QED
  BY <1>1, ScopeInvariant, PTL

-----------------------------------------------------------------------------
(* The files and rows of the recordings.                                    *)

\* A file is never written twice under one number, and the row is deleted
\* only after its file.
RecordingsIInv ==
    /\ made \in Nat
    /\ files \subseteq 1 .. made /\ rows \subseteq 1 .. made
    /\ writing \subseteq 1 .. made /\ unlisted \subseteq 1 .. made
    /\ \A n \in Rec : deletes[n] = "unlinked" => n \in (1 .. made) \ files
    /\ NothingOrphaned

LEMMA KeptIsOld == Kept \subseteq files
BY DEF Kept

LEMMA InitRecordings == RecordingsClosed => RecordingsIInv
BY DEF RecordingsClosed, RecordingsIInv, NothingOrphaned

\* A step of the page that leaves the disk alone and unlinks nothing.
LEMMA PageStep ==
  ASSUME RecordingsIInv, UNCHANGED diskVars,
         \A n \in Rec : deletes'[n] = "unlinked" => deletes[n] = "unlinked"
  PROVE  RecordingsIInv'
<1>1. UNCHANGED <<made, files, rows, writing, unlisted, clearing>>
  BY DEF diskVars
<1>2. NothingOrphaned'
  BY <1>1 DEF RecordingsIInv, NothingOrphaned
<1>3. ASSUME NEW n \in Rec, deletes'[n] = "unlinked"
      PROVE  n \in (1 .. made') \ files'
  BY <1>1, <1>3 DEF RecordingsIInv
<1> QED
  BY <1>1, <1>2, <1>3 DEF RecordingsIInv

LEMMA CaptureStep ==
  ASSUME RecordingsIInv, Captures, UNCHANGED deletes
  PROVE  RecordingsIInv'
<1>1. made' = made + 1 /\ files' = Kept \cup {made + 1} /\ writing' = writing \cup {made + 1}
      /\ rows' = rows /\ unlisted' = unlisted /\ clearing' = clearing
  BY DEF Captures
<1>2. made \in Nat /\ files \subseteq 1 .. made /\ rows \subseteq 1 .. made
      /\ writing \subseteq 1 .. made /\ unlisted \subseteq 1 .. made
  BY DEF RecordingsIInv
<1>3. NothingOrphaned'
  <2>1. files \subseteq rows \cup writing \cup unlisted \/ clearing
    BY DEF RecordingsIInv, NothingOrphaned
  <2> QED
    BY <1>1, <2>1, KeptIsOld DEF NothingOrphaned
<1>4. made' \in Nat /\ 1 .. made \subseteq 1 .. made' /\ made + 1 \in 1 .. made'
      /\ made + 1 \notin 1 .. made
  BY <1>1, <1>2
<1>5. files' \subseteq 1 .. made' /\ rows' \subseteq 1 .. made'
      /\ writing' \subseteq 1 .. made' /\ unlisted' \subseteq 1 .. made'
  <2>1. files' \subseteq 1 .. made'
    BY <1>1, <1>2, <1>4, KeptIsOld
  <2>2. rows' \subseteq 1 .. made' /\ unlisted' \subseteq 1 .. made'
    BY <1>1, <1>2, <1>4
  <2>3. writing' \subseteq 1 .. made'
    BY <1>1, <1>2, <1>4
  <2> QED
    BY <2>1, <2>2, <2>3
<1>6. ASSUME NEW n \in Rec, deletes'[n] = "unlinked"
      PROVE  n \in (1 .. made') \ files'
  <2>1. n \in (1 .. made) \ files
    BY <1>6 DEF RecordingsIInv
  <2> QED
    BY <2>1, <1>1, <1>4, KeptIsOld
<1> QED
  BY <1>3, <1>4, <1>5, <1>6 DEF RecordingsIInv

LEMMA RowStep == ASSUME RecordingsIInv, NEW n \in Rec, Creates(n) PROVE RecordingsIInv'
<1>1. /\ n \in writing /\ ~clearing /\ writing' = writing \ {n}
      /\ \/ rows' = rows \cup {n} /\ unlisted' = unlisted
         \/ unlisted' = unlisted \cup {n} /\ rows' = rows
      /\ UNCHANGED <<made, files, clearing, deletes>>
  BY DEF Creates
<1>2. NothingOrphaned'
  <2>1. files \subseteq rows \cup writing \cup unlisted
    BY <1>1 DEF RecordingsIInv, NothingOrphaned
  <2> QED
    BY <1>1, <2>1 DEF NothingOrphaned
<1>3. n \in 1 .. made
  BY <1>1 DEF RecordingsIInv
<1>4. rows' \subseteq 1 .. made /\ writing' \subseteq 1 .. made /\ unlisted' \subseteq 1 .. made
  BY <1>1, <1>3 DEF RecordingsIInv
<1>5. \A k \in Rec : deletes'[k] = "unlinked" => k \in (1 .. made') \ files'
  BY <1>1 DEF RecordingsIInv
<1> QED
  BY <1>1, <1>2, <1>4, <1>5 DEF RecordingsIInv

LEMMA ClearStep == ASSUME RecordingsIInv, ClearRows \/ ClearFiles PROVE RecordingsIInv'
<1>1. CASE ClearRows
  <2>1. clearing' = TRUE /\ rows' = {} /\ UNCHANGED <<made, files, writing, unlisted, deletes>>
    BY <1>1 DEF ClearRows
  <2> QED
    BY <2>1 DEF RecordingsIInv, NothingOrphaned
<1>2. CASE ClearFiles
  <2>1. files' = {} /\ UNCHANGED <<made, rows, writing, unlisted, deletes>>
    BY <1>2 DEF ClearFiles
  <2> QED
    BY <2>1 DEF RecordingsIInv, NothingOrphaned
<1> QED
  BY <1>1, <1>2

\* delete_recording() takes the file first, so the row it then deletes was
\* the row of no file.
LEMMA UnlinkStep == ASSUME RecordingsIInv, NEW n \in Rec, Unlink(n) PROVE RecordingsIInv'
<1>1. /\ n \in rows /\ files' = files \ {n}
      /\ deletes' = [deletes EXCEPT ![n] = "unlinked"]
      /\ UNCHANGED <<made, rows, writing, unlisted, clearing>>
  BY DEF Unlink
<1>2. NothingOrphaned'
  BY <1>1 DEF RecordingsIInv, NothingOrphaned
<1>3. ASSUME NEW k \in Rec, deletes'[k] = "unlinked"
      PROVE  k \in (1 .. made') \ files'
  BY <1>1, <1>3 DEF RecordingsIInv
<1> QED
  BY <1>1, <1>2, <1>3 DEF RecordingsIInv

LEMMA DeleteRowStep == ASSUME RecordingsIInv, NEW n \in Rec, DeleteRow(n) PROVE RecordingsIInv'
<1>1. /\ deletes[n] = "unlinked" /\ rows' = rows \ {n}
      /\ deletes' = [deletes EXCEPT ![n] = "deleted"]
      /\ UNCHANGED <<made, files, writing, unlisted, clearing>>
  BY DEF DeleteRow
<1>2. n \notin files
  BY <1>1 DEF RecordingsIInv
<1>3. NothingOrphaned'
  BY <1>1, <1>2 DEF RecordingsIInv, NothingOrphaned
<1>4. ASSUME NEW k \in Rec, deletes'[k] = "unlinked"
      PROVE  k \in (1 .. made') \ files'
  BY <1>1, <1>4 DEF RecordingsIInv
<1> QED
  BY <1>1, <1>3, <1>4 DEF RecordingsIInv

\* The page is opened on some recordings, or closed.
LEMMA RecordingsMounted ==
  ASSUME NEW n \in Nat, NEW kept, kept \subseteq 1 .. n, NEW at, RecordingsMount(n, kept, at)
  PROVE  RecordingsIInv'
<1>1. made' = n /\ files' = kept /\ rows' = 1 .. n /\ writing' = {} /\ unlisted' = {}
  BY DEF RecordingsMount
<1>2. deletes' = [r \in Rec |-> "none"]
  BY DEF RecordingsMount
<1>3. \A k \in Rec : deletes'[k] = "none"
  BY <1>2
<1>4. NothingOrphaned'
  BY <1>1 DEF NothingOrphaned
<1>5. \A k \in Rec : deletes'[k] = "unlinked" => k \in (1 .. made') \ files'
  BY <1>3
<1> QED
  BY <1>1, <1>4, <1>5 DEF RecordingsIInv

LEMMA RecordingsInductive == ASSUME RecordingsIInv, RecordingsStep PROVE RecordingsIInv'
<1>1. CASE UNCHANGED recordingsVars
  BY <1>1, PageStep DEF recordingsVars
<1>2. CASE \/ StartRecording \/ StopRecording \/ CommandAnswered \/ CommandFails
           \/ RefreshButton \/ RowButtons \/ CloseDialog
           \/ \E r \in Reader : ListArrives(r) \/ Reloaded(r)
  <2>1. UNCHANGED diskVars /\ deletes' = deletes
    BY <1>2 DEF StartRecording, StopRecording, CommandAnswered, CommandFails, RefreshButton,
                RowButtons, CloseDialog, ListArrives, Reloaded
  <2> QED
    BY <2>1, PageStep
<1>3. CASE ConfirmDelete \/ \E n \in Rec : Deleted(n) \/ DeleteFails(n)
  <2>1. UNCHANGED diskVars
    BY <1>3 DEF ConfirmDelete, Deleted, DeleteFails
  <2>2. \E k, v : deletes' = [deletes EXCEPT ![k] = v] /\ v # "unlinked"
    BY <1>3 DEF ConfirmDelete, Deleted, DeleteFails
  <2>3. \A n \in Rec : deletes'[n] = "unlinked" => deletes[n] = "unlinked"
    BY <2>2
  <2> QED
    BY <2>1, <2>3, PageStep
<1>4. CASE ScanCaptures \/ StartArrives
  <2>1. Captures /\ deletes' = deletes
    BY <1>4 DEF ScanCaptures, StartArrives
  <2> QED
    BY <2>1, CaptureStep
<1>5. CASE \E n \in Rec : Creates(n) \/ Unlink(n) \/ DeleteRow(n)
  BY <1>5, RowStep, UnlinkStep, DeleteRowStep
<1>6. CASE ClearRows \/ ClearFiles
  BY <1>6, ClearStep
<1>7. CASE RecordingsOpens
  <2>1. PICK n \in 0 .. 1 : \E kept \in SUBSET (1 .. n) : RecordingsMount(n, kept, "asked")
    BY <1>7 DEF RecordingsOpens
  <2>2. n \in Nat
    OBVIOUS
  <2> QED
    BY <2>1, <2>2, RecordingsMounted
<1>8. CASE RecordingsCloses
  BY <1>8, RecordingsMounted DEF RecordingsCloses
<1> QED
  BY <1>1, <1>2, <1>3, <1>4, <1>5, <1>6, <1>7, <1>8 DEF RecordingsNext, RecordingsStep

\* Whatever captures, evictions, deletions and clears overlap (recorder.py,
\* delete_recording, clear_all_data), a file on the disk has a row or will
\* have one, unless inserting the row failed or a clear is about to take the
\* file: for every number of recordings and every storage cap.
THEOREM RecordingsStayReachable == BrowserSpec => []NothingOrphaned
<1>1. BrowserInit => RecordingsIInv
  BY InitRecordings DEF BrowserInit
<1>2. RecordingsIInv /\ [BrowserNext]_browserVars => RecordingsIInv'
  BY PageSteps, RecordingsInductive
<1>3. RecordingsIInv => NothingOrphaned
  BY DEF RecordingsIInv
<1> QED
  BY <1>1, <1>2, <1>3, PTL DEF BrowserSpec
-----------------------------------------------------------------------------
(* The types of the recordings.                                             *)

Read == [at : {"none", "asked", "answered"}, ids : SUBSET Rec]
Command == {"none", "start", "capture", "started", "stop", "reload"}
DeleteState == {"none", "asked", "unlinked", "deleted"}
Dialogs == [is : {"none", "delete", "inspect"}, rec : Nat]

\* A list names recordings that were made, and so do a list on its way and
\* the dialog.
ListsMade ==
    /\ reads \in [Reader -> Read] /\ \A r \in Reader : reads[r].ids \subseteq 1 .. made
    /\ listed \subseteq 1 .. made
    /\ dialog \in Dialogs /\ dialog.rec <= made

RecordingsTInv ==
    /\ made \in 0 .. MaxMade
    /\ files \subseteq 1 .. made /\ rows \subseteq 1 .. made
    /\ writing \subseteq 1 .. made /\ unlisted \subseteq 1 .. made
    /\ clearing \in BOOLEAN /\ reading \in BOOLEAN /\ recording \in BOOLEAN
    /\ command \in Command
    /\ mine \in 0 .. made
    /\ deletes \in [Rec -> DeleteState]
    /\ ListsMade

LEMMA RecordingsTypes == RecordingsTInv => RecordingsTypeOK
<1> SUFFICES ASSUME RecordingsTInv PROVE RecordingsTypeOK
  OBVIOUS
<1>1. reads \in [Reader -> [at : {"none", "asked", "answered"}, ids : SUBSET Rec]]
  BY DEF RecordingsTInv, ListsMade, Read
<1>2. PICK d \in Dialogs : d = dialog
  BY DEF RecordingsTInv, ListsMade
<1>3. d.rec \in 0 .. made /\ d.is \in {"none", "delete", "inspect"} /\ d = [is |-> d.is, rec |-> d.rec]
  BY <1>2 DEF RecordingsTInv, ListsMade, Dialogs
<1>4. dialog \in [is : {"none", "delete", "inspect"}, rec : 0 .. made]
  BY <1>2, <1>3
<1>5. \A s \in {files, rows, writing, unlisted, listed} : s \subseteq 1 .. made
  BY DEF RecordingsTInv, ListsMade
<1>6. {clearing, reading, recording} \subseteq BOOLEAN
  BY DEF RecordingsTInv
<1> QED
  BY <1>1, <1>4, <1>5, <1>6 DEF RecordingsTInv, RecordingsTypeOK, Command, DeleteState

LEMMA NoReadIs == NoRead \in Read /\ NoRead.ids = {} /\ NoDialog \in Dialogs /\ NoDialog.rec = 0
BY DEF NoRead, Read, NoDialog, Dialogs

LEMMA RecordingsStarted ==
  ASSUME NEW n \in 0 .. 1, NEW kept \in SUBSET (1 .. n), NEW at \in {"none", "asked"},
         RecordingsMount(n, kept, at)
  PROVE  RecordingsTInv'
<1>1. n \in 0 .. MaxMade
  OBVIOUS
<1>2. PICK read \in Read : read = [NoRead EXCEPT !.at = at] /\ read.ids = {}
  <2>1. [NoRead EXCEPT !.at = at] = [at |-> at, ids |-> {}]
    BY DEF NoRead
  <2>2. [at |-> at, ids |-> {}] \in Read
    BY DEF Read
  <2> QED
    BY <2>1, <2>2
<1>3. reads' = [r \in Reader |-> IF r = "page" THEN read ELSE NoRead]
  BY <1>2 DEF RecordingsMount
<1>4. reads' \in [Reader -> Read] /\ \A r \in Reader : reads'[r].ids = {}
  BY <1>2, <1>3, NoReadIs
<1>5. /\ made' = n /\ files' = kept /\ rows' = 1 .. n
      /\ writing' = {} /\ unlisted' = {} /\ clearing' = FALSE
      /\ listed' = {} /\ reading' = (at = "asked")
      /\ recording' = FALSE /\ command' = "none" /\ mine' = 0
      /\ deletes' = [r \in Rec |-> "none"] /\ dialog' = NoDialog
  BY DEF RecordingsMount
<1>6. ListsMade'
  BY <1>1, <1>4, <1>5, NoReadIs DEF ListsMade
<1>7. reading' \in BOOLEAN /\ clearing' \in BOOLEAN /\ recording' \in BOOLEAN
  BY <1>5, Zenon
<1>8. /\ made' \in 0 .. MaxMade /\ mine' \in 0 .. made'
      /\ files' \subseteq 1 .. made' /\ rows' \subseteq 1 .. made'
      /\ writing' \subseteq 1 .. made' /\ unlisted' \subseteq 1 .. made'
  BY <1>1, <1>5
<1>9. command' \in Command /\ deletes' \in [Rec -> DeleteState]
  BY <1>5 DEF Command, DeleteState
<1> QED
  BY <1>6, <1>7, <1>8, <1>9, Zenon DEF RecordingsTInv

LEMMA RecordingsAtFirst == RecordingsClosed => RecordingsTInv
<1> SUFFICES ASSUME RecordingsClosed PROVE RecordingsTInv
  OBVIOUS
<1>1. reads \in [Reader -> Read] /\ \A r \in Reader : reads[r].ids = {}
  BY NoReadIs DEF RecordingsClosed
<1>2. ListsMade
  BY <1>1, NoReadIs DEF RecordingsClosed, ListsMade
<1>3. clearing \in BOOLEAN /\ reading \in BOOLEAN /\ recording \in BOOLEAN
  BY Zenon DEF RecordingsClosed
<1>4. /\ made \in 0 .. MaxMade /\ mine \in 0 .. made
      /\ files \subseteq 1 .. made /\ rows \subseteq 1 .. made
      /\ writing \subseteq 1 .. made /\ unlisted \subseteq 1 .. made
  BY DEF RecordingsClosed
<1>5. command \in Command /\ deletes \in [Rec -> DeleteState]
  BY DEF RecordingsClosed, Command, DeleteState
<1> QED
  BY <1>2, <1>3, <1>4, <1>5, Zenon DEF RecordingsTInv

\* What the page shows, while more recordings are made.
LEMMA ListsKept ==
  ASSUME RecordingsTInv, made' \in Nat, made <= made', UNCHANGED <<reads, listed, dialog>>
  PROVE  ListsMade' /\ 1 .. made \subseteq 1 .. made'
<1>1. made \in Nat /\ 1 .. made \subseteq 1 .. made'
  BY DEF RecordingsTInv
<1>2. PICK d \in Dialogs : d = dialog /\ d.rec <= made
  BY DEF RecordingsTInv, ListsMade
<1>3. d.rec <= made'
  BY <1>1, <1>2 DEF Dialogs
<1> QED
  BY <1>1, <1>2, <1>3 DEF RecordingsTInv, ListsMade

\* A recording is written.
LEMMA CapturesTyped ==
  ASSUME RecordingsTInv, Captures,
         UNCHANGED <<listed, reading, reads, recording, deletes, dialog>>,
         command' \in Command, mine' \in {mine, made + 1}
  PROVE  RecordingsTInv'
<1>1. /\ made < MaxMade /\ made' = made + 1 /\ files' = Kept \cup {made + 1}
      /\ writing' = writing \cup {made + 1} /\ UNCHANGED <<rows, unlisted, clearing>>
  BY DEF Captures
<1>2. made \in Nat /\ made' \in 0 .. MaxMade /\ made' \in Nat /\ made <= made'
      /\ made + 1 \in 1 .. made'
  BY <1>1 DEF RecordingsTInv
<1>3. ListsMade' /\ 1 .. made \subseteq 1 .. made'
  BY <1>2, ListsKept
<1>4. files' \subseteq 1 .. made' /\ writing' \subseteq 1 .. made'
  BY <1>1, <1>2, <1>3, KeptIsOld DEF RecordingsTInv
<1>5. rows' \subseteq 1 .. made' /\ unlisted' \subseteq 1 .. made'
  BY <1>1, <1>3 DEF RecordingsTInv
<1>6. mine' \in 0 .. made'
  BY <1>2 DEF RecordingsTInv
<1> QED
  BY <1>1, <1>2, <1>3, <1>4, <1>5, <1>6 DEF RecordingsTInv

\* What the server does to the rows and files that are there.
LEMMA DiskTyped ==
  ASSUME RecordingsTInv, NEW n \in Rec,
         Creates(n) \/ Unlink(n) \/ DeleteRow(n) \/ ClearRows \/ ClearFiles
  PROVE  RecordingsTInv'
<1>0. made \in Nat /\ made <= made /\ 0 \in 0 .. made
  BY DEF RecordingsTInv
<1>1. UNCHANGED <<made, listed, reading, reads, recording, dialog>>
  BY DEF Creates, Unlink, DeleteRow, ClearRows, ClearFiles
<1>2. ListsMade'
  BY <1>0, <1>1, ListsKept
<1>3. CASE Creates(n)
  <2>1. n \in 1 .. made
    BY <1>3 DEF Creates, RecordingsTInv
  <2>2. /\ rows' \subseteq 1 .. made /\ writing' \subseteq 1 .. made /\ unlisted' \subseteq 1 .. made
    BY <1>3, <2>1 DEF Creates, RecordingsTInv
  <2>3. command' \in Command /\ mine' \in 0 .. made
    BY <1>0, <1>3 DEF Creates, RecordingsTInv, Command
  <2>4. UNCHANGED <<files, clearing, deletes>>
    BY <1>3 DEF Creates
  <2> QED
    BY <1>1, <1>2, <2>2, <2>3, <2>4 DEF RecordingsTInv
<1>4. CASE Unlink(n) \/ DeleteRow(n)
  <2>1. deletes' \in [Rec -> DeleteState]
    BY <1>4 DEF Unlink, DeleteRow, RecordingsTInv, DeleteState
  <2>2. files' \subseteq files /\ rows' \subseteq rows
    BY <1>4 DEF Unlink, DeleteRow
  <2>3. UNCHANGED <<writing, unlisted, clearing, command, mine>>
    BY <1>4 DEF Unlink, DeleteRow
  <2> QED
    BY <1>1, <1>2, <2>1, <2>2, <2>3 DEF RecordingsTInv
<1>5. CASE ClearRows \/ ClearFiles
  <2>1. files' \subseteq files /\ rows' \subseteq rows /\ clearing' \in BOOLEAN
    BY <1>5 DEF ClearRows, ClearFiles
  <2>2. UNCHANGED <<writing, unlisted, command, mine, deletes>>
    BY <1>5 DEF ClearRows, ClearFiles
  <2> QED
    BY <1>1, <1>2, <2>1, <2>2 DEF RecordingsTInv
<1> QED
  BY <1>3, <1>4, <1>5

\* A list is asked for, read, and shown.
LEMMA ReloadTyped ==
  ASSUME RecordingsTInv, NEW r \in Reader, Reload(r) \/ ListArrives(r) \/ Reloaded(r)
  PROVE  /\ reads' \in [Reader -> Read] /\ \A q \in Reader : reads'[q].ids \subseteq 1 .. made
         /\ reading' \in BOOLEAN
<1>1. PICK read \in Read : read = reads[r] /\ read.ids \subseteq 1 .. made
  BY DEF RecordingsTInv, ListsMade
<1>2. PICK new \in Read : reads' = [reads EXCEPT ![r] = new] /\ new.ids \subseteq 1 .. made
  <2>1. CASE Reload(r)
    <3>1. [read EXCEPT !.at = "asked"] \in Read /\ [read EXCEPT !.at = "asked"].ids = read.ids
      BY DEF Read
    <3>2. reads' = [reads EXCEPT ![r] = [read EXCEPT !.at = "asked"]]
      BY <1>1, <2>1 DEF Reload, RecordingsTInv, ListsMade
    <3> QED
      BY <1>1, <3>1, <3>2
  <2>2. CASE ListArrives(r)
    <3>1. rows \subseteq 1 .. made /\ rows \subseteq Rec
      BY DEF RecordingsTInv, Rec
    <3>2. [at |-> "answered", ids |-> rows] \in Read
      BY <3>1 DEF Read
    <3> QED
      BY <2>2, <3>1, <3>2 DEF ListArrives
  <2>3. CASE Reloaded(r)
    BY <2>3, NoReadIs DEF Reloaded
  <2> QED
    BY <2>1, <2>2, <2>3
<1>3. reading' \in BOOLEAN
  BY DEF Reload, ListArrives, Reloaded, RecordingsTInv
<1> QED
  BY <1>2, <1>3 DEF RecordingsTInv, ListsMade

\* What happens on the page.
LEMMA PageTypedStep ==
  ASSUME RecordingsTInv, UNCHANGED diskVars, command' \in Command, mine' = mine,
         recording' \in BOOLEAN, reading' \in BOOLEAN, deletes' \in [Rec -> DeleteState],
         ListsMade'
  PROVE  RecordingsTInv'
<1> QED
  BY DEF RecordingsTInv, diskVars

LEMMA PageReloads ==
  ASSUME RecordingsTInv,
         \/ CommandAnswered \/ RefreshButton
         \/ \E r \in Reader : ListArrives(r) \/ Reloaded(r)
  PROVE  RecordingsTInv'
<1>1. PICK r \in Reader : Reload(r) \/ ListArrives(r) \/ Reloaded(r)
  BY DEF CommandAnswered, RefreshButton, Reader
<1>2. /\ reads' \in [Reader -> Read] /\ \A q \in Reader : reads'[q].ids \subseteq 1 .. made
      /\ reading' \in BOOLEAN
  BY <1>1, ReloadTyped
<1>3. UNCHANGED <<diskVars, mine, deletes, dialog>> /\ made' = made
  BY DEF CommandAnswered, RefreshButton, ListArrives, Reloaded, diskVars
<1>4. command' \in Command /\ recording' \in BOOLEAN
  BY DEF CommandAnswered, RefreshButton, ListArrives, Reloaded, RecordingsTInv, Command
<1>5. listed' \subseteq 1 .. made
  BY DEF CommandAnswered, RefreshButton, ListArrives, Reloaded, RecordingsTInv, ListsMade
<1>6. ListsMade'
  BY <1>2, <1>3, <1>5 DEF RecordingsTInv, ListsMade
<1> QED
  BY <1>2, <1>3, <1>4, <1>6, PageTypedStep DEF RecordingsTInv

LEMMA PageActs ==
  ASSUME RecordingsTInv,
         \/ StartRecording \/ StopRecording \/ CommandFails
         \/ RowButtons \/ ConfirmDelete \/ CloseDialog
         \/ \E n \in Rec : Deleted(n) \/ DeleteFails(n)
  PROVE  RecordingsTInv'
<1>1. UNCHANGED <<diskVars, reading, reads, recording, mine>> /\ made' = made
  BY DEF StartRecording, StopRecording, CommandFails, RowButtons, ConfirmDelete, CloseDialog,
         Deleted, DeleteFails, diskVars
<1>2. command' \in Command
  BY DEF StartRecording, StopRecording, CommandFails, RowButtons, ConfirmDelete, CloseDialog,
         Deleted, DeleteFails, RecordingsTInv, Command
<1>3. deletes' \in [Rec -> DeleteState]
  <2>1. deletes \in [Rec -> DeleteState]
    BY DEF RecordingsTInv
  <2>2. deletes' = deletes \/ \E k, v : v \in {"asked", "none"} /\ deletes' = [deletes EXCEPT ![k] = v]
    BY DEF StartRecording, StopRecording, CommandFails, RowButtons, ConfirmDelete, CloseDialog,
           Deleted, DeleteFails
  <2> QED
    BY <2>1, <2>2 DEF DeleteState
<1>4. listed' \subseteq listed
  BY DEF StartRecording, StopRecording, CommandFails, RowButtons, ConfirmDelete, CloseDialog,
         Deleted, DeleteFails
<1>5. dialog' \in Dialogs /\ dialog'.rec <= made
  <2>0. made \in Nat /\ listed \subseteq 1 .. made /\ dialog \in Dialogs /\ dialog.rec <= made
    BY DEF RecordingsTInv, ListsMade
  <2>1. CASE RowButtons
    <3>1. PICK n \in listed, is \in {"delete", "inspect"} : dialog' = [is |-> is, rec |-> n]
      BY <2>1 DEF RowButtons, FilteredList
    <3>2. n \in Nat /\ n <= made
      BY <2>0, <3>1
    <3> QED
      BY <3>1, <3>2 DEF Dialogs
  <2>2. CASE dialog' \in {dialog, NoDialog}
    BY <2>0, <2>2, NoReadIs
  <2> QED
    BY <2>1, <2>2 DEF StartRecording, StopRecording, CommandFails, ConfirmDelete, CloseDialog,
                      Deleted, DeleteFails
<1>6. ListsMade'
  BY <1>1, <1>4, <1>5 DEF RecordingsTInv, ListsMade
<1> QED
  BY <1>1, <1>2, <1>3, <1>6, PageTypedStep DEF RecordingsTInv

LEMMA RecordingsTyped == ASSUME RecordingsTInv, RecordingsStep PROVE RecordingsTInv'
<1>1. CASE UNCHANGED recordingsVars
  BY <1>1 DEF recordingsVars, diskVars, RecordingsTInv, ListsMade
<1>2. CASE RecordingsOpens \/ RecordingsCloses
  BY <1>2, RecordingsStarted DEF RecordingsOpens, RecordingsCloses
<1>3. CASE ScanCaptures
  BY <1>3, CapturesTyped DEF ScanCaptures, RecordingsTInv
<1>4. CASE StartArrives
  BY <1>4, CapturesTyped DEF StartArrives, Command
<1>5. CASE ClearRows \/ ClearFiles \/ \E n \in Rec : Creates(n) \/ Unlink(n) \/ DeleteRow(n)
  <2>1. 1 \in Rec
    BY DEF Rec
  <2> QED
    BY <1>5, <2>1, DiskTyped
<1>6. CASE \/ CommandAnswered \/ RefreshButton
           \/ \E r \in Reader : ListArrives(r) \/ Reloaded(r)
  BY <1>6, PageReloads
<1>7. CASE \/ StartRecording \/ StopRecording \/ CommandFails
           \/ RowButtons \/ ConfirmDelete \/ CloseDialog
           \/ \E n \in Rec : Deleted(n) \/ DeleteFails(n)
  BY <1>7, PageActs
<1> QED
  BY <1>1, <1>2, <1>3, <1>4, <1>5, <1>6, <1>7 DEF RecordingsNext, RecordingsStep
-----------------------------------------------------------------------------
(* The form of the settings.                                                *)

\* While a PUT is in flight the form still has what was sent, in every field
\* that was edited, except the one that "Apply suggested ppm" fills; and once it
\* is in force, what the version it made has, except for the receiver's fields.
Asking == put.at \in {"sent", "accepted"}
Made == put.at \in {"applied", "saved"}

SettingsIInv ==
    /\ SettingsTypeOK
    /\ form = NoForm \/ page # "settings" => edited = {}
    /\ Asking => \A f \in edited \ {PpmField} : form[f] = put.update[f]
    /\ Made => /\ put.made <= Len(log)
               /\ \A f \in edited \ Altered : form[f] = log[put.made][f]
    /\ put.at = "saved" => put.version <= Len(log)

Logs == UNION {[1 .. n -> SConfig] : n \in 1 .. MaxSaves}
Puts == {NoPut} \cup [at : {"sent"}, update : SConfig, version : 1 .. MaxSaves]
                \cup [at : {"accepted"}, update : SConfig]
                \cup [at : {"applied"}, made : 1 .. MaxSaves]
                \cup [at : {"saved"}, made : 1 .. MaxSaves, version : 1 .. MaxSaves]
                \cup [at : Refusal]

LEMMA LogIs ==
  ASSUME NEW l
  PROVE  l \in Logs <=> l \in Seq(SConfig) /\ Len(l) \in 1 .. MaxSaves
<1>0. MaxSaves \in Nat
  BY SettingsAssumption
<1>1. ASSUME l \in Logs PROVE l \in Seq(SConfig) /\ Len(l) \in 1 .. MaxSaves
  <2>1. PICK n \in 1 .. MaxSaves : l \in [1 .. n -> SConfig]
    BY <1>1 DEF Logs
  <2>2. n \in Nat
    BY <1>0
  <2>3. l \in Seq(SConfig)
    BY <2>1, <2>2, SeqDef
  <2>4. Len(l) = n
    BY <2>1, <2>2, <2>3, LenProperties
  <2> QED
    BY <2>1, <2>3, <2>4
<1>2. ASSUME l \in Seq(SConfig), Len(l) \in 1 .. MaxSaves PROVE l \in Logs
  <2>1. l \in [1 .. Len(l) -> SConfig]
    BY <1>2, LenProperties
  <2> QED
    BY <1>2, <2>1 DEF Logs
<1> QED
  BY <1>1, <1>2

\* A version is added, and the earlier ones stay.
LEMMA LogGrows ==
  ASSUME NEW l \in Logs, NEW c \in SConfig, Len(l) < MaxSaves
  PROVE  /\ Append(l, c) \in Logs /\ Len(Append(l, c)) = Len(l) + 1
         /\ \A v \in 1 .. Len(l) : Append(l, c)[v] = l[v]
         /\ Append(l, c)[Len(l) + 1] = c
<1>0. l \in Seq(SConfig) /\ Len(l) \in 1 .. MaxSaves /\ MaxSaves \in Nat
  BY LogIs, SettingsAssumption
<1>1. /\ Append(l, c) \in Seq(SConfig) /\ Len(Append(l, c)) = Len(l) + 1
      /\ \A v \in 1 .. Len(l) : Append(l, c)[v] = l[v]
      /\ Append(l, c)[Len(l) + 1] = c
  BY <1>0, AppendProperties
<1>2. Len(Append(l, c)) \in 1 .. MaxSaves
  BY <1>0, <1>1
<1> QED
  BY <1>1, <1>2, LogIs

LEMMA InitiallyIs == Initially \in SConfig
<1>1. PICK v : v \in SValue
  BY SettingsAssumption
<1>2. [f \in SField |-> v] \in SConfig
  BY <1>1 DEF SConfig
<1> QED
  BY <1>2 DEF Initially

LEMMA FirstLog == <<Initially>> \in Logs /\ Len(<<Initially>>) = 1
<1>0. MaxSaves \in Nat \ {0}
  BY SettingsAssumption
<1>1. ASSUME NEW c \in SConfig PROVE <<c>> \in Seq(SConfig) /\ Len(<<c>>) = 1
  OBVIOUS
<1> QED
  <2> DEFINE l == <<Initially>>
  <2>1. l \in Seq(SConfig) /\ Len(l) = 1
    BY <1>1, InitiallyIs
  <2> HIDE DEF l
  <2>2. Len(l) \in 1 .. MaxSaves
    BY <1>0, <2>1
  <2>3. l \in Logs
    BY <2>1, <2>2, LogIs
  <2> QED
    BY <2>1, <2>3 DEF l

LEMMA SettingsInitially ==
  ASSUME SettingsClosed PROVE SettingsIInv
<1>1. SettingsTypeOK
  <2>1. log \in Logs /\ Len(log) = 1
    BY FirstLog DEF SettingsClosed
  <2>2. heard \in 1 .. Len(log) /\ version \in 1 .. Len(log)
    BY <2>1 DEF SettingsClosed
  <2>3. suggested \in Suggestion /\ edited \subseteq SField /\ form \in Form \cup {NoForm}
    BY DEF SettingsClosed, Suggestion
  <2> QED
    BY <2>1, <2>2, <2>3, Zenon DEF SettingsClosed, SettingsTypeOK, Logs
<1> QED
  BY <1>1 DEF SettingsClosed, SettingsIInv, Asking, Made, NoPut

LEMMA SettingsMounted ==
  ASSUME NEW f \in Form \cup {NoForm}, SettingsMount(f) PROVE SettingsIInv'
<1>1. SettingsTypeOK'
  <2>1. log' \in Logs /\ Len(log') = 1
    BY FirstLog DEF SettingsMount
  <2>2. heard' \in 1 .. Len(log') /\ version' \in 1 .. Len(log')
    BY <2>1 DEF SettingsMount
  <2>3. suggested' \in Suggestion /\ edited' \subseteq SField /\ form' \in Form \cup {NoForm}
    BY DEF SettingsMount, Suggestion
  <2> QED
    BY <2>1, <2>2, <2>3 DEF SettingsMount, SettingsTypeOK, Logs
<1> QED
  BY <1>1 DEF SettingsMount, SettingsIInv, Asking, Made, NoPut

\* What a step promises.
SettingsPromise ==
    /\ SettingsIInv'
    /\ form' # NoForm => \A f \in edited : form'[f] # form[f] =>
                             FormUser \/ (Saved /\ (f \in Altered \/ put.version # put.made))

\* What the invariant says of each variable, with the PUT taken apart.
LEMMA SettingsFacts ==
  ASSUME SettingsIInv
  PROVE  /\ log \in Logs /\ Len(log) \in 1 .. MaxSaves /\ MaxSaves \in Nat
         /\ \A v \in 1 .. Len(log) : log[v] \in SConfig
         /\ heard \in 1 .. Len(log) /\ version \in 1 .. Len(log)
         /\ form \in Form \cup {NoForm} /\ edited \subseteq SField
         /\ put \in Puts /\ suggested \in Suggestion
         /\ conflict \in BOOLEAN /\ operator \in BOOLEAN
<1>1. /\ log \in Logs /\ heard \in 1 .. Len(log) /\ version \in 1 .. Len(log)
      /\ form \in Form \cup {NoForm} /\ edited \subseteq SField
      /\ put \in Puts /\ suggested \in Suggestion
      /\ conflict \in BOOLEAN /\ operator \in BOOLEAN
  BY Zenon DEF SettingsIInv, SettingsTypeOK, Logs, Puts
<1>2. log \in Seq(SConfig) /\ Len(log) \in 1 .. MaxSaves /\ MaxSaves \in Nat
  BY <1>1, LogIs, SettingsAssumption
<1>3. \A v \in 1 .. Len(log) : log[v] \in SConfig
  BY <1>2, ElementOfSeq
<1> QED
  BY <1>1, <1>2, <1>3

\* The type invariant, from the parts that a step changes.
LEMMA SettingsTypedNext ==
  ASSUME log' \in Logs, heard' \in 1 .. Len(log'), version' \in 1 .. Len(log'),
         form' \in Form \cup {NoForm}, edited' \subseteq SField, put' \in Puts,
         suggested' \in Suggestion, conflict' \in BOOLEAN, operator' \in BOOLEAN
  PROVE  SettingsTypeOK'
<1> QED
  BY Zenon DEF SettingsTypeOK, Logs, Puts

\* A step that leaves the form and the PUT alone.
LEMMA SettingsKept ==
  ASSUME SettingsIInv, page = "settings", page' = page, SettingsTypeOK',
         form' = form, edited' = edited, put' = put,
         Len(log') \in Nat, Len(log) <= Len(log'),
         \A n \in 1 .. Len(log) : log'[n] = log[n]
  PROVE  SettingsPromise
<1>1. Len(log) \in Nat /\ put \in Puts /\ MaxSaves \in Nat
  BY SettingsFacts
<1>2. (Asking' <=> Asking) /\ (Made' <=> Made)
  BY DEF Asking, Made
<1>3. ASSUME Made
      PROVE  /\ put.made <= Len(log')
             /\ \A f \in edited' \ Altered : form'[f] = log'[put.made][f]
  <2>1. /\ put.made <= Len(log)
        /\ \A f \in edited \ Altered : form[f] = log[put.made][f]
    BY <1>3 DEF SettingsIInv
  <2>2. put.made \in 1 .. MaxSaves
    BY <1>1, <1>3 DEF Puts, Made, NoPut, Refusal
  <2>3. put.made \in 1 .. Len(log) /\ put.made <= Len(log')
    BY <1>1, <2>1, <2>2
  <2> QED
    BY <2>1, <2>3
<1>4. put.at = "saved" => put.version <= Len(log')
  <2> SUFFICES ASSUME put.at = "saved" PROVE put.version <= Len(log')
    OBVIOUS
  <2>1. put.version <= Len(log) /\ put.version \in 1 .. MaxSaves
    BY <1>1 DEF SettingsIInv, Puts, NoPut, Refusal
  <2> QED
    BY <1>1, <2>1
<1>5. /\ form' = NoForm \/ page' # "settings" => edited' = {}
      /\ Asking' => \A f \in edited' \ {PpmField} : form'[f] = put'.update[f]
  BY <1>2 DEF SettingsIInv
<1> QED
  BY <1>2, <1>3, <1>4, <1>5 DEF SettingsIInv, SettingsPromise

LEMMA SettingsOthers ==
  ASSUME SettingsIInv, page = "settings", page' = page,
         \/ \E f \in SField, v \in SValue : OtherSaves(f, v)
         \/ ControlArrives \/ LeaseAnswered(TRUE) \/ LeaseAnswered(FALSE)
         \/ MeasureCalibration \/ CalibrationMeasured
  PROVE  SettingsPromise
<1>0. /\ log \in Logs /\ Len(log) \in 1 .. MaxSaves /\ MaxSaves \in Nat
      /\ \A n \in 1 .. Len(log) : log[n] \in SConfig
      /\ heard \in 1 .. Len(log) /\ version \in 1 .. Len(log)
      /\ form \in Form \cup {NoForm} /\ edited \subseteq SField
      /\ put \in Puts /\ suggested \in Suggestion
      /\ conflict \in BOOLEAN /\ operator \in BOOLEAN
  BY SettingsFacts
<1>1. CASE \E f \in SField, v \in SValue : OtherSaves(f, v)
  <2>1. PICK f \in SField, v \in SValue : OtherSaves(f, v)
    BY <1>1
  <2> DEFINE c == [log[Len(log)] EXCEPT ![f] = v]
  <2>2. c \in SConfig
    BY <1>0 DEF SConfig
  <2>3. /\ Len(log) < MaxSaves /\ log' = Append(log, c)
        /\ UNCHANGED <<heard, version, operator, form, edited, put, conflict, suggested>>
    BY <2>1 DEF OtherSaves
  <2> HIDE DEF c
  <2>4. log' \in Logs /\ Len(log') = Len(log) + 1 /\ \A n \in 1 .. Len(log) : log'[n] = log[n]
    BY <1>0, <2>2, <2>3, LogGrows
  <2>5. SettingsTypeOK'
    BY <1>0, <2>3, <2>4, SettingsTypedNext
  <2>6. Len(log') \in Nat /\ Len(log) <= Len(log')
    BY <1>0, <2>4
  <2> QED
    BY <2>3, <2>4, <2>5, <2>6, SettingsKept
<1>2. CASE \/ ControlArrives \/ LeaseAnswered(TRUE) \/ LeaseAnswered(FALSE)
           \/ MeasureCalibration \/ CalibrationMeasured
  <2>1. /\ UNCHANGED <<log, heard, version, form, edited, put, conflict>>
        /\ operator' \in BOOLEAN /\ suggested' \in Suggestion
    BY <1>0, <1>2, Zenon
       DEF ControlArrives, LeaseAnswered, MeasureCalibration, CalibrationMeasured, Suggestion
  <2>2. SettingsTypeOK'
    BY <1>0, <2>1, SettingsTypedNext
  <2>3. Len(log') \in Nat /\ Len(log) <= Len(log')
    BY <1>0, <2>1
  <2> QED
    BY <2>1, <2>2, <2>3, SettingsKept
<1> QED
  BY <1>1, <1>2

\* A form is loaded, which was empty.
LEMMA SettingsLoads ==
  ASSUME SettingsIInv, page = "settings", page' = page, ConfigArrives \/ FormLoads
  PROVE  SettingsPromise
<1>0. /\ log \in Logs /\ Len(log) \in 1 .. MaxSaves /\ MaxSaves \in Nat
      /\ \A n \in 1 .. Len(log) : log[n] \in SConfig
      /\ heard \in 1 .. Len(log) /\ version \in 1 .. Len(log)
      /\ form \in Form \cup {NoForm} /\ edited \subseteq SField
      /\ put \in Puts /\ suggested \in Suggestion
      /\ conflict \in BOOLEAN /\ operator \in BOOLEAN
  BY SettingsFacts
<1>1. PICK n \in 1 .. Len(log) : form' = form \/ (form = NoForm /\ form' = log[n])
  <2>1. CASE ConfigArrives
    <3>1. heard + 1 \in 1 .. Len(log)
      BY <1>0, <2>1 DEF ConfigArrives
    <3> QED
      BY <2>1, <3>1 DEF ConfigArrives
  <2>2. CASE FormLoads
    BY <1>0, <2>2 DEF FormLoads, config
  <2> QED
    BY <2>1, <2>2
<1>2. UNCHANGED <<log, operator, edited, put, conflict, suggested>>
  BY DEF ConfigArrives, FormLoads
<1>3. heard' \in 1 .. Len(log) /\ version' \in 1 .. Len(log)
  BY <1>0 DEF ConfigArrives, FormLoads
<1>4. form' \in Form \cup {NoForm}
  <2>1. SConfig \subseteq Form
    BY DEF SConfig, Form
  <2> QED
    BY <1>0, <1>1, <2>1
<1>5. SettingsTypeOK'
  BY <1>0, <1>2, <1>3, <1>4, SettingsTypedNext
<1>6. CASE form' = form
  <2>1. Len(log') \in Nat /\ Len(log) <= Len(log')
    BY <1>0, <1>2
  <2> QED
    BY <1>2, <1>5, <1>6, <2>1, SettingsKept
<1>7. CASE form = NoForm
  <2>1. edited' = {} /\ edited = {}
    BY <1>2, <1>7 DEF SettingsIInv
  <2>2. /\ Made' => put'.made <= Len(log')
        /\ put'.at = "saved" => put'.version <= Len(log')
    BY <1>2 DEF SettingsIInv, Made
  <2> QED
    BY <1>5, <2>1, <2>2 DEF SettingsIInv, SettingsPromise
<1> QED
  BY <1>1, <1>6, <1>7

\* What the user types: nothing is in flight then, but for the ppm.
LEMMA SettingsTypes ==
  ASSUME SettingsIInv, page = "settings", page' = page,
         Inputs \/ Presets \/ ApplySuggestedPpm
  PROVE  SettingsPromise
<1>0. /\ log \in Logs /\ Len(log) \in 1 .. MaxSaves /\ MaxSaves \in Nat
      /\ heard \in 1 .. Len(log) /\ version \in 1 .. Len(log)
      /\ form \in Form \cup {NoForm} /\ edited \subseteq SField
      /\ put \in Puts /\ suggested \in Suggestion
      /\ conflict \in BOOLEAN /\ operator \in BOOLEAN
  BY SettingsFacts
<1>1. UNCHANGED <<log, heard, version, operator, put, conflict, suggested>> /\ form # NoForm
  BY DEF Inputs, Presets, EditField, ApplyPreset, ApplySuggestedPpm
<1>2. /\ form' \in Form /\ edited' \subseteq SField
      /\ \/ put = NoPut
         \/ /\ \A f \in SField \ {PpmField} : form'[f] = form[f]
            /\ edited' = edited \cup {PpmField}
  <2>0. form \in Form
    BY <1>0, <1>1
  <2>1. CASE Inputs
    <3>1. PICK f \in SField, t \in SValue \cup {BadText} : EditField(f, t)
      BY <2>1 DEF Inputs
    <3> QED
      BY <1>0, <2>0, <3>1 DEF EditField, disabled, saving, Form
  <2>2. CASE Presets
    <3>1. PICK v \in SValue : ApplyPreset(v)
      BY <2>2 DEF Presets
    <3> QED
      BY <1>0, <2>0, <3>1, SettingsAssumption DEF ApplyPreset, disabled, saving, Form
  <2>3. CASE ApplySuggestedPpm
    <3>1. PICK p : p = suggested.ppm
      OBVIOUS
    <3>2. p \in SValue
      <4>1. suggested # Nothing /\ suggested # [at |-> "measuring"]
        BY <2>3 DEF ApplySuggestedPpm, Nothing
      <4> QED
        BY <1>0, <3>1, <4>1, SettingsAssumption DEF Suggestion
    <3>3. form' = [form EXCEPT ![PpmField] = p] /\ edited' = edited \cup {PpmField}
      BY <2>3, <3>1 DEF ApplySuggestedPpm
    <3> QED
      BY <1>0, <2>0, <3>2, <3>3, SettingsAssumption DEF Form
  <2> QED
    BY <2>1, <2>2, <2>3
<1>3. SettingsTypeOK'
  BY <1>0, <1>1, <1>2, SettingsTypedNext
<1>4. FormUser
  BY DEF FormUser, Calibration
<1>5. form' # NoForm
  BY <1>2, SettingsAssumption DEF Form
<1>6. CASE put = NoPut
  BY <1>1, <1>3, <1>4, <1>5, <1>6 DEF SettingsIInv, SettingsPromise, NoPut, Asking, Made
<1>7. CASE /\ \A f \in SField \ {PpmField} : form'[f] = form[f]
           /\ edited' = edited \cup {PpmField}
  <2>1. \A f \in edited' \ {PpmField} : f \in edited \ {PpmField} /\ form'[f] = form[f]
    BY <1>0, <1>7
  <2>2. /\ Asking' => \A f \in edited' \ {PpmField} : form'[f] = put'.update[f]
        /\ put'.at = "saved" => put'.version <= Len(log')
    BY <1>1, <2>1 DEF SettingsIInv, Asking
  <2>3. \A f \in edited' \ Altered : f \in edited \ Altered /\ form'[f] = form[f]
    BY <1>0, <1>7, <2>1 DEF Altered
  <2>4. Made' => /\ put'.made <= Len(log')
                 /\ \A f \in edited' \ Altered : form'[f] = log'[put'.made][f]
    BY <1>1, <2>3 DEF SettingsIInv, Made
  <2> QED
    BY <1>3, <1>4, <1>5, <2>2, <2>4 DEF SettingsIInv, SettingsPromise
<1> QED
  BY <1>2, <1>6, <1>7

\* The form is reset, or sent.
LEMMA SettingsButtons ==
  ASSUME SettingsIInv, page = "settings", page' = page, Reset \/ Save, FormUser
  PROVE  SettingsPromise
<1>0. /\ log \in Logs /\ Len(log) \in 1 .. MaxSaves /\ MaxSaves \in Nat
      /\ \A n \in 1 .. Len(log) : log[n] \in SConfig
      /\ heard \in 1 .. Len(log) /\ version \in 1 .. Len(log)
      /\ form \in Form \cup {NoForm} /\ edited \subseteq SField
      /\ put \in Puts /\ suggested \in Suggestion
      /\ conflict \in BOOLEAN /\ operator \in BOOLEAN
  BY SettingsFacts
<1>1. CASE Reset
  <2>1. /\ form' = log[version] /\ edited' = {} /\ conflict' = FALSE
        /\ UNCHANGED <<log, heard, version, operator, put, suggested>>
    BY <1>1 DEF Reset, config
  <2>2. form' \in Form
    <3>1. SConfig \subseteq Form
      BY DEF SConfig, Form
    <3> QED
      BY <1>0, <2>1, <3>1
  <2>3. SettingsTypeOK'
    BY <1>0, <2>1, <2>2, SettingsTypedNext
  <2>4. /\ Made' => put'.made <= Len(log')
        /\ put'.at = "saved" => put'.version <= Len(log')
    BY <2>1 DEF SettingsIInv, Made
  <2> QED
    BY <2>1, <2>3, <2>4 DEF SettingsIInv, SettingsPromise
<1>2. CASE Save
  <2>1. /\ form # NoForm /\ form \in SConfig
        /\ put' = [at |-> "sent", update |-> form, version |-> version]
        /\ UNCHANGED <<log, heard, version, operator, form, edited, conflict, suggested>>
    BY <1>2 DEF Save
  <2>2. version \in 1 .. MaxSaves
    BY <1>0
  <2>3. put' \in Puts
    BY <2>1, <2>2 DEF Puts
  <2>4. SettingsTypeOK'
    BY <1>0, <2>1, <2>3, SettingsTypedNext
  <2>5. Asking' /\ ~Made' /\ put'.at # "saved" /\ put'.update = form'
    BY <2>1 DEF Asking, Made
  <2> QED
    BY <2>1, <2>4, <2>5 DEF SettingsIInv, SettingsPromise
<1> QED
  BY <1>1, <1>2

\* The server, which applies a PUT or not.
LEMMA SettingsServed ==
  ASSUME SettingsIInv, page = "settings", page' = page,
         PutAccepted \/ PutRejected \/ PutAnswered \/ PutFails
  PROVE  SettingsPromise
<1>0. /\ log \in Logs /\ Len(log) \in 1 .. MaxSaves /\ MaxSaves \in Nat
      /\ heard \in 1 .. Len(log) /\ version \in 1 .. Len(log)
      /\ form \in Form \cup {NoForm} /\ edited \subseteq SField
      /\ put \in Puts /\ suggested \in Suggestion
      /\ conflict \in BOOLEAN /\ operator \in BOOLEAN
  BY SettingsFacts
<1>1. UNCHANGED <<log, heard, version, operator, form, edited, conflict, suggested>>
  BY DEF PutAccepted, PutRejected, PutAnswered, PutFails
<1>2. form' = NoForm \/ page' # "settings" => edited' = {}
  BY <1>1 DEF SettingsIInv
<1>3. CASE PutAccepted
  <2>1. PICK u \in SConfig, v \in 1 .. MaxSaves :
            put = [at |-> "sent", update |-> u, version |-> v]
    BY <1>0, <1>3 DEF PutAccepted, Puts, NoPut, Refusal
  <2>2. put' = [at |-> "accepted", update |-> u] /\ put' \in Puts
    BY <1>3, <2>1 DEF PutAccepted, Puts
  <2>3. SettingsTypeOK'
    BY <1>0, <1>1, <2>2, SettingsTypedNext
  <2>4. \A f \in edited \ {PpmField} : form[f] = u[f]
    BY <2>1 DEF SettingsIInv, Asking
  <2>5. ~Made' /\ put'.at # "saved" /\ put'.update = u
    BY <2>2 DEF Made
  <2> QED
    BY <1>1, <1>2, <2>3, <2>4, <2>5 DEF SettingsIInv, SettingsPromise
<1>4. CASE PutRejected \/ PutFails
  <2>1. PICK a \in Refusal : put' = [at |-> a]
    BY <1>4 DEF PutRejected, PutFails, Refusal
  <2>2. put' \in Puts
    BY <2>1 DEF Puts
  <2>3. SettingsTypeOK'
    BY <1>0, <1>1, <2>2, SettingsTypedNext
  <2>4. ~Asking' /\ ~Made' /\ put'.at # "saved"
    BY <2>1 DEF Asking, Made, Refusal
  <2> QED
    BY <1>1, <1>2, <2>3, <2>4 DEF SettingsIInv, SettingsPromise
<1>5. CASE PutAnswered
  <2>1. PICK m \in 1 .. MaxSaves : put = [at |-> "applied", made |-> m]
    BY <1>0, <1>5 DEF PutAnswered, Puts, NoPut, Refusal
  <2>2. put' = [at |-> "saved", made |-> m, version |-> Len(log)] /\ put' \in Puts
    BY <1>0, <1>5, <2>1 DEF PutAnswered, Puts
  <2>3. SettingsTypeOK'
    BY <1>0, <1>1, <2>2, SettingsTypedNext
  <2>4. m <= Len(log) /\ \A f \in edited \ Altered : form[f] = log[m][f]
    BY <2>1 DEF SettingsIInv, Made
  <2>5. ~Asking' /\ put'.made = m /\ put'.version <= Len(log')
    BY <1>0, <1>1, <2>2 DEF Asking
  <2> QED
    BY <1>1, <1>2, <2>3, <2>4, <2>5 DEF SettingsIInv, SettingsPromise
<1> QED
  BY <1>3, <1>4, <1>5

\* The update comes into force, as it was sent but for the receiver's fields.
LEMMA SettingsApplied ==
  ASSUME SettingsIInv, page = "settings", page' = page, PutApplied
  PROVE  SettingsPromise
<1>0. /\ log \in Logs /\ Len(log) \in 1 .. MaxSaves /\ MaxSaves \in Nat
      /\ heard \in 1 .. Len(log) /\ version \in 1 .. Len(log)
      /\ form \in Form \cup {NoForm} /\ edited \subseteq SField
      /\ put \in Puts /\ suggested \in Suggestion
      /\ conflict \in BOOLEAN /\ operator \in BOOLEAN
  BY SettingsFacts
<1>1. UNCHANGED <<heard, version, operator, form, edited, conflict, suggested>>
  BY DEF PutApplied
<1>2. PICK u \in SConfig : put = [at |-> "accepted", update |-> u]
  BY <1>0 DEF PutApplied, Puts, NoPut, Refusal
<1>3. PICK c \in Reconciled(u) : log' = Append(log, c)
  BY <1>2 DEF PutApplied
<1>4. c \in SConfig /\ \A f \in SField \ ReceiverField : c[f] = u[f]
  <2>1. \A v \in SValue :
            /\ [f \in SField |-> IF f \in ReceiverField THEN v ELSE u[f]] \in SConfig
            /\ \A g \in SField \ ReceiverField :
                   [f \in SField |-> IF f \in ReceiverField THEN v ELSE u[f]][g] = u[g]
    BY DEF SConfig
  <2> QED
    BY <1>3, <2>1 DEF Reconciled
<1>5. /\ log' \in Logs /\ Len(log') = Len(log) + 1 /\ log'[Len(log) + 1] = c
      /\ Len(log) < MaxSaves
  BY <1>0, <1>3, <1>4, LogGrows DEF PutApplied
<1>6. put' = [at |-> "applied", made |-> Len(log) + 1] /\ put' \in Puts
  BY <1>0, <1>5 DEF PutApplied, Puts
<1>7. heard' \in 1 .. Len(log') /\ version' \in 1 .. Len(log')
  BY <1>0, <1>1, <1>5
<1>8. SettingsTypeOK'
  BY <1>0, <1>1, <1>5, <1>6, <1>7, SettingsTypedNext
<1>9. \A f \in edited \ {PpmField} : form[f] = u[f]
  BY <1>2 DEF SettingsIInv, Asking
<1>10. \A f \in edited \ Altered : form[f] = c[f]
  BY <1>0, <1>4, <1>9 DEF Altered
<1>11. /\ ~Asking' /\ put'.at # "saved" /\ put'.made = Len(log) + 1
       /\ put'.made <= Len(log')
  BY <1>0, <1>5, <1>6 DEF Asking
<1>12. form' = NoForm \/ page' # "settings" => edited' = {}
  BY <1>1 DEF SettingsIInv
<1> QED
  BY <1>1, <1>5, <1>8, <1>10, <1>11, <1>12 DEF SettingsIInv, SettingsPromise

\* The answer.
LEMMA SettingsAnswered ==
  ASSUME SettingsIInv, page = "settings", page' = page, Saved \/ NotSaved
  PROVE  SettingsPromise
<1>0. /\ log \in Logs /\ Len(log) \in 1 .. MaxSaves /\ MaxSaves \in Nat
      /\ \A n \in 1 .. Len(log) : log[n] \in SConfig
      /\ heard \in 1 .. Len(log) /\ version \in 1 .. Len(log)
      /\ form \in Form \cup {NoForm} /\ edited \subseteq SField
      /\ put \in Puts /\ suggested \in Suggestion
      /\ conflict \in BOOLEAN /\ operator \in BOOLEAN
  BY SettingsFacts
<1>1. /\ put' = NoPut /\ UNCHANGED <<log, heard, operator, suggested>>
      /\ put' \in Puts
  BY DEF Saved, NotSaved, Puts
<1>2. ~Asking' /\ ~Made' /\ put'.at # "saved"
  BY <1>1 DEF NoPut, Asking, Made
<1>3. CASE Saved
  <2>1. PICK m \in 1 .. MaxSaves, v \in 1 .. MaxSaves :
            put = [at |-> "saved", made |-> m, version |-> v]
    BY <1>0, <1>3 DEF Saved, Puts, NoPut, Refusal
  <2>2. version' = v /\ form' = log[v] /\ edited' = {} /\ conflict' = FALSE
    BY <1>3, <2>1 DEF Saved
  <2>3. v <= Len(log) /\ \A f \in edited \ Altered : form[f] = log[m][f]
    BY <2>1 DEF SettingsIInv, Made
  <2>4. v \in 1 .. Len(log)
    BY <1>0, <2>3
  <2>5. form' \in Form
    <3>1. SConfig \subseteq Form
      BY DEF SConfig, Form
    <3> QED
      BY <1>0, <2>2, <2>4, <3>1
  <2>6. SettingsTypeOK'
    BY <1>0, <1>1, <2>2, <2>4, <2>5, SettingsTypedNext
  <2>7. \A f \in edited : form'[f] # form[f] => f \in Altered \/ put.version # put.made
    BY <2>1, <2>2, <2>3
  <2> QED
    BY <1>2, <1>3, <2>2, <2>6, <2>7 DEF SettingsIInv, SettingsPromise
<1>4. CASE NotSaved
  <2>1. /\ conflict' \in BOOLEAN /\ UNCHANGED <<version, form, edited>>
    BY <1>0, <1>4 DEF NotSaved
  <2>2. SettingsTypeOK'
    BY <1>0, <1>1, <2>1, SettingsTypedNext
  <2>3. form' = NoForm \/ page' # "settings" => edited' = {}
    BY <2>1 DEF SettingsIInv
  <2> QED
    BY <1>2, <2>1, <2>2, <2>3 DEF SettingsIInv, SettingsPromise
<1> QED
  BY <1>3, <1>4

LEMMA SettingsInductive ==
  ASSUME SettingsIInv, SettingsStep
  PROVE  SettingsPromise
<1>1. ASSUME SettingsNext, page = "settings", UNCHANGED page
      PROVE  SettingsPromise
  <2>1. CASE \/ \E f \in SField, v \in SValue : OtherSaves(f, v)
             \/ ControlArrives \/ LeaseAnswered(TRUE) \/ LeaseAnswered(FALSE)
             \/ MeasureCalibration \/ CalibrationMeasured
    BY <1>1, <2>1, SettingsOthers
  <2>2. CASE ConfigArrives \/ FormLoads
    BY <1>1, <2>2, SettingsLoads
  <2>3. CASE Inputs \/ Presets \/ ApplySuggestedPpm
    BY <1>1, <2>3, SettingsTypes
  <2>4. CASE ReloadLatest \/ Buttons
    BY <1>1, <2>4, SettingsButtons DEF ReloadLatest, Buttons, FormUser
  <2>5. CASE PutAccepted \/ PutRejected \/ PutAnswered \/ PutFails
    BY <1>1, <2>5, SettingsServed
  <2>7. CASE PutApplied
    BY <1>1, <2>7, SettingsApplied
  <2>6. CASE Saved \/ NotSaved
    BY <1>1, <2>6, SettingsAnswered
  <2> QED
    BY <1>1, <2>1, <2>2, <2>3, <2>4, <2>5, <2>6, <2>7 DEF SettingsNext, FormUser, Calibration
<1>2. CASE UNCHANGED settingsVars /\ (page' = "settings" <=> page = "settings")
  BY <1>2 DEF settingsVars, SettingsIInv, SettingsTypeOK, SettingsPromise, Asking, Made
<1>3. CASE SettingsOpens /\ page = "none"
  <2>1. edited = {}
    BY <1>3 DEF SettingsIInv
  <2>2. SettingsIInv'
    <3>1. Initially \in Form
      BY InitiallyIs DEF SConfig, Form
    <3> QED
      BY <1>3, <3>1, SettingsMounted DEF SettingsOpens
  <2> QED
    BY <2>1, <2>2 DEF SettingsPromise
<1>4. CASE SettingsCloses
  BY <1>4, SettingsMounted DEF SettingsCloses, SettingsMount, SettingsPromise
<1> QED
  BY <1>1, <1>2, <1>3, <1>4 DEF SettingsStep

LEMMA SettingsInvariant == BrowserSpec => []SettingsIInv
<1>1. BrowserInit => SettingsIInv
  BY SettingsInitially DEF BrowserInit
<1>2. SettingsIInv /\ [BrowserNext]_browserVars => SettingsIInv'
  BY PageSteps, SettingsInductive DEF SettingsPromise
<1> QED
  BY <1>1, <1>2, PTL DEF BrowserSpec

\* Whatever other clients save, and whether a PUT is refused, fails or is lost,
\* an edited field keeps its text until the user changes or resets it
\* (Settings.tsx:98); and also when his PUT is answered, but for the ppm, for
\* the fields the receiver decides on, and for an answer that another update
\* has overtaken: for every set of fields, values and presets.
THEOREM EditsAreKept == BrowserSpec => EditsSurvive
<1>1. SettingsIInv /\ [BrowserNext]_browserVars =>
          [form' # NoForm =>
               \A f \in edited : form'[f] # form[f] =>
                   FormUser \/ (Saved /\ (f \in Altered \/ put.version # put.made))]_settingsVars
  BY PageSteps, SettingsInductive DEF SettingsPromise
<1> QED
  BY <1>1, SettingsInvariant, PTL DEF BrowserSpec, EditsSurvive
-----------------------------------------------------------------------------
(* The check of what is typed.                                              *)

EnteredIInv ==
    entered \in [DOMAIN entered -> Text] /\ DOMAIN entered \subseteq NumField \cup FreqField

LEMMA EnteredInvariant == BrowserSpec => []EnteredIInv
<1>1. BrowserInit => EnteredIInv
  <2> SUFFICES ASSUME entered = << >> PROVE EnteredIInv
    BY DEF BrowserInit, EnteredInit
  <2>1. DOMAIN entered = {} /\ entered \in [{} -> Text]
    OBVIOUS
  <2> QED
    BY <2>1 DEF EnteredIInv
<1>2. EnteredIInv /\ [BrowserNext]_browserVars => EnteredIInv'
  <2> SUFFICES ASSUME EnteredIInv, EnteredStep PROVE EnteredIInv'
    BY PageSteps
  <2>1. CASE UNCHANGED entered
    BY <2>1 DEF EnteredIInv
  <2>2. CASE entered' = << >>
    <3>1. DOMAIN entered' = {} /\ entered' \in [{} -> Text]
      BY <2>2
    <3> QED
      BY <3>1 DEF EnteredIInv
  <2>3. ASSUME NEW f \in NumField \cup FreqField, NEW t \in Text, TypeText(f, t)
        PROVE  EnteredIInv'
    BY <2>3 DEF TypeText, EnteredIInv
  <2> QED
    BY <2>1, <2>2, <2>3 DEF EnteredStep, EnteredNext
<1> QED
  BY <1>1, <1>2, PTL DEF BrowserSpec

LEMMA TextIs ==
  ASSUME NEW t \in Text PROVE t.tenths \in Int
<1>1. \A n \in Sample : n \in Int /\ -n \in Int
  BY ValidationAssumption
<1> QED
  BY <1>1 DEF Text, Number, Empty, Words, AutoGain

\* A number that is whole in tenths.
LEMMA WholeIs ==
  ASSUME NEW n \in Int, n % 10 = 0 PROVE n = 10 * (n \div 10) /\ n \div 10 \in Int
<1>1. 10 \in Nat \ {0}
  OBVIOUS
<1>2. n \div 10 \in Int /\ n = 10 * (n \div 10) + (n % 10)
  BY <1>1, DivMod, Zenon
<1> QED
  BY <1>2

\* Rounding keeps the order, but may make two numbers the same.
LEMMA RoundingKeepsOrder ==
  ASSUME NEW a \in Int, NEW b \in Int, a < b
  PROVE  ((a + 5) \div 10) * 10 < ((b + 5) \div 10) * 10
         \/ ((a + 5) \div 10) * 10 = ((b + 5) \div 10) * 10
<1>1. 10 \in Nat \ {0} /\ a + 5 \in Int /\ b + 5 \in Int
  OBVIOUS
<1> DEFINE p == (a + 5) \div 10
           q == (b + 5) \div 10
<1>2. (a + 5) % 10 \in 0 .. 10 - 1 /\ p \in Int /\ a + 5 = 10 * p + ((a + 5) % 10)
  BY <1>1, DivMod, Zenon
<1>3. (b + 5) % 10 \in 0 .. 10 - 1 /\ q \in Int /\ b + 5 = 10 * q + ((b + 5) % 10)
  BY <1>1, DivMod, Zenon
<1> HIDE DEF p, q
<1>4. p <= q
  BY <1>2, <1>3
<1>5. p * 10 <= q * 10
  BY <1>2, <1>3, <1>4
<1> QED
  BY <1>2, <1>3, <1>5 DEF p, q

\* What TextOf says of a field of a pair.
LEMMA PairTyped ==
  ASSUME EnteredIInv, NEW f \in {"start_hz", "end_hz", "exclusion_low", "exclusion_high"}
  PROVE  TextOf(f).tenths \in Int
<1>1. CASE f \in DOMAIN entered
  <2>1. entered[f] \in Text
    BY <1>1 DEF EnteredIInv
  <2> QED
    BY <1>1, <2>1, TextIs DEF TextOf
<1>2. CASE f \notin DOMAIN entered
  <2>1. TextOf(f) = Loaded[f]
    BY <1>2 DEF TextOf
  <2>2. Loaded[f].tenths \in Int
    BY DEF Loaded, Number
  <2> QED
    BY <2>1, <2>2
<1> QED
  BY <1>1, <1>2

LEMMA PairSent ==
  ASSUME EnteredIInv,
         NEW lo \in {"start_hz", "exclusion_low"}, NEW hi \in {"end_hz", "exclusion_high"},
         PairOK(lo, hi), ~RoundedAway(lo, hi)
  PROVE  Sent(lo) < Sent(hi)
<1>1. PICK a \in Int, b \in Int : a = TextOf(lo).tenths /\ b = TextOf(hi).tenths
  BY PairTyped
<1>2. a < b
  BY <1>1 DEF PairOK
<1>3. Sent(lo) = ((a + 5) \div 10) * 10 /\ Sent(hi) = ((b + 5) \div 10) * 10
  BY <1>1 DEF Sent, FreqField
<1>4. Sent(lo) # Sent(hi)
  BY <1>1, <1>2 DEF RoundedAway
<1>5. \/ ((a + 5) \div 10) * 10 < ((b + 5) \div 10) * 10
      \/ ((a + 5) \div 10) * 10 = ((b + 5) \div 10) * 10
  BY <1>2, RoundingKeepsOrder
<1> QED
  BY <1>3, <1>4, <1>5, Zenon

\* A field of its own.
LEMMA FieldSent ==
  ASSUME EnteredIInv, NEW f \in DOMAIN entered, FieldOK(f, entered[f])
  PROVE  LET n == Sent(f)
         IN  CASE f = "sample_rate" -> n > 0
               [] f = "noise_floor_alpha" -> 0 < n /\ n <= 10
               [] f = "fft_size" -> n \in {10 * 2 ^ k : k \in 0 .. 20}
               [] f = "device_index" -> n >= 0
               [] f = "spectrum_fps" -> 10 <= n /\ n <= 600
               [] f = "spectrum_bins" -> 160 <= n /\ n <= 81920
               [] f = "max_iq_storage_gb" -> n >= 0
               [] f = "retention_days" -> n >= 10
               [] OTHER -> TRUE
<1> DEFINE Checked == {"sample_rate", "noise_floor_alpha", "fft_size", "device_index",
                       "spectrum_fps", "spectrum_bins", "max_iq_storage_gb", "retention_days"}
<1>1. PICK t \in Text : t = entered[f]
  BY DEF EnteredIInv
<1>2. PICK n \in Int : n = t.tenths
  BY <1>1, TextIs
<1>3. ASSUME f \in Checked PROVE Sent(f) = n
  BY <1>1, <1>2, <1>3 DEF Sent, FreqField, TextOf
<1>4. FieldOK(f, t)
  BY <1>1
<1>5. CASE f = "sample_rate"
  BY <1>2, <1>3, <1>4, <1>5 DEF FieldOK, AtLeast
<1>6. CASE f = "noise_floor_alpha"
  BY <1>2, <1>3, <1>4, <1>6 DEF FieldOK
<1>7. CASE f = "fft_size"
  <2>1. n % 10 = 0 /\ n \div 10 \in FftSizes
    BY <1>2, <1>4, <1>7 DEF FieldOK, Whole
  <2>2. n = 10 * (n \div 10)
    BY <2>1, WholeIs
  <2>3. \A m \in FftSizes : \E k \in 0 .. 20 : m = 2 ^ k
    <3>1. /\ 8 \in 0 .. 20 /\ 256 = 2 ^ 8 /\ 9 \in 0 .. 20 /\ 512 = 2 ^ 9
          /\ 10 \in 0 .. 20 /\ 1024 = 2 ^ 10 /\ 11 \in 0 .. 20 /\ 2048 = 2 ^ 11
          /\ 12 \in 0 .. 20 /\ 4096 = 2 ^ 12 /\ 13 \in 0 .. 20 /\ 8192 = 2 ^ 13
          /\ 14 \in 0 .. 20 /\ 16384 = 2 ^ 14
      OBVIOUS
    <3> DEFINE power == [k \in 0 .. 20 |-> 2 ^ k]
    <3>2. /\ power[8] = 256 /\ power[9] = 512 /\ power[10] = 1024 /\ power[11] = 2048
          /\ power[12] = 4096 /\ power[13] = 8192 /\ power[14] = 16384
      BY <3>1
    <3>3. \A k \in 0 .. 20 : power[k] = 2 ^ k
      OBVIOUS
    <3> HIDE DEF power
    <3>4. \A m \in FftSizes : \E k \in 0 .. 20 : m = power[k]
      BY <3>2 DEF FftSizes
    <3> QED
      BY <3>3, <3>4
  <2>4. PICK k \in 0 .. 20 : n \div 10 = 2 ^ k
    BY <2>1, <2>3
  <2>5. n \in {10 * 2 ^ j : j \in 0 .. 20}
    BY <2>2, <2>4
  <2> QED
    BY <1>3, <1>7, <2>5
<1>8. CASE f = "device_index"
  BY <1>2, <1>3, <1>4, <1>8 DEF FieldOK, AtLeast
<1>9. CASE f = "spectrum_fps"
  BY <1>2, <1>3, <1>4, <1>9 DEF FieldOK, Between
<1>10. CASE f = "spectrum_bins"
  BY <1>2, <1>3, <1>4, <1>10 DEF FieldOK, Between
<1>11. CASE f = "max_iq_storage_gb"
  BY <1>2, <1>3, <1>4, <1>11 DEF FieldOK, AtLeast
<1>12. CASE f = "retention_days"
  BY <1>2, <1>3, <1>4, <1>12 DEF FieldOK, AtLeast
<1> QED
  BY <1>5, <1>6, <1>7, <1>8, <1>9, <1>10, <1>11, <1>12

\* What validateSettings() accepts _check_ranges() of the server accepts too,
\* but for a band or an exclusion whose ends round to the same Hz: whatever
\* numbers are typed, into any number of fields.
THEOREM AcceptedIsValid == BrowserSpec => []SentIsValid
<1>1. EnteredIInv => SentIsValid
  <2> SUFFICES ASSUME EnteredIInv, Accepted, ~RoundedAway("start_hz", "end_hz"),
                      ~RoundedAway("exclusion_low", "exclusion_high")
               PROVE  ServerOK
    BY DEF SentIsValid
  <2>1. Sent("start_hz") < Sent("end_hz")
    BY PairSent DEF Accepted
  <2>2. Sent("exclusion_low") < Sent("exclusion_high")
    BY PairSent DEF Accepted
  <2>3. \A f \in DOMAIN entered : FieldOK(f, entered[f])
    BY DEF Accepted
  <2> QED
    BY <2>1, <2>2, <2>3, FieldSent DEF ServerOK
<1> QED
  BY <1>1, EnteredInvariant, PTL
-----------------------------------------------------------------------------
(* Alerts.                                                                  *)

\* A channel that was not seen silent since its alert is active, and the
\* watcher knows it.
AlertsIInv ==
    /\ AlertsTypeOK
    /\ \A c \in AChannel \ rested : chans[c] = "active" /\ prev[c] = "active"

\* The newest toasts.
LEMMA NewestIs ==
  ASSUME NEW S, NEW s \in Seq(S)
  PROVE  Newest(s) \in Seq(S) /\ Len(Newest(s)) <= MaxToasts
<1>0. MaxToasts \in Nat \ {0} /\ Len(s) \in Nat
  BY AlertsAssumption, LenProperties
<1>1. CASE Len(s) > MaxToasts
  <2>1. \A i \in Len(s) - MaxToasts + 1 .. Len(s) : s[i] \in S
    BY <1>0, <1>1, ElementOfSeq
  <2>2. /\ SubSeq(s, Len(s) - MaxToasts + 1, Len(s)) \in Seq(S)
        /\ Len(SubSeq(s, Len(s) - MaxToasts + 1, Len(s))) = MaxToasts
    BY <1>0, <1>1, <2>1, SubSeqProperties
  <2> QED
    BY <1>0, <1>1, <2>2 DEF Newest
<1>2. CASE ~(Len(s) > MaxToasts)
  BY <1>0, <1>2 DEF Newest
<1> QED
  BY <1>1, <1>2

LEMMA RemovalIs ==
  ASSUME NEW S, NEW s \in Seq(S), NEW i \in DOMAIN s
  PROVE  LET r == SubSeq(s, 1, i - 1) \o SubSeq(s, i + 1, Len(s))
         IN  r \in Seq(S) /\ Len(r) = Len(s) - 1
<1>1. PICK n \in Nat : n = Len(s)
  BY LenProperties
<1>2. i \in 1 .. n /\ i \in Nat /\ n \in Int /\ 1 \in Int
  BY <1>1, LenProperties
<1>3. PICK lo \in Int, hi \in Int : lo = i - 1 /\ hi = i + 1
  BY <1>2
<1>4. \A k \in 1 .. n : s[k] \in S
  BY <1>1, ElementOfSeq
<1>5. SubSeq(s, 1, lo) \in Seq(S) /\ Len(SubSeq(s, 1, lo)) = lo
  <2>1. \A k \in 1 .. lo : s[k] \in S
    BY <1>2, <1>3, <1>4
  <2>2. /\ SubSeq(s, 1, lo) \in Seq(S)
        /\ Len(SubSeq(s, 1, lo)) = IF 1 <= lo THEN lo - 1 + 1 ELSE 0
    BY <1>2, <2>1, SubSeqProperties, SMTT(20)
  <2>3. lo = IF 1 <= lo THEN lo - 1 + 1 ELSE 0
    BY <1>2, <1>3, SMTT(20)
  <2> QED
    BY <2>2, <2>3
<1>6. SubSeq(s, hi, n) \in Seq(S) /\ Len(SubSeq(s, hi, n)) = n - i
  <2>1. \A k \in hi .. n : s[k] \in S
    BY <1>2, <1>3, <1>4
  <2>2. /\ SubSeq(s, hi, n) \in Seq(S)
        /\ Len(SubSeq(s, hi, n)) = IF hi <= n THEN n - hi + 1 ELSE 0
    BY <1>2, <2>1, SubSeqProperties, SMTT(20)
  <2>3. n - i = IF hi <= n THEN n - hi + 1 ELSE 0
    BY <1>2, <1>3, SMTT(20)
  <2> QED
    BY <2>2, <2>3
<1> DEFINE before == SubSeq(s, 1, lo)
           after == SubSeq(s, hi, n)
<1> HIDE DEF before, after
<1>7. before \o after \in Seq(S) /\ Len(before \o after) = Len(before) + Len(after)
  BY <1>5, <1>6, ConcatProperties DEF before, after
<1>8. Len(before) + Len(after) = n - 1
  BY <1>2, <1>3, <1>5, <1>6 DEF before, after
<1> QED
  BY <1>1, <1>3, <1>7, <1>8, Zenon DEF before, after

LEMMA AlertsMounted ==
  ASSUME NEW server \in [AChannel -> Status], NEW store \in [AChannel -> Status],
         NEW loaded \in SUBSET Rule, AlertsMount(server, store, loaded)
  PROVE  AlertsIInv' /\ \A c \in AChannel : hold'[c] = 0
<1>0. Debounce \in Nat /\ MaxToasts \in Nat
  BY AlertsAssumption
<1>1. /\ onAir' = server /\ chans' = store /\ due' = TRUE /\ seeded' = FALSE
      /\ prev' = Nowhere /\ hold' = [c \in AChannel |-> 0] /\ toasts' = << >>
      /\ rules' = loaded /\ rested' = AChannel
  BY DEF AlertsMount
<1>2. Nowhere \in [AChannel -> Status]
  BY DEF Nowhere, Status
<1>3. toasts' \in Seq(AChannel) /\ Len(toasts') <= MaxToasts
  BY <1>0, <1>1, EmptySeq
<1>4. hold' \in [AChannel -> 0 .. Debounce]
  BY <1>0, <1>1
<1>5. AlertsTypeOK'
  BY <1>1, <1>2, <1>3, <1>4 DEF AlertsTypeOK
<1> QED
  BY <1>1, <1>5 DEF AlertsIInv

LEMMA AlertsInitially == AlertsClosed => AlertsIInv
<1> SUFFICES ASSUME AlertsClosed PROVE AlertsIInv
  OBVIOUS
<1>0. Debounce \in Nat /\ MaxToasts \in Nat
  BY AlertsAssumption
<1>1. Nowhere \in [AChannel -> Status]
  BY DEF Nowhere, Status
<1>2. toasts \in Seq(AChannel) /\ Len(toasts) <= MaxToasts
  BY <1>0, EmptySeq DEF AlertsClosed
<1>3. hold \in [AChannel -> 0 .. Debounce]
  BY <1>0 DEF AlertsClosed
<1> QED
  BY <1>1, <1>2, <1>3 DEF AlertsClosed, AlertsIInv, AlertsTypeOK

LEMMA DraftIs ==
  ASSUME NEW lo \in Bound, NEW hi \in Bound, NEW snr \in Bound, NEW conf \in Bound,
         NEW regular \in BOOLEAN
  PROVE  Draft(lo, hi, snr, conf, regular) \in Rule
<1> DEFINE clamped == CASE conf = Blank -> Blank
                        [] conf # Blank /\ conf < 0 -> 0
                        [] conf # Blank /\ conf > 100 -> 100
                        [] OTHER -> conf
<1>1. clamped \in Bound \cup {0, 100}
  BY DEF Bound
<1>2. Draft(lo, hi, snr, conf, regular) =
          [enabled |-> TRUE, lo |-> lo, hi |-> hi, snr |-> snr, conf |-> clamped,
           regular |-> regular]
  BY DEF Draft
<1> HIDE DEF clamped
<1> QED
  BY <1>1, <1>2 DEF Rule

\* The rules, whatever the user does with them.
LEMMA RulesStep ==
  ASSUME AlertsIInv, RuleForm \/ RuleList
  PROVE  AlertsIInv' /\ UNCHANGED <<hold, chans, prev, rested>>
<1>1. UNCHANGED <<onAir, chans, due, seeded, prev, hold, toasts, rested>>
  BY DEF RuleForm, RuleList, AddRule, ToggleRule, RemoveRule
<1>2. rules \subseteq Rule
  BY DEF AlertsIInv, AlertsTypeOK
<1>3. rules' \subseteq Rule
  <2>1. CASE RuleForm
    BY <1>2, <2>1, DraftIs DEF RuleForm, AddRule
  <2>2. CASE RuleList
    <3>1. \A r \in Rule : [r EXCEPT !.enabled = ~r.enabled] \in Rule
      BY DEF Rule
    <3> QED
      BY <1>2, <2>2, <3>1 DEF RuleList, ToggleRule, RemoveRule
  <2> QED
    BY <2>1, <2>2
<1> QED
  BY <1>1, <1>3 DEF AlertsIInv, AlertsTypeOK

\* The store gets channels.
LEMMA StoredStep ==
  ASSUME AlertsIInv, NEW new \in [AChannel -> Status], Stored(new)
  PROVE  AlertsIInv'
<1>1. /\ chans' = new /\ due' = TRUE
      /\ rested' = rested \cup {c \in AChannel : new[c] # "active"}
      /\ UNCHANGED <<onAir, seeded, prev, hold, toasts, rules>>
  BY DEF Stored
<1>2. AlertsTypeOK'
  BY <1>1 DEF AlertsIInv, AlertsTypeOK
<1>3. \A c \in AChannel \ rested' : chans'[c] = "active" /\ prev'[c] = "active"
  BY <1>1 DEF AlertsIInv
<1> QED
  BY <1>2, <1>3 DEF AlertsIInv

LEMMA FreshIs ==
  ASSUME AlertsIInv
  PROVE  /\ Fresh \subseteq AChannel /\ Cardinality(Fresh) \in Nat
         /\ Fresh \subseteq rested
         /\ \A c \in Fresh : hold[c] = 0 /\ chans[c] = "active"
<1>1. Fresh \subseteq AChannel
  BY DEF Fresh
<1>2. Cardinality(Fresh) \in Nat
  <2>1. IsFiniteSet(Fresh)
    BY <1>1, AlertsAssumption, FS_Subset
  <2> QED
    BY <2>1, FS_CardinalityType
<1> QED
  BY <1>1, <1>2 DEF Fresh, AlertsIInv

LEMMA WatchStep ==
  ASSUME AlertsIInv, Watch
  PROVE  /\ AlertsIInv'
         /\ \A c \in AChannel : hold'[c] # hold[c] => c \in rested /\ hold[c] = 0
<1> DEFINE F == Fresh
<1>0. /\ F \subseteq AChannel /\ Cardinality(F) \in Nat /\ F \subseteq rested
      /\ \A c \in F : hold[c] = 0 /\ chans[c] = "active"
  BY FreshIs
<1>1. PICK order \in [1 .. Cardinality(F) -> F] :
          /\ \A c \in F : \E i \in DOMAIN order : order[i] = c
          /\ toasts' = IF seeded THEN Newest(toasts \o order) ELSE toasts
  BY Zenon DEF Watch
<1>2. /\ due' = FALSE /\ seeded' = TRUE /\ prev' = chans
      /\ UNCHANGED <<onAir, chans, rules>>
      /\ seeded => /\ hold' = [c \in AChannel |-> IF c \in F THEN Debounce ELSE hold[c]]
                   /\ rested' = rested \ F
      /\ ~seeded => hold' = hold /\ rested' = rested
  BY DEF Watch
<1> HIDE DEF F
<1>3. /\ hold \in [AChannel -> 0 .. Debounce] /\ rested \subseteq AChannel
      /\ toasts \in Seq(AChannel) /\ Len(toasts) <= MaxToasts
      /\ seeded \in BOOLEAN /\ Debounce \in Nat
  BY AlertsAssumption DEF AlertsIInv, AlertsTypeOK
<1>4. toasts' \in Seq(AChannel) /\ Len(toasts') <= MaxToasts
  <2>1. order \in [1 .. Cardinality(F) -> AChannel]
    BY <1>0
  <2>2. order \in Seq(AChannel)
    BY <1>0, <2>1, SeqDef
  <2>3. toasts \o order \in Seq(AChannel)
    BY <1>3, <2>2, ConcatProperties
  <2> QED
    BY <1>1, <1>3, <2>3, NewestIs
<1>5. hold' \in [AChannel -> 0 .. Debounce] /\ rested' \subseteq AChannel
  <2>0. Debounce \in 0 .. Debounce
    BY <1>3
  <2>1. CASE seeded
    <3>1. hold' \in [AChannel -> 0 .. Debounce]
      BY <1>2, <1>3, <2>0, <2>1
    <3> QED
      BY <1>2, <1>3, <2>1, <3>1
  <2>2. CASE ~seeded
    BY <1>2, <1>3, <2>2
  <2> QED
    BY <1>3, <2>1, <2>2
<1>6. AlertsTypeOK'
  BY <1>2, <1>4, <1>5 DEF AlertsIInv, AlertsTypeOK
<1>7. \A c \in AChannel \ rested' : chans'[c] = "active" /\ prev'[c] = "active"
  BY <1>0, <1>2, <1>3 DEF AlertsIInv
<1>8. \A c \in AChannel : hold'[c] # hold[c] => c \in rested /\ hold[c] = 0
  BY <1>0, <1>2, <1>3
<1> QED
  BY <1>6, <1>7, <1>8 DEF AlertsIInv

\* The other steps, none of which begins a hold.
LEMMA AlertsRest ==
  ASSUME AlertsIInv,
         \/ Toaster \/ TimePasses
         \/ \E c \in AChannel, s \in Status : OnAirChanges(c, s)
  PROVE  AlertsIInv' /\ \A c \in AChannel : ~(hold'[c] > hold[c])
<1>0. hold \in [AChannel -> 0 .. Debounce] /\ Debounce \in Nat
  BY AlertsAssumption DEF AlertsIInv, AlertsTypeOK
<1>1. CASE Toaster
  <2>1. PICK i \in DOMAIN toasts : Dismiss(i)
    BY <1>1 DEF Toaster
  <2>2. toasts \in Seq(AChannel) /\ Len(toasts) <= MaxToasts /\ MaxToasts \in Nat
    BY AlertsAssumption DEF AlertsIInv, AlertsTypeOK
  <2>3. toasts' \in Seq(AChannel) /\ Len(toasts') = Len(toasts) - 1
    BY <2>1, <2>2, RemovalIs DEF Dismiss
  <2>4. Len(toasts') <= MaxToasts
    BY <2>2, <2>3, LenProperties
  <2>5. UNCHANGED <<onAir, chans, due, seeded, prev, hold, rules, rested>>
    BY <2>1 DEF Dismiss
  <2>6. AlertsIInv'
    BY <2>3, <2>4, <2>5 DEF AlertsIInv, AlertsTypeOK
  <2> QED
    BY <1>0, <2>5, <2>6
<1>2. CASE TimePasses
  <2>1. /\ hold' = [c \in AChannel |-> IF hold[c] = 0 THEN 0 ELSE hold[c] - 1]
        /\ UNCHANGED <<onAir, chans, due, seeded, prev, toasts, rules, rested>>
    BY <1>2 DEF TimePasses
  <2>2. hold' \in [AChannel -> 0 .. Debounce] /\ \A c \in AChannel : ~(hold'[c] > hold[c])
    BY <1>0, <2>1
  <2> QED
    BY <2>1, <2>2 DEF AlertsIInv, AlertsTypeOK
<1>3. CASE \E c \in AChannel, s \in Status : OnAirChanges(c, s)
  <2>1. PICK c \in AChannel, s \in Status : OnAirChanges(c, s)
    BY <1>3
  <2>2. onAir' \in [AChannel -> Status]
    BY <2>1 DEF OnAirChanges, AlertsIInv, AlertsTypeOK
  <2> QED
    BY <1>0, <2>1, <2>2 DEF OnAirChanges, AlertsIInv, AlertsTypeOK
<1> QED
  BY <1>1, <1>2, <1>3

LEMMA AlertsInductive ==
  ASSUME AlertsIInv, AlertsStep
  PROVE  /\ AlertsIInv'
         /\ \A c \in AChannel : hold'[c] > hold[c] => c \in rested /\ hold[c] = 0
<1>0. hold \in [AChannel -> 0 .. Debounce] /\ Debounce \in Nat
  BY AlertsAssumption DEF AlertsIInv, AlertsTypeOK
<1>1. CASE UNCHANGED alertVars
  BY <1>0, <1>1 DEF alertVars, AlertsIInv, AlertsTypeOK
<1>2. CASE AlertsOpens \/ AlertsCloses
  <2>1. Nowhere \in [AChannel -> Status] /\ {} \in SUBSET Rule
    BY DEF Nowhere, Status
  <2>2. {AnyActive} \in SUBSET Rule
    BY DEF AnyActive, Rule, Bound
  <2>3. AlertsIInv' /\ \A c \in AChannel : hold'[c] = 0
    BY <1>2, <2>1, <2>2, AlertsMounted DEF AlertsOpens, AlertsCloses
  <2> QED
    BY <1>0, <2>3
<1>3. CASE RuleForm \/ RuleList
  BY <1>0, <1>3, RulesStep
<1>4. CASE ChannelsReplaced \/ \E c \in AChannel : ChannelUpserted(c)
  <2>1. \E new \in [AChannel -> Status] : Stored(new)
    BY <1>4 DEF ChannelsReplaced, ChannelUpserted, AlertsIInv, AlertsTypeOK
  <2>2. AlertsIInv' /\ hold' = hold
    BY <2>1, StoredStep DEF Stored
  <2> QED
    BY <1>0, <2>2
<1>5. CASE Watch
  BY <1>0, <1>5, WatchStep
<1>6. CASE \/ Toaster \/ TimePasses
           \/ \E c \in AChannel, s \in Status : OnAirChanges(c, s)
  BY <1>6, AlertsRest
<1> QED
  BY <1>1, <1>2, <1>3, <1>4, <1>5, <1>6 DEF AlertsStep, AlertsNext

LEMMA AlertsInvariant == BrowserSpec => []AlertsIInv
<1>1. BrowserInit => AlertsIInv
  BY AlertsInitially DEF BrowserInit
<1>2. AlertsIInv /\ [BrowserNext]_browserVars => AlertsIInv'
  BY PageSteps, AlertsInductive
<1> QED
  BY <1>1, <1>2, PTL DEF BrowserSpec

\* Between two alerts of a channel (useChannelAlerts.ts) it was seen not
\* active, and the debounce has passed: whatever snapshots and updates repeat,
\* reorder or skip, for any number of channels, rules and toasts.
THEOREM AlertsAreDebounced == BrowserSpec => AlertsOnce
<1>1. AlertsIInv /\ [BrowserNext]_browserVars =>
          [\A c \in AChannel : hold'[c] > hold[c] => c \in rested /\ hold[c] = 0]_alertVars
  BY PageSteps, AlertsInductive
<1> QED
  BY <1>1, AlertsInvariant, PTL DEF BrowserSpec, AlertsOnce
-----------------------------------------------------------------------------
(* The pages that load their data.                                          *)

\* A drawer wants only the answer for what it asks, no other page cancels what
\* it asked for, and a page that never shows "Loading" is not loading.
DataIInv ==
    /\ DataTypeOK
    /\ \A r \in Request : loads[r] # NoLoad =>
           /\ view \in Drawers => loads[r].loud /\ (loads[r].cancelled \/ loads[r].key = asks)
           /\ view \notin Drawers => ~loads[r].cancelled
    /\ view \in Drawers => ~auto
    /\ view \in Quiet => ~loading
    /\ ShownIsAsked

\* A page that is opened asks once.
LEMMA DataFirst ==
  ASSUME view' \in View, asks' \in Key, auto' = (view' \in Polled),
         loading' = (view' \notin Quiet), failed' = FALSE, shown' = NoData,
         loads' = [[r \in Request |-> NoLoad] EXCEPT ![CHOOSE r \in Request : TRUE] =
                      Asked(asks', TRUE)]
  PROVE  DataIInv'
<1>1. PICK q \in Request : q = CHOOSE r \in Request : TRUE
  BY DataAssumption
<1>2. PICK k \in Key : k = asks'
  OBVIOUS
<1> DEFINE l == [at |-> "asked", key |-> k, loud |-> TRUE, cancelled |-> FALSE]
<1>3. l \in Load /\ l # NoLoad /\ l.loud /\ ~l.cancelled /\ l.key = k
  BY DEF Load, NoLoad
<1>4. loads' = [r \in Request |-> IF r = q THEN l ELSE NoLoad]
  BY <1>1, <1>2 DEF Asked
<1> HIDE DEF l
<1>5. DataTypeOK'
  <2>1. loads' \in [Request -> {NoLoad} \cup Load]
    BY <1>3, <1>4
  <2>2. auto' \in BOOLEAN /\ loading' \in BOOLEAN /\ failed' \in BOOLEAN
    <3>1. auto' = TRUE \/ auto' = FALSE
      BY SMT DEF Polled
    <3>2. loading' = TRUE \/ loading' = FALSE
      BY Zenon
    <3> QED
      BY <3>1, <3>2
  <2> QED
    BY <2>1, <2>2 DEF DataTypeOK
<1>6. \A r \in Request : loads'[r] # NoLoad => loads'[r] = l
  BY <1>4
<1>7. view' \in Drawers => ~auto' /\ loading'
  BY DEF Drawers, Polled, Quiet
<1>8. q \in InFlight' /\ loads'[q] = l
  BY <1>3, <1>4 DEF InFlight
<1>9. ShownIsAsked'
  BY <1>3, <1>7, <1>8 DEF ShownIsAsked, EndsLoading
<1> QED
  BY <1>2, <1>3, <1>5, <1>6, <1>7, <1>9 DEF DataIInv

LEMMA DataEmpty ==
  ASSUME view' = "survey", asks' \in Key, auto' = FALSE, loading' = FALSE, failed' = FALSE,
         shown' = NoData, loads' = [r \in Request |-> NoLoad]
  PROVE  DataIInv'
<1> QED
  BY DEF DataIInv, DataTypeOK, View, Drawers, Quiet, ShownIsAsked

LEMMA DataInitially == DataClosed => DataIInv
<1> SUFFICES ASSUME DataClosed PROVE DataIInv
  OBVIOUS
<1>1. asks \in Key
  BY DataAssumption DEF DataClosed
<1> QED
  BY <1>1 DEF DataClosed, DataIInv, DataTypeOK, View, Drawers, Quiet, ShownIsAsked

\* A request for k: what it does to the loads before it.
LEMMA AskIs ==
  ASSUME NEW before \in [Request -> {NoLoad} \cup Load], NEW r \in Request, NEW k \in Key,
         NEW loud \in BOOLEAN, Ask(r, k, loud, before)
  PROVE  \E l \in Load :
             /\ l # NoLoad /\ l.key = k /\ l.loud = loud /\ ~l.cancelled
             /\ loads' = [before EXCEPT ![r] = l] /\ before[r] = NoLoad
             /\ loading' = (loading \/ loud)
<1> DEFINE l == [at |-> "asked", key |-> k, loud |-> loud, cancelled |-> FALSE]
<1>1. l \in Load /\ l # NoLoad /\ l.key = k /\ l.loud = loud /\ ~l.cancelled
  BY DEF Load, NoLoad
<1> QED
  BY <1>1 DEF Ask, Asked

LEMMA DataControls ==
  ASSUME DataIInv, NEW r \in Request, NEW k \in Key, ControlChanges(r, k),
         view \in Drawers \cup {"occupancy", "timeline"}
  PROVE  DataIInv'
<1>0. /\ view \in View /\ {auto, loading, failed} \subseteq BOOLEAN /\ shown \in Key \cup {NoData}
      /\ loads \in [Request -> {NoLoad} \cup Load]
  BY DEF DataIInv, DataTypeOK
<1>1. UNCHANGED <<view, auto, shown>> /\ asks' = k /\ failed' \in BOOLEAN
  BY DEF ControlChanges
<1> DEFINE before == IF view \in Drawers THEN Cancelled ELSE loads
<1>2. /\ before \in [Request -> {NoLoad} \cup Load]
      /\ \A q \in Request : before[q] # NoLoad =>
             /\ view \in Drawers => before[q].loud /\ before[q].cancelled
             /\ view \notin Drawers => ~before[q].cancelled
  <2>1. CASE view \in Drawers
    <3>1. ASSUME NEW q \in Request
          PROVE  \/ Cancelled[q] = NoLoad
                 \/ Cancelled[q] \in Load /\ Cancelled[q].loud /\ Cancelled[q].cancelled
      <4>1. CASE loads[q] = NoLoad
        BY <4>1 DEF Cancelled
      <4>2. CASE loads[q] # NoLoad
        <5>1. loads[q] \in Load /\ loads[q].loud
          BY <1>0, <2>1, <4>2 DEF DataIInv
        <5>2. PICK l \in Load : l = loads[q] /\ l.loud
          BY <5>1
        <5>3. [l EXCEPT !.cancelled = TRUE] \in Load /\ [l EXCEPT !.cancelled = TRUE].loud
              /\ [l EXCEPT !.cancelled = TRUE].cancelled
          BY <5>2 DEF Load
        <5>4. Cancelled[q] = [l EXCEPT !.cancelled = TRUE]
          BY <4>2, <5>2 DEF Cancelled
        <5> QED
          BY <5>3, <5>4
      <4> QED
        BY <4>1, <4>2
    <3>2. Cancelled \in [Request -> {NoLoad} \cup Load]
      <4>1. Cancelled = [q \in Request |-> Cancelled[q]]
        BY DEF Cancelled
      <4> QED
        BY <3>1, <4>1
    <3> QED
      BY <2>1, <3>1, <3>2
  <2>2. CASE view \notin Drawers
    BY <1>0, <2>2 DEF DataIInv
  <2> QED
    BY <2>1, <2>2
<1>3. PICK b : b = before
  OBVIOUS
<1> HIDE DEF before
<1>11. Ask(r, k, TRUE, b)
  BY <1>3 DEF ControlChanges, before
<1>4. PICK l \in Load :
          /\ l # NoLoad /\ l.key = k /\ l.loud /\ ~l.cancelled
          /\ loads' = [before EXCEPT ![r] = l]
          /\ loading' = TRUE
  <2>1. b \in [Request -> {NoLoad} \cup Load] /\ TRUE \in BOOLEAN
    BY <1>2, <1>3
  <2>2. \E l \in Load :
             /\ l # NoLoad /\ l.key = k /\ l.loud = TRUE /\ ~l.cancelled
             /\ loads' = [b EXCEPT ![r] = l] /\ b[r] = NoLoad
             /\ loading' = (loading \/ TRUE)
    BY <1>11, <2>1, AskIs, Zenon
  <2> QED
    BY <1>3, <2>2
<1>5. DataTypeOK'
  BY <1>0, <1>1, <1>2, <1>4 DEF DataTypeOK
<1>6. loads'[r] = l /\ \A q \in Request \ {r} : loads'[q] = before[q]
  BY <1>2, <1>4
<1>7. r \in InFlight'
  BY <1>4, <1>6 DEF InFlight
<1>8. ShownIsAsked'
  BY <1>4, <1>6, <1>7 DEF ShownIsAsked, EndsLoading
<1>9. view \notin Quiet
  BY DEF Quiet, Drawers
<1>10. \A q \in Request : loads'[q] # NoLoad =>
           /\ view \in Drawers => loads'[q].loud /\ (loads'[q].cancelled \/ loads'[q].key = k)
           /\ view \notin Drawers => ~loads'[q].cancelled
  BY <1>2, <1>4, <1>6
<1> QED
  BY <1>1, <1>5, <1>8, <1>9, <1>10 DEF DataIInv

\* A load that is added for what the page asks.
LEMMA DataAsks ==
  ASSUME DataIInv, NEW r \in Request, NEW loud \in BOOLEAN, Ask(r, asks, loud, loads),
         UNCHANGED <<view, asks, auto, failed, shown>>,
         view \notin Drawers, loud => view \in {"occupancy", "timeline"}
  PROVE  DataIInv'
<1>0. /\ view \in View /\ {auto, loading, failed} \subseteq BOOLEAN /\ shown \in Key \cup {NoData}
      /\ loads \in [Request -> {NoLoad} \cup Load] /\ asks \in Key
  BY DEF DataIInv, DataTypeOK
<1>1. PICK k \in Key, b \in [Request -> {NoLoad} \cup Load] : k = asks /\ b = loads
  BY <1>0
<1>10. Ask(r, k, loud, b)
  BY <1>1
<1>2. \E l \in Load :
             /\ l # NoLoad /\ l.key = k /\ l.loud = loud /\ ~l.cancelled
             /\ loads' = [b EXCEPT ![r] = l] /\ b[r] = NoLoad
             /\ loading' = (loading \/ loud)
  BY <1>10, AskIs, SMTT(20)
<1>3. PICK l \in Load :
             /\ l # NoLoad /\ l.key = k /\ l.loud = loud /\ ~l.cancelled
             /\ loads' = [loads EXCEPT ![r] = l] /\ loads[r] = NoLoad
             /\ loading' = (loading \/ loud)
  BY <1>1, <1>2
<1>4. loads'[r] = l /\ \A q \in Request \ {r} : loads'[q] = loads[q]
  BY <1>0, <1>3
<1>5. DataTypeOK'
  <2>1. loads' \in [Request -> {NoLoad} \cup Load]
    BY <1>0, <1>3
  <2>2. loading' \in BOOLEAN
    BY <1>0, <1>3
  <2> QED
    BY <1>0, <2>1, <2>2 DEF DataTypeOK
<1>6. loading' => \E q \in InFlight' : ~loads'[q].cancelled /\ (loads'[q].loud \/ view' = "timeline")
  <2> SUFFICES ASSUME loading'
               PROVE  \E q \in InFlight' :
                          ~loads'[q].cancelled /\ (loads'[q].loud \/ view' = "timeline")
    OBVIOUS
  <2>1. CASE loud
    <3>1. r \in InFlight'
      BY <1>3, <1>4 DEF InFlight
    <3> QED
      BY <1>3, <1>4, <2>1, <3>1
  <2>2. CASE ~loud
    <3>1. loading
      BY <1>3, <2>2
    <3>2. PICK q \in InFlight : ~loads[q].cancelled /\ (loads[q].loud \/ view = "timeline")
      BY <3>1 DEF DataIInv, ShownIsAsked, EndsLoading
    <3>3. q # r /\ q \in InFlight' /\ loads'[q] = loads[q]
      BY <1>3, <1>4, <3>2 DEF InFlight
    <3> QED
      BY <3>2, <3>3
  <2> QED
    BY <2>1, <2>2
<1>7. ShownIsAsked'
  BY <1>6 DEF ShownIsAsked, EndsLoading
<1>8. \A q \in Request : loads'[q] # NoLoad => ~loads'[q].cancelled
  BY <1>3, <1>4 DEF DataIInv
<1>9. view \in Quiet => ~loading'
  BY <1>3 DEF DataIInv, Quiet
<1> QED
  BY <1>5, <1>7, <1>8, <1>9 DEF DataIInv

LEMMA DataAuto ==
  ASSUME DataIInv, ToggleAuto, view \notin Drawers PROVE DataIInv'
<1> QED
  BY DEF DataIInv, DataTypeOK, ToggleAuto, ShownIsAsked, InFlight, EndsLoading

LEMMA DataAnswers ==
  ASSUME DataIInv, NEW r \in Request, Answer(r) PROVE DataIInv'
<1>0. loads \in [Request -> {NoLoad} \cup Load]
  BY DEF DataIInv, DataTypeOK
<1>1. PICK at \in {"answered", "refused"} : loads' = [loads EXCEPT ![r].at = at]
  BY DEF Answer
<1>2. PICK l \in Load : l = loads[r] /\ l # NoLoad
  BY <1>0 DEF Answer
<1>3. PICK m : m = [l EXCEPT !.at = at]
  OBVIOUS
<1>4. /\ m \in Load /\ m.key = l.key /\ m.loud = l.loud /\ m.cancelled = l.cancelled
      /\ m # NoLoad
  BY <1>3 DEF Load, NoLoad
<1>5. loads' = [loads EXCEPT ![r] = m]
  BY <1>0, <1>1, <1>2, <1>3
<1>6. UNCHANGED <<view, asks, auto, loading, failed, shown>>
  BY DEF Answer
<1>7. DataTypeOK'
  BY <1>0, <1>4, <1>5, <1>6 DEF DataIInv, DataTypeOK
<1>8. loads'[r] = m /\ \A q \in Request \ {r} : loads'[q] = loads[q]
  BY <1>0, <1>5
<1>9. loading' => \E q \in InFlight' : ~loads'[q].cancelled /\ (loads'[q].loud \/ view' = "timeline")
  <2>1. SUFFICES ASSUME loading
                 PROVE  \E q \in InFlight' :
                            ~loads'[q].cancelled /\ (loads'[q].loud \/ view' = "timeline")
    BY <1>6
  <2>2. PICK q \in InFlight : ~loads[q].cancelled /\ (loads[q].loud \/ view = "timeline")
    BY <2>1 DEF DataIInv, ShownIsAsked, EndsLoading
  <2>3. q \in InFlight'
    BY <1>4, <1>8, <2>2 DEF InFlight
  <2>4. ~loads'[q].cancelled /\ (loads'[q].loud \/ view' = "timeline")
    BY <1>2, <1>4, <1>6, <1>8, <2>2 DEF InFlight
  <2> QED
    BY <2>3, <2>4
<1>10. ShownIsAsked'
  BY <1>6, <1>9 DEF DataIInv, ShownIsAsked, EndsLoading
<1>11. \A q \in Request : loads'[q] # NoLoad =>
           /\ view' \in Drawers => loads'[q].loud /\ (loads'[q].cancelled \/ loads'[q].key = asks')
           /\ view' \notin Drawers => ~loads'[q].cancelled
  BY <1>2, <1>4, <1>6, <1>8 DEF DataIInv
<1> QED
  BY <1>6, <1>7, <1>10, <1>11 DEF DataIInv

LEMMA DataSettles ==
  ASSUME DataIInv, NEW r \in Request, Settle(r) PROVE DataIInv'
<1>0. /\ view \in View /\ {auto, loading, failed} \subseteq BOOLEAN /\ shown \in Key \cup {NoData}
      /\ loads \in [Request -> {NoLoad} \cup Load] /\ asks \in Key
  BY DEF DataIInv, DataTypeOK
<1>1. PICK l \in Load : l = loads[r] /\ l # NoLoad
  BY <1>0 DEF Settle
<1>2. /\ l.at \in {"answered", "refused"} /\ l.key \in Key /\ l.loud \in BOOLEAN
      /\ l.cancelled \in BOOLEAN
  BY <1>1 DEF Settle, Load
<1>3. loads' = [loads EXCEPT ![r] = NoLoad] /\ UNCHANGED <<view, asks, auto>>
  BY DEF Settle
<1>4. loads'[r] = NoLoad /\ \A q \in Request \ {r} : loads'[q] = loads[q]
  BY <1>0, <1>3
<1>5. /\ view = "occupancy" => OccupancySettles(l)
      /\ view = "timeline" => TimelineSettles(l)
      /\ view \in Drawers => DrawerSettles(l)
      /\ view = "decoder" => DecoderSettles(l)
      /\ view = "survey" => SurveySettles(l)
      /\ view = "investigate" => InvestigateSettles(l)
  BY <1>1 DEF Settle, Drawers, HistorySettles
<1>6. /\ shown' \in Key \cup {NoData} /\ failed' \in BOOLEAN /\ loading' \in BOOLEAN
      /\ view \in Quiet => ~loading'
      /\ view \in Drawers => \/ l.cancelled /\ UNCHANGED <<shown, failed, loading>>
                             \/ /\ ~l.cancelled /\ ~loading'
                                /\ failed' \/ shown' = l.key
      /\ loading' => loading
      /\ loading' /\ view \notin Drawers => view # "timeline" /\ ~l.loud
  <2>1. view \in {"occupancy", "timeline", "decoder", "survey", "investigate"} \cup Drawers
    BY <1>0 DEF View, Drawers
  <2>2. CASE view = "occupancy"
    BY <1>0, <1>2, <1>5, <2>2 DEF OccupancySettles, Show, Quiet, Drawers
  <2>3. CASE view = "timeline"
    BY <1>0, <1>2, <1>5, <2>3 DEF TimelineSettles, Quiet, Drawers
  <2>4. CASE view \in Drawers
    BY <1>0, <1>2, <1>5, <2>4 DEF DrawerSettles, Show, Fail, Quiet, Drawers
  <2>5. CASE view = "decoder"
    BY <1>0, <1>2, <1>5, <2>5 DEF DecoderSettles, Show, Fail, Quiet, Drawers
  <2>6. CASE view = "survey"
    BY <1>0, <1>2, <1>5, <2>6 DEF SurveySettles, Show, Fail, Quiet, Drawers, DataIInv
  <2>7. CASE view = "investigate"
    BY <1>0, <1>2, <1>5, <2>7 DEF InvestigateSettles, Show, Quiet, Drawers, DataIInv
  <2> QED
    BY <2>1, <2>2, <2>3, <2>4, <2>5, <2>6, <2>7
<1>7. DataTypeOK'
  <2>1. loads' \in [Request -> {NoLoad} \cup Load]
    BY <1>0, <1>3
  <2> QED
    BY <1>0, <1>3, <1>6, <2>1 DEF DataTypeOK
<1>8. view \in Drawers /\ ~loading' /\ ~failed' => shown' = asks
  <2> SUFFICES ASSUME view \in Drawers, ~loading', ~failed' PROVE shown' = asks
    OBVIOUS
  <2>1. CASE l.cancelled
    BY <1>6, <2>1 DEF DataIInv, ShownIsAsked
  <2>2. CASE ~l.cancelled
    BY <1>1, <1>6, <2>2 DEF DataIInv
  <2> QED
    BY <2>1, <2>2
<1>9. loading' => \E q \in InFlight' : ~loads'[q].cancelled /\ (loads'[q].loud \/ view' = "timeline")
  <2> SUFFICES ASSUME loading'
               PROVE  \E q \in InFlight' :
                          ~loads'[q].cancelled /\ (loads'[q].loud \/ view' = "timeline")
    OBVIOUS
  <2>1. PICK q \in InFlight : ~loads[q].cancelled /\ (loads[q].loud \/ view = "timeline")
    BY <1>6 DEF DataIInv, ShownIsAsked, EndsLoading
  <2>2. q # r
    <3>1. CASE view \in Drawers
      BY <1>1, <1>6, <2>1, <3>1
    <3>2. CASE view \notin Drawers
      BY <1>1, <1>6, <2>1, <3>2
    <3> QED
      BY <3>1, <3>2
  <2>3. q \in InFlight' /\ loads'[q] = loads[q]
    BY <1>4, <2>1, <2>2 DEF InFlight
  <2> QED
    BY <1>3, <2>1, <2>3
<1>10. ShownIsAsked'
  BY <1>3, <1>8, <1>9 DEF ShownIsAsked, EndsLoading
<1>11. \A q \in Request : loads'[q] # NoLoad => q # r /\ loads'[q] = loads[q]
  BY <1>4
<1> QED
  BY <1>3, <1>6, <1>7, <1>10, <1>11 DEF DataIInv

LEMMA DataInductive ==
  ASSUME DataIInv, DataStep PROVE DataIInv'
<1>1. CASE UNCHANGED dataVars
  BY <1>1 DEF dataVars, DataIInv, DataTypeOK, ShownIsAsked, InFlight, EndsLoading
<1>2. CASE DataOpens
  BY <1>2, DataFirst DEF DataOpens
<1>3. CASE DataCloses
  BY <1>3, DataEmpty, DataAssumption DEF DataCloses
<1>4. ASSUME NEW r \in Request,
             \/ OccupancyControls(r) \/ TimelineControls(r) \/ OpensAnother(r)
             \/ Poll(r) \/ Answer(r) \/ Settle(r)
      PROVE  DataIInv'
  <2>1. CASE OccupancyControls(r) \/ TimelineControls(r)
    <3>1. view \in {"occupancy", "timeline"} /\ view \notin Drawers
      BY <2>1 DEF OccupancyControls, TimelineControls, Drawers
    <3>2. CASE Refresh(r)
      BY <3>1, <3>2, DataAsks DEF Refresh
    <3>3. CASE ToggleAuto
      BY <3>1, <3>3, DataAuto
    <3>4. CASE \E k \in Key : ControlChanges(r, k)
      BY <3>1, <3>4, DataControls
    <3> QED
      BY <2>1, <3>2, <3>3, <3>4 DEF OccupancyControls, TimelineControls
  <2>2. CASE OpensAnother(r)
    BY <2>2, DataControls DEF OpensAnother
  <2>3. CASE Poll(r)
    <3>1. view \notin Drawers
      BY <2>3 DEF Poll, DataIInv
    <3> QED
      BY <2>3, <3>1, DataAsks DEF Poll
  <2>4. CASE Answer(r)
    BY <2>4, DataAnswers
  <2>5. CASE Settle(r)
    BY <2>5, DataSettles
  <2> QED
    BY <1>4, <2>1, <2>2, <2>3, <2>4, <2>5
<1> QED
  BY <1>1, <1>2, <1>3, <1>4 DEF DataStep, DataNext

LEMMA DataInvariant == BrowserSpec => []DataIInv
<1>1. BrowserInit => DataIInv
  BY DataInitially DEF BrowserInit
<1>2. DataIInv /\ [BrowserNext]_browserVars => DataIInv'
  BY PageSteps, DataInductive
<1> QED
  BY <1>1, <1>2, PTL DEF BrowserSpec

\* A drawer shows what its header names, however late an answer is
\* (ChannelDetail.tsx), and a page says "Loading" only while a load is in
\* flight that ends it (Occupancy.tsx, Timeline.tsx): for any number of keys and
\* of requests.
THEOREM DrawersShowTheirChannel == BrowserSpec => []ShownIsAsked
<1>1. DataIInv => ShownIsAsked
  BY DEF DataIInv
<1> QED
  BY <1>1, DataInvariant, PTL
-----------------------------------------------------------------------------
(* The table of the channels.                                               *)

\* A step that changes the channels of the store leaves a frozen table alone.
LEMMA FrozenStep ==
  ASSUME ChannelsStep, frozen, frozen', live' # live
  PROVE  Cells' = Cells /\ Headline' = Headline /\ Dialog' = Dialog
<1>1. UNCHANGED <<frozen, snapshot, sortKey, asc, atLeast, pins, compare, comparing>>
  <2>1. CASE UNCHANGED tableVars
    BY <2>1 DEF tableVars
  <2>2. CASE ChannelsOpens \/ ChannelsCloses
    BY <2>2 DEF ChannelsOpens, ChannelsCloses, ChannelsMount
  <2>3. CASE ChannelsNext
    <3>1. CASE \/ \E table \in Table : SnapshotArrives(table)
               \/ \E c \in CId, v \in Value : UpdateArrives(c, v)
      BY <3>1 DEF SnapshotArrives, UpdateArrives
    <3>2. CASE TableUser
      BY <3>2 DEF TableUser, HeaderButtons, FilterForm, SortHeaders, RowControls, CloseCompare,
                  OpenCompare, ToggleFreeze, SetFilter, ToggleSort, TogglePin, ToggleCompare
    <3> QED
      BY <2>3, <3>1, <3>2 DEF ChannelsNext
  <2> QED
    BY <2>1, <2>2, <2>3 DEF ChannelsStep
<1>2. Source' = Source
  BY <1>1 DEF Source
<1>3. TableRows' = TableRows
  BY <1>1, <1>2 DEF TableRows
<1>4. Cells' = Cells
  BY <1>2, <1>3 DEF Cells
<1>5. Headline' = Headline
  BY <1>1, <1>2 DEF Headline
<1>6. Compared(Source, compare)' = Compared(Source, compare)
  BY <1>1, <1>2
<1>7. CanCompare' = CanCompare
  BY <1>6 DEF CanCompare
<1>8. Dialog' = Dialog
  BY <1>1, <1>2, <1>6, <1>7 DEF Dialog, CompareRows
<1> QED
  BY <1>4, <1>5, <1>8

\* While the table is frozen nothing that arrives moves a row, changes a cell
\* or the line above, or changes the comparison (Channels.tsx:207): for any
\* number of channels, values, pins and filters.
THEOREM FrozenTableStays == BrowserSpec => FrozenStays
<1>1. [BrowserNext]_browserVars =>
          [frozen /\ frozen' /\ live' # live =>
               Cells' = Cells /\ Headline' = Headline /\ Dialog' = Dialog]_tableVars
  BY PageSteps, FrozenStep
<1> QED
  BY <1>1, PTL DEF BrowserSpec, FrozenStays

\* Two ids at most are compared, and no id with itself.
Pair(s) ==
    s \in Seq(CId) /\ Len(s) <= 2 /\ \A i, j \in DOMAIN s : s[i] = s[j] => i = j

LEMMA PairShrinks ==
  ASSUME NEW s, Pair(s), NEW i \in DOMAIN s
  PROVE  Pair(Sorts!RemoveAt(s, i))
<1>0. s \in Seq(CId) /\ Len(s) \in Nat /\ DOMAIN s = 1 .. Len(s) /\ Len(s) <= 2
  BY LenProperties DEF Pair
<1>1. PICK r : r = Sorts!RemoveAt(s, i)
  OBVIOUS
<1>2. r \in Seq(CId) /\ Len(r) = Len(s) - 1
  BY <1>0, <1>1, RemovalIs DEF Sorts!RemoveAt
<1>3. Len(r) <= 1 /\ Len(r) \in Nat /\ DOMAIN r = 1 .. Len(r)
  BY <1>0, <1>2, LenProperties
<1>4. Len(r) <= 2 /\ \A j, k \in DOMAIN r : j = k
  BY <1>3
<1> QED
  BY <1>1, <1>2, <1>4, Zenon DEF Pair

LEMMA PairGrows ==
  ASSUME NEW s, Pair(s), NEW c \in CId, Len(s) < 2, \A i \in DOMAIN s : s[i] # c
  PROVE  Pair(Append(s, c))
<1>0. s \in Seq(CId) /\ Len(s) \in Nat /\ DOMAIN s = 1 .. Len(s)
  BY LenProperties DEF Pair
<1>1. PICK r : r = Append(s, c)
  OBVIOUS
<1>2. /\ r \in Seq(CId) /\ Len(r) = Len(s) + 1
      /\ \A i \in 1 .. Len(s) : r[i] = s[i]
      /\ r[Len(s) + 1] = c
  BY <1>0, <1>1, AppendProperties
<1>3. DOMAIN r = 1 .. Len(s) + 1
  BY <1>0, <1>2, LenProperties
<1>4. ASSUME NEW i \in DOMAIN r, NEW j \in DOMAIN r, r[i] = r[j] PROVE i = j
  <2>1. i \in 1 .. Len(s) \/ i = Len(s) + 1
    BY <1>0, <1>3
  <2>2. j \in 1 .. Len(s) \/ j = Len(s) + 1
    BY <1>0, <1>3
  <2> QED
    BY <1>0, <1>2, <1>4, <2>1, <2>2 DEF Pair
<1>5. Len(r) <= 2
  BY <1>0, <1>2
<1> QED
  BY <1>1, <1>2, <1>4, <1>5 DEF Pair

LEMMA ChannelsMounted ==
  ASSUME NEW table \in Table, NEW kept \in SUBSET CId, ChannelsMount(table, kept)
  PROVE  ChannelsTypeOK'
<1>1. NoTable \in Table /\ Unknown \in Value
  BY DEF NoTable, Table, Value
<1>2. compare' \in Seq(CId) /\ Len(compare') <= 2 /\ DOMAIN compare' = {}
  BY DEF ChannelsMount
<1>3. frozen' = FALSE /\ asc' = TRUE /\ comparing' = FALSE
  BY DEF ChannelsMount
<1>4. {frozen', asc', comparing'} \subseteq BOOLEAN
  BY <1>3
<1> QED
  BY <1>1, <1>2, <1>4 DEF ChannelsMount, ChannelsTypeOK

LEMMA ChannelsInitially == ChannelsClosed => ChannelsTypeOK
<1> SUFFICES ASSUME ChannelsClosed PROVE ChannelsTypeOK
  OBVIOUS
<1>1. NoTable \in Table /\ Unknown \in Value
  BY DEF NoTable, Table, Value
<1>2. compare \in Seq(CId) /\ Len(compare) <= 2 /\ DOMAIN compare = {}
  BY DEF ChannelsClosed
<1>3. {frozen, asc, comparing} \subseteq BOOLEAN
  BY DEF ChannelsClosed
<1> QED
  BY <1>1, <1>2, <1>3 DEF ChannelsClosed, ChannelsTypeOK

LEMMA ChannelsTyped == ASSUME ChannelsTypeOK, ChannelsStep PROVE ChannelsTypeOK'
<1>1. CASE UNCHANGED tableVars
  BY <1>1 DEF tableVars, ChannelsTypeOK
<1>2. CASE ChannelsOpens \/ ChannelsCloses
  <2>1. NoTable \in Table
    BY DEF NoTable, Table
  <2> QED
    BY <1>2, <2>1, ChannelsMounted DEF ChannelsOpens, ChannelsCloses
<1>3. CASE \/ \E table \in Table : SnapshotArrives(table)
           \/ \E c \in CId, v \in Value : UpdateArrives(c, v)
  <2>1. live' \in Table
    <3>1. CASE \E table \in Table : SnapshotArrives(table)
      BY <3>1 DEF SnapshotArrives
    <3>2. ASSUME NEW c \in CId, NEW v \in Value, UpdateArrives(c, v) PROVE live' \in Table
      BY <3>2 DEF UpdateArrives, SnapshotArrives, ChannelsTypeOK, Table
    <3> QED
      BY <1>3, <3>1, <3>2
  <2>2. UNCHANGED <<frozen, snapshot, sortKey, asc, atLeast, pins, compare, comparing>>
    BY <1>3 DEF SnapshotArrives, UpdateArrives
  <2> QED
    BY <2>1, <2>2 DEF ChannelsTypeOK
<1>4. CASE ToggleFreeze
  BY <1>4 DEF ToggleFreeze, ChannelsTypeOK
<1>5. CASE OpenCompare \/ CloseCompare
  BY <1>5 DEF OpenCompare, CloseCompare, ChannelsTypeOK
<1>6. CASE FilterForm
  BY <1>6 DEF FilterForm, SetFilter, ChannelsTypeOK
<1>7. CASE SortHeaders
  <2>1. PICK k \in {"id", "value"} : ToggleSort(k)
    BY <1>7 DEF SortHeaders
  <2>2. asc' \in BOOLEAN
    BY <2>1, Zenon DEF ToggleSort
  <2> QED
    BY <2>1, <2>2 DEF ToggleSort, ChannelsTypeOK
<1>8. ASSUME NEW c \in CId, TogglePin(c) \/ ToggleCompare(c) PROVE ChannelsTypeOK'
  <2>1. CASE TogglePin(c)
    BY <2>1 DEF TogglePin, ChannelsTypeOK
  <2>2. CASE ToggleCompare(c)
    <3>1. Pair(compare)
      BY DEF ChannelsTypeOK, Pair
    <3>2. PICK s : s = compare
      OBVIOUS
    <3>3. Pair(s)
      BY <3>1, <3>2
    <3>4. \/ \E i \in DOMAIN s : compare' = Sorts!RemoveAt(s, i)
          \/ /\ \A i \in DOMAIN s : s[i] # c
             /\ Len(s) < 2 /\ compare' = Append(s, c)
      BY <2>2, <3>2 DEF ToggleCompare
    <3>5. Pair(compare')
      BY <3>3, <3>4, PairShrinks, PairGrows
    <3>6. UNCHANGED <<live, frozen, snapshot, sortKey, asc, atLeast, pins, comparing>>
      BY <2>2 DEF ToggleCompare
    <3> QED
      BY <3>5, <3>6 DEF ChannelsTypeOK, Pair
  <2> QED
    BY <1>8, <2>1, <2>2
<1> QED
  BY <1>1, <1>2, <1>3, <1>4, <1>5, <1>6, <1>7, <1>8
     DEF ChannelsStep, ChannelsNext, TableUser, HeaderButtons, RowControls
-----------------------------------------------------------------------------
(* The waterfall.                                                           *)

Ordered(canvas) ==
    \A i \in DOMAIN canvas :
        i > 1 => \/ canvas[i].frame < canvas[i - 1].frame
                 \/ canvas[i].frame = canvas[i - 1].frame /\ canvas[i - 1].first

\* A frame goes from the store to the loop, the page, the waterfall and the
\* canvas, and none of them gets ahead of the one before; the frame that the
\* loop of the waterfall has drawn is the top row.
SpectrumIInv ==
    /\ SpectrumTypeOK
    /\ drawn <= tracked /\ tracked <= display /\ display <= pending /\ pending <= newest
    /\ plot.frame = display
    /\ Ordered(waterfall) /\ \A i \in DOMAIN waterfall : waterfall[i].frame <= tracked
    /\ drawn # 0 => waterfall # << >> /\ waterfall[1].frame = drawn

LEMMA ScrolledIs ==
  ASSUME NEW old \in Seq(Row), NEW row \in Row
  PROVE  LET all == <<row>> \o old
             s == SubSeq(all, 1, IF Len(all) < Height THEN Len(all) ELSE Height)
         IN  /\ s \in Seq(Row) /\ Len(s) \in 1 .. Height /\ Len(s) <= Len(old) + 1
             /\ s[1] = row
             /\ \A i \in 2 .. Len(s) : s[i] = old[i - 1]
<1> DEFINE all == <<row>> \o old
           n == IF Len(all) < Height THEN Len(all) ELSE Height
           s == SubSeq(all, 1, n)
<1>0. Height \in Nat \ {0} /\ Len(old) \in Nat
  BY SpectrumAssumption, LenProperties
<1>1. <<row>> \in Seq(Row) /\ Len(<<row>>) = 1 /\ <<row>>[1] = row
  OBVIOUS
<1>2. /\ all \in Seq(Row) /\ Len(all) = Len(old) + 1 /\ all[1] = row
      /\ \A i \in 2 .. Len(all) : all[i] = old[i - 1]
  <2>1. all \in Seq(Row) /\ Len(all) = Len(<<row>>) + Len(old)
    BY <1>1, ConcatProperties
  <2>2. \A i \in 1 .. Len(<<row>>) + Len(old) :
            all[i] = IF i <= Len(<<row>>) THEN <<row>>[i] ELSE old[i - Len(<<row>>)]
    BY <1>1, ConcatProperties
  <2> HIDE DEF all
  <2> QED
    BY <1>0, <1>1, <2>1, <2>2
<1> HIDE DEF all
<1>3. n \in 1 .. Len(all) /\ n <= Height
  BY <1>0, <1>2
<1> HIDE DEF n
<1>4. \A i \in 1 .. n : all[i] \in Row
  <2>1. \A i \in 1 .. Len(all) : all[i] \in Row
    BY <1>2, ElementOfSeq
  <2> QED
    BY <1>0, <1>2, <1>3, <2>1
<1>5. s \in Seq(Row) /\ Len(s) = n /\ \A i \in 1 .. n : s[i] = all[i]
  <2>1. n \in Nat /\ n >= 1
    BY <1>0, <1>2, <1>3
  <2>2. /\ s \in Seq(Row) /\ Len(s) = IF 1 <= n THEN n - 1 + 1 ELSE 0
        /\ \A i \in 1 .. n - 1 + 1 : s[i] = all[1 + i - 1]
    BY <1>4, <2>1, SubSeqProperties
  <2> HIDE DEF s
  <2> QED
    BY <2>1, <2>2
<1> HIDE DEF s
<1>6. /\ s \in Seq(Row) /\ Len(s) \in 1 .. Height /\ Len(s) <= Len(old) + 1
      /\ s[1] = row /\ \A i \in 2 .. Len(s) : s[i] = old[i - 1]
  BY <1>0, <1>2, <1>3, <1>5
<1> QED
  BY <1>6 DEF s, n, all

LEMMA SpectrumMounted ==
  ASSUME NEW f \in Frame, NEW c \in {0, 1}, SpectrumMount(f, c) PROVE SpectrumIInv'
<1>0. MaxFrame \in Nat /\ Height \in Nat \ {0}
  BY SpectrumAssumption
<1>1. /\ newest' = f /\ channels' = c /\ paused' = FALSE
      /\ taken' = 0 /\ pending' = f /\ display' = f
      /\ tracked' = f /\ drawn' = 0 /\ waterfall' = << >>
      /\ plot' = [frame |-> f, markers |-> c]
  BY DEF SpectrumMount
<1>2. f \in Nat /\ 0 \in Frame /\ 0 <= f
  BY <1>0 DEF Frame
<1>3. waterfall' \in Seq(Row) /\ Len(waterfall') = 0 /\ DOMAIN waterfall' = {}
  BY <1>1
<1>5. plot' \in [frame : Frame, markers : {0, 1}] /\ plot'.frame = f
  BY <1>1
<1>4. SpectrumTypeOK'
  <2>1. {newest', taken', pending', display', tracked', drawn'} \subseteq Frame
    BY <1>1, <1>2
  <2>2. channels' \in {0, 1} /\ paused' \in BOOLEAN
    BY <1>1, Zenon
  <2>3. Len(waterfall') <= Height
    BY <1>0, <1>3
  <2> QED
    BY <1>3, <1>5, <2>1, <2>2, <2>3, Zenon DEF SpectrumTypeOK
<1> QED
  BY <1>1, <1>2, <1>3, <1>4, <1>5 DEF SpectrumIInv, Ordered

LEMMA SpectrumInitially == SpectrumClosed => SpectrumIInv
<1> SUFFICES ASSUME SpectrumClosed PROVE SpectrumIInv
  OBVIOUS
<1>0. MaxFrame \in Nat /\ Height \in Nat \ {0}
  BY SpectrumAssumption
<1>1. 0 \in Frame
  BY <1>0 DEF Frame
<1>2. waterfall \in Seq(Row) /\ Len(waterfall) = 0 /\ DOMAIN waterfall = {}
  BY DEF SpectrumClosed
<1>4. plot \in [frame : Frame, markers : {0, 1}]
  BY <1>1 DEF SpectrumClosed
<1>3. SpectrumTypeOK
  <2>1. {newest, taken, pending, display, tracked, drawn} \subseteq Frame
    BY <1>1 DEF SpectrumClosed
  <2>2. channels \in {0, 1} /\ paused \in BOOLEAN
    BY Zenon DEF SpectrumClosed
  <2>3. Len(waterfall) <= Height
    BY <1>0, <1>2
  <2> QED
    BY <1>2, <1>4, <2>1, <2>2, <2>3, Zenon DEF SpectrumTypeOK
<1> QED
  BY <1>2, <1>3 DEF SpectrumIInv, Ordered, SpectrumClosed

LEMMA SpectrumFacts ==
  ASSUME SpectrumIInv
  PROVE  /\ newest \in Nat /\ taken \in Nat /\ pending \in Nat /\ display \in Nat
         /\ tracked \in Nat /\ drawn \in Nat
         /\ {newest, taken, pending, display, tracked, drawn} \subseteq Frame
         /\ waterfall \in Seq(Row) /\ Len(waterfall) <= Height /\ Len(waterfall) \in Nat
         /\ DOMAIN waterfall = 1 .. Len(waterfall)
         /\ \A i \in DOMAIN waterfall : waterfall[i] \in Row /\ waterfall[i].frame \in Nat
         /\ channels \in {0, 1} /\ paused \in BOOLEAN
         /\ plot \in [frame : Frame, markers : {0, 1}] /\ plot.frame = display
<1>0. MaxFrame \in Nat
  BY SpectrumAssumption
<1>1. \A f \in Frame : f \in Nat
  BY <1>0 DEF Frame
<1>2. waterfall \in Seq(Row)
  BY DEF SpectrumIInv, SpectrumTypeOK
<1>3. Len(waterfall) \in Nat /\ DOMAIN waterfall = 1 .. Len(waterfall)
  BY <1>2, LenProperties
<1>4. \A i \in DOMAIN waterfall : waterfall[i] \in Row
  BY <1>2, <1>3, ElementOfSeq
<1> QED
  BY <1>1, <1>2, <1>3, <1>4 DEF SpectrumIInv, SpectrumTypeOK, Row

\* The waterfall draws.
LEMMA WaterfallIs ==
  ASSUME SpectrumIInv, WaterfallDraws
  PROVE  /\ waterfall' \in Seq(Row) /\ Len(waterfall') <= Height
         /\ drawn' \in Frame /\ drawn' <= tracked
         /\ Ordered(waterfall') /\ \A i \in DOMAIN waterfall' : waterfall'[i].frame <= tracked
         /\ drawn' # 0 => waterfall' # << >> /\ waterfall'[1].frame = drawn'
<1>0. /\ tracked \in Nat /\ drawn \in Nat /\ tracked \in Frame /\ drawn \in Frame
      /\ waterfall \in Seq(Row) /\ Len(waterfall) <= Height /\ Len(waterfall) \in Nat
      /\ DOMAIN waterfall = 1 .. Len(waterfall)
      /\ \A i \in DOMAIN waterfall : waterfall[i] \in Row /\ waterfall[i].frame \in Nat
  BY SpectrumFacts
<1>1. CASE ~Due
  BY <1>0, <1>1 DEF WaterfallDraws, SpectrumIInv
<1>2. CASE Due
  <2>0. PICK begins \in BOOLEAN : begins = (drawn = 0)
    OBVIOUS
  <2>1. PICK row \in Row : row = [frame |-> tracked, first |-> begins]
    BY <1>0 DEF Row
  <2>2. row.frame = tracked /\ (drawn = 0 => row.first)
    BY <2>0, <2>1
  <2>3. PICK old \in Seq(Row) : old = waterfall
    BY <1>0
  <2>4. LET all == <<row>> \o old
        IN  waterfall' = SubSeq(all, 1, IF Len(all) < Height THEN Len(all) ELSE Height)
    BY <1>2, <2>0, <2>1, <2>3 DEF WaterfallDraws, Scrolled
  <2>5. /\ waterfall' \in Seq(Row) /\ Len(waterfall') \in 1 .. Height
        /\ Len(waterfall') <= Len(old) + 1
        /\ waterfall'[1] = row /\ \A i \in 2 .. Len(waterfall') : waterfall'[i] = old[i - 1]
    BY <2>4, ScrolledIs
  <2>6. Len(waterfall') \in Nat /\ DOMAIN waterfall' = 1 .. Len(waterfall') /\ Height \in Nat
    BY <2>5, SpectrumAssumption, LenProperties
  <2>7. drawn' = tracked /\ tracked # drawn /\ drawn <= tracked /\ tracked # 0
    BY <1>2 DEF WaterfallDraws, Due, SpectrumIInv
  <2>8. \A i \in DOMAIN waterfall' : i = 1 \/ (i \in 2 .. Len(waterfall') /\ i - 1 \in DOMAIN waterfall)
    BY <1>0, <2>3, <2>5, <2>6
  <2>9. \A i \in DOMAIN waterfall' : waterfall'[i].frame <= tracked
    <3> TAKE i \in DOMAIN waterfall'
    <3>1. CASE i = 1
      BY <1>0, <2>2, <2>5, <3>1
    <3>2. CASE i # 1
      <4>1. i \in 2 .. Len(waterfall') /\ i - 1 \in DOMAIN waterfall
        BY <2>8, <3>2
      <4>2. waterfall'[i] = waterfall[i - 1]
        BY <2>3, <2>5, <4>1
      <4> QED
        BY <4>1, <4>2 DEF SpectrumIInv
    <3> QED
      BY <3>1, <3>2
  <2>10. Ordered(waterfall')
    <3> SUFFICES ASSUME NEW i \in DOMAIN waterfall', i > 1
                 PROVE  \/ waterfall'[i].frame < waterfall'[i - 1].frame
                        \/ /\ waterfall'[i].frame = waterfall'[i - 1].frame
                           /\ waterfall'[i - 1].first
      BY DEF Ordered
    <3>1. i \in 2 .. Len(waterfall') /\ i - 1 \in DOMAIN waterfall /\ waterfall'[i] = waterfall[i - 1]
      BY <2>3, <2>5, <2>6, <2>8
    <3>2. CASE i = 2
      <4>1. waterfall'[i] = waterfall[1] /\ waterfall'[i - 1] = row /\ 1 \in DOMAIN waterfall
        BY <2>5, <3>1, <3>2
      <4>2. waterfall[1].frame \in Nat /\ waterfall[1].frame <= tracked
        BY <1>0, <4>1 DEF SpectrumIInv
      <4>3. drawn # 0 => waterfall[1].frame = drawn
        BY DEF SpectrumIInv
      <4> QED
        BY <1>0, <2>2, <2>7, <4>1, <4>2, <4>3
    <3>3. CASE i # 2
      <4>1. /\ i - 1 \in 2 .. Len(waterfall') /\ i - 1 > 1
            /\ waterfall'[i - 1] = waterfall[(i - 1) - 1]
        <5>1. i \in Nat /\ i - 1 \in 2 .. Len(waterfall') /\ i - 1 > 1
          BY <2>6, <3>1, <3>3
        <5> QED
          BY <2>3, <2>5, <5>1
      <4> QED
        BY <3>1, <4>1 DEF SpectrumIInv, Ordered
    <3> QED
      BY <3>2, <3>3
  <2>11. waterfall' # << >>
    BY <2>5, <2>6
  <2> QED
    BY <1>0, <2>2, <2>5, <2>6, <2>7, <2>9, <2>10, <2>11
<1> QED
  BY <1>1, <1>2

LEMMA SpectrumInductive ==
  ASSUME SpectrumIInv, SpectrumStep PROVE SpectrumIInv'
<1>0. /\ newest \in Nat /\ taken \in Nat /\ pending \in Nat /\ display \in Nat
      /\ tracked \in Nat /\ drawn \in Nat
      /\ {newest, taken, pending, display, tracked, drawn} \subseteq Frame
      /\ waterfall \in Seq(Row) /\ Len(waterfall) <= Height /\ Len(waterfall) \in Nat
      /\ DOMAIN waterfall = 1 .. Len(waterfall)
      /\ \A i \in DOMAIN waterfall : waterfall[i] \in Row /\ waterfall[i].frame \in Nat
      /\ channels \in {0, 1} /\ paused \in BOOLEAN
      /\ plot \in [frame : Frame, markers : {0, 1}] /\ plot.frame = display
      /\ MaxFrame \in Nat /\ 0 \in Frame
  BY SpectrumFacts, SpectrumAssumption DEF Frame
<1>1. CASE UNCHANGED spectrumVars
  BY <1>1 DEF spectrumVars, SpectrumIInv, SpectrumTypeOK, Ordered
<1>2. CASE SpectrumOpens \/ SpectrumCloses
  BY <1>0, <1>2, SpectrumMounted DEF SpectrumOpens, SpectrumCloses
<1>3. CASE SpectrumArrives
  <2>1. newest' \in Frame /\ newest' > newest
    BY <1>0, <1>3 DEF SpectrumArrives, Frame
  <2>2. UNCHANGED <<channels, paused, taken, pending, display, tracked, drawn, waterfall, plot>>
    BY <1>3 DEF SpectrumArrives
  <2>3. pending <= newest'
    BY <1>0, <1>3 DEF SpectrumArrives, SpectrumIInv
  <2> QED
    BY <2>1, <2>2, <2>3 DEF SpectrumIInv, SpectrumTypeOK, Ordered
<1>4. CASE MarkersArrive
  <2>1. channels' \in {0, 1}
    BY <1>0, <1>4 DEF MarkersArrive
  <2>2. UNCHANGED <<newest, paused, taken, pending, display, tracked, drawn, waterfall, plot>>
    BY <1>4 DEF MarkersArrive
  <2> QED
    BY <2>1, <2>2 DEF SpectrumIInv, SpectrumTypeOK, Ordered
<1>5. CASE AnimationFrame
  <2>1. UNCHANGED <<newest, channels, paused, display, tracked, plot>>
    BY <1>5 DEF AnimationFrame
  <2>2. /\ waterfall' \in Seq(Row) /\ Len(waterfall') <= Height
        /\ drawn' \in Frame /\ drawn' <= tracked
        /\ Ordered(waterfall') /\ \A i \in DOMAIN waterfall' : waterfall'[i].frame <= tracked
        /\ drawn' # 0 => waterfall' # << >> /\ waterfall'[1].frame = drawn'
    BY <1>5, WaterfallIs DEF AnimationFrame
  <2>3. taken' \in Frame /\ pending' \in Frame /\ display <= pending' /\ pending' <= newest
    BY <1>0, <1>5 DEF AnimationFrame, TickTakes, SpectrumIInv
  <2>4. SpectrumTypeOK'
    BY <1>0, <2>1, <2>2, <2>3 DEF SpectrumTypeOK
  <2> QED
    BY <1>0, <2>1, <2>2, <2>3, <2>4 DEF SpectrumIInv, Ordered
<1>6. CASE Shown
  <2>1. /\ display' = pending /\ tracked' = IF paused THEN tracked ELSE pending
        /\ plot' = [frame |-> pending, markers |-> channels]
        /\ UNCHANGED <<newest, channels, paused, taken, pending, drawn, waterfall>>
    BY <1>6 DEF Shown
  <2>2. tracked <= tracked' /\ tracked' <= pending /\ tracked' \in Frame /\ tracked' \in Nat
    BY <1>0, <2>1 DEF SpectrumIInv
  <2>3. plot' \in [frame : Frame, markers : {0, 1}] /\ plot'.frame = pending
    BY <1>0, <2>1
  <2>4. drawn <= tracked' /\ \A i \in DOMAIN waterfall : waterfall[i].frame <= tracked'
    BY <1>0, <2>2 DEF SpectrumIInv
  <2>5. SpectrumTypeOK'
    BY <1>0, <2>1, <2>2, <2>3 DEF SpectrumTypeOK
  <2> QED
    BY <1>0, <2>1, <2>2, <2>3, <2>4, <2>5 DEF SpectrumIInv, Ordered
<1>7. CASE PauseButton
  <2>1. /\ paused' = ~paused /\ taken' = 0 /\ drawn' = 0
        /\ tracked' = IF paused THEN display ELSE tracked
        /\ UNCHANGED <<newest, channels, pending, display, waterfall, plot>>
    BY <1>7 DEF PauseButton
  <2>2. tracked <= tracked' /\ tracked' <= display /\ tracked' \in Frame /\ tracked' \in Nat
    BY <1>0, <2>1 DEF SpectrumIInv
  <2>3. 0 <= tracked' /\ \A i \in DOMAIN waterfall : waterfall[i].frame <= tracked'
    BY <1>0, <2>2 DEF SpectrumIInv
  <2>4. SpectrumTypeOK'
    BY <1>0, <2>1, <2>2 DEF SpectrumTypeOK
  <2> QED
    BY <1>0, <2>1, <2>2, <2>3, <2>4 DEF SpectrumIInv, Ordered
<1>8. CASE ReferenceBox
  <2>1. UNCHANGED <<newest, channels, paused, taken, pending, display, tracked, drawn, waterfall>>
    BY <1>8 DEF ReferenceBox
  <2>2. plot' \in [frame : Frame, markers : {0, 1}] /\ plot'.frame = plot.frame
    BY <1>0, <1>8 DEF ReferenceBox
  <2> QED
    BY <2>1, <2>2 DEF SpectrumIInv, SpectrumTypeOK, Ordered
<1> QED
  BY <1>1, <1>2, <1>3, <1>4, <1>5, <1>6, <1>7, <1>8 DEF SpectrumStep, SpectrumNext

LEMMA SpectrumInvariant == BrowserSpec => []SpectrumIInv
<1>1. BrowserInit => SpectrumIInv
  BY SpectrumInitially DEF BrowserInit
<1>2. SpectrumIInv /\ [BrowserNext]_browserVars => SpectrumIInv'
  BY PageSteps, SpectrumInductive
<1> QED
  BY <1>1, <1>2, PTL DEF BrowserSpec

\* The waterfall is a history of what was plotted (Waterfall.tsx), however the
\* loops, React and the Pause button interleave, for any number of frames and
\* rows.
THEOREM WaterfallIsHistory == BrowserSpec => []RowsInOrder
<1>1. SpectrumIInv => RowsInOrder
  <2> SUFFICES ASSUME SpectrumIInv PROVE RowsInOrder
    OBVIOUS
  <2>1. /\ tracked \in Nat /\ display \in Nat
        /\ \A i \in DOMAIN waterfall : waterfall[i].frame \in Nat
    BY SpectrumFacts
  <2> QED
    BY <2>1 DEF SpectrumIInv, RowsInOrder, Ordered
<1> QED
  BY <1>1, SpectrumInvariant, PTL
-----------------------------------------------------------------------------
(* The types of all pages.                                                  *)

TypesInv ==
    /\ page \in Page \cup {"none"}
    /\ ChannelsTypeOK /\ RecordingsTInv

LEMMA TypesInvariant == BrowserSpec => []TypesInv
<1>1. BrowserInit => TypesInv
  BY ChannelsInitially, RecordingsAtFirst DEF BrowserInit, TypesInv
<1>2. TypesInv /\ [BrowserNext]_browserVars => TypesInv'
  BY PageSteps, PageTyped, ChannelsTyped, RecordingsTyped DEF TypesInv
<1> QED
  BY <1>1, <1>2, PTL DEF BrowserSpec

\* Whatever page is opened, closed and used, and whatever arrives meanwhile,
\* every variable of the browser keeps its type, for all values of the constants.
THEOREM BrowserTyped == BrowserSpec => []BrowserTypeOK
<1>1. TypesInv /\ ScopeIInv /\ SettingsIInv /\ AlertsIInv /\ DataIInv /\ SpectrumIInv
        /\ EnteredIInv => BrowserTypeOK
  BY RecordingsTypes
     DEF TypesInv, ScopeIInv, SettingsIInv, AlertsIInv, DataIInv, SpectrumIInv, EnteredIInv,
         BrowserTypeOK
<1> QED
  BY <1>1, TypesInvariant, ScopeInvariant, SettingsInvariant, AlertsInvariant, DataInvariant,
     SpectrumInvariant, EnteredInvariant, PTL
=============================================================================
