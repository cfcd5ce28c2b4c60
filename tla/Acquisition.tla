---------------------------- MODULE Acquisition ----------------------------
(***************************************************************************)
(* The acquisition side of ScanManager._run: how the scan loop turns the   *)
(* blocks of a continuous stream, or single reads while an operator has    *)
(* focused the receiver, into IQ history and captures.  Modelled for the   *)
(* parked profile on an RTL-SDR (one window covers the band), the only one *)
(* that streams, with the recorder enabled.                                *)
(*                                                                         *)
(* The stream is IqChannel, which IqStream implements; the buffer is       *)
(* TriggeredCapture.  The loop awaits between the steps below, so focus(), *)
(* unfocus(), update_config and a stop can run before each of them.        *)
(*                                                                         *)
(* An operator named Bug... is a wrong variant of the operator after it,   *)
(* which no specification uses.                                            *)
(***************************************************************************)
EXTENDS TriggeredCapture

CONSTANTS Park,          \* the centre frequency of the sweep plan's one window
          FocusCenters,  \* centres an operator focuses on
          Observable,    \* centres whose window covers the whole Wavenis grid
          BlockSizes,    \* samples in a block or a read
          MaxSample,     \* bound: samples one stream produces
          MaxSource      \* bound: streams opened and reads made

Centers == {Park} \cup FocusCenters

ASSUME AcquisitionAssumption ==
    /\ Park \in Nat /\ FocusCenters \subseteq Nat \ {0}
    /\ Park \in Observable /\ Observable \subseteq Centers
    /\ BlockSizes \subseteq Nat \ {0}
    /\ MaxSample \in Nat /\ MaxSource \in Nat

VARIABLES
    mode,         \* _mode
    focusCenter,  \* _focus_center, 0 when None
    loop,         \* where _run is
    center,       \* its local variable center
    iq,           \* its local variable iq
    stream,       \* the number of the open _iq_stream, 0 when None
    fed,          \* whether its start() made a worker that fills its queue
    sources,      \* streams opened and reads made so far, to number them
    cursor, transit, synced, expected, gap,   \* IqChannel
    \* What happened since the scan started, for the properties only:
    disturbed,    \* a focus, an unfocus, or any error
    unanalysed    \* samples received in frames whose analysis raised

Channel == INSTANCE IqChannel

operator == <<mode, focusCenter>>
channel  == <<cursor, transit, synced, expected, gap>>
run      == <<loop, center, iq>>
source   == <<stream, fed>>
ghosts   == <<disturbed, unanalysed>>
vars     == <<operator, run, source, sources, channel, ghosts, bufferVars>>

Init ==
    /\ mode = "sweep" /\ focusCenter = 0
    /\ loop = "top" /\ center = Park /\ iq = <<>>
    /\ stream = 0 /\ fed = FALSE /\ sources = 0
    /\ Channel!Init
    /\ disturbed = FALSE /\ unanalysed = {}
    /\ BufferInit

\* _current_center and _should_stream_continuously for one window.
CurrentCenter == IF mode = "focus" /\ focusCenter # 0 THEN focusCenter ELSE Park
Streams       == mode = "sweep"

NoStream == stream' = 0 /\ fed' = FALSE

\* A stream that is closed takes what is in transit with it, and the next
\* one numbers its samples from 0; nothing is expected of its first block.
ResetChannel ==
    /\ cursor' = 0 /\ transit' = {}
    /\ synced' = FALSE /\ expected' = 0 /\ gap' = 0

\* n samples of source s from position `at', received at centre c.
Received(s, at, n, c) == [i \in 1 .. n |-> [stream |-> s, at |-> at + i - 1, center |-> c]]

-----------------------------------------------------------------------------
(* focus() and unfocus(), at any await of the loop. *)

Focus ==
    /\ mode' = "focus"
    /\ focusCenter' \in FocusCenters
    /\ disturbed' = TRUE
    /\ UNCHANGED <<unanalysed, run, source, sources, channel, bufferVars>>

Unfocus ==
    /\ mode = "focus"
    /\ mode' = "sweep" /\ focusCenter' = 0
    /\ disturbed' = TRUE
    /\ UNCHANGED <<unanalysed, run, source, sources, channel, bufferVars>>

-----------------------------------------------------------------------------
(* The top of the loop: choose centre and source, open or close the stream. *)

\* start() tunes the receiver and runs the worker.
OpenStream ==
    /\ loop = "top" /\ Streams /\ stream = 0
    /\ sources < MaxSource
    /\ center' = CurrentCenter
    /\ sources' = sources + 1
    /\ stream' = sources + 1 /\ fed' = TRUE
    /\ loop' = "get"
    /\ UNCHANGED <<operator, iq, channel, ghosts, bufferVars>>

\* start() raises, after _iq_stream was set: scan.dsp_error, and the loop goes
\* on to wait for the blocks of a stream that no worker fills.
OpenFails ==
    /\ loop = "top" /\ Streams /\ stream = 0
    /\ sources < MaxSource
    /\ center' = CurrentCenter
    /\ sources' = sources + 1
    /\ stream' = sources + 1 /\ fed' = FALSE
    /\ disturbed' = TRUE
    /\ UNCHANGED <<unanalysed, operator, loop, iq, channel, bufferVars>>

AwaitBlock ==
    /\ loop = "top" /\ Streams /\ stream # 0
    /\ center' = CurrentCenter
    /\ loop' = "get"
    /\ UNCHANGED <<operator, iq, source, sources, channel, ghosts, bufferVars>>

AwaitRead ==
    /\ loop = "top" /\ ~Streams
    /\ sources < MaxSource
    /\ center' = CurrentCenter
    /\ NoStream
    /\ IF stream # 0 THEN ResetChannel ELSE UNCHANGED channel
    /\ loop' = "poll"
    /\ UNCHANGED <<operator, iq, sources, ghosts, bufferVars>>

-----------------------------------------------------------------------------
(* What get() returns, and the continuity check. *)

\* The device and the queue, between get() calls or during one.
ChannelStep ==
    /\ stream # 0 /\ fed
    /\ Channel!Acquire \/ Channel!Lose
    /\ UNCHANGED <<operator, run, source, sources, ghosts, bufferVars>>

\* Bug: a gap is reported but the buffer is not told.
BugBlock ==
    /\ loop = "get"
    /\ Channel!Deliver
    /\ \E n \in BlockSizes :
         /\ [start |-> expected' - n, size |-> n] \in transit \ transit'
         /\ iq' = Received(stream, expected' - n, n, center)
    /\ loop' = "frame"
    /\ UNCHANGED <<operator, center, source, sources, ghosts, bufferVars>>

\* A block arrives; unless it follows the one before, history and pending
\* capture are dropped before it is analysed.
BlockArrives ==
    /\ loop = "get"
    /\ Channel!Deliver
    /\ \E n \in BlockSizes :
         /\ [start |-> expected' - n, size |-> n] \in transit \ transit'
         /\ iq' = Received(stream, expected' - n, n, center)
    /\ IF gap' # 0 THEN Discontinuity ELSE UNCHANGED bufferVars
    /\ loop' = "frame"
    /\ UNCHANGED <<operator, center, source, sources, ghosts>>

\* None without a stop: the stream is closed, the loop retries from the top.
StreamFails ==
    /\ loop = "get" /\ fed
    /\ NoStream
    /\ ResetChannel
    /\ loop' = "top"
    /\ disturbed' = TRUE
    /\ UNCHANGED <<unanalysed, operator, center, iq, sources, bufferVars>>

ReadReturns ==
    /\ loop = "poll"
    /\ \E n \in BlockSizes : iq' = Received(sources + 1, 0, n, center)
    /\ sources' = sources + 1
    /\ loop' = "frame"
    /\ UNCHANGED <<operator, center, source, channel, ghosts, bufferVars>>

\* read_iq or the analysis raises: scan.dsp_error, and the frame is skipped.
\* The expected position stays after the block that is not analysed.
FrameFails ==
    /\ loop \in {"poll", "frame"}
    /\ loop' = "top"
    /\ disturbed' = TRUE
    /\ unanalysed' = IF loop = "frame" THEN unanalysed \cup {iq[i] : i \in DOMAIN iq}
                     ELSE unanalysed
    /\ UNCHANGED <<operator, center, iq, source, sources, channel, bufferVars>>

-----------------------------------------------------------------------------
(* The analysed frame. *)

\* Bug: every frame is appended, whatever window it was received in.
BugAppendFrame ==
    /\ loop = "frame"
    /\ AppendIq(iq)
    /\ iq' = <<>>
    /\ loop' = "bursts"
    /\ UNCHANGED <<operator, center, source, sources, channel, ghosts>>

AppendFrame ==
    /\ loop = "frame"
    /\ IF center \in Observable THEN AppendIq(iq) ELSE UNCHANGED bufferVars
    /\ iq' = <<>>
    /\ loop' = "bursts"
    /\ UNCHANGED <<operator, center, source, sources, channel, ghosts>>

\* Candidate bursts are found in windows that cover the grid.  Each one also
\* triggers the buffer; several in a frame trigger it at the same cursor.
Burst ==
    /\ loop = "bursts" /\ center \in Observable
    /\ Trigger
    /\ loop' = "pop"
    /\ UNCHANGED <<operator, center, iq, source, sources, channel, ghosts>>

NoBurst ==
    /\ loop = "bursts"
    /\ loop' = "pop"
    /\ UNCHANGED <<operator, center, iq, source, sources, channel, ghosts, bufferVars>>

SaveCapture ==
    /\ loop = "pop"
    /\ PopReady
    /\ loop' = "top"
    /\ UNCHANGED <<operator, center, iq, source, sources, channel, ghosts>>

NothingToSave ==
    /\ loop = "pop"
    /\ NotReady
    /\ loop' = "top"
    /\ UNCHANGED <<operator, center, iq, source, sources, channel, ghosts, bufferVars>>

\* Bug: the new session goes on with the buffer of the one before.
BugRestart ==
    /\ mode' = "sweep"
    /\ loop' = "top" /\ iq' = <<>>
    /\ NoStream
    /\ ResetChannel
    /\ disturbed' = FALSE /\ unanalysed' = {}
    /\ UNCHANGED <<focusCenter, center, sources, bufferVars>>

\* A stop ends the loop, at its top or by cancelling it at any await, and
\* closes the stream; start_scan makes a new buffer, expects nothing of the
\* new stream and sweeps.
Restart ==
    /\ mode' = "sweep"
    /\ loop' = "top" /\ iq' = <<>>
    /\ NoStream
    /\ ResetChannel
    /\ NewBuffer
    /\ disturbed' = FALSE /\ unanalysed' = {}
    /\ UNCHANGED <<focusCenter, center, sources>>

\* update_config, when nothing of the acquisition changes: the loop and the
\* stream go on, and so does the expected position, with a new buffer.
ReplaceBuffer ==
    /\ NewBuffer
    /\ UNCHANGED <<operator, run, source, sources, channel, ghosts>>

-----------------------------------------------------------------------------
Loop == \/ OpenStream \/ OpenFails \/ AwaitBlock \/ AwaitRead
        \/ BlockArrives \/ StreamFails \/ ReadReturns \/ FrameFails
        \/ AppendFrame \/ Burst \/ NoBurst \/ SaveCapture \/ NothingToSave

Next == Focus \/ Unfocus \/ ChannelStep \/ Loop \/ Restart \/ ReplaceBuffer

Spec == Init /\ [][Next]_vars

-----------------------------------------------------------------------------
(* Properties *)

\* The samples the program treats as one piece of signal.
Pieces == {history} \cup {p.chunks : p \in pending} \cup {c.samples : c \in saved}

Adjacent(x, y) == x.stream = y.stream /\ y.at = x.at + 1

\* y comes later than x, and if both are of one stream, whatever was acquired
\* between them was received and its analysis raised: nothing was lost there.
Follows(x, y) ==
    \/ x.stream < y.stream
    \/ /\ x.stream = y.stream /\ x.at < y.at
       /\ \A k \in x.at + 1 .. y.at - 1 :
            \E z \in unanalysed : z.stream = x.stream /\ z.at = k

\* "dropped blocks ... produce an explicit sample discontinuity instead of
\* silently splicing IQ" (docs/architecture.md:92), at every moment: a loss in
\* the queue is never joined over, and no piece of signal goes back in time.
\* What a piece may join is the rest of it: a block skipped after an error of
\* the analysis, and different sources, after a failed stream or a focus.
LossNeverJoined ==
    \A s \in Pieces : \A i \in 1 .. Len(s) - 1 : Follows(s[i], s[i + 1])

\* Until the operator focuses, a stream fails to open or ends, or an analysis
\* raises, the history and the pending capture are each one stretch of one
\* stream at one centre frequency, whatever the queue loses and updates replace.
ParkedIsContiguous ==
    ~disturbed => \A s \in {history} \cup {p.chunks : p \in pending} :
        \A i \in 1 .. Len(s) - 1 : Adjacent(s[i], s[i + 1]) /\ s[i].center = s[i + 1].center

\* "keeps 2 seconds of contiguous IQ history" (README.md:190), "recent
\* contiguous IQ" (triggered_capture.py:120), whatever happens.  It does not
\* hold: a stream that ends by itself resets the expected position, and the
\* history goes on with the first block of the next stream.
HistoryIsContiguous ==
    \A i \in 1 .. Len(history) - 1 : Adjacent(history[i], history[i + 1])

\* Whatever the operator does, IQ of a window that does not cover the grid
\* never gets into the history of grid evidence or into a capture.
OnlyObservable == \A s \in Pieces : \A i \in 1 .. Len(s) : s[i].center \in Observable
=============================================================================
