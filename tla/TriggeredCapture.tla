-------------------------- MODULE TriggeredCapture --------------------------
(***************************************************************************)
(* TriggeredCaptureBuffer (backend/app/services/triggered_capture.py): the *)
(* rolling IQ history and the capture that a qualified burst opens and     *)
(* later bursts extend.  A sample is known by where it was received, not   *)
(* by its value; chunks are concatenated as they come.                     *)
(*                                                                         *)
(* An operator named Bug... is a wrong variant of the operator after it,   *)
(* which no specification uses.                                            *)
(***************************************************************************)
EXTENDS Integers, Sequences

CONSTANTS Pre,        \* pre_trigger_samples
          Post,       \* post_trigger_samples
          MaxCapture  \* max_capture_samples

ASSUME BufferAssumption ==
    Pre \in Nat \ {0} /\ Post \in Nat \ {0} /\ MaxCapture \in Nat \ {0}

\* A sample: the stream or read it came from, its position there, and the
\* centre frequency it was received at.
Sample == [stream : Nat, at : Nat, center : Nat]

VARIABLES
    history,       \* _history, joined
    sampleCursor,  \* _sample_cursor
    pending,       \* _pending: none or one capture
    saved          \* the capture pop_ready returned last: none or one

bufferVars == <<history, sampleCursor, pending, saved>>

\* A pending capture; `last' is the cursor at its latest trigger.
Pending == [start : Nat, deadline : Nat, last : Nat, chunks : Seq(Sample)]
Saved   == [start : Nat, last : Nat, samples : Seq(Sample)]

Least(a, b) == IF a <= b THEN a ELSE b

\* The last n elements of s, or all of them.
LastN(s, n) == IF Len(s) > n THEN SubSeq(s, Len(s) - n + 1, Len(s)) ELSE s

MaxEnd(p) == p.start + MaxCapture

\* What append and a further trigger do to a pending capture, and the
\* capture that a first trigger opens.
Fed(p, s) == [start |-> p.start, deadline |-> p.deadline, last |-> p.last,
              chunks |-> p.chunks \o s]
Extended(p) == [start |-> p.start, deadline |-> Least(MaxEnd(p), sampleCursor + Post),
                last |-> sampleCursor, chunks |-> p.chunks]
Opened == [start |-> sampleCursor - Len(history), deadline |-> sampleCursor + Post,
           last |-> sampleCursor, chunks |-> history]

\* What pop_ready returns of a pending capture.
Clipped(p) == [start |-> p.start, last |-> p.last,
               samples |-> SubSeq(p.chunks, 1, Least(Len(p.chunks), MaxCapture))]

BufferInit ==
    /\ history = <<>>
    /\ sampleCursor = 0
    /\ pending = {}
    /\ saved = {}

\* Bug: the capture is not fed while the history is.
BugAppendIq(s) ==
    /\ history' = LastN(history \o s, Pre)
    /\ sampleCursor' = sampleCursor + Len(s)
    /\ UNCHANGED <<pending, saved>>

\* append, with _trim_history
AppendIq(s) ==
    /\ history' = LastN(history \o s, Pre)
    /\ sampleCursor' = sampleCursor + Len(s)
    /\ pending' = {Fed(p, s) : p \in pending}
    /\ UNCHANGED saved

\* Bug: a later trigger does not extend the capture.
BugTrigger ==
    /\ pending' = IF pending = {} THEN {Opened}
                  ELSE {[p EXCEPT !.last = sampleCursor] : p \in pending}
    /\ UNCHANGED <<history, sampleCursor, saved>>

\* trigger: open a capture that begins with the history, or extend the
\* pending one.  Only an extension is limited to the maximum length.
Trigger ==
    /\ pending' = IF pending = {} THEN {Opened} ELSE {Extended(p) : p \in pending}
    /\ UNCHANGED <<history, sampleCursor, saved>>

\* pop_ready when the deadline has passed; before it, nothing changes.
PopReady ==
    /\ \E p \in pending : sampleCursor >= p.deadline /\ saved' = {Clipped(p)}
    /\ pending' = {}
    /\ UNCHANGED <<history, sampleCursor>>

NotReady == \A p \in pending : sampleCursor < p.deadline

Discontinuity ==
    /\ pending' = {}
    /\ history' = <<>>
    /\ UNCHANGED <<sampleCursor, saved>>

\* A new scan session makes a new buffer.
NewBuffer ==
    /\ history' = <<>>
    /\ sampleCursor' = 0
    /\ pending' = {}
    /\ saved' = {}

BufferNext ==
    \/ \E s \in Seq(Sample) : AppendIq(s)
    \/ Trigger
    \/ PopReady
    \/ Discontinuity
    \/ NewBuffer

BufferSpec == BufferInit /\ [][BufferNext]_bufferVars

-----------------------------------------------------------------------------
(* Properties *)

BufferTypeOK ==
    /\ history \in Seq(Sample)
    /\ sampleCursor \in Nat
    /\ \A p \in pending : p \in Pending
    /\ \A c \in saved : c \in Saved

\* The bookkeeping agrees with the data: the history is no longer than the
\* pre-trigger time or than what was ever appended, a pending capture holds
\* every sample from its start to the cursor, and it falls due the
\* post-trigger time after its last burst or when it reaches the maximum.
PendingInStep ==
    /\ Len(history) <= Pre /\ Len(history) <= sampleCursor
    /\ \A p, q \in pending : p = q
    /\ \A p \in pending :
         /\ Len(p.chunks) = sampleCursor - p.start
         /\ p.last <= sampleCursor
         /\ p.deadline <= p.last + Post
         /\ p.deadline >= Least(MaxEnd(p), p.last + Post)

\* A saved capture is never longer than the maximum, and it holds the whole
\* post-trigger time after its last burst unless the maximum cuts it off:
\* coalescing bursts neither truncates a capture early nor lets it grow on.
CaptureWindow ==
    \A c \in saved :
      /\ Len(c.samples) <= MaxCapture
      /\ Len(c.samples) >= Least(MaxCapture, c.last + Post - c.start)
=============================================================================
