----------------------------- MODULE IqChannel -----------------------------
(***************************************************************************)
(* What continuous acquisition promises its consumer, whatever the queue   *)
(* and the threads behind it do: every block carries its position in the   *)
(* device's sample stream, blocks arrive in that order and never twice,    *)
(* and samples that were lost are announced as a gap of the right size     *)
(* together with the first block after them (the docstring of              *)
(* backend/app/services/iq_stream.py: "downstream DSP can detect queue     *)
(* loss instead of silently joining unrelated sample ranges").             *)
(*                                                                         *)
(* IqStream implements this specification; Acquisition is built on it.     *)
(***************************************************************************)
EXTENDS Integers

CONSTANTS BlockSizes,  \* samples in a block
          MaxSample    \* bound: samples the device produces

Block == [start : Nat, size : Nat \ {0}]

\* The position just after block b.
End(b) == b.start + b.size

VARIABLES
    cursor,    \* samples acquired so far: the position of the next block
    transit,   \* blocks acquired, not yet delivered and not lost
    synced,    \* a block has been delivered, so the consumer can see a gap
    expected,  \* the position the consumer expects the next block at
    gap        \* samples reported missing just before the last block

cvars == <<cursor, transit, synced, expected, gap>>

Init ==
    /\ cursor = 0
    /\ transit = {}
    /\ synced = FALSE
    /\ expected = 0
    /\ gap = 0

Acquire ==
    /\ \E n \in BlockSizes :
         /\ cursor + n <= MaxSample
         /\ transit' = transit \cup {[start |-> cursor, size |-> n]}
         /\ cursor' = cursor + n
    /\ UNCHANGED <<synced, expected, gap>>

Lose ==
    /\ \E b \in transit : transit' = transit \ {b}
    /\ UNCHANGED <<cursor, synced, expected, gap>>

Deliver ==
    /\ \E b \in transit :
         /\ \A c \in transit : b.start <= c.start
         /\ expected <= b.start
         /\ transit' = transit \ {b}
         /\ expected' = End(b)
         /\ gap' = IF synced THEN b.start - expected ELSE 0
    /\ synced' = TRUE
    /\ UNCHANGED cursor

Next == Acquire \/ Lose \/ Deliver

Spec == Init /\ [][Next]_cvars
=============================================================================
