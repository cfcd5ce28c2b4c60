----------------------------- MODULE SendBuffer -----------------------------
(***************************************************************************)
(* The send buffer of one client in the WebSocket hub: ClientConnection in *)
(* backend/app/websocket/manager.py.  Frames are display only, and a newer *)
(* one takes the place of an older one; the other messages are reliable    *)
(* until the buffer is full.                                               *)
(*                                                                         *)
(* A message is its type and the number of changes the server had made     *)
(* when it was sent.                                                       *)
(*                                                                         *)
(* An operator named Bug... is a wrong variant of the operator after it,   *)
(* which no specification uses.                                            *)
(***************************************************************************)
EXTENDS Integers, Sequences

CONSTANTS FrameType,     \* _STALE_DROPPABLE
          ReliableType,
          MaxBuffer      \* max_buffer

ASSUME BufferAssumption ==
    /\ FrameType \cap ReliableType = {}
    /\ MaxBuffer \in Nat \ {0}

VARIABLES
    buf,      \* _buf
    changes   \* changes the server has made and announced

Message == [type : FrameType \cup ReliableType, n : Nat]
Full(b) == Len(b) >= MaxBuffer

\* del self._buf[i]
Without(b, i) == [j \in 1 .. Len(b) - 1 |-> IF j < i THEN b[j] ELSE b[j + 1]]

IsFirst(b, i, T) == i \in 1 .. Len(b) /\ b[i].type \in T
                    /\ \A j \in 1 .. i - 1 : b[j].type \notin T
Holds(b, T) == \E i \in 1 .. Len(b) : b[i].type \in T
First(b, T) == CHOOSE i \in 1 .. Len(b) : IsFirst(b, i, T)

\* A frame takes the place of the one of its type, and is dropped when there
\* is none and the buffer is full.
BugFrame(b, m) == IF Full(b) THEN b ELSE Append(b, m)

EnqueueFrame(b, m) ==
    IF Holds(b, {m.type}) THEN Append(Without(b, First(b, {m.type})), m)
    ELSE IF Full(b) THEN b ELSE Append(b, m)

\* A reliable message evicts the oldest frame of a full buffer, or else the
\* oldest message.
EnqueueReliable(b, m) ==
    IF ~Full(b) THEN Append(b, m)
    ELSE Append(Without(b, IF Holds(b, FrameType) THEN First(b, FrameType) ELSE 1), m)

\* enqueue()
Enqueue(b, m) == IF m.type \in FrameType THEN EnqueueFrame(b, m) ELSE EnqueueReliable(b, m)

Now(t) == [type |-> t, n |-> changes]

BufferInit == buf = << >> /\ changes = 0

-----------------------------------------------------------------------------
\* "keeps only the latest spectrum frame (dropping stale ones)"
\* (manager.py:4): whatever is evicted from the middle, the buffer is never
\* over its bound, holds one frame of a type, and keeps the order in which
\* the messages were sent, so that a client never goes back to an older one.
BufferInOrder ==
    /\ Len(buf) <= MaxBuffer
    /\ \A i, j \in 1 .. Len(buf) : i < j =>
           /\ buf[i].n <= buf[j].n
           /\ buf[i].type = buf[j].type => buf[i].type \notin FrameType
=============================================================================
