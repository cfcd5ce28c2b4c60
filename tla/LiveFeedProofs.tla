--------------------------- MODULE LiveFeedProofs ---------------------------
(***************************************************************************)
(* What LiveFeed keeps for every set of message types and of commands, and *)
(* every bound of the buffer, of the backoff and of the server's changes.  *)
(***************************************************************************)
EXTENDS LiveFeed, TLAPS, WellFoundedInduction

USE BufferAssumption

\* A run of messages: not longer than k, in the order they were sent, none of
\* them later than the change c, and one frame of a type.
Orderly(b, k, c) ==
    /\ b \in Seq(Message) /\ Len(b) <= k
    /\ \A i \in 1 .. Len(b) : b[i].n <= c
    /\ \A i, j \in 1 .. Len(b) : i < j =>
           /\ b[i].n <= b[j].n
           /\ b[i].type = b[j].type => b[i].type \notin FrameType

FeedIInv == FeedTypeOK /\ Orderly(buf, MaxBuffer, changes)

-----------------------------------------------------------------------------
(* Removing a message, from anywhere.                                       *)

LEMMA WithoutIs ==
  ASSUME NEW b \in Seq(Message), NEW i \in 1 .. Len(b)
  PROVE  /\ Without(b, i) \in Seq(Message)
         /\ Len(Without(b, i)) = Len(b) - 1
         /\ \A j \in 1 .. Len(b) - 1 : Without(b, i)[j] = IF j < i THEN b[j] ELSE b[j + 1]
<1> DEFINE w == Without(b, i)
           n == Len(b) - 1
<1>1. n \in Nat
  OBVIOUS
<1>2. \A j \in 1 .. n : (IF j < i THEN b[j] ELSE b[j + 1]) \in Message
  OBVIOUS
<1>3. w \in [1 .. n -> Message]
  BY <1>2 DEF Without
<1> QED
  BY <1>1, <1>3 DEF Without

LEMMA WithoutOrderly ==
  ASSUME NEW b, NEW k \in Nat, NEW c \in Nat, Orderly(b, k, c), NEW i \in 1 .. Len(b)
  PROVE  /\ Orderly(Without(b, i), k - 1, c)
         /\ \A T \in SUBSET FrameType :
                (\A j \in 1 .. Len(b) : b[j].type \in T => j = i)
                    => \A j \in 1 .. Len(b) - 1 : Without(b, i)[j].type \notin T
<1> DEFINE w == Without(b, i)
           From(j) == IF j < i THEN j ELSE j + 1
<1>1. /\ b \in Seq(Message) /\ w \in Seq(Message) /\ Len(w) = Len(b) - 1
      /\ Len(b) \in Nat /\ Len(b) <= k
  BY WithoutIs DEF Orderly
<1>2. \A j \in 1 .. Len(w) : From(j) \in 1 .. Len(b) /\ From(j) # i /\ w[j] = b[From(j)]
  BY <1>1, WithoutIs
<1>3. \A j, l \in 1 .. Len(w) : j < l => From(j) < From(l)
  BY <1>1
<1>4. \A j \in 1 .. Len(w) : w[j].n <= c
  BY <1>2 DEF Orderly
<1>5. \A j, l \in 1 .. Len(w) : j < l =>
          /\ w[j].n <= w[l].n
          /\ w[j].type = w[l].type => w[j].type \notin FrameType
  BY <1>2, <1>3 DEF Orderly
<1>6. Orderly(w, k - 1, c)
  BY <1>1, <1>4, <1>5 DEF Orderly
<1>7. ASSUME NEW T \in SUBSET FrameType, \A j \in 1 .. Len(b) : b[j].type \in T => j = i
      PROVE  \A j \in 1 .. Len(b) - 1 : w[j].type \notin T
  BY <1>1, <1>2, <1>7
<1> HIDE DEF w
<1> QED
  BY <1>6, <1>7 DEF w

\* Adding the newest message, which is not a frame of a type that is there.
LEMMA AppendOrderly ==
  ASSUME NEW b, NEW k \in Nat, NEW c \in Nat, Orderly(b, k - 1, c), NEW m \in Message, m.n = c,
         m.type \in FrameType => \A i \in 1 .. Len(b) : b[i].type # m.type
  PROVE  Orderly(Append(b, m), k, c)
<1> DEFINE a == Append(b, m)
<1>1. b \in Seq(Message) /\ Len(b) \in Nat /\ Len(b) <= k - 1
  BY DEF Orderly
<1>2. a \in Seq(Message) /\ Len(a) = Len(b) + 1
  BY <1>1
<1>3. \A i \in 1 .. Len(a) : a[i] = IF i = Len(a) THEN m ELSE b[i]
  BY <1>1, <1>2
<1>4. \A i \in 1 .. Len(a) : i # Len(a) => i \in 1 .. Len(b)
  BY <1>1, <1>2
<1>5. \A i \in 1 .. Len(a) : a[i].n <= c
  BY <1>3, <1>4 DEF Orderly
<1>6. \A i, j \in 1 .. Len(a) : i < j =>
          /\ a[i].n <= a[j].n
          /\ a[i].type = a[j].type => a[i].type \notin FrameType
  <2> SUFFICES ASSUME NEW i \in 1 .. Len(a), NEW j \in 1 .. Len(a), i < j
               PROVE  /\ a[i].n <= a[j].n
                      /\ a[i].type = a[j].type => a[i].type \notin FrameType
    OBVIOUS
  <2>1. i # Len(a) /\ i \in 1 .. Len(b) /\ a[i] = b[i]
    BY <1>1, <1>2, <1>3, <1>4
  <2>2. CASE j = Len(a)
    BY <2>1, <2>2, <1>3 DEF Orderly
  <2>3. CASE j # Len(a)
    BY <2>1, <2>3, <1>3, <1>4 DEF Orderly
  <2> QED
    BY <2>2, <2>3
<1> QED
  BY <1>1, <1>2, <1>5, <1>6 DEF Orderly

-----------------------------------------------------------------------------
(* enqueue().                                                               *)

\* Among some positions there is a first one.
LEMMA FirstExists ==
  ASSUME NEW S \in SUBSET Nat, S # {}
  PROVE  \E i \in S : \A j \in S : ~(j < i)
<1> DEFINE R == OpToRel(<, Nat)
<1>1. IsWellFoundedOn(R, Nat)
  BY NatLessThanWellFounded
<1>2. \E i \in S : \A j \in S : ~(<<j, i>> \in R)
  <2> HIDE DEF R
  <2> QED
    BY <1>1, WFMin
<1>3. \A i, j \in Nat : <<j, i>> \in R <=> j < i
  BY DEF OpToRel
<1> HIDE DEF R
<1> QED
  BY <1>2, <1>3

\* The first message of some types is where the code finds it.
LEMMA FirstIs ==
  ASSUME NEW b \in Seq(Message), NEW T, Holds(b, T)
  PROVE  First(b, T) \in 1 .. Len(b) /\ IsFirst(b, First(b, T), T)
<1> DEFINE S == {i \in 1 .. Len(b) : b[i].type \in T}
<1>1. S \in SUBSET Nat /\ S # {}
  BY DEF Holds
<1>2. PICK i \in S : \A j \in S : ~(j < i)
  BY <1>1, FirstExists
<1>3. i \in 1 .. Len(b) /\ IsFirst(b, i, T)
  BY <1>2 DEF IsFirst
<1> QED
  BY <1>3 DEF First

LEMMA EnqueueOrderly ==
  ASSUME NEW b, NEW c \in Nat, Orderly(b, MaxBuffer, c), NEW m \in Message, m.n = c
  PROVE  Orderly(Enqueue(b, m), MaxBuffer, c)
<1>1. b \in Seq(Message) /\ Len(b) \in Nat /\ MaxBuffer \in Nat /\ MaxBuffer > 0
  BY DEF Orderly
<1>2. m.type \in FrameType \cup ReliableType
  BY DEF Message
<1>3. CASE m.type \in FrameType /\ Holds(b, {m.type})
  <2> DEFINE i == First(b, {m.type})
  <2>1. i \in 1 .. Len(b) /\ b[i].type = m.type
    BY <1>1, <1>3, FirstIs DEF IsFirst
  <2>2. \A j \in 1 .. Len(b) : b[j].type \in {m.type} => j = i
    <3> SUFFICES ASSUME NEW j \in 1 .. Len(b), b[j].type = m.type, j # i
                 PROVE  FALSE
      OBVIOUS
    <3>1. i < j \/ j < i
      BY <2>1, <1>1
    <3> QED
      BY <3>1, <2>1, <1>3 DEF Orderly
  <2>3. {m.type} \in SUBSET FrameType
    BY <1>3
  <2> HIDE DEF i
  <2>4. /\ Orderly(Without(b, i), MaxBuffer - 1, c)
        /\ \A j \in 1 .. Len(b) - 1 : Without(b, i)[j].type # m.type
    <3>1. /\ Orderly(Without(b, i), MaxBuffer - 1, c)
          /\ \A j \in 1 .. Len(b) - 1 : Without(b, i)[j].type \notin {m.type}
      BY <2>1, <2>2, <2>3, <1>1, WithoutOrderly
    <3> QED
      BY <3>1
  <2>5. Len(Without(b, i)) = Len(b) - 1
    BY <1>1, <2>1, WithoutIs
  <2>6. Enqueue(b, m) = Append(Without(b, i), m)
    BY <1>3 DEF Enqueue, EnqueueFrame, i
  <2> QED
    BY <2>4, <2>5, <2>6, <1>1, AppendOrderly
<1>4. CASE m.type \in FrameType /\ ~Holds(b, {m.type})
  <2>1. CASE Full(b)
    BY <1>4, <2>1 DEF Enqueue, EnqueueFrame
  <2>2. CASE ~Full(b)
    <3>1. Orderly(b, MaxBuffer - 1, c)
      BY <2>2, <1>1 DEF Full, Orderly
    <3>2. \A i \in 1 .. Len(b) : b[i].type # m.type
      BY <1>4 DEF Holds
    <3>3. Enqueue(b, m) = Append(b, m)
      BY <1>4, <2>2 DEF Enqueue, EnqueueFrame
    <3> QED
      BY <3>1, <3>2, <3>3, <1>1, AppendOrderly
  <2> QED
    BY <2>1, <2>2
<1>5. CASE m.type \notin FrameType
  <2>1. CASE ~Full(b)
    <3>1. Orderly(b, MaxBuffer - 1, c)
      BY <2>1, <1>1 DEF Full, Orderly
    <3>2. Enqueue(b, m) = Append(b, m)
      BY <1>5, <2>1 DEF Enqueue, EnqueueReliable
    <3> QED
      BY <3>1, <3>2, <1>1, <1>5, AppendOrderly
  <2>2. CASE Full(b)
    <3> DEFINE i == IF Holds(b, FrameType) THEN First(b, FrameType) ELSE 1
    <3>1. i \in 1 .. Len(b)
      <4>1. Holds(b, FrameType) => First(b, FrameType) \in 1 .. Len(b)
        BY <1>1, FirstIs
      <4>2. 1 \in 1 .. Len(b)
        BY <1>1, <2>2 DEF Full
      <4> QED
        BY <4>1, <4>2
    <3>2. Enqueue(b, m) = Append(Without(b, i), m)
      BY <1>5, <2>2 DEF Enqueue, EnqueueReliable
    <3> HIDE DEF i
    <3>3. Orderly(Without(b, i), MaxBuffer - 1, c)
      BY <3>1, <1>1, WithoutOrderly
    <3> QED
      BY <3>2, <3>3, <1>1, <1>5, AppendOrderly
  <2> QED
    BY <2>1, <2>2
<1> QED
  BY <1>3, <1>4, <1>5

\* Time passes: the messages are older than the changes to come.
LEMMA OrderlyLater ==
  ASSUME NEW b, NEW k \in Nat, NEW c \in Nat, Orderly(b, k, c)
  PROVE  Orderly(b, k, c + 1)
<1>1. \A i \in 1 .. Len(b) : b[i].n \in Nat
  <2>1. \A i \in 1 .. Len(b) : b[i] \in Message
    BY DEF Orderly
  <2> QED
    BY <2>1 DEF Message
<1>2. \A i \in 1 .. Len(b) : b[i].n <= c + 1
  BY <1>1 DEF Orderly
<1> QED
  BY <1>2 DEF Orderly

LEMMA OrderlyEmpty == ASSUME NEW c PROVE Orderly(<< >>, MaxBuffer, c)
BY DEF Orderly

\* The client takes the oldest message.
LEMMA OrderlyTail ==
  ASSUME NEW b, NEW k \in Nat, NEW c \in Nat, Orderly(b, k, c), b # << >>
  PROVE  Orderly(Tail(b), k, c) /\ Head(b) \in Message /\ Head(b).n <= c
<1>1. b \in Seq(Message) /\ Len(b) \in Nat /\ Len(b) > 0
  BY DEF Orderly
<1>2. /\ Tail(b) \in Seq(Message) /\ Len(Tail(b)) = Len(b) - 1
      /\ \A i \in 1 .. Len(Tail(b)) : Tail(b)[i] = b[i + 1] /\ i + 1 \in 1 .. Len(b)
  BY <1>1
<1>3. Head(b) = b[1] /\ 1 \in 1 .. Len(b)
  BY <1>1
<1> QED
  BY <1>1, <1>2, <1>3 DEF Orderly

-----------------------------------------------------------------------------
(* The server.                                                              *)

USE FeedAssumption

\* The state the server is in, and every one it was in.
LEMMA ServerIs ==
  ASSUME FeedTypeOK
  PROVE  changes \in Nat /\ server \in Server /\ \A n \in 0 .. changes : At(n) \in Server
BY DEF FeedTypeOK, server, At

LEMMA AfterIs == ASSUME FeedTypeOK, NEW op \in Op PROVE After(op) \in Server
BY ServerIs DEF Op, After, Server

LEMMA BecomesKeeps ==
  ASSUME FeedIInv, NEW state \in Server, NEW t \in {"status", "config"}, Becomes(state, t)
  PROVE  /\ changes' \in 0 .. MaxChanges /\ log' \in Seq(Server) /\ Len(log') = changes' + 1
         /\ Orderly(buf', MaxBuffer, changes')
<1>1. changes \in Nat /\ changes' = changes + 1 /\ changes' \in 0 .. MaxChanges
  BY DEF FeedIInv, FeedTypeOK, Becomes
<1>2. log' \in Seq(Server) /\ Len(log') = changes' + 1
  BY <1>1 DEF FeedIInv, FeedTypeOK, Becomes
<1>3. Orderly(buf, MaxBuffer, changes + 1)
  BY <1>1, OrderlyLater DEF FeedIInv
<1>4. [type |-> t, n |-> changes + 1] \in Message
  BY <1>1 DEF Message
<1>5. Orderly(Enqueue(buf, [type |-> t, n |-> changes + 1]), MaxBuffer, changes + 1)
  BY <1>1, <1>3, <1>4, EnqueueOrderly
<1> QED
  BY <1>1, <1>2, <1>3, <1>5 DEF Becomes

\* A message about the present.
LEMMA NowKeeps ==
  ASSUME FeedIInv, NEW t \in FrameType \cup {"status", "config"}, NEW b,
         Orderly(b, MaxBuffer, changes)
  PROVE  Orderly(Enqueue(b, Now(t)), MaxBuffer, changes)
<1>1. changes \in Nat
  BY DEF FeedIInv, FeedTypeOK
<1>2. Now(t) \in Message /\ Now(t).n = changes
  BY <1>1 DEF Now, Message
<1> QED
  BY <1>1, <1>2, EnqueueOrderly

LEMMA ServeKeeps ==
  ASSUME FeedIInv, NEW op \in Op, Serve(op)
  PROVE  /\ changes' \in 0 .. MaxChanges /\ log' \in Seq(Server) /\ Len(log') = changes' + 1
         /\ Orderly(buf', MaxBuffer, changes')
<1>1. After(op) \in Server
  BY AfterIs DEF FeedIInv
<1>2. CASE After(op) # server
  BY <1>1, <1>2, BecomesKeeps DEF Serve
<1>3. CASE After(op) = server
  <2>1. Orderly(buf', MaxBuffer, changes)
    BY <1>3, NowKeeps DEF Serve, FeedIInv
  <2> QED
    BY <2>1, <1>3 DEF Serve, FeedIInv, FeedTypeOK
<1> QED
  BY <1>2, <1>3

-----------------------------------------------------------------------------
(* The connection.                                                          *)

LEMMA WayBackInductive == OneWayBack /\ [Next]_vars => OneWayBack'
<1> SUFFICES ASSUME OneWayBack, [Next]_vars PROVE OneWayBack'
  OBVIOUS
<1>1. CASE UNCHANGED clientVars
  BY <1>1 DEF clientVars, OneWayBack
<1>2. CASE Identified
  BY <1>2 DEF Identified, OneWayBack
<1>3. CASE Connect
  BY <1>3 DEF Connect, OneWayBack
<1>4. CASE Opened
  BY <1>4 DEF Opened, OneWayBack
<1>5. CASE Drops
  BY <1>5 DEF Drops, OneWayBack
<1>6. CASE Onclose
  BY <1>6 DEF Onclose, OneWayBack
<1>7. CASE Stop
  BY <1>7 DEF Stop, OneWayBack
<1>8. CASE Start
  BY <1>8 DEF Start, OneWayBack
<1>10. CASE OldHandler
  BY <1>10 DEF OldHandler, OneWayBack
<1>9. Next => \/ UNCHANGED clientVars
              \/ Identified \/ OldHandler \/ Connect \/ Opened \/ Drops \/ Onclose \/ Stop \/ Start
  BY DEF Next, OtherCommands, OtherSaves, Tick, Dispatched, PrimeRead, Primed, ToggleScan, FlipScan,
         StartFocus, BackToSweep, Send, Served, Answered, clientVars
<1> QED
  BY <1>1, <1>2, <1>3, <1>4, <1>5, <1>6, <1>7, <1>8, <1>9, <1>10 DEF vars, clientVars

\* A running client always has one way back to the server, its socket or the
\* timer of a reconnection, and a stopped one has none (ws.ts:26-89), for
\* every number of commands and changes.
THEOREM ClientReconnects == Spec => []OneWayBack
<1>1. Init => OneWayBack
  BY DEF Init, OneWayBack
<1> QED
  BY <1>1, WayBackInductive, PTL DEF Spec

-----------------------------------------------------------------------------
(* Types and the buffer.                                                    *)

\* The steps that send the client a message, or clear its buffer.
LEMMA ServerSteps ==
  ASSUME FeedIInv,
         \/ \E op \in Op : OtherCommands(op)
         \/ OtherSaves \/ \E t \in FrameType \cup {"status"} : Tick(t)
  PROVE  FeedIInv'
<1>1. CASE \E op \in Op : OtherCommands(op)
  <2>1. /\ changes' \in 0 .. MaxChanges /\ log' \in Seq(Server) /\ Len(log') = changes' + 1
        /\ Orderly(buf', MaxBuffer, changes')
    BY <1>1, ServeKeeps DEF OtherCommands
  <2> QED
    BY <1>1, <2>1 DEF OtherCommands, FeedIInv, FeedTypeOK, clientVars
<1>2. CASE OtherSaves
  <2>1. changes < MaxChanges
    BY <1>2 DEF OtherSaves, Becomes
  <2>2. [server EXCEPT !.config = changes + 1] \in Server
    BY <2>1, ServerIs DEF Server, FeedIInv
  <2>3. /\ changes' \in 0 .. MaxChanges /\ log' \in Seq(Server) /\ Len(log') = changes' + 1
        /\ Orderly(buf', MaxBuffer, changes')
    BY <1>2, <2>2, BecomesKeeps DEF OtherSaves
  <2> QED
    BY <1>2, <2>3 DEF OtherSaves, FeedIInv, FeedTypeOK, clientVars
<1>3. CASE \E t \in FrameType \cup {"status"} : Tick(t)
  <2>1. Orderly(buf', MaxBuffer, changes)
    BY <1>3, NowKeeps DEF Tick, FeedIInv
  <2> QED
    BY <1>3, <2>1 DEF Tick, FeedIInv, FeedTypeOK, clientVars
<1> QED
  BY <1>1, <1>2, <1>3

LEMMA ConnectionSteps ==
  ASSUME FeedIInv,
         Identified \/ OldHandler \/ Connect \/ Opened \/ Drops \/ Onclose \/ Stop \/ Start
  PROVE  FeedIInv'
<1>1. CASE Identified
  <2>1. Orderly(Enqueue(<< >>, Now("config")), MaxBuffer, changes)
    BY OrderlyEmpty, NowKeeps
  <2>2. Orderly(buf', MaxBuffer, changes)
    BY <1>1, <2>1, NowKeeps DEF Identified
  <2> QED
    BY <1>1, <2>2 DEF Identified, FeedIInv, FeedTypeOK
<1>2. CASE Drops \/ Stop
  <2>1. Orderly(<< >>, MaxBuffer, changes)
    BY OrderlyEmpty
  <2>2. behind' \in BOOLEAN
    BY <1>2, Zenon DEF Drops, Stop, Leaves
  <2> QED
    BY <1>2, <2>1, <2>2 DEF Drops, Stop, FeedIInv, FeedTypeOK, Idle
<1>7. CASE OldHandler
  <2>1. Orderly(<< >>, MaxBuffer, changes)
    BY OrderlyEmpty
  <2> QED
    BY <1>7, <2>1 DEF OldHandler, FeedIInv, FeedTypeOK
<1>3. CASE Connect
  BY <1>3 DEF Connect, FeedIInv, FeedTypeOK
<1>6. CASE Opened
  BY <1>6 DEF Opened, FeedIInv, FeedTypeOK
<1>4. CASE Onclose
  <2>1. Longer(backoff) \in 0 .. MaxBackoff
    BY DEF Longer, FeedIInv, FeedTypeOK
  <2> QED
    BY <1>4, <2>1 DEF Onclose, FeedIInv, FeedTypeOK
<1>5. CASE Start
  <2>1. priming' \in {[at |-> "asked"]}
    BY <1>5 DEF Start
  <2> QED
    BY <1>5, <2>1 DEF Start, FeedIInv, FeedTypeOK
<1> QED
  BY <1>1, <1>2, <1>3, <1>4, <1>5, <1>6, <1>7

LEMMA StoreSteps ==
  ASSUME FeedIInv, Dispatched \/ PrimeRead \/ Primed
  PROVE  FeedIInv'
<1>1. CASE Dispatched
  <2> DEFINE m == Head(buf)
  <2>1. Orderly(Tail(buf), MaxBuffer, changes) /\ m \in Message /\ m.n <= changes
    BY <1>1, ServerIs, OrderlyTail DEF Dispatched, FeedIInv
  <2>2. At(m.n) \in Server
    <3>1. m.n \in 0 .. changes
      BY <2>1, ServerIs DEF Message, FeedIInv
    <3> QED
      BY <3>1, ServerIs DEF FeedIInv
  <2>3. shown \in Server
    BY DEF FeedIInv, FeedTypeOK
  <2>4. shown' \in Server
    <3> HIDE DEF m
    <3>1. [At(m.n) EXCEPT !.config = shown.config] \in Server
      BY <2>2, <2>3 DEF Server
    <3>2. [shown EXCEPT !.config = At(m.n).config] \in Server
      BY <2>2, <2>3 DEF Server
    <3> QED
      BY <1>1, <2>3, <3>1, <3>2 DEF Dispatched, m
  <2> QED
    BY <1>1, <2>1, <2>4 DEF Dispatched, FeedIInv, FeedTypeOK, clientVars
<1>2. CASE PrimeRead
  <2>1. server.config \in 0 .. MaxChanges
    BY ServerIs DEF FeedIInv, Server
  <2> QED
    BY <1>2, <2>1 DEF PrimeRead, FeedIInv, FeedTypeOK, clientVars, Idle
<1>3. CASE Primed
  <2>1. priming.config \in 0 .. MaxChanges
    BY <1>3 DEF Primed, FeedIInv, FeedTypeOK, Idle
  <2>2. shown' \in Server
    <3>1. shown \in Server
      BY DEF FeedIInv, FeedTypeOK
    <3>2. [shown EXCEPT !.config = priming.config] \in Server
      BY <2>1, <3>1 DEF Server
    <3>3. [scanning |-> FALSE, focus |-> FALSE, config |-> priming.config] \in Server
      BY <2>1 DEF Server
    <3> QED
      BY <1>3, <3>2, <3>3 DEF Primed
  <2> QED
    BY <1>3, <2>2 DEF Primed, FeedIInv, FeedTypeOK, clientVars, Idle
<1> QED
  BY <1>1, <1>2, <1>3

\* A page issues a command, the server carries it out, and the page writes
\* what it makes of the answer.
LEMMA CommandSteps ==
  ASSUME FeedIInv, NEW c \in Command,
         \/ ToggleScan(c) \/ FlipScan(c) \/ StartFocus(c) \/ BackToSweep(c)
         \/ Served(c) \/ Answered(c)
  PROVE  FeedIInv'
<1> DEFINE Cmd == {Idle} \cup [at : {"sent", "answered", "refused"}, op : Op, flipped : BOOLEAN]
<1>1. commands \in [Command -> Cmd] /\ shown \in Server
  BY DEF FeedIInv, FeedTypeOK
<1>2. commands[c] = Idle \/ commands[c].op \in Op
  BY <1>1
<1>3. CASE ToggleScan(c) \/ FlipScan(c) \/ StartFocus(c) \/ BackToSweep(c)
  <2>1. \A op \in Op, f \in BOOLEAN : Issued(op, f) \in Cmd
    BY DEF Issued
  <2>2. PICK op \in Op, f \in BOOLEAN : Send(c, op, f)
    BY <1>3 DEF ToggleScan, FlipScan, StartFocus, BackToSweep, Toggle, Op
  <2>3. commands' \in [Command -> Cmd]
    BY <1>1, <2>1, <2>2 DEF Send
  <2>4. shown' \in Server
    BY <1>1, <1>3 DEF ToggleScan, FlipScan, StartFocus, BackToSweep, Server
  <2> QED
    BY <2>2, <2>3, <2>4 DEF Send, FeedIInv, FeedTypeOK, clientVars
<1>4. CASE Served(c)
  <2>1. commands[c] # Idle /\ commands[c].op \in Op
    BY <1>2, <1>4 DEF Served, Idle
  <2>2. \A at \in {"answered", "refused"} : [commands[c] EXCEPT !.at = at] \in Cmd
    BY <1>1, <2>1
  <2>3. commands' \in [Command -> Cmd]
    BY <1>1, <1>4, <2>2 DEF Served
  <2>4. /\ changes' \in 0 .. MaxChanges /\ log' \in Seq(Server) /\ Len(log') = changes' + 1
        /\ Orderly(buf', MaxBuffer, changes')
    <3>1. CASE Serve(commands[c].op)
      BY <2>1, <3>1, ServeKeeps
    <3>2. CASE UNCHANGED <<buf, changes, log>>
      BY <3>2 DEF FeedIInv, FeedTypeOK
    <3> QED
      BY <1>4, <3>1, <3>2 DEF Served
  <2> QED
    BY <1>4, <2>3, <2>4 DEF Served, FeedIInv, FeedTypeOK, clientVars
<1>5. CASE Answered(c)
  <2>1. Idle \in Cmd
    OBVIOUS
  <2>2. commands' \in [Command -> Cmd]
    BY <1>1, <1>5, <2>1 DEF Answered
  <2>3. Written(commands[c]) \in Server
    BY <1>1 DEF Written, Server
  <2> QED
    BY <1>5, <2>2, <2>3 DEF Answered, FeedIInv, FeedTypeOK, clientVars
<1> QED
  BY <1>3, <1>4, <1>5

LEMMA FeedInductive == FeedIInv /\ [Next]_vars => FeedIInv'
<1> SUFFICES ASSUME FeedIInv, [Next]_vars PROVE FeedIInv'
  OBVIOUS
<1>1. CASE UNCHANGED vars
  BY <1>1 DEF vars, clientVars, FeedIInv, FeedTypeOK, Orderly, Message
<1>2. CASE Next
  BY <1>2, ServerSteps, ConnectionSteps, StoreSteps, CommandSteps DEF Next
<1> QED
  BY <1>1, <1>2

LEMMA FeedInvariant == Spec => []FeedIInv
<1>1. Init => FeedIInv
  <2>1. Init => Orderly(buf, MaxBuffer, changes)
    BY OrderlyEmpty DEF Init, BufferInit
  <2>2. [scanning |-> FALSE, focus |-> FALSE, config |-> 0] \in Server
    BY DEF Server
  <2>3. ASSUME Init
        PROVE  log \in Seq(Server) /\ Len(log) = changes + 1
    BY <2>2, <2>3 DEF Init, BufferInit
  <2>4. Init => FeedTypeOK
    <3> SUFFICES ASSUME Init PROVE FeedTypeOK
      OBVIOUS
    <3>1. changes \in 0 .. MaxChanges /\ shown \in Server
      BY <2>2 DEF Init, BufferInit
    <3>2. priming \in {Idle, [at |-> "asked"]} \cup [at : {"answered"}, config : 0 .. MaxChanges]
      BY DEF Init
    <3>3. commands \in [Command -> {Idle} \cup [at : {"sent", "answered", "refused"}, op : Op,
                                                flipped : BOOLEAN]]
      BY DEF Init
    <3>4. log \in Seq(Server) /\ Len(log) = changes + 1
      BY <2>3
    <3>5. backoff \in 0 .. MaxBackoff
      BY DEF Init
    <3>6. /\ socket \in {"none", "opening", "open", "lost"}
          /\ connection \in {"connecting", "open", "closed", "reconnecting"}
      BY DEF Init
    <3>7. registered = "no" /\ behind = FALSE /\ timer = FALSE /\ ping = FALSE /\ stopped = FALSE
      BY DEF Init
    <3>8. registered \in {"no", "yes", "removed"} /\ {behind, timer, ping, stopped} \subseteq BOOLEAN
      BY <3>7
    <3> QED
      BY <3>1, <3>2, <3>3, <3>4, <3>5, <3>6, <3>8 DEF FeedTypeOK
  <2> QED
    BY <2>1, <2>4 DEF FeedIInv
<1> QED
  BY <1>1, FeedInductive, PTL DEF Spec

\* The browser's state and the server's keep their types; above all, every
\* message in the buffer is about a state that the server has been in.
THEOREM FeedTypeCorrect == Spec => []FeedTypeOK
<1>1. FeedIInv => FeedTypeOK
  BY DEF FeedIInv
<1> QED
  BY <1>1, FeedInvariant, PTL

\* Whatever is queued, evicted, sent and dropped with a connection, the buffer
\* of the client is within its bound, holds one frame of a type, and keeps the
\* order in which the messages were sent (enqueue() of the WebSocket hub), for
\* every bound and every set of message types.
THEOREM BufferKeepsOrder == Spec => []BufferInOrder
<1>1. FeedIInv => BufferInOrder
  BY DEF FeedIInv, BufferInOrder, Orderly
<1> QED
  BY <1>1, FeedInvariant, PTL
=============================================================================
