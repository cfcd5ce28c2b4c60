--------------------------- MODULE IqStreamProofs ---------------------------
(***************************************************************************)
(* Theorems about IqStream, for every set of block sizes, every queue      *)
(* capacity and every bound on the samples produced.                       *)
(***************************************************************************)
EXTENDS IqStream, SequenceTheorems, TLAPS

-----------------------------------------------------------------------------
(* What put_nowait and get_nowait do to the queue.                          *)

\* put_nowait leaves the entries in place and adds one at the end.
LEMMA PutEntries ==
  ASSUME NEW q \in Seq(Entry), NEW e \in Entry
  PROVE  /\ Append(q, e) \in Seq(Entry)
         /\ Len(Append(q, e)) = Len(q) + 1
         /\ DOMAIN Append(q, e) = 1 .. Len(q) + 1
         /\ \A i \in 1 .. Len(q) : Append(q, e)[i] = q[i]
         /\ Append(q, e)[Len(q) + 1] = e
BY AppendProperties

\* get_nowait takes the first entry and moves every other one forward.
LEMMA GetEntries ==
  ASSUME NEW q \in Seq(Entry), q # <<>>
  PROVE  /\ Tail(q) \in Seq(Entry)
         /\ Len(q) \in Nat \ {0}
         /\ Len(Tail(q)) = Len(q) - 1
         /\ DOMAIN q = 1 .. Len(q)
         /\ DOMAIN Tail(q) = 1 .. Len(q) - 1
         /\ \A i \in 1 .. Len(q) - 1 : Tail(q)[i] = q[i + 1]
         /\ Head(q) = q[1] /\ Head(q) \in Entry
BY HeadTailProperties, EmptySeq

-----------------------------------------------------------------------------
(* Types.                                                                   *)

LEMMA TypeInit == Init => TypeOK
<1> SUFFICES ASSUME Init PROVE TypeOK
    OBVIOUS
<1>1. queue \in Seq(Entry) /\ Len(queue) = 0
    BY DEF Init
<1>2. hand \in Block
    BY DEF Init, NoBlock, Block
<1>3. Len(queue) <= Capacity
    BY <1>1, StreamAssumption
<1>4. /\ pc \in [Actor -> Label]
      /\ pc["worker"] \in {"device", "unstarted"} /\ pc["stopper"] = "idle"
    BY DEF Init, Actor, Label, Streaming, Offering
<1> QED
    BY <1>1, <1>2, <1>3, <1>4 DEF Init, TypeOK, Streaming, Offering

\* Moving one actor to a label keeps pc a function from actors to labels.
LEMMA GotoType ==
  ASSUME pc \in [Actor -> Label], NEW a \in Actor, NEW l \in Label, Goto(a, l)
  PROVE  /\ pc' \in [Actor -> Label]
         /\ pc'[a] = l
         /\ \A b \in Actor : b # a => pc'[b] = pc[b]
BY DEF Goto

\* The worker's own steps keep every variable within its type.
LEMMA WorkerType ==
  ASSUME TypeOK, Callback \/ DeviceEnds \/ PutBlock \/ Evict \/ PutAgain \/ PutFails
  PROVE  TypeOK'
<1>0. "worker" \in Actor /\ "stopper" \in Actor /\ pc \in [Actor -> Label]
    BY DEF Actor, TypeOK
<1>1. CASE Callback
  <2>1. /\ pc' \in [Actor -> Label] /\ pc'["worker"] = "put"
        /\ pc'["stopper"] = pc["stopper"]
      BY <1>0, <1>1, GotoType DEF Callback, Label, Streaming
  <2>2. PICK n \in BlockSizes : /\ hand' = [start |-> cursor, size |-> n]
                                /\ cursor' = cursor + n
      BY <1>1 DEF Callback
  <2>3. n \in Nat \ {0} /\ cursor \in Nat
      BY StreamAssumption DEF TypeOK
  <2>4. hand' \in Block /\ cursor' \in Nat
      BY <2>2, <2>3 DEF Block
  <2> QED
      BY <1>1, <2>1, <2>4 DEF Callback, TypeOK, cons, Streaming
<1>2. CASE DeviceEnds
  <2>1. /\ pc' \in [Actor -> Label] /\ pc'["worker"] = "offer"
        /\ pc'["stopper"] = pc["stopper"]
      BY <1>0, <1>2, GotoType DEF DeviceEnds, Label, Offering
  <2>2. error' \in BOOLEAN
      BY <1>2 DEF DeviceEnds, TypeOK
  <2> QED
      BY <1>2, <2>1, <2>2 DEF DeviceEnds, TypeOK, cons, counts, Offering
<1>3. CASE PutBlock
  <2>1. CASE Len(queue) < Capacity
    <3>1. /\ pc' \in [Actor -> Label] /\ pc'["worker"] = "device"
          /\ pc'["stopper"] = pc["stopper"]
        BY <1>0, <1>3, <2>1, GotoType DEF PutBlock, Label, Streaming
    <3>2. queue' \in Seq(Entry) /\ Len(queue') = Len(queue) + 1
        BY <1>3, <2>1, PutEntries DEF PutBlock, TypeOK, Entry
    <3>3. Len(queue') <= Capacity
        BY <2>1, <3>2, StreamAssumption DEF TypeOK
    <3> QED
        BY <1>3, <3>1, <3>2, <3>3 DEF PutBlock, TypeOK, cons, counts, Streaming
  <2>2. CASE ~(Len(queue) < Capacity)
    <3>1. /\ pc' \in [Actor -> Label] /\ pc'["worker"] = "evict"
          /\ pc'["stopper"] = pc["stopper"]
        BY <1>0, <1>3, <2>2, GotoType DEF PutBlock, Label, Streaming
    <3> QED
        BY <1>3, <2>2, <3>1 DEF PutBlock, TypeOK, cons, counts, Streaming
  <2> QED
      BY <2>1, <2>2
<1>4. CASE Evict
  <2>1. /\ pc' \in [Actor -> Label] /\ pc'["worker"] = "again"
        /\ pc'["stopper"] = pc["stopper"]
      BY <1>0, <1>4, GotoType DEF Evict, Label, Streaming
  <2>2. CASE queue = <<>>
      BY <1>4, <2>1, <2>2 DEF Evict, TypeOK, cons, Streaming
  <2>3. CASE queue # <<>>
    <3>1. /\ queue' \in Seq(Entry) /\ Len(queue') = Len(queue) - 1
          /\ Len(queue) \in Nat /\ Head(queue) \in Entry
        BY <1>4, <2>3, GetEntries DEF Evict, TypeOK
    <3>2. Len(queue') <= Capacity
        BY <3>1, StreamAssumption DEF TypeOK
    <3>3. dropped' \in Nat
        BY <1>4, <2>3, <3>1 DEF Evict, TypeOK, Entry, Block
    <3> QED
        BY <1>4, <2>1, <3>1, <3>2, <3>3 DEF Evict, TypeOK, cons, Streaming
  <2> QED
      BY <2>2, <2>3
<1>5. CASE PutAgain
  <2>1. /\ pc' \in [Actor -> Label] /\ pc'["worker"] = "device"
        /\ pc'["stopper"] = pc["stopper"]
      BY <1>0, <1>5, GotoType DEF PutAgain, Label, Streaming
  <2>2. queue' \in Seq(Entry) /\ Len(queue') = Len(queue) + 1
      BY <1>5, PutEntries DEF PutAgain, TypeOK, Entry
  <2>3. Len(queue') <= Capacity
      BY <1>5, <2>2, StreamAssumption DEF PutAgain, TypeOK
  <2> QED
      BY <1>5, <2>1, <2>2, <2>3 DEF PutAgain, TypeOK, cons, counts, Streaming
<1>6. CASE PutFails
  <2>1. /\ pc' \in [Actor -> Label] /\ pc'["worker"] \in {"device", "offer"}
        /\ pc'["stopper"] = pc["stopper"]
      BY <1>0, <1>6, GotoType DEF PutFails, Label, Streaming, Offering
  <2>2. error' \in BOOLEAN
      BY <1>6 DEF PutFails, TypeOK
  <2> QED
      BY <1>6, <2>1, <2>2 DEF PutFails, TypeOK, cons, counts, Streaming, Offering
<1> QED
    BY <1>1, <1>2, <1>3, <1>4, <1>5, <1>6

\* Offering the sentinel keeps every variable within its type.
LEMMA OfferType ==
  ASSUME TypeOK, NEW a \in Actor, Offer(a)
  PROVE  TypeOK'
<1>0. pc \in [Actor -> Label] /\ "worker" \in Actor /\ "stopper" \in Actor
    BY DEF Actor, TypeOK
<1> DEFINE after == IF a = "worker" THEN "done" ELSE "join"
<1>1. "offer_evict" \in Label /\ "offer_again" \in Label /\ after \in Label
    BY DEF Label, Offering
<1>2. ASSUME NEW l \in {"offer_evict", "offer_again", after}, Goto(a, l)
      PROVE  /\ pc' \in [Actor -> Label]
             /\ pc'["worker"] \in Streaming \cup Offering \cup {"unstarted", "done"}
             /\ pc'["stopper"] \in Offering \cup {"idle", "join", "done"}
  <2>1. pc' \in [Actor -> Label] /\ pc'[a] = l /\ \A b \in Actor : b # a => pc'[b] = pc[b]
      BY <1>0, <1>1, <1>2, GotoType
  <2>2. CASE a = "worker"
      BY <1>0, <1>2, <2>1, <2>2 DEF TypeOK, Streaming, Offering
  <2>3. CASE a = "stopper"
      BY <1>0, <1>2, <2>1, <2>3 DEF TypeOK, Streaming, Offering
  <2> QED
      BY <2>1, <2>2, <2>3 DEF Actor
<1>3. CASE OfferPut(a)
  <2>1. CASE Len(queue) < Capacity
    <3>1. queue' \in Seq(Entry) /\ Len(queue') = Len(queue) + 1
        BY <1>3, <2>1, PutEntries DEF OfferPut, TypeOK, Entry
    <3>2. Len(queue') <= Capacity
        BY <2>1, <3>1, StreamAssumption DEF TypeOK
    <3>3. Goto(a, after)
        BY <1>3, <2>1 DEF OfferPut, Offered
    <3> QED
        BY <1>2, <1>3, <3>1, <3>2, <3>3 DEF OfferPut, TypeOK, cons, counts
  <2>2. CASE ~(Len(queue) < Capacity)
      BY <1>2, <1>3, <2>2 DEF OfferPut, TypeOK, cons, counts
  <2> QED
      BY <2>1, <2>2
<1>4. CASE OfferEvict(a)
  <2>1. queue' \in Seq(Entry) /\ Len(queue') <= Capacity
      BY <1>4, GetEntries, StreamAssumption DEF OfferEvict, TypeOK
  <2> QED
      BY <1>2, <1>4, <2>1 DEF OfferEvict, TypeOK, cons, counts
<1>5. CASE OfferAgain(a)
  <2>1. queue' \in Seq(Entry) /\ Len(queue') <= Capacity
      BY <1>5, PutEntries, StreamAssumption DEF OfferAgain, TypeOK, Entry
  <2>2. Goto(a, after)
      BY <1>5 DEF OfferAgain, Offered
  <2> QED
      BY <1>2, <1>5, <2>1, <2>2 DEF OfferAgain, TypeOK, cons, counts
<1> QED
    BY <1>3, <1>4, <1>5 DEF Offer

\* stop() and the scan loop keep every variable within its type.
LEMMA LoopType ==
  ASSUME TypeOK, StopNothing \/ StopBegin \/ StopJoin \/ Get \/ Receive \/ ReceiveNone
  PROVE  TypeOK'
<1>0. "worker" \in Actor /\ "stopper" \in Actor /\ pc \in [Actor -> Label]
    BY DEF Actor, TypeOK
<1>1. CASE StopBegin
  <2>1. /\ pc' \in [Actor -> Label] /\ pc'["stopper"] = "offer"
        /\ pc'["worker"] = pc["worker"]
      BY <1>0, <1>1, GotoType DEF StopBegin, Label, Offering
  <2> QED
      BY <1>1, <2>1 DEF StopBegin, TypeOK, cons, counts, Offering
<1>2. CASE StopJoin
  <2>1. /\ pc' \in [Actor -> Label] /\ pc'["stopper"] = "done"
        /\ pc'["worker"] = pc["worker"]
      BY <1>0, <1>2, GotoType DEF StopJoin, Label
  <2> QED
      BY <1>2, <2>1 DEF StopJoin, TypeOK, cons, counts
<1>3. CASE Get
    BY <1>3 DEF Get, TypeOK, counts
<1>4. CASE Receive
  <2>1. /\ queue' \in Seq(Entry) /\ Len(queue') <= Capacity
        /\ Head(queue) \in Block
      BY <1>4, GetEntries, StreamAssumption DEF Receive, TypeOK, Entry
  <2>2. /\ Head(queue).start \in Nat
        /\ End(Head(queue)) \in Nat
      BY <2>1 DEF Block, End
  <2> DEFINE start == Head(queue).start
             missing == IF synced /\ start # expected
                        THEN IF start > expected THEN start - expected ELSE 0
                        ELSE 0
  <2>3. expected \in Nat /\ announced \in Nat /\ skipped \in Nat
      BY DEF TypeOK
  <2>4. missing \in Nat
    <3> HIDE DEF start
    <3>1. start \in Nat
        BY <2>2 DEF start
    <3> QED
        BY <2>3, <3>1
  <2>5. /\ gap' = missing /\ announced' = announced + missing
        /\ skipped' = IF synced THEN skipped ELSE start
        /\ expected' = End(Head(queue))
      BY <1>4 DEF Receive
  <2> HIDE DEF start, missing
  <2>6. start \in Nat
      BY <2>2 DEF start
  <2>7. gap' \in Nat /\ announced' \in Nat /\ skipped' \in Nat /\ expected' \in Nat
      BY <2>2, <2>3, <2>4, <2>5, <2>6
  <2> QED
      BY <1>4, <2>1, <2>7 DEF Receive, TypeOK, counts
<1>5. CASE ReceiveNone
  <2>1. queue' \in Seq(Entry) /\ Len(queue') <= Capacity
      BY <1>5, GetEntries, StreamAssumption DEF ReceiveNone, TypeOK
  <2> QED
      BY <1>5, <2>1 DEF ReceiveNone, TypeOK, counts
<1>6. CASE StopNothing
  <2>1. /\ pc' \in [Actor -> Label] /\ pc'["stopper"] = "done"
        /\ pc'["worker"] = pc["worker"]
      BY <1>0, <1>6, GotoType DEF StopNothing, Label
  <2> QED
      BY <1>6, <2>1 DEF StopNothing, TypeOK, cons, counts
<1> QED
    BY <1>1, <1>2, <1>3, <1>4, <1>5, <1>6

LEMMA TypeStep == TypeOK /\ [Next]_vars => TypeOK'
<1> SUFFICES ASSUME TypeOK, [Next]_vars PROVE TypeOK'
    OBVIOUS
<1>1. CASE UNCHANGED vars
    BY <1>1 DEF vars, cons, counts, TypeOK
<1>2. CASE Next
    BY <1>2, WorkerType, LoopType, OfferType
       DEF Next, Worker, Stopper, Consumer, Actor
<1> QED
    BY <1>1, <1>2

\* Every variable of a stream keeps its type, and the queue is never longer
\* than its maxsize, whatever the worker, stop() and the scan loop interleave.
THEOREM TypeCorrect == Spec => []TypeOK
<1> QED
    BY TypeInit, TypeStep, PTL DEF Spec

-----------------------------------------------------------------------------
(* Order.  InOrder is inductive with the types: a step leaves the queue as  *)
(* it is, takes its first entry, adds a sentinel, or adds the block that    *)
(* the worker has in hand.                                                  *)

LEMMA OrderSame ==
  ASSUME InOrder, UNCHANGED <<queue, cursor, expected>>, InHand' \subseteq InHand
  PROVE  InOrder'
BY DEF InOrder

LEMMA OrderGet ==
  ASSUME TypeOK, InOrder, queue # <<>>, queue' = Tail(queue),
         UNCHANGED <<cursor, expected>>, InHand' \subseteq InHand
  PROVE  InOrder'
<1>1. /\ Len(queue) \in Nat \ {0}
      /\ DOMAIN queue = 1 .. Len(queue) /\ DOMAIN queue' = 1 .. Len(queue) - 1
      /\ \A i \in 1 .. Len(queue) - 1 : queue'[i] = queue[i + 1]
    BY GetEntries DEF TypeOK
<1>2. \A i \in DOMAIN queue' : i + 1 \in DOMAIN queue /\ queue'[i] = queue[i + 1]
    BY <1>1
<1>3. \A i, j \in DOMAIN queue' : i < j => i + 1 < j + 1
    BY <1>1
<1> QED
    BY <1>2, <1>3 DEF InOrder

LEMMA OrderPutNone ==
  ASSUME TypeOK, InOrder, queue' = Append(queue, None),
         UNCHANGED <<cursor, expected>>, InHand' \subseteq InHand
  PROVE  InOrder'
<1>1. /\ DOMAIN queue = 1 .. Len(queue) /\ DOMAIN queue' = 1 .. Len(queue) + 1
      /\ Len(queue) \in Nat
      /\ \A i \in 1 .. Len(queue) : queue'[i] = queue[i]
      /\ queue'[Len(queue) + 1] = None
    BY PutEntries DEF TypeOK, Entry
<1>2. \A i \in DOMAIN queue' : queue'[i] # None => i \in DOMAIN queue /\ queue'[i] = queue[i]
    BY <1>1
<1> QED
    BY <1>2 DEF InOrder

\* The worker adds its block and has none in hand afterwards.
LEMMA OrderPut ==
  ASSUME TypeOK, InOrder, InHand = {hand}, queue' = Append(queue, hand),
         UNCHANGED <<cursor, expected>>, InHand' = {}
  PROVE  InOrder'
<1>1. /\ DOMAIN queue = 1 .. Len(queue) /\ DOMAIN queue' = 1 .. Len(queue) + 1
      /\ Len(queue) \in Nat
      /\ \A i \in 1 .. Len(queue) : queue'[i] = queue[i]
      /\ queue'[Len(queue) + 1] = hand
    BY PutEntries DEF TypeOK, Entry
<1>2. expected <= hand.start /\ End(hand) = cursor
    BY DEF InOrder
<1>3. \A i \in DOMAIN queue : queue[i] # None => End(queue[i]) <= hand.start
    BY DEF InOrder
<1>4. cursor \in Nat
    BY DEF TypeOK
<1>5. ASSUME NEW i \in DOMAIN queue', NEW j \in DOMAIN queue',
             i < j, queue'[i] # None, queue'[j] # None
      PROVE  End(queue'[i]) <= queue'[j].start
  <2>1. i \in DOMAIN queue /\ queue'[i] = queue[i]
      BY <1>1, <1>5
  <2>2. CASE j \in DOMAIN queue
      BY <1>1, <1>5, <2>1, <2>2 DEF InOrder
  <2>3. CASE j \notin DOMAIN queue
    <3>1. queue'[j] = hand
        BY <1>1, <2>3
    <3> QED
        BY <1>3, <1>5, <2>1, <3>1
  <2> QED
      BY <2>2, <2>3
<1>6. ASSUME NEW i \in DOMAIN queue', queue'[i] # None
      PROVE  expected <= queue'[i].start /\ End(queue'[i]) <= cursor
  <2>1. CASE i \in DOMAIN queue
      BY <1>1, <1>6, <2>1 DEF InOrder
  <2>2. CASE i \notin DOMAIN queue
    <3>1. queue'[i] = hand
        BY <1>1, <2>2
    <3> QED
        BY <1>2, <1>4, <3>1
  <2> QED
      BY <2>1, <2>2
<1> QED
    BY <1>5, <1>6 DEF InOrder

\* Where the worker goes decides what it still has in hand.
LEMMA HandAfter ==
  ASSUME TypeOK, NEW a \in Actor, NEW l \in Label, Goto(a, l)
  PROVE  /\ a = "stopper" /\ hand' = hand => InHand' = InHand
         /\ a = "worker" /\ l \notin {"put", "evict", "again"} => InHand' = {}
         /\ a = "worker" /\ l \in {"put", "evict", "again"} => InHand' = {hand'}
<1>1. /\ pc'[a] = l /\ \A b \in Actor : b # a => pc'[b] = pc[b]
    BY GotoType DEF TypeOK
<1> QED
    BY <1>1 DEF InHand, Actor

LEMMA OrderInit == Init => InOrder
<1> SUFFICES ASSUME Init PROVE InOrder
    OBVIOUS
<1>1. DOMAIN queue = {} /\ InHand = {}
    BY DEF Init, InHand, Actor
<1> QED
    BY <1>1 DEF Init, InOrder

\* The worker's own steps keep the blocks in order.
LEMMA WorkerOrder ==
  ASSUME TypeOK, InOrder,
         Callback \/ DeviceEnds \/ PutBlock \/ Evict \/ PutAgain \/ PutFails
  PROVE  InOrder'
<1>0. "worker" \in Actor /\ Streaming \subseteq Label /\ Offering \subseteq Label
    BY DEF Actor, Label
<1>1. CASE Callback
  <2>1. PICK n \in BlockSizes : /\ hand' = [start |-> cursor, size |-> n]
                                /\ cursor' = cursor + n
      BY <1>1 DEF Callback
  <2>2. n \in Nat \ {0} /\ cursor \in Nat /\ expected \in Nat
      BY StreamAssumption DEF TypeOK
  <2>3. InHand' = {hand'}
      BY <1>0, <1>1, HandAfter DEF Callback, Streaming
  <2>4. hand'.start = cursor /\ End(hand') = cursor'
      BY <2>1, <2>2 DEF End
  <2>5. queue' = queue /\ expected' = expected
      BY <1>1 DEF Callback, cons
  <2>6. ASSUME NEW i \in DOMAIN queue, queue[i] # None
        PROVE  /\ expected <= queue[i].start
               /\ End(queue[i]) <= cursor /\ End(queue[i]) <= cursor'
    <3>1. queue[i] \in Block
        BY <2>6 DEF TypeOK, Entry
    <3>2. End(queue[i]) \in Nat
        BY <3>1 DEF Block, End
    <3>3. expected <= queue[i].start /\ End(queue[i]) <= cursor
        BY <2>6 DEF InOrder
    <3> QED
        BY <2>1, <2>2, <3>2, <3>3
  <2>7. expected <= cursor /\ expected <= cursor'
      BY <2>1, <2>2 DEF InOrder
  <2> QED
      BY <2>3, <2>4, <2>5, <2>6, <2>7 DEF InOrder
<1>2. CASE DeviceEnds
  <2>1. InHand' = {}
      BY <1>0, <1>2, HandAfter DEF DeviceEnds, Offering
  <2> QED
      BY <1>2, <2>1, OrderSame DEF DeviceEnds, counts, cons
<1>3. CASE PutBlock
  <2>1. InHand = {hand}
      BY <1>3 DEF PutBlock, InHand
  <2>2. CASE Len(queue) < Capacity
    <3>1. InHand' = {}
        BY <1>0, <1>3, <2>2, HandAfter DEF PutBlock, Streaming
    <3> QED
        BY <1>3, <2>1, <2>2, <3>1, OrderPut DEF PutBlock, counts, cons
  <2>3. CASE ~(Len(queue) < Capacity)
    <3>1. InHand' = InHand
        BY <1>0, <1>3, <2>1, <2>3, HandAfter DEF PutBlock, Streaming
    <3> QED
        BY <1>3, <2>3, <3>1, OrderSame DEF PutBlock, counts, cons
  <2> QED
      BY <2>2, <2>3
<1>4. CASE Evict
  <2>1. InHand' = InHand
      BY <1>0, <1>4, HandAfter DEF Evict, InHand, Streaming
  <2>2. CASE queue = <<>>
      BY <1>4, <2>1, <2>2, OrderSame DEF Evict, cons
  <2>3. CASE queue # <<>>
      BY <1>4, <2>1, <2>3, OrderGet DEF Evict, cons
  <2> QED
      BY <2>2, <2>3
<1>5. CASE PutAgain
  <2>1. InHand = {hand} /\ InHand' = {}
      BY <1>0, <1>5, HandAfter DEF PutAgain, InHand, Streaming
  <2> QED
      BY <1>5, <2>1, OrderPut DEF PutAgain, counts, cons
<1>6. CASE PutFails
  <2>1. InHand' = {}
      BY <1>0, <1>6, HandAfter DEF PutFails, Streaming, Offering
  <2> QED
      BY <1>6, <2>1, OrderSame DEF PutFails, counts, cons
<1> QED
    BY <1>1, <1>2, <1>3, <1>4, <1>5, <1>6

\* A sentinel never disturbs the order of the blocks around it.
LEMMA OfferOrder ==
  ASSUME TypeOK, InOrder, NEW a \in Actor, Offer(a)
  PROVE  InOrder'
<1>1. InHand' \subseteq InHand
  <2>1. \E l \in {"offer_evict", "offer_again", "done", "join"} : Goto(a, l)
      BY DEF Offer, OfferPut, OfferEvict, OfferAgain, Offered
  <2>2. hand' = hand
      BY DEF Offer, OfferPut, OfferEvict, OfferAgain
  <2> QED
      BY <2>1, <2>2, HandAfter DEF Actor, Label, Offering
<1>2. UNCHANGED <<cursor, expected>>
    BY DEF Offer, OfferPut, OfferEvict, OfferAgain, counts, cons
<1>3. \/ queue' = queue
      \/ queue' = Append(queue, None)
      \/ queue # <<>> /\ queue' = Tail(queue)
    BY DEF Offer, OfferPut, OfferEvict, OfferAgain
<1> QED
    BY <1>1, <1>2, <1>3, OrderSame, OrderGet, OrderPutNone

\* Taking the head of the queue moves the expected position up to its end,
\* which everything else is at or after.
LEMMA ReceiveOrder ==
  ASSUME TypeOK, InOrder, Receive
  PROVE  InOrder'
<1>1. /\ Len(queue) \in Nat \ {0} /\ Head(queue) = queue[1]
      /\ DOMAIN queue = 1 .. Len(queue) /\ DOMAIN queue' = 1 .. Len(queue) - 1
      /\ \A i \in 1 .. Len(queue) - 1 : queue'[i] = queue[i + 1]
    BY GetEntries DEF Receive, TypeOK
<1>2. /\ queue[1] # None /\ expected' = End(queue[1]) /\ cursor' = cursor
      /\ InHand' = InHand
    BY <1>1 DEF Receive, counts, InHand
<1>3. \A i \in DOMAIN queue' :
        i + 1 \in DOMAIN queue /\ queue'[i] = queue[i + 1] /\ 1 < i + 1
    BY <1>1
<1>4. \A i, j \in DOMAIN queue' : i < j => i + 1 < j + 1
    BY <1>1
<1>5. 1 \in DOMAIN queue
    BY <1>1
<1> QED
    BY <1>2, <1>3, <1>4, <1>5 DEF InOrder

LEMMA OrderStep == TypeOK /\ InOrder /\ [Next]_vars => InOrder'
<1> SUFFICES ASSUME TypeOK, InOrder, [Next]_vars PROVE InOrder'
    OBVIOUS
<1>1. CASE UNCHANGED vars
    BY <1>1 DEF vars, cons, counts, InOrder, InHand
<1>2. CASE StopNothing \/ StopBegin \/ StopJoin
  <2>1. InHand' = InHand
    <3>1. \E l \in {"offer", "done"} : Goto("stopper", l)
        BY <1>2 DEF StopNothing, StopBegin, StopJoin
    <3> QED
        BY <1>2, <3>1, HandAfter DEF StopNothing, StopBegin, StopJoin, Actor, Label, Offering
  <2> QED
      BY <1>2, <2>1, OrderSame DEF StopNothing, StopBegin, StopJoin, cons, counts
<1>3. CASE Get
    BY <1>3, OrderSame DEF Get, counts, InHand
<1>4. CASE ReceiveNone
    BY <1>4, OrderGet DEF ReceiveNone, counts, InHand
<1>5. CASE Next /\ ~(StopNothing \/ StopBegin \/ StopJoin \/ Get \/ ReceiveNone)
    BY <1>5, WorkerOrder, OfferOrder, ReceiveOrder
       DEF Next, Worker, Stopper, Consumer, Actor
<1> QED
    BY <1>1, <1>2, <1>3, <1>4, <1>5

\* The queue never holds blocks out of order, twice, or before the position
\* the consumer expects: no interleaving of eviction, sentinels and get()
\* makes downstream DSP see time run backwards.
THEOREM BlocksInOrder == Spec => []InOrder
<1>1. TypeOK /\ InOrder /\ [Next]_vars => (TypeOK /\ InOrder)'
    BY TypeStep, OrderStep
<1> QED
    BY <1>1, TypeInit, OrderInit, PTL DEF Spec

-----------------------------------------------------------------------------
(* LossIsAccounted is not inductive: it needs that until the stream is      *)
(* ended the queue holds blocks only, each starting where the one before    *)
(* ends, and that the worker which has discarded a block always finds room  *)
(* for its own.                                                             *)


Calm == ~stopEvent /\ pc["worker"] \in Streaming

\* Position of the block that the worker queues next.
Upcoming == IF InHand # {} THEN hand.start ELSE cursor

Contiguous ==
    /\ \A i \in DOMAIN queue : queue[i] # None
    /\ \A i \in DOMAIN queue : i + 1 \in DOMAIN queue => End(queue[i]) = queue[i + 1].start
    /\ queue # <<>> => End(queue[Len(queue)]) = Upcoming

LossInv ==
    /\ ~stopEvent => pc["stopper"] \in {"idle", "done"}
    /\ ~synced => expected = 0 /\ announced = 0 /\ skipped = 0
    /\ Calm => Contiguous
    /\ Calm /\ pc["worker"] = "again" => Len(queue) < Capacity
    /\ LossIsAccounted

LEMMA FrontIs == Front = IF queue # <<>> THEN queue[1].start ELSE Upcoming
BY DEF Front, Upcoming

-----------------------------------------------------------------------------
(* What the operations on the queue do to Contiguous and Front.             *)

LEMMA LossSame ==
  ASSUME queue' = queue, Upcoming' = Upcoming
  PROVE  Contiguous' = Contiguous /\ Front' = Front
BY FrontIs DEF Contiguous, Front, Upcoming

LEMMA LossGet ==
  ASSUME TypeOK, Contiguous, queue # <<>>, queue' = Tail(queue), Upcoming' = Upcoming
  PROVE  /\ Head(queue) \in Block
         /\ Contiguous'
         /\ Front = Head(queue).start
         /\ Front' = End(Head(queue))
<1>1. /\ Len(queue) \in Nat \ {0} /\ Head(queue) = queue[1] /\ Head(queue) \in Entry
      /\ queue' \in Seq(Entry) /\ Len(queue') = Len(queue) - 1
      /\ DOMAIN queue = 1 .. Len(queue) /\ DOMAIN queue' = 1 .. Len(queue) - 1
      /\ \A i \in 1 .. Len(queue) - 1 : queue'[i] = queue[i + 1]
    BY GetEntries DEF TypeOK
<1>2. Head(queue) \in Block
    BY <1>1 DEF Contiguous, Entry
<1>3. Front = Head(queue).start
    BY <1>1, FrontIs
<1>4. CASE Len(queue) = 1
  <2>1. queue' = <<>> /\ DOMAIN queue' = {}
      BY <1>1, <1>4, EmptySeq
  <2>2. End(Head(queue)) = Upcoming
      BY <1>1, <1>4 DEF Contiguous
  <2>3. Front' = Upcoming'
      BY <2>1 DEF Front, Upcoming
  <2> QED
      BY <1>2, <1>3, <2>1, <2>2, <2>3 DEF Contiguous
<1>5. CASE Len(queue) # 1
  <2>1. /\ queue' # <<>> /\ 1 \in DOMAIN queue' /\ queue'[1] = queue[2]
        /\ 1 \in DOMAIN queue /\ 1 + 1 \in DOMAIN queue
        /\ queue'[Len(queue')] = queue[Len(queue)]
      BY <1>1, <1>5
  <2>2. Front' = queue'[1].start
      BY <2>1 DEF Front
  <2>3. End(queue[1]) = queue[1 + 1].start
      BY <2>1 DEF Contiguous
  <2>4. \A i \in DOMAIN queue' : queue'[i] # None
      BY <1>1 DEF Contiguous
  <2>5. ASSUME NEW i \in DOMAIN queue', i + 1 \in DOMAIN queue'
        PROVE  End(queue'[i]) = queue'[i + 1].start
    <3>1. /\ queue'[i] = queue[i + 1] /\ queue'[i + 1] = queue[(i + 1) + 1]
          /\ i + 1 \in DOMAIN queue /\ (i + 1) + 1 \in DOMAIN queue
        BY <1>1, <2>5
    <3> QED
        BY <3>1 DEF Contiguous
  <2>6. End(queue'[Len(queue')]) = Upcoming'
      BY <2>1 DEF Contiguous
  <2>7. Contiguous'
      BY <2>4, <2>5, <2>6 DEF Contiguous
  <2> QED
      BY <1>1, <1>2, <1>3, <2>1, <2>2, <2>3, <2>7
<1> QED
    BY <1>4, <1>5

\* The worker queues its block and has none in hand afterwards.
LEMMA LossPut ==
  ASSUME TypeOK, InOrder, Contiguous, InHand = {hand}, InHand' = {},
         queue' = Append(queue, hand), cursor' = cursor
  PROVE  Contiguous' /\ Front' = Front
<1>1. /\ DOMAIN queue = 1 .. Len(queue) /\ DOMAIN queue' = 1 .. Len(queue) + 1
      /\ Len(queue) \in Nat /\ Len(queue') = Len(queue) + 1
      /\ \A i \in 1 .. Len(queue) : queue'[i] = queue[i]
      /\ queue'[Len(queue) + 1] = hand
      /\ queue' \in Seq(Entry)
    BY PutEntries DEF TypeOK, Entry
<1>2. Upcoming = hand.start /\ Upcoming' = cursor /\ End(hand) = cursor
    BY DEF Upcoming, InOrder
<1>3. hand # None /\ hand \in Block
    BY StreamAssumption DEF TypeOK
<1>4. \A i \in DOMAIN queue' : queue'[i] # None
    BY <1>1, <1>3 DEF Contiguous
<1>5. ASSUME NEW i \in DOMAIN queue', i + 1 \in DOMAIN queue'
      PROVE  End(queue'[i]) = queue'[i + 1].start
  <2>1. i \in DOMAIN queue /\ queue'[i] = queue[i]
      BY <1>1, <1>5
  <2>2. CASE i = Len(queue)
    <3>1. queue # <<>> /\ queue'[i + 1] = hand
        BY <1>1, <2>1, <2>2
    <3> QED
        BY <1>2, <2>1, <2>2, <3>1 DEF Contiguous
  <2>3. CASE i # Len(queue)
    <3>1. i + 1 \in DOMAIN queue /\ queue'[i + 1] = queue[i + 1]
        BY <1>1, <2>1, <2>3
    <3> QED
        BY <2>1, <3>1 DEF Contiguous
  <2> QED
      BY <2>2, <2>3
<1>6. End(queue'[Len(queue')]) = Upcoming'
    BY <1>1, <1>2
<1>7. Contiguous'
    BY <1>4, <1>5, <1>6 DEF Contiguous
<1>8. queue' # <<>> /\ Front' = queue'[1].start
    BY <1>1 DEF Front
<1>9. Front = queue'[1].start
  <2>1. CASE queue = <<>>
      BY <1>1, <1>2, <2>1, FrontIs
  <2>2. CASE queue # <<>>
    <3>1. 1 \in 1 .. Len(queue)
        BY <1>1, <2>2, EmptySeq DEF TypeOK
    <3> QED
        BY <1>1, <2>2, <3>1, FrontIs
  <2> QED
      BY <2>1, <2>2
<1> QED
    BY <1>7, <1>8, <1>9
-----------------------------------------------------------------------------
(* Steps.                                                                   *)

LEMMA LossInit == Init => LossInv
<1> SUFFICES ASSUME Init PROVE LossInv
    OBVIOUS
<1>1. /\ queue = <<>> /\ DOMAIN queue = {} /\ Len(queue) = 0
      /\ pc["worker"] \in {"device", "unstarted"} /\ pc["stopper"] = "idle"
    BY DEF Init, Actor
<1>2. Front = cursor
    BY <1>1 DEF Front, InHand
<1> QED
    BY <1>1, <1>2 DEF Init, LossInv, Contiguous, LossIsAccounted

\* The end of a stream is final: from then on LossInv has nothing to say.
LEMMA NotCalm ==
  ASSUME TypeOK, LossInv, stopEvent' = stopEvent, UNCHANGED <<synced, expected, announced, skipped>>,
         stopEvent \/ pc'["stopper"] = pc["stopper"], ~Calm'
  PROVE  LossInv'
BY DEF LossInv, LossIsAccounted, Calm

LEMMA WorkerLoss ==
  ASSUME TypeOK, InOrder, LossInv,
         Callback \/ DeviceEnds \/ PutBlock \/ Evict \/ PutAgain \/ PutFails
  PROVE  LossInv'
<1>0. /\ "worker" \in Actor /\ "stopper" \in Actor
      /\ Streaming \subseteq Label /\ Offering \subseteq Label
      /\ pc["worker"] \in Streaming
      /\ UNCHANGED <<stopEvent, synced, expected, announced, skipped>>
    BY DEF Actor, Label, Callback, DeviceEnds, PutBlock, Evict, PutAgain, PutFails,
           Streaming, cons
<1>1. PICK l \in Label : Goto("worker", l)
    BY <1>0 DEF Callback, DeviceEnds, PutBlock, Evict, PutAgain, PutFails, Streaming, Offering
<1>2. pc'["worker"] = l /\ pc'["stopper"] = pc["stopper"]
    BY <1>0, <1>1, GotoType DEF TypeOK
<1>3. CASE stopEvent
    BY <1>0, <1>2, <1>3, NotCalm DEF Calm
<1>4. CASE ~stopEvent /\ DeviceEnds
  <2>1. pc'["worker"] = "offer"
      BY <1>0, <1>4, GotoType DEF DeviceEnds, TypeOK, Offering
  <2> QED
      BY <1>0, <1>2, <2>1, NotCalm DEF Calm, Streaming
<1>5. CASE ~stopEvent /\ PutFails
    BY <1>0, <1>5 DEF LossInv, Calm, PutFails, TypeOK
<1>6. CASE ~stopEvent /\ Callback
  <2>1. PICK n \in BlockSizes : /\ hand' = [start |-> cursor, size |-> n]
                                /\ cursor' = cursor + n
      BY <1>6 DEF Callback
  <2>2. pc'["worker"] = "put"
      BY <1>0, <1>6, GotoType DEF Callback, TypeOK, Streaming
  <2>3. Upcoming' = Upcoming
      BY <1>6, <2>1, <2>2 DEF Callback, Upcoming, InHand
  <2>4. Contiguous' /\ Front' = Front /\ dropped' = dropped
      BY <1>0, <1>6, <2>3, LossSame DEF Callback, LossInv, Calm
  <2> QED
      BY <1>0, <1>2, <1>6, <2>2, <2>4 DEF LossInv, LossIsAccounted, Calm, Streaming
<1>7. CASE ~stopEvent /\ (PutBlock \/ PutAgain) /\ queue' = Append(queue, hand)
  <2>1. InHand = {hand} /\ pc'["worker"] = "device"
    <3>1. CASE PutBlock
      <4>1. Len(queue) < Capacity
        <5>1. Len(Append(queue, hand)) = Len(queue) + 1 /\ Len(queue) \in Nat
            BY PutEntries DEF TypeOK, Entry
        <5> QED
            BY <1>7, <3>1, <5>1 DEF PutBlock
      <4> QED
          BY <1>0, <3>1, <4>1, GotoType DEF PutBlock, InHand, TypeOK, Streaming
    <3>2. CASE PutAgain
        BY <1>0, <3>2, GotoType DEF PutAgain, InHand, TypeOK, Streaming
    <3> QED
        BY <1>7, <3>1, <3>2
  <2>2. InHand' = {}
      BY <2>1 DEF InHand
  <2>3. cursor' = cursor /\ dropped' = dropped
      BY <1>7 DEF PutBlock, PutAgain, counts
  <2>4. Contiguous' /\ Front' = Front
      BY <1>0, <1>7, <2>1, <2>2, <2>3, LossPut DEF LossInv, Calm
  <2> QED
      BY <1>0, <1>2, <1>7, <2>1, <2>3, <2>4 DEF LossInv, LossIsAccounted, Calm, Streaming
<1>8. CASE ~stopEvent /\ PutBlock /\ queue' # Append(queue, hand)
  <2>1. pc'["worker"] = "evict" /\ queue' = queue /\ UNCHANGED <<counts, hand>>
      BY <1>0, <1>8, GotoType DEF PutBlock, TypeOK, Streaming
  <2>2. Upcoming' = Upcoming
      BY <1>8, <2>1 DEF PutBlock, Upcoming, InHand, counts
  <2>3. Contiguous' /\ Front' = Front /\ dropped' = dropped
      BY <1>0, <1>8, <2>1, <2>2, LossSame DEF LossInv, Calm, counts
  <2> QED
      BY <1>0, <1>2, <1>8, <2>1, <2>3 DEF LossInv, LossIsAccounted, Calm, Streaming
<1>9. CASE ~stopEvent /\ Evict
  <2>1. pc'["worker"] = "again" /\ UNCHANGED <<cursor, hand>>
      BY <1>0, <1>9, GotoType DEF Evict, TypeOK, Streaming
  <2>2. Upcoming' = Upcoming
      BY <1>9, <2>1 DEF Evict, Upcoming, InHand
  <2>3. CASE queue = <<>>
    <3>1. queue' = queue /\ dropped' = dropped /\ Len(queue') = 0
        BY <1>9, <2>3 DEF Evict
    <3>2. Contiguous' /\ Front' = Front /\ Len(queue') < Capacity
        BY <1>0, <1>9, <2>2, <3>1, LossSame, StreamAssumption DEF LossInv, Calm
    <3> QED
        BY <1>0, <1>2, <1>9, <2>1, <3>1, <3>2 DEF LossInv, LossIsAccounted, Calm, Streaming
  <2>4. CASE queue # <<>>
    <3>1. /\ Head(queue) \in Block /\ Contiguous'
          /\ Front = Head(queue).start /\ Front' = End(Head(queue))
        BY <1>0, <1>9, <2>2, <2>4, LossGet DEF Evict, LossInv, Calm
    <3>2. Len(queue') < Capacity
      <4>1. Len(queue') = Len(queue) - 1 /\ Len(queue) \in Nat
          BY <1>9, <2>4, GetEntries DEF Evict, TypeOK
      <4> QED
          BY <4>1, StreamAssumption DEF TypeOK
    <3>3. dropped' = dropped + Head(queue).size
        BY <1>9, <2>4, <3>1, StreamAssumption DEF Evict
    <3>4. /\ Head(queue).start \in Nat /\ Head(queue).size \in Nat
          /\ End(Head(queue)) = Head(queue).start + Head(queue).size
        BY <3>1 DEF Block, End
    <3>5. dropped = announced + skipped + (Front - expected)
        BY <1>0, <1>9 DEF LossInv, LossIsAccounted
    <3>6. dropped' = announced + skipped + (Front' - expected)
        BY <3>1, <3>3, <3>4, <3>5 DEF TypeOK
    <3> QED
        BY <1>0, <1>2, <1>9, <2>1, <3>1, <3>2, <3>6
           DEF LossInv, LossIsAccounted, Calm, Streaming
  <2> QED
      BY <2>3, <2>4
<1>10. CASE ~stopEvent /\ PutAgain
    BY <1>7, <1>10 DEF PutAgain
<1> QED
    BY <1>3, <1>4, <1>5, <1>6, <1>7, <1>8, <1>9, <1>10
\* stop() first sets the stop event, and the worker's sentinel ends it: a
\* sentinel is only ever offered when the stream is no longer calm.
LEMMA OfferLoss ==
  ASSUME TypeOK, LossInv, NEW a \in Actor, Offer(a)
  PROVE  LossInv'
<1>1. UNCHANGED <<stopEvent, synced, expected, announced, skipped>> /\ pc[a] \in Offering
    BY DEF Offer, OfferPut, OfferEvict, OfferAgain, Offering, cons
<1>2. PICK l \in {"offer_evict", "offer_again", IF a = "worker" THEN "done" ELSE "join"} :
          Goto(a, l)
    BY DEF Offer, OfferPut, OfferEvict, OfferAgain, Offered
<1>3. l \in Label /\ l \notin Streaming
    BY <1>2 DEF Label, Offering, Streaming
<1>4. pc'[a] = l /\ \A b \in Actor : b # a => pc'[b] = pc[b]
    BY <1>2, <1>3, GotoType DEF TypeOK
<1>5. CASE a = "worker"
    BY <1>1, <1>3, <1>4, <1>5, NotCalm DEF Actor, Calm
<1>6. CASE a = "stopper"
  <2>1. stopEvent
      BY <1>1, <1>6 DEF LossInv, Offering
  <2> QED
      BY <1>1, <2>1, NotCalm DEF Calm
<1> QED
    BY <1>5, <1>6 DEF Actor

\* What the scan loop receives is announced, or precedes everything it got.
LEMMA ReceiveLoss ==
  ASSUME TypeOK, InOrder, LossInv, Receive
  PROVE  LossInv'
<1>1. /\ UNCHANGED <<counts, stopEvent, pc, hand>> /\ synced' = TRUE
      /\ queue # <<>> /\ queue' = Tail(queue) /\ expected' = End(Head(queue))
    BY DEF Receive
<1>2. Calm' = Calm /\ Upcoming' = Upcoming
    BY <1>1 DEF Calm, Upcoming, InHand, counts
<1>3. CASE ~Calm
    BY <1>1, <1>2, <1>3 DEF LossInv, LossIsAccounted, Calm
<1>4. CASE Calm
  <2>1. /\ Head(queue) \in Block /\ Contiguous'
        /\ Front = Head(queue).start /\ Front' = expected'
      BY <1>1, <1>2, <1>4, LossGet DEF LossInv
  <2>2. expected <= Head(queue).start
    <3>1. Head(queue) = queue[1] /\ 1 \in DOMAIN queue
        BY <1>1, GetEntries DEF TypeOK
    <3> QED
        BY <3>1 DEF Receive, InOrder
  <2>3. Head(queue).start \in Nat /\ End(Head(queue)) \in Nat
      BY <2>1 DEF Block, End
  <2>4. dropped = announced + skipped + (Head(queue).start - expected)
      BY <1>4, <2>1 DEF LossInv, LossIsAccounted, Calm
  <2>5. dropped' = announced' + skipped'
    <3>1. CASE synced
      <4>1. /\ announced' = announced + (Head(queue).start - expected)
            /\ skipped' = skipped
          BY <2>2, <2>3, <3>1 DEF Receive, TypeOK
      <4> QED
          BY <1>1, <2>3, <2>4, <4>1, SMTT(20) DEF counts, TypeOK
    <3>2. CASE ~synced
      <4>1. announced' = announced + 0 /\ skipped' = Head(queue).start
          BY <3>2 DEF Receive
      <4> QED
          BY <1>1, <2>3, <2>4, <3>2, <4>1, SMTT(20) DEF counts, TypeOK, LossInv
    <3> QED
        BY <3>1, <3>2
  <2>6. announced' \in Nat /\ skipped' \in Nat
    <3>1. TypeOK'
        BY TypeStep DEF Next, Consumer
    <3> QED
        BY <3>1 DEF TypeOK
  <2>7. dropped' = announced' + skipped' + (Front' - expected')
      BY <1>1, <2>1, <2>3, <2>5, <2>6
  <2>8. Calm' /\ pc'["worker"] = "again" => Len(queue') < Capacity
    <3>1. Len(queue') = Len(queue) - 1 /\ Len(queue) \in Nat
        BY <1>1, GetEntries DEF TypeOK
    <3> QED
        BY <3>1, StreamAssumption DEF TypeOK
  <2> QED
      BY <1>1, <2>1, <2>7, <2>8 DEF LossInv, LossIsAccounted
<1> QED
    BY <1>3, <1>4

LEMMA LossStep == TypeOK /\ InOrder /\ LossInv /\ [Next]_vars => LossInv'
<1> SUFFICES ASSUME TypeOK, InOrder, LossInv, [Next]_vars PROVE LossInv'
    OBVIOUS
<1>1. CASE UNCHANGED vars
  <2>1. Upcoming' = Upcoming /\ queue' = queue
      BY <1>1 DEF vars, cons, counts, Upcoming, InHand
  <2> QED
      BY <1>1, <2>1, LossSame DEF vars, cons, counts, LossInv, LossIsAccounted, Calm
<1>2. CASE StopBegin
    BY <1>2 DEF StopBegin, LossInv, LossIsAccounted, Calm, cons
<1>3. CASE StopJoin
  <2>1. stopEvent /\ stopEvent'
      BY <1>3 DEF StopJoin, LossInv
  <2> QED
      BY <1>3, <2>1, NotCalm DEF StopJoin, Calm, cons
<1>4. CASE Get
  <2>1. Upcoming' = Upcoming /\ queue' = queue
      BY <1>4 DEF Get, counts, Upcoming, InHand
  <2> QED
      BY <1>4, <2>1, LossSame DEF Get, counts, LossInv, LossIsAccounted, Calm
<1>5. CASE ReceiveNone
  <2>1. 1 \in DOMAIN queue /\ queue[1] = None
      BY <1>5, GetEntries DEF ReceiveNone, TypeOK
  <2>2. ~Calm /\ ~Calm'
      BY <1>5, <2>1 DEF ReceiveNone, LossInv, Contiguous, Calm
  <2> QED
      BY <1>5, <2>2, NotCalm DEF ReceiveNone
<1>6. CASE StopNothing
    BY <1>6 DEF StopNothing, TypeOK, LossInv, LossIsAccounted, Calm, cons, Goto, Streaming
<1>7. CASE Next /\ ~(StopNothing \/ StopBegin \/ StopJoin \/ Get \/ ReceiveNone)
    BY <1>7, WorkerLoss, OfferLoss, ReceiveLoss
       DEF Next, Worker, Stopper, Consumer, Actor
<1> QED
    BY <1>1, <1>2, <1>3, <1>4, <1>5, <1>6, <1>7

\* As long as nobody ends the stream, the loss counter shown to the operator
\* is the loss that the DSP was told of, or will be with the next block.
THEOREM LossCorrect == Spec => []LossIsAccounted
<1>1. TypeOK /\ InOrder /\ LossInv /\ [Next]_vars => LossInv'
    BY LossStep
<1>2. LossInv => LossIsAccounted
    BY DEF LossInv
<1> QED
    BY <1>1, <1>2, LossInit, TypeCorrect, BlocksInOrder, PTL DEF Spec

-----------------------------------------------------------------------------
(* IqStream implements IqChannel: every step of the three threads delivers  *)
(* or loses one block, acquires one, or changes nothing that the channel    *)
(* shows.  Every block in transit is in the queue or in the worker's hand,  *)
(* and InOrder keeps them apart from each other.                            *)

\* A block ends after it starts, so the order of positions tells blocks apart.
LEMMA BlockExtent ==
  ASSUME NEW b \in Block
  PROVE  b.start \in Nat /\ End(b) \in Nat /\ b.start < End(b)
BY DEF Block, End

LEMMA QueuedBlocks ==
  ASSUME TypeOK
  PROVE  Queued \subseteq Block
BY DEF TypeOK, Queued, Entry

\* put_nowait of a block puts it in transit; a sentinel is not a block.
LEMMA QueuedPut ==
  ASSUME TypeOK, NEW e \in Entry, queue' = Append(queue, e)
  PROVE  Queued' = Queued \cup ({e} \ {None})
<1>1. /\ DOMAIN queue = 1 .. Len(queue) /\ DOMAIN queue' = 1 .. Len(queue) + 1
      /\ Len(queue) \in Nat
      /\ \A i \in 1 .. Len(queue) : queue'[i] = queue[i]
      /\ queue'[Len(queue) + 1] = e
    BY PutEntries DEF TypeOK
<1>2. DOMAIN queue' = DOMAIN queue \cup {Len(queue) + 1}
    BY <1>1
<1>3. \A i \in DOMAIN queue : queue'[i] = queue[i]
    BY <1>1
<1> QED
    BY <1>1, <1>2, <1>3 DEF Queued

\* get_nowait takes exactly the first entry out of the queue.
LEMMA QueuedGet ==
  ASSUME TypeOK, InOrder, queue # <<>>, queue' = Tail(queue)
  PROVE  Queued' = Queued \ {Head(queue)}
<1>1. /\ Len(queue) \in Nat \ {0} /\ Head(queue) = queue[1] /\ Head(queue) \in Entry
      /\ DOMAIN queue = 1 .. Len(queue) /\ DOMAIN queue' = 1 .. Len(queue) - 1
      /\ \A i \in 1 .. Len(queue) - 1 : queue'[i] = queue[i + 1]
    BY GetEntries DEF TypeOK
<1>2. ASSUME NEW x \in Queued'
      PROVE  x \in Queued /\ x # Head(queue)
  <2>1. PICK i \in DOMAIN queue' : queue'[i] # None /\ x = queue'[i]
      BY DEF Queued
  <2>2. i + 1 \in DOMAIN queue /\ 1 < i + 1 /\ 1 \in DOMAIN queue /\ x = queue[i + 1]
      BY <1>1, <2>1
  <2>3. x \in Queued /\ x \in Block
      BY <2>1, <2>2, QueuedBlocks DEF Queued
  <2>4. CASE Head(queue) = None
      BY <2>1, <2>3, <2>4
  <2>5. CASE Head(queue) # None
    <3>1. End(Head(queue)) <= x.start
        BY <1>1, <2>1, <2>2, <2>5 DEF InOrder
    <3>2. Head(queue) \in Block
        BY <1>1, <2>5 DEF Entry
    <3> QED
        BY <2>3, <3>1, <3>2, BlockExtent
  <2> QED
      BY <2>4, <2>5
<1>3. ASSUME NEW x \in Queued, x # Head(queue)
      PROVE  x \in Queued'
  <2>1. PICK i \in DOMAIN queue : queue[i] # None /\ x = queue[i]
      BY DEF Queued
  <2>2. i - 1 \in DOMAIN queue' /\ queue'[i - 1] = queue[i]
      BY <1>1, <1>3, <2>1
  <2> QED
      BY <2>1, <2>2 DEF Queued
<1> QED
    BY <1>2, <1>3

\* The block in hand is not in the queue as well.
LEMMA HandApart ==
  ASSUME TypeOK, InOrder
  PROVE  Queued \cap InHand = {}
<1>1. ASSUME NEW b \in Queued, b \in InHand PROVE FALSE
  <2>1. PICK i \in DOMAIN queue : queue[i] # None /\ b = queue[i]
      BY DEF Queued
  <2>2. End(b) <= b.start
      BY <1>1, <2>1 DEF InOrder
  <2> QED
      BY <2>2, BlockExtent, QueuedBlocks
<1> QED
    BY <1>1
-----------------------------------------------------------------------------
(* Steps of the threads as steps of the channel.                            *)

\* Nothing the channel shows changes.
Silent == UNCHANGED <<cursor, Transit, synced, expected, gap>>

Shows == [Channel!Next]_(Channel!cvars)

LEMMA SilentShows == Silent => Shows
BY DEF Silent, Shows, Channel!cvars

\* A block leaves the queue or the worker's hand without being delivered.
LEMMA LoseShows ==
  ASSUME NEW b \in Transit, Transit' = Transit \ {b},
         UNCHANGED <<cursor, synced, expected, gap>>
  PROVE  Shows
BY DEF Shows, Channel!Next, Channel!Lose

\* The same for whatever is at the head of the queue; a sentinel is silent.
LEMMA HeadShows ==
  ASSUME TypeOK, InOrder, queue # <<>>, Queued' = Queued \ {Head(queue)},
         InHand' = InHand, UNCHANGED <<cursor, synced, expected, gap>>
  PROVE  Shows
<1>1. CASE Head(queue) \in Queued
  <2>1. Head(queue) \in Transit /\ Transit' = Transit \ {Head(queue)}
      BY <1>1, HandApart DEF Transit
  <2> QED
      BY <2>1, LoseShows
<1>2. CASE Head(queue) \notin Queued
  <2>1. Transit' = Transit
      BY <1>2 DEF Transit
  <2> QED
      BY <2>1, SilentShows DEF Silent
<1> QED
    BY <1>1, <1>2

LEMMA WorkerShows ==
  ASSUME TypeOK, InOrder,
         Callback \/ DeviceEnds \/ PutBlock \/ Evict \/ PutAgain \/ PutFails
  PROVE  Shows
<1>0. "worker" \in Actor /\ Streaming \subseteq Label /\ Offering \subseteq Label
    BY DEF Actor, Label
<1>1. CASE Callback
  <2>1. PICK n \in BlockSizes : /\ cursor + n <= MaxSample
                                /\ hand' = [start |-> cursor, size |-> n]
                                /\ cursor' = cursor + n
      BY <1>1 DEF Callback
  <2>2. InHand = {} /\ InHand' = {hand'}
      BY <1>0, <1>1, HandAfter DEF Callback, InHand, Streaming
  <2>3. Queued' = Queued /\ UNCHANGED <<synced, expected, gap>>
      BY <1>1 DEF Callback, Queued, cons
  <2>4. Transit' = Transit \cup {[start |-> cursor, size |-> n]}
      BY <2>1, <2>2, <2>3 DEF Transit
  <2>5. Channel!Acquire
      BY <2>1, <2>3, <2>4 DEF Channel!Acquire
  <2> QED
      BY <2>5 DEF Shows, Channel!Next
<1>2. CASE DeviceEnds
  <2>1. InHand = {} /\ InHand' = {}
      BY <1>0, <1>2, HandAfter DEF DeviceEnds, InHand, Offering
  <2> QED
      BY <1>2, <2>1, SilentShows DEF DeviceEnds, Silent, Transit, Queued, counts, cons
<1>3. CASE PutBlock
  <2>1. InHand = {hand} /\ hand \in Entry /\ hand # None
      BY <1>3, StreamAssumption DEF PutBlock, InHand, TypeOK, Entry
  <2>2. CASE Len(queue) < Capacity
    <3>1. InHand' = {}
        BY <1>0, <1>3, <2>2, HandAfter DEF PutBlock, Streaming
    <3>2. Queued' = Queued \cup {hand}
        BY <1>3, <2>1, <2>2, QueuedPut DEF PutBlock
    <3>3. Transit' = Transit
        BY <2>1, <3>1, <3>2 DEF Transit
    <3> QED
        BY <1>3, <3>3, SilentShows DEF PutBlock, Silent, counts, cons
  <2>3. CASE ~(Len(queue) < Capacity)
    <3>1. InHand' = InHand
        BY <1>0, <1>3, <2>1, <2>3, HandAfter DEF PutBlock, Streaming
    <3> QED
        BY <1>3, <2>3, <3>1, SilentShows DEF PutBlock, Silent, Transit, Queued, counts, cons
  <2> QED
      BY <2>2, <2>3
<1>4. CASE Evict
  <2>1. InHand' = InHand /\ UNCHANGED <<cursor, synced, expected, gap>>
      BY <1>0, <1>4, HandAfter DEF Evict, InHand, Streaming, cons
  <2>2. CASE queue = <<>>
      BY <1>4, <2>1, <2>2, SilentShows DEF Evict, Silent, Transit, Queued
  <2>3. CASE queue # <<>>
    <3>1. Queued' = Queued \ {Head(queue)}
        BY <1>4, <2>3, QueuedGet DEF Evict
    <3> QED
        BY <2>1, <2>3, <3>1, HeadShows
  <2> QED
      BY <2>2, <2>3
<1>5. CASE PutAgain
  <2>1. InHand = {hand} /\ InHand' = {} /\ hand \in Entry /\ hand # None
      BY <1>0, <1>5, HandAfter, StreamAssumption
         DEF PutAgain, InHand, Streaming, TypeOK, Entry
  <2>2. Queued' = Queued \cup {hand}
      BY <1>5, <2>1, QueuedPut DEF PutAgain
  <2>3. Transit' = Transit
      BY <2>1, <2>2 DEF Transit
  <2> QED
      BY <1>5, <2>3, SilentShows DEF PutAgain, Silent, counts, cons
<1>6. CASE PutFails
  <2>1. InHand = {hand} /\ InHand' = {}
      BY <1>0, <1>6, HandAfter DEF PutFails, InHand, Streaming, Offering
  <2>2. Queued' = Queued /\ UNCHANGED <<cursor, synced, expected, gap>>
      BY <1>6 DEF PutFails, Queued, counts, cons
  <2>3. hand \in Transit /\ Transit' = Transit \ {hand}
      BY <2>1, <2>2, HandApart DEF Transit
  <2> QED
      BY <2>2, <2>3, LoseShows
<1> QED
    BY <1>1, <1>2, <1>3, <1>4, <1>5, <1>6

LEMMA OfferShows ==
  ASSUME TypeOK, InOrder, NEW a \in Actor, Offer(a)
  PROVE  Shows
<1>1. UNCHANGED <<cursor, synced, expected, gap>> /\ hand' = hand
    BY DEF Offer, OfferPut, OfferEvict, OfferAgain, counts, cons
<1>2. InHand' = InHand
  <2>1. \E l \in {"offer_evict", "offer_again", "done", "join"} : Goto(a, l)
      BY DEF Offer, OfferPut, OfferEvict, OfferAgain, Offered
  <2>2. a = "worker" => InHand = {}
      BY DEF Offer, OfferPut, OfferEvict, OfferAgain, InHand
  <2> QED
      BY <1>1, <2>1, <2>2, HandAfter DEF Actor, Label, Offering
<1>3. CASE queue' = queue
    BY <1>1, <1>2, <1>3, SilentShows DEF Silent, Transit, Queued
<1>4. CASE queue' = Append(queue, None)
  <2>1. Queued' = Queued
      BY <1>4, QueuedPut DEF Entry
  <2> QED
      BY <1>1, <1>2, <2>1, SilentShows DEF Silent, Transit
<1>5. CASE queue # <<>> /\ queue' = Tail(queue)
    BY <1>1, <1>2, <1>5, QueuedGet, HeadShows
<1> QED
    BY <1>3, <1>4, <1>5 DEF Offer, OfferPut, OfferEvict, OfferAgain

\* The head of the queue is the oldest block in transit, and the code's
\* max(0, start - expected) is never cut off at 0.
LEMMA ReceiveShows ==
  ASSUME TypeOK, InOrder, Receive
  PROVE  Shows
<1> DEFINE b == Head(queue)
<1>1. /\ Len(queue) \in Nat \ {0} /\ b = queue[1] /\ b # None
      /\ DOMAIN queue = 1 .. Len(queue) /\ 1 \in DOMAIN queue
    BY GetEntries DEF Receive, TypeOK
<1>2. b \in Queued /\ b \in Block
    BY <1>1, QueuedBlocks DEF Queued
<1>3. /\ InHand' = InHand /\ Queued' = Queued \ {b} /\ cursor' = cursor
      /\ synced' = TRUE /\ expected' = End(b)
    BY <1>1, QueuedGet DEF Receive, InHand, counts
<1>4. b \in Transit /\ Transit' = Transit \ {b}
    BY <1>2, <1>3, HandApart DEF Transit
<1>5. ASSUME NEW c \in Transit PROVE b.start <= c.start
  <2>1. CASE c \in Queued
    <3>1. PICK i \in DOMAIN queue : queue[i] # None /\ c = queue[i]
        BY <2>1 DEF Queued
    <3>2. CASE i = 1
        BY <1>1, <1>2, <3>1, <3>2, BlockExtent
    <3>3. CASE i # 1
      <4>1. End(b) <= c.start
          BY <1>1, <3>1, <3>3 DEF InOrder
      <4>2. c \in Block
          BY <2>1, QueuedBlocks
      <4> QED
          BY <1>2, <4>1, <4>2, BlockExtent
    <3> QED
        BY <3>2, <3>3
  <2>2. CASE c \in InHand
    <3>1. End(b) <= c.start
        BY <1>1, <2>2 DEF InOrder
    <3>2. c \in Block
        BY <2>2 DEF InHand, TypeOK
    <3> QED
        BY <1>2, <3>1, <3>2, BlockExtent
  <2> QED
      BY <2>1, <2>2 DEF Transit
<1>6. expected <= b.start /\ b.start \in Nat /\ expected \in Nat
    BY <1>1, <1>2, BlockExtent DEF InOrder, TypeOK
<1>7. gap' = IF synced THEN b.start - expected ELSE 0
    BY <1>6 DEF Receive
<1>8. expected' = Channel!End(b)
    BY <1>3 DEF End, Channel!End
<1>9. Channel!Deliver
    BY <1>3, <1>4, <1>5, <1>6, <1>7, <1>8 DEF Channel!Deliver
<1> QED
    BY <1>9 DEF Shows, Channel!Next

LEMMA StepShows == TypeOK /\ InOrder /\ [Next]_vars => Shows
<1> SUFFICES ASSUME TypeOK, InOrder, [Next]_vars PROVE Shows
    OBVIOUS
<1>1. CASE UNCHANGED vars
    BY <1>1, SilentShows DEF vars, cons, counts, Silent, Transit, Queued, InHand
<1>2. CASE StopNothing \/ StopBegin \/ StopJoin
  <2>1. InHand' = InHand
    <3>1. \E l \in {"offer", "done"} : Goto("stopper", l)
        BY <1>2 DEF StopNothing, StopBegin, StopJoin
    <3> QED
        BY <1>2, <3>1, HandAfter DEF StopNothing, StopBegin, StopJoin, Actor, Label, Offering
  <2> QED
      BY <1>2, <2>1, SilentShows
         DEF StopNothing, StopBegin, StopJoin, Silent, Transit, Queued, cons, counts
<1>3. CASE Get
    BY <1>3, SilentShows DEF Get, Silent, Transit, Queued, InHand, counts
<1>4. CASE ReceiveNone
  <2>1. InHand' = InHand /\ UNCHANGED <<cursor, synced, expected, gap>>
      BY <1>4 DEF ReceiveNone, InHand, counts
  <2>2. Queued' = Queued \ {Head(queue)}
      BY <1>4, QueuedGet DEF ReceiveNone
  <2> QED
      BY <1>4, <2>1, <2>2, HeadShows DEF ReceiveNone
<1>5. CASE Next /\ ~(StopNothing \/ StopBegin \/ StopJoin \/ Get \/ ReceiveNone)
    BY <1>5, WorkerShows, OfferShows, ReceiveShows
       DEF Next, Worker, Stopper, Consumer, Actor
<1> QED
    BY <1>1, <1>2, <1>3, <1>4, <1>5

\* The bounded queue with its drop-oldest policy, its sentinels and its three
\* threads implements the channel: in order, without duplicates, with every
\* loss announced together with the next block and with its exact size.
THEOREM StreamImplementsChannel == Spec => ImplementsChannel
<1>1. Init => Channel!Init
  <2> SUFFICES ASSUME Init PROVE Channel!Init
      OBVIOUS
  <2>1. DOMAIN queue = {} /\ InHand = {}
      BY DEF Init, InHand, Actor
  <2> QED
      BY <2>1 DEF Init, Channel!Init, Transit, Queued
<1>2. TypeOK /\ InOrder /\ [Next]_vars => [Channel!Next]_(Channel!cvars)
    BY StepShows DEF Shows
<1> QED
    BY <1>1, <1>2, TypeCorrect, BlocksInOrder, PTL DEF Spec, ImplementsChannel, Channel!Spec
=============================================================================
