------------------------------ MODULE IqStream ------------------------------
(***************************************************************************)
(* ContinuousIqStream (backend/app/services/iq_stream.py), from its start  *)
(* to its end, with the three threads that share its queue: the worker     *)
(* that owns the SDR, the event loop that calls stop(), and the executor   *)
(* thread on which the scan loop waits in get().  queue.Queue is atomic    *)
(* per call, so each put_nowait and get_nowait is one step.                *)
(*                                                                         *)
(* An operator named Bug... is a wrong variant of the operator after it,   *)
(* which no specification uses.                                            *)
(***************************************************************************)
EXTENDS Integers, Sequences

CONSTANTS BlockSizes,  \* samples one callback of the device can deliver
          MaxSample,   \* bound: samples the device produces
          Capacity,    \* the queue's maxsize, max(2, queue_blocks)
          None         \* the sentinel that ends the stream

Block  == [start : Nat, size : Nat \ {0}]
End(b) == b.start + b.size

ASSUME StreamAssumption ==
    /\ BlockSizes \subseteq Nat \ {0}
    /\ MaxSample \in Nat
    /\ Capacity \in Nat /\ Capacity >= 2
    /\ None \notin Block

VARIABLES
    queue,      \* _queue
    cursor,     \* _sample_cursor, also _samples_acquired
    dropped,    \* _dropped_samples
    stopEvent,  \* _stop_event.is_set()
    error,      \* whether _error is set
    pc,         \* where the worker and the caller of stop() are
    hand,       \* the block _on_samples is about to queue
    consumer,   \* the scan loop: handling a block, waiting in get(), or ended
    synced,     \* whether _expected_stream_sample is set
    expected,   \* _expected_stream_sample
    gap,        \* samples reported to discontinuity() with the last block
    \* What happened so far, for the properties only:
    announced,  \* total of the gaps reported
    skipped     \* position of the first block delivered

cons   == <<consumer, synced, expected, gap, announced, skipped>>
counts == <<cursor, dropped>>
vars   == <<queue, counts, stopEvent, error, pc, hand, cons>>

Entry     == Block \cup {None}
Actor     == {"worker", "stopper"}
Streaming == {"device", "put", "evict", "again"}
Offering  == {"offer", "offer_evict", "offer_again"}
Label     == Streaming \cup Offering \cup {"idle", "unstarted", "join", "done"}

\* Blocks the worker has acquired and not yet put into the queue.
InHand == IF pc["worker"] \in {"put", "evict", "again"} THEN {hand} ELSE {}

NoBlock == [start |-> 0, size |-> 1]

\* The constructor and start(): rate and centre are set and the worker runs;
\* or setting one of them raises, and the scan loop, which has kept the stream
\* already, goes on to call get().
Init ==
    /\ queue = <<>>
    /\ cursor = 0 /\ dropped = 0
    /\ stopEvent = FALSE /\ error = FALSE
    /\ \E l \in {"device", "unstarted"} :
         pc = [a \in Actor |-> IF a = "worker" THEN l ELSE "idle"]
    /\ hand = NoBlock
    /\ consumer = "busy"
    /\ synced = FALSE /\ expected = 0 /\ gap = 0
    /\ announced = 0 /\ skipped = 0

Goto(a, l) == pc' = [pc EXCEPT ![a] = l]

-----------------------------------------------------------------------------
(* The worker thread: _run and the callback _on_samples. *)

\* Bug: the position only counts blocks that entered the queue at once.
BugCallback ==
    /\ pc["worker"] = "device"
    /\ ~stopEvent
    /\ \E n \in BlockSizes :
         /\ cursor + n <= MaxSample
         /\ hand' = [start |-> cursor, size |-> n]
         /\ cursor' = IF Len(queue) < Capacity THEN cursor + n ELSE cursor
    /\ Goto("worker", "put")
    /\ UNCHANGED <<queue, dropped, stopEvent, error, cons>>

\* The device delivers n samples.  Once the stop event is set the callback
\* returns at once: nothing changes.
Callback ==
    /\ pc["worker"] = "device"
    /\ ~stopEvent
    /\ \E n \in BlockSizes :
         /\ cursor + n <= MaxSample
         /\ hand' = [start |-> cursor, size |-> n]
         /\ cursor' = cursor + n
    /\ Goto("worker", "put")
    /\ UNCHANGED <<queue, dropped, stopEvent, error, cons>>

\* Bug: one entry more than maxsize.
BugPutBlock ==
    /\ pc["worker"] = "put"
    /\ IF Len(queue) <= Capacity
       THEN queue' = Append(queue, hand) /\ Goto("worker", "device")
       ELSE UNCHANGED queue /\ Goto("worker", "evict")
    /\ UNCHANGED <<counts, stopEvent, error, hand, cons>>

PutBlock ==
    /\ pc["worker"] = "put"
    /\ IF Len(queue) < Capacity
       THEN queue' = Append(queue, hand) /\ Goto("worker", "device")
       ELSE UNCHANGED queue /\ Goto("worker", "evict")
    /\ UNCHANGED <<counts, stopEvent, error, hand, cons>>

\* Bug: the discarded block is not counted.
BugEvictUncounted ==
    /\ pc["worker"] = "evict"
    /\ queue' = IF queue = <<>> THEN queue ELSE Tail(queue)
    /\ Goto("worker", "again")
    /\ UNCHANGED <<counts, stopEvent, error, hand, cons>>

\* The queue was full: the oldest entry is discarded, unless the consumer
\* has emptied the queue meanwhile.
Evict ==
    /\ pc["worker"] = "evict"
    /\ IF queue = <<>>
       THEN UNCHANGED <<queue, dropped>>
       ELSE /\ queue' = Tail(queue)
            /\ dropped' = IF Head(queue) = None THEN dropped ELSE dropped + Head(queue).size
    /\ Goto("worker", "again")
    /\ UNCHANGED <<cursor, stopEvent, error, hand, cons>>

PutAgain ==
    /\ pc["worker"] = "again"
    /\ Len(queue) < Capacity
    /\ queue' = Append(queue, hand)
    /\ Goto("worker", "device")
    /\ UNCHANGED <<counts, stopEvent, error, hand, cons>>

\* Another thread has refilled the queue: queue.Full leaves the callback.
\* librtlsdr's C caller ignores the exception; a backend in Python raises it
\* out of stream_iq.
PutFails ==
    /\ pc["worker"] = "again"
    /\ Len(queue) = Capacity
    /\ \/ Goto("worker", "device") /\ UNCHANGED error
       \/ Goto("worker", "offer") /\ error' = (error \/ ~stopEvent)
    /\ UNCHANGED <<queue, counts, stopEvent, hand, cons>>

\* Bug: a stream that ends by itself does not wake the consumer.
BugDeviceEnds ==
    /\ pc["worker"] = "device"
    /\ \E raised \in BOOLEAN : error' = (error \/ (raised /\ ~stopEvent))
    /\ Goto("worker", "done")
    /\ UNCHANGED <<queue, counts, stopEvent, hand, cons>>

\* stream_iq returns, or raises: the device is gone or has been cancelled.
DeviceEnds ==
    /\ pc["worker"] = "device"
    /\ \E raised \in BOOLEAN : error' = (error \/ (raised /\ ~stopEvent))
    /\ Goto("worker", "offer")
    /\ UNCHANGED <<queue, counts, stopEvent, hand, cons>>

-----------------------------------------------------------------------------
(* _offer_sentinel, which the worker calls when it ends and stop() calls    *)
(* too, maybe at the same time.                                             *)

Offered(a) == Goto(a, IF a = "worker" THEN "done" ELSE "join")

OfferPut(a) ==
    /\ pc[a] = "offer"
    /\ IF Len(queue) < Capacity
       THEN queue' = Append(queue, None) /\ Offered(a)
       ELSE UNCHANGED queue /\ Goto(a, "offer_evict")
    /\ UNCHANGED <<counts, stopEvent, error, hand, cons>>

OfferEvict(a) ==
    /\ pc[a] = "offer_evict"
    /\ queue' = IF queue = <<>> THEN queue ELSE Tail(queue)
    /\ Goto(a, "offer_again")
    /\ UNCHANGED <<counts, stopEvent, error, hand, cons>>

OfferAgain(a) ==
    /\ pc[a] = "offer_again"
    /\ queue' = IF Len(queue) < Capacity THEN Append(queue, None) ELSE queue
    /\ Offered(a)
    /\ UNCHANGED <<counts, stopEvent, error, hand, cons>>

-----------------------------------------------------------------------------
(* stop(), on the event loop; a second call finds no thread and returns.    *)

\* Without a thread stop() returns at once.
StopNothing ==
    /\ pc["stopper"] = "idle" /\ pc["worker"] = "unstarted"
    /\ Goto("stopper", "done")
    /\ UNCHANGED <<queue, counts, stopEvent, error, hand, cons>>

StopBegin ==
    /\ pc["stopper"] = "idle" /\ pc["worker"] # "unstarted"
    /\ stopEvent' = TRUE
    /\ Goto("stopper", "offer")
    /\ UNCHANGED <<queue, counts, error, hand, cons>>

\* join(timeout=2.0) returns whether or not the worker has ended.
StopJoin ==
    /\ pc["stopper"] = "join"
    /\ Goto("stopper", "done")
    /\ UNCHANGED <<queue, counts, stopEvent, error, hand, cons>>

-----------------------------------------------------------------------------
(* The scan loop: get(), and the continuity check on what it returns.       *)

\* The event loop is inside stop() from its first step to its last.
Get ==
    /\ consumer = "busy"
    /\ pc["stopper"] \in {"idle", "done"}
    /\ consumer' = "waiting"
    /\ UNCHANGED <<queue, counts, stopEvent, error, pc, hand>>
    /\ UNCHANGED <<synced, expected, gap, announced, skipped>>

\* Bug: the next block is expected where this one started.
BugReceive ==
    /\ consumer = "waiting"
    /\ queue # <<>> /\ Head(queue) # None
    /\ LET b == Head(queue)
           missing == IF synced /\ b.start # expected
                      THEN IF b.start > expected THEN b.start - expected ELSE 0
                      ELSE 0
       IN /\ gap' = missing
          /\ announced' = announced + missing
          /\ skipped' = IF synced THEN skipped ELSE b.start
          /\ expected' = b.start
    /\ queue' = Tail(queue)
    /\ synced' = TRUE
    /\ consumer' = "busy"
    /\ UNCHANGED <<counts, stopEvent, error, pc, hand>>

\* max(0, block.start_sample - expected) is reported as missing.
Receive ==
    /\ consumer = "waiting"
    /\ queue # <<>> /\ Head(queue) # None
    /\ LET b == Head(queue)
           missing == IF synced /\ b.start # expected
                      THEN IF b.start > expected THEN b.start - expected ELSE 0
                      ELSE 0
       IN /\ gap' = missing
          /\ announced' = announced + missing
          /\ skipped' = IF synced THEN skipped ELSE b.start
          /\ expected' = End(b)
    /\ queue' = Tail(queue)
    /\ synced' = TRUE
    /\ consumer' = "busy"
    /\ UNCHANGED <<counts, stopEvent, error, pc, hand>>

ReceiveNone ==
    /\ consumer = "waiting"
    /\ queue # <<>> /\ Head(queue) = None
    /\ queue' = Tail(queue)
    /\ consumer' = "ended"
    /\ UNCHANGED <<counts, stopEvent, error, pc, hand>>
    /\ UNCHANGED <<synced, expected, gap, announced, skipped>>

-----------------------------------------------------------------------------
Offer(a) == OfferPut(a) \/ OfferEvict(a) \/ OfferAgain(a)
Worker   == PutBlock \/ Evict \/ PutAgain \/ PutFails \/ Offer("worker")
Stopper  == Offer("stopper") \/ StopJoin
Consumer == Receive \/ ReceiveNone

Next == \/ Callback \/ DeviceEnds \/ Worker
        \/ StopNothing \/ StopBegin \/ Stopper
        \/ Get \/ Consumer

Spec == Init /\ [][Next]_vars

\* The threads are scheduled, and cancel_stream makes stream_iq return.  The
\* device may fall silent otherwise, and nobody has to call stop() or get().
FairSpec ==
    /\ Spec
    /\ WF_vars(Worker) /\ WF_vars(Stopper) /\ WF_vars(Consumer)
    /\ WF_vars(stopEvent /\ DeviceEnds)

-----------------------------------------------------------------------------
(* Properties *)

TypeOK ==
    /\ queue \in Seq(Entry) /\ Len(queue) <= Capacity
    /\ cursor \in Nat /\ dropped \in Nat
    /\ stopEvent \in BOOLEAN /\ error \in BOOLEAN
    /\ pc \in [Actor -> Label]
    /\ pc["worker"] \in Streaming \cup Offering \cup {"unstarted", "done"}
    /\ pc["stopper"] \in Offering \cup {"idle", "join", "done"}
    /\ hand \in Block
    /\ consumer \in {"busy", "waiting", "ended"}
    /\ synced \in BOOLEAN
    /\ expected \in Nat /\ gap \in Nat
    /\ announced \in Nat /\ skipped \in Nat

\* Whatever the three threads interleave, the queue holds blocks in the
\* order of their positions, without overlap, all of them at or after the
\* position the consumer expects and before what the worker acquires next.
InOrder ==
    /\ \A i, j \in DOMAIN queue :
         (i < j /\ queue[i] # None /\ queue[j] # None) => End(queue[i]) <= queue[j].start
    /\ \A i \in DOMAIN queue : queue[i] # None =>
         /\ expected <= queue[i].start
         /\ End(queue[i]) <= cursor
         /\ \A b \in InHand : End(queue[i]) <= b.start
    /\ \A b \in InHand : expected <= b.start /\ End(b) = cursor
    /\ expected <= cursor

\* Position of the oldest sample that is still on its way to the consumer.
Front == IF queue # <<>> THEN queue[1].start
         ELSE IF InHand # {} THEN hand.start ELSE cursor

\* Until the stream is ended, the telemetry and the consumer agree: every
\* sample counted as dropped has been announced to the consumer, precedes
\* the first block it ever got, or will be announced with the next one.
LossIsAccounted ==
    (~stopEvent /\ pc["worker"] \in Streaming) =>
      dropped = announced + skipped + (Front - expected)

\* The blocks acquired and neither delivered nor lost.
Queued  == {queue[i] : i \in {k \in DOMAIN queue : queue[k] # None}}
Transit == Queued \cup InHand

Channel == INSTANCE IqChannel WITH transit <- Transit

\* The queue with its drop-oldest policy is the channel its docstring
\* describes: in order, no duplicates, and every loss announced exactly.
ImplementsChannel == Channel!Spec

\* Once a stream whose worker was started is stopped or has ended, the scan
\* loop does not hang in get(): a waiting consumer gets a block or the
\* sentinel, although sentinels are themselves evicted and evict blocks.  If
\* start() raised there is neither worker nor sentinel, and the consumer waits
\* until its task is cancelled: ScanLifecycle's hanging loop.
Started == pc["worker"] # "unstarted"
ConsumerReleased ==
    /\ consumer = "waiting" /\ Started
    /\ pc["stopper"] # "idle" \/ pc["worker"] = "done"
    ~> consumer # "waiting"
=============================================================================
