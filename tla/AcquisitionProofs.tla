------------------------- MODULE AcquisitionProofs -------------------------
(***************************************************************************)
(* Theorems about Acquisition, and about the buffer it is built on, for    *)
(* every pre-trigger, post-trigger and maximum length, every set of centre *)
(* frequencies and of block sizes, and whatever the operator does.         *)
(*                                                                         *)
(* First the buffer by itself; then the scan loop that fills it.           *)
(***************************************************************************)
EXTENDS Acquisition, SequenceTheorems, TLAPS

\* Trimming keeps the last n samples, or all of them.
LEMMA LastNProperties ==
  ASSUME NEW S, NEW s \in Seq(S), NEW n \in Nat
  PROVE  /\ LastN(s, n) \in Seq(S)
         /\ Len(LastN(s, n)) = Least(Len(s), n)
         /\ \A i \in 1 .. Len(LastN(s, n)) :
              LastN(s, n)[i] = s[Len(s) - Len(LastN(s, n)) + i]
<1>1. Len(s) \in Nat
    BY LenProperties
<1>2. CASE Len(s) > n
  <2>1. /\ Len(s) - n + 1 \in 1 .. Len(s) + 1
        /\ \A i \in Len(s) - n + 1 .. Len(s) : s[i] \in S
      BY <1>1, <1>2, ElementOfSeq
  <2>2. /\ SubSeq(s, Len(s) - n + 1, Len(s)) \in Seq(S)
        /\ Len(SubSeq(s, Len(s) - n + 1, Len(s))) = n
        /\ \A i \in 1 .. n :
             SubSeq(s, Len(s) - n + 1, Len(s))[i] = s[(Len(s) - n + 1) + i - 1]
      BY <1>1, <1>2, <2>1, SubSeqProperties
  <2>3. \A i \in 1 .. n : (Len(s) - n + 1) + i - 1 = Len(s) - n + i
      BY <1>1
  <2> QED
      BY <1>1, <1>2, <2>2, <2>3 DEF LastN, Least
<1>3. CASE ~(Len(s) > n)
  <2>1. \A i \in 1 .. Len(s) : Len(s) - Len(s) + i = i
      BY <1>1
  <2> QED
      BY <1>1, <1>3, <2>1 DEF LastN, Least
<1> QED
    BY <1>2, <1>3

\* The first samples of a capture.
LEMMA FirstNProperties ==
  ASSUME NEW S, NEW s \in Seq(S), NEW n \in Nat
  PROVE  /\ SubSeq(s, 1, Least(Len(s), n)) \in Seq(S)
         /\ Len(SubSeq(s, 1, Least(Len(s), n))) = Least(Len(s), n)
         /\ Len(SubSeq(s, 1, Least(Len(s), n))) <= Len(s)
         /\ \A i \in 1 .. Least(Len(s), n) : SubSeq(s, 1, Least(Len(s), n))[i] = s[i]
<1>1. Len(s) \in Nat /\ Least(Len(s), n) \in 0 .. Len(s)
    BY LenProperties DEF Least
<1>2. \A i \in 1 .. Least(Len(s), n) : s[i] \in S
    BY <1>1, ElementOfSeq
<1>3. \A i \in 1 .. Least(Len(s), n) : 1 + i - 1 = i
    BY <1>1
<1>4. /\ SubSeq(s, 1, Least(Len(s), n)) \in Seq(S)
      /\ Len(SubSeq(s, 1, Least(Len(s), n))) = Least(Len(s), n)
      /\ \A i \in 1 .. Least(Len(s), n) - 1 + 1 :
           SubSeq(s, 1, Least(Len(s), n))[i] = s[1 + i - 1]
    BY <1>1, <1>2, SubSeqProperties
<1> QED
    BY <1>1, <1>3, <1>4
-----------------------------------------------------------------------------
(* The three properties support each other: a capture starts at a natural   *)
(* number only because the history is not longer than the cursor, and a     *)
(* saved capture is long enough because of when the pending one was due.    *)

BufferInv == BufferTypeOK /\ PendingInStep /\ CaptureWindow

LEMMA BufferInvInit == BufferInit => BufferInv
<1> SUFFICES ASSUME BufferInit PROVE BufferInv
    OBVIOUS
<1>1. history \in Seq(Sample) /\ Len(history) = 0
    BY DEF BufferInit
<1>2. Pre \in Nat
    BY BufferAssumption
<1> QED
    BY <1>1, <1>2 DEF BufferInit, BufferInv, BufferTypeOK, PendingInStep, CaptureWindow

LEMMA BufferInvAppend ==
  ASSUME BufferInv, NEW s \in Seq(Sample), AppendIq(s)
  PROVE  BufferInv'
<1>0. /\ Pre \in Nat /\ Post \in Nat /\ MaxCapture \in Nat
      /\ history \in Seq(Sample) /\ Len(history) \in Nat
      /\ Len(s) \in Nat /\ sampleCursor \in Nat
    BY BufferAssumption, LenProperties DEF BufferInv, BufferTypeOK
<1>1. /\ history \o s \in Seq(Sample)
      /\ Len(history \o s) = Len(history) + Len(s)
    BY <1>0, ConcatProperties
<1>2. /\ history' \in Seq(Sample)
      /\ Len(history') = Least(Len(history) + Len(s), Pre)
    BY <1>0, <1>1, LastNProperties DEF AppendIq
<1>3. sampleCursor' = sampleCursor + Len(s)
    BY DEF AppendIq
<1>4. Len(history') <= Pre /\ Len(history') <= sampleCursor'
    BY <1>0, <1>2, <1>3 DEF Least, BufferInv, PendingInStep
<1>5. ASSUME NEW p \in pending, NEW q, q = Fed(p, s)
      PROVE  /\ q \in Pending
             /\ Len(q.chunks) = sampleCursor' - q.start
             /\ q.last <= sampleCursor'
             /\ q.deadline <= q.last + Post
             /\ q.deadline >= Least(MaxEnd(q), q.last + Post)
  <2>1. p \in Pending
      BY DEF BufferInv, BufferTypeOK
  <2>2. /\ p.chunks \o s \in Seq(Sample)
        /\ Len(p.chunks \o s) = Len(p.chunks) + Len(s)
        /\ Len(p.chunks) \in Nat
      BY <2>1, ConcatProperties, LenProperties DEF Pending
  <2>3. /\ q \in Pending
        /\ q.chunks = p.chunks \o s
        /\ q.start = p.start /\ q.last = p.last /\ q.deadline = p.deadline
      BY <1>5, <2>1, <2>2 DEF Pending, Fed
  <2>4. /\ Len(p.chunks) = sampleCursor - p.start
        /\ p.last <= sampleCursor
        /\ p.deadline <= p.last + Post
        /\ p.deadline >= Least(MaxEnd(p), p.last + Post)
      BY DEF BufferInv, PendingInStep
  <2>5. p.start \in Nat /\ p.last \in Nat
      BY <2>1 DEF Pending
  <2>6. Len(q.chunks) = sampleCursor' - q.start
      BY <1>0, <1>3, <2>2, <2>3, <2>4, <2>5
  <2>7. q.last <= sampleCursor'
      BY <1>0, <1>3, <2>3, <2>4, <2>5
  <2>8. MaxEnd(q) = MaxEnd(p)
      BY <2>3 DEF MaxEnd
  <2> QED
      BY <2>3, <2>4, <2>6, <2>7, <2>8
<1>6. pending' = {Fed(p, s) : p \in pending} /\ saved' = saved
    BY DEF AppendIq
<1>7. BufferTypeOK'
  <2>1. \A q \in pending' : q \in Pending
      BY <1>5, <1>6
  <2> QED
      BY <1>0, <1>2, <1>3, <1>6, <2>1 DEF BufferInv, BufferTypeOK
<1>8. PendingInStep'
  <2>1. \A p, q \in pending' : p = q
      BY <1>6 DEF BufferInv, PendingInStep
  <2>2. \A q \in pending' : /\ Len(q.chunks) = sampleCursor' - q.start
                            /\ q.last <= sampleCursor'
                            /\ q.deadline <= q.last + Post
                            /\ q.deadline >= Least(MaxEnd(q), q.last + Post)
      BY <1>5, <1>6
  <2> QED
      BY <1>4, <2>1, <2>2 DEF PendingInStep
<1>9. CaptureWindow'
    BY <1>6 DEF BufferInv, CaptureWindow
<1> QED
    BY <1>7, <1>8, <1>9 DEF BufferInv

LEMMA BufferInvTrigger ==
  ASSUME BufferInv, Trigger
  PROVE  BufferInv'
<1>0. /\ Pre \in Nat /\ Post \in Nat /\ MaxCapture \in Nat
      /\ history \in Seq(Sample) /\ Len(history) \in Nat
      /\ sampleCursor \in Nat /\ Len(history) <= sampleCursor
    BY BufferAssumption, LenProperties DEF BufferInv, BufferTypeOK, PendingInStep
<1>1. UNCHANGED <<history, sampleCursor, saved>>
    BY DEF Trigger
<1>2. CASE pending = {}
  <2> DEFINE q == Opened
  <2>1. pending' = {q}
      BY <1>2 DEF Trigger
  <2>2. q \in Pending
      BY <1>0 DEF Pending, Opened
  <2>3. /\ Len(q.chunks) = sampleCursor' - q.start
        /\ q.last <= sampleCursor'
        /\ q.deadline <= q.last + Post
        /\ q.deadline >= Least(MaxEnd(q), q.last + Post)
      BY <1>0, <1>1 DEF MaxEnd, Least, Opened
  <2> HIDE DEF q
  <2> QED
      BY <1>1, <2>1, <2>2, <2>3 DEF BufferInv, BufferTypeOK, PendingInStep, CaptureWindow
<1>3. CASE pending # {}
  <2>1. pending' = {Extended(p) : p \in pending}
      BY <1>3 DEF Trigger
  <2>2. ASSUME NEW p \in pending, NEW q, q = Extended(p)
        PROVE  /\ q \in Pending
               /\ Len(q.chunks) = sampleCursor' - q.start
               /\ q.last <= sampleCursor'
               /\ q.deadline <= q.last + Post
               /\ q.deadline >= Least(MaxEnd(q), q.last + Post)
    <3>1. p \in Pending /\ Len(p.chunks) = sampleCursor - p.start
        BY DEF BufferInv, BufferTypeOK, PendingInStep
    <3>2. MaxEnd(p) \in Nat /\ Least(MaxEnd(p), sampleCursor + Post) \in Nat
        BY <1>0, <3>1 DEF Pending, MaxEnd, Least
    <3>3. /\ q \in Pending
          /\ q.chunks = p.chunks /\ q.start = p.start
          /\ q.last = sampleCursor
          /\ q.deadline = Least(MaxEnd(p), sampleCursor + Post)
        BY <2>2, <1>0, <3>1, <3>2 DEF Pending, Extended
    <3>4. MaxEnd(q) = MaxEnd(p)
        BY <3>3 DEF MaxEnd
    <3>5. Least(MaxEnd(p), sampleCursor + Post) <= sampleCursor + Post
        BY <1>0, <3>2 DEF Least
    <3> QED
        BY <1>0, <1>1, <3>1, <3>2, <3>3, <3>4, <3>5
  <2>3. \A p, q \in pending' : p = q
      BY <2>1 DEF BufferInv, PendingInStep
  <2> QED
      BY <1>1, <2>1, <2>2, <2>3 DEF BufferInv, BufferTypeOK, PendingInStep, CaptureWindow
<1> QED
    BY <1>2, <1>3

LEMMA BufferInvPop ==
  ASSUME BufferInv, PopReady
  PROVE  BufferInv'
<1>0. Post \in Nat /\ MaxCapture \in Nat /\ sampleCursor \in Nat
    BY BufferAssumption DEF BufferInv, BufferTypeOK
<1>1. PICK p \in pending : sampleCursor >= p.deadline /\ saved' = {Clipped(p)}
    BY DEF PopReady
<1> DEFINE c == Clipped(p)
<1>2. /\ p.start \in Nat /\ p.last \in Nat /\ p.deadline \in Nat
      /\ p.chunks \in Seq(Sample)
    BY DEF BufferInv, BufferTypeOK, Pending
<1>3. /\ Len(p.chunks) \in Nat
      /\ Len(p.chunks) = sampleCursor - p.start
      /\ p.deadline >= Least(MaxEnd(p), p.last + Post)
    BY <1>2, LenProperties DEF BufferInv, PendingInStep
<1>4. c.start = p.start /\ c.last = p.last
    BY DEF Clipped
<1>a. c.samples \in Seq(Sample) /\ Len(c.samples) = Least(Len(p.chunks), MaxCapture)
    BY <1>0, <1>2, FirstNProperties DEF Clipped
<1>5. c \in Saved
    BY <1>2, <1>a DEF Saved, Clipped
<1>6. Len(c.samples) <= MaxCapture
    BY <1>0, <1>3, <1>a DEF Least
<1>7. Len(c.samples) >= Least(MaxCapture, c.last + Post - c.start)
  <2>1. Least(Len(p.chunks), MaxCapture) >= Least(MaxCapture, p.last + Post - p.start)
    <3>1. MaxEnd(p) = p.start + MaxCapture
        BY DEF MaxEnd
    <3>2. \/ p.deadline >= p.start + MaxCapture
          \/ p.deadline >= p.last + Post
        BY <1>3, <3>1 DEF Least
    <3>3. \/ Len(p.chunks) >= MaxCapture
          \/ Len(p.chunks) >= p.last + Post - p.start
        BY <1>0, <1>1, <1>2, <1>3, <3>2, SMTT(20)
    <3> QED
        BY <1>0, <1>2, <1>3, <3>3, SMTT(20) DEF Least
  <2> QED
      BY <1>4, <1>a, <2>1
<1>8. saved' = {c} /\ pending' = {} /\ UNCHANGED <<history, sampleCursor>>
    BY <1>1 DEF PopReady
<1> HIDE DEF c
<1> QED
    BY <1>5, <1>6, <1>7, <1>8 DEF BufferInv, BufferTypeOK, PendingInStep, CaptureWindow

\* A gap or a new session empties the buffer.
LEMMA BufferInvEmpty ==
  ASSUME BufferInv, Discontinuity \/ NewBuffer
  PROVE  BufferInv'
<1>0. sampleCursor \in Nat
    BY DEF BufferInv, BufferTypeOK
<1>1. /\ history' \in Seq(Sample) /\ Len(history') = 0 /\ Len(history') <= sampleCursor'
      /\ pending' = {} /\ sampleCursor' \in Nat
  <2>1. CASE Discontinuity
      BY <1>0, <2>1 DEF Discontinuity
  <2>2. CASE NewBuffer
      BY <2>2 DEF NewBuffer
  <2> QED
      BY <2>1, <2>2
<1>2. saved' = saved \/ saved' = {}
    BY DEF Discontinuity, NewBuffer
<1>3. Pre \in Nat
    BY BufferAssumption
<1> QED
    BY <1>1, <1>2, <1>3 DEF BufferInv, BufferTypeOK, PendingInStep, CaptureWindow

LEMMA BufferInvStep == BufferInv /\ [BufferNext]_bufferVars => BufferInv'
<1> SUFFICES ASSUME BufferInv, [BufferNext]_bufferVars PROVE BufferInv'
    OBVIOUS
<1>1. CASE UNCHANGED bufferVars
    BY <1>1 DEF bufferVars, BufferInv, BufferTypeOK, PendingInStep, CaptureWindow
<1>2. CASE BufferNext
    BY <1>2, BufferInvAppend, BufferInvTrigger, BufferInvPop, BufferInvEmpty DEF BufferNext
<1> QED
    BY <1>1, <1>2

\* The buffer's variables keep their types: in particular no capture ever
\* starts before the first sample of the session.
THEOREM BufferTypeCorrect == BufferSpec => []BufferTypeOK
<1> QED
    BY BufferInvInit, BufferInvStep, PTL DEF BufferSpec, BufferInv

\* The history stays within the pre-trigger time, and a pending capture
\* holds exactly the samples from its start to the cursor.
THEOREM BufferInStep == BufferSpec => []PendingInStep
<1> QED
    BY BufferInvInit, BufferInvStep, PTL DEF BufferSpec, BufferInv

\* Every saved capture is within the maximum length and holds the whole
\* post-trigger time after its last burst, or as much of it as the maximum
\* allows.
THEOREM CaptureIsWhole == BufferSpec => []CaptureWindow
<1> QED
    BY BufferInvInit, BufferInvStep, PTL DEF BufferSpec, BufferInv
-----------------------------------------------------------------------------
(* The scan loop.  The types of its variables, among them: every sample it  *)
(* holds has a position in its stream and a centre frequency.               *)

Steps == {"top", "get", "poll", "frame", "bursts", "pop"}

AcquisitionTypeOK ==
    /\ mode \in {"sweep", "focus"} /\ focusCenter \in {0} \cup FocusCenters
    /\ loop \in Steps
    /\ center \in Centers
    /\ iq \in Seq(Sample)
    /\ stream \in Nat /\ sources \in Nat
    /\ cursor \in Nat /\ transit \subseteq Channel!Block
    /\ synced \in BOOLEAN /\ expected \in Nat /\ gap \in Nat
    /\ fed \in BOOLEAN
    /\ disturbed \in BOOLEAN /\ unanalysed \subseteq Sample

LEMMA CentersAreNat == Centers \subseteq Nat
<1> QED
    BY AcquisitionAssumption DEF Centers

\* The samples of one block or read: consecutive, of one source and centre.
LEMMA ReceivedProperties ==
  ASSUME NEW s \in Nat, NEW at \in Nat, NEW n \in Nat, NEW c \in Nat
  PROVE  Received(s, at, n, c) \in Seq(Sample) /\ Len(Received(s, at, n, c)) = n
<1> DEFINE x(i) == [stream |-> s, at |-> at + i - 1, center |-> c]
           r == [i \in 1 .. n |-> x(i)]
<1>1. \A i \in 1 .. n : x(i) \in Sample
    BY DEF Sample
<1> HIDE DEF x
<1>3. r \in [1 .. n -> Sample]
    BY <1>1
<1>4. r \in Seq(Sample)
    BY <1>3, SeqDef
<1>5. Len(r) \in Nat /\ DOMAIN r = 1 .. Len(r)
    BY <1>4, LenProperties
<1>6. DOMAIN r = 1 .. n
    OBVIOUS
<1>7. Len(r) = n
    BY <1>5, <1>6
<1>8. r = Received(s, at, n, c)
    BY DEF Received, x
<1> QED
    BY <1>4, <1>7, <1>8

LEMMA ReceivedElement ==
  ASSUME NEW s \in Nat, NEW at \in Nat, NEW n \in Nat, NEW c \in Nat,
         NEW i \in 1 .. n
  PROVE  /\ Received(s, at, n, c)[i].stream = s
         /\ Received(s, at, n, c)[i].at = at + i - 1
         /\ Received(s, at, n, c)[i].center = c
<1> QED
    BY DEF Received

\* What the loop receives as the next block of a stream.
LEMMA BlockFacts ==
  ASSUME AcquisitionTypeOK, BlockArrives
  PROVE  \E b \in Channel!Block :
           /\ transit' = transit \ {b}
           /\ expected <= b.start
           /\ expected' = b.start + b.size
           /\ gap' = IF synced THEN b.start - expected ELSE 0
           /\ iq' = Received(stream, b.start, b.size, center)
<1>1. PICK b \in transit : /\ expected <= b.start
                           /\ transit' = transit \ {b}
                           /\ expected' = Channel!End(b)
                           /\ gap' = IF synced THEN b.start - expected ELSE 0
    BY DEF BlockArrives, Channel!Deliver
<1>2. b \in Channel!Block /\ b.start \in Nat /\ b.size \in Nat \ {0}
    BY DEF AcquisitionTypeOK, Channel!Block
<1>3. PICK n \in BlockSizes :
          /\ [start |-> expected' - n, size |-> n] \in transit \ transit'
          /\ iq' = Received(stream, expected' - n, n, center)
    BY DEF BlockArrives
<1>4. [start |-> expected' - n, size |-> n] = b
    BY <1>1, <1>3
<1>5. expected' - n = b.start /\ n = b.size
    BY <1>4
<1> QED
    BY <1>1, <1>2, <1>3, <1>5 DEF Channel!End

LEMMA ResetIsTyped ==
  ASSUME ResetChannel
  PROVE  /\ cursor' \in Nat /\ transit' \subseteq Channel!Block
         /\ synced' \in BOOLEAN /\ expected' \in Nat /\ gap' \in Nat
<1> QED
    BY DEF ResetChannel

LEMMA TypeInit == Init => AcquisitionTypeOK
<1> SUFFICES ASSUME Init PROVE AcquisitionTypeOK
    OBVIOUS
<1>1. iq \in Seq(Sample)
    BY EmptySeq DEF Init
<1> QED
    BY <1>1 DEF Init, AcquisitionTypeOK, Channel!Init, Steps, Centers

LEMMA TypeStep == AcquisitionTypeOK /\ [Next]_vars => AcquisitionTypeOK'
<1> SUFFICES ASSUME AcquisitionTypeOK, [Next]_vars PROVE AcquisitionTypeOK'
    OBVIOUS
<1> USE DEF AcquisitionTypeOK
<1>0. CurrentCenter \in Centers
    BY DEF CurrentCenter, Centers
<1>1. CASE UNCHANGED vars
    BY <1>1 DEF vars, operator, run, source, channel, ghosts
<1>2. CASE Focus \/ Unfocus
    BY <1>2 DEF Focus, Unfocus, run, source, channel
<1>3. CASE ChannelStep
  <2>1. CASE Channel!Acquire
    <3>1. PICK n \in BlockSizes :
              /\ transit' = transit \cup {[start |-> cursor, size |-> n]}
              /\ cursor' = cursor + n
        BY <2>1 DEF Channel!Acquire
    <3>2. n \in Nat \ {0}
        BY AcquisitionAssumption
    <3>3. cursor' \in Nat /\ transit' \subseteq Channel!Block
        BY <3>1, <3>2 DEF Channel!Block
    <3> QED
        BY <1>3, <2>1, <3>3 DEF ChannelStep, Channel!Acquire, operator, run, source, ghosts
  <2>2. CASE Channel!Lose
      BY <1>3, <2>2 DEF ChannelStep, Channel!Lose, operator, run, source, ghosts
  <2> QED
      BY <1>3, <2>1, <2>2 DEF ChannelStep
<1>4. CASE OpenStream
  <2>1. sources' \in Nat /\ stream' \in Nat /\ fed' \in BOOLEAN /\ loop' \in Steps
      BY <1>4 DEF OpenStream, Steps
  <2> QED
      BY <1>0, <1>4, <2>1 DEF OpenStream, operator, channel, ghosts
<1>4a. CASE OpenFails
  <2>1. sources' \in Nat /\ stream' \in Nat
      BY <1>4a DEF OpenFails
  <2>2. fed' \in BOOLEAN /\ disturbed' \in BOOLEAN
      BY <1>4a, Zenon DEF OpenFails
  <2> QED
      BY <1>0, <1>4a, <2>1, <2>2 DEF OpenFails, operator, channel
<1>4b. CASE AwaitBlock
    BY <1>0, <1>4b DEF AwaitBlock, operator, source, channel, ghosts, Steps
<1>5. CASE AwaitRead
    BY <1>0, <1>5, ResetIsTyped DEF AwaitRead, NoStream, operator, channel, ghosts, Steps
<1>6. CASE BlockArrives
  <2>1. PICK b \in Channel!Block :
          /\ transit' = transit \ {b}
          /\ expected <= b.start
          /\ expected' = b.start + b.size
          /\ gap' = IF synced THEN b.start - expected ELSE 0
          /\ iq' = Received(stream, b.start, b.size, center)
      BY <1>6, BlockFacts
  <2>2. b.start \in Nat /\ b.size \in Nat
      BY DEF Channel!Block
  <2>3. iq' \in Seq(Sample)
      BY <2>1, <2>2, CentersAreNat, ReceivedProperties
  <2>4. expected' \in Nat /\ gap' \in Nat /\ transit' \subseteq Channel!Block
      BY <2>1, <2>2
  <2>5. synced' \in BOOLEAN /\ cursor' = cursor
      BY <1>6 DEF BlockArrives, Channel!Deliver
  <2> QED
      BY <1>6, <2>3, <2>4, <2>5 DEF BlockArrives, operator, source, ghosts, Steps
<1>7. CASE StreamFails
    BY <1>7, ResetIsTyped DEF StreamFails, NoStream, operator, Steps
<1>8. CASE ReadReturns
  <2>1. PICK n \in BlockSizes : iq' = Received(sources + 1, 0, n, center)
      BY <1>8 DEF ReadReturns
  <2>2. n \in Nat
      BY AcquisitionAssumption
  <2>3. iq' \in Seq(Sample)
      BY <2>1, <2>2, CentersAreNat, ReceivedProperties
  <2> QED
      BY <1>8, <2>3 DEF ReadReturns, operator, source, channel, ghosts, Steps
<1>9. CASE FrameFails
  <2>1. {iq[i] : i \in DOMAIN iq} \subseteq Sample
      BY ElementOfSeq, LenProperties
  <2>2. unanalysed' \subseteq Sample
      BY <1>9, <2>1 DEF FrameFails
  <2> QED
      BY <1>9, <2>2 DEF FrameFails, operator, source, channel, Steps
<1>10. CASE AppendFrame
    BY <1>10, EmptySeq DEF AppendFrame, operator, source, channel, ghosts, Steps
<1>11. CASE Burst \/ NoBurst \/ SaveCapture \/ NothingToSave
    BY <1>11 DEF Burst, NoBurst, SaveCapture, NothingToSave, operator, source, channel, ghosts, Steps
<1>12. CASE Restart
    BY <1>12, ResetIsTyped, EmptySeq DEF Restart, NoStream, Steps
<1>13. CASE ReplaceBuffer
    BY <1>13 DEF ReplaceBuffer, operator, run, source, channel, ghosts
<1> QED
    BY <1>1, <1>2, <1>3, <1>4, <1>4a, <1>4b, <1>5, <1>6, <1>7, <1>8, <1>9, <1>10, <1>11,
       <1>12, <1>13
    DEF Next, Loop

\* The variables of the scan loop keep their types.
THEOREM AcquisitionTyped == Spec => []AcquisitionTypeOK
<1> QED
    BY TypeInit, TypeStep, PTL DEF Spec

\* The scan loop uses the buffer only by its operations, and appends only
\* samples: what holds of the buffer however it is used holds of it here.
THEOREM LoopUsesBuffer == Spec => BufferSpec
<1>1. Init => BufferInit
    BY DEF Init
<1>2. ASSUME AcquisitionTypeOK, [Next]_vars
      PROVE  [BufferNext]_bufferVars
  <2>1. CASE UNCHANGED vars
      BY <2>1 DEF vars
  <2>2. CASE Focus \/ Unfocus \/ ChannelStep \/ OpenStream \/ OpenFails \/ AwaitBlock \/ AwaitRead
      BY <2>2 DEF Focus, Unfocus, ChannelStep, OpenStream, OpenFails, AwaitBlock, AwaitRead
  <2>3. CASE StreamFails \/ ReadReturns \/ FrameFails \/ NoBurst \/ NothingToSave
      BY <2>3 DEF StreamFails, ReadReturns, FrameFails, NoBurst, NothingToSave
  <2>4. CASE BlockArrives \/ Burst \/ SaveCapture \/ Restart \/ ReplaceBuffer
      BY <2>4 DEF BlockArrives, Burst, SaveCapture, Restart, ReplaceBuffer, BufferNext
  <2>5. CASE AppendFrame
      BY <1>2, <2>5 DEF AppendFrame, BufferNext, AcquisitionTypeOK
  <2> QED
      BY <1>2, <2>1, <2>2, <2>3, <2>4, <2>5 DEF Next, Loop
<1> QED
    BY <1>1, <1>2, AcquisitionTyped, PTL DEF Spec, BufferSpec

LEMMA BufferHolds == Spec => []BufferInv
<1> QED
    BY LoopUsesBuffer, BufferInvInit, BufferInvStep, PTL DEF BufferSpec
-----------------------------------------------------------------------------
(* Only windows that cover the grid: a frame is known by its centre until   *)
(* it is appended, and no operation of the buffer invents a sample.         *)

ReceivedAt(c) == {x \in Sample : x.center = c}
Visible == {x \in Sample : x.center \in Observable}

VisibleInv ==
    /\ loop = "frame" => iq \in Seq(ReceivedAt(center))
    /\ \A s \in Pieces : s \in Seq(Visible)

LEMMA ReceivedAtCenter ==
  ASSUME NEW s \in Nat, NEW at \in Nat, NEW n \in Nat, NEW c \in Nat
  PROVE  Received(s, at, n, c) \in Seq(ReceivedAt(c))
<1> DEFINE r == Received(s, at, n, c)
<1>1. r \in Seq(Sample) /\ Len(r) = n
    BY ReceivedProperties
<1>2. ASSUME NEW i \in 1 .. n PROVE r[i].center = c
    BY DEF Received
<1> HIDE DEF r
<1>3. \A i \in 1 .. n : r[i] \in ReceivedAt(c)
    BY <1>1, <1>2, ElementOfSeq DEF ReceivedAt
<1>4. r \in [1 .. n -> ReceivedAt(c)]
    BY <1>1, <1>3, LenProperties
<1>5. r \in Seq(ReceivedAt(c))
    BY <1>4, SeqDef
<1> QED
    BY <1>5 DEF r

LEMMA VisibleInit == Init => VisibleInv
<1> QED
    BY EmptySeq DEF Init, BufferInit, VisibleInv, Pieces

LEMMA VisibleFrame ==
  ASSUME AcquisitionTypeOK, VisibleInv, [Next]_vars
  PROVE  loop' = "frame" => iq' \in Seq(ReceivedAt(center'))
<1>1. CASE UNCHANGED vars
    BY <1>1 DEF vars, run, VisibleInv
<1>2. CASE Focus \/ Unfocus \/ ChannelStep \/ Restart \/ ReplaceBuffer
    BY <1>2 DEF Focus, Unfocus, ChannelStep, Restart, ReplaceBuffer, run, VisibleInv
<1>3. CASE \/ OpenStream \/ OpenFails \/ AwaitBlock \/ AwaitRead \/ StreamFails \/ FrameFails
           \/ AppendFrame \/ Burst \/ NoBurst \/ SaveCapture \/ NothingToSave
    BY <1>3 DEF OpenStream, OpenFails, AwaitBlock, AwaitRead, StreamFails, FrameFails,
                AppendFrame, Burst, NoBurst, SaveCapture, NothingToSave
<1>4. CASE BlockArrives
  <2>1. PICK b \in Channel!Block : iq' = Received(stream, b.start, b.size, center)
      BY <1>4, BlockFacts
  <2>2. center \in Nat /\ b.start \in Nat /\ b.size \in Nat /\ stream \in Nat
      BY CentersAreNat DEF Channel!Block, AcquisitionTypeOK
  <2> QED
      BY <1>4, <2>1, <2>2, ReceivedAtCenter DEF BlockArrives
<1>5. CASE ReadReturns
  <2>1. PICK n \in BlockSizes : iq' = Received(sources + 1, 0, n, center)
      BY <1>5 DEF ReadReturns
  <2>2. center \in Nat /\ n \in Nat /\ sources + 1 \in Nat
      BY CentersAreNat, AcquisitionAssumption DEF AcquisitionTypeOK
  <2> QED
      BY <1>5, <2>1, <2>2, ReceivedAtCenter DEF ReadReturns
<1> QED
    BY <1>1, <1>2, <1>3, <1>4, <1>5 DEF Next, Loop

\* Every operation of the buffer keeps its pieces within a set of samples.
LEMMA PiecesKept ==
  ASSUME BufferInv, NEW S, S \subseteq Sample,
         \A s \in Pieces : s \in Seq(S),
         \/ \E t \in Seq(S) : AppendIq(t)
         \/ Trigger \/ PopReady \/ Discontinuity \/ NewBuffer
         \/ UNCHANGED bufferVars
  PROVE  \A s \in Pieces' : s \in Seq(S)
<1>0. /\ Pre \in Nat /\ MaxCapture \in Nat
      /\ history \in Seq(S)
      /\ \A p \in pending : p.chunks \in Seq(S)
      /\ \A c \in saved : c.samples \in Seq(S)
    BY BufferAssumption DEF Pieces
<1>1. CASE \E t \in Seq(S) : AppendIq(t)
  <2>1. PICK t \in Seq(S) : AppendIq(t)
      BY <1>1
  <2>2. history' \in Seq(S)
    <3>1. history \o t \in Seq(S)
        BY <1>0, ConcatProperties
    <3>2. LastN(history \o t, Pre) \in Seq(S)
        BY <1>0, <3>1, LastNProperties
    <3> QED
        BY <2>1, <3>2 DEF AppendIq
  <2>3. \A p \in pending : Fed(p, t).chunks \in Seq(S)
      BY <1>0, ConcatProperties DEF Fed
  <2>4. \A p \in pending' : p.chunks \in Seq(S)
      BY <2>1, <2>3 DEF AppendIq
  <2>5. saved' = saved
      BY <2>1 DEF AppendIq
  <2> QED
      BY <1>0, <2>2, <2>4, <2>5 DEF Pieces
<1>2. CASE Trigger
  <2>1. \A p \in pending : Extended(p).chunks = p.chunks
      BY DEF Extended
  <2>2. Opened.chunks = history
      BY DEF Opened
  <2>3. \A p \in pending' : p.chunks \in Seq(S)
      BY <1>0, <1>2, <2>1, <2>2 DEF Trigger
  <2> QED
      BY <1>0, <1>2, <2>3 DEF Trigger, Pieces
<1>3. CASE PopReady
  <2>1. PICK p \in pending : saved' = {Clipped(p)}
      BY <1>3 DEF PopReady
  <2>2. Clipped(p).samples \in Seq(S)
      BY <1>0, FirstNProperties DEF Clipped
  <2> QED
      BY <1>0, <1>3, <2>1, <2>2 DEF PopReady, Pieces
<1>4. CASE Discontinuity \/ NewBuffer
    BY <1>0, <1>4, EmptySeq DEF Discontinuity, NewBuffer, Pieces
<1>5. CASE UNCHANGED bufferVars
    BY <1>0, <1>5 DEF bufferVars, Pieces
<1> QED
    BY <1>1, <1>2, <1>3, <1>4, <1>5

LEMMA VisibleStep ==
  ASSUME AcquisitionTypeOK, BufferInv, VisibleInv, [Next]_vars
  PROVE  VisibleInv'
<1>1. \/ \E t \in Seq(Visible) : AppendIq(t)
      \/ Trigger \/ PopReady \/ Discontinuity \/ NewBuffer
      \/ UNCHANGED bufferVars
  <2>1. CASE AppendFrame
    <3>1. CASE center \in Observable
      <4>1. ReceivedAt(center) \subseteq Visible
          BY <3>1 DEF ReceivedAt, Visible
      <4>2. iq \in Seq(Visible)
          BY <2>1, <4>1, SeqMonotonic DEF AppendFrame, VisibleInv
      <4> QED
          BY <2>1, <3>1, <4>2 DEF AppendFrame
    <3>2. CASE center \notin Observable
        BY <2>1, <3>2 DEF AppendFrame
    <3> QED
        BY <3>1, <3>2
  <2>2. CASE UNCHANGED vars
      BY <2>2 DEF vars
  <2>3. CASE Focus \/ Unfocus \/ ChannelStep \/ OpenStream \/ OpenFails \/ AwaitBlock \/ AwaitRead
      BY <2>3 DEF Focus, Unfocus, ChannelStep, OpenStream, OpenFails, AwaitBlock, AwaitRead
  <2>4. CASE StreamFails \/ ReadReturns \/ FrameFails \/ NoBurst \/ NothingToSave
      BY <2>4 DEF StreamFails, ReadReturns, FrameFails, NoBurst, NothingToSave
  <2>5. CASE BlockArrives \/ Burst \/ SaveCapture \/ Restart \/ ReplaceBuffer
      BY <2>5 DEF BlockArrives, Burst, SaveCapture, Restart, ReplaceBuffer
  <2> QED
      BY <2>1, <2>2, <2>3, <2>4, <2>5 DEF Next, Loop
<1>2. \A s \in Pieces : s \in Seq(Visible)
    BY DEF VisibleInv
<1>3. Visible \subseteq Sample
    BY DEF Visible
<1>4. \A s \in Pieces' : s \in Seq(Visible)
    BY <1>1, <1>2, <1>3, PiecesKept
<1> QED
    BY <1>4, VisibleFrame DEF VisibleInv

LEMMA VisibleIsObservable == VisibleInv => OnlyObservable
<1> SUFFICES ASSUME VisibleInv, NEW s \in Pieces, NEW i \in 1 .. Len(s)
             PROVE  s[i].center \in Observable
    BY DEF OnlyObservable
<1>1. s \in Seq(Visible)
    BY DEF VisibleInv
<1> QED
    BY <1>1, ElementOfSeq DEF Visible

\* Whatever the operator does, and however the stream fails, the history of
\* grid evidence and the captures hold only IQ of windows that cover the grid.
THEOREM EvidenceIsObservable == Spec => []OnlyObservable
<1> QED
    BY AcquisitionTyped, BufferHolds, VisibleInit, VisibleStep, VisibleIsObservable, PTL
    DEF Spec
-----------------------------------------------------------------------------
(* Pieces of signal.  Linked(s, R): each sample of s and the next one are   *)
(* in R.  Appending keeps that if it holds at the seam, and trimming and    *)
(* clipping keep it.                                                        *)

Final(s) == s[Len(s)]
Linked(s, R) == \A i \in 1 .. Len(s) - 1 : <<s[i], s[i + 1]>> \in R

\* The two ways the samples of a piece may follow each other.
Following == {x \in Sample \X Sample : Follows(x[1], x[2])}
SameWindow ==
    {x \in Sample \X Sample : Adjacent(x[1], x[2]) /\ x[1].center = x[2].center}

LEMMA FinalProperties ==
  ASSUME NEW S, NEW s \in Seq(S), s # <<>>
  PROVE  Len(s) \in Nat \ {0} /\ Final(s) \in S /\ s[1] \in S
<1>1. Len(s) \in Nat \ {0}
    BY EmptySeq
<1> QED
    BY <1>1, ElementOfSeq DEF Final

LEMMA LinkedAppend ==
  ASSUME NEW R, NEW s \in Seq(Sample), NEW t \in Seq(Sample), t # <<>>,
         Linked(s, R), Linked(t, R),
         s # <<>> => <<Final(s), t[1]>> \in R
  PROVE  /\ Linked(s \o t, R)
         /\ s \o t \in Seq(Sample) /\ s \o t # <<>>
         /\ Final(s \o t) = Final(t)
<1> DEFINE u == s \o t
<1>1. Len(s) \in Nat /\ Len(t) \in Nat \ {0}
    BY LenProperties, EmptySeq
<1>2. /\ u \in Seq(Sample)
      /\ Len(u) = Len(s) + Len(t)
      /\ \A i \in 1 .. Len(s) + Len(t) : u[i] = IF i <= Len(s) THEN s[i] ELSE t[i - Len(s)]
    BY ConcatProperties
<1> HIDE DEF u
<1>3. u # <<>>
    BY <1>1, <1>2, EmptySeq
<1>4. Final(u) = Final(t)
  <2>1. u[Len(s) + Len(t)] = t[Len(s) + Len(t) - Len(s)]
      BY <1>1, <1>2
  <2>2. Len(s) + Len(t) - Len(s) = Len(t)
      BY <1>1
  <2> QED
      BY <1>2, <2>1, <2>2 DEF Final
<1>5. ASSUME NEW i \in 1 .. Len(u) - 1
      PROVE  <<u[i], u[i + 1]>> \in R
  <2>0. i \in Int /\ i \in 1 .. Len(s) + Len(t) /\ i + 1 \in 1 .. Len(s) + Len(t)
      BY <1>1, <1>2
  <2>1. CASE i + 1 <= Len(s)
    <3>1. u[i] = s[i] /\ u[i + 1] = s[i + 1]
        BY <1>1, <1>2, <2>0, <2>1
    <3>2. i \in 1 .. Len(s) - 1
        BY <1>1, <2>0, <2>1
    <3> QED
        BY <3>1, <3>2 DEF Linked
  <2>2. CASE i = Len(s)
    <3>1. u[i] = s[Len(s)]
        BY <1>1, <1>2, <2>0, <2>2
    <3>2. u[i + 1] = t[i + 1 - Len(s)]
        BY <1>1, <1>2, <2>0, <2>2
    <3>3. i + 1 - Len(s) = 1
        BY <1>1, <2>0, <2>2
    <3>4. s # <<>>
        BY <2>0, <2>2, EmptySeq
    <3> QED
        BY <3>1, <3>2, <3>3, <3>4 DEF Final
  <2>3. CASE i > Len(s)
    <3>1. u[i] = t[i - Len(s)] /\ u[i + 1] = t[i + 1 - Len(s)]
        BY <1>1, <1>2, <2>0, <2>3
    <3>2. i - Len(s) \in 1 .. Len(t) - 1 /\ i + 1 - Len(s) = (i - Len(s)) + 1
        BY <1>1, <2>0, <2>3
    <3> QED
        BY <3>1, <3>2 DEF Linked
  <2> QED
      BY <1>1, <2>0, <2>1, <2>2, <2>3
<1>6. Linked(u, R)
    BY <1>5 DEF Linked
<1> QED
    BY <1>2, <1>3, <1>4, <1>6 DEF u

LEMMA LinkedLastN ==
  ASSUME NEW R, NEW s \in Seq(Sample), s # <<>>, NEW n \in Nat \ {0}
  PROVE  /\ Linked(s, R) => Linked(LastN(s, n), R)
         /\ LastN(s, n) \in Seq(Sample) /\ LastN(s, n) # <<>>
         /\ Final(LastN(s, n)) = Final(s)
<1> DEFINE u == LastN(s, n)
           d == Len(s) - Len(u)
<1>1. Len(s) \in Nat \ {0}
    BY EmptySeq
<1>2. /\ u \in Seq(Sample)
      /\ Len(u) = Least(Len(s), n)
      /\ \A i \in 1 .. Len(u) : u[i] = s[Len(s) - Len(u) + i]
    BY LastNProperties
<1> HIDE DEF u
<1>3. Len(u) \in Nat \ {0} /\ Len(u) <= Len(s) /\ d \in Nat /\ d + Len(u) = Len(s)
    BY <1>1, <1>2 DEF Least
<1>4. \A i \in 1 .. Len(u) : u[i] = s[d + i]
    BY <1>2
<1> HIDE DEF d
<1>5. u # <<>> /\ Final(u) = Final(s)
    BY <1>3, <1>4, EmptySeq DEF Final
<1>6. ASSUME Linked(s, R), NEW i \in 1 .. Len(u) - 1
      PROVE  <<u[i], u[i + 1]>> \in R
  <2>1. i \in 1 .. Len(u) /\ i + 1 \in 1 .. Len(u)
      BY <1>3
  <2>2. u[i] = s[d + i] /\ u[i + 1] = s[d + (i + 1)]
      BY <1>4, <2>1
  <2>3. d + i \in 1 .. Len(s) - 1 /\ d + (i + 1) = (d + i) + 1
      BY <1>3
  <2> QED
      BY <1>6, <2>2, <2>3 DEF Linked
<1>7. Linked(s, R) => Linked(u, R)
    BY <1>6 DEF Linked
<1> QED
    BY <1>2, <1>5, <1>7 DEF u

LEMMA LinkedFirstN ==
  ASSUME NEW R, NEW s \in Seq(Sample), NEW n \in Nat, Linked(s, R)
  PROVE  Linked(SubSeq(s, 1, Least(Len(s), n)), R)
<1> DEFINE u == SubSeq(s, 1, Least(Len(s), n))
<1>1. Len(s) \in Nat
    BY LenProperties
<1>2. /\ Len(u) = Least(Len(s), n)
      /\ \A i \in 1 .. Least(Len(s), n) : u[i] = s[i]
    BY FirstNProperties
<1> HIDE DEF u
<1>3. Len(u) \in Nat /\ Len(u) <= Len(s)
    BY <1>1, <1>2 DEF Least
<1>4. ASSUME NEW i \in 1 .. Len(u) - 1
      PROVE  <<u[i], u[i + 1]>> \in R
  <2>1. u[i] = s[i] /\ u[i + 1] = s[i + 1]
      BY <1>2, <1>3
  <2>2. i \in 1 .. Len(s) - 1
      BY <1>1, <1>3
  <2> QED
      BY <2>1, <2>2 DEF Linked
<1> QED
    BY <1>4 DEF Linked, u

\* Neighbours in a stream have nothing between them.
LEMMA NextFollows ==
  ASSUME NEW x \in Sample, NEW y \in Sample, Adjacent(x, y)
  PROVE  Follows(x, y)
<1>1. x.at \in Nat /\ y.at = x.at + 1 /\ x.stream = y.stream
    BY DEF Sample, Adjacent
<1>2. x.at < y.at /\ x.at + 1 .. y.at - 1 = {}
    BY <1>1
<1> QED
    BY <1>1, <1>2 DEF Follows

LEMMA LinkedWeaker ==
  ASSUME NEW s, Linked(s, SameWindow)
  PROVE  Linked(s, Following)
<1>1. \A x \in SameWindow : x \in Following
    BY NextFollows DEF SameWindow, Following
<1> QED
    BY <1>1 DEF Linked

\* A block whose analysis raises only adds to what a piece may join over.
LEMMA LinkedGrows ==
  ASSUME unanalysed \subseteq unanalysed', NEW s, Linked(s, Following)
  PROVE  Linked(s, Following)'
<1>1. ASSUME NEW x \in Sample, NEW y \in Sample, Follows(x, y)
      PROVE  Follows(x, y)'
    BY <1>1 DEF Follows
<1>2. \A x \in Following : x \in Following'
    BY <1>1 DEF Following
<1> QED
    BY <1>2 DEF Linked

\* Steps that leave the skipped samples alone leave both relations alone.
LEMMA WindowKept ==
  ASSUME NEW s
  PROVE  Linked(s, SameWindow)' = Linked(s, SameWindow)
BY DEF Linked, SameWindow, Adjacent

LEMMA EmptyIsLinked == \A R : Linked(<<>>, R)
<1>1. Len(<<>>) = 0
    BY EmptySeq
<1> QED
    BY <1>1 DEF Linked
-----------------------------------------------------------------------------
(* The frame in hand.  A frame of a stream was received at the parked       *)
(* centre, and the consumer expects the block after it; a read has a number *)
(* of its own.                                                              *)

\* The positions of a frame are a stretch without holes.
Stretch(r) ==
    /\ r[1].at <= Final(r).at
    /\ \A k \in r[1].at .. Final(r).at :
         \E i \in DOMAIN r : r[i].stream = r[1].stream /\ r[i].at = k

FrameOK ==
    /\ iq # <<>> /\ Linked(iq, SameWindow)
    /\ Stretch(iq)
    /\ stream = 0 => iq[1].stream = sources /\ Final(iq).stream = sources /\ sources # 0
    /\ stream # 0 =>
         /\ center = Park
         /\ iq[1].stream = stream /\ Final(iq).stream = stream
         /\ iq[1].center = Park /\ Final(iq).center = Park
         /\ synced /\ expected = Final(iq).at + 1

SourceOK ==
    /\ stream <= sources /\ (stream # 0 => stream = sources)
    /\ loop = "get" => stream # 0 /\ center = Park
    /\ loop = "poll" => stream = 0
    /\ loop = "frame" => FrameOK
    /\ ~disturbed =>
         /\ mode = "sweep" /\ unanalysed = {}
         /\ loop # "poll" /\ (loop = "frame" => stream # 0)

LEMMA ReceivedIsFrame ==
  ASSUME NEW s \in Nat, NEW at \in Nat, NEW n \in Nat \ {0}, NEW c \in Nat,
         NEW r, r = Received(s, at, n, c)
  PROVE  /\ r # <<>> /\ Linked(r, SameWindow)
         /\ r[1] = [stream |-> s, at |-> at, center |-> c]
         /\ Final(r) = [stream |-> s, at |-> at + n - 1, center |-> c]
         /\ Stretch(r)
<1>1. r \in Seq(Sample) /\ Len(r) = n
    BY ReceivedProperties
<1>2. \A i \in 1 .. n : r[i] = [stream |-> s, at |-> at + i - 1, center |-> c]
    BY DEF Received
<1>3. r # <<>>
    BY <1>1, EmptySeq
<1>4. r[1] = [stream |-> s, at |-> at, center |-> c]
  <2>1. 1 \in 1 .. n /\ at + 1 - 1 = at
      OBVIOUS
  <2> QED
      BY <1>2, <2>1
<1>5. Final(r) = [stream |-> s, at |-> at + n - 1, center |-> c]
    BY <1>1, <1>2 DEF Final
<1>6. ASSUME NEW i \in 1 .. Len(r) - 1
      PROVE  <<r[i], r[i + 1]>> \in SameWindow
  <2>1. i \in 1 .. n /\ i + 1 \in 1 .. n
      BY <1>1
  <2>2. /\ r[i] = [stream |-> s, at |-> at + i - 1, center |-> c]
        /\ r[i + 1] = [stream |-> s, at |-> at + (i + 1) - 1, center |-> c]
      BY <1>2, <2>1
  <2>3. r[i] \in Sample /\ r[i + 1] \in Sample
      BY <1>1, <2>1, ElementOfSeq
  <2>4. r[i + 1].at = r[i].at + 1
      BY <2>1, <2>2
  <2> QED
      BY <2>2, <2>3, <2>4 DEF SameWindow, Adjacent
<1>7. ASSUME NEW k \in r[1].at .. Final(r).at
      PROVE  \E i \in DOMAIN r : r[i].stream = r[1].stream /\ r[i].at = k
  <2>1. k \in at .. at + n - 1
      BY <1>4, <1>5
  <2>2. k - at + 1 \in 1 .. n /\ at + (k - at + 1) - 1 = k
      BY <2>1
  <2>3. DOMAIN r = 1 .. n
      BY <1>1, LenProperties
  <2>4. r[k - at + 1].stream = s /\ r[k - at + 1].at = k
    <3>1. PICK i \in 1 .. n : i = k - at + 1
        BY <2>2
    <3>2. r[i] = [stream |-> s, at |-> at + i - 1, center |-> c]
        BY <1>2
    <3> QED
        BY <2>1, <3>1, <3>2
  <2> QED
      BY <1>4, <2>2, <2>3, <2>4
<1>8. r[1].at <= Final(r).at
    BY <1>4, <1>5
<1>9. Stretch(r)
    BY <1>7, <1>8 DEF Stretch
<1> QED
    BY <1>3, <1>4, <1>5, <1>6, <1>9 DEF Linked

\* What BlockArrives leaves for the frame.
LEMMA BlockIsFrame ==
  ASSUME AcquisitionTypeOK, SourceOK, BlockArrives
  PROVE  /\ FrameOK'
         /\ stream # 0
         /\ synced /\ gap' = 0 => iq'[1].at = expected
<1>0. \E at \in Nat, n \in Nat \ {0} :
          /\ expected <= at
          /\ expected' = at + n
          /\ gap' = IF synced THEN at - expected ELSE 0
          /\ iq' = Received(stream, at, n, center)
    BY BlockFacts DEF Channel!Block
<1>1. PICK at \in Nat, n \in Nat \ {0} :
          /\ expected <= at
          /\ expected' = at + n
          /\ gap' = IF synced THEN at - expected ELSE 0
          /\ iq' = Received(stream, at, n, center)
    BY <1>0
<1>2. stream \in Nat /\ expected \in Nat
    BY DEF AcquisitionTypeOK
<1>3. /\ stream # 0 /\ center = Park
      /\ UNCHANGED <<stream, center>>
      /\ synced'
    BY DEF BlockArrives, SourceOK, source, Channel!Deliver
<1>4. center \in Nat
    BY AcquisitionAssumption, <1>3
<1> DEFINE r == Received(stream, at, n, center)
<1>a. /\ r # <<>> /\ Linked(r, SameWindow)
      /\ r[1] = [stream |-> stream, at |-> at, center |-> center]
      /\ Final(r) = [stream |-> stream, at |-> at + n - 1, center |-> center]
      /\ Stretch(r)
    BY <1>2, <1>4, ReceivedIsFrame
<1> HIDE DEF r
<1>5. /\ r # <<>> /\ Linked(r, SameWindow)
      /\ r[1].stream = stream /\ r[1].at = at /\ r[1].center = Park
      /\ Final(r).stream = stream /\ Final(r).at + 1 = at + n
      /\ Final(r).center = Park
    BY <1>3, <1>a
<1>6. iq' = r
    BY <1>1 DEF r
<1>7. /\ Final(iq)' = Final(r) /\ Linked(iq, SameWindow)' = Linked(r, SameWindow)
      /\ Stretch(iq)' = Stretch(r)
    BY <1>6 DEF Final, Linked, SameWindow, Adjacent, Stretch
<1>8. FrameOK'
    BY <1>1, <1>3, <1>5, <1>6, <1>7, <1>a DEF FrameOK
<1>9. synced /\ gap' = 0 => at = expected
    BY <1>1, <1>2
<1> QED
    BY <1>3, <1>5, <1>6, <1>8, <1>9

LEMMA ReadIsFrame ==
  ASSUME AcquisitionTypeOK, SourceOK, ReadReturns
  PROVE  FrameOK' /\ stream = 0
<1>1. PICK n \in BlockSizes : iq' = Received(sources + 1, 0, n, center)
    BY DEF ReadReturns
<1>2. /\ n \in Nat \ {0} /\ sources \in Nat /\ sources + 1 \in Nat \ {0}
      /\ center \in Nat
    BY AcquisitionAssumption, CentersAreNat DEF AcquisitionTypeOK
<1>3. /\ stream = 0 /\ stream' = stream /\ sources' = sources + 1
    BY DEF ReadReturns, SourceOK, source
<1> DEFINE r == Received(sources + 1, 0, n, center)
<1>a. /\ r # <<>> /\ Linked(r, SameWindow)
      /\ r[1] = [stream |-> sources + 1, at |-> 0, center |-> center]
      /\ Final(r) = [stream |-> sources + 1, at |-> 0 + n - 1, center |-> center]
      /\ Stretch(r)
  <2>1. PICK k \in Nat, z \in Nat, m \in Nat \ {0}, c \in Nat :
            k = sources + 1 /\ z = 0 /\ m = n /\ c = center
      BY <1>2
  <2>2. PICK q : q = Received(k, z, m, c)
      OBVIOUS
  <2>3. /\ q # <<>> /\ Linked(q, SameWindow)
        /\ q[1] = [stream |-> k, at |-> z, center |-> c]
        /\ Final(q) = [stream |-> k, at |-> z + m - 1, center |-> c]
        /\ Stretch(q)
      BY <2>2, ReceivedIsFrame
  <2>4. q = r
      BY <2>1, <2>2
  <2> HIDE DEF r
  <2> QED
      BY <2>1, <2>3, <2>4
<1> HIDE DEF r
<1>4. /\ r # <<>> /\ Linked(r, SameWindow)
      /\ r[1].stream = sources + 1 /\ Final(r).stream = sources + 1
    BY <1>a
<1>5. iq' = r
    BY <1>1 DEF r
<1>6. /\ Final(iq)' = Final(r) /\ Linked(iq, SameWindow)' = Linked(r, SameWindow)
      /\ Stretch(iq)' = Stretch(r)
    BY <1>5 DEF Final, Linked, SameWindow, Adjacent, Stretch
<1> QED
    BY <1>2, <1>3, <1>4, <1>5, <1>6, <1>a DEF FrameOK

LEMMA SourceInit == Init => SourceOK
<1> QED
    BY DEF Init, SourceOK

LEMMA SourceStep == ASSUME AcquisitionTypeOK, SourceOK, [Next]_vars PROVE SourceOK'
<1> USE DEF SourceOK
<1>0. stream \in Nat /\ sources \in Nat
    BY DEF AcquisitionTypeOK
<1>1. CASE UNCHANGED vars
  <2>1. FrameOK' = FrameOK
      BY <1>1 DEF vars, operator, run, source, channel, FrameOK, Final, Linked, SameWindow, Adjacent, Stretch
  <2> QED
      BY <1>1, <2>1 DEF vars, operator, run, source, channel, ghosts
<1>2. CASE Focus \/ Unfocus
  <2>1. FrameOK' = FrameOK
      BY <1>2 DEF Focus, Unfocus, run, source, channel, FrameOK, Final, Linked, SameWindow, Adjacent, Stretch
  <2> QED
      BY <1>2, <2>1 DEF Focus, Unfocus, run, source, channel
<1>3. CASE ChannelStep
  <2>1. UNCHANGED <<synced, expected>>
      BY <1>3 DEF ChannelStep, Channel!Acquire, Channel!Lose
  <2>2. FrameOK' = FrameOK
      BY <1>3, <2>1 DEF ChannelStep, run, source, FrameOK, Final, Linked, SameWindow, Adjacent, Stretch
  <2> QED
      BY <1>3, <2>2 DEF ChannelStep, operator, run, source, ghosts
<1>4. CASE OpenStream \/ OpenFails
    BY <1>0, <1>4 DEF OpenStream, OpenFails, CurrentCenter, Streams, operator, ghosts
<1>5. CASE AwaitBlock
    BY <1>5 DEF AwaitBlock, CurrentCenter, Streams, operator, source, ghosts
<1>6. CASE AwaitRead
    BY <1>0, <1>6 DEF AwaitRead, NoStream, Streams, operator, ghosts
<1>7. CASE BlockArrives
    BY <1>7, BlockIsFrame DEF BlockArrives, operator, source, ghosts
<1>8. CASE StreamFails
    BY <1>0, <1>8 DEF StreamFails, NoStream
<1>9. CASE ReadReturns
    BY <1>0, <1>9, ReadIsFrame DEF ReadReturns, operator, source, ghosts
<1>10. CASE FrameFails
    BY <1>10 DEF FrameFails, source
<1>11. CASE AppendFrame \/ Burst \/ NoBurst \/ SaveCapture \/ NothingToSave
    BY <1>11 DEF AppendFrame, Burst, NoBurst, SaveCapture, NothingToSave,
                 operator, source, ghosts, AcquisitionTypeOK
<1>12. CASE Restart
    BY <1>0, <1>12 DEF Restart, NoStream
<1>13. CASE ReplaceBuffer
  <2>1. FrameOK' = FrameOK
      BY <1>13 DEF ReplaceBuffer, run, source, channel, FrameOK, Final, Linked, SameWindow, Adjacent, Stretch
  <2> QED
      BY <1>13, <2>1 DEF ReplaceBuffer, operator, run, source, channel, ghosts
<1> QED
    BY <1>1, <1>2, <1>3, <1>4, <1>5, <1>6, <1>7, <1>8, <1>9, <1>10, <1>11, <1>12, <1>13
    DEF Next, Loop
-----------------------------------------------------------------------------
(* Where the live pieces end.  Nothing in the buffer comes from a source    *)
(* not numbered yet.  If the last sample of a piece is of the open stream,  *)
(* what comes next of that stream either goes on from it, apart from blocks *)
(* whose analysis raised, or is a block whose gap the consumer will see.    *)

\* From a to b, the open stream lost nothing: what lies between was skipped.
Covered(a, b) ==
    a < b /\ \A k \in a + 1 .. b - 1 : \E z \in unanalysed : z.stream = stream /\ z.at = k

PieceOK(s) ==
    /\ Linked(s, Following)
    /\ ~disturbed => Linked(s, SameWindow)
    /\ s # <<>> =>
         /\ Final(s).stream <= sources
         /\ loop = "frame" /\ stream = 0 => Final(s).stream < sources
         /\ ~disturbed => stream # 0 /\ Final(s).stream = stream /\ Final(s).center = Park
    /\ s # <<>> /\ stream # 0 /\ Final(s).stream = stream =>
         /\ synced
         /\ loop = "frame" => Covered(Final(s).at, iq[1].at)
         /\ loop # "frame" => Covered(Final(s).at, expected)

Live == {history} \cup {p.chunks : p \in pending}

SpliceInv ==
    /\ SourceOK
    /\ \A s \in Live : PieceOK(s)
    /\ \A c \in saved : Linked(c.samples, Following)

\* While a session lasts, what was skipped stays known.
LEMMA SkippedKept ==
  ASSUME [Next]_vars, ~Restart
  PROVE  unanalysed \subseteq unanalysed'
<1>1. CASE UNCHANGED vars
    BY <1>1 DEF vars, ghosts
<1>2. CASE FrameFails
    BY <1>2 DEF FrameFails
<1>3. CASE \/ Focus \/ Unfocus \/ ChannelStep \/ OpenStream \/ OpenFails
           \/ AwaitBlock \/ AwaitRead \/ ReplaceBuffer
    BY <1>3 DEF Focus, Unfocus, ChannelStep, OpenStream, OpenFails, AwaitBlock, AwaitRead,
                ReplaceBuffer, ghosts
<1>4. CASE \/ BlockArrives \/ StreamFails \/ ReadReturns
           \/ AppendFrame \/ Burst \/ NoBurst \/ SaveCapture \/ NothingToSave
    BY <1>4 DEF BlockArrives, StreamFails, ReadReturns, AppendFrame, Burst, NoBurst,
                SaveCapture, NothingToSave, ghosts
<1> QED
    BY <1>1, <1>2, <1>3, <1>4 DEF Next, Loop

LEMMA CoveredKept ==
  ASSUME unanalysed \subseteq unanalysed', stream' = stream,
         NEW a, NEW b, Covered(a, b)
  PROVE  Covered(a, b)'
BY DEF Covered

\* The frame whose analysis raises takes a piece from its first sample to the
\* position that the consumer expects next.
LEMMA FrameSkipped ==
  ASSUME AcquisitionTypeOK, FrameOK, FrameFails, loop = "frame", stream # 0,
         NEW a \in Nat, Covered(a, iq[1].at)
  PROVE  Covered(a, expected)'
<1>1. iq[1] \in Sample /\ Final(iq) \in Sample
    BY FinalProperties DEF FrameOK, AcquisitionTypeOK
<1>2. /\ iq[1].at \in Nat /\ Final(iq).at \in Nat
      /\ iq[1].stream = stream /\ expected = Final(iq).at + 1
    BY <1>1 DEF FrameOK, Sample
<1>3. /\ stream' = stream /\ expected' = expected
      /\ unanalysed' = unanalysed \cup {iq[i] : i \in DOMAIN iq}
    BY DEF FrameFails, source, channel
<1>4. iq[1].at <= Final(iq).at
    BY DEF FrameOK, Stretch
<1>5. ASSUME NEW k \in a + 1 .. expected - 1
      PROVE  \E z \in unanalysed' : z.stream = stream /\ z.at = k
  <2>1. CASE k < iq[1].at
    <3>1. k \in a + 1 .. iq[1].at - 1
        BY <1>2, <1>5, <2>1
    <3> QED
        BY <1>3, <3>1 DEF Covered
  <2>2. CASE ~(k < iq[1].at)
    <3>1. k \in iq[1].at .. Final(iq).at
        BY <1>2, <1>5, <2>2
    <3>2. PICK i \in DOMAIN iq : iq[i].stream = iq[1].stream /\ iq[i].at = k
        BY <3>1 DEF FrameOK, Stretch
    <3> QED
        BY <1>2, <1>3, <3>2
  <2> QED
      BY <2>1, <2>2
<1>6. a < expected
    BY <1>2, <1>4 DEF Covered
<1> QED
    BY <1>3, <1>5, <1>6 DEF Covered

\* The steps that do not touch a piece leave it in order: a block that does
\* not follow it is announced, and what comes from elsewhere has a new number.
LEMMA PieceKept ==
  ASSUME AcquisitionTypeOK, SourceOK, [Next]_vars,
         NEW s \in Seq(Sample), PieceOK(s),
         ~Restart, ~(BlockArrives /\ gap' # 0),
         ~(AppendFrame /\ center \in Observable)
  PROVE  PieceOK(s)'
<1>c. s # <<>> => Final(s) \in Sample
    BY FinalProperties
<1>0. /\ stream \in Nat /\ sources \in Nat /\ stream <= sources
      /\ s # <<>> => Final(s).stream \in Nat /\ Final(s).at \in Nat
    BY <1>c DEF AcquisitionTypeOK, SourceOK, Sample
<1>a. /\ Linked(s, Following)' /\ Linked(s, SameWindow)' = Linked(s, SameWindow)
      /\ unanalysed \subseteq unanalysed'
    BY SkippedKept, LinkedGrows, WindowKept DEF PieceOK
<1>b. PICK f : f = Final(s) /\ Final(s)' = f
    BY DEF Final
<1>d. ASSUME stream' = stream, NEW a, NEW b, Covered(a, b)
      PROVE  Covered(a, b)'
    BY <1>a, <1>d, CoveredKept
<1>e. \* Steps that leave the source, the frame and the expected position alone.
      ASSUME UNCHANGED <<stream, sources, synced, expected, disturbed>>,
             loop # "frame", loop' # "frame"
      PROVE  PieceOK(s)'
  <2>1. PICK x : x = expected
      OBVIOUS
  <2>2. Covered(f.at, x) => Covered(f.at, x)'
      BY <1>e, <1>d
  <2> QED
      BY <1>a, <1>b, <1>e, <2>1, <2>2 DEF PieceOK
<1>f. \* Steps that leave the frame alone as well.
      ASSUME UNCHANGED <<stream, sources, synced, expected, disturbed, loop, iq>>
      PROVE  PieceOK(s)'
  <2>1. PICK x, y : x = expected /\ y = iq[1].at
      OBVIOUS
  <2>2. /\ Covered(f.at, x) => Covered(f.at, x)'
        /\ Covered(f.at, y) => Covered(f.at, y)'
      BY <1>f, <1>d
  <2> QED
      BY <1>a, <1>b, <1>f, <2>1, <2>2 DEF PieceOK
<1>1. CASE UNCHANGED vars
    BY <1>1, <1>f DEF vars, operator, run, source, channel, ghosts
<1>2. CASE Focus \/ Unfocus
  <2>1. UNCHANGED <<stream, sources, synced, expected, loop, iq>> /\ disturbed'
      BY <1>2 DEF Focus, Unfocus, run, source, channel
  <2>2. PICK x, y : x = expected /\ y = iq[1].at
      OBVIOUS
  <2>3. /\ Covered(f.at, x) => Covered(f.at, x)'
        /\ Covered(f.at, y) => Covered(f.at, y)'
      BY <2>1, <1>d
  <2> QED
      BY <1>a, <1>b, <2>1, <2>2, <2>3 DEF PieceOK
<1>3. CASE ChannelStep
  <2>1. UNCHANGED <<synced, expected>>
      BY <1>3 DEF ChannelStep, Channel!Acquire, Channel!Lose
  <2> QED
      BY <1>3, <1>f, <2>1 DEF ChannelStep, run, source, ghosts
<1>4. CASE OpenStream \/ OpenFails
  <2>1. stream' = sources + 1 /\ sources' = sources + 1 /\ stream = 0 /\ loop' # "frame"
      BY <1>4 DEF OpenStream, OpenFails
  <2>2. disturbed' \/ disturbed' = disturbed
      BY <1>4 DEF OpenStream, OpenFails, ghosts
  <2>3. s # <<>> => f.stream # stream' /\ f.stream <= sources'
      BY <1>0, <1>b, <2>1 DEF PieceOK
  <2> QED
      BY <1>a, <1>b, <2>1, <2>2, <2>3 DEF PieceOK
<1>5. CASE AwaitBlock
    BY <1>5, <1>e DEF AwaitBlock, source, channel, ghosts
<1>6. CASE AwaitRead
  <2>1. stream' = 0 /\ sources' = sources /\ loop' # "frame" /\ disturbed' = disturbed /\ disturbed
      BY <1>6 DEF AwaitRead, NoStream, Streams, ghosts, SourceOK
  <2> QED
      BY <1>a, <1>b, <2>1 DEF PieceOK
<1>7. CASE BlockArrives
  <2>1. gap' = 0
      BY <1>7
  <2>2. stream # 0 /\ (synced => iq'[1].at = expected)
      BY <1>7, <2>1, BlockIsFrame
  <2>3. UNCHANGED <<stream, sources, disturbed>> /\ synced' /\ loop = "get" /\ loop' = "frame"
      BY <1>7 DEF BlockArrives, source, ghosts, Channel!Deliver
  <2>4. PICK x : x = expected
      OBVIOUS
  <2>5. Covered(f.at, x) => Covered(f.at, x)'
      BY <2>3, <1>d
  <2> QED
      BY <1>a, <1>b, <2>2, <2>3, <2>4, <2>5 DEF PieceOK
<1>8. CASE StreamFails
  <2>1. stream' = 0 /\ sources' = sources /\ loop' # "frame" /\ disturbed'
      BY <1>8 DEF StreamFails, NoStream
  <2> QED
      BY <1>a, <1>b, <2>1 DEF PieceOK
<1>9. CASE ReadReturns
  <2>1. stream = 0
      BY <1>9 DEF ReadReturns, SourceOK
  <2>2. /\ UNCHANGED <<stream, disturbed>> /\ sources' = sources + 1
        /\ loop = "poll" /\ loop' = "frame"
      BY <1>9 DEF ReadReturns, source, ghosts
  <2>3. s # <<>> => Final(s).stream <= sources' /\ Final(s).stream < sources'
      BY <1>0, <2>2 DEF PieceOK
  <2> QED
      BY <2>1, <2>2, <2>3, <1>a, <1>b DEF PieceOK
<1>10. CASE FrameFails
  <2>1. /\ UNCHANGED <<stream, sources, synced, expected>>
        /\ disturbed' /\ loop' = "top"
      BY <1>10 DEF FrameFails, source, channel
  <2>2. CASE stream = 0
      BY <1>a, <1>b, <2>1, <2>2 DEF PieceOK
  <2>3. CASE stream # 0
    <3>1. loop = "frame" /\ FrameOK
        BY <1>10, <2>3 DEF FrameFails, SourceOK
    <3>2. ASSUME s # <<>>, f.stream = stream
          PROVE  synced /\ Covered(f.at, expected)'
      <4>1. synced /\ Covered(f.at, iq[1].at) /\ f.at \in Nat
          BY <1>0, <1>b, <2>3, <3>1, <3>2 DEF PieceOK
      <4>2. Covered(f.at, expected)'
          BY <1>10, <2>3, <3>1, <4>1, FrameSkipped
      <4> QED
          BY <4>1, <4>2
    <3> QED
        BY <1>a, <1>b, <2>1, <3>2 DEF PieceOK
  <2> QED
      BY <2>2, <2>3
<1>11. CASE AppendFrame
  <2>1. FrameOK /\ center \notin Observable
      BY <1>11 DEF AppendFrame, SourceOK
  <2>2. stream = 0
      BY <2>1, AcquisitionAssumption DEF FrameOK
  <2>3. /\ UNCHANGED <<stream, sources, disturbed>>
        /\ loop = "frame" /\ loop' = "bursts"
      BY <1>11 DEF AppendFrame, source, ghosts
  <2> QED
      BY <2>2, <2>3, <1>a, <1>b DEF PieceOK
<1>12. CASE Burst \/ NoBurst \/ SaveCapture \/ NothingToSave
    BY <1>12, <1>e DEF Burst, NoBurst, SaveCapture, NothingToSave, source, channel, ghosts
<1>13. CASE ReplaceBuffer
    BY <1>13, <1>f DEF ReplaceBuffer, run, source, channel, ghosts
<1> QED
    BY <1>1, <1>2, <1>3, <1>4, <1>5, <1>6, <1>7, <1>8, <1>9, <1>10, <1>11, <1>12, <1>13
    DEF Next, Loop

LEMMA EmptyPiece == PieceOK(<<>>) /\ PieceOK(<<>>)'
<1>1. \A R : Linked(<<>>, R)
    BY EmptyIsLinked
<1>2. Linked(<<>>, Following)' /\ Linked(<<>>, SameWindow)'
    BY <1>1 DEF Linked
<1> QED
    BY <1>1, <1>2 DEF PieceOK

\* The seam between a live piece and the frame that is appended to it.
LEMMA SeamOK ==
  ASSUME AcquisitionTypeOK, SourceOK, loop = "frame",
         NEW s \in Seq(Sample), PieceOK(s), s # <<>>
  PROVE  /\ <<Final(s), iq[1]>> \in Following
         /\ ~disturbed => <<Final(s), iq[1]>> \in SameWindow
<1>1. FrameOK
    BY DEF SourceOK
<1>2. iq[1] \in Sample /\ Final(iq) \in Sample /\ Final(s) \in Sample
    BY <1>1, FinalProperties DEF FrameOK, AcquisitionTypeOK
<1>3. /\ stream \in Nat /\ sources \in Nat /\ Final(s).stream \in Nat
      /\ Final(s).at \in Nat /\ iq[1].at \in Nat
    BY <1>2 DEF AcquisitionTypeOK, Sample
<1>4. Follows(Final(s), iq[1])
  <2>1. CASE stream = 0
      BY <1>1, <1>3, <2>1 DEF PieceOK, FrameOK, Follows
  <2>2. CASE stream # 0 /\ Final(s).stream = stream
      BY <1>1, <2>2 DEF PieceOK, FrameOK, Follows, Covered
  <2>3. CASE stream # 0 /\ Final(s).stream # stream
    <3>1. iq[1].stream = stream /\ stream = sources /\ Final(s).stream <= sources
        BY <1>1, <2>3 DEF FrameOK, SourceOK, PieceOK
    <3>2. Final(s).stream < iq[1].stream
        BY <1>3, <2>3, <3>1
    <3> QED
        BY <3>2 DEF Follows
  <2> QED
      BY <2>1, <2>2, <2>3
<1>5. ASSUME ~disturbed
      PROVE  Adjacent(Final(s), iq[1]) /\ Final(s).center = iq[1].center
  <2>1. stream # 0 /\ unanalysed = {}
      BY <1>5 DEF SourceOK
  <2>2. /\ Final(s).stream = stream /\ iq[1].stream = stream
        /\ Final(s).center = iq[1].center
      BY <1>1, <1>5, <2>1 DEF PieceOK, FrameOK
  <2>3. Covered(Final(s).at, iq[1].at)
      BY <2>1, <2>2 DEF PieceOK
  <2>4. Final(s).at < iq[1].at /\ Final(s).at + 1 \notin Final(s).at + 1 .. iq[1].at - 1
      BY <2>1, <2>3 DEF Covered
  <2>5. iq[1].at = Final(s).at + 1
      BY <1>3, <2>4
  <2> QED
      BY <2>2, <2>5 DEF Adjacent
<1> DEFINE x == <<Final(s), iq[1]>>
<1>6. x \in Sample \X Sample /\ x[1] = Final(s) /\ x[2] = iq[1]
    BY <1>2
<1> HIDE DEF x
<1>7. x \in Following
    BY <1>4, <1>6 DEF Following
<1>8. ~disturbed => x \in SameWindow
    BY <1>5, <1>6 DEF SameWindow
<1> QED
    BY <1>7, <1>8 DEF x

\* A frame appended to a live piece, whether or not the result is trimmed.
LEMMA PieceAppended ==
  ASSUME AcquisitionTypeOK, SourceOK, AppendFrame,
         NEW s \in Seq(Sample), PieceOK(s),
         NEW t \in Seq(Sample), t = iq
  PROVE  PieceOK(s \o t)' /\ PieceOK(LastN(s \o t, Pre))'
<1>1. /\ loop = "frame" /\ loop' = "bursts" /\ FrameOK
      /\ UNCHANGED <<stream, sources, synced, expected, unanalysed, disturbed>>
    BY DEF AppendFrame, SourceOK, source, channel, ghosts
<1>2. t # <<>> /\ Linked(t, SameWindow) /\ Linked(t, Following)
    BY <1>1, LinkedWeaker DEF FrameOK
<1>3. Pre \in Nat \ {0} /\ stream \in Nat /\ sources \in Nat /\ stream <= sources
    BY BufferAssumption DEF AcquisitionTypeOK, SourceOK
<1>4. ASSUME NEW u \in Seq(Sample), u # <<>>, Final(u) = Final(t),
             Linked(u, Following), ~disturbed => Linked(u, SameWindow)
      PROVE  PieceOK(u)'
  <2>1. Linked(u, Following)' /\ Linked(u, SameWindow)' = Linked(u, SameWindow)
      BY <1>1, <1>4, LinkedGrows, WindowKept
  <2>2. Final(u)' = Final(iq)
      BY <1>4 DEF Final
  <2>3. /\ stream = 0 => Final(iq).stream = sources
        /\ stream # 0 => /\ Final(iq).stream = stream /\ Final(iq).center = Park
                         /\ synced /\ expected = Final(iq).at + 1
      BY <1>1 DEF FrameOK
  <2>4. ~disturbed => stream # 0
      BY <1>1 DEF SourceOK
  <2>a. PICK f \in Sample : f = Final(iq)
      BY <1>1, FinalProperties DEF FrameOK, AcquisitionTypeOK
  <2>5. stream # 0 => Covered(f.at, expected)'
    <3>1. PICK a \in Nat : a = f.at
        BY <2>a DEF Sample
    <3>2. a < a + 1 /\ a + 1 .. (a + 1) - 1 = {}
        BY <3>1
    <3>3. stream # 0 => expected' = a + 1
        BY <1>1, <2>3, <2>a, <3>1
    <3> QED
        BY <3>1, <3>2, <3>3 DEF Covered
  <2>6. u # <<>> /\ Final(u)' = f /\ loop' # "frame"
      BY <1>1, <1>4, <2>2, <2>a
  <2>7. f.stream <= sources'
      BY <1>1, <1>3, <2>3, <2>a
  <2>8. stream # 0 => f.stream = stream /\ f.center = Park /\ synced
      BY <2>3, <2>a
  <2> QED
      BY <1>1, <1>4, <2>1, <2>4, <2>5, <2>6, <2>7, <2>8 DEF PieceOK
<1>5. s \o t \in Seq(Sample) /\ s \o t # <<>> /\ Final(s \o t) = Final(t)
  <2>2. Len(s) \in Nat /\ Len(t) \in Nat \ {0}
      BY <1>2, LenProperties, EmptySeq
  <2>3. /\ s \o t \in Seq(Sample)
        /\ Len(s \o t) = Len(s) + Len(t)
        /\ (s \o t)[Len(s) + Len(t)] = t[Len(s) + Len(t) - Len(s)]
      BY <2>2, ConcatProperties
  <2>4. Len(s) + Len(t) - Len(s) = Len(t) /\ Len(s \o t) # 0
      BY <2>2, <2>3
  <2> QED
      BY <2>3, <2>4, EmptySeq DEF Final
<1>6. /\ Linked(s \o t, Following)
      /\ ~disturbed => Linked(s \o t, SameWindow)
  <2>1. /\ Linked(s, Following)
        /\ ~disturbed => Linked(s, SameWindow)
      BY DEF PieceOK
  <2>2. s # <<>> => /\ <<Final(s), t[1]>> \in Following
                    /\ ~disturbed => <<Final(s), t[1]>> \in SameWindow
      BY <1>1, SeamOK
  <2>3. Linked(s \o t, Following)
      BY <1>2, <2>1, <2>2, LinkedAppend
  <2> QED
      BY <1>2, <2>1, <2>2, <2>3, LinkedAppend
<1>7. PieceOK(s \o t)'
    BY <1>4, <1>5, <1>6
<1>8. /\ LastN(s \o t, Pre) \in Seq(Sample) /\ LastN(s \o t, Pre) # <<>>
      /\ Final(LastN(s \o t, Pre)) = Final(t)
      /\ Linked(LastN(s \o t, Pre), Following)
      /\ ~disturbed => Linked(LastN(s \o t, Pre), SameWindow)
  <2>1. /\ LastN(s \o t, Pre) \in Seq(Sample) /\ LastN(s \o t, Pre) # <<>>
        /\ Final(LastN(s \o t, Pre)) = Final(s \o t)
        /\ Linked(s \o t, Following) => Linked(LastN(s \o t, Pre), Following)
      BY <1>3, <1>5, LinkedLastN
  <2>2. Linked(s \o t, SameWindow) => Linked(LastN(s \o t, Pre), SameWindow)
      BY <1>3, <1>5, LinkedLastN
  <2> QED
      BY <1>5, <1>6, <2>1, <2>2
<1>9. PieceOK(LastN(s \o t, Pre))'
    BY <1>4, <1>8
<1> QED
    BY <1>7, <1>9

LEMMA SpliceInit == Init => SpliceInv
<1> SUFFICES ASSUME Init PROVE SpliceInv
    OBVIOUS
<1>1. Live = {<<>>} /\ saved = {}
    BY DEF Init, BufferInit, Live
<1> QED
    BY <1>1, SourceInit, EmptyPiece DEF SpliceInv

LEMMA SpliceLive ==
  ASSUME AcquisitionTypeOK, BufferInv, SpliceInv, [Next]_vars
  PROVE  \A s \in Live' : PieceOK(s)'
<1>0. /\ SourceOK
      /\ history \in Seq(Sample) /\ PieceOK(history)
      /\ \A p \in pending : p.chunks \in Seq(Sample) /\ PieceOK(p.chunks)
    BY DEF SpliceInv, Live, BufferInv, BufferTypeOK, Pending
<1>1. CASE Restart \/ ReplaceBuffer \/ (BlockArrives /\ gap' # 0)
  <2>1. Live' = {<<>>}
      BY <1>1 DEF Restart, ReplaceBuffer, NewBuffer, BlockArrives, Discontinuity, Live
  <2> QED
      BY <2>1, EmptyPiece
<1>2. CASE AppendFrame /\ center \in Observable
  <2>1. /\ history' = LastN(history \o iq, Pre)
        /\ pending' = {Fed(p, iq) : p \in pending}
      BY <1>2 DEF AppendFrame, AppendIq
  <2>2. iq \in Seq(Sample)
      BY DEF AcquisitionTypeOK
  <2>3. PICK t \in Seq(Sample) : t = iq
      BY <2>2
  <2>h. PICK h \in Seq(Sample) : h = history
      BY <1>0
  <2>4. PieceOK(LastN(h \o t, Pre))'
    <3>1. PieceOK(h)
        BY <1>0, <2>h
    <3> QED
        BY <1>0, <1>2, <2>3, <3>1, PieceAppended
  <2>5. ASSUME NEW p \in pending
        PROVE  PieceOK(p.chunks \o t)'
    <3>1. PICK u \in Seq(Sample) : u = p.chunks
        BY <1>0
    <3>2. PieceOK(u)
        BY <1>0, <3>1
    <3>3. PieceOK(u \o t)'
        BY <1>0, <1>2, <2>3, <3>2, PieceAppended
    <3> QED
        BY <3>1, <3>3
  <2>6. ASSUME NEW s \in Live'
        PROVE  PieceOK(s)'
    <3>1. CASE s = history'
      <4>1. s = LastN(h \o t, Pre)
          BY <2>1, <2>3, <2>h, <3>1
      <4> QED
          BY <2>4, <4>1
    <3>2. CASE s # history'
      <4>1. PICK q \in pending' : s = q.chunks
          BY <3>2 DEF Live
      <4>2. PICK p \in pending : q = Fed(p, iq)
          BY <2>1
      <4>3. s = p.chunks \o t
          BY <2>3, <4>1, <4>2 DEF Fed
      <4> QED
          BY <2>5, <4>3
    <3> QED
        BY <3>1, <3>2
  <2> QED
      BY <2>6
<1>3. CASE /\ ~Restart /\ ~ReplaceBuffer /\ ~(BlockArrives /\ gap' # 0)
           /\ ~(AppendFrame /\ center \in Observable)
  <2>1. \A s \in Live' : s \in Live
    <3>1. CASE UNCHANGED bufferVars
        BY <3>1 DEF bufferVars, Live
    <3>2. CASE Trigger
      <4>1. \A p \in pending : Extended(p).chunks = p.chunks
          BY DEF Extended
      <4>2. Opened.chunks = history
          BY DEF Opened
      <4> QED
          BY <3>2, <4>1, <4>2 DEF Trigger, Live
    <3>3. CASE PopReady
        BY <3>3 DEF PopReady, Live
    <3>4. UNCHANGED bufferVars \/ Trigger \/ PopReady
      <4>1. CASE UNCHANGED vars
          BY <4>1 DEF vars
      <4>2. CASE Focus \/ Unfocus \/ ChannelStep \/ OpenStream \/ OpenFails \/ AwaitBlock \/ AwaitRead
          BY <4>2 DEF Focus, Unfocus, ChannelStep, OpenStream, OpenFails, AwaitBlock, AwaitRead
      <4>3. CASE StreamFails \/ ReadReturns \/ FrameFails \/ NoBurst \/ NothingToSave
          BY <4>3 DEF StreamFails, ReadReturns, FrameFails, NoBurst, NothingToSave
      <4>4. CASE BlockArrives \/ AppendFrame
          BY <1>3, <4>4 DEF BlockArrives, AppendFrame
      <4>5. CASE Burst \/ SaveCapture
          BY <4>5 DEF Burst, SaveCapture
      <4> QED
          BY <1>3, <4>1, <4>2, <4>3, <4>4, <4>5 DEF Next, Loop
    <3> QED
        BY <3>1, <3>2, <3>3, <3>4
  <2>2. ASSUME NEW s \in Live
        PROVE  s \in Seq(Sample) /\ PieceOK(s)
      BY <1>0 DEF Live
  <2>3. ASSUME NEW s \in Live'
        PROVE  PieceOK(s)'
      BY <1>0, <1>3, <2>1, <2>2, <2>3, PieceKept
  <2> QED
      BY <2>3
<1> QED
    BY <1>1, <1>2, <1>3

LEMMA SpliceSaved ==
  ASSUME AcquisitionTypeOK, BufferInv, SpliceInv, [Next]_vars
  PROVE  \A c \in saved' : Linked(c.samples, Following)'
<1>0. \A c \in saved : Linked(c.samples, Following)
    BY DEF SpliceInv
<1>1. CASE Restart \/ ReplaceBuffer
    BY <1>1 DEF Restart, ReplaceBuffer, NewBuffer
<1>2. CASE SaveCapture
  <2>1. PICK p \in pending : saved' = {Clipped(p)}
      BY <1>2 DEF SaveCapture, PopReady
  <2>2. Linked(p.chunks, Following)
      BY DEF SpliceInv, Live, PieceOK
  <2>3. p.chunks \in Seq(Sample) /\ MaxCapture \in Nat
      BY BufferAssumption DEF BufferInv, BufferTypeOK, Pending
  <2>4. PICK u : u = Clipped(p).samples
      OBVIOUS
  <2>5. Linked(u, Following)
      BY <2>2, <2>3, <2>4, LinkedFirstN DEF Clipped
  <2>6. unanalysed' = unanalysed
      BY <1>2 DEF SaveCapture, ghosts
  <2>7. Linked(u, Following)'
      BY <2>5, <2>6, LinkedGrows
  <2> QED
      BY <2>1, <2>4, <2>7
<1>3. CASE ~Restart /\ ~ReplaceBuffer /\ ~SaveCapture
  <2>1. saved' = saved
    <3>1. CASE UNCHANGED vars
        BY <3>1 DEF vars, bufferVars
    <3>2. CASE Focus \/ Unfocus \/ ChannelStep \/ OpenStream \/ OpenFails \/ AwaitBlock \/ AwaitRead
        BY <3>2 DEF Focus, Unfocus, ChannelStep, OpenStream, OpenFails, AwaitBlock, AwaitRead,
                    bufferVars
    <3>3. CASE StreamFails \/ ReadReturns \/ FrameFails \/ NoBurst \/ NothingToSave
        BY <3>3 DEF StreamFails, ReadReturns, FrameFails, NoBurst, NothingToSave, bufferVars
    <3>4. CASE BlockArrives \/ AppendFrame \/ Burst
        BY <3>4 DEF BlockArrives, Discontinuity, AppendFrame, AppendIq, Burst, Trigger,
                    bufferVars
    <3> QED
        BY <1>3, <3>1, <3>2, <3>3, <3>4 DEF Next, Loop
  <2>2. unanalysed \subseteq unanalysed'
      BY <1>3, SkippedKept
  <2>3. ASSUME NEW c \in saved PROVE Linked(c.samples, Following)'
    <3>1. PICK u : u = c.samples
        OBVIOUS
    <3>2. Linked(u, Following)'
        BY <1>0, <2>2, <3>1, LinkedGrows
    <3> QED
        BY <3>1, <3>2
  <2> QED
      BY <2>1, <2>3
<1> QED
    BY <1>1, <1>2, <1>3

LEMMA SpliceStep ==
  ASSUME AcquisitionTypeOK, BufferInv, SpliceInv, [Next]_vars
  PROVE  SpliceInv'
<1>2. \A s \in Live' : PieceOK(s)'
    BY SpliceLive
<1>3. \A c \in saved' : Linked(c.samples, Following)'
    BY SpliceSaved
<1>4. SourceOK'
    BY SourceStep DEF SpliceInv
<1> QED
    BY <1>2, <1>3, <1>4 DEF SpliceInv, Live, PieceOK, Linked, Covered

LEMMA SpliceImplies == SpliceInv => LossNeverJoined /\ ParkedIsContiguous
<1> SUFFICES ASSUME SpliceInv PROVE LossNeverJoined /\ ParkedIsContiguous
    OBVIOUS
<1>1. \A s \in Pieces : Linked(s, Following)
    BY DEF Pieces, SpliceInv, Live, PieceOK
<1>2. ~disturbed => \A s \in Live : Linked(s, SameWindow)
    BY DEF SpliceInv, PieceOK
<1>3. LossNeverJoined
    BY <1>1 DEF LossNeverJoined, Linked, Following
<1>4. ParkedIsContiguous
    BY <1>2 DEF ParkedIsContiguous, Live, Linked, SameWindow
<1> QED
    BY <1>3, <1>4

\* What the queue loses is never joined over, in the history, in a pending
\* capture or in a saved one, whatever fails, whatever the operator does and
\* whatever an update replaces; and no piece of signal goes back in time.
THEOREM LossesBreakPieces == Spec => []LossNeverJoined
<1> QED
    BY AcquisitionTyped, BufferHolds, SpliceInit, SpliceStep, SpliceImplies, PTL
    DEF Spec

\* Without a focus, a failed stream or an error of the analysis since the scan
\* was started, what is joined is one stretch of one stream at one centre.
THEOREM ParkedIsOneStretch == Spec => []ParkedIsContiguous
<1> QED
    BY AcquisitionTyped, BufferHolds, SpliceInit, SpliceStep, SpliceImplies, PTL
    DEF Spec
=============================================================================
