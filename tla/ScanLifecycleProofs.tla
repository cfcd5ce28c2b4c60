------------------------ MODULE ScanLifecycleProofs ------------------------
(***************************************************************************)
(* What ScanLifecycle keeps for every number of sessions and of reopened   *)
(* backends: its types and what the clients are told for any number of     *)
(* overlapping requests, who owns the scan loop, the session row and the   *)
(* SDR when requests come one at a time.                                   *)
(***************************************************************************)
EXTENDS ScanLifecycle, FiniteSetTheorems, SequenceTheorems, TLAPS

USE LifecycleAssumption DEF workers

-----------------------------------------------------------------------------
(* Coroutine frames.                                                        *)

\* r is at one of the labels L.
In(r, L) == ~Idle(r) /\ Head(stack[r]) \in L

\* The method r is in was called by one of the frames M.
Under(r, M) == Len(stack[r]) = 2 /\ stack[r][2] \in M

\* The frames of stop_scan and of start_scan, and the frames that wait for
\* them to return.
StopFrames  == {"stop", "stop_wait", "stop_session", "stop_row", "status"}
StartFrames == {"start", "start_insert", "start_go", "status"}
AfterStop   == {"clear_reset", "update_apply", "reopen", "cal_read", "dec_open"}
AfterStart  == {"focus_set", "update_save", "cal_focus"}

Stacks == {<<>>} \cup {<<l>> : l \in Labels}
          \cup {<<l, m>> : l \in StopFrames, m \in AfterStop}
          \cup {<<l, m>> : l \in StartFrames, m \in AfterStart}

Locals == [kind : AllKinds \cup {"none"}, arg : {0} \cup Task, was : BOOLEAN, again : BOOLEAN]

\* The frames r may replace its label by l on: its method stays the same.
SameMethod(k, l) == \/ k \in StopFrames \ {"status"} /\ l \in StopFrames
                    \/ k \in StartFrames \ {"status"} /\ l \in StartFrames
                    \/ k \notin StopFrames \cup StartFrames /\ l \in Labels

\* Frame m calls method l and waits for it.
Callable(l, m) == \/ l = "stop" /\ m \in AfterStop
                  \/ l = "start" /\ m \in AfterStart

LEMMA FrameLabels ==
  StopFrames \cup StartFrames \cup AfterStop \cup AfterStart \subseteq Labels
BY DEF StopFrames, StartFrames, AfterStop, AfterStart, Labels, AllKinds

LEMMA Shape ==
  ASSUME NEW s \in Stacks, s # <<>>
  PROVE  \E l \in Labels : \/ s = <<l>>
                           \/ \E m \in AfterStop : l \in StopFrames /\ s = <<l, m>>
                           \/ \E m \in AfterStart : l \in StartFrames /\ s = <<l, m>>
BY FrameLabels DEF Stacks

LEMMA One ==
  ASSUME NEW k, NEW l, NEW m
  PROVE  /\ <<k>> # <<>> /\ Len(<<k>>) = 1 /\ Head(<<k>>) = k
         /\ Tail(<<k>>) = <<>>
         /\ <<l>> \o Tail(<<k>>) = <<l>> /\ <<l, m>> \o Tail(<<k>>) = <<l, m>>
OBVIOUS

LEMMA Two ==
  ASSUME NEW j, NEW k, NEW l
  PROVE  /\ <<j, k>> # <<>> /\ Len(<<j, k>>) = 2 /\ Head(<<j, k>>) = j /\ <<j, k>>[2] = k
         /\ Tail(<<j, k>>) = <<k>>
         /\ <<l>> \o Tail(<<j, k>>) = <<l, k>>
<1>1. /\ <<j, k>> # <<>> /\ Len(<<j, k>>) = 2 /\ Head(<<j, k>>) = j /\ <<j, k>>[2] = k
    OBVIOUS
<1>2. Tail(<<j, k>>) = <<k>>
    OBVIOUS
<1>3. <<l>> \o <<k>> = <<l, k>>
  <2> DEFINE s == <<l>> \o <<k>>
             S == {k, l}
  <2>1. <<l>> \in Seq(S) /\ <<k>> \in Seq(S) /\ <<l, k>> \in Seq(S)
      OBVIOUS
  <2>2. s \in Seq(S) /\ Len(s) = 2 /\ s[1] = l /\ s[2] = k
      BY <2>1, ConcatProperties
  <2>3. s = <<l, k>>
    <3> HIDE DEF s, S
    <3> QED
        BY <2>1, <2>2, SeqEqual
  <2> QED
      BY <2>3
<1> QED
    BY <1>1, <1>2, <1>3

\* The innermost frame goes on at another label.
LEMMA Retop ==
  ASSUME NEW s \in Stacks, s # <<>>, NEW l, SameMethod(Head(s), l)
  PROVE  LET s2 == <<l>> \o Tail(s) IN
         /\ s2 \in Stacks /\ s2 # <<>> /\ Head(s2) = l /\ Len(s2) = Len(s)
         /\ Len(s) = 2 => s2[2] = s[2]
<1>1. PICK k \in Labels : \/ s = <<k>>
                          \/ \E m \in AfterStop : k \in StopFrames /\ s = <<k, m>>
                          \/ \E m \in AfterStart : k \in StartFrames /\ s = <<k, m>>
    BY Shape
<1>2. CASE s = <<k>>
    BY <1>2, One, FrameLabels DEF Stacks, SameMethod
<1>3. ASSUME NEW m \in AfterStop, k \in StopFrames, s = <<k, m>>
      PROVE  LET s2 == <<l>> \o Tail(s) IN
             /\ s2 = <<l, m>> /\ s2 \in Stacks /\ s[2] = m /\ Len(s) = 2
    BY <1>3, Two DEF SameMethod, StopFrames, StartFrames, Stacks
<1>4. ASSUME NEW m \in AfterStart, k \in StartFrames, s = <<k, m>>
      PROVE  LET s2 == <<l>> \o Tail(s) IN
             /\ s2 = <<l, m>> /\ s2 \in Stacks /\ s[2] = m /\ Len(s) = 2
    BY <1>4, Two DEF SameMethod, StopFrames, StartFrames, Stacks
<1> QED
    BY <1>1, <1>2, <1>3, <1>4, Two

\* A frame that no other frame waits for calls a method and waits for it.
LEMMA Push ==
  ASSUME NEW s \in Stacks, s # <<>>, Head(s) \notin StopFrames \cup StartFrames, NEW l, NEW m,
         Callable(l, m)
  PROVE  LET s2 == <<l, m>> \o Tail(s) IN s2 \in Stacks /\ s2 = <<l, m>>
<1>1. PICK k : s = <<k>>
    BY Shape, Two
<1>2. <<l, m>> \o Tail(s) = <<l, m>>
    BY <1>1, One
<1> QED
    BY <1>2 DEF Stacks, StopFrames, StartFrames, Callable

\* The innermost frame returns.
LEMMA Pop ==
  ASSUME NEW s \in Stacks, s # <<>>
  PROVE  /\ Tail(s) \in Stacks
         /\ \/ Len(s) = 1 /\ Tail(s) = <<>>
            \/ /\ Len(s) = 2 /\ Tail(s) = <<s[2]>>
               /\ \/ Head(s) \in StopFrames /\ s[2] \in AfterStop
                  \/ Head(s) \in StartFrames /\ s[2] \in AfterStart
<1>1. PICK k \in Labels : \/ s = <<k>>
                          \/ \E m \in AfterStop : k \in StopFrames /\ s = <<k, m>>
                          \/ \E m \in AfterStart : k \in StartFrames /\ s = <<k, m>>
    BY Shape
<1>2. CASE s = <<k>>
    BY <1>2, One DEF Stacks
<1>3. ASSUME NEW m \in AfterStop, k \in StopFrames, s = <<k, m>>
      PROVE  Tail(s) = <<m>> /\ <<m>> \in Stacks /\ Len(s) = 2 /\ s[2] = m /\ Head(s) = k
    BY <1>3, Two, FrameLabels DEF Stacks
<1>4. ASSUME NEW m \in AfterStart, k \in StartFrames, s = <<k, m>>
      PROVE  Tail(s) = <<m>> /\ <<m>> \in Stacks /\ Len(s) = 2 /\ s[2] = m /\ Head(s) = k
    BY <1>4, Two, FrameLabels DEF Stacks
<1> QED
    BY <1>1, <1>2, <1>3, <1>4

-----------------------------------------------------------------------------
(* What the primitives do to the frames of r.                               *)

\* No other request is touched.
OthersKept(r) == \A q \in Req \ {r} : stack'[q] = stack[q] /\ loc'[q] = loc[q]

\* r goes on at l with locals v, in the method it was in.
GoesOn(r, l, v) ==
    /\ stack' \in [Req -> Stacks] /\ loc' \in [Req -> Locals] /\ OthersKept(r)
    /\ stack'[r] # <<>> /\ Head(stack'[r]) = l /\ loc'[r] = v
    /\ Len(stack'[r]) = Len(stack[r]) /\ (Len(stack[r]) = 2 => stack'[r][2] = stack[r][2])

Calls(r, l, m, v) ==
    /\ stack' \in [Req -> Stacks] /\ loc' \in [Req -> Locals] /\ OthersKept(r)
    /\ stack'[r] = <<l, m>> /\ loc'[r] = v

Returns(r) ==
    /\ stack' \in [Req -> Stacks] /\ loc' \in [Req -> Locals] /\ OthersKept(r)
    /\ \/ Len(stack[r]) = 1 /\ stack'[r] = <<>>
       \/ /\ Len(stack[r]) = 2 /\ stack'[r] = <<stack[r][2]>>
          /\ \/ Head(stack[r]) \in StopFrames /\ stack[r][2] \in AfterStop
             \/ Head(stack[r]) \in StartFrames /\ stack[r][2] \in AfterStart
          /\ loc'[r] = [loc[r] EXCEPT !.arg = 0]

Fails(r) ==
    /\ stack' \in [Req -> Stacks] /\ loc' \in [Req -> Locals] /\ OthersKept(r)
    /\ stack'[r] = <<>> /\ errored'

FramesOK ==
    /\ stack \in [Req -> Stacks] /\ loc \in [Req -> Locals]
    /\ holder \in Req \cup {NoOne}

LEMMA AwaitFrames ==
  ASSUME FramesOK, NEW r \in Req, ~Idle(r), NEW l, SameMethod(Head(stack[r]), l),
         NEW v \in Locals, AwaitWith(r, l, v) \/ GoWith(r, l, v)
  PROVE  FramesOK' /\ GoesOn(r, l, v)
<1> DEFINE s == stack[r]
           s2 == <<l>> \o Tail(s)
<1>1. s \in Stacks /\ s # <<>>
    BY DEF FramesOK, Idle
<1>2. /\ s2 \in Stacks /\ s2 # <<>> /\ Head(s2) = l /\ Len(s2) = Len(s)
      /\ Len(s) = 2 => s2[2] = s[2]
    BY <1>1, Retop
<1>3. stack' = [stack EXCEPT ![r] = s2] /\ loc' = [loc EXCEPT ![r] = v] /\ holder' \in {NoOne, r}
    BY DEF AwaitWith, GoWith
<1> HIDE DEF s2
<1> QED
    BY <1>2, <1>3 DEF FramesOK, GoesOn, OthersKept

LEMMA CallFrames ==
  ASSUME FramesOK, NEW r \in Req, ~Idle(r), Head(stack[r]) \notin StopFrames \cup StartFrames,
         NEW l, NEW m, Callable(l, m), NEW v \in Locals, CallWith(r, l, m, v)
  PROVE  FramesOK' /\ Calls(r, l, m, v)
BY Push DEF FramesOK, Idle, CallWith, Calls, OthersKept

LEMMA ReturnFrames ==
  ASSUME FramesOK, NEW r \in Req, ~Idle(r), Return(r)
  PROVE  FramesOK' /\ Returns(r)
<1>1. /\ stack' \in [Req -> Stacks] /\ OthersKept(r) /\ stack'[r] = Tail(stack[r])
      /\ loc' \in [Req -> Locals] /\ holder' \in Req \cup {NoOne}
      /\ Len(stack[r]) # 1 => loc'[r] = [loc[r] EXCEPT !.arg = 0]
  <2>1. stack' = [stack EXCEPT ![r] = Tail(stack[r])] /\ Tail(stack[r]) \in Stacks
      BY Pop DEF FramesOK, Idle, Return
  <2>2. loc[r] \in Locals /\ [loc[r] EXCEPT !.arg = 0] \in Locals /\ NoLocals \in Locals
      BY DEF FramesOK, Locals, NoLocals
  <2>3. PICK v \in Locals : /\ loc' = [loc EXCEPT ![r] = v]
                            /\ Len(stack[r]) # 1 => v = [loc[r] EXCEPT !.arg = 0]
      BY <2>2 DEF Return
  <2>4. holder' \in {NoOne, r}
      BY DEF Return
  <2> QED
      BY <2>1, <2>3, <2>4 DEF FramesOK, OthersKept
<1> QED
    BY <1>1, Pop DEF FramesOK, Idle, Returns

LEMMA AbortFrames ==
  ASSUME FramesOK, NEW r \in Req, Abort(r)
  PROVE  FramesOK' /\ Fails(r)
BY DEF FramesOK, Abort, Fails, OthersKept, Locals, NoLocals, Stacks

-----------------------------------------------------------------------------
(* What each operation does to the frames of r, in these words.             *)

ManagerOK == task \in {0} \cup Task /\ sessionId \in {0} \cup Task

LEMMA LocalsSet ==
  ASSUME NEW v \in Locals, NEW a \in {0} \cup Task, NEW b \in BOOLEAN
  PROVE  /\ [v EXCEPT !.arg = a] \in Locals /\ [v EXCEPT !.arg = a].arg = a
         /\ [v EXCEPT !.arg = a].kind = v.kind
         /\ [v EXCEPT !.was = TRUE] \in Locals /\ [v EXCEPT !.was = TRUE].kind = v.kind
         /\ [v EXCEPT !.again = TRUE] \in Locals /\ [v EXCEPT !.again = TRUE].kind = v.kind
         /\ [v EXCEPT !.was = TRUE, !.again = b] \in Locals
         /\ [v EXCEPT !.was = TRUE, !.again = b].kind = v.kind
BY DEF Locals

\* The three ways a running method goes on.
LEMMA Primitives ==
  ASSUME FramesOK, NEW r \in Req, ~Idle(r)
  PROVE  /\ \A l \in Labels, v \in Locals :
              SameMethod(Head(stack[r]), l) /\ (AwaitWith(r, l, v) \/ GoWith(r, l, v))
                => FramesOK' /\ GoesOn(r, l, v)
         /\ \A m \in AfterStop, v \in Locals :
              Head(stack[r]) \notin StopFrames \cup StartFrames /\ CallWith(r, "stop", m, v)
                => FramesOK' /\ Calls(r, "stop", m, v)
         /\ \A m \in AfterStart, v \in Locals :
              Head(stack[r]) \notin StopFrames \cup StartFrames /\ CallWith(r, "start", m, v)
                => FramesOK' /\ Calls(r, "start", m, v)
         /\ Return(r) => FramesOK' /\ Returns(r)
         /\ Abort(r) => FramesOK' /\ Fails(r)
         /\ loc[r] \in Locals
<1>1. loc[r] \in Locals
    BY DEF FramesOK
<1>2. ASSUME NEW l \in Labels, NEW v \in Locals, SameMethod(Head(stack[r]), l),
             AwaitWith(r, l, v) \/ GoWith(r, l, v)
      PROVE  FramesOK' /\ GoesOn(r, l, v)
    BY <1>2, AwaitFrames
<1>3. ASSUME NEW m \in AfterStop, NEW v \in Locals, CallWith(r, "stop", m, v),
             Head(stack[r]) \notin StopFrames \cup StartFrames
      PROVE  FramesOK' /\ Calls(r, "stop", m, v)
  <2>1. Callable("stop", m)
      BY DEF Callable
  <2> QED
      BY <1>3, <2>1, CallFrames
<1>4. ASSUME NEW m \in AfterStart, NEW v \in Locals, CallWith(r, "start", m, v),
             Head(stack[r]) \notin StopFrames \cup StartFrames
      PROVE  FramesOK' /\ Calls(r, "start", m, v)
  <2>1. Callable("start", m)
      BY DEF Callable
  <2> QED
      BY <1>4, <2>1, CallFrames
<1>5. (Return(r) => FramesOK' /\ Returns(r)) /\ (Abort(r) => FramesOK' /\ Fails(r))
    BY ReturnFrames, AbortFrames
<1> QED
    BY <1>1, <1>2, <1>3, <1>4, <1>5

LEMMA StartFootprints ==
  ASSUME FramesOK, ManagerOK, NEW r \in Req
  PROVE  /\ StartBegin(r) => /\ FramesOK' /\ ~Idle(r) /\ Head(stack[r]) = "start"
                             /\ \/ scanning /\ (Returns(r) \/ Fails(r))
                                \/ ~scanning /\ GoesOn(r, "start_insert", loc[r])
         /\ StartInsert(r) => /\ FramesOK' /\ ~Idle(r) /\ Head(stack[r]) = "start_insert"
                              /\ \E t \in Task :
                                   /\ session[t] = "none"
                                   /\ session' = [session EXCEPT ![t] = "open"]
                                   /\ GoesOn(r, "start_go", [loc[r] EXCEPT !.arg = t])
         /\ StartGo(r) => /\ FramesOK' /\ ~Idle(r) /\ Head(stack[r]) = "start_go"
                          /\ GoesOn(r, "status", loc[r])
         /\ BroadcastStatus(r) => /\ FramesOK' /\ ~Idle(r) /\ Head(stack[r]) = "status"
                                  /\ Returns(r)
<1> USE DEF At, Await, Go, SameMethod, StopFrames, StartFrames, Labels, AllKinds
<1>1. StartBegin(r) => /\ FramesOK' /\ ~Idle(r) /\ Head(stack[r]) = "start"
                       /\ \/ scanning /\ (Returns(r) \/ Fails(r))
                          \/ ~scanning /\ GoesOn(r, "start_insert", loc[r])
    BY Primitives DEF StartBegin
<1>2. ASSUME StartInsert(r)
      PROVE  /\ FramesOK' /\ ~Idle(r) /\ Head(stack[r]) = "start_insert"
             /\ \E t \in Task : /\ session[t] = "none"
                                /\ session' = [session EXCEPT ![t] = "open"]
                                /\ GoesOn(r, "start_go", [loc[r] EXCEPT !.arg = t])
  <2>1. PICK t \in Task : /\ session[t] = "none"
                          /\ session' = [session EXCEPT ![t] = "open"]
                          /\ AwaitWith(r, "start_go", [loc[r] EXCEPT !.arg = t])
      BY <1>2 DEF StartInsert
  <2>2. ~Idle(r) /\ Head(stack[r]) = "start_insert" /\ loc[r] \in Locals
      BY <1>2, Primitives DEF StartInsert
  <2>3. [loc[r] EXCEPT !.arg = t] \in Locals
      BY <2>2, LocalsSet
  <2> QED
      BY <2>1, <2>2, <2>3, Primitives
<1>3. StartGo(r) => /\ FramesOK' /\ ~Idle(r) /\ Head(stack[r]) = "start_go"
                    /\ GoesOn(r, "status", loc[r])
    BY Primitives DEF StartGo
<1>4. BroadcastStatus(r) => /\ FramesOK' /\ ~Idle(r) /\ Head(stack[r]) = "status"
                            /\ Returns(r)
    BY Primitives DEF BroadcastStatus
<1> QED
    BY <1>1, <1>2, <1>3, <1>4

LEMMA StopFootprints ==
  ASSUME FramesOK, ManagerOK, NEW r \in Req
  PROVE  /\ StopBegin(r) => /\ FramesOK' /\ ~Idle(r) /\ Head(stack[r]) = "stop"
                            /\ \/ ~scanning /\ Returns(r)
                               \/ /\ scanning /\ task # 0
                                  /\ GoesOn(r, "stop_wait", [loc[r] EXCEPT !.arg = task])
                               \/ scanning /\ task = 0 /\ GoesOn(r, "stop_session", loc[r])
         /\ StopWait(r) => /\ FramesOK' /\ ~Idle(r) /\ Head(stack[r]) = "stop_wait"
                           /\ GoesOn(r, "stop_session", loc[r])
         /\ StopTimeout(r) => /\ FramesOK' /\ ~Idle(r) /\ Head(stack[r]) = "stop_wait"
                              /\ IF task # 0 THEN GoesOn(r, "stop_session", loc[r]) ELSE Fails(r)
         /\ StopRaises(r) => /\ FramesOK' /\ ~Idle(r) /\ Head(stack[r]) = "stop_wait"
                             /\ Fails(r)
         /\ StopSession(r) => /\ FramesOK' /\ ~Idle(r) /\ Head(stack[r]) = "stop_session"
                              /\ IF sessionId # 0
                                 THEN GoesOn(r, "stop_row", [loc[r] EXCEPT !.arg = sessionId])
                                 ELSE GoesOn(r, "status", loc[r])
         /\ StopRow(r) => /\ FramesOK' /\ ~Idle(r) /\ Head(stack[r]) = "stop_row"
                          /\ GoesOn(r, "status", loc[r])
<1> USE DEF At, Await, Go, SameMethod, StopFrames, StartFrames, Labels, AllKinds
<1>1. ~Idle(r) => /\ [loc[r] EXCEPT !.arg = task] \in Locals
                  /\ [loc[r] EXCEPT !.arg = sessionId] \in Locals
    BY LocalsSet DEF FramesOK, ManagerOK
<1>2. StopBegin(r) => /\ FramesOK' /\ ~Idle(r) /\ Head(stack[r]) = "stop"
                      /\ \/ ~scanning /\ Returns(r)
                         \/ /\ scanning /\ task # 0
                            /\ GoesOn(r, "stop_wait", [loc[r] EXCEPT !.arg = task])
                         \/ scanning /\ task = 0 /\ GoesOn(r, "stop_session", loc[r])
    BY <1>1, Primitives DEF StopBegin
<1>3. StopSession(r) => /\ FramesOK' /\ ~Idle(r) /\ Head(stack[r]) = "stop_session"
                        /\ IF sessionId # 0
                           THEN GoesOn(r, "stop_row", [loc[r] EXCEPT !.arg = sessionId])
                           ELSE GoesOn(r, "status", loc[r])
    BY <1>1, Primitives DEF StopSession
<1>4. /\ StopWait(r) => /\ FramesOK' /\ ~Idle(r) /\ Head(stack[r]) = "stop_wait"
                        /\ GoesOn(r, "stop_session", loc[r])
      /\ StopTimeout(r) => /\ FramesOK' /\ ~Idle(r) /\ Head(stack[r]) = "stop_wait"
                           /\ IF task # 0 THEN GoesOn(r, "stop_session", loc[r]) ELSE Fails(r)
      /\ StopRaises(r) => /\ FramesOK' /\ ~Idle(r) /\ Head(stack[r]) = "stop_wait"
                          /\ Fails(r)
      /\ StopRow(r) => /\ FramesOK' /\ ~Idle(r) /\ Head(stack[r]) = "stop_row"
                       /\ GoesOn(r, "status", loc[r])
    BY Primitives DEF StopWait, StopTimeout, StopRaises, StopRow
<1> QED
    BY <1>2, <1>3, <1>4

LEMMA FocusFootprints ==
  ASSUME FramesOK, NEW r \in Req
  PROVE  /\ FocusBegin(r) => /\ FramesOK' /\ ~Idle(r) /\ Head(stack[r]) = "focus"
                             /\ IF scanning THEN GoesOn(r, "focus_set", loc[r])
                                            ELSE Calls(r, "start", "focus_set", loc[r])
         /\ FocusSet(r) => /\ FramesOK' /\ ~Idle(r) /\ Head(stack[r]) = "focus_set"
                           /\ GoesOn(r, "status", loc[r])
         /\ Unfocus(r) => /\ FramesOK' /\ ~Idle(r) /\ Head(stack[r]) = "unfocus"
                          /\ GoesOn(r, "status", loc[r])
         /\ ClearBegin(r) => /\ FramesOK' /\ ~Idle(r) /\ Head(stack[r]) = "clear"
                             /\ Calls(r, "stop", "clear_reset", loc[r])
         /\ ClearReset(r) => /\ FramesOK' /\ ~Idle(r) /\ Head(stack[r]) = "clear_reset"
                             /\ GoesOn(r, "clear_rows", loc[r])
         /\ ClearRows(r) => /\ FramesOK' /\ ~Idle(r) /\ Head(stack[r]) = "clear_rows"
                            /\ GoesOn(r, "status", loc[r])
<1> USE DEF At, Await, Go, Call, SameMethod, StopFrames, StartFrames, AfterStop, AfterStart,
            Labels, AllKinds
<1>1. /\ FocusBegin(r) => /\ FramesOK' /\ ~Idle(r) /\ Head(stack[r]) = "focus"
                          /\ IF scanning THEN GoesOn(r, "focus_set", loc[r])
                                         ELSE Calls(r, "start", "focus_set", loc[r])
      /\ FocusSet(r) => /\ FramesOK' /\ ~Idle(r) /\ Head(stack[r]) = "focus_set"
                        /\ GoesOn(r, "status", loc[r])
      /\ Unfocus(r) => /\ FramesOK' /\ ~Idle(r) /\ Head(stack[r]) = "unfocus"
                       /\ GoesOn(r, "status", loc[r])
    BY Primitives DEF FocusBegin, FocusSet, Unfocus
<1>2. /\ ClearBegin(r) => /\ FramesOK' /\ ~Idle(r) /\ Head(stack[r]) = "clear"
                          /\ Calls(r, "stop", "clear_reset", loc[r])
      /\ ClearReset(r) => /\ FramesOK' /\ ~Idle(r) /\ Head(stack[r]) = "clear_reset"
                          /\ GoesOn(r, "clear_rows", loc[r])
      /\ ClearRows(r) => /\ FramesOK' /\ ~Idle(r) /\ Head(stack[r]) = "clear_rows"
                         /\ GoesOn(r, "status", loc[r])
    BY Primitives DEF ClearBegin, ClearReset, ClearRows
<1> QED
    BY <1>1, <1>2

LEMMA UpdateFootprints ==
  ASSUME FramesOK, NEW r \in Req
  PROVE  /\ UpdateBegin(r) => /\ FramesOK' /\ ~Idle(r) /\ Head(stack[r]) = "update"
                              /\ \/ /\ scanning
                                    /\ Calls(r, "stop", "update_apply", [loc[r] EXCEPT !.was = TRUE])
                                 \/ GoesOn(r, "update_apply", loc[r])
         /\ UpdateApply(r) => /\ FramesOK' /\ ~Idle(r) /\ Head(stack[r]) = "update_apply"
                              /\ \/ GoesOn(r, "update_saved", loc[r])
                                 \/ ~scanning /\ Reopening(r) /\ GoesOn(r, "reopen", loc[r])
                                 \/ /\ scanning /\ Reopening(r)
                                    /\ Calls(r, "stop", "reopen", [loc[r] EXCEPT !.again = TRUE])
         /\ Reopen(r) => /\ FramesOK' /\ ~Idle(r) /\ Head(stack[r]) = "reopen"
                         /\ GoesOn(r, "reopened", loc[r])
         /\ Reopened(r) => /\ FramesOK' /\ ~Idle(r) /\ Head(stack[r]) = "reopened"
                           /\ \/ Calls(r, "start", "update_save", loc[r])
                              \/ GoesOn(r, "update_saved", loc[r])
         /\ UpdateSave(r) => /\ FramesOK' /\ ~Idle(r) /\ Head(stack[r]) = "update_save"
                             /\ GoesOn(r, "update_saved", loc[r])
         /\ UpdateSaved(r) => /\ FramesOK' /\ ~Idle(r) /\ Head(stack[r]) = "update_saved"
                              /\ Returns(r) \/ GoesOn(r, "start", loc[r])
<1> USE DEF At, Await, Go, Call, SameMethod, StopFrames, StartFrames, AfterStop, AfterStart,
            Labels, AllKinds
<1>1. ~Idle(r) => /\ [loc[r] EXCEPT !.was = TRUE] \in Locals
                  /\ [loc[r] EXCEPT !.again = TRUE] \in Locals
    BY LocalsSet DEF FramesOK
<1>2. UpdateBegin(r) => /\ FramesOK' /\ ~Idle(r) /\ Head(stack[r]) = "update"
                        /\ \/ /\ scanning
                              /\ Calls(r, "stop", "update_apply", [loc[r] EXCEPT !.was = TRUE])
                           \/ GoesOn(r, "update_apply", loc[r])
    BY <1>1, Primitives DEF UpdateBegin
<1>3. UpdateApply(r) => /\ FramesOK' /\ ~Idle(r) /\ Head(stack[r]) = "update_apply"
                        /\ \/ GoesOn(r, "update_saved", loc[r])
                           \/ ~scanning /\ Reopening(r) /\ GoesOn(r, "reopen", loc[r])
                           \/ /\ scanning /\ Reopening(r)
                              /\ Calls(r, "stop", "reopen", [loc[r] EXCEPT !.again = TRUE])
    BY <1>1, Primitives DEF UpdateApply, Reopening
<1>4. /\ Reopen(r) => /\ FramesOK' /\ ~Idle(r) /\ Head(stack[r]) = "reopen"
                      /\ GoesOn(r, "reopened", loc[r])
      /\ Reopened(r) => /\ FramesOK' /\ ~Idle(r) /\ Head(stack[r]) = "reopened"
                        /\ \/ Calls(r, "start", "update_save", loc[r])
                           \/ GoesOn(r, "update_saved", loc[r])
    BY Primitives DEF Reopen, Reopened
<1>5. /\ UpdateSave(r) => /\ FramesOK' /\ ~Idle(r) /\ Head(stack[r]) = "update_save"
                          /\ GoesOn(r, "update_saved", loc[r])
      /\ UpdateSaved(r) => /\ FramesOK' /\ ~Idle(r) /\ Head(stack[r]) = "update_saved"
                           /\ Returns(r) \/ GoesOn(r, "start", loc[r])
    BY Primitives DEF UpdateSave, UpdateSaved
<1> QED
    BY <1>2, <1>3, <1>4, <1>5

LEMMA DeviceFootprints ==
  ASSUME FramesOK, NEW r \in Req
  PROVE  /\ CalibrateBegin(r) => /\ FramesOK' /\ ~Idle(r) /\ Head(stack[r]) = "calibrate"
                                 /\ IF scanning
                                    THEN \E v \in Locals : /\ Calls(r, "stop", "cal_read", v)
                                                           /\ v.kind = loc[r].kind
                                    ELSE GoesOn(r, "cal_read", loc[r])
         /\ CalibrateRead(r) => /\ FramesOK' /\ ~Idle(r) /\ Head(stack[r]) = "cal_read"
                                /\ GoesOn(r, "cal_wait", loc[r])
         /\ CalibrateDone(r) => /\ FramesOK' /\ ~Idle(r) /\ Head(stack[r]) = "cal_wait"
                                /\ Calls(r, "start", "cal_focus", loc[r]) \/ Returns(r)
         /\ CalibrateFocus(r) => /\ FramesOK' /\ ~Idle(r) /\ Head(stack[r]) = "cal_focus"
                                 /\ GoesOn(r, "focus", loc[r]) \/ Returns(r)
         /\ DecodeBegin(r) => /\ FramesOK' /\ ~Idle(r) /\ Head(stack[r]) = "decode"
                              /\ IF scanning
                                 THEN Calls(r, "stop", "dec_open", [loc[r] EXCEPT !.was = TRUE])
                                 ELSE GoesOn(r, "dec_open", loc[r])
         /\ DecodeOpen(r) => /\ FramesOK' /\ ~Idle(r) /\ Head(stack[r]) = "dec_open"
                             /\ GoesOn(r, "decoding", loc[r])
         /\ DecodeDone(r) => /\ FramesOK' /\ ~Idle(r) /\ Head(stack[r]) = "decoding"
                             /\ GoesOn(r, "start", loc[r]) \/ Returns(r)
<1> USE DEF At, Await, Go, Call, SameMethod, StopFrames, StartFrames, AfterStop, AfterStart,
            Labels, AllKinds
<1>1. ASSUME CalibrateBegin(r)
      PROVE  /\ FramesOK' /\ ~Idle(r) /\ Head(stack[r]) = "calibrate"
             /\ IF scanning
                THEN \E v \in Locals : /\ Calls(r, "stop", "cal_read", v)
                                       /\ v.kind = loc[r].kind
                ELSE GoesOn(r, "cal_read", loc[r])
  <2> DEFINE b == mode = "focus" /\ focusCenter
             v == [loc[r] EXCEPT !.was = TRUE, !.again = b]
  <2>1. ~Idle(r) /\ Head(stack[r]) = "calibrate" /\ loc[r] \in Locals
      BY <1>1, Primitives DEF CalibrateBegin
  <2>2. v \in Locals /\ v.kind = loc[r].kind
      BY <2>1, LocalsSet
  <2>3. IF scanning THEN CallWith(r, "stop", "cal_read", v) ELSE GoWith(r, "cal_read", loc[r])
      BY <1>1 DEF CalibrateBegin
  <2> HIDE DEF v
  <2> QED
      BY <2>1, <2>2, <2>3, Primitives
<1>2. /\ CalibrateRead(r) => /\ FramesOK' /\ ~Idle(r) /\ Head(stack[r]) = "cal_read"
                             /\ GoesOn(r, "cal_wait", loc[r])
      /\ CalibrateDone(r) => /\ FramesOK' /\ ~Idle(r) /\ Head(stack[r]) = "cal_wait"
                             /\ Calls(r, "start", "cal_focus", loc[r]) \/ Returns(r)
      /\ CalibrateFocus(r) => /\ FramesOK' /\ ~Idle(r) /\ Head(stack[r]) = "cal_focus"
                              /\ GoesOn(r, "focus", loc[r]) \/ Returns(r)
    BY Primitives DEF CalibrateRead, CalibrateDone, CalibrateFocus
<1>3. DecodeBegin(r) => /\ FramesOK' /\ ~Idle(r) /\ Head(stack[r]) = "decode"
                        /\ IF scanning
                           THEN Calls(r, "stop", "dec_open", [loc[r] EXCEPT !.was = TRUE])
                           ELSE GoesOn(r, "dec_open", loc[r])
    BY Primitives, LocalsSet DEF DecodeBegin
<1>4. /\ DecodeOpen(r) => /\ FramesOK' /\ ~Idle(r) /\ Head(stack[r]) = "dec_open"
                          /\ GoesOn(r, "decoding", loc[r])
      /\ DecodeDone(r) => /\ FramesOK' /\ ~Idle(r) /\ Head(stack[r]) = "decoding"
                          /\ GoesOn(r, "start", loc[r]) \/ Returns(r)
    BY Primitives DEF DecodeOpen, DecodeDone
<1> QED
    BY <1>1, <1>2, <1>3, <1>4

LEMMA DatabaseFootprint ==
  ASSUME FramesOK, NEW r \in Req, DatabaseRaises(r)
  PROVE  FramesOK' /\ ~Idle(r) /\ Fails(r)
BY Primitives DEF DatabaseRaises, At

-----------------------------------------------------------------------------
(* Types.                                                                   *)

Statuses == BOOLEAN \X {"sweep", "focus"} \X BOOLEAN

\* What TypeOK says of the variables that are not frames, but the bound of
\* backend.
StateOK ==
    /\ scanning \in BOOLEAN /\ stopEvent \in BOOLEAN /\ focusCenter \in BOOLEAN
    /\ ManagerOK
    /\ mode \in {"sweep", "focus"}
    /\ backend \in Nat \ {0}
    /\ parked \in Plans /\ stream \in {"none", "failed", "open"}
    /\ worker \in 0 .. MaxBackend /\ left \in SUBSET (1 .. MaxBackend)
    /\ loop \in [Task -> {"none"} \cup Running \cup Ended]
    /\ loopArg \in [Task -> {0} \cup Task]
    /\ thread \in [Task \cup Req -> 0 .. MaxBackend]
    /\ session \in [Task -> {"none", "open", "stopped", "deleted"}]
    /\ status \in Statuses
    /\ errored \in BOOLEAN

\* The requests that still have to open a backend again.
Bottom(q) == stack[q][Len(stack[q])]
IsDue(q)  == Reopening(q) /\ ~Idle(q) /\ Bottom(q) \in {"update", "update_apply", "reopen"}
Due       == {q \in Req : IsDue(q)}
ReopenKind(q) == In(q, {"reopen"}) \/ Under(q, {"reopen"}) => Reopening(q)

\* Arrive admits an update that reopens the receiver only while there is room
\* for it and for the ones admitted before it.
BackendBound ==
    /\ \A q \in Req : ReopenKind(q)
    /\ backend + Cardinality(Due) <= MaxBackend

TypeInv == FramesOK /\ StateOK /\ BackendBound

LEMMA InitTypes == Init => TypeInv
<1> SUFFICES ASSUME Init PROVE TypeInv
    OBVIOUS
<1>1. FramesOK
    BY DEF Init, FramesOK, Stacks, Locals, NoLocals
<1>2. StateOK
  <2>1. status = <<FALSE, "sweep", FALSE>>
      BY DEF Init, Status
  <2>2. 0 \in 0 .. MaxBackend /\ 1 \in Nat \ {0}
      OBVIOUS
  <2>3. /\ loop \in [Task -> {"none"} \cup Running \cup Ended]
        /\ loopArg \in [Task -> {0} \cup Task] /\ thread \in [Task \cup Req -> 0 .. MaxBackend]
        /\ session \in [Task -> {"none", "open", "stopped", "deleted"}]
      BY <2>2 DEF Init
  <2>4. status \in Statuses
      BY <2>1 DEF Statuses
  <2> QED
      BY <2>2, <2>3, <2>4 DEF Init, StateOK, ManagerOK
<1>3. Due = {}
    BY DEF Init, Due, IsDue, Idle
<1>4. Cardinality(Due) = 0
    BY <1>3, FS_EmptySet
<1>5. \A q \in Req : Idle(q) /\ Len(stack[q]) = 0
    BY DEF Init, Idle
<1> QED
    BY <1>1, <1>2, <1>4, <1>5 DEF TypeInv, BackendBound, ReopenKind, Init, In, Under

LEMMA ArriveFrames ==
  ASSUME FramesOK, NEW r \in Req, NEW k \in Kinds, Arrive(r, k)
  PROVE  /\ FramesOK' /\ OthersKept(r) /\ Idle(r)
         /\ \E l \in AllKinds \cup {"update"} : stack'[r] = <<l>>
         /\ IF k \in Updates THEN stack'[r] = <<"update">> /\ loc'[r].kind = k
                             ELSE stack'[r] = <<k>> /\ loc'[r] = loc[r]
<1>1. <<"update">> \in Stacks /\ <<k>> \in Stacks
    BY DEF Stacks, Labels
<1>2. ASSUME k \in Updates PROVE loc' \in [Req -> Locals] /\ loc'[r].kind = k
    BY <1>2 DEF Arrive, FramesOK, Locals, Updates, AllKinds
<1> QED
    BY <1>1, <1>2 DEF Arrive, FramesOK, OthersKept

LEMMA FramesNext ==
  ASSUME FramesOK, ManagerOK, [Next]_vars
  PROVE  FramesOK'
<1>1. ASSUME NEW r \in Req, NEW k \in Kinds, Arrive(r, k) PROVE FramesOK'
    BY <1>1, ArriveFrames
<1>2. ASSUME NEW r \in Req, RequestStep(r) PROVE FramesOK'
    BY <1>2, StartFootprints, StopFootprints, FocusFootprints, UpdateFootprints, DeviceFootprints
       DEF RequestStep, StartStep, StopStep, FocusStep, ClearStep, UpdateStep, DeviceStep
<1>3. ASSUME NEW r \in Req, DatabaseRaises(r) PROVE FramesOK'
    BY <1>3, DatabaseFootprint
<1>4. ASSUME NEW t \in Task, LoopStep(t) \/ StreamStep(t) PROVE FramesOK'
    BY <1>4 DEF LoopStep, LoopStops, LoopStreams, LoopReads, LoopQuiet, LoopDetect, LoopPersist,
       LoopCrash, LoopCrashed, StreamStep, LoopReceives, LoopStreamEnds, FramesOK
<1>5. ASSUME \/ \E x \in Task \cup Req : ThreadDone(x)
             \/ WorkerEnds \/ LeftEnds
      PROVE  FramesOK'
    BY <1>5 DEF ThreadDone, WorkerEnds, LeftEnds, FramesOK
<1>6. CASE UNCHANGED vars
    BY <1>6 DEF vars, FramesOK
<1> QED
    BY <1>1, <1>2, <1>3, <1>4, <1>5, <1>6 DEF Next

LEMMA StateNext ==
  ASSUME FramesOK, StateOK, backend <= MaxBackend, [Next]_vars
  PROVE  StateOK'
<1>0. Status \in Statuses
    BY DEF StateOK, Status, Statuses
<1> USE DEF StateOK, ManagerOK, manager, loops, ghosts, Ended, Running, CloseStream
<1>w. StopWorker => left' \in SUBSET (1 .. MaxBackend) /\ worker' = 0 /\ worker' \in 0 .. MaxBackend
    BY DEF StopWorker
<1>1. ASSUME NEW r \in Req, NEW k \in Kinds, Arrive(r, k) PROVE StateOK'
    BY <1>1 DEF Arrive
<1>2. ASSUME NEW r \in Req, StartStep(r) \/ BroadcastStatus(r) PROVE StateOK'
  <2>1. CASE StartBegin(r)
      BY <2>1 DEF StartBegin, Abort
  <2>2. CASE StartInsert(r)
      BY <2>2 DEF StartInsert
  <2>3. CASE StartGo(r)
    <3>1. loc[r].arg \in {0} \cup Task
        BY DEF FramesOK, Locals
    <3> QED
        BY <2>3, <3>1 DEF StartGo
  <2>4. CASE BroadcastStatus(r)
      BY <1>0, <2>4 DEF BroadcastStatus
  <2> QED
      BY <1>2, <2>1, <2>2, <2>3, <2>4 DEF StartStep
<1>3. ASSUME NEW r \in Req, StopStep(r) PROVE StateOK'
  <2>1. CASE StopBegin(r)
      BY <1>w, <2>1 DEF StopBegin
  <2>2. CASE StopWait(r) \/ StopRaises(r) \/ StopSession(r)
      BY <2>2 DEF StopWait, StopRaises, StopSession, Abort
  <2>3. CASE StopTimeout(r)
      BY <1>w, <2>3 DEF StopTimeout, Abort, Alive
  <2>4. CASE StopRow(r)
      BY <2>4 DEF StopRow
  <2> QED
      BY <1>3, <2>1, <2>2, <2>3, <2>4 DEF StopStep
<1>4. ASSUME NEW r \in Req, FocusStep(r) \/ ClearStep(r) PROVE StateOK'
  <2>1. CASE FocusStep(r)
      BY <2>1 DEF FocusStep, FocusBegin, FocusSet, Unfocus
  <2>2. CASE ClearBegin(r) \/ ClearReset(r)
      BY <2>2 DEF ClearBegin, ClearReset
  <2>3. CASE ClearRows(r)
      BY <2>3 DEF ClearRows
  <2> QED
      BY <1>4, <2>1, <2>2, <2>3 DEF ClearStep
<1>5. ASSUME NEW r \in Req, UpdateStep(r) PROVE StateOK'
  <2>1. CASE UpdateBegin(r) \/ UpdateApply(r)
      BY <2>1 DEF UpdateBegin, UpdateApply
  <2>2. CASE Reopen(r)
    <3>1. backend' \in Nat \ {0} /\ parked' \in Plans
        BY <2>2 DEF Reopen
    <3> QED
        BY <2>2, <3>1 DEF Reopen
  <2>3. CASE Reopened(r)
      BY <2>3 DEF Reopened
  <2>4. CASE UpdateSave(r) \/ UpdateSaved(r)
      BY <2>4 DEF UpdateSave, UpdateSaved
  <2> QED
      BY <1>5, <2>1, <2>2, <2>3, <2>4 DEF UpdateStep
<1>6. ASSUME NEW r \in Req, DeviceStep(r) PROVE StateOK'
    BY <1>6 DEF DeviceStep, CalibrateBegin, CalibrateRead, CalibrateDone, CalibrateFocus,
                DecodeBegin, DecodeOpen, DecodeDone
<1>7. ASSUME NEW r \in Req, DatabaseRaises(r) PROVE StateOK'
    BY <1>7 DEF DatabaseRaises, Abort
<1>8. ASSUME NEW t \in Task, LoopStep(t) \/ StreamStep(t) PROVE StateOK'
  <2>1. CASE LoopStops(t) \/ LoopReads(t) \/ LoopCrashed(t) \/ LoopStreamEnds(t)
      BY <1>w, <2>1 DEF LoopStops, LoopReads, LoopCrashed, LoopStreamEnds
  <2>2. CASE LoopStreams(t)
      BY <2>2 DEF LoopStreams
  <2>3. CASE LoopQuiet(t)
      BY <1>0, <2>3 DEF LoopQuiet
  <2>4. CASE LoopDetect(t)
      BY <2>4 DEF LoopDetect
  <2>5. CASE LoopPersist(t)
      BY <2>5 DEF LoopPersist
  <2>6. CASE LoopCrash(t)
      BY <2>6 DEF LoopCrash
  <2>7. CASE LoopReceives(t)
      BY <2>7 DEF LoopReceives
  <2> QED
      BY <1>8, <2>1, <2>2, <2>3, <2>4, <2>5, <2>6, <2>7 DEF LoopStep, StreamStep
<1>9. ASSUME NEW x \in Task \cup Req, ThreadDone(x) PROVE StateOK'
    BY <1>9 DEF ThreadDone
<1>10. CASE UNCHANGED vars
    BY <1>10 DEF vars
<1>11. CASE WorkerEnds
  <2>1. worker' \in 0 .. MaxBackend
      BY <1>11 DEF WorkerEnds
  <2> QED
      BY <1>11, <2>1 DEF WorkerEnds
<1>12. CASE LeftEnds
  <2>1. left' \in SUBSET (1 .. MaxBackend)
      BY <1>12 DEF LeftEnds
  <2> QED
      BY <1>12, <2>1 DEF LeftEnds
<1> QED
    BY <1>1, <1>2, <1>3, <1>4, <1>5, <1>6, <1>7, <1>8, <1>9, <1>10, <1>11, <1>12
    DEF Next, RequestStep

\* No step but Reopen and Arrive changes what is due, except that a request
\* that ends owes nothing.
LEMMA GoesOnDue ==
  ASSUME FramesOK, NEW r \in Req, ~Idle(r), NEW l, NEW v, GoesOn(r, l, v),
         v.kind = loc[r].kind, ReopenKind(r),
         \/ l \notin {"update", "update_apply", "reopen"}
         \/ Head(stack[r]) = "update" /\ l = "update_apply"
         \/ Head(stack[r]) = "update_apply" /\ l = "reopen" /\ Reopening(r)
  PROVE  (IsDue(r)' => IsDue(r)) /\ ReopenKind(r)'
<1>1. stack[r] \in Stacks /\ stack'[r] \in Stacks /\ stack[r] # <<>> /\ stack'[r] # <<>>
    BY DEF FramesOK, GoesOn, Idle
<1>2. \/ Len(stack[r]) = 1 /\ Head(stack[r]) = stack[r][1]
      \/ Len(stack[r]) = 2
    BY <1>1, Shape, One, Two
<1>3. \/ Len(stack'[r]) = 1 /\ Head(stack'[r]) = stack'[r][1]
      \/ Len(stack'[r]) = 2
    BY <1>1, Shape, One, Two
<1> QED
    BY <1>1, <1>2, <1>3 DEF GoesOn, IsDue, Bottom, Reopening, ReopenKind, In, Under, Idle

LEMMA CallsDue ==
  ASSUME FramesOK, NEW r \in Req, ~Idle(r), NEW l, NEW m, NEW v, Calls(r, l, m, v),
         Head(stack[r]) \notin StopFrames \cup StartFrames, l # "reopen",
         v.kind = loc[r].kind, ReopenKind(r),
         \/ m \notin {"update", "update_apply", "reopen"}
         \/ Head(stack[r]) = "update" /\ m = "update_apply"
         \/ Head(stack[r]) = "update_apply" /\ m = "reopen" /\ Reopening(r)
  PROVE  (IsDue(r)' => IsDue(r)) /\ ReopenKind(r)'
<1>1. stack[r] \in Stacks /\ stack[r] # <<>>
    BY DEF FramesOK, Idle
<1>2. Len(stack[r]) = 1 /\ Head(stack[r]) = stack[r][1]
    BY <1>1, Shape, One, Two
<1>3. stack'[r] # <<>> /\ Len(stack'[r]) = 2 /\ Head(stack'[r]) = l /\ stack'[r][2] = m
    BY Two DEF Calls
<1> QED
    BY <1>1, <1>2, <1>3 DEF Calls, IsDue, Bottom, Reopening, ReopenKind, In, Under, Idle

LEMMA EndsDue ==
  ASSUME FramesOK, NEW r \in Req, ~Idle(r), Returns(r) \/ Fails(r), ReopenKind(r)
  PROVE  (IsDue(r)' => IsDue(r)) /\ ReopenKind(r)'
<1>1. CASE stack'[r] = <<>>
  <2>1. Len(stack'[r]) = 0
      BY <1>1
  <2> QED
      BY <1>1, <2>1 DEF IsDue, ReopenKind, In, Under, Idle
<1>2. CASE /\ Len(stack[r]) = 2 /\ stack'[r] = <<stack[r][2]>>
           /\ loc'[r] = [loc[r] EXCEPT !.arg = 0]
  <2>1. loc'[r].kind = loc[r].kind
      BY <1>2 DEF FramesOK, Locals
  <2>2. /\ stack'[r] # <<>> /\ Len(stack'[r]) = 1 /\ stack'[r][1] = stack[r][2]
        /\ Head(stack'[r]) = stack[r][2]
      BY <1>2, One
  <2> QED
      BY <1>2, <2>1, <2>2 DEF IsDue, Bottom, Reopening, ReopenKind, In, Under, Idle
<1> QED
    BY <1>1, <1>2 DEF Returns, Fails

\* So the bound of BackendBound holds after every step that opens nothing.
LEMMA BoundKept ==
  ASSUME BackendBound, NEW r \in Req, OthersKept(r), backend' = backend, backend \in Nat,
         IsDue(r)' => IsDue(r), ReopenKind(r)'
  PROVE  BackendBound'
<1>1. \A q \in Req \ {r} : (IsDue(q)' <=> IsDue(q)) /\ (ReopenKind(q)' <=> ReopenKind(q))
    BY DEF OthersKept, IsDue, Bottom, Reopening, Idle, ReopenKind, In, Under
<1>2. Due' \in SUBSET Due /\ IsFiniteSet(Due)
    BY <1>1, FS_Subset DEF Due
<1>3. Cardinality(Due') <= Cardinality(Due) /\ Cardinality(Due) \in Nat
      /\ Cardinality(Due') \in Nat
    BY <1>2, FS_Subset, FS_CardinalityType
<1>4. MaxBackend \in Nat
    OBVIOUS
<1> QED
    BY <1>1, <1>3, <1>4 DEF BackendBound

\* Every other step of a request keeps what it owes.
Owes(r) == OthersKept(r) /\ (IsDue(r)' => IsDue(r)) /\ ReopenKind(r)'

LEMMA RequestOwes ==
  ASSUME FramesOK, ManagerOK, NEW r \in Req, ReopenKind(r),
         RequestStep(r) \/ DatabaseRaises(r), ~Reopen(r)
  PROVE  Owes(r)
<1>1. ASSUME NEW l, NEW v, ~Idle(r), GoesOn(r, l, v), v.kind = loc[r].kind,
             \/ l \notin {"update", "update_apply", "reopen"}
             \/ Head(stack[r]) = "update" /\ l = "update_apply"
             \/ Head(stack[r]) = "update_apply" /\ l = "reopen" /\ Reopening(r)
      PROVE  Owes(r)
    BY <1>1, GoesOnDue DEF Owes, GoesOn
<1>2. ASSUME NEW l, NEW m, NEW v, ~Idle(r), Calls(r, l, m, v), l \in {"stop", "start"},
             Head(stack[r]) \notin StopFrames \cup StartFrames, v.kind = loc[r].kind,
             \/ m \notin {"update", "update_apply", "reopen"}
             \/ Head(stack[r]) = "update" /\ m = "update_apply"
             \/ Head(stack[r]) = "update_apply" /\ m = "reopen" /\ Reopening(r)
      PROVE  Owes(r)
    BY <1>2, CallsDue DEF Owes, Calls
<1>3. ASSUME ~Idle(r), Returns(r) \/ Fails(r) PROVE Owes(r)
    BY <1>3, EndsDue DEF Owes, Returns, Fails
<1>4. loc[r] \in Locals
    BY DEF FramesOK
<1>5. CASE StartStep(r) \/ BroadcastStatus(r)
  <2>1. \A t \in Task : [loc[r] EXCEPT !.arg = t].kind = loc[r].kind
      BY <1>4, LocalsSet
  <2> QED
      BY <1>1, <1>3, <1>5, <2>1, StartFootprints DEF StartStep
<1>6. CASE StopStep(r)
  <2>1. /\ [loc[r] EXCEPT !.arg = task].kind = loc[r].kind
        /\ [loc[r] EXCEPT !.arg = sessionId].kind = loc[r].kind
      BY <1>4, LocalsSet DEF ManagerOK
  <2> QED
      BY <1>1, <1>3, <1>6, <2>1, StopFootprints DEF StopStep
<1>7. CASE FocusStep(r) \/ ClearStep(r)
    BY <1>1, <1>2, <1>7, FocusFootprints DEF FocusStep, ClearStep, StopFrames, StartFrames
<1>8. CASE UpdateStep(r)
  <2>1. /\ [loc[r] EXCEPT !.was = TRUE].kind = loc[r].kind
        /\ [loc[r] EXCEPT !.again = TRUE].kind = loc[r].kind
      BY <1>4, LocalsSet
  <2> QED
      BY <1>1, <1>2, <1>3, <1>8, <2>1, UpdateFootprints DEF UpdateStep, StopFrames, StartFrames
<1>9. CASE DeviceStep(r)
  <2>1. [loc[r] EXCEPT !.was = TRUE].kind = loc[r].kind
      BY <1>4, LocalsSet
  <2> QED
      BY <1>1, <1>2, <1>3, <1>9, <2>1, DeviceFootprints DEF DeviceStep, StopFrames, StartFrames
<1>10. CASE DatabaseRaises(r)
    BY <1>3, <1>10, DatabaseFootprint
<1> QED
    BY <1>5, <1>6, <1>7, <1>8, <1>9, <1>10 DEF RequestStep

LEMMA BoundNext ==
  ASSUME TypeInv, [Next]_vars
  PROVE  BackendBound'
<1> USE DEF TypeInv, StateOK, manager
<1>1. ASSUME NEW r \in Req, NEW k \in Kinds, Arrive(r, k) PROVE BackendBound'
  <2>1. OthersKept(r) /\ Idle(r)
      BY <1>1, ArriveFrames
  <2>2. PICK l \in AllKinds \cup {"update"} : stack'[r] = <<l>>
      BY <1>1, ArriveFrames
  <2>3. \A q \in Req \ {r} : (IsDue(q)' <=> IsDue(q)) /\ (ReopenKind(q)' <=> ReopenKind(q))
      BY <2>1 DEF OthersKept, IsDue, Bottom, Reopening, Idle, ReopenKind, In, Under
  <2>4. ReopenKind(r)'
      BY <2>2, One DEF ReopenKind, In, Under, AllKinds
  <2>5. backend' = backend
      BY <1>1 DEF Arrive
  <2>6. CASE k = "update_reopen"
    <3> DEFINE R == {q \in Req : Reopening(q)}
    <3>1. backend + Cardinality(R) < MaxBackend
        BY <1>1, <2>6 DEF Arrive
    <3>2. IsFiniteSet(R) /\ Cardinality(R) \in Nat
        BY FS_Subset, FS_CardinalityType
    <3>3. IsFiniteSet(R \cup {r}) /\ Cardinality(R \cup {r}) <= Cardinality(R) + 1
      <4> HIDE DEF R
      <4>1. /\ IsFiniteSet(R \cup {r})
            /\ Cardinality(R \cup {r}) = IF r \in R THEN Cardinality(R) ELSE Cardinality(R) + 1
          BY <3>2, FS_AddElement
      <4> QED
          BY <3>2, <4>1
    <3>4. Due' \in SUBSET (R \cup {r})
        BY <2>3 DEF Due, IsDue
    <3>5. Cardinality(Due') <= Cardinality(R \cup {r}) /\ Cardinality(Due') \in Nat
          /\ Cardinality(R \cup {r}) \in Nat
        BY <3>3, <3>4, FS_Subset, FS_CardinalityType
    <3> HIDE DEF R
    <3> QED
        BY <2>3, <2>4, <2>5, <3>1, <3>2, <3>3, <3>5 DEF BackendBound
  <2>7. CASE k # "update_reopen"
    <3>1. IsDue(r)' => IsDue(r)
      <4>1. CASE k \in Updates
          BY <1>1, <2>7, <4>1, ArriveFrames DEF IsDue, Reopening
      <4>2. CASE k \notin Updates
        <5>1. stack'[r] = <<k>> /\ k \in AllKinds
            BY <1>1, <4>2, ArriveFrames
        <5>2. Bottom(r)' = k
            BY <5>1, One DEF Bottom
        <5> QED
            BY <5>1, <5>2 DEF IsDue, AllKinds
      <4> QED
          BY <4>1, <4>2
    <3> QED
        BY <2>1, <2>4, <2>5, <3>1, BoundKept
  <2> QED
      BY <2>6, <2>7
<1>2. ASSUME NEW r \in Req, RequestStep(r) \/ DatabaseRaises(r), ~Reopen(r)
      PROVE  BackendBound'
  <2>1. Owes(r)
      BY <1>2, RequestOwes DEF BackendBound
  <2>2. backend' = backend
      BY <1>2
      DEF RequestStep, StartStep, StartBegin, StartInsert, StartGo, BroadcastStatus, StopStep,
         StopBegin, StopWait, StopTimeout, StopRaises, StopSession, StopRow, FocusStep, FocusBegin,
         FocusSet, Unfocus, ClearStep, ClearBegin, ClearReset, ClearRows, UpdateStep, UpdateBegin,
         UpdateApply, Reopened, UpdateSave, UpdateSaved, DeviceStep, CalibrateBegin, CalibrateRead,
         CalibrateDone, CalibrateFocus, DecodeBegin, DecodeOpen, DecodeDone, DatabaseRaises
  <2> QED
      BY <2>1, <2>2, BoundKept DEF Owes
<1>3. ASSUME NEW r \in Req, Reopen(r) PROVE BackendBound'
  <2>1. ~Idle(r) /\ Head(stack[r]) = "reopen" /\ GoesOn(r, "reopened", loc[r])
      BY <1>3, UpdateFootprints
  <2>2. stack[r] \in Stacks /\ stack[r] # <<>> /\ Len(stack[r]) = 1 /\ stack[r][1] = "reopen"
    <3>1. stack[r] \in Stacks /\ stack[r] # <<>>
        BY <2>1 DEF FramesOK, Idle
    <3>2. Head(stack[r]) \notin StopFrames \cup StartFrames
        BY <2>1 DEF StopFrames, StartFrames
    <3>3. PICK k \in Labels : stack[r] = <<k>>
        BY <3>1, <3>2, Shape, Two
    <3> QED
        BY <2>1, <3>1, <3>3, One
  <2>3. r \in Due
      BY <2>1, <2>2 DEF Due, IsDue, Bottom, BackendBound, ReopenKind, In
  <2>4. stack'[r] # <<>> /\ Len(stack'[r]) = 1 /\ stack'[r][1] = "reopened"
      BY <2>1, <2>2, Shape, One, Two DEF GoesOn
  <2>5. ~IsDue(r)' /\ ReopenKind(r)'
      BY <2>1, <2>4 DEF IsDue, Bottom, ReopenKind, In, Under, GoesOn
  <2>6. \A q \in Req \ {r} : (IsDue(q)' <=> IsDue(q)) /\ (ReopenKind(q)' <=> ReopenKind(q))
      BY <2>1 DEF GoesOn, OthersKept, IsDue, Bottom, Reopening, Idle, ReopenKind, In, Under
  <2>7. Due' \in SUBSET (Due \ {r}) /\ IsFiniteSet(Due)
      BY <2>5, <2>6, FS_Subset DEF Due
  <2>8. IsFiniteSet(Due \ {r}) /\ Cardinality(Due \ {r}) = Cardinality(Due) - 1
        /\ Cardinality(Due) \in Nat
      BY <2>3, <2>7, FS_RemoveElement, FS_CardinalityType
  <2>9. Cardinality(Due') <= Cardinality(Due \ {r}) /\ Cardinality(Due') \in Nat
      BY <2>7, <2>8, FS_Subset, FS_CardinalityType
  <2>10. backend' = backend + 1
      BY <1>3 DEF Reopen
  <2> QED
      BY <2>5, <2>6, <2>8, <2>9, <2>10 DEF BackendBound
<1>4. ASSUME UNCHANGED <<backend, stack, loc>> PROVE BackendBound'
    BY <1>4 DEF BackendBound, Due, IsDue, Bottom, ReopenKind, In, Under, Idle, Reopening
<1>5. ASSUME NEW t \in Task, LoopStep(t) \/ StreamStep(t) PROVE UNCHANGED <<backend, stack, loc>>
    BY <1>5 DEF LoopStep, LoopStops, LoopStreams, LoopReads, LoopQuiet, LoopDetect, LoopPersist,
       LoopCrash, LoopCrashed, StreamStep, LoopReceives, LoopStreamEnds
<1>6. ASSUME NEW x \in Task \cup Req, ThreadDone(x) PROVE UNCHANGED <<backend, stack, loc>>
    BY <1>6 DEF ThreadDone
<1>7. UNCHANGED vars \/ WorkerEnds \/ LeftEnds => UNCHANGED <<backend, stack, loc>>
    BY DEF vars, WorkerEnds, LeftEnds
<1> QED
    BY <1>1, <1>2, <1>3, <1>4, <1>5, <1>6, <1>7 DEF Next, RequestStep, UpdateStep

LEMMA TypeInvariant == Spec => []TypeInv
<1>1. TypeInv /\ [Next]_vars => TypeInv'
  <2> SUFFICES ASSUME TypeInv, [Next]_vars PROVE TypeInv'
      OBVIOUS
  <2>1. backend <= MaxBackend
    <3>1. Due \in SUBSET Req
        BY DEF Due
    <3>2. Cardinality(Due) \in Nat
        BY <3>1, FS_Subset, FS_CardinalityType
    <3> QED
        BY <3>2 DEF TypeInv, StateOK, BackendBound
  <2>2. FramesOK'
      BY FramesNext DEF TypeInv, StateOK
  <2>3. StateOK'
      BY <2>1, StateNext DEF TypeInv
  <2> QED
      BY <2>2, <2>3, BoundNext DEF TypeInv
<1> QED
    BY InitTypes, <1>1, PTL DEF Spec

\* Whatever requests overlap, every variable holds what the code can put
\* there, no method waits for more than one other, and no more backends are
\* opened than Arrive has admitted.
THEOREM Typed == Spec => []TypeOK
<1>1. TypeInv => TypeOK
  <2> SUFFICES ASSUME TypeInv PROVE TypeOK
      OBVIOUS
  <2>1. backend \in 1 .. MaxBackend
    <3>1. Due \in SUBSET Req
        BY DEF Due
    <3>2. Cardinality(Due) \in Nat
        BY <3>1, FS_Subset, FS_CardinalityType
    <3> QED
        BY <3>2 DEF TypeInv, StateOK, BackendBound
  <2>2. ASSUME NEW r \in Req
        PROVE  Len(stack[r]) <= 2 /\ \A i \in DOMAIN stack[r] : stack[r][i] \in Labels
    <3>1. CASE stack[r] = <<>>
        BY <3>1
    <3>2. CASE stack[r] # <<>>
      <4>1. PICK k \in Labels : \/ stack[r] = <<k>>
                                \/ \E m \in AfterStop : stack[r] = <<k, m>>
                                \/ \E m \in AfterStart : stack[r] = <<k, m>>
          BY <3>2, Shape DEF TypeInv, FramesOK
      <4>2. CASE stack[r] = <<k>>
          BY <4>2
      <4>3. ASSUME NEW m \in Labels, stack[r] = <<k, m>>
            PROVE  Len(stack[r]) <= 2 /\ \A i \in DOMAIN stack[r] : stack[r][i] \in Labels
          BY <4>3
      <4> QED
          BY <4>1, <4>2, <4>3, FrameLabels
    <3> QED
        BY <3>1, <3>2
  <2> QED
      BY <2>1, <2>2 DEF TypeInv, FramesOK, StateOK, ManagerOK, TypeOK, Locals, Statuses
<1> QED
    BY TypeInvariant, <1>1, PTL

-----------------------------------------------------------------------------
(* What the clients are told.                                               *)

\* Somebody is still going to broadcast a status that is not yet known.
Informing == {"start_insert", "start_go", "status", "stop_wait", "stop_session", "stop_row"}
StatusOnItsWay == ~errored /\ status # Status => \E q \in Req : In(q, Informing)

\* The step of r broadcasts the status, leaves it to r to do so, fails, or
\* changes nothing that the status says.
Informs(r) == \/ errored' \/ status' = Status' \/ In(r, Informing)'
              \/ status' = status /\ Status' = Status /\ ~In(r, Informing)

LEMMA RequestInforms ==
  ASSUME TypeInv, NEW r \in Req, RequestStep(r) \/ DatabaseRaises(r)
  PROVE  OthersKept(r) /\ Informs(r) /\ (errored => errored')
<1> USE DEF Informs, Status, Informing, In, Idle, GoesOn, Calls, manager, ghosts
<1>1. FramesOK /\ ManagerOK /\ (Returns(r) \/ Fails(r) => OthersKept(r))
    BY DEF TypeInv, StateOK, Returns, Fails
<1>2. ASSUME ~Idle(r), Head(stack[r]) \notin Informing, OthersKept(r),
             UNCHANGED <<scanning, mode, focusCenter, status>>, errored => errored'
      PROVE  OthersKept(r) /\ Informs(r) /\ (errored => errored')
    BY <1>2
<1>3. CASE StartStep(r) \/ BroadcastStatus(r)
  <2>1. CASE StartBegin(r)
    <3>1. CASE scanning
      <4>1. UNCHANGED <<scanning, mode, focusCenter, status>> /\ (errored => errored')
          BY <2>1, <3>1 DEF StartBegin, Abort
      <4>2. ~Idle(r) /\ Head(stack[r]) = "start" /\ OthersKept(r)
          BY <1>1, <2>1, <3>1, StartFootprints
      <4> QED
          BY <1>2, <4>1, <4>2
    <3>2. CASE ~scanning
      <4>1. GoesOn(r, "start_insert", loc[r]) /\ errored' = errored
          BY <1>1, <2>1, <3>2, StartFootprints DEF StartBegin
      <4> QED
          BY <4>1
    <3> QED
        BY <3>1, <3>2
  <2>2. CASE StartInsert(r)
      BY <1>1, <2>2, StartFootprints DEF StartInsert
  <2>3. CASE StartGo(r)
      BY <1>1, <2>3, StartFootprints DEF StartGo
  <2>4. CASE BroadcastStatus(r)
      BY <1>1, <2>4, StartFootprints DEF BroadcastStatus
  <2> QED
      BY <1>3, <2>1, <2>2, <2>3, <2>4 DEF StartStep
<1>4. CASE StopStep(r)
  <2>1. CASE StopBegin(r)
    <3>1. ~Idle(r) /\ Head(stack[r]) = "stop" /\ status' = status /\ errored' = errored
          /\ mode' = mode /\ focusCenter' = focusCenter
        BY <1>1, <2>1, StopFootprints DEF StopBegin
    <3>2. CASE ~scanning
      <4>1. OthersKept(r)
          BY <1>1, <2>1, <3>2, StopFootprints
      <4>2. scanning' = scanning
          BY <2>1, <3>2 DEF StopBegin
      <4> QED
          BY <1>2, <3>1, <4>1, <4>2
    <3>3. CASE scanning
      <4>1. \/ GoesOn(r, "stop_wait", [loc[r] EXCEPT !.arg = task])
            \/ GoesOn(r, "stop_session", loc[r])
          BY <1>1, <2>1, <3>3, StopFootprints
      <4> QED
          BY <3>1, <4>1
    <3> QED
        BY <3>2, <3>3
  <2>2. CASE StopWait(r)
      BY <1>1, <2>2, StopFootprints DEF StopWait
  <2>3. CASE StopTimeout(r)
      BY <1>1, <2>3, StopFootprints DEF StopTimeout, Abort
  <2>4. CASE StopRaises(r)
      BY <1>1, <2>4, StopFootprints DEF StopRaises, Abort
  <2>5. CASE StopSession(r)
      BY <1>1, <2>5, StopFootprints DEF StopSession
  <2>6. CASE StopRow(r)
      BY <1>1, <2>6, StopFootprints DEF StopRow
  <2> QED
      BY <1>4, <2>1, <2>2, <2>3, <2>4, <2>5, <2>6 DEF StopStep
<1>5. CASE FocusStep(r)
  <2>1. CASE FocusBegin(r)
      BY <1>1, <1>2, <2>1, FocusFootprints DEF FocusBegin
  <2>2. CASE FocusSet(r) \/ Unfocus(r)
    <3>1. GoesOn(r, "status", loc[r]) /\ errored' = errored
        BY <1>1, <2>2, FocusFootprints DEF FocusSet, Unfocus
    <3> QED
        BY <3>1
  <2> QED
      BY <1>5, <2>1, <2>2 DEF FocusStep
<1>6. CASE ClearStep(r)
  <2>1. CASE ClearBegin(r) \/ ClearReset(r)
      BY <1>1, <1>2, <2>1, FocusFootprints DEF ClearBegin, ClearReset
  <2>2. CASE ClearRows(r)
      BY <1>1, <2>2, FocusFootprints DEF ClearRows
  <2> QED
      BY <1>6, <2>1, <2>2 DEF ClearStep
<1>7. CASE UpdateStep(r)
  <2>1. UNCHANGED <<scanning, mode, focusCenter, status, errored>>
      BY <1>7 DEF UpdateStep, UpdateBegin, UpdateApply, Reopen, Reopened, UpdateSave, UpdateSaved
  <2>2. ~Idle(r) /\ Head(stack[r]) \notin Informing /\ OthersKept(r)
      BY <1>1, <1>7, UpdateFootprints DEF UpdateStep
  <2> QED
      BY <1>2, <2>1, <2>2
<1>8. CASE DeviceStep(r)
  <2>1. UNCHANGED <<scanning, mode, focusCenter, status, errored>>
      BY <1>8 DEF DeviceStep, CalibrateBegin, CalibrateRead, CalibrateDone, CalibrateFocus,
                  DecodeBegin, DecodeOpen, DecodeDone
  <2>2. ~Idle(r) /\ Head(stack[r]) \notin Informing /\ OthersKept(r)
      BY <1>1, <1>8, DeviceFootprints DEF DeviceStep
  <2> QED
      BY <1>2, <2>1, <2>2
<1>9. CASE DatabaseRaises(r)
    BY <1>1, <1>9, DatabaseFootprint DEF DatabaseRaises, Abort, Fails
<1> QED
    BY <1>3, <1>4, <1>5, <1>6, <1>7, <1>8, <1>9 DEF RequestStep

LEMMA StatusNext ==
  ASSUME TypeInv, StatusOnItsWay, [Next]_vars
  PROVE  StatusOnItsWay'
<1>1. ASSUME NEW r \in Req, NEW k \in Kinds, Arrive(r, k) PROVE StatusOnItsWay'
  <2>1. OthersKept(r) /\ Idle(r)
      BY <1>1, ArriveFrames DEF TypeInv
  <2>2. UNCHANGED <<errored, status, Status>>
      BY <1>1 DEF Arrive, ghosts, manager, Status
  <2> QED
      BY <2>1, <2>2 DEF StatusOnItsWay, OthersKept, In, Idle
<1>2. ASSUME NEW r \in Req, RequestStep(r) \/ DatabaseRaises(r) PROVE StatusOnItsWay'
  <2>1. OthersKept(r) /\ Informs(r) /\ (errored => errored')
      BY <1>2, RequestInforms
  <2>2. \A q \in Req \ {r} : In(q, Informing)' <=> In(q, Informing)
      BY <2>1 DEF OthersKept, In, Idle
  <2> QED
      BY <2>1, <2>2 DEF StatusOnItsWay, Informs
<1>3. ASSUME UNCHANGED <<errored, Status, stack>>, status' \in {status, Status}
      PROVE  StatusOnItsWay'
    BY <1>3 DEF StatusOnItsWay, In, Idle
<1>4. ASSUME NEW t \in Task, LoopStep(t) \/ StreamStep(t)
      PROVE  UNCHANGED <<errored, Status, stack>> /\ status' \in {status, Status}
    BY <1>4
    DEF LoopStep, LoopStops, LoopStreams, LoopReads, LoopQuiet, LoopDetect, LoopPersist,
       LoopCrash, LoopCrashed, StreamStep, LoopReceives, LoopStreamEnds, Status, manager, ghosts
<1>5. ASSUME NEW x \in Task \cup Req, ThreadDone(x)
      PROVE  UNCHANGED <<errored, Status, stack, status>>
    BY <1>5 DEF ThreadDone, Status, manager, ghosts
<1>6. UNCHANGED vars \/ WorkerEnds \/ LeftEnds => UNCHANGED <<errored, Status, stack, status>>
    BY DEF vars, WorkerEnds, LeftEnds, Status, manager, ghosts
<1> QED
    BY <1>1, <1>2, <1>3, <1>4, <1>5, <1>6 DEF Next

\* Whatever start, stop, focus, configuration and device requests overlap,
\* when all have completed and none raised, the status the clients were last
\* sent is the real one: every method that changes it goes on to broadcast.
THEOREM ClientsConverge == Spec => []StatusConverges
<1>1. Init => StatusOnItsWay
    BY DEF Init, StatusOnItsWay, Status
<1>2. TypeInv /\ StatusOnItsWay /\ [Next]_vars => StatusOnItsWay'
    BY StatusNext
<1>3. StatusOnItsWay => StatusConverges
    BY DEF StatusOnItsWay, StatusConverges, In
<1> QED
    BY TypeInvariant, <1>1, <1>2, <1>3, PTL DEF Spec

-----------------------------------------------------------------------------
(* One request at a time: who owns the loop, the session row and the SDR.   *)

OneAtATime == \A p, q \in Req : p = q

\* Labels at which no scan is running, because the method has stopped it or
\* has found it stopped.
Paused == {"start_insert", "start_go", "stop_wait", "stop_session", "stop_row", "clear_reset",
           "clear_rows", "reopen", "reopened", "cal_read", "cal_wait", "dec_open", "decoding"}
PausedOK(q) == In(q, Paused) \/ (In(q, {"status"}) /\ Under(q, AfterStop)) => ~scanning

\* A method called by a frame of AfterStop is stop_scan.
LEMMA CallerKnown ==
  ASSUME FramesOK, NEW q \in Req, ~Idle(q)
  PROVE  /\ Under(q, AfterStop) => Head(stack[q]) \in StopFrames
         /\ Under(q, AfterStart) => Head(stack[q]) \in StartFrames
         /\ ~(Under(q, AfterStop) /\ Under(q, AfterStart))
         /\ Head(stack[q]) \notin StopFrames \cup StartFrames => Len(stack[q]) = 1
<1>1. PICK k \in Labels : \/ stack[q] = <<k>>
                          \/ \E m \in AfterStop : k \in StopFrames /\ stack[q] = <<k, m>>
                          \/ \E m \in AfterStart : k \in StartFrames /\ stack[q] = <<k, m>>
    BY Shape DEF FramesOK, Idle
<1> QED
    BY <1>1, One, Two DEF Under, AfterStop, AfterStart

\* What is left of r when its method returns.
LEMMA Returned ==
  ASSUME FramesOK, NEW r \in Req, ~Idle(r), Returns(r)
  PROVE  /\ ~Idle(r)' => /\ Head(stack'[r]) \in AfterStop \cup AfterStart
                         /\ Head(stack'[r]) \in AfterStop => Under(r, AfterStop)
                         /\ Under(r, {Head(stack'[r])})
         /\ \A M : ~Under(r, M)'
         /\ ~Idle(r)' => \A L : In(r, L)' <=> Head(stack'[r]) \in L
<1>1. CASE stack'[r] = <<>>
  <2>1. Len(stack'[r]) = 0
      BY <1>1
  <2> QED
      BY <1>1, <2>1 DEF Idle, Under
<1>2. CASE /\ Len(stack[r]) = 2 /\ stack'[r] = <<stack[r][2]>>
           /\ stack[r][2] \in AfterStop \cup AfterStart
  <2>1. stack'[r] # <<>> /\ Len(stack'[r]) = 1 /\ Head(stack'[r]) = stack[r][2]
      BY <1>2, One
  <2> QED
      BY <1>2, <2>1 DEF Idle, Under, In
<1> QED
    BY <1>1, <1>2 DEF Returns

LEMMA PausedRequest ==
  ASSUME TypeInv, NEW r \in Req, PausedOK(r), RequestStep(r) \/ DatabaseRaises(r)
  PROVE  PausedOK(r)'
<1>1. FramesOK /\ ManagerOK
    BY DEF TypeInv, StateOK
<1>2. ~scanning' => PausedOK(r)'
    BY DEF PausedOK
<1>3. ASSUME NEW l, NEW v, GoesOn(r, l, v), l \notin Paused,
             l = "status" => ~Under(r, AfterStop)
      PROVE  PausedOK(r)'
    BY <1>3 DEF GoesOn, PausedOK, In, Under
<1>4. ASSUME NEW l, NEW m, NEW v, Calls(r, l, m, v), l \in {"start", "stop"}
      PROVE  PausedOK(r)'
    BY <1>4, Two DEF Calls, PausedOK, In, Paused
<1>5. Fails(r) => PausedOK(r)'
    BY DEF Fails, PausedOK, In, Idle
<1>6. ASSUME ~Idle(r), Returns(r), scanning' = scanning, Under(r, AfterStop) => ~scanning
      PROVE  PausedOK(r)'
    BY <1>1, <1>6, Returned DEF PausedOK, In, Paused, AfterStop, AfterStart
<1>7. ASSUME ~Idle(r), Head(stack[r]) \notin StopFrames PROVE ~Under(r, AfterStop)
    BY <1>1, <1>7, CallerKnown
<1> USE DEF StopFrames, Paused
<1>8. CASE StartStep(r) \/ BroadcastStatus(r)
  <2>1. CASE StartBegin(r)
      BY <1>1, <1>2, <1>5, <1>6, <1>7, <2>1, StartFootprints DEF StartBegin
  <2>2. CASE StartInsert(r)
      BY <1>1, <1>2, <2>2, StartFootprints DEF StartInsert, PausedOK, In, manager
  <2>3. CASE StartGo(r)
      BY <1>1, <1>3, <1>7, <2>3, StartFootprints
  <2>4. CASE BroadcastStatus(r)
      BY <1>1, <1>6, <2>4, StartFootprints DEF BroadcastStatus, PausedOK, In, manager
  <2> QED
      BY <1>8, <2>1, <2>2, <2>3, <2>4 DEF StartStep
<1>9. CASE StopStep(r)
  <2>1. CASE StopBegin(r)
      BY <1>1, <1>2, <2>1, StopFootprints DEF StopBegin
  <2>2. CASE ~StopBegin(r)
    <3>1. In(r, Paused) /\ scanning' = scanning
        BY <1>1, <1>9, <2>2, StopFootprints
        DEF StopStep, StopWait, StopTimeout, StopRaises, StopSession,
           StopRow, In, manager
    <3> QED
        BY <1>2, <3>1 DEF PausedOK
  <2> QED
      BY <2>1, <2>2
<1>10. CASE FocusStep(r)
    BY <1>1, <1>3, <1>4, <1>7, <1>10, FocusFootprints DEF FocusStep
<1>11. CASE ClearStep(r)
  <2>1. CASE ClearBegin(r)
      BY <1>1, <1>4, <2>1, FocusFootprints
  <2>2. CASE ClearReset(r) \/ ClearRows(r)
      BY <1>1, <1>2, <2>2, FocusFootprints DEF ClearReset, ClearRows, PausedOK, In, manager
  <2> QED
      BY <1>11, <2>1, <2>2 DEF ClearStep
<1>12. CASE UpdateStep(r)
  <2>1. CASE UpdateBegin(r) \/ UpdateApply(r)
      BY <1>1, <1>2, <1>3, <1>4, <2>1, UpdateFootprints DEF UpdateBegin, UpdateApply, manager
  <2>2. CASE Reopen(r) \/ Reopened(r)
      BY <1>1, <1>2, <2>2, UpdateFootprints DEF Reopen, Reopened, PausedOK, In, manager
  <2>3. CASE UpdateSave(r) \/ UpdateSaved(r)
      BY <1>1, <1>3, <1>6, <1>7, <2>3, UpdateFootprints DEF UpdateSave, UpdateSaved, manager
  <2> QED
      BY <1>12, <2>1, <2>2, <2>3 DEF UpdateStep
<1>13. CASE DeviceStep(r)
  <2>1. CASE CalibrateBegin(r) \/ DecodeBegin(r)
      BY <1>1, <1>2, <1>4, <2>1, DeviceFootprints DEF CalibrateBegin, DecodeBegin, manager
  <2>2. CASE CalibrateRead(r) \/ CalibrateDone(r) \/ DecodeOpen(r) \/ DecodeDone(r)
      BY <1>1, <1>2, <2>2, DeviceFootprints
      DEF CalibrateRead, CalibrateDone, DecodeOpen, DecodeDone,
         PausedOK, In, manager
  <2>3. CASE CalibrateFocus(r)
      BY <1>1, <1>3, <1>6, <1>7, <2>3, DeviceFootprints DEF CalibrateFocus, manager
  <2> QED
      BY <1>13, <2>1, <2>2, <2>3 DEF DeviceStep
<1>14. CASE DatabaseRaises(r)
    BY <1>1, <1>5, <1>14, DatabaseFootprint
<1> QED
    BY <1>8, <1>9, <1>10, <1>11, <1>12, <1>13, <1>14 DEF RequestStep

\* A loop that can still act is the one _task names and runs for the open
\* session that _session_id names; it outlives the scan only while stop_scan
\* waits for it.
Owned ==
    \A t \in Task : Alive(t) =>
      /\ task = t /\ sessionId = t /\ session[t] = "open"
      /\ loop[t] = "persist" => loopArg[t] = t
      /\ scanning \/ \E q \in Req : In(q, {"stop_wait"})

\* Locals kept across an await still say what they did.
ArgsOK(q) ==
    /\ In(q, {"stop_wait"}) => loc[q].arg = task /\ task # 0
    /\ In(q, {"start_go"}) => loc[q].arg \in Task /\ session[loc[q].arg] = "open"
    /\ In(q, {"stop_row"}) => loc[q].arg = sessionId

\* Unless a request failed half-way, somebody is left to close an open row.
Closing == {"stop_wait", "stop_session", "stop_row"}
SessionOwned ==
    ~errored => \A t \in Task : session[t] = "open" =>
      \/ t = sessionId /\ (scanning \/ \E q \in Req : In(q, Closing))
      \/ \E q \in Req : In(q, {"start_go"}) /\ t = loc[q].arg

\* A thread that reads was left behind by a cancelled loop, or belongs to the
\* loop or the calibration that waits for it, and then reads the backend that
\* is open, with no worker beside it; a worker reads for a loop that runs.
LoopThread == \A t \in Task : thread[t] # 0 =>
                \/ loop[t] = "cancelled"
                \/ loop[t] = "read" /\ thread[t] = backend /\ worker = 0
CalThread(q) == thread[q] # 0 => In(q, {"cal_wait"}) /\ thread[q] = backend
WorkerOwned == worker # 0 => worker = backend /\ \E t \in Task : Alive(t)

\* No thread has been started for a session that is yet to run.
Fresh == \A t \in Task : thread[t] # 0 =>
           session[t] # "none" /\ \A q \in Req : In(q, {"start_go"}) => loc[q].arg # t

Readers == LoopThread /\ WorkerOwned /\ Fresh

SerialInv == /\ Owned /\ SessionOwned /\ Readers
             /\ \A q \in Req : PausedOK(q) /\ ArgsOK(q) /\ CalThread(q)

LEMMA NoLoopLeft ==
  ASSUME OneAtATime, SerialInv, NEW r \in Req, ~scanning, ~In(r, {"stop_wait"})
  PROVE  \A t \in Task : ~Alive(t)
BY DEF OneAtATime, SerialInv, Owned

\* stop() of the stream leaves no worker that anyone waits for.
LEMMA StreamClosed ==
  ASSUME StopWorker \/ CloseStream
  PROVE  worker' = 0
BY DEF StopWorker, CloseStream

\* Most steps leave all of this alone.
LEMMA SerialKept ==
  ASSUME OneAtATime, TypeInv, SerialInv, NEW r \in Req,
         ~In(r, {"stop_wait", "stop_session", "stop_row", "start_go"}),
         ~In(r, {"stop_wait", "stop_row", "start_go"})',
         UNCHANGED <<scanning, task, sessionId, loop, loopArg, session, thread, backend, worker>>,
         errored => errored',
         ~In(r, {"cal_wait"}) \/ thread[r] = 0
  PROVE  /\ Owned' /\ SessionOwned' /\ Readers'
         /\ ArgsOK(r)' /\ CalThread(r)'
<1>1. \A q \in Req : q = r
    BY DEF OneAtATime
<1>2. ArgsOK(r)'
    BY DEF ArgsOK, In
<1>3. CalThread(r)' /\ Readers'
  <2>1. CalThread(r)' /\ LoopThread'
      BY DEF SerialInv, CalThread, Readers, LoopThread
  <2>2. WorkerOwned'
      BY DEF SerialInv, Readers, WorkerOwned, Alive, Running
  <2>3. Fresh'
      BY <1>1 DEF SerialInv, Readers, Fresh, In
  <2> QED
      BY <2>1, <2>2, <2>3 DEF Readers
<1>4. Owned'
    BY <1>1 DEF SerialInv, Owned, Alive, In
<1>5. SessionOwned'
    BY <1>1 DEF SerialInv, SessionOwned, In, Closing
<1> QED
    BY <1>2, <1>3, <1>4, <1>5

LEMMA SerialRequest ==
  ASSUME OneAtATime, TypeInv, SerialInv, NEW r \in Req, RequestStep(r) \/ DatabaseRaises(r)
  PROVE  SerialInv'
<1> DEFINE Rest == /\ Owned' /\ SessionOwned' /\ Readers' /\ ArgsOK(r)' /\ CalThread(r)'
           Named == {"stop_wait", "stop_row", "start_go"}
           Same == UNCHANGED <<scanning, task, sessionId, loop, loopArg, session, thread, backend,
                               worker>> /\ (errored => errored')
           Quiet == /\ ~Idle(r) /\ Same
                    /\ Head(stack[r]) \notin {"stop_wait", "stop_session", "stop_row", "start_go",
                                              "cal_wait"}
<1>1. FramesOK /\ ManagerOK /\ StateOK /\ (\A q \in Req : q = r)
    BY DEF TypeInv, StateOK, OneAtATime
<1>2. SUFFICES Rest
  <2>1. PausedOK(r)'
      BY PausedRequest DEF SerialInv
  <2> QED
      BY <1>1, <2>1 DEF SerialInv
<1>3. ASSUME Quiet, ~In(r, Named)' PROVE Rest
    BY <1>3, SerialKept DEF In
<1>4. ASSUME Quiet, NEW l, NEW v, GoesOn(r, l, v), l \notin Named PROVE Rest
    BY <1>3, <1>4 DEF GoesOn, In
<1>5. ASSUME Quiet, NEW l, NEW m, NEW v, Calls(r, l, m, v), l \in {"stop", "start"} PROVE Rest
    BY <1>3, <1>5, Two DEF Calls, In
<1>6. ASSUME Quiet, Returns(r) \/ Fails(r) PROVE Rest
  <2>1. CASE Returns(r)
      BY <1>1, <1>3, <1>6, <2>1, Returned DEF In, AfterStop, AfterStart
  <2>2. CASE Fails(r)
      BY <1>3, <1>6, <2>2 DEF Fails, In, Idle
  <2> QED
      BY <1>6, <2>1, <2>2
<1> HIDE DEF Rest
<1>7. CASE StartBegin(r) \/ BroadcastStatus(r)
  <2>1. Same
      BY <1>7 DEF StartBegin, BroadcastStatus, Abort, manager, loops, ghosts
  <2> HIDE DEF Same
  <2> QED
      BY <1>1, <1>4, <1>6, <1>7, <2>1, StartFootprints
<1>8. CASE FocusStep(r) \/ ClearBegin(r)
  <2>1. Same
      BY <1>8 DEF FocusStep, FocusBegin, FocusSet, Unfocus, ClearBegin, manager, loops, ghosts
  <2> HIDE DEF Same
  <2> QED
      BY <1>1, <1>4, <1>5, <1>8, <2>1, FocusFootprints DEF FocusStep
<1>9. CASE UpdateStep(r) /\ ~Reopen(r)
  <2>1. Same
      BY <1>9 DEF UpdateStep, UpdateBegin, UpdateApply, Reopened, UpdateSave, UpdateSaved, manager,
                  loops, ghosts
  <2> HIDE DEF Same
  <2> QED
      BY <1>1, <1>4, <1>5, <1>6, <1>9, <2>1, UpdateFootprints DEF UpdateStep
<1>10. CASE CalibrateBegin(r) \/ CalibrateFocus(r) \/ DecodeBegin(r) \/ DecodeOpen(r) \/ DecodeDone(r)
  <2>1. Same
      BY <1>10 DEF CalibrateBegin, CalibrateFocus, DecodeBegin, DecodeOpen, DecodeDone, manager,
                   loops, ghosts
  <2> HIDE DEF Same
  <2> QED
      BY <1>1, <1>4, <1>5, <1>6, <1>10, <2>1, DeviceFootprints
<1> USE DEF Rest
<1>11. ASSUME ~Idle(r), Fails(r), ~In(r, {"stop_wait", "cal_wait"}),
              UNCHANGED <<scanning, task, sessionId, loop, loopArg, session, thread, backend, worker>>
       PROVE  Rest
  <2>1. stack'[r] = <<>> /\ errored'
      BY <1>11 DEF Fails
  <2>2. Owned' /\ SessionOwned'
      BY <1>1, <1>11, <2>1 DEF SerialInv, Owned, SessionOwned, Alive, In
  <2>3. ArgsOK(r)' /\ CalThread(r)' /\ Readers'
      BY <1>1, <1>11, <2>1 DEF ArgsOK, Idle, SerialInv, CalThread, Readers, LoopThread, WorkerOwned, Fresh, Alive, In
  <2> QED
      BY <2>2, <2>3
<1>12. CASE DatabaseRaises(r)
  <2>1. UNCHANGED <<scanning, task, sessionId, loop, loopArg, session, thread, backend, worker>>
      BY <1>12 DEF DatabaseRaises, Abort, manager, loops
  <2>2. ~Idle(r) /\ Fails(r) /\ ~In(r, {"stop_wait", "cal_wait"})
      BY <1>1, <1>12, DatabaseFootprint DEF DatabaseRaises, At, AwaitsDatabase, In
  <2> QED
      BY <1>11, <2>1, <2>2
<1>13. CASE CalibrateRead(r)
  <2>1. /\ ~Idle(r) /\ Head(stack[r]) = "cal_read" /\ GoesOn(r, "cal_wait", loc[r])
        /\ thread' = [thread EXCEPT ![r] = backend]
        /\ UNCHANGED <<scanning, task, sessionId, loop, loopArg, session, backend, worker, errored>>
      BY <1>1, <1>13, DeviceFootprints DEF CalibrateRead, manager, loops, ghosts
  <2>2. In(r, {"cal_wait"})' /\ ~In(r, {"stop_wait", "stop_row", "start_go"})'
      BY <2>1 DEF GoesOn, In, Idle
  <2>3. Owned'
      BY <1>1, <2>1 DEF SerialInv, Owned, Alive, In
  <2>4. SessionOwned'
      BY <1>1, <2>1 DEF SerialInv, SessionOwned, In, Closing
  <2>5. ArgsOK(r)'
      BY <2>2 DEF ArgsOK, In
  <2>6. CalThread(r)' /\ Readers'
      BY <1>1, <2>1, <2>2 DEF StateOK, SerialInv, CalThread, Readers, LoopThread, WorkerOwned, Fresh, Alive, In
  <2> QED
      BY <2>3, <2>4, <2>5, <2>6
<1>14. CASE CalibrateDone(r)
  <2>1. /\ ~Idle(r) /\ Head(stack[r]) = "cal_wait" /\ thread[r] = 0 /\ Same
        /\ Calls(r, "start", "cal_focus", loc[r]) \/ Returns(r)
      BY <1>1, <1>14, DeviceFootprints DEF CalibrateDone, manager, loops, ghosts
  <2>2. ~In(r, Named)'
    <3>1. CASE Calls(r, "start", "cal_focus", loc[r])
        BY <3>1, Two DEF Calls, In
    <3>2. CASE Returns(r)
        BY <1>1, <2>1, <3>2, Returned DEF In, AfterStop, AfterStart
    <3> QED
        BY <2>1, <3>1, <3>2
  <2> QED
      BY <2>1, <2>2, SerialKept DEF In
<1>15. CASE Reopen(r)
  <2>1. /\ ~Idle(r) /\ Head(stack[r]) = "reopen" /\ GoesOn(r, "reopened", loc[r])
        /\ UNCHANGED <<scanning, task, sessionId, loop, loopArg, session, thread, worker, errored>>
      BY <1>1, <1>15, UpdateFootprints DEF Reopen, loops, ghosts
  <2>2. ~In(r, Named \cup {"cal_wait"})'
      BY <2>1 DEF GoesOn, In
  <2>3. ~scanning
      BY <2>1 DEF SerialInv, PausedOK, In, Paused
  <2>4. \A t \in Task : ~Alive(t)
      BY <2>1, <2>3, NoLoopLeft DEF In
  <2>5. Owned'
      BY <2>1, <2>4 DEF Owned, Alive
  <2>6. SessionOwned'
      BY <1>1, <2>1 DEF SerialInv, SessionOwned, In, Closing
  <2>7. ArgsOK(r)'
      BY <2>2 DEF ArgsOK, In
  <2>8. CalThread(r)' /\ LoopThread'
      BY <2>1, <2>4 DEF SerialInv, CalThread, Readers, LoopThread, In, Alive, Running
  <2>9. worker = 0
      BY <2>4 DEF SerialInv, Readers, WorkerOwned
  <2>10. WorkerOwned' /\ Fresh'
      BY <1>1, <2>1, <2>2, <2>9 DEF SerialInv, Readers, WorkerOwned, Fresh, In
  <2> QED
      BY <2>5, <2>6, <2>7, <2>8, <2>10 DEF Readers
<1>16. CASE StartInsert(r)
  <2>1. PICK t \in Task : /\ session[t] = "none"
                          /\ session' = [session EXCEPT ![t] = "open"]
                          /\ GoesOn(r, "start_go", [loc[r] EXCEPT !.arg = t])
      BY <1>1, <1>16, StartFootprints
  <2>2. /\ ~Idle(r) /\ Head(stack[r]) = "start_insert"
        /\ UNCHANGED <<scanning, task, sessionId, loop, loopArg, thread, backend, worker, errored>>
      BY <1>1, <1>16, StartFootprints DEF StartInsert, manager, loops, ghosts
  <2>3. /\ In(r, {"start_go"})' /\ ~In(r, {"stop_wait", "stop_row"})' /\ loc'[r].arg = t
    <3>1. [loc[r] EXCEPT !.arg = t].arg = t
        BY <1>1 DEF FramesOK, Locals
    <3> QED
        BY <2>1, <3>1 DEF GoesOn, In, Idle
  <2>4. Owned'
      BY <1>1, <2>1, <2>2 DEF StateOK, SerialInv, Owned, Alive, In
  <2>5. SessionOwned'
      BY <1>1, <2>1, <2>2, <2>3 DEF StateOK, SerialInv, SessionOwned, In, Closing
  <2>6. ArgsOK(r)'
      BY <1>1, <2>1, <2>3 DEF StateOK, ArgsOK, In
  <2>7. CalThread(r)' /\ Readers'
      BY <1>1, <2>1, <2>2, <2>3 DEF StateOK, SerialInv, CalThread, Readers, LoopThread, WorkerOwned, Fresh, Alive, In
  <2> QED
      BY <2>4, <2>5, <2>6, <2>7
<1>17. CASE StartGo(r)
  <2> DEFINE a == loc[r].arg
  <2>1. /\ ~Idle(r) /\ Head(stack[r]) = "start_go" /\ GoesOn(r, "status", loc[r])
        /\ sessionId' = a /\ task' = a /\ scanning' = TRUE /\ loop' = [loop EXCEPT ![a] = "ready"]
        /\ UNCHANGED <<loopArg, session, thread, backend, worker, errored>>
      BY <1>1, <1>17, StartFootprints DEF StartGo, ghosts
  <2>2. ~In(r, {"stop_wait", "stop_row", "start_go", "cal_wait"})'
      BY <2>1 DEF GoesOn, In
  <2>3. ~scanning /\ a \in Task /\ session[a] = "open"
      BY <2>1 DEF SerialInv, PausedOK, ArgsOK, In, Paused
  <2>4. \A t \in Task : ~Alive(t)
      BY <2>1, <2>3, NoLoopLeft DEF In
  <2> HIDE DEF a
  <2>5. Owned'
      BY <1>1, <2>1, <2>3, <2>4 DEF StateOK, Owned, Alive
  <2>6. SessionOwned'
    <3>1. ASSUME ~errored, NEW t \in Task, session[t] = "open" PROVE t = a
        BY <1>1, <2>1, <2>3, <3>1 DEF SerialInv, SessionOwned, In, Closing, a
    <3> QED
        BY <2>1, <3>1 DEF SessionOwned
  <2>7. ArgsOK(r)'
      BY <2>2 DEF ArgsOK, In
  <2>9. thread[a] = 0
      BY <2>1, <2>3 DEF SerialInv, Readers, Fresh, In, a
  <2>10. worker = 0 /\ \A t \in Task \ {a} : loop'[t] = loop[t]
      BY <1>1, <2>1, <2>4 DEF StateOK, SerialInv, Readers, WorkerOwned
  <2>8. CalThread(r)' /\ Readers'
    <3>1. CalThread(r)' /\ LoopThread'
        BY <2>1, <2>2, <2>9, <2>10 DEF SerialInv, CalThread, Readers, LoopThread, In
    <3>2. WorkerOwned' /\ Fresh'
        BY <1>1, <2>1, <2>2, <2>10 DEF SerialInv, Readers, WorkerOwned, Fresh, In
    <3> QED
        BY <3>1, <3>2 DEF Readers
  <2> QED
      BY <2>5, <2>6, <2>7, <2>8
<1>18. CASE StopStep(r)
  <2>1. CASE StopBegin(r) /\ ~scanning
    <3>1. ~Idle(r) /\ Head(stack[r]) = "stop" /\ Returns(r) /\ Same
        BY <1>1, <2>1, StopFootprints DEF StopBegin, loops, ghosts
    <3> HIDE DEF Rest, Same
    <3> QED
        BY <1>6, <3>1
  <2>2. CASE StopBegin(r) /\ scanning
    <3>1. /\ ~Idle(r) /\ Head(stack[r]) = "stop" /\ ~scanning'
          /\ UNCHANGED <<task, sessionId, loop, loopArg, session, thread, backend, errored>>
          /\ worker' = 0
        BY <1>1, <2>2, StopFootprints, StreamClosed DEF StopBegin, loops, ghosts
    <3>2. \/ task # 0 /\ In(r, {"stop_wait"})' /\ ~In(r, {"stop_row", "start_go"})' /\ loc'[r].arg = task
          \/ task = 0 /\ In(r, {"stop_session"})' /\ ~In(r, Named)'
      <4>1. CASE task # 0
        <5>1. GoesOn(r, "stop_wait", [loc[r] EXCEPT !.arg = task])
            BY <1>1, <2>2, <4>1, StopFootprints
        <5>2. [loc[r] EXCEPT !.arg = task].arg = task
            BY <1>1 DEF FramesOK, Locals
        <5> QED
            BY <4>1, <5>1, <5>2 DEF GoesOn, In, Idle
      <4>2. CASE task = 0
        <5>1. GoesOn(r, "stop_session", loc[r])
            BY <1>1, <2>2, <4>2, StopFootprints
        <5> QED
            BY <4>2, <5>1 DEF GoesOn, In, Idle
      <4> QED
          BY <4>1, <4>2
    <3>3. Owned'
        BY <3>1, <3>2 DEF SerialInv, Owned, Alive, Task
    <3>4. SessionOwned'
        BY <1>1, <3>1, <3>2 DEF SerialInv, SessionOwned, In, Closing
    <3>5. ArgsOK(r)'
        BY <3>1, <3>2 DEF ArgsOK, In
    <3>6. CalThread(r)' /\ Readers'
        BY <1>1, <3>1, <3>2 DEF SerialInv, CalThread, Readers, LoopThread, WorkerOwned, Fresh, Alive, In
    <3> QED
        BY <3>3, <3>4, <3>5, <3>6
  <2>3. CASE StopWait(r)
    <3>1. /\ ~Idle(r) /\ Head(stack[r]) = "stop_wait" /\ GoesOn(r, "stop_session", loc[r])
          /\ task' = 0 /\ loop[loc[r].arg] = "done"
          /\ UNCHANGED <<scanning, sessionId, loop, loopArg, session, thread, backend, worker, errored>>
        BY <1>1, <2>3, StopFootprints DEF StopWait, loops, ghosts
    <3>2. In(r, {"stop_session"})' /\ ~In(r, Named)'
        BY <3>1 DEF GoesOn, In, Idle
    <3>3. \A t \in Task : ~Alive(t)
        BY <3>1 DEF SerialInv, Owned, ArgsOK, In, Alive, Running
    <3>4. Owned'
        BY <3>1, <3>3 DEF Owned, Alive
    <3>5. SessionOwned'
        BY <1>1, <3>1, <3>2 DEF SerialInv, SessionOwned, In, Closing
    <3>6. ArgsOK(r)'
        BY <3>2 DEF ArgsOK, In
    <3>7. CalThread(r)' /\ Readers'
        BY <1>1, <3>1, <3>2 DEF SerialInv, CalThread, Readers, LoopThread, WorkerOwned, Fresh, Alive, In
    <3> QED
        BY <3>4, <3>5, <3>6, <3>7
  <2>4. CASE StopTimeout(r)
    <3>1. ~Idle(r) /\ Head(stack[r]) = "stop_wait" /\ task # 0 /\ loc[r].arg = task
        BY <1>1, <2>4, StopFootprints DEF SerialInv, ArgsOK, In
    <3>2. /\ GoesOn(r, "stop_session", loc[r]) /\ task' = 0
          /\ UNCHANGED <<scanning, sessionId, session, thread, backend, errored>>
          /\ loop' = [t \in Task |-> IF t \in {loc[r].arg, task} /\ Alive(t) THEN "cancelled" ELSE loop[t]]
          /\ IF loop' # loop THEN CloseStream ELSE worker' = worker
        BY <1>1, <2>4, <3>1, StopFootprints DEF StopTimeout, ghosts
    <3>3. In(r, {"stop_session"})' /\ ~In(r, Named)'
        BY <3>2 DEF GoesOn, In, Idle
    <3>4. \A t \in Task : ~Alive(t)'
        BY <3>1, <3>2 DEF SerialInv, Owned, Alive, Running
    <3>5. Owned'
        BY <3>4 DEF Owned
    <3>6. SessionOwned'
        BY <1>1, <3>1, <3>2, <3>3 DEF SerialInv, SessionOwned, In, Closing
    <3>7. ArgsOK(r)'
        BY <3>3 DEF ArgsOK, In
    <3>9. worker' = 0
      <4>1. CASE loop' # loop
          BY <3>2, <4>1, StreamClosed
      <4>2. CASE loop' = loop
          BY <3>2, <3>4, <4>2 DEF SerialInv, Readers, WorkerOwned, Alive
      <4> QED
          BY <4>1, <4>2
    <3>8. CalThread(r)' /\ Readers'
        BY <1>1, <3>1, <3>2, <3>3, <3>9 DEF StateOK, SerialInv, CalThread, Readers, LoopThread, WorkerOwned, Fresh, Alive, In
    <3> QED
        BY <3>5, <3>6, <3>7, <3>8
  <2>5. CASE StopRaises(r)
    <3>1. /\ ~Idle(r) /\ Head(stack[r]) = "stop_wait" /\ Fails(r) /\ loop[loc[r].arg] = "failed"
          /\ UNCHANGED <<scanning, task, sessionId, loop, loopArg, session, thread, backend, worker>>
        BY <1>1, <2>5, StopFootprints DEF StopRaises, Abort, manager, loops
    <3>2. \A t \in Task : ~Alive(t)
        BY <3>1 DEF SerialInv, Owned, ArgsOK, In, Alive, Running
    <3>3. Owned' /\ SessionOwned'
        BY <3>1, <3>2 DEF Owned, SessionOwned, Alive, Fails
    <3>4. ArgsOK(r)' /\ CalThread(r)' /\ Readers'
        BY <1>1, <3>1 DEF Fails, ArgsOK, Idle, SerialInv, CalThread, Readers, LoopThread, WorkerOwned, Fresh, Alive, In
    <3> QED
        BY <3>3, <3>4
  <2>6. CASE StopSession(r) \/ StopRow(r)
    <3>1. /\ ~Idle(r) /\ Head(stack[r]) \in {"stop_session", "stop_row"} /\ ~scanning
          /\ UNCHANGED <<scanning, task, sessionId, loop, loopArg, thread, backend, worker, errored>>
        BY <1>1, <2>6, StopFootprints DEF StopSession, StopRow, manager, loops, ghosts, SerialInv,
           PausedOK, In, Paused
    <3>6. \A t \in Task : session'[t] = "none" => session[t] = "none"
        BY <1>1, <2>6 DEF StateOK, StopSession, StopRow
    <3>7. ~In(r, {"start_go"})'
        BY <1>1, <2>6, StopFootprints DEF GoesOn, In
    <3>2. \A t \in Task : ~Alive(t)
        BY <3>1, NoLoopLeft DEF In
    <3>3. Owned'
        BY <3>1, <3>2 DEF Owned, Alive
    <3>4. CalThread(r)' /\ Readers'
        BY <1>1, <3>1, <3>2, <3>6, <3>7 DEF SerialInv, CalThread, Readers, LoopThread, WorkerOwned, Fresh, Alive, In
    <3>5. SessionOwned' /\ ArgsOK(r)'
      <4>1. CASE StopSession(r) /\ sessionId # 0
        <5>1. /\ GoesOn(r, "stop_row", [loc[r] EXCEPT !.arg = sessionId]) /\ session' = session
            BY <1>1, <4>1, StopFootprints DEF StopSession
        <5>2. [loc[r] EXCEPT !.arg = sessionId].arg = sessionId
            BY <1>1 DEF FramesOK, Locals, ManagerOK
        <5>3. In(r, {"stop_row"})' /\ ~In(r, {"stop_wait", "start_go"})' /\ loc'[r].arg = sessionId
            BY <5>1, <5>2 DEF GoesOn, In, Idle
        <5> QED
            BY <1>1, <3>1, <5>1, <5>3 DEF SerialInv, SessionOwned, ArgsOK, In, Closing
      <4>2. CASE StopSession(r) /\ sessionId = 0
        <5>1. GoesOn(r, "status", loc[r]) /\ session' = session
            BY <1>1, <4>2, StopFootprints DEF StopSession
        <5>2. ~In(r, Named)'
            BY <5>1 DEF GoesOn, In
        <5> QED
            BY <1>1, <3>1, <4>2, <5>1, <5>2 DEF SerialInv, SessionOwned, ArgsOK, In, Closing, Task
      <4>3. CASE StopRow(r)
        <5>1. /\ Head(stack[r]) = "stop_row" /\ GoesOn(r, "status", loc[r])
              /\ session' = [session EXCEPT ![loc[r].arg] = IF @ = "open" THEN "stopped" ELSE @]
            BY <1>1, <4>3, StopFootprints DEF StopRow
        <5>2. ~In(r, Named)'
            BY <5>1 DEF GoesOn, In
        <5>3. loc[r].arg = sessionId
            BY <3>1, <5>1 DEF SerialInv, ArgsOK, In
        <5>4. ArgsOK(r)'
            BY <5>2 DEF ArgsOK, In
        <5> QED
            BY <1>1, <3>1, <5>1, <5>3, <5>4 DEF StateOK, SerialInv, SessionOwned, In, Closing
      <4> QED
          BY <2>6, <4>1, <4>2, <4>3
    <3> QED
        BY <3>3, <3>4, <3>5
  <2> QED
      BY <1>18, <2>1, <2>2, <2>3, <2>4, <2>5, <2>6 DEF StopStep
<1>19. CASE ClearReset(r) \/ ClearRows(r)
  <2>1. /\ ~Idle(r) /\ Head(stack[r]) \in {"clear_reset", "clear_rows"}
        /\ \E l \in {"clear_rows", "status"} : GoesOn(r, l, loc[r])
        /\ UNCHANGED <<scanning, task, loop, loopArg, thread, backend, worker, errored>>
        /\ \A t \in Task : /\ session'[t] = "open" => session[t] = "open"
                           /\ session'[t] = "none" => session[t] = "none"
      BY <1>1, <1>19, FocusFootprints DEF ClearReset, ClearRows, manager, loops, ghosts
  <2>2. ~In(r, {"stop_wait", "stop_row", "start_go", "cal_wait"})'
      BY <2>1 DEF GoesOn, In
  <2>3. ~scanning
      BY <2>1 DEF SerialInv, PausedOK, In, Paused
  <2>4. \A t \in Task : ~Alive(t)
      BY <2>1, <2>3, NoLoopLeft DEF In
  <2>5. Owned'
      BY <2>1, <2>4 DEF Owned, Alive
  <2>6. SessionOwned'
      BY <1>1, <2>1, <2>3 DEF SerialInv, SessionOwned, In, Closing
  <2>7. ArgsOK(r)'
      BY <2>2 DEF ArgsOK, In
  <2>8. CalThread(r)' /\ Readers'
      BY <1>1, <2>1, <2>2 DEF SerialInv, CalThread, Readers, LoopThread, WorkerOwned, Fresh, Alive, In
  <2> QED
      BY <2>5, <2>6, <2>7, <2>8
<1> QED
    BY <1>7, <1>8, <1>9, <1>10, <1>12, <1>13, <1>14, <1>15, <1>16, <1>17,
       <1>18, <1>19
       DEF RequestStep, StartStep, ClearStep, UpdateStep, DeviceStep

LEMMA SerialNext ==
  ASSUME OneAtATime, TypeInv, SerialInv, [Next]_vars
  PROVE  SerialInv'
<1> USE DEF TypeInv, StateOK
<1>1. ASSUME NEW r \in Req, NEW k \in Kinds, Arrive(r, k) PROVE SerialInv'
  <2>1. PICK l \in AllKinds \cup {"update"} : Idle(r) /\ stack'[r] = <<l>>
      BY <1>1, ArriveFrames
  <2>2. \A q \in Req : q = r
      BY DEF OneAtATime
  <2>3. UNCHANGED <<scanning, task, sessionId, loop, loopArg, session, thread, backend, worker, errored>>
      BY <1>1 DEF Arrive, manager, loops, ghosts
  <2>4. In(r, {l})' /\ ~Under(r, AfterStop)'
      BY <2>1, One DEF In, Idle, Under
  <2>5. ~In(r, Paused \cup {"status", "stop_wait", "stop_row", "start_go"})'
      BY <2>4 DEF In, Paused, AllKinds
  <2>6. \A q \in Req : PausedOK(q)' /\ ArgsOK(q)' /\ CalThread(q)'
      BY <2>1, <2>2, <2>3, <2>5 DEF SerialInv, PausedOK, ArgsOK, CalThread, In
  <2>7. Owned' /\ Readers'
      BY <2>1, <2>2, <2>3, <2>5 DEF SerialInv, Owned, Readers, LoopThread, WorkerOwned, Fresh, Alive, In
  <2>8. SessionOwned'
      BY <2>1, <2>2, <2>3 DEF SerialInv, SessionOwned, In
  <2> QED
      BY <2>6, <2>7, <2>8 DEF SerialInv
<1>2. ASSUME NEW r \in Req, RequestStep(r) \/ DatabaseRaises(r) PROVE SerialInv'
    BY <1>2, SerialRequest
<1>3. ASSUME UNCHANGED <<scanning, task, sessionId, session, backend, stack, loc, errored>>,
             Owned', Readers', \A q \in Req : CalThread(q)'
      PROVE  SerialInv'
  <2>1. SessionOwned'
      BY <1>3 DEF SerialInv, SessionOwned, In, Idle
  <2>2. \A q \in Req : PausedOK(q)' /\ ArgsOK(q)'
      BY <1>3 DEF SerialInv, PausedOK, ArgsOK, In, Under, Idle
  <2> QED
      BY <1>3, <2>1, <2>2 DEF SerialInv
<1>4. ASSUME NEW t \in Task, LoopStep(t) \/ StreamStep(t) PROVE SerialInv'
  <2> USE DEF SerialInv, Owned, Readers, LoopThread, WorkerOwned, Fresh, Running, Ended, Alive, In,
              Idle
  <2>1. UNCHANGED <<scanning, task, sessionId, session, backend, stack, loc, errored>>
    <3> HIDE DEF SerialInv, Owned, Readers, Running, Ended, Alive, In
    <3> QED
        BY <1>4
        DEF LoopStep, LoopStops, LoopStreams, LoopReads, LoopQuiet, LoopDetect, LoopPersist,
            LoopCrash, LoopCrashed, StreamStep, LoopReceives, LoopStreamEnds, manager, ghosts
  <2>2. \A q \in Req : thread'[q] = thread[q]
      BY <1>4 DEF LoopStep, LoopStops, LoopStreams, LoopReads, LoopQuiet, LoopDetect, LoopPersist,
                  LoopCrash, LoopCrashed, StreamStep, LoopReceives, LoopStreamEnds
  <2>3. \A q \in Req : CalThread(q)'
      BY <2>1, <2>2 DEF CalThread
  <2>4. /\ Alive(t)
        /\ \A u \in Task \ {t} : ~Alive(u) /\ loop'[u] = loop[u] /\ loopArg'[u] = loopArg[u]
    <3>1. Alive(t)
        BY <1>4 DEF LoopStep, LoopStops, LoopStreams, LoopReads, LoopQuiet, LoopDetect, LoopPersist,
                    LoopCrash, LoopCrashed, StreamStep, LoopReceives, LoopStreamEnds
    <3>2. \A u \in Task \ {t} : loop'[u] = loop[u] /\ loopArg'[u] = loopArg[u]
        BY <1>4 DEF LoopStep, LoopStops, LoopStreams, LoopReads, LoopQuiet, LoopDetect, LoopPersist,
                    LoopCrash, LoopCrashed, StreamStep, LoopReceives, LoopStreamEnds
    <3> QED
        BY <3>1, <3>2
  <2>5. /\ task = t /\ sessionId = t /\ session[t] = "open"
        /\ \A q \in Req : In(q, {"start_go"}) => loc[q].arg # t
      BY <2>4 DEF OneAtATime, PausedOK, Paused
  <2>6. Owned' /\ Readers'
    <3>1. CASE LoopStops(t)
        BY <2>1, <2>4, <2>5, <3>1, StreamClosed DEF LoopStops
    <3>2. CASE LoopStreams(t)
        BY <2>1, <2>4, <2>5, <3>2 DEF LoopStreams
    <3>3. CASE LoopReads(t)
        BY <2>1, <2>4, <2>5, <3>3, StreamClosed DEF LoopReads
    <3>4. CASE LoopQuiet(t)
        BY <2>1, <2>4, <2>5, <3>4 DEF LoopQuiet
    <3>5. CASE LoopDetect(t)
        BY <2>1, <2>4, <2>5, <3>5 DEF LoopDetect
    <3>6. CASE LoopPersist(t)
        BY <2>1, <2>4, <2>5, <3>6 DEF LoopPersist
    <3>7. CASE LoopCrash(t)
        BY <2>1, <2>4, <2>5, <3>7 DEF LoopCrash
    <3>8. CASE LoopCrashed(t)
        BY <2>1, <2>4, <2>5, <3>8, StreamClosed DEF LoopCrashed
    <3>9. CASE LoopReceives(t)
        BY <2>1, <2>4, <2>5, <3>9 DEF LoopReceives
    <3>10. CASE LoopStreamEnds(t)
        BY <2>1, <2>4, <2>5, <3>10, StreamClosed DEF LoopStreamEnds
    <3> QED
        BY <1>4, <3>1, <3>2, <3>3, <3>4, <3>5, <3>6, <3>7, <3>8, <3>9, <3>10
        DEF LoopStep, StreamStep
  <2> QED
      BY <1>3, <2>1, <2>3, <2>6
<1>5. ASSUME NEW x \in Task \cup Req, ThreadDone(x) PROVE SerialInv'
  <2>1. UNCHANGED <<scanning, task, sessionId, session, backend, stack, loc, errored, loop, loopArg,
                    worker>>
      BY <1>5 DEF ThreadDone, manager, loops, ghosts
  <2>2. Owned'
      BY <2>1 DEF SerialInv, Owned, Alive, In, Idle
  <2>3. Readers' /\ \A q \in Req : CalThread(q)'
      BY <1>5, <2>1 DEF ThreadDone, SerialInv, Readers, LoopThread, WorkerOwned, Fresh, CalThread,
         Alive, In, Idle
  <2> QED
      BY <1>3, <2>1, <2>2, <2>3
<1>7. ASSUME WorkerEnds \/ LeftEnds PROVE SerialInv'
  <2>1. /\ UNCHANGED <<scanning, task, sessionId, session, backend, stack, loc, errored, loop, loopArg,
                       thread>>
        /\ worker' \in {0, worker}
      BY <1>7 DEF WorkerEnds, LeftEnds, manager, loops, ghosts
  <2>2. Owned' /\ Readers' /\ \A q \in Req : CalThread(q)'
      BY <2>1 DEF SerialInv, Owned, Readers, LoopThread, WorkerOwned, Fresh, CalThread, Alive, In, Idle
  <2> QED
      BY <1>3, <2>1, <2>2
<1>6. CASE UNCHANGED vars
    BY <1>6 DEF vars, manager, loops, ghosts, SerialInv, Owned, SessionOwned, Readers, LoopThread,
       WorkerOwned, Fresh, PausedOK, ArgsOK, CalThread, Alive, In, Under, Idle
<1> QED
    BY <1>1, <1>2, <1>4, <1>5, <1>6, <1>7 DEF Next

LEMMA SerialInit == Init => SerialInv
<1> SUFFICES ASSUME Init PROVE SerialInv
    OBVIOUS
<1>1. \A q \in Req : Idle(q)
    BY DEF Init, Idle
<1>2. /\ \A t \in Task : ~Alive(t) /\ session[t] # "open"
      /\ worker = 0 /\ \A x \in Task \cup Req : thread[x] = 0
    BY DEF Init, Alive, Running
<1> QED
    BY <1>1, <1>2 DEF SerialInv, Owned, SessionOwned, Readers, LoopThread, WorkerOwned, Fresh,
       PausedOK, ArgsOK, CalThread, In

LEMMA SerialInvariant == ASSUME OneAtATime PROVE Spec => []SerialInv
BY TypeInvariant, SerialInit, SerialNext, PTL DEF Spec

\* When requests come one at a time, however many sessions that takes, a scan
\* loop that can still act is the one _task names and runs for the open
\* session _session_id names, and after the last request nothing is left
\* running and no session row open.
THEOREM OneLoop == ASSUME OneAtATime PROVE Spec => []LoopIsOwned
<1>1. SerialInv => LoopIsOwned
    BY DEF SerialInv, Owned, SessionOwned, LoopIsOwned, IdleIsQuiet, In
<1> QED
    BY SerialInvariant, <1>1, PTL

\* When requests come one at a time, however often the receiver is reopened:
\* of the readers somebody waits for, be it an executor thread of a loop or of
\* a calibration or the worker of a stream, the SDR has one at a time and it
\* reads the backend that is open; none reads and no loop runs while rtl_433
\* has the device.  The threads and workers that a timed-out stop or join has
\* given up on are not counted.
THEOREM OneReader == ASSUME OneAtATime PROVE Spec => []DeviceExclusive
<1>1. TypeInv /\ SerialInv => DeviceExclusive
  <2> SUFFICES ASSUME TypeInv, SerialInv PROVE DeviceExclusive
      OBVIOUS
  <2>1. DOMAIN thread = Task \cup Req
      BY DEF TypeInv, StateOK
  <2>2. ASSUME NEW r \in Req, In(r, {"cal_wait", "decoding"})
        PROVE  worker = 0 /\ \A t \in Task : ~Alive(t)
      BY <2>2, NoLoopLeft DEF SerialInv, PausedOK, In, Paused, Readers, WorkerOwned
  <2>3. ASSUME NEW x \in Task, Held(x)
        PROVE  /\ Alive(x) /\ thread[x] = backend /\ worker = 0
               /\ \A y \in Req : thread[y] = 0
               /\ \A y \in Task : Held(y) => y = x
    <3>1. \A y \in Task : Held(y) => Alive(y) /\ thread[y] = backend /\ worker = 0
        BY DEF Held, SerialInv, Readers, LoopThread, Alive, Running
    <3>2. \A y \in Req : thread[y] = 0
        BY <2>2, <2>3, <3>1 DEF SerialInv, CalThread, In
    <3> QED
        BY <2>3, <3>1, <3>2 DEF SerialInv, Owned
  <2>4. ASSUME NEW x \in Req, thread[x] # 0
        PROVE  /\ In(x, {"cal_wait"}) /\ thread[x] = backend /\ worker = 0
               /\ \A y \in Task : ~Held(y)
               /\ \A y \in Req : y = x
    <3>1. In(x, {"cal_wait"}) /\ thread[x] = backend
        BY <2>4 DEF SerialInv, CalThread
    <3> QED
        BY <2>2, <2>3, <3>1 DEF In, OneAtATime
  <2>5. ASSUME NEW x \in Task \cup Req, Held(x)
        PROVE  thread[x] = backend /\ worker = 0 /\ \A y \in Task \cup Req : Held(y) => y = x
      BY <2>3, <2>4, <2>5 DEF Held
  <2>6. ASSUME NEW r \in Req, Decoding(r)
        PROVE  /\ worker = 0 /\ \A t \in Task : ~Alive(t)
               /\ \A x \in Task \cup Req : ~Held(x)
    <3>1. In(r, {"decoding"})
        BY <2>6 DEF Decoding, In
    <3>2. worker = 0 /\ \A t \in Task : ~Alive(t)
        BY <2>2, <3>1 DEF In
    <3>3. \A x \in Req : thread[x] = 0
        BY <2>4, <3>1 DEF In
    <3> QED
        BY <2>3, <3>2, <3>3 DEF Held
  <2>7. worker # 0 => worker = backend
      BY DEF SerialInv, Readers, WorkerOwned
  <2> QED
      BY <2>1, <2>5, <2>6, <2>7 DEF DeviceExclusive
<1> QED
    BY TypeInvariant, SerialInvariant, <1>1, PTL

\* When requests come one at a time, a detection is only stored under a
\* session whose row is still open.
THEOREM DetectionsHaveSession == ASSUME OneAtATime PROVE Spec => DetectionInOpenSession
<1>1. SerialInv => [\A t \in Task : LoopPersist(t) => session[loopArg[t]] = "open"]_vars
    BY DEF SerialInv, Owned, LoopPersist, Alive, Running
<1> QED
    BY SerialInvariant, <1>1, PTL DEF DetectionInOpenSession
=============================================================================
