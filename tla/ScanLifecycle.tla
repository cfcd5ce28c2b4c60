--------------------------- MODULE ScanLifecycle ---------------------------
(***************************************************************************)
(* The control plane of ScanManager (backend/app/services/scan_manager.py):*)
(* its public coroutines start_scan, stop_scan, focus, unfocus,            *)
(* clear_all_data, update_config, calibrate and run_decoder, called        *)
(* concurrently by REST handlers, and the scan loop task(s) they create.   *)
(*                                                                         *)
(* asyncio runs one coroutine until it awaits.  Every action below is the  *)
(* code between two awaits; a coroutine that goes on without awaiting (a   *)
(* call, or a return into its caller) keeps the event loop by staying in   *)
(* `holder'.  The database, the executor threads and the worker thread of  *)
(* a ContinuousIqStream are not the event loop and step at any time.       *)
(*                                                                         *)
(* An operator named Bug... is a wrong variant of the operator after it,   *)
(* which no specification uses: PROJECT.json lists the property that each  *)
(* of these plausible mistakes would break.                                *)
(***************************************************************************)
EXTENDS Naturals, Sequences, FiniteSets

CONSTANTS Req,         \* slots for requests in flight
          NoOne,       \* nobody holds the event loop
          Kinds,       \* the requests clients send
          Plans,       \* the values of `parked' the sweep plans and receivers give
          MaxSession,  \* bound: rows the sessions table can take
          MaxBackend   \* bound: times the SDR backend is opened

AllKinds == {"start", "stop", "focus", "unfocus", "clear", "calibrate",
             "decode", "update_soft", "update_tune", "update_reopen"}

\* A scan loop task is named after the session its start_scan created.
Task == 1 .. MaxSession

ASSUME LifecycleAssumption ==
    /\ NoOne \notin Req /\ Req \cap Task = {} /\ IsFiniteSet(Req)
    /\ Kinds \subseteq AllKinds /\ Plans \in SUBSET BOOLEAN /\ Plans # {}
    /\ MaxSession \in Nat \ {0}
    /\ MaxBackend \in Nat \ {0}

VARIABLES
    scanning,     \* _scanning
    stopEvent,    \* _stop_event.is_set()
    task,         \* _task, 0 when None
    sessionId,    \* _session_id, 0 when None
    mode,         \* _mode
    focusCenter,  \* whether _focus_center is set
    backend,      \* which opening of the SDR _backend is
    parked,       \* whether _backend is an RTL-SDR and the plan is one centre
    stream,       \* _iq_stream: none, failed (its start() raised) or open
    worker,       \* the backend its worker thread reads, or 0
    left,         \* the backends read by workers that stop() no longer waits for
    loop,         \* Task -> where that task is in _run
    loopArg,      \* Task -> the session its pending detection is written for
    thread,       \* Task or Req -> the backend its executor thread reads, or 0
    session,      \* sessions table: Task -> state of the row
    stack,        \* Req -> labels of its coroutine frames, innermost first
    loc,          \* Req -> local variables of the frames
    holder,       \* the request that holds the event loop
    status,       \* the last status message broadcast to the clients
    errored       \* an exception cut a request short (for the properties only)

manager == <<scanning, stopEvent, task, sessionId, mode, focusCenter, backend>>
loops   == <<loop, loopArg>>
workers == <<stream, worker, left>>
ghosts  == <<errored>>
vars    == <<manager, parked, loops, thread, workers, session, stack, loc, holder, status,
             ghosts>>

Idle(r)  == stack[r] = <<>>
Ended    == {"done", "cancelled", "failed"}
Running  == {"ready", "read", "get", "hang", "persist", "crashed"}
Alive(t) == loop[t] \in Running
Status   == <<scanning, mode, focusCenter>>
NoLocals == [kind |-> "none", arg |-> 0, was |-> FALSE, again |-> FALSE]

Init ==
    /\ scanning = FALSE /\ stopEvent = FALSE
    /\ task = 0 /\ sessionId = 0
    /\ mode = "sweep" /\ focusCenter = FALSE
    /\ backend = 1 /\ parked \in Plans
    /\ stream = "none" /\ worker = 0 /\ left = {}
    /\ loop = [t \in Task |-> "none"]
    /\ loopArg = [t \in Task |-> 0]
    /\ thread = [x \in Task \cup Req |-> 0]
    /\ session = [t \in Task |-> "none"]
    /\ stack = [r \in Req |-> <<>>]
    /\ loc = [r \in Req |-> NoLocals]
    /\ holder = NoOne
    /\ status = Status
    /\ errored = FALSE

-----------------------------------------------------------------------------
(* Coroutine frames. *)

\* Request r runs (or may resume) at label l.
At(r, l) == /\ ~Idle(r)
            /\ Head(stack[r]) = l
            /\ holder \in {NoOne, r}

\* Suspend at an await and resume at l, with locals v.
AwaitWith(r, l, v) == /\ stack' = [stack EXCEPT ![r] = <<l>> \o Tail(@)]
                      /\ loc' = [loc EXCEPT ![r] = v]
                      /\ holder' = NoOne
Await(r, l) == AwaitWith(r, l, loc[r])

\* Go on at l in the same turn of the event loop.
GoWith(r, l, v) == /\ stack' = [stack EXCEPT ![r] = <<l>> \o Tail(@)]
                   /\ loc' = [loc EXCEPT ![r] = v]
                   /\ holder' = r
Go(r, l) == GoWith(r, l, loc[r])

\* await another method of the manager: its first segment runs at once.
CallWith(r, callee, ret, v) ==
    /\ stack' = [stack EXCEPT ![r] = <<callee, ret>> \o Tail(@)]
    /\ loc' = [loc EXCEPT ![r] = v]
    /\ holder' = r
Call(r, callee, ret) == CallWith(r, callee, ret, loc[r])

\* Return into the caller, which goes on in the same turn.
Return(r) ==
    /\ stack' = [stack EXCEPT ![r] = Tail(@)]
    /\ IF Len(stack[r]) = 1
       THEN holder' = NoOne /\ loc' = [loc EXCEPT ![r] = NoLocals]
       ELSE holder' = r     /\ loc' = [loc EXCEPT ![r].arg = 0]

\* An exception leaves every frame: the handler answers with an error.
Abort(r) == /\ stack' = [stack EXCEPT ![r] = <<>>]
            /\ loc' = [loc EXCEPT ![r] = NoLocals]
            /\ holder' = NoOne
            /\ errored' = TRUE

\* r may still open the backend again (for the bound MaxBackend only).
Reopening(r) == loc[r].kind = "update_reopen"

Updates == {"update_soft", "update_tune", "update_reopen"}

\* A client request reaches its handler.
Arrive(r, k) ==
    /\ Idle(r) /\ holder = NoOne
    /\ k = "update_reopen" =>
         backend + Cardinality({q \in Req : Reopening(q)}) < MaxBackend
    /\ IF k \in Updates
       THEN /\ stack' = [stack EXCEPT ![r] = <<"update">>]
            /\ loc' = [loc EXCEPT ![r].kind = k]
       ELSE /\ stack' = [stack EXCEPT ![r] = <<k>>]
            /\ UNCHANGED loc
    /\ UNCHANGED <<manager, parked, loops, thread, workers, session, holder, status, ghosts>>

-----------------------------------------------------------------------------
(* start_scan *)

StartBegin(r) ==
    /\ At(r, "start")
    /\ \/ /\ scanning       \* assert self._session_id is not None
          /\ IF sessionId # 0 THEN Return(r) /\ UNCHANGED ghosts ELSE Abort(r)
          /\ UNCHANGED <<stopEvent, mode>>
       \/ /\ ~scanning
          /\ stopEvent' = FALSE
          /\ mode' = "sweep"
          /\ Await(r, "start_insert")
          /\ UNCHANGED ghosts
    /\ UNCHANGED <<scanning, task, sessionId, focusCenter, backend>>
    /\ UNCHANGED <<parked, loops, thread, workers, session, status>>

\* sessions.create inserts the row while the coroutine waits.
StartInsert(r) ==
    /\ At(r, "start_insert")
    /\ \E t \in Task :
         /\ session[t] = "none" /\ \A u \in Task : u < t => session[u] # "none"
         /\ session' = [session EXCEPT ![t] = "open"]
         /\ AwaitWith(r, "start_go", [loc[r] EXCEPT !.arg = t])
    /\ UNCHANGED <<manager, parked, loops, thread, workers, status, ghosts>>

\* Bug: the new scan is not pushed to the clients.
BugStartSilent(r) ==
    /\ At(r, "start_go")
    /\ sessionId' = loc[r].arg
    /\ scanning' = TRUE
    /\ task' = loc[r].arg
    /\ loop' = [loop EXCEPT ![loc[r].arg] = "ready"]
    /\ Return(r)
    /\ UNCHANGED <<stopEvent, mode, focusCenter, backend, loopArg, thread, session>>
    /\ UNCHANGED <<parked, workers, status, ghosts>>

StartGo(r) ==
    /\ At(r, "start_go")
    /\ sessionId' = loc[r].arg
    /\ scanning' = TRUE
    /\ task' = loc[r].arg
    /\ loop' = [loop EXCEPT ![loc[r].arg] = "ready"]
    /\ Await(r, "status")
    /\ UNCHANGED <<stopEvent, mode, focusCenter, backend, loopArg, thread, session>>
    /\ UNCHANGED <<parked, workers, status, ghosts>>

\* The tail start_scan, stop_scan, focus, unfocus and clear_all_data share:
\* once the event row and the metrics are awaited, the status is broadcast.
BroadcastStatus(r) ==
    /\ At(r, "status")
    /\ status' = Status
    /\ Return(r)
    /\ UNCHANGED <<manager, parked, loops, thread, workers, session, ghosts>>

-----------------------------------------------------------------------------
(* ContinuousIqStream, whose worker thread reads the SDR for the scan loop. *)

\* Bug: the worker is neither told to stop nor waited for.
BugStopWorker == UNCHANGED <<worker, left>>

\* _iq_stream.stop(), which returns at once if start() has raised.  The worker
\* is told to stop and joined for 2 s: stop() also returns when it is not yet
\* out of the native read.
StopWorker == /\ left' \in {left, left \cup ({worker} \ {0})}
              /\ worker' = 0

\* Every place that also sets _iq_stream to None.
CloseStream == StopWorker /\ stream' = "none"

\* The native read returns or raises by itself.
WorkerEnds ==
    /\ worker # 0
    /\ worker' = 0
    /\ UNCHANGED <<manager, parked, loops, thread, stream, left, session, stack, loc, holder,
                   status, ghosts>>

\* A worker that stop() has given up waiting for ends after all.
LeftEnds ==
    /\ \E b \in left : left' = left \ {b}
    /\ UNCHANGED <<manager, parked, loops, thread, stream, worker, session, stack, loc, holder,
                   status, ghosts>>

-----------------------------------------------------------------------------
(* stop_scan *)

\* Bug: the task is not waited for.
BugStopNoWait(r) ==
    /\ At(r, "stop")
    /\ IF scanning THEN Go(r, "stop_session") ELSE Return(r)
    /\ scanning' = FALSE
    /\ stopEvent' = (scanning \/ stopEvent)
    /\ UNCHANGED <<task, sessionId, mode, focusCenter, backend>>
    /\ UNCHANGED <<parked, loops, thread, workers, session, status, ghosts>>

\* Bug: the session row is closed before the loop has ended.
BugStopRowFirst(r) ==
    /\ At(r, "stop")
    /\ IF scanning THEN AwaitWith(r, "stop_wait", [loc[r] EXCEPT !.arg = task]) ELSE Return(r)
    /\ scanning' = FALSE
    /\ stopEvent' = (scanning \/ stopEvent)
    /\ session' = [t \in Task |-> IF scanning /\ t = sessionId THEN "stopped" ELSE session[t]]
    /\ UNCHANGED <<task, sessionId, mode, focusCenter, backend>>
    /\ UNCHANGED <<parked, loops, thread, workers, status, ghosts>>

StopBegin(r) ==
    /\ At(r, "stop")
    /\ IF ~scanning
       THEN /\ Return(r)
            /\ UNCHANGED <<scanning, stopEvent, worker, left>>
       ELSE /\ scanning' = FALSE
            /\ stopEvent' = TRUE
            /\ StopWorker
            /\ IF task # 0
               THEN AwaitWith(r, "stop_wait", [loc[r] EXCEPT !.arg = task])
               ELSE Go(r, "stop_session")
    /\ UNCHANGED <<task, sessionId, mode, focusCenter, backend, parked, stream>>
    /\ UNCHANGED <<loops, thread, session, status, ghosts>>

\* wait_for returns: the awaited task ended by itself.
StopWait(r) ==
    /\ At(r, "stop_wait")
    /\ loop[loc[r].arg] = "done"
    /\ task' = 0
    /\ Go(r, "stop_session")
    /\ UNCHANGED <<scanning, stopEvent, sessionId, mode, focusCenter, backend>>
    /\ UNCHANGED <<parked, loops, thread, workers, session, status, ghosts>>

\* Bug: the task is awaited without a timeout.
BugStopForever(r) ==
    /\ At(r, "stop_wait")
    /\ loop[loc[r].arg] = "cancelled"
    /\ task' = 0
    /\ Go(r, "stop_session")
    /\ UNCHANGED <<scanning, stopEvent, sessionId, mode, focusCenter, backend>>
    /\ UNCHANGED <<parked, loops, thread, workers, session, status, ghosts>>

\* wait_for gives up after 5 s and cancels the task it waited for, or finds
\* that task cancelled; then whatever _task names by now is cancelled too.
\* A cancelled loop leaves its executor thread reading and closes the stream.
\* If another stop_scan has cleared _task meanwhile, that is None.cancel().
StopTimeout(r) ==
    /\ At(r, "stop_wait")
    /\ loop[loc[r].arg] \notin {"done", "failed"}
    /\ loop' = [t \in Task |->
                  IF t \in {loc[r].arg, task} /\ Alive(t) THEN "cancelled" ELSE loop[t]]
    /\ IF loop' # loop THEN CloseStream ELSE UNCHANGED workers
    /\ loopArg' = [t \in Task |-> IF loop'[t] = "cancelled" THEN 0 ELSE loopArg[t]]
    /\ IF task # 0
       THEN /\ task' = 0
            /\ Go(r, "stop_session")
            /\ UNCHANGED ghosts
       ELSE /\ UNCHANGED task
            /\ Abort(r)
    /\ UNCHANGED <<scanning, stopEvent, sessionId, mode, focusCenter, backend, parked>>
    /\ UNCHANGED <<thread, session, status>>

\* The task ended with an exception, which wait_for raises here.
StopRaises(r) ==
    /\ At(r, "stop_wait")
    /\ loop[loc[r].arg] = "failed"
    /\ Abort(r)
    /\ UNCHANGED <<manager, parked, loops, thread, workers, session, status>>

StopSession(r) ==
    /\ At(r, "stop_session")
    /\ IF sessionId # 0
       THEN AwaitWith(r, "stop_row", [loc[r] EXCEPT !.arg = sessionId])
       ELSE Await(r, "status")
    /\ UNCHANGED <<manager, parked, loops, thread, workers, session, status, ghosts>>

\* UPDATE sessions SET stopped_at: no effect on a row that is gone.
StopRow(r) ==
    /\ At(r, "stop_row")
    /\ session' = [session EXCEPT ![loc[r].arg] = IF @ = "open" THEN "stopped" ELSE @]
    /\ Await(r, "status")
    /\ UNCHANGED <<manager, parked, loops, thread, workers, status, ghosts>>

-----------------------------------------------------------------------------
(* focus, unfocus, clear_all_data *)

FocusBegin(r) ==
    /\ At(r, "focus")
    /\ IF scanning THEN Go(r, "focus_set") ELSE Call(r, "start", "focus_set")
    /\ UNCHANGED <<manager, parked, loops, thread, workers, session, status, ghosts>>

FocusSet(r) ==
    /\ At(r, "focus_set")
    /\ mode' = "focus"
    /\ focusCenter' = TRUE
    /\ Await(r, "status")
    /\ UNCHANGED <<scanning, stopEvent, task, sessionId, backend>>
    /\ UNCHANGED <<parked, loops, thread, workers, session, status, ghosts>>

\* Bug: leaving focus is not pushed to the clients.
BugUnfocusSilent(r) ==
    /\ At(r, "unfocus")
    /\ mode' = "sweep"
    /\ focusCenter' = FALSE
    /\ Return(r)
    /\ UNCHANGED <<scanning, stopEvent, task, sessionId, backend>>
    /\ UNCHANGED <<parked, loops, thread, workers, session, status, ghosts>>

Unfocus(r) ==
    /\ At(r, "unfocus")
    /\ mode' = "sweep"
    /\ focusCenter' = FALSE
    /\ Await(r, "status")
    /\ UNCHANGED <<scanning, stopEvent, task, sessionId, backend>>
    /\ UNCHANGED <<parked, loops, thread, workers, session, status, ghosts>>

ClearBegin(r) ==
    /\ At(r, "clear")
    /\ Call(r, "stop", "clear_reset")
    /\ UNCHANGED <<manager, parked, loops, thread, workers, session, status, ghosts>>

ClearReset(r) ==
    /\ At(r, "clear_reset")
    /\ sessionId' = 0
    /\ Await(r, "clear_rows")
    /\ UNCHANGED <<scanning, stopEvent, task, mode, focusCenter, backend>>
    /\ UNCHANGED <<parked, loops, thread, workers, session, status, ghosts>>

ClearRows(r) ==
    /\ At(r, "clear_rows")
    /\ session' = [t \in Task |-> IF session[t] = "none" THEN "none" ELSE "deleted"]
    /\ Await(r, "status")
    /\ UNCHANGED <<manager, parked, loops, thread, workers, status, ghosts>>

-----------------------------------------------------------------------------
(* update_config and _reconfigure_backend.  A "soft" update leaves the      *)
(* acquisition fields alone, a "tune" update changes some, and "reopen"     *)
(* also the receiver, which is closed and opened again.                     *)

UpdateBegin(r) ==
    /\ At(r, "update")
    /\ LET restart == scanning /\ loc[r].kind # "update_soft" IN
         IF restart
         THEN CallWith(r, "stop", "update_apply", [loc[r] EXCEPT !.was = TRUE])
         ELSE Go(r, "update_apply")
    /\ UNCHANGED <<manager, parked, loops, thread, workers, session, status, ghosts>>

UpdateApply(r) ==
    /\ At(r, "update_apply")
    /\ \/ /\ loc[r].kind # "update_reopen"
          /\ Await(r, "update_saved")
       \/ /\ loc[r].kind = "update_reopen" /\ ~scanning
          /\ Go(r, "reopen")
       \/ /\ loc[r].kind = "update_reopen" /\ scanning
          /\ CallWith(r, "stop", "reopen", [loc[r] EXCEPT !.again = TRUE])
    /\ IF loc[r].kind = "update_soft" THEN UNCHANGED parked ELSE parked' \in Plans
    /\ UNCHANGED <<manager, loops, thread, workers, session, status, ghosts>>

\* Bug: the open is retried although it succeeded.
BugReopenTwice(r) ==
    /\ At(r, "reopen")
    /\ backend' = backend + 2
    /\ Await(r, "reopened")
    /\ UNCHANGED <<scanning, stopEvent, task, sessionId, mode, focusCenter>>
    /\ UNCHANGED <<parked, loops, thread, workers, session, status, ghosts>>

\* close() the old backend, create_backend, open() the new one: no await.
Reopen(r) ==
    /\ At(r, "reopen")
    /\ backend' = backend + 1
    /\ parked' \in Plans
    /\ Await(r, "reopened")
    /\ UNCHANGED <<scanning, stopEvent, task, sessionId, mode, focusCenter>>
    /\ UNCHANGED <<loops, thread, workers, session, status, ghosts>>

Reopened(r) ==
    /\ At(r, "reopened")
    /\ IF loc[r].again THEN Call(r, "start", "update_save") ELSE Await(r, "update_saved")
    /\ UNCHANGED <<manager, parked, loops, thread, workers, session, status, ghosts>>

UpdateSave(r) ==
    /\ At(r, "update_save")
    /\ Await(r, "update_saved")
    /\ UNCHANGED <<manager, parked, loops, thread, workers, session, status, ghosts>>

UpdateSaved(r) ==
    /\ At(r, "update_saved")
    /\ IF loc[r].was THEN Go(r, "start") ELSE Return(r)
    /\ UNCHANGED <<manager, parked, loops, thread, workers, session, status, ghosts>>

-----------------------------------------------------------------------------
(* calibrate and run_decoder (with the rtl_433 binary present) *)

CalibrateBegin(r) ==
    /\ At(r, "calibrate")
    /\ IF scanning
       THEN CallWith(r, "stop", "cal_read",
                     [loc[r] EXCEPT !.was = TRUE, !.again = (mode = "focus" /\ focusCenter)])
       ELSE Go(r, "cal_read")
    /\ UNCHANGED <<manager, parked, loops, thread, workers, session, status, ghosts>>

\* One dwell is read on an executor thread.
CalibrateRead(r) ==
    /\ At(r, "cal_read")
    /\ thread' = [thread EXCEPT ![r] = backend]
    /\ Await(r, "cal_wait")
    /\ UNCHANGED <<manager, parked, loops, workers, session, status, ghosts>>

\* The read has returned; line 1199 then unpacks five of its six results and
\* raises, which the finally block that restarts the scan does not notice: the
\* request goes on as here and is answered with the error.
CalibrateDone(r) ==
    /\ At(r, "cal_wait")
    /\ thread[r] = 0
    /\ IF loc[r].was THEN Call(r, "start", "cal_focus") ELSE Return(r)
    /\ UNCHANGED <<manager, parked, loops, thread, workers, session, status, ghosts>>

CalibrateFocus(r) ==
    /\ At(r, "cal_focus")
    /\ IF loc[r].again THEN Go(r, "focus") ELSE Return(r)
    /\ UNCHANGED <<manager, parked, loops, thread, workers, session, status, ghosts>>

DecodeBegin(r) ==
    /\ At(r, "decode")
    /\ IF scanning
       THEN CallWith(r, "stop", "dec_open", [loc[r] EXCEPT !.was = TRUE])
       ELSE Go(r, "dec_open")
    /\ UNCHANGED <<manager, parked, loops, thread, workers, session, status, ghosts>>

DecodeOpen(r) ==
    /\ At(r, "dec_open")
    /\ Await(r, "decoding")
    /\ UNCHANGED <<manager, parked, loops, thread, workers, session, status, ghosts>>

DecodeDone(r) ==
    /\ At(r, "decoding")
    /\ IF loc[r].was THEN Go(r, "start") ELSE Return(r)
    /\ UNCHANGED <<manager, parked, loops, thread, workers, session, status, ghosts>>

-----------------------------------------------------------------------------
(* A database call a request waits for raises (disk full, locked, table     *)
(* bound reached).                                                          *)

AwaitsDatabase == {"start_insert", "stop_row", "status", "clear_rows",
                   "reopened", "update_saved"}

DatabaseRaises(r) ==
    /\ \E l \in AwaitsDatabase : At(r, l)
    /\ Abort(r)
    /\ UNCHANGED <<manager, parked, loops, thread, workers, session, status>>

-----------------------------------------------------------------------------
(* _run, the scan loop task *)

\* The while loop ends when the stop event is set.
LoopStops(t) ==
    /\ holder = NoOne
    /\ loop[t] = "ready" /\ stopEvent
    /\ loop' = [loop EXCEPT ![t] = "done"]
    /\ CloseStream
    /\ UNCHANGED <<manager, parked, loopArg, thread, session, stack, loc, holder, status, ghosts>>

\* _should_stream_continuously
Streaming == parked /\ mode = "sweep"

\* A turn that streams.  The new stream is kept before start() tunes the
\* receiver: when that raises, the next turn waits for a block on a queue
\* nobody fills.
LoopStreams(t) ==
    /\ holder = NoOne
    /\ loop[t] = "ready" /\ ~stopEvent /\ Streaming
    /\ \/ /\ stream = "none"
          /\ stream' = "open" /\ worker' = backend
          /\ loop' = [loop EXCEPT ![t] = "get"]
       \/ /\ stream = "none"
          /\ stream' = "failed"
          /\ UNCHANGED <<worker, loop>>
       \/ /\ stream # "none"
          /\ loop' = [loop EXCEPT ![t] = IF stream = "open" THEN "get" ELSE "hang"]
          /\ UNCHANGED <<stream, worker>>
    /\ UNCHANGED <<manager, parked, loopArg, thread, left, session, stack, loc, holder, status,
                   ghosts>>

\* A turn that reads one dwell on an executor thread.
LoopReads(t) ==
    /\ holder = NoOne
    /\ loop[t] = "ready" /\ ~stopEvent /\ ~Streaming
    /\ CloseStream
    /\ loop' = [loop EXCEPT ![t] = "read"]
    /\ thread' = [thread EXCEPT ![t] = backend]
    /\ UNCHANGED <<manager, parked, loopArg, session, stack, loc, holder, status, ghosts>>

\* An executor thread finishes its read; it cannot be cancelled before.
ThreadDone(x) ==
    /\ thread[x] # 0
    /\ thread' = [thread EXCEPT ![x] = 0]
    /\ UNCHANGED <<manager, parked, loops, workers, session, stack, loc, holder, status, ghosts>>

\* get() returns a block, which goes the way of a dwell that has been read.
LoopReceives(t) ==
    /\ holder = NoOne
    /\ loop[t] = "get"
    /\ loop' = [loop EXCEPT ![t] = "read"]
    /\ UNCHANGED <<manager, parked, loopArg, thread, workers, session, stack, loc, holder,
                   status, ghosts>>

\* get() returns the sentinel: the stream is over.  A loop that shares the
\* manager with another may wait on a stream that is no longer _iq_stream.
LoopStreamEnds(t) ==
    /\ holder = NoOne
    /\ loop[t] = "get"
    /\ worker = 0 \/ \E u \in Task \ {t} : Alive(u)
    /\ loop' = [loop EXCEPT ![t] = IF stopEvent THEN "done" ELSE "ready"]
    /\ CloseStream
    /\ UNCHANGED <<manager, parked, loopArg, thread, session, stack, loc, holder, status, ghosts>>

\* The frame is analysed.  Nothing to persist, or a DSP error: next turn.
\* About once a second the loop also broadcasts a snapshot with the status.
LoopQuiet(t) ==
    /\ holder = NoOne
    /\ loop[t] = "read" /\ thread[t] = 0
    /\ loop' = [loop EXCEPT ![t] = "ready"]
    /\ status' \in {status, Status}
    /\ UNCHANGED <<manager, parked, loopArg, thread, workers, session, stack, loc, holder, ghosts>>

\* A detection is to be stored for the session _session_id names now.
LoopDetect(t) ==
    /\ holder = NoOne
    /\ loop[t] = "read" /\ thread[t] = 0
    /\ sessionId # 0
    /\ loop' = [loop EXCEPT ![t] = "persist"]
    /\ loopArg' = [loopArg EXCEPT ![t] = sessionId]
    /\ UNCHANGED <<manager, parked, thread, workers, session, stack, loc, holder, status, ghosts>>

\* INSERT INTO detections, whose session_id must reference a row.
LoopPersist(t) ==
    /\ loop[t] = "persist"
    /\ session[loopArg[t]] # "deleted"
    /\ loop' = [loop EXCEPT ![t] = "ready"]
    /\ loopArg' = [loopArg EXCEPT ![t] = 0]
    /\ UNCHANGED <<manager, parked, thread, workers, session, stack, loc, holder, status, ghosts>>

\* The insert raises: the loop logs the crash and stores an error event.
LoopCrash(t) ==
    /\ loop[t] = "persist"
    /\ loop' = [loop EXCEPT ![t] = "crashed"]
    /\ loopArg' = [loopArg EXCEPT ![t] = 0]
    /\ UNCHANGED <<manager, parked, thread, workers, session, stack, loc, holder, status, ghosts>>

\* It returns, leaving _scanning as it is; if the event cannot be stored
\* either, the task fails.
LoopCrashed(t) ==
    /\ holder = NoOne
    /\ loop[t] = "crashed"
    /\ \E end \in {"done", "failed"} : loop' = [loop EXCEPT ![t] = end]
    /\ CloseStream
    /\ UNCHANGED <<manager, parked, loopArg, thread, session, stack, loc, holder, status, ghosts>>

-----------------------------------------------------------------------------
StopStep(r)   == \/ StopBegin(r) \/ StopWait(r) \/ StopTimeout(r) \/ StopRaises(r)
                 \/ StopSession(r) \/ StopRow(r)
StartStep(r)  == StartBegin(r) \/ StartInsert(r) \/ StartGo(r)
UpdateStep(r) == \/ UpdateBegin(r) \/ UpdateApply(r) \/ Reopen(r)
                 \/ Reopened(r) \/ UpdateSave(r) \/ UpdateSaved(r)
FocusStep(r)  == FocusBegin(r) \/ FocusSet(r) \/ Unfocus(r)
ClearStep(r)  == ClearBegin(r) \/ ClearReset(r) \/ ClearRows(r)
DeviceStep(r) == \/ CalibrateBegin(r) \/ CalibrateRead(r) \/ CalibrateDone(r)
                 \/ CalibrateFocus(r) \/ DecodeBegin(r) \/ DecodeOpen(r) \/ DecodeDone(r)
RequestStep(r) == /\ ~Idle(r)
                  /\ \/ StartStep(r) \/ StopStep(r) \/ BroadcastStatus(r) \/ FocusStep(r)
                     \/ ClearStep(r) \/ UpdateStep(r) \/ DeviceStep(r)
LoopStep(t)   == \/ LoopStops(t) \/ LoopStreams(t) \/ LoopReads(t)
                 \/ LoopQuiet(t) \/ LoopDetect(t) \/ LoopPersist(t)
                 \/ LoopCrash(t) \/ LoopCrashed(t)
StreamStep(t) == LoopReceives(t) \/ LoopStreamEnds(t)

Next == \/ \E r \in Req, k \in Kinds : Arrive(r, k)
        \/ \E r \in Req : RequestStep(r) \/ DatabaseRaises(r)
        \/ \E t \in Task : LoopStep(t) \/ StreamStep(t)
        \/ \E x \in Task \cup Req : ThreadDone(x)
        \/ WorkerEnds \/ LeftEnds

Spec == Init /\ [][Next]_vars

\* The ready queue of asyncio is FIFO, so a coroutine that can resume again
\* and again does; database calls return or raise; the executor thread of a
\* calibration finishes its read.  The scan loops get no fairness: nothing
\* makes a receiver deliver, and a stop must not depend on it.
Fairness == /\ \A r \in Req : SF_vars(RequestStep(r) \/ DatabaseRaises(r))
            /\ \A r \in Req : WF_vars(ThreadDone(r))

FairSpec == Spec /\ Fairness

-----------------------------------------------------------------------------
(* Properties *)

Labels == AllKinds \cup
          {"start_insert", "start_go", "status", "stop_wait", "stop_session",
           "stop_row", "focus_set", "clear_reset", "clear_rows", "update",
           "update_apply", "reopen", "reopened", "update_save", "update_saved",
           "cal_read", "cal_wait", "cal_focus", "dec_open", "decoding"}

\* Every variable holds what the code can put there, and no frame stack is
\* deeper than one method awaiting another (the others call in tail position).
TypeOK ==
    /\ scanning \in BOOLEAN /\ stopEvent \in BOOLEAN /\ focusCenter \in BOOLEAN
    /\ task \in {0} \cup Task /\ sessionId \in {0} \cup Task
    /\ mode \in {"sweep", "focus"}
    /\ backend \in 1 .. MaxBackend
    /\ parked \in Plans /\ stream \in {"none", "failed", "open"}
    /\ worker \in 0 .. MaxBackend /\ left \subseteq 1 .. MaxBackend
    /\ loop \in [Task -> {"none"} \cup Running \cup Ended]
    /\ loopArg \in [Task -> {0} \cup Task]
    /\ thread \in [Task \cup Req -> 0 .. MaxBackend]
    /\ session \in [Task -> {"none", "open", "stopped", "deleted"}]
    /\ \A r \in Req : Len(stack[r]) <= 2 /\ \A i \in DOMAIN stack[r] : stack[r][i] \in Labels
    /\ loc \in [Req -> [kind : AllKinds \cup {"none"}, arg : {0} \cup Task,
                        was : BOOLEAN, again : BOOLEAN]]
    /\ holder \in Req \cup {NoOne}
    /\ status \in BOOLEAN \X {"sweep", "focus"} \X BOOLEAN
    /\ errored \in BOOLEAN

\* With nothing in flight, an idle receiver is really idle: every loop has
\* ended and, unless a request failed half-way, every session row is closed.
IdleIsQuiet ==
    (~scanning /\ \A r \in Req : Idle(r)) =>
      /\ \A t \in Task : ~Alive(t)
      /\ ~errored => \A t \in Task : session[t] # "open"

\* With one request at a time, a scan loop that can still act is the one
\* _task names, and it runs for the open session that _session_id names: no
\* loop is orphaned by a restart, none writes for another session, and none
\* outlives the scan.
LoopIsOwned ==
    /\ \A t \in Task : Alive(t) => task = t /\ sessionId = t /\ session[t] = "open"
    /\ IdleIsQuiet

\* Somebody still waits for executor thread x to finish its read: it is not
\* the one a cancelled loop left behind.
Held(x) == thread[x] # 0 /\ (x \in Task => loop[x] # "cancelled")

\* Counting the readers that somebody waits for, the SDR has one at a time and
\* it reads the backend that is open now: the loop's or the calibration's
\* executor thread, or the worker of the stream.  "The worker is the only code
\* allowed to read a streaming SDR" (iq_stream.py:3) is more than that, and
\* does not hold: a worker that a join has given up on (`left'), and the thread
\* of a cancelled loop, go on reading beside it.  And run_decoder "needs exclusive
\* device access, so the scan is paused around it": while rtl_433 has the
\* device no scan loop runs and no such reader reads.
Decoding(r) == ~Idle(r) /\ Head(stack[r]) = "decoding"
DeviceExclusive ==
    /\ \A x \in DOMAIN thread : Held(x) =>
         /\ thread[x] = backend /\ worker = 0
         /\ \A y \in DOMAIN thread : Held(y) => y = x
    /\ worker # 0 => worker = backend
    /\ \A r \in Req : Decoding(r) =>
         /\ \A t \in Task : ~Alive(t)
         /\ \A x \in DOMAIN thread : ~Held(x)
         /\ worker = 0

\* Whatever requests overlapped, when all of them have completed without an
\* exception, the last status broadcast tells the clients the real state.
StatusConverges ==
    (~errored /\ \A r \in Req : Idle(r)) => status = Status

\* A detection is only ever stored under a session that is still open:
\* stop_scan closes the row after the loop that writes for it has ended.
DetectionInOpenSession ==
    [][\A t \in Task : LoopPersist(t) => session[loopArg[t]] = "open"]_vars

\* Every request is answered: stop_scan may wait for a loop that another
\* request has revived by clearing the stop event, but only for 5 s.
RequestsComplete == \A r \in Req : ~Idle(r) ~> Idle(r)
=============================================================================
