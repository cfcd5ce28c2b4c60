# Formal models of channel-scanner

channel-scanner scans a radio band with an RTL-SDR (or a synthetic source),
infers candidate channels, shows them live in a browser and records IQ around
interesting bursts. This directory holds TLA+ models of the server and of the
browser app, of the parts in which order, concurrency and failure decide whether
they are right, TLC configurations that check them, and TLAPS proofs of what
matters most.

Paths are relative to the repository; `scan_manager.py` and the like are under
`src/backend/app/services/`, the `.tsx` and `.ts` files under `src/frontend/src/`.
`PROJECT.json` maps every definition to its lines.

## 1. The system

| Component | State | Operations | Interacts with |
|---|---|---|---|
| Scan control plane (`scan_manager.py`) | `_scanning`, `_stop_event`, `_task`, `_session_id`, `_mode`, `_focus_center`, `_backend`, `_config`, `_version` | `start_scan`, `stop_scan`, `focus`, `unfocus`, `clear_all_data`, `update_config`, `calibrate`, `run_decoder` | REST handlers call it; it owns the loop task, the backend and the session rows, and broadcasts status |
| Scan loop (`_run`) | its position, `_expected_stream_sample`, `_iq_stream`, sweep index | one frame per turn: read, analyse, detect, persist, trigger, save | runs between the awaits of the control plane |
| Continuous IQ stream (`iq_stream.py`) | bounded queue, cursor, loss counters, stop event | callback, `get`, `stop` | device thread, event loop, executor thread |
| Triggered capture buffer (`triggered_capture.py`) | rolling history, one pending capture | `append`, `trigger`, `pop_ready`, `discontinuity`, `recent` | fed by the loop, read by recordings |
| SDR backends (`sdr/`) | tuner settings, device handle | open, close, `read_iq`, `stream_iq`, `cancel_stream` | one owner at a time |
| Control lease and configuration (`control_lease.py`, `api/config.py`, `api/control.py`) | operator, expiry, config version | acquire, renew, release, PUT config | WebSocket disconnects release it |
| WebSocket hub (`websocket/`) | clients, their bounded buffers | register, unregister, broadcasts, send loop | every component broadcasts through it |
| Storage (`storage/`) | SQLite tables | repositories, `clear_all_data` | awaited everywhere |
| Channel clustering and identity (`signal_processing/clustering.py`, `recurrence.py`, `scan_manager.py`) | clusters, id maps, trackers | ingest, merge, upsert, snapshot | clears and updates reset parts of it |
| Recorder and retention (`recorder.py`, `retention.py`) | files, storage cap | capture, evict, delete | loop, REST, timer |
| Sweep plan (`scan_manager.py`) | window centres, index | compute, advance | loop |
| DSP (`signal_processing/`) | noise floor, burst assembly | pure or nearly so | executor thread |
| Live connection (`lib/ws.ts`, `App.tsx`) | socket, reconnect and ping timers, backoff, `stopped` | `start`, `stop`, `connect`, the socket's handlers, dispatch, priming over REST | the hub feeds it; it writes the store |
| Store (`store/store.ts`) | scanning, mode, configuration and version, channels, spectrum, scope frame, lease | setters | live connection, priming and the pages all write it |
| Settings page (`pages/Settings.tsx`, `ControlLeaseBar.tsx`, `lib/settingsValidation.ts`) | form, errors, `saving`, conflict, calibration result | edit, preset, reset, save, calibrate, acquire, release | PUT of the configuration; broadcasts of others |
| Channel alerts (`useChannelAlerts.ts`, `AlertRules.tsx`, `AlertToaster.tsx`) | rules, last statuses, last alerts, toasts | watch, add, toggle and remove a rule, dismiss | reads the store's channels |
| Channels page (`Channels.tsx`, `usePinnedChannels.ts`, `CompareChannels.tsx`) | frozen snapshot, filter, sort, pins, comparison | freeze, filter, sort, pin, compare | reads the store's channels |
| Scope spectrogram (`ScopeSpectrogram.tsx`) | ring of columns, view (span, anchor, follow), dirty flag | loop, wheel, drag, reset, hover | reads the store's scope frame |
| Spectrum and waterfall (`Spectrum.tsx`, `SpectrumChart.tsx`, `Waterfall.tsx`) | shown frame, paused, drawn frame, rows | two animation loops, pause, overlay | reads the store's spectrum |
| Pages that load (`Occupancy.tsx`, `Timeline.tsx`, `ChannelDetail.tsx`, `Decoder.tsx`, `SurveyReport.tsx`, `Investigate.tsx`) | controls, loading, error, data | load, poll, refresh, cancel | REST queries |
| Recordings page (`Recordings.tsx`) | list, filters, `recording`, busy, dialogs | reload, start, stop, inspect, delete | recorder and recordings table |
| Candidate log, REST queries, drawing and formatting, ESP32 | little | | see PROJECT.json |

What is hard in it:

* the control plane is a set of coroutines without a lock. Each `await` lets
  another request, or the loop, see a half-changed manager;
* three threads share the stream's queue, which loses the oldest block when it is
  full and is also used to wake the consumer at the end;
* signal that is not contiguous must not be joined: after queue loss, errors, a
  change of centre frequency or a restart;
* the loop may crash, a stop may time out, or give up joining the stream's worker,
  and leave a thread reading the device, and any database call may fail in the middle of a request;
* leases expire, clients reconnect under their old id, and versions are compared
  long before they are incremented;
* in the browser, one store has many writers: broadcasts, REST answers that prime
  it, and the answers of commands, each of which may come late; the send buffer
  in between coalesces and evicts;
* pages keep copies of the store (a form, a frozen table, a paused frame, the last
  statuses), load data whose answers overtake each other, and are closed with
  requests in flight.

For each part, being correct means:

* *control plane*: one loop per session, one reader of the device, a session row
  closed after its last write, a status message that ends up true, an answer to
  every request;
* *stream*: blocks in order and once, every loss announced with its exact size,
  a consumer that never hangs;
* *capture*: the right samples, the promised length, nothing lost in between;
* *lease and configuration*: at most one operator, no update lost;
* *hub*: reliable messages in order, bounded buffers, one connection per client;
* *identity*: a database row stands for one cluster, now and later;
* *sweep*: every frequency of the band is visited;
* *live connection*: one way back to the server, never two; the store ends up with
  what the server does;
* *settings*: nobody's edits are lost silently; what the form accepts the server
  accepts;
* *alerts*: one per activation of a channel;
* *views*: a copy stays what it was taken from, data belongs to the controls next
  to it, and a spectrogram or waterfall shows columns that are there, in order;
* *recordings*: no file without a row.

## 2. The modules

| Module | Models | Checked by | Proved in |
|---|---|---|---|
| `ScanLifecycle` | control plane and life of the loop task | `lifecycle_*` | `ScanLifecycleProofs` |
| `IqChannel` | abstract promise of the stream | through `iq_stream` | `IqStreamProofs` |
| `IqStream` | `ContinuousIqStream` and its three threads | `iq_stream` | `IqStreamProofs` |
| `TriggeredCapture` | `TriggeredCaptureBuffer` | through `acquisition` | `AcquisitionProofs` |
| `Acquisition` | the loop's use of stream, reads and buffer, with focus, updates and errors | `acquisition*` | `AcquisitionProofs` |
| `ControlLease` | `ControlLease`: who operates, and for how long | through `operator` | `LiveHubProofs` |
| `LiveHub`, `MCLiveHub` | the hub's registry and broadcasts, a connection's handler, the endpoints that move the lease | `operator*` | `LiveHubProofs` |
| `ConfigUpdates` | PUT of the configuration, `update_config`, restart | `config*` | `ConfigUpdatesProofs` |
| `ChannelIdentity` | candidate channels: clusters, the maps to their rows, rows and clients | `channels` | `ChannelIdentityProofs` |
| `SendBuffer` | the bounded, coalescing buffer of a connection | through `live_feed` | `LiveFeedProofs` |
| `LiveFeed` | the browser's live connection, store, priming and commands, over `SendBuffer` and the server's states | `live_feed` | `LiveFeedProofs` |
| `ScopeHistory` | the spectrogram of the Scope page | through `browser` | `BrowserProofs` |
| `SettingsPage` | the settings form and the configuration in store and server | through `browser` | `BrowserProofs` |
| `SettingsValidation` | the form's check beside the server's | through `browser` | `BrowserProofs` |
| `Alerts` | rules, watcher and toasts | through `browser` | `BrowserProofs` |
| `DataPages` | the pages that load over REST | through `browser` | `BrowserProofs` |
| `ChannelsPage` | the table of channels | through `browser` | `BrowserProofs` |
| `RecordingsPage` | the page, the recorder's files and the recordings table | through `browser` | `BrowserProofs` |
| `LiveSpectrum` | spectrum plot and waterfall | through `browser` | `BrowserProofs` |
| `Browser` | the app: one page open at a time, everything else remounted | `browser` | `BrowserProofs` |

`IqStream` implements `IqChannel`, and `Acquisition` is built from `IqChannel` and
`TriggeredCapture`: what is checked of the composition therefore does not depend
on how the queue works, only on what it was shown to promise. `LiveHub` extends
`ControlLease`, which has no specification of its own: the lease is moved by the
hub and the endpoints only. `LiveFeed` extends `SendBuffer` in the same way.
`Browser` composes the page modules: it adds the router, so that a page is checked
from every state of the store in which it can be opened, and from no other.

### ScanLifecycle

A request has a stack of coroutine frames (`stack`), as `focus` awaits
`start_scan` and so on. An action is the code between two awaits. A coroutine that
calls another method, or returns into its caller, does so without giving up the
event loop, so it stays in `holder` and nothing else on the event loop runs
before its next await. Database work (`StartInsert`, `StopRow`, `ClearRows`,
`LoopPersist`) happens on aiosqlite's thread, executor reads (`ThreadDone`) on
theirs, and the worker of a stream (`WorkerEnds`, `LeftEnds`) on its own, so all of them
ignore `holder`. The awaits of one event row and one metrics query
before each status broadcast are one label, `"status"`.

A loop task is named after the session its `start_scan` created. `LoopQuiet`,
`LoopDetect`, `LoopPersist` and `LoopCrash` are the outcomes of a frame: what was
received decides between them. `StopTimeout` is the code after `wait_for` gave up,
and may happen at any time: a stop may take 5 s in the real program for reasons
outside the model.

A turn of the loop streams (`LoopStreams`, if `parked` says that the receiver and
the sweep plan allow it, and nobody focuses) or reads one dwell on an executor thread
(`LoopReads`). `stream` is `_iq_stream`, `worker` the backend that its thread reads.
`StopWorker` is `ContinuousIqStream.stop()`, whose join gives up after 2 s: the worker
is then either gone or in `left`, where it reads on until `LeftEnds`. A stream whose
`start()` has raised is `"failed"`: a loop that waits for it hangs (`"hang"`) until a stop
cancels it. `Plans` are the values of `parked` that a configuration can have, chosen
anew by every update that may change them.

`update_config` is three request kinds, as its path depends on the fields it
changes: none of the acquisition fields (`update_soft`), some (`update_tune`), or
also receiver, device or simulation (`update_reopen`). Left out: `startup` and
`shutdown`, the branch of `run_decoder` without rtl_433 (no device), and what
the methods do to channel state.

### IqChannel and IqStream

A block is its position and size. `IqChannel` has a set of blocks in transit that
may be lost at any time; a delivery takes the oldest that is left and reports the
samples between it and the one before as a gap. `IqStream` has the queue, the
worker inside the callback (`put`, `evict`, `again`, for `put_nowait`,
`get_nowait` and the second `put_nowait`), `stop()` on the event loop and the
consumer in `get()`. The refinement maps `transit` to the blocks in the queue and
in the worker's hand. `PutFails` has both outcomes a backend can have: librtlsdr's
C caller drops a Python exception, a Python backend raises it. `Init` is the stream after
`start()`, which may have raised before there was a worker (`"unstarted"`); `stop()` then
does nothing (`StopNothing`). Timing-gap telemetry
is left out, as it is a wall-clock estimate that nothing acts on.

### TriggeredCapture and Acquisition

A sample is its source, its position in it and the centre it was received at;
values do not matter. `TriggeredCapture` is the class with chunks concatenated.
`Acquisition` is the part of `_run` that gets samples and feeds the buffer:
the choice between streaming and single reads, a `start()` that raises, the continuity
check, errors, `focus` and `unfocus` at every await, bursts, a restart of the scan at any
position of the loop, and an update that replaces the buffer under a stream that goes on
(`ReplaceBuffer`). `unanalysed` and `disturbed` are history variables: the samples of
blocks whose analysis raised, and whether since the scan began somebody focused, a stream
failed or an analysis raised. It is the parked
profile (one window covers the band) with recording enabled, the only one that
streams and triggers.

### ControlLease and LiveHub

`ControlLease` is the class with its lock: one operator per method, `ReadOperator`
being `operator()`, which also forgets a holder whose lease has lapsed. Time is
what is left of the lease, and `Tick` lets it pass; `_expires` is read in no other
way.

`LiveHub` composes it with `LiveHub` of `manager.py`, `websocket_endpoint` of
`route.py`, and the endpoints. A handler is a connection, in one of the stages
`status` (awaiting the metrics of the first snapshot), `receive`
(`receive_json()`), `closing` (awaiting the cancelled send task) and `failed` (the
snapshot's query raised before the `try` block, so nothing unregisters the
connection). An action is the code from one await to the next. A handler record is
used again by a later connection.

`told` is the last presence or control message put in a connection's buffer, which
is what its client ends up knowing; it is forgotten for a connection that does not
hear any more. What the buffer does to other messages is in `SendBuffer`.
`PutConfig` and `PutDone` are the lease check and the late `renew` of
`PUT /api/config`, with the awaits of the update between them. `promised` is a
history variable: the time each client still has of the last grant it was
answered with, which ends early when the client releases it or a connection of the
client ends.

The model allows more than the code in two places, which only makes the
invariants stronger: the cancelled send task always takes a turn of the loop, and a
client may call the endpoints without a connection.

### ConfigUpdates

Several PUT requests of the operator overlap. An update is known by the fields in
which it differs from the configuration it was merged into; `TuneField` stands for
the fields that stop the scan and `DeviceField` for those that reopen the receiver
too. A stop is awaited or returns at once, whichever `ScanLifecycle` would make it.
`Reconciled` is `_activate_selection`, which falls back to the simulator and changes
the configuration to match. `Fail` is an exception at any await. `Restart` is a new
process: the version is read back from `receiver_config`, the configuration is not.
`asked` is a history variable, the value that the last applied update of each field
asked for.

The version that a request gives is not a parameter: one that is current is
accepted, others are answered 409 and change nothing, so `PutConfig` is the accepted
request. Left out: requests that change no field, the lease (in `LiveHub`), and the
rows of `config_changes`, which nobody reads back.

### ChannelIdentity

The clusterer is `clusters` and `nextId`; `dbId` and `throttled` are the maps of
`ScanManager`, `rows` the table, `told` what clients show. `loop` is where
`_process_frame` is, cut at its database calls, and `job` the channel it is storing;
`gone` are the ids that `merge_overlapping` returned and whose turn has not come.
Frequencies are points of a coarse grid, and the averages that move a centre are any
value between the two it is taken of, as the weights are counts of observations. `Absorb` is
the body of the double loop of `merge_overlapping`, `MergePass` the loop. A database call
raises, or a stop cancels the loop, at any await (`LoopDies`). `UpdateConfig` replaces
the clusterer under the loop, also between two rows of a merge; `ClearMemory`, `ClearRows`
and `ClearClients` are `clear_all_data` once its stop is done. `epoch` numbers the
clusterers, `strays` and `failed` remember what a dead loop left undone: all three are
history variables. Overlaps with the scan's own requests are in `ScanLifecycle`.

### SendBuffer and LiveFeed

`SendBuffer` is `ClientConnection.enqueue`: a frame takes the place of a queued
frame of its type, and is dropped if there is none and the buffer is full; a
reliable message then takes the place of a frame, or else of the oldest message. The send loop and the
buffer's owner are in `LiveFeed`.

In `LiveFeed` the server is a log of states (scanning, focused or not, number of
the configuration), of which every message carries the number: that is enough to
say what the store should show and how old a message is. `OtherCommands` and
`OtherSaves` are other clients; `Tick` is the status of once a second, and the
frames, which only a scanning server sends. The socket is `"none"`, `"opening"`,
`"open"`, or `"lost"` when it is gone and `onclose` has not been called yet. A
connection that drops takes its server-side buffer with it, and `Identified` is the
server's snapshot for a new one. The handler of an earlier socket may be `behind`: it
notices late, or never, that its socket is gone, and then removes what is registered for the
client by then (`OldHandler`), after which the new socket is open and hears nothing. `PrimeRead` and `Primed` are the answers of
`App.tsx`'s `Promise.all` and the moment they are written, `scanning` as the constant
`false` (App.tsx:46). A command may be answered, refused, or answered by nobody,
and the page may be gone by then, as leaving it calls no request back.

### The page modules

Each has an action per handler, effect or timer, and for the server what it can
answer. React is in them where it matters: an effect or a state update happens
some time after its cause, once for several causes (`due` in `Alerts`, `pending` in
`LiveSpectrum`).

* `ScopeHistory`. A column is its absolute index and a ring slot holds the index
  of the column that is in it, so that an overwritten column can be told from
  the one the view asks for. Rounding, clamping and zooming are the code's, in
  integers. Powers, colours and canvas sizes are left out.
* `SettingsPage`. A configuration is a value per field, the log has one of each
  version. `put` is the PUT in flight: sent with the form and the version of the store,
  refused (version, lease) or accepted, applied after the await of the stop, with the
  receiver's fields as they were asked for or as the opened receiver has them
  (`Reconciled`), and answered with the configuration in force by then, which may be
  another operator's. It fails, or its answer is lost, at any point. `edited` is a
  history variable.
* `SettingsValidation`. Texts are numbers in tenths, empty, words, or `auto`;
  every field has the bounds of the form, and `ServerOK` has those of
  `ScanConfig._check_ranges` in `backend/app/models/schemas.py`.
* `Alerts`. `hold` is the time left of a channel's debounce; `rested` is a
  history variable.
* `DataPages`. One page at a time of seven; a load is asked, answered or refused,
  with the key it was asked for and whether it may end the loading state. The drawers
  cancel a load, the others do not.
* `ChannelsPage`. `Cells`, `Headline` and `Dialog` are what is on the screen, computed
  from the frozen or the live channels as the component does.
* `RecordingsPage`. A recording is the number of its file; its row follows after an
  await, or never. `clear_all_data` deletes the rows in one transaction and the files
  when it resumes after the commit, before another request can insert a row.
* `LiveSpectrum`. Frames are numbered by arrival; the two loops and React's update in
  between are separate actions.

## 3. The runs

| Run | Instance | Result |
|---|---|---|
| `lifecycle_serial` | 1 request slot, all 10 kinds, 2 sessions, 2 openings of the backend, parked or not | 2 663 614 states |
| `lifecycle_race` | 2 request slots, start and stop, 2 sessions, parked, fair | 248 769 states |
| `iq_stream` | capacity 2, blocks of 1 or 2 samples, 6 samples, fair | 48 117 states |
| `acquisition` | history 3, post-trigger 2, maximum 6, blocks of 2, 8 samples per stream, 2 sources, centres 0 (park), 1 (observable), 2 (not) | 1 867 473 states |
| `acquisition_history` | the same without focus | violated: finding |
| `operator` | 2 clients and 3 connections (both symmetric), a lease of 2 ticks | 135 532 states |
| `operator_reconnect` | 2 clients, 2 connections | violated: finding |
| `config` | 2 overlapping requests, one field of each kind, 2 values, versions up to 3 | 168 689 states |
| `config_lost` | the same | violated: finding |
| `channels` | 3 frequencies of which two are near each other, 2 ids, 3 clusterers one after another | 1 434 748 states |
| `live_feed` | one frame type, status and configuration, a buffer of 2, 2 commands in flight, 2 changes of the server, fair | 1 391 235 states |
| `browser` | every page, see below, fair for the loads | 532 609 states |

What they show. `lifecycle_serial`: with requests one after the other there is one
loop per session, one reader of the device (of those somebody waits for), a decoder that
runs alone, a quiet end and no detection outside an open session. `lifecycle_race`: every start and
stop is answered, also when one revives the loop that another waits for, or when the loop
waits for a receiver that never delivers, and clients end up with the right status
(with any number of requests of every kind it is the theorem `ClientsConverge`). `iq_stream`: order, exact loss
accounting, the abstract channel and a consumer that is released whenever there is a worker.
`acquisition`: captures have the promised samples; no piece of signal joins over samples
that the queue lost; and a parked scan in which nothing fails and nobody focuses records
one contiguous stretch. What the code does join, namely streams one of which failed, sources
and centres before and after a focus, and the blocks around one whose analysis raised, is
left out of neither the model nor this account: see `acquisition_history`. `operator`: a granted lease lasts as promised, and every
connected client knows the operator and the others. `config`: clients and the
database end up with what is in force. `channels`: detections never name a row that is
gone, and what the clusterer in force has stored is listed, in the table and at the clients,
as long as it is one of its channels; rows of earlier clusterers stay listed beside it. `live_feed`: the client has one way back to
the server, its buffer keeps order and bound, and a scan that runs on is shown
whatever came late or was lost, unless a late handler has removed the client. `browser`: what each page's property says, listed
above it in its module.

Why these bounds are enough. *Sessions*: a wrong loop, session or row needs an old
one and a new one. *Plans*: a receiver that may stream and one that may not are both in the
serial run; the race, which is about waiting for the loop, has the one whose loop can wait for
ever. *Backend openings*: a thread on a closed backend needs two.
*Requests*: the properties that hold for overlapping requests are checked with
two; the others are stated for one request at a time because the code does not
serialise requests and they fail with two (section 5). *Queue*:
capacity 2 is the smallest the constructor allows and fills, overflows, drains
and refills with 6 samples; two block sizes make positions and block counts
differ. *Capture*: blocks of 2 against a history of 3 make the trimming cut
inside a block, and 6 samples allow a capture that its maximum cuts off as well as
one that ends by itself; 8 samples per stream allow a second capture after the first.
*Connections*: three let a client have its old and its new one while another client
listens; a lease of 2 ticks can be partly used up when it is renewed, taken or
released. *Updates*: two requests are enough for one to apply, save or announce
between any two awaits of the other, and version 3 is reached by two of them.
*Channels*: two ids and frequencies 0, 2 and 5 with bandwidth 2 make a pair that
merges and pairs that do not; three clusterers let an update, a clear and a restart follow
each other, so that the maps are older than the clusterer by more than one change.
*Live feed*: a buffer of 2 is full with a frame and a reliable message, and with two
reliable ones, which are the two ways of making room; two commands can be answered in
either order; two changes let a message be older than the one before it.
*Browser*: a history of 4 columns wraps with 6 pushes, and a canvas of 3 pixels is
narrower than the history, so that columns are skipped; `Sample` has a number on each
side of every bound of the form and of the server; two fields, one of them the ppm
and the other a preset's, with three versions, let another operator save before,
during and after a save of this one (the ppm also stands for a field that opening the receiver
may change); two channels and one toast make toasts
push each other out; two requests are enough for an answer to overtake another;
two ids in the table can be compared; two recordings and room for one make the
cap evict; three frames fill a waterfall of three rows.

The pages do not share state while they are open (the router mounts one), so
checking them in one run adds their states and does not multiply them.

The conditions in the properties deserve a word. `StatusConverges` and part of
`LoopIsOwned` exempt runs in which a request ended with an exception, as the code then
stops half-way by design. `DeviceExclusive` counts the readers somebody waits for, in every run: the
executor thread of a loop that a timed-out stop cancelled, and a worker whose join timed out, read on
beside them (section 5). `LossNeverJoined` lets a piece go over blocks whose
analysis raised and from one source to a later one, and `ParkedIsContiguous` ends with the first
disturbance. `ScanIsShown` is about clients whose registration is not removed. `ConsumerReleased` is about streams whose `start()` succeeded: otherwise
`get()` returns never, and its task is cancelled by the next stop. `EditsSurvive` exempts, at
the answer of the user's own PUT, the fields of the receiver, the ppm, and an answer that is another update's.
`AnnouncedIsCurrent` and `VersionSurvives` exempt a process in which an update failed
after it had taken effect (`broken`): nothing broadcasts or saves it then.

### Findings

* `operator_reconnect`: `register` replaces the prior connection of a client, but
  the handler of the replaced one unregisters by client id when it ends, and so
  removes the new connection (and releases the lease of a connected operator). Its socket stays
  open, so that the browser does not reconnect, and the periodic status that should correct what it
  shows (`Scope.tsx:69`) never comes: this is the exception of `ScanIsShown`.
* `config_lost`: the version is compared before `update_config` awaits the stop of
  the scan and incremented after it, so of two updates that give the same version
  both are accepted, and the one that waited undoes the other.
* `acquisition_history`: the history is documented as contiguous, but the loop resets the expected
  position when a stream ends by itself, without telling the buffer, and joins the next stream to it.

### Fairness

`ScanLifecycle`: strong fairness for each request, since asyncio's
ready queue is FIFO: a coroutine that is ready again and again, between steps of
others, does run. Weak fairness for the executor thread of a request (a calibration), which
finishes its read. The database either completes or raises. The loops have none, nor have
their readers: a stop is answered whatever they do. `IqStream`: weak fairness for the three
threads (they are scheduled by the OS), and for the return of `stream_iq` once
`cancel_stream` was called. Nothing makes the device deliver, a client send a
request, or anybody call `stop` or `get`. `LiveFeed`: weak fairness for what browsers
and networks do in the end: a socket opens or fails, `onclose` is called, timers
fire, messages are sent and dispatched, the priming requests end, and a scanning
server sends its status every second. Commands need not be answered, nor need anybody
stop, start or click, and an old handler need not end; `ScanIsShown` asks only about behaviours that settle.
`Browser`: weak fairness for each load, which the browser answers or fails in the end,
and for the poll timer while it is set; the user and the tabs have none.

## 4. The proofs

Every safety property and every action property of the passing runs is a theorem
(39 theorems in 8 modules), for every value of the constants that satisfies the
assumptions, each named in the module that declares the constants:

* `LifecycleAssumption`: finitely many requests, which are no loop tasks; at least one
  session and one backend; a plan.
* `StreamAssumption` (capacity at least 2, as the constructor takes
  `max(2, queue_blocks)`; blocks are not empty), `BufferAssumption` of
  `TriggeredCapture` (the three lengths are at least 1, as the constructor takes
  `max(1, ...)`), `AcquisitionAssumption` (the parked window is observable; a
  centre of focus is not 0, which stands for `None`).
* `LeaseAssumption`, `HubAssumption` (the lease has a term; `NoClient` and
  `NoHandler` are no client and no handler), `ConfigAssumption` (fields that reopen
  the receiver also stop the scan; the defaults and the simulator's are values),
  `ChannelAssumption` (frequencies, widths and bounds are natural numbers).
* `BufferAssumption` of `SendBuffer` and `FeedAssumption` (frames and reliable messages
  are different types, the buffer has room for one, status and configuration are
  reliable).
* The pages: `ScopeAssumption` (capacity, minimal span, width and rows are at least
  1, and the minimal span fits the history), `SpectrumAssumption` (the waterfall has a row),
  `AlertsAssumption` (finitely many channels; at least one rule, toast and tick of
  debounce), and `SettingsAssumption`, `ValidationAssumption`, `DataAssumption`,
  `ChannelsAssumption`, `RecordingsAssumption`, which say that the values standing for
  "nothing" are none of the values they are told from, and that sets something is
  chosen of are not empty.

No theorem assumes more than these, except the three of `ScanLifecycleProofs` that say
so in their statement (`OneAtATime`).

### The server

* `ScanLifecycleProofs!Typed` and `ClientsConverge`, whatever requests overlap. The
  type invariant needs the shape of the stacks (`FramesOK`: a method awaits at most one
  other, and only one that the code of its label calls) and a count: the
  backends opened and the requests that may still open one stay within the bound
  (`BackendBound`). `StatusConverges` is inductive with `StatusOnItsWay`: as long as the last
  broadcast is out of date, some request is at a label from which it will get to a broadcast.
* `OneLoop`, `OneReader`, `DetectionsHaveSession`, of requests one after the other
  (`OneAtATime`: `Req` has at most one member, for any number of sessions and
  reopened backends). The code does not serialise requests, and with two the properties fail
  (section 5), so the hypothesis is needed. The
  invariant (`SerialInv`) says who owns what at each await: a loop that can act is the
  one `_task` names and outlives the scan only while `stop_scan` waits for it; the
  locals kept across an await still name what they named; an open row has somebody to close
  it; a reading thread that is waited for belongs to the loop or the calibration that awaits it, and a
  worker to the loop that streams; and the labels that come after a stop find no scan
  running. `OneReader` speaks of these readers only: that a worker outlives the join in
  `stop()` is in the model, and no theorem says otherwise.
* `IqStreamProofs!TypeCorrect` and `BlocksInOrder`. `TypeOK` is inductive.
  `InOrder` is inductive relative to it, because it also speaks of the block in the
  worker's hand and of the position the consumer expects: these are what a queue
  operation needs to keep the order. Lemmas say what a put and a get do to the
  entries of the queue, and one lemma per thread covers its steps.
* `IqStreamProofs!LossCorrect`. `LossIsAccounted`: every sample counted as dropped
  was announced, precedes the first delivery, or will be announced with the next one. It
  is inductive only with three facts (`LossInv`): until the stream is ended, the queue
  holds blocks that are contiguous with each other and with the worker's next one; a
  worker that discarded a block finds room for its own; nothing is announced or
  expected before the first delivery. `stop()` sets its event before it offers the end
  marker, which is why only the calm stream needs to be contiguous.
* `IqStreamProofs!StreamImplementsChannel`. Given `TypeOK` and `InOrder`, each
  step of the stream acquires, loses or delivers a block of the channel, or changes
  nothing the channel shows: what is discarded is `Lose`, and the order of the queue
  makes the head of it the oldest block in transit.
* `AcquisitionProofs!BufferTypeCorrect`, `BufferInStep`, `CaptureIsWhole`, of the
  buffer under every sequence of calls (`BufferSpec`).
  The inductive invariant is the conjunction of the type invariant,
  `PendingInStep` and `CaptureWindow`: the length of a saved capture follows from
  the bookkeeping of the pending capture it was made of.
* `AcquisitionProofs!AcquisitionTyped` and `LoopUsesBuffer`: the composition implements
  `BufferSpec`, which carries the three theorems above over to the scan loop.
* `AcquisitionProofs!EvidenceIsObservable`. A frame is known by its centre until it is
  appended, and then it is observable: no operation of the buffer invents a sample.
* `AcquisitionProofs!LossesBreakPieces` and `ParkedIsOneStretch`. The invariant (`SpliceInv`) relates three things
  the code keeps apart: the end of each live piece of signal (the history and a pending
  capture), the frame in hand and the position the consumer expects. When the last
  sample of a piece is of the open stream, whatever lies between it and the frame in hand,
  or else the expected position, was received and skipped (`Covered`); nothing in the buffer comes
  from a source not numbered yet; and until the first disturbance every piece ends in the
  open stream. Then a block that does not follow comes with a gap, which
  empties the history and ends the capture before the block is appended.
* `LiveHubProofs!TypeCorrect`, `RegistryServed`, `GrantsHonoured`, `ClientsKnow`.
  The invariant is `TypeOK /\ Registry`: a handler that is not free has an owner, a
  registered connection is served by a handler of its client, and an open connection is
  registered. Relative to it, `GrantHonoured` holds by what each method may do to a
  running lease of somebody else (`LeaseKept`), and the two parts of `ClientsInformed`
  because a step either broadcasts, or changes neither the registry
  nor the operator (but may let the lease lapse, of which nobody needs to be told).
* `ConfigUpdatesProofs!TypeCorrect`, `RestartFindsVersion`, `ClientsAreCurrent`. The
  row of the version in force is written by the last request to get there, not by
  the one that made the version: the invariant (`RowsInv`) says that the row exists or
  some request is still on its way to write it, that no row is ahead of the
  version, and that the rows have a greatest one.
* `ChannelIdentityProofs!LabelledRowsExist`, `OwnRowsAreListed`. The invariant says
  that the map names only rows that exist and each under its cluster's own id
  (`MapNamesRows`), that a row of the current clusterer is one of its channels or about to be
  deleted (`RowsHaveChannels`), and how far the clients lag behind the rows at each
  point of the loop (`ClientsFollow`). Of a merge it needs only that the channels it loses are
  reported, not which they are, so nothing is proved about the recursion.

### The browser

* `LiveFeedProofs!ClientReconnects`, `FeedTypeCorrect`, `BufferKeepsOrder`. `OneWayBack`
  is inductive as it stands: each handler of the socket moves the socket and the timer
  together. For the buffer the invariant (`FeedIInv`) is the type invariant with
  `Orderly`, which also bounds every queued number by that of the present, so that what
  is appended is never older than what is there. A lemma covers each way a message
  leaves the buffer: from the front, from the middle, and in favour of a newer one of
  its type, which is the only one of its type.

The theorems of `BrowserProofs` are all of `BrowserSpec`, the app with its router. The
lemma `PageSteps` says what a step of it is to each page: a step of that page, its
opening, its closing, or nothing; the rest goes page by page.

* `ScopeRetainsView`, `ScopePaintsView`. The invariant says what the
  slots hold (`Holding`: the last columns, each in its own slot), that an anchor that
  follows is at the newest column when nothing is to be painted, and that the canvas
  is current. The lemmas are arithmetic: columns less than a capacity apart have
  different slots, `clampView` keeps a view inside the history for every span and
  anchor, and every pixel's column is in the view. The mouse handlers then need nothing
  about where the mouse is.
* `RecordingsStayReachable`. `NothingOrphaned` is inductive with two
  facts: a new file has a number that no file, row or deletion has, and a deletion
  that still has its row to delete has deleted the file (`delete_recording` unlinks
  first).
* `EditsAreKept`, an action property. It needs (`SettingsIInv`) that while a PUT is in flight
  the form still holds, in every edited field, what was sent, and once it is applied what the
  version it made holds, but for the fields that opening the receiver may have changed: only
  then does the answer, if it is of that version, change no other edited field when it fills
  the form again. The ppm that "Apply suggested ppm" fills is the exception in all of it.
* `AcceptedIsValid`. Field by field, the form's bounds imply the server's once the texts are
  converted as `Number` and `Math.round` do, for every number.
* `AlertsAreDebounced`, an action property. A channel that was not seen silent since its alert is
  active in the store and in the watcher's memory (`AlertsIInv`): the watcher can
  only alert it again after it saw something else.
* `DrawersShowTheirChannel`. A drawer's pending loads are for what it asks or cancelled; no other
  page cancels (`DataIInv`).
* `FrozenTableStays`, an action property. What is on the screen are operators of their arguments
  (`Arranged`, `Strongest`, `Compared`), so that it is enough that a message leaves the
  source of the table alone; what `SetToSortSeq` computes is not needed.
* `WaterfallIsHistory`. A frame goes from the store to the loop, the page, the waterfall and its
  canvas, and none gets ahead of the one before (`SpectrumIInv`); what the
  waterfall has drawn is its top row.
* `BrowserTyped`. The types of all pages, from the invariants above and, for the lists of
  recordings, from the fact that a list only has recordings that were made.

Only model-checked: liveness (`RequestsComplete`, `ConsumerReleased`,
`ScanIsShown`, `PollCorrects`), which is out of the prover's reach, and what the recursion
of a merge and the sort of the table compute. The three runs that expect a violation show what the
code does not do, so there is nothing to prove of them.

## 5. What is not modelled, and what was noticed

Not modelled: the values of samples and all DSP; wall-clock telemetry; drawing,
formatting and colours; the scores and rankings that are floating-point functions of
the data; the ESP32; device probing; the trackers and statistics of channels. Per component, PROJECT.json says why. The hazards listed there without a
property are the ones the plan is for.

The models were read off the code, and the reading turned up facts that no run
states as a property, because no document says otherwise or because they are plain
consequences of a line. For whoever works on this code:

* Overlapping requests: a `clear_all_data` that overlaps a `start_scan` leaves a
  scanning manager without a session (`scan_manager.py:436`), on which the assertion at
  line 348 fails at the next start; a `start_scan` that arrives while `run_decoder` has
  paused the scan runs a loop next to rtl_433, in spite of the docstring at line 1139.
* What `acquisition_history` shows of a failed stream is not all that is joined in the history
  (`scan_manager.py:598`) and so in what `recent()` returns: single reads made while the receiver is focused,
  of whatever centres cover the grid, the stream before and after, and the blocks around one whose
  analysis raised (line 576 advances the expected position first).
* The worker is documented as "the only code allowed to read a streaming SDR" (`iq_stream.py:3`,
  also `docs/architecture.md:90`), but `stop()` joins it for 2 s (line 127) and returns all the same. The sentinel has
  released the loop by then, so no stop times out, and the next single read, calibration,
  rtl_433 or stream of another scan reads beside it. In the model that is a step of `left`; `worker # 0 => left = {}`, stated as an
  invariant, is refuted in a few steps.
* A stream whose `start()` raises (`iq_stream.py:67`) is stored already (`scan_manager.py:549`). The
  next turn waits in `get()` on a queue that nobody fills, and `stop()` returns at once, without a
  sentinel: the scan acquires nothing until it is stopped, and the stop takes its whole
  5 s. The executor thread that `get()` uses waits for ever.
* A calibration always ends with an error: `calibrate` unpacks five results of
  `_read_and_psd` (`scan_manager.py:1199`), which returns six (line 678). The scan is restarted
  all the same, so its effect on the manager is as modelled; the suggestion of a ppm in
  `SettingsPage` is what the page does with the answer that is documented.
* Alerts: the first pass of the watcher seeds what is active, so that "pre-existing
  active channels at mount do not fire" (`useChannelAlerts.ts:182`), but when the app is
  loaded that pass sees an empty store, and the channels that have been active all
  along alert as soon as the store is filled.
* Channels: the comment at `Channels.tsx:113` says that unknown values sort last; in
  ascending order they come first. An id that has vanished stays among the two
  selected ones and blocks the selection of another.
* Decoder: decodes that are pushed while the list loads are overwritten by it
  (`Decoder.tsx:39`), and one whose push comes after it was merged or loaded is listed
  twice (`store.ts:157`).
* Recordings: a reload that was answered before a deletion shows the deleted row again;
  leaving the page forgets that it is recording; a filter for a channel that has
  vanished filters nothing; rows whose file was evicted or cleared stay listed, and
  their download is a 404; a capture whose row cannot be inserted leaves a file that no
  page shows.
* Waterfall: a resumed display draws the frame it was paused on once more, and the plot
  may change once after the pause; overlay markers are redrawn with the next frame only.
* Scope: the initial zoom of `ScopeSpectrogram.tsx:12` is given up with the first
  frame, as the span is clamped to the columns there are (line 254).
* Channel ids (`scan_manager.py:485`): every accepted configuration, and every restart, makes a
  clusterer whose ids start at 1 again, over rows that stay. The next channel that is heard
  overwrites row 1, wherever its frequency is: the pin with its label
  (`usePinnedChannels.ts:25`), the detections and the recurrence tracker of the id pass to it, although
  `docs/signal-detection.md:35` and `clustering.py:4` call the ids stable. A merge then deletes rows by
  the same ids. Stated as an action property of `ChannelIdentity` TLC refutes it in a few steps. Rows
  of earlier clusterers that are not overwritten stay in `/api/channels`, and in what clients are
  sent, until the data is cleared: `OwnRowsListed` speaks of the rows of the present one.
* The first detection of a channel is stored without a channel, as `_persist_detection`
  comes before the upsert (`scan_manager.py:763`); and a stored status is practically always
  "active", as it is computed right after the channel was heard.
* Settings: the page sends every field with the version that is current when the form is
  saved (`Settings.tsx:153`), not the one it was filled from. When another operator's change
  is heard while the form is being edited, the save is accepted and undoes it; the 409
  that the page explains (line 163) never comes.
* Settings: the answer of a PUT is the configuration after all awaits of the update
  (`api/config.py:57`): a simulator that replaced a missing receiver, or another operator's
  update that came in between, shows in the form as if it had been saved. A ppm applied while a save is in flight is overwritten by its answer; an
  answer that comes after a newer broadcast puts the older configuration into the store
  until the next one (saving from there is refused). A band or an exclusion narrower
  than one Hz passes the form and is refused by the server.
* The observations dialog (`ObservationsModal`, `Channels.tsx:597`) shows the observations it has
  while it loads others or has failed to; the drawer of a channel (`ChannelDetail`) hides them
  until it has its own. `ShownIsAsked` is about what is shown when a load is over.
* While the table of channels is frozen its relative times (`Channels.tsx:476`) move on whenever
  the page renders. `FrozenStays` is about cells that come from the data.
* Hub: a handler whose status query raises (`websocket/route.py:61`) leaves its client registered for
  ever. `RegisteredIsServed` counts such a handler as serving, and says nothing of the new
  connection that an old handler removes (`operator_reconnect`).
* `BufferInOrder` is about what stays in a client's buffer: a reliable message in a full buffer is
  dropped, in spite of the docstring of `websocket/manager.py`.
* `LabelsExist` is about the existence of the row a detection names, which may be another
  channel's (channel ids, above).

## 6. Plan

What is left, in this order:

1. `SweepPlan`: the windows cover the band, checked against a reference
   definition over bounded inputs; progress of the sweep.
2. Restarts of the server that find open sessions and recordings without rows.
3. `LiveHub` and `LiveFeed` composed: two browsers over one registry.

A run that a stronger one makes redundant is replaced, not kept.
