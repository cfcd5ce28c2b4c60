-------------------------- MODULE ChannelIdentity --------------------------
(***************************************************************************)
(* The identity of candidate channels.  A channel is a cluster of          *)
(* detections in memory (backend/app/signal_processing/clustering.py), a   *)
(* row of the database under an id that clients use, and an entry of the   *)
(* maps of ScanManager between them (services/scan_manager.py).  The scan  *)
(* loop writes all three, in steps cut at its database calls; updates of   *)
(* the configuration, clear_all_data and restarts reset some of them.      *)
(*                                                                         *)
(* One loop and one clear at a time: the overlaps of start_scan, stop_scan *)
(* and clear_all_data are the subject of ScanLifecycle.                    *)
(*                                                                         *)
(* Frequencies are points of a coarse grid.  The averages that move a      *)
(* centre or a width are any value in between, as their weights depend on  *)
(* how often a channel was heard.                                          *)
(***************************************************************************)
EXTENDS Integers

CONSTANTS Freq,       \* centre frequencies of detections
          Width,      \* their bandwidths
          Proximity,  \* proximity_hz
          MaxId,      \* bound: ids that one clusterer hands out
          MaxEpoch    \* bound: clusterers, one after another

Id == 1 .. MaxId

ASSUME ChannelAssumption ==
    /\ Freq \subseteq Nat /\ Width \subseteq Nat /\ Proximity \in Nat
    /\ MaxId \in Nat /\ MaxEpoch \in Nat

VARIABLES
    clusters,   \* _channels of the clusterer, by id
    nextId,     \* and its _next_id
    dbId,       \* _channel_db_id, 0 when an id is not in it
    throttled,  \* ids whose _last_persist is more recent than the interval
    rows,       \* table candidate_channels, by id
    told,       \* the channels that clients show, by id
    loop,       \* where the loop is in _process_frame, "off" when there is none
    job,        \* its local variables: the channel that it is storing
    gone,       \* and the ids that were merged away and are still to be deleted
    clearing,   \* what clear_all_data does next
    \* History, for the properties only:
    epoch,      \* the number of the clusterer
    strays,     \* ids merged away whose deletion the loop did not get to
    failed      \* a database call failed, or the loop was cancelled, since the last snapshot

memory == <<clusters, nextId, dbId, throttled>>
history == <<epoch, strays, failed>>
channelVars == <<memory, rows, told, loop, job, gone, clearing, history>>

Live == DOMAIN clusters
Nothing == [i \in {} |-> 0]
Put(f, i, x) == [k \in DOMAIN f \cup {i} |-> IF k = i THEN x ELSE f[k]]
Drop(f, i) == [k \in DOMAIN f \ {i} |-> f[k]]
NoJob == [id |-> 0, epoch |-> 0, center |-> 0, label |-> 0, row |-> 0]

Init ==
    /\ clusters = Nothing /\ nextId = 1
    /\ dbId = [i \in Id |-> 0] /\ throttled = {}
    /\ rows = Nothing /\ told = Nothing
    /\ loop = "off" /\ job = NoJob /\ gone = {}
    /\ clearing = "no"
    /\ epoch = 1 /\ strays = {} /\ failed = FALSE

-----------------------------------------------------------------------------
(* The clusterer.                                                           *)

Distance(a, b) == IF a >= b THEN a - b ELSE b - a
Greater(a, b) == IF a >= b THEN a ELSE b
Between(S, a, b) == {x \in S : (a <= x /\ x <= b) \/ (b <= x /\ x <= a)}

\* _nearest(): the closest cluster within proximity_hz, of two the older one.
Within(f) == {i \in Live : Distance(clusters[i].center, f) <= Proximity}
Nearest(f) ==
    CHOOSE i \in Within(f) :
        \A k \in Within(f) :
            LET d == Distance(clusters[i].center, f)
                e == Distance(clusters[k].center, f)
            IN  d < e \/ (d = e /\ i <= k)

\* ingest(): the detection goes to cluster i, which is moved or created.
Ingest(f, w, i) ==
    IF Within(f) = {}
    THEN /\ i = nextId /\ nextId <= MaxId
         /\ nextId' = nextId + 1
         /\ clusters' = Put(clusters, i, [center |-> f, width |-> w])
    ELSE /\ i = Nearest(f)
         /\ \E c \in Between(Freq, clusters[i].center, f),
               b \in Between(Width, clusters[i].width, w) :
                clusters' = Put(clusters, i, [center |-> c, width |-> b])
         /\ UNCHANGED nextId

Overlap(a, b) ==
    Distance(a.center, b.center) <= Greater(Proximity, (a.width + b.width) \div 2)

\* Cluster k is merged into i; pull says how much k has been heard.
Absorb(cl, i, k, pull) ==
    IF i < k /\ {i, k} \subseteq DOMAIN cl /\ Overlap(cl[i], cl[k])
    THEN LET shift == ((cl[k].center - cl[i].center) * pull[k]) \div 2
         IN  Drop(Put(cl, i, [center |-> cl[i].center + shift,
                              width |-> Greater(cl[i].width, cl[k].width)]), k)
    ELSE cl

\* merge_overlapping(): one pass over all pairs, in the order of their ids.
MergePass(pull) ==
    LET pass[n \in 0 .. MaxId * MaxId] ==
            IF n = 0 THEN clusters
            ELSE Absorb(pass[n - 1], ((n - 1) \div MaxId) + 1, ((n - 1) % MaxId) + 1, pull)
    IN  pass[MaxId * MaxId]

-----------------------------------------------------------------------------
(* The scan loop.                                                           *)

LoopStarts ==
    /\ loop = "off" /\ clearing = "no" /\ loop' = "frame"
    /\ UNCHANGED <<memory, rows, told, job, gone, clearing, history>>

\* The stop event is seen between two frames.
LoopStops ==
    /\ loop = "frame" /\ loop' = "off"
    /\ UNCHANGED <<memory, rows, told, job, gone, clearing, history>>

\* A frame has been read and its regions are to be processed.
Frame ==
    /\ loop = "frame" /\ loop' = "regions"
    /\ UNCHANGED <<memory, rows, told, job, gone, clearing, history>>

\* A region of the frame; a channel that was stored just now is not stored
\* again.  The label of the detection is what _persist_detection() looks up.
Region(f, w) ==
    /\ loop = "regions"
    /\ \E i \in Id :
        /\ Ingest(f, w, i)
        /\ IF i \in throttled
           THEN UNCHANGED <<throttled, loop, job>>
           ELSE /\ throttled' = throttled \cup {i}
                /\ loop' = "persist"
                /\ job' = [id |-> i, epoch |-> epoch, center |-> clusters'[i].center,
                           label |-> dbId[i], row |-> 0]
    /\ UNCHANGED <<dbId, rows, told, gone, clearing, history>>

\* INSERT INTO detections, whose channel_id must be NULL or reference a row.
InsertDetection ==
    /\ loop = "persist"
    /\ job.label # 0 => job.label \in DOMAIN rows
    /\ loop' = "persisted"
    /\ UNCHANGED <<memory, rows, told, job, gone, clearing, history>>

\* _state_to_model(): the id of the row is the id of the cluster at first.
Model ==
    /\ loop = "persisted" /\ loop' = "upsert"
    /\ job' = [job EXCEPT !.row = IF dbId[job.id] # 0 THEN dbId[job.id] ELSE job.id]
    /\ UNCHANGED <<memory, rows, told, gone, clearing, history>>

Stored == [center |-> job.center, epoch |-> job.epoch]

\* upsert(): a row with this id is updated, whosever it is, or inserted.
Upsert ==
    /\ loop = "upsert" /\ loop' = "upserted"
    /\ rows' = Put(rows, job.row, Stored)
    /\ UNCHANGED <<memory, told, job, gone, clearing, history>>

Broadcast ==
    /\ loop = "upserted" /\ loop' = "regions"
    /\ dbId' = [dbId EXCEPT ![job.id] = job.row]
    /\ told' = Put(told, job.row, Stored)
    /\ job' = NoJob
    /\ UNCHANGED <<clusters, nextId, throttled, rows, gone, clearing, history>>

\* The regions are done and no snapshot is due.
FrameDone ==
    /\ loop = "regions" /\ loop' = "frame"
    /\ UNCHANGED <<memory, rows, told, job, gone, clearing, history>>

\* Bug: the ids that were merged away are not reported.
BugMerge ==
    /\ loop = "regions" /\ loop' = "merged"
    /\ \E pull \in [Live -> 0 .. 2] : clusters' = MergePass(pull)
    /\ gone' = {}
    /\ UNCHANGED <<nextId, dbId, throttled, rows, told, job, clearing, history>>

\* The regions are done and a snapshot is due, which starts with a merge.
Merge ==
    /\ loop = "regions" /\ loop' = "merged"
    /\ \E pull \in [Live -> 0 .. 2] : clusters' = MergePass(pull)
    /\ gone' = {i \in Id : i \in Live \ Live'}
    /\ UNCHANGED <<nextId, dbId, throttled, rows, told, job, clearing, history>>

\* Bug: the map keeps the id that was merged away.
BugForget ==
    /\ loop = "merged"
    /\ IF gone = {}
       THEN loop' = "list" /\ UNCHANGED <<dbId, throttled, job, gone>>
       ELSE \E i \in gone :
                /\ gone' = gone \ {i} /\ loop' = "delete"
                /\ job' = [NoJob EXCEPT !.row = IF dbId[i] # 0 THEN dbId[i] ELSE i]
                /\ UNCHANGED <<dbId, throttled>>
    /\ UNCHANGED <<clusters, nextId, rows, told, clearing, history>>

\* The next id that was merged away leaves the maps, and then its row goes.
Forget ==
    /\ loop = "merged"
    /\ IF gone = {}
       THEN loop' = "list" /\ UNCHANGED <<dbId, throttled, job, gone>>
       ELSE \E i \in gone :
                /\ gone' = gone \ {i} /\ loop' = "delete"
                /\ job' = [NoJob EXCEPT !.row = IF dbId[i] # 0 THEN dbId[i] ELSE i]
                /\ dbId' = [dbId EXCEPT ![i] = 0]
                /\ throttled' = throttled \ {i}
    /\ UNCHANGED <<clusters, nextId, rows, told, clearing, history>>

Delete ==
    /\ loop = "delete" /\ loop' = "merged"
    /\ rows' = Drop(rows, job.row)
    /\ job' = NoJob
    /\ UNCHANGED <<memory, told, gone, clearing, history>>

\* The rows are read and sent to all clients.
Snapshot ==
    /\ loop = "list" /\ loop' = "frame"
    /\ told' = rows /\ failed' = FALSE
    /\ UNCHANGED <<memory, rows, job, gone, clearing, epoch, strays>>

\* The loop awaits the database, or its turn after an answer.
Awaiting == {"persist", "persisted", "upsert", "upserted", "delete", "list"}

\* A database call raises, or a stop gives up waiting and cancels the loop.
LoopDies ==
    /\ loop \in Awaiting /\ loop' = "off"
    /\ failed' = TRUE
    /\ strays' = strays \cup gone \cup IF loop = "delete" THEN {job.row} ELSE {}
    /\ job' = NoJob /\ gone' = {}
    /\ UNCHANGED <<memory, rows, told, clearing, epoch>>

\* Frames come several times a second; an entry of _last_persist grows old.
TimePasses ==
    /\ loop \in {"off", "frame"}
    /\ \E i \in throttled : throttled' = throttled \ {i}
    /\ UNCHANGED <<clusters, nextId, dbId, rows, told, loop, job, gone, clearing, history>>

LoopNext ==
    \/ LoopStarts \/ LoopStops \/ Frame
    \/ \E f \in Freq, w \in Width : Region(f, w)
    \/ InsertDetection \/ Model \/ Upsert \/ Broadcast
    \/ FrameDone \/ Merge \/ Forget \/ Delete \/ Snapshot
    \/ LoopDies \/ TimePasses

-----------------------------------------------------------------------------
(* What resets the identities.                                              *)

NewClusterer ==
    /\ epoch < MaxEpoch /\ epoch' = epoch + 1
    /\ clusters' = Nothing /\ nextId' = 1
    /\ strays' = {}

\* update_config(): the clusterer is replaced, the maps are not.  An update
\* that does not touch the acquisition does not stop the loop for it.
UpdateConfig ==
    /\ loop \in Awaiting \cup {"off", "frame"}
    /\ NewClusterer
    /\ UNCHANGED <<dbId, throttled, rows, told, loop, job, gone, clearing, failed>>

\* clear_all_data(), whose first step has stopped the scan.
ClearMemory ==
    /\ loop = "off" /\ clearing = "no" /\ clearing' = "rows"
    /\ NewClusterer
    /\ dbId' = [i \in Id |-> 0] /\ throttled' = {}
    /\ UNCHANGED <<rows, told, loop, job, gone, failed>>

ClearRows ==
    /\ clearing = "rows" /\ clearing' = "clients"
    /\ rows' = Nothing
    /\ UNCHANGED <<memory, told, loop, job, gone, history>>

ClearClients ==
    /\ clearing = "clients" /\ clearing' = "no"
    /\ told' = Nothing
    /\ UNCHANGED <<memory, rows, loop, job, gone, history>>

\* The database raises while one of the two is awaited.
ClearFails ==
    /\ clearing # "no" /\ clearing' = "no"
    /\ failed' = TRUE
    /\ UNCHANGED <<memory, rows, told, loop, job, gone, epoch, strays>>

\* The process starts anew on the same database, and clients load its rows.
Restart ==
    /\ NewClusterer
    /\ dbId' = [i \in Id |-> 0] /\ throttled' = {}
    /\ told' = rows
    /\ loop' = "off" /\ job' = NoJob /\ gone' = {} /\ clearing' = "no"
    /\ failed' = FALSE
    /\ UNCHANGED rows

Next == LoopNext \/ UpdateConfig \/ ClearMemory \/ ClearRows \/ ClearClients \/ ClearFails \/ Restart

Spec == Init /\ [][Next]_channelVars

-----------------------------------------------------------------------------
(* Properties.                                                              *)

\* A detection is never labelled with a row that is not there, which the
\* foreign key refuses, so that the loop would crash: whatever is merged,
\* replaced, cleared or restarted, a row outlives the entries of the map that
\* name it.
LabelsExist == loop = "persist" /\ job.label # 0 => job.label \in DOMAIN rows

\* "delete the merged-away rows so /api/channels doesn't keep orphaned
\* duplicates" (scan_manager.py:924): once a merge is through, every row that
\* the current clusterer has stored is a channel that it still has, unless the
\* loop died before its deletion.
NoOrphans ==
    gone = {} /\ loop # "delete" =>
        \A i \in DOMAIN rows : rows[i].epoch = epoch => i \in Live \cup strays

\* Between two frames the clients show the rows, unless a call failed since
\* the last snapshot.
ClientsAgree == loop \in {"frame", "off"} /\ clearing = "no" /\ ~failed => told = rows

\* Of what the clusterer in force has stored, the list of channels
\* (/api/channels, and what the clients are sent) has what it still is, whatever
\* is merged, fails or is cleared.  Rows that an earlier clusterer has left stay
\* listed beside them: an update or a restart deletes none.
OwnRowsListed == NoOrphans /\ ClientsAgree
=============================================================================
