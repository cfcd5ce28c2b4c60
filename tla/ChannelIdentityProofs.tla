----------------------- MODULE ChannelIdentityProofs -----------------------
(***************************************************************************)
(* Proofs about ChannelIdentity, for every set of detections, proximity,   *)
(* and number of ids and of clusterers.  Nothing is needed of what a merge *)
(* computes: it loses channels, and reports those it loses.                *)
(***************************************************************************)
EXTENDS ChannelIdentity, TLAPS

\* The states of the loop in which it is storing a channel.
Storing == {"persist", "persisted", "upsert", "upserted"}

\* The types that the arguments below use.
Types ==
    /\ dbId \in [Id -> Nat]
    /\ epoch \in Nat
    /\ gone \subseteq Id /\ DOMAIN rows \subseteq Id
    /\ loop \in Storing \cup {"off", "frame", "regions", "merged", "delete", "list"}
    /\ clearing \in {"no", "rows", "clients"}
    /\ loop \in Storing => job.id \in Id
    /\ loop \in {"upsert", "upserted", "delete"} => job.row \in Id
    /\ clearing # "no" => loop = "off"
    /\ loop \notin {"merged", "delete"} => gone = {}

\* The map names rows that exist, and a row under its cluster's own id.
MapNamesRows ==
    /\ \A i \in Id : dbId[i] # 0 => dbId[i] = i /\ i \in DOMAIN rows
    /\ loop \in {"upsert", "upserted"} => job.row = job.id
    /\ loop = "upserted" => job.row \in DOMAIN rows
    /\ loop = "delete" => dbId[job.row] = 0
    /\ clearing = "rows" => \A i \in Id : dbId[i] = 0

\* Every row of the current clusterer is a channel of it, or is on its way out.
RowsHaveChannels ==
    /\ \A i \in DOMAIN rows : rows[i].epoch \in Nat /\ rows[i].epoch <= epoch
    /\ \A i \in DOMAIN rows : rows[i].epoch = epoch =>
           i \in Live \cup strays \cup gone \cup (IF loop = "delete" THEN {job.row} ELSE {})
    /\ loop \in Storing => job.epoch \in Nat /\ job.epoch <= epoch
    /\ loop \in Storing /\ job.epoch = epoch => job.id \in Live

\* What the clients show lags behind the rows by the channel being stored.
ClientsFollow ==
    /\ clearing = "no" /\ ~failed /\ loop \in {"off", "frame", "regions", "persist", "persisted", "upsert"}
           => told = rows
    /\ clearing = "no" /\ ~failed /\ loop = "upserted" => rows = Put(told, job.row, Stored)
    /\ clearing = "clients" => rows = Nothing

IInv == Types /\ MapNamesRows /\ RowsHaveChannels /\ LabelsExist /\ ClientsFollow

-----------------------------------------------------------------------------

\* A detection that is taken in loses no channel, and its own is there.
LEMMA IngestKeeps ==
    ASSUME NEW f, NEW w, NEW i, Ingest(f, w, i)
    PROVE  Live \subseteq Live' /\ i \in Live'
BY DEF Ingest, Live, Put

LEMMA InitInv == Init => IInv
BY ChannelAssumption
DEF Init, IInv, Types, MapNamesRows, RowsHaveChannels, LabelsExist, ClientsFollow,
    Id, NoJob, Nothing, Live, Storing

\* The new clusterer has stored no row yet.
LEMMA NoRowsYet ==
    ASSUME IInv, NewClusterer
    PROVE  \A i \in DOMAIN rows : rows[i].epoch # epoch'
BY DEF IInv, Types, RowsHaveChannels, NewClusterer

LEMMA RegionInv ==
    ASSUME IInv, NEW f, NEW w, Region(f, w)
    PROVE  IInv'
<1>1. PICK i \in Id :
        /\ Ingest(f, w, i)
        /\ IF i \in throttled
           THEN UNCHANGED <<throttled, loop, job>>
           ELSE /\ throttled' = throttled \cup {i}
                /\ loop' = "persist"
                /\ job' = [id |-> i, epoch |-> epoch, center |-> clusters'[i].center,
                           label |-> dbId[i], row |-> 0]
    BY DEF Region
<1>2. /\ loop = "regions" /\ Live \subseteq Live' /\ i \in Live'
      /\ UNCHANGED <<dbId, rows, told, gone, clearing, epoch, strays, failed>>
    BY <1>1, IngestKeeps DEF Region, history
<1>3. CASE i \in throttled
    BY <1>1, <1>2, <1>3
    DEF IInv, Types, MapNamesRows, RowsHaveChannels, LabelsExist, ClientsFollow, Storing
<1>4. CASE i \notin throttled
  <2>1. /\ loop' = "persist" /\ job'.id = i /\ job'.epoch = epoch /\ job'.label = dbId[i]
      BY <1>1, <1>4
  <2>2. Types'
      BY <1>2, <2>1 DEF IInv, Types, Storing
  <2>3. MapNamesRows' /\ LabelsExist'
      BY <1>2, <2>1 DEF IInv, Types, MapNamesRows, LabelsExist
  <2>4. RowsHaveChannels'
      BY <1>2, <2>1 DEF IInv, Types, RowsHaveChannels, Storing
  <2>5. ClientsFollow'
      BY <1>2, <2>1 DEF IInv, ClientsFollow
  <2> QED BY <2>2, <2>3, <2>4, <2>5 DEF IInv
<1> QED BY <1>3, <1>4

\* Steps of the loop before and after its calls, which store nothing.
LEMMA QuietInv ==
    ASSUME IInv,
           LoopStarts \/ LoopStops \/ Frame \/ InsertDetection \/ Model \/ FrameDone \/ TimePasses
    PROVE  IInv'
<1>1. CASE LoopStarts \/ LoopStops \/ Frame \/ FrameDone
    BY <1>1
    DEF IInv, Types, MapNamesRows, RowsHaveChannels, LabelsExist, ClientsFollow, Storing, Live,
        LoopStarts, LoopStops, Frame, FrameDone, memory, history
<1>2. CASE InsertDetection
    BY <1>2
    DEF IInv, Types, MapNamesRows, RowsHaveChannels, LabelsExist, ClientsFollow, Storing, Live,
        InsertDetection, memory, history
<1>3. CASE TimePasses
    BY <1>3
    DEF IInv, Types, MapNamesRows, RowsHaveChannels, LabelsExist, ClientsFollow, Storing, Live,
        Stored, TimePasses, history
<1>4. CASE Model
  <2>1. /\ loop = "persisted" /\ loop' = "upsert" /\ job.id \in Id
        /\ UNCHANGED <<clusters, dbId, rows, told, gone, clearing, epoch, strays, failed>>
      BY <1>4 DEF Model, memory, history, IInv, Types, Storing
  <2>2. dbId[job.id] # 0 => dbId[job.id] = job.id
      BY <2>1 DEF IInv, MapNamesRows
  <2>3. job'.id = job.id /\ job'.epoch = job.epoch /\ job'.row = job.id
      BY <1>4, <2>2 DEF Model
  <2> QED BY <2>1, <2>3 DEF IInv, Types, MapNamesRows, RowsHaveChannels, LabelsExist, ClientsFollow,
            Storing, Live
<1> QED BY <1>1, <1>2, <1>3, <1>4

LEMMA UpsertInv == ASSUME IInv, Upsert PROVE IInv'
<1>1. /\ loop = "upsert" /\ loop' = "upserted" /\ rows' = Put(rows, job.row, Stored)
      /\ UNCHANGED <<clusters, dbId, told, job, gone, clearing, epoch, strays, failed>>
    BY DEF Upsert, memory, history
<1>2. /\ DOMAIN rows' = DOMAIN rows \cup {job.row} /\ rows'[job.row] = Stored
      /\ \A k \in DOMAIN rows : k # job.row => rows'[k] = rows[k]
    BY <1>1 DEF Put
<1>3. job.row = job.id /\ Stored.epoch = job.epoch
    BY <1>1 DEF IInv, MapNamesRows, Stored
<1>4. Types' /\ MapNamesRows' /\ LabelsExist'
    BY <1>1, <1>2, <1>3 DEF IInv, Types, MapNamesRows, LabelsExist, Storing
<1>5. RowsHaveChannels'
    BY <1>1, <1>2, <1>3 DEF IInv, RowsHaveChannels, Storing, Live
<1>6. ClientsFollow'
    BY <1>1 DEF IInv, Types, ClientsFollow, Stored, Put
<1> QED BY <1>4, <1>5, <1>6 DEF IInv

LEMMA BroadcastInv == ASSUME IInv, Broadcast PROVE IInv'
<1>1. /\ loop = "upserted" /\ loop' = "regions"
      /\ dbId' = [dbId EXCEPT ![job.id] = job.row]
      /\ told' = Put(told, job.row, Stored)
      /\ UNCHANGED <<clusters, rows, gone, clearing, epoch, strays, failed>>
    BY DEF Broadcast, history
<1>2. job.row = job.id /\ job.row \in DOMAIN rows /\ job.id \in Id
    BY <1>1 DEF IInv, Types, MapNamesRows, Storing
<1>3. dbId' \in [Id -> Nat] /\ \A i \in Id : dbId'[i] = IF i = job.id THEN job.id ELSE dbId[i]
    BY <1>1, <1>2, ChannelAssumption DEF IInv, Types, Id
<1>4. Types' /\ MapNamesRows' /\ LabelsExist'
    BY <1>1, <1>2, <1>3 DEF IInv, Types, MapNamesRows, LabelsExist, Storing
<1>5. RowsHaveChannels' /\ ClientsFollow'
    BY <1>1 DEF IInv, Types, RowsHaveChannels, ClientsFollow, Storing, Live
<1> QED BY <1>4, <1>5 DEF IInv

LEMMA MergeInv == ASSUME IInv, Merge PROVE IInv'
<1>1. /\ loop = "regions" /\ loop' = "merged" /\ gone' = {i \in Id : i \in Live \ Live'}
      /\ UNCHANGED <<dbId, rows, told, job, clearing, epoch, strays, failed>>
    BY DEF Merge, history
<1> QED BY <1>1 DEF IInv, Types, MapNamesRows, RowsHaveChannels, LabelsExist, ClientsFollow, Storing

LEMMA ForgetInv == ASSUME IInv, Forget PROVE IInv'
<1>1. /\ loop = "merged"
      /\ UNCHANGED <<clusters, rows, told, clearing, epoch, strays, failed>>
    BY DEF Forget, history
<1>2. CASE gone = {}
  <2>1. loop' = "list" /\ UNCHANGED <<dbId, job, gone>>
      BY <1>2 DEF Forget
  <2> QED BY <1>1, <1>2, <2>1 DEF IInv, Types, MapNamesRows, RowsHaveChannels, LabelsExist, ClientsFollow,
            Storing, Live
<1>3. CASE gone # {}
  <2>1. PICK i \in gone :
            /\ gone' = gone \ {i} /\ loop' = "delete"
            /\ job' = [NoJob EXCEPT !.row = IF dbId[i] # 0 THEN dbId[i] ELSE i]
            /\ dbId' = [dbId EXCEPT ![i] = 0]
      BY <1>3 DEF Forget
  <2>2. i \in Id /\ job'.row = i
      BY <2>1 DEF IInv, Types, MapNamesRows, NoJob
  <2>3. dbId' \in [Id -> Nat] /\ \A k \in Id : dbId'[k] = IF k = i THEN 0 ELSE dbId[k]
      BY <2>1, <2>2 DEF IInv, Types
  <2>4. Types'
      BY <1>1, <2>1, <2>2, <2>3 DEF IInv, Types, Storing
  <2>5. MapNamesRows' /\ LabelsExist' /\ ClientsFollow'
      BY <1>1, <2>1, <2>2, <2>3 DEF IInv, Types, MapNamesRows, LabelsExist, ClientsFollow
  <2>6. RowsHaveChannels'
      BY <1>1, <2>1, <2>2 DEF IInv, RowsHaveChannels, Storing, Live
  <2> QED BY <2>4, <2>5, <2>6 DEF IInv
<1> QED BY <1>2, <1>3

LEMMA DeleteInv == ASSUME IInv, Delete PROVE IInv'
<1>1. /\ loop = "delete" /\ loop' = "merged" /\ rows' = Drop(rows, job.row)
      /\ UNCHANGED <<clusters, dbId, told, gone, clearing, epoch, strays, failed>>
    BY DEF Delete, memory, history
<1>2. /\ DOMAIN rows' = DOMAIN rows \ {job.row}
      /\ \A k \in DOMAIN rows' : rows'[k] = rows[k]
    BY <1>1 DEF Drop
<1>3. Types' /\ MapNamesRows' /\ LabelsExist'
    BY <1>1, <1>2 DEF IInv, Types, MapNamesRows, LabelsExist, Storing
<1>4. RowsHaveChannels'
    BY <1>1, <1>2 DEF IInv, RowsHaveChannels, Storing, Live
<1>5. ClientsFollow'
    BY <1>1 DEF IInv, Types, ClientsFollow
<1> QED BY <1>3, <1>4, <1>5 DEF IInv

LEMMA SnapshotInv == ASSUME IInv, Snapshot PROVE IInv'
BY DEF Snapshot, memory, IInv, Types, MapNamesRows, RowsHaveChannels, LabelsExist, ClientsFollow,
   Storing, Live

LEMMA LoopDiesInv == ASSUME IInv, LoopDies PROVE IInv'
<1>1. /\ loop \in Awaiting /\ loop' = "off" /\ failed' /\ gone' = {}
      /\ strays' = strays \cup gone \cup IF loop = "delete" THEN {job.row} ELSE {}
      /\ UNCHANGED <<clusters, dbId, rows, told, clearing, epoch>>
    BY DEF LoopDies, memory
<1>2. RowsHaveChannels'
    BY <1>1 DEF IInv, RowsHaveChannels, Storing, Live
<1> QED BY <1>1, <1>2 DEF IInv, Types, MapNamesRows, LabelsExist, ClientsFollow, Storing, Awaiting

LEMMA UpdateConfigInv == ASSUME IInv, UpdateConfig PROVE IInv'
<1>1. /\ loop \in Awaiting \cup {"off", "frame"} /\ epoch' = epoch + 1
      /\ UNCHANGED <<dbId, rows, told, loop, job, gone, clearing, failed>>
    BY DEF UpdateConfig, NewClusterer
<1>2. RowsHaveChannels'
  <2>1. \A i \in DOMAIN rows : rows[i].epoch # epoch'
      BY NoRowsYet DEF UpdateConfig
  <2> QED BY <1>1, <2>1 DEF IInv, Types, RowsHaveChannels
<1> QED BY <1>1, <1>2 DEF IInv, Types, MapNamesRows, LabelsExist, ClientsFollow, Stored

LEMMA ClearInv ==
    ASSUME IInv, ClearMemory \/ ClearRows \/ ClearClients \/ ClearFails
    PROVE  IInv'
<1>1. CASE ClearMemory
  <2>1. /\ loop = "off" /\ clearing = "no" /\ clearing' = "rows" /\ epoch' = epoch + 1
        /\ dbId' = [i \in Id |-> 0]
        /\ UNCHANGED <<rows, told, loop, job, gone, failed>>
        /\ \A i \in DOMAIN rows : rows[i].epoch # epoch'
      BY <1>1, NoRowsYet DEF ClearMemory, NewClusterer
  <2> QED BY <2>1 DEF IInv, Types, MapNamesRows, RowsHaveChannels, LabelsExist, ClientsFollow, Storing
<1>2. CASE ClearRows
  <2>1. DOMAIN rows' = {}
      BY <1>2 DEF ClearRows, Nothing
  <2> QED BY <1>2, <2>1 DEF ClearRows, memory, history, IInv, Types, MapNamesRows, RowsHaveChannels,
            LabelsExist, ClientsFollow, Storing, Live
<1>3. CASE ClearClients
    BY <1>3 DEF ClearClients, memory, history, IInv, Types, MapNamesRows, RowsHaveChannels,
        LabelsExist, ClientsFollow, Storing, Live
<1>4. CASE ClearFails
    BY <1>4 DEF ClearFails, memory, IInv, Types, MapNamesRows, RowsHaveChannels,
        LabelsExist, ClientsFollow, Storing, Live
<1> QED BY <1>1, <1>2, <1>3, <1>4

LEMMA RestartInv == ASSUME IInv, Restart PROVE IInv'
<1>1. /\ loop' = "off" /\ clearing' = "no" /\ gone' = {} /\ epoch' = epoch + 1
      /\ dbId' = [i \in Id |-> 0] /\ told' = rows /\ rows' = rows
      /\ \A i \in DOMAIN rows : rows[i].epoch # epoch'
    BY NoRowsYet DEF Restart, NewClusterer
<1> QED BY <1>1 DEF IInv, Types, MapNamesRows, RowsHaveChannels, LabelsExist, ClientsFollow, Storing

-----------------------------------------------------------------------------

\* Every step of the loop and of what resets it keeps the invariant.
LEMMA StepInv == ASSUME IInv, [Next]_channelVars PROVE IInv'
<1>1. CASE LoopNext
    BY <1>1, RegionInv, QuietInv, UpsertInv, BroadcastInv, MergeInv, ForgetInv, DeleteInv,
       SnapshotInv,
       LoopDiesInv DEF LoopNext
<1>2. CASE UpdateConfig \/ ClearMemory \/ ClearRows \/ ClearClients \/ ClearFails \/ Restart
    BY <1>2, UpdateConfigInv, ClearInv, RestartInv
<1>3. CASE UNCHANGED channelVars
    BY <1>3
    DEF channelVars, memory, history, IInv, Types, MapNamesRows, RowsHaveChannels, LabelsExist,
        ClientsFollow, Storing, Live, Stored
<1> QED BY <1>1, <1>2, <1>3 DEF Next

LEMMA Invariance == Spec => []IInv
BY InitInv, StepInv, PTL DEF Spec

\* No detection is labelled with a row that is not there, which would end the
\* scan by a refused insert: for any number of channels, merges, updates of
\* the configuration, clears and restarts.
THEOREM LabelledRowsExist == Spec => []LabelsExist
<1>1. IInv => LabelsExist BY DEF IInv
<1> QED BY <1>1, Invariance, PTL

\* Of the rows that the clusterer in force has stored, the table holds none that
\* was merged away, unless the scan died before its deletion, and between two
\* frames the clients show the table; what earlier clusterers have left in it
\* stays there.
THEOREM OwnRowsAreListed == Spec => []OwnRowsListed
<1>1. IInv => NoOrphans
    BY DEF IInv, RowsHaveChannels, NoOrphans
<1>2. IInv => ClientsAgree
    BY DEF IInv, ClientsFollow, ClientsAgree
<1> QED BY <1>1, <1>2, Invariance, PTL DEF OwnRowsListed

=============================================================================
