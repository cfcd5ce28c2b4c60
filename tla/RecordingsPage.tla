--------------------------- MODULE RecordingsPage ---------------------------
(***************************************************************************)
(* The Recordings page (frontend/src/pages/Recordings.tsx) and what it     *)
(* works on: the files of backend/app/services/recorder.py and their rows  *)
(* in the recordings table.  The page lists, records and deletes; the scan *)
(* saves triggered captures and any client may clear all data meanwhile.   *)
(*                                                                         *)
(* A recording is the number of its file, in the order they are written.   *)
(* Its row is inserted later and has an id that is never used again (the   *)
(* column is AUTOINCREMENT), so the number stands for the row too.         *)
(*                                                                         *)
(* An operator named Bug... is a wrong variant of the operator after it,   *)
(* which no specification uses.                                            *)
(***************************************************************************)
EXTENDS Integers, FiniteSets

CONSTANTS MaxMade,     \* bound on the recordings made
          Room,        \* recordings that fit under max_iq_storage_gb
          Mark, Unset  \* what a filter says, or nothing

ASSUME RecordingsAssumption == MaxMade \in Nat \ {0} /\ Room \in Nat /\ Unset \notin Mark

VARIABLES
    made,       \* recordings written so far
    files, rows,
    writing,    \* written, the row is still to be inserted
    unlisted,   \* written, and inserting the row failed
    clearing,   \* clear_all_data has deleted the rows, not yet the files
    listed,     \* recordings: the list of the page
    reading,    \* loading
    reads,      \* the reloads in flight, of the page and of a command
    recording,
    command,    \* the start or stop in flight; busy while there is one
    mine,       \* the recording that the start in flight writes
    deletes,    \* DELETE of a recording, by its state
    dialog      \* toDelete and inspect

diskVars == <<made, files, rows, writing, unlisted, clearing>>
recordingsVars == <<diskVars, listed, reading, reads, recording, command, mine, deletes, dialog>>

Rec == 1 .. MaxMade
Reader == {"page", "command"}   \* one reload of each at a time
FilterName == {"from", "to", "low", "high", "channel"}
NoRead == [at |-> "none", ids |-> {}]
NoDialog == [is |-> "none", rec |-> 0]

RecordingsTypeOK ==
    /\ made \in 0 .. MaxMade
    /\ \A s \in {files, rows, writing, unlisted, listed} : s \subseteq 1 .. made
    /\ {clearing, reading, recording} \subseteq BOOLEAN
    /\ reads \in [Reader -> [at : {"none", "asked", "answered"}, ids : SUBSET Rec]]
    /\ command \in {"none", "start", "capture", "started", "stop", "reload"}
    /\ mine \in 0 .. made
    /\ deletes \in [Rec -> {"none", "asked", "unlinked", "deleted"}]
    /\ dialog \in [is : {"none", "delete", "inspect"}, rec : 0 .. made]

RecordingsClosed ==
    /\ made = 0 /\ files = {} /\ rows = {} /\ writing = {} /\ unlisted = {} /\ clearing = FALSE
    /\ listed = {} /\ reading = FALSE /\ reads = [r \in Reader |-> NoRead]
    /\ recording = FALSE /\ command = "none" /\ mine = 0
    /\ deletes = [n \in Rec |-> "none"] /\ dialog = NoDialog

RecordingsMount(n, kept, at) ==
    /\ made' = n /\ files' = kept /\ rows' = 1 .. n
    /\ writing' = {} /\ unlisted' = {} /\ clearing' = FALSE
    /\ listed' = {} /\ reading' = (at = "asked")
    /\ reads' = [r \in Reader |-> IF r = "page" THEN [NoRead EXCEPT !.at = at] ELSE NoRead]
    /\ recording' = FALSE /\ command' = "none" /\ mine' = 0
    /\ deletes' = [r \in Rec |-> "none"] /\ dialog' = NoDialog

\* The page is opened, loads the list, and knows nothing of a recording it
\* started before.  The files of some rows may have made room for others.
RecordingsOpens == \E n \in 0 .. 1 : \E kept \in SUBSET (1 .. n) : RecordingsMount(n, kept, "asked")
RecordingsCloses == RecordingsMount(0, {}, "none")

-----------------------------------------------------------------------------
(* The recorder and the recordings table.                                   *)

\* _enforce_storage_cap(): the oldest files go until one more fits.
Kept == {f \in files : Cardinality({g \in files : g >= f}) < Room}

\* capture_iq() on an executor thread, for the scan or for the page.
Captures ==
    /\ made < MaxMade /\ made' = made + 1
    /\ files' = Kept \cup {made + 1}
    /\ writing' = writing \cup {made + 1}
    /\ UNCHANGED <<rows, unlisted, clearing>>

ScanCaptures ==
    /\ Captures
    /\ UNCHANGED <<listed, reading, reads, recording, command, mine, deletes, dialog>>

\* create(), which waits for the write lock that clear_all_data() holds.
Creates(n) ==
    /\ n \in writing /\ ~clearing
    /\ writing' = writing \ {n}
    /\ \/ rows' = rows \cup {n} /\ command' = (IF n = mine THEN "started" ELSE command) /\ UNCHANGED unlisted
       \/ unlisted' = unlisted \cup {n} /\ command' = (IF n = mine THEN "none" ELSE command) /\ UNCHANGED rows
    /\ mine' = IF n = mine THEN 0 ELSE mine
    /\ UNCHANGED <<made, files, clearing, listed, reading, reads, recording, deletes, dialog>>

\* clear_all_data() of any client: the rows, and after that await the files.
ClearRows ==
    /\ ~clearing /\ clearing' = TRUE
    /\ rows' = {}
    /\ UNCHANGED <<made, files, writing, unlisted, listed, reading, reads, recording, command, mine,
                   deletes, dialog>>
ClearFiles ==
    /\ clearing /\ clearing' = FALSE
    /\ files' = {}
    /\ UNCHANGED <<made, rows, writing, unlisted, listed, reading, reads, recording, command, mine,
                   deletes, dialog>>

BugUnlink(n) ==
    /\ deletes[n] = "asked" /\ n \in rows
    /\ deletes' = [deletes EXCEPT ![n] = "unlinked"]
    /\ UNCHANGED <<diskVars, listed, reading, reads, recording, command, mine, dialog>>

\* delete_recording(): the files of a row that is there, and then the row.
Unlink(n) ==
    /\ deletes[n] = "asked" /\ n \in rows
    /\ files' = files \ {n} /\ deletes' = [deletes EXCEPT ![n] = "unlinked"]
    /\ UNCHANGED <<made, rows, writing, unlisted, clearing, listed, reading, reads, recording, command,
                   mine, dialog>>
DeleteRow(n) ==
    /\ deletes[n] = "unlinked" /\ ~clearing
    /\ rows' = rows \ {n} /\ deletes' = [deletes EXCEPT ![n] = "deleted"]
    /\ UNCHANGED <<made, files, writing, unlisted, clearing, listed, reading, reads, recording, command,
                   mine, dialog>>

\* start_recording() captures, and the list is read.
StartArrives ==
    /\ command = "start" /\ command' = "capture"
    /\ Captures /\ mine' = made + 1
    /\ UNCHANGED <<listed, reading, reads, recording, deletes, dialog>>
ListArrives(r) ==
    /\ reads[r].at = "asked"
    /\ reads' = [reads EXCEPT ![r] = [at |-> "answered", ids |-> rows]]
    /\ UNCHANGED <<diskVars, listed, reading, recording, command, mine, deletes, dialog>>

-----------------------------------------------------------------------------
(* The page.                                                                *)

busy == command # "none"

\* reload(), and its end; one that fails leaves the list.
Reload(r) ==
    /\ reads[r].at = "none"
    /\ reads' = [reads EXCEPT ![r].at = "asked"] /\ reading' = TRUE
Reloaded(r) ==
    /\ reads[r].at # "none"
    /\ listed' \in {listed} \cup (IF reads[r].at = "answered" THEN {reads[r].ids} ELSE {})
    /\ reads' = [reads EXCEPT ![r] = NoRead] /\ reading' = FALSE
    /\ command' = IF r = "command" THEN "none" ELSE command
    /\ UNCHANGED <<diskVars, recording, mine, deletes, dialog>>

\* startRecording() and stopRecording(), which the server only answers, and
\* what they do with the answer: reload, or nothing after an error.
StartRecording ==
    /\ ~recording /\ ~busy /\ command' = "start"
    /\ UNCHANGED <<diskVars, listed, reading, reads, recording, mine, deletes, dialog>>
StopRecording ==
    /\ recording /\ ~busy /\ command' = "stop"
    /\ UNCHANGED <<diskVars, listed, reading, reads, recording, mine, deletes, dialog>>
CommandAnswered ==
    /\ command \in {"started", "stop"} /\ command' = "reload"
    /\ recording' = (command = "started")
    /\ Reload("command")
    /\ UNCHANGED <<diskVars, listed, mine, deletes, dialog>>
CommandFails ==
    /\ command \in {"start", "started", "stop"} /\ command' = "none"
    /\ UNCHANGED <<diskVars, listed, reading, reads, recording, mine, deletes, dialog>>

\* The rows that the filters leave; one for a channel that the store does not
\* have lets everything pass.  The filters are the user's choice at any time:
\* nothing depends on them but which rows can be clicked.
Filters == [FilterName -> Mark \cup {Unset}]
Centre(n) == n % 2
Passes(n, filters, known) ==
    /\ filters["from"] # Unset => n >= filters["from"]
    /\ filters["to"] # Unset => n <= filters["to"]
    /\ filters["low"] # Unset => Centre(n) >= filters["low"]
    /\ filters["high"] # Unset => Centre(n) <= filters["high"]
    /\ filters["channel"] \in known => Centre(n) = Centre(filters["channel"])
FilteredList(filters, known) == {n \in listed : Passes(n, filters, known)}

RefreshButton ==
    /\ ~reading /\ Reload("page")
    /\ UNCHANGED <<diskVars, listed, recording, command, mine, deletes, dialog>>

\* Inspect and Delete of a row.
RowButtons ==
    /\ dialog = NoDialog
    /\ \E n \in UNION {FilteredList(filters, known) : filters \in Filters, known \in SUBSET Mark} :
           \E is \in {"delete", "inspect"} : dialog' = [is |-> is, rec |-> n]
    /\ UNCHANGED <<diskVars, listed, reading, reads, recording, command, mine, deletes>>

\* confirmDelete(), and what it does with the answer; one DELETE of a
\* recording at a time.
ConfirmDelete ==
    /\ dialog.is = "delete" /\ deletes[dialog.rec] = "none"
    /\ deletes' = [deletes EXCEPT ![dialog.rec] = "asked"] /\ dialog' = NoDialog
    /\ UNCHANGED <<diskVars, listed, reading, reads, recording, command, mine>>
Deleted(n) ==
    /\ deletes[n] = "deleted"
    /\ listed' \in {listed, listed \ {n}}
    /\ deletes' = [deletes EXCEPT ![n] = "none"]
    /\ UNCHANGED <<diskVars, reading, reads, recording, command, mine, dialog>>
DeleteFails(n) ==
    /\ deletes[n] = "asked" /\ deletes' = [deletes EXCEPT ![n] = "none"]
    /\ UNCHANGED <<diskVars, listed, reading, reads, recording, command, mine, dialog>>
CloseDialog ==
    /\ dialog # NoDialog /\ dialog' = NoDialog
    /\ UNCHANGED <<diskVars, listed, reading, reads, recording, command, mine, deletes>>

RecordingsNext ==
    \/ StartRecording \/ StopRecording \/ CommandAnswered \/ CommandFails
    \/ RefreshButton \/ RowButtons \/ ConfirmDelete \/ CloseDialog
    \/ \E r \in Reader : ListArrives(r) \/ Reloaded(r)
    \/ \E n \in Rec : Creates(n) \/ Unlink(n) \/ DeleteRow(n) \/ Deleted(n) \/ DeleteFails(n)
    \/ ScanCaptures \/ StartArrives \/ ClearRows \/ ClearFiles

-----------------------------------------------------------------------------
(* Properties.                                                              *)

\* Whatever captures, deletions, evictions and clears overlap, a file on the
\* disk can be seen and deleted on the page: it has a row, or will have one,
\* unless inserting the row failed.  The other way round is not so: the
\* storage cap and a clear take files whose rows are there or come later.
NothingOrphaned == files \subseteq rows \cup writing \cup unlisted \/ clearing
=============================================================================
