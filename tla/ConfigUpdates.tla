--------------------------- MODULE ConfigUpdates ---------------------------
(***************************************************************************)
(* The configuration of the scan: PUT /api/config (backend/app/api/        *)
(* config.py) and ScanManager.update_config with the reopening of the      *)
(* receiver (backend/app/services/scan_manager.py), for several requests   *)
(* of the operator at once.  An action is the code from one await to the   *)
(* next.  An update is known by the fields in which it differs from the    *)
(* configuration it was made for.  The scan itself is ScanLifecycle's      *)
(* subject: here a stop is awaited or not, whichever it would be.          *)
(*                                                                         *)
(* An operator named Bug... is a wrong variant of the operator after it,   *)
(* which no specification uses.                                            *)
(***************************************************************************)
EXTENDS Integers, FiniteSetsExt

CONSTANTS Put,          \* PUT requests in progress
          Field,        \* fields of ScanConfig
          TuneField,    \* those that need the scan stopped
          DeviceField,  \* those that reopen the receiver
          Value,
          Default,      \* the value of each field in the settings
          Simulator,    \* what a device field becomes when the receiver is missing
          MaxVersion    \* bound on _version

ASSUME ConfigAssumption ==
    /\ DeviceField \subseteq TuneField /\ TuneField \subseteq Field
    /\ Default \in Value /\ Simulator \in Value
    /\ MaxVersion \in Nat \ {0}

Config == [Field -> Value]

VARIABLES
    config,     \* _config
    version,    \* _version
    rows,       \* the versions in the receiver_config table
    pc,         \* where each request is
    merged,     \* new_config of each request
    changing,   \* the fields in which it differs from prev
    saving,     \* the version it is saving
    announced,  \* the last config broadcast, or the hello after a restart
    broken,     \* history: an update failed after it was applied
    asked       \* history: each field as the last applied update wanted it

vars == <<config, version, rows, pc, merged, changing, saving, announced, broken, asked>>

\* "stopping" awaits stop_scan(), "reopening" the stop in
\* _reconfigure_backend(), "opened" the events of _activate_selection(),
\* "recording" and "saving" the two tables, "emitting" the event that
\* precedes the broadcast.
Label == {"idle", "stopping", "reopening", "opened", "recording", "saving", "emitting"}

TypeOK ==
    /\ config \in Config /\ version \in 1 .. MaxVersion
    /\ rows \subseteq 1 .. MaxVersion
    /\ pc \in [Put -> Label]
    /\ merged \in [Put -> Config]
    /\ changing \in [Put -> SUBSET Field]
    /\ saving \in [Put -> 0 .. MaxVersion]
    /\ announced \in [config : Config, version : 1 .. MaxVersion]
    /\ broken \in BOOLEAN
    /\ asked \in Config

Settings == [f \in Field |-> Default]
Current == [config |-> config, version |-> version]

Init ==
    /\ config = Settings /\ version = 1
    /\ rows = {}
    /\ pc = [r \in Put |-> "idle"]
    /\ merged = [r \in Put |-> Settings]
    /\ changing = [r \in Put |-> {}]
    /\ saving = [r \in Put |-> 0]
    /\ announced = Current
    /\ broken = FALSE
    /\ asked = Settings

Goto(r, l) == pc' = [pc EXCEPT ![r] = l]

\* _activate_selection() puts the receiver it got into the configuration: the
\* one asked for, or the simulator.
Reconciled(c) == {c, [f \in Field |-> IF f \in DeviceField THEN Simulator ELSE c[f]]}
Activate(c, a) ==
    \E d \in Reconciled(c) :
        /\ config' = d
        /\ asked' = [f \in Field |-> IF f \in DeviceField THEN d[f] ELSE a[f]]

-----------------------------------------------------------------------------
(* update_config().                                                         *)

\* An update of the fields fs takes effect, and its next await is reached.
BugApply(r, fs, new) ==
    /\ version < MaxVersion
    /\ version' = version + 1
    /\ LET wanted == [f \in Field |-> IF f \in fs THEN new[f] ELSE asked[f]]
       IN  \/ /\ fs \cap DeviceField = {}
              /\ config' = new /\ asked' = wanted
              /\ Goto(r, IF fs \cap TuneField = {} THEN "emitting" ELSE "recording")
           \/ /\ fs \cap DeviceField # {}
              /\ \/ config' = new /\ asked' = wanted /\ Goto(r, "reopening")
                 \/ Activate(new, wanted) /\ Goto(r, "opened")

Apply(r, fs, new) ==
    /\ version < MaxVersion
    /\ version' = version + 1
    /\ LET wanted == [f \in Field |-> IF f \in fs THEN new[f] ELSE asked[f]]
       IN  \/ /\ fs \cap DeviceField = {}
              /\ config' = new /\ asked' = wanted /\ Goto(r, "recording")
           \/ /\ fs \cap DeviceField # {}
              /\ \/ config' = new /\ asked' = wanted /\ Goto(r, "reopening")
                 \/ Activate(new, wanted) /\ Goto(r, "opened")

\* A request that gives the current version is accepted; others are answered
\* 409.  It either goes on at once or first stops the scan.
PutConfig(r) ==
    /\ pc[r] = "idle"
    /\ \E new \in Config \ {config} :
         LET fs == {f \in Field : new[f] # config[f]}
         IN  \/ Apply(r, fs, new) /\ UNCHANGED <<merged, changing>>
             \/ /\ fs \cap TuneField # {}
                /\ merged' = [merged EXCEPT ![r] = new]
                /\ changing' = [changing EXCEPT ![r] = fs]
                /\ Goto(r, "stopping")
                /\ UNCHANGED <<config, version, asked>>
    /\ UNCHANGED <<rows, saving, announced, broken>>

Stopped(r) ==
    /\ pc[r] = "stopping"
    /\ Apply(r, changing[r], merged[r])
    /\ merged' = [merged EXCEPT ![r] = Settings]
    /\ changing' = [changing EXCEPT ![r] = {}]
    /\ UNCHANGED <<rows, saving, announced, broken>>

\* The rest of _reconfigure_backend(), on the configuration of now.
Reopened(r) ==
    /\ pc[r] = "reopening"
    /\ Activate(config, asked)
    /\ Goto(r, "opened")
    /\ UNCHANGED <<version, rows, merged, changing, saving, announced, broken>>

OpenedEvents(r) ==
    /\ pc[r] = "opened"
    /\ Goto(r, "recording")
    /\ UNCHANGED <<config, version, rows, merged, changing, saving, announced, broken, asked>>

\* config_changes has its row; receiver_config gets one of the version of now.
BugRecorded(r) ==
    /\ pc[r] = "recording"
    /\ saving' = [saving EXCEPT ![r] = version + 1]
    /\ Goto(r, "saving")
    /\ UNCHANGED <<config, version, rows, merged, changing, announced, broken, asked>>

Recorded(r) ==
    /\ pc[r] = "recording"
    /\ saving' = [saving EXCEPT ![r] = version]
    /\ Goto(r, "saving")
    /\ UNCHANGED <<config, version, rows, merged, changing, announced, broken, asked>>

Saved(r) ==
    /\ pc[r] = "saving"
    /\ rows' = rows \cup {saving[r]}
    /\ Goto(r, "emitting")
    /\ UNCHANGED <<config, version, merged, changing, saving, announced, broken, asked>>

\* Forget what a request that is over worked on.
Over(r) ==
    /\ Goto(r, "idle")
    /\ merged' = [merged EXCEPT ![r] = Settings]
    /\ changing' = [changing EXCEPT ![r] = {}]
    /\ saving' = [saving EXCEPT ![r] = 0]

\* broadcast_config() sends the configuration and the version of now; the bug
\* sends the version that this request saved.
BugAnnounce(r) ==
    /\ pc[r] = "emitting"
    /\ announced' = [config |-> config, version |-> saving[r]]
    /\ Over(r)
    /\ UNCHANGED <<config, version, rows, broken, asked>>

Announce(r) ==
    /\ pc[r] = "emitting"
    /\ announced' = Current
    /\ Over(r)
    /\ UNCHANGED <<config, version, rows, broken, asked>>

\* Any of the awaits raises.
Fail(r) ==
    /\ pc[r] # "idle"
    /\ broken' = (broken \/ pc[r] # "stopping")
    /\ Over(r)
    /\ UNCHANGED <<config, version, rows, announced, asked>>

\* The process dies and starts again: startup() reads back the last version,
\* the configuration is that of the settings.
LastSaved == IF rows = {} THEN 1 ELSE Max(rows)

Restart ==
    /\ Activate(Settings, Settings)
    /\ version' = LastSaved
    /\ announced' = Current'
    /\ pc' = [r \in Put |-> "idle"]
    /\ merged' = [r \in Put |-> Settings]
    /\ changing' = [r \in Put |-> {}]
    /\ saving' = [r \in Put |-> 0]
    /\ broken' = FALSE
    /\ UNCHANGED rows

Next ==
    \/ \E r \in Put : PutConfig(r) \/ Stopped(r) \/ Reopened(r) \/ OpenedEvents(r) \/ Recorded(r)
                      \/ Saved(r) \/ Announce(r) \/ Fail(r)
    \/ Restart

Spec == Init /\ [][Next]_vars

-----------------------------------------------------------------------------
(* Properties.                                                              *)

\* No request is between taking effect and its broadcast.
Quiet == \A r \in Put : pc[r] \in {"idle", "stopping"}

\* However updates overlap, and whatever receiver was found, clients end up
\* with the configuration and the version in force (update_config broadcasts
\* after up to five awaits, during which others change both).
AnnouncedIsCurrent == Quiet /\ ~broken => announced = Current

\* A restart finds the version that was in force: no version number that
\* clients know is given to another update, unless an update failed half-way.
VersionSurvives == rows \subseteq 1 .. version /\ (Quiet /\ ~broken => LastSaved = version)

\* Every field has the value that the last applied update of that field gave
\* it: the version check keeps an update from undoing another one.
NoLostUpdate == config = asked
=============================================================================
