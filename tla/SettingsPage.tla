---------------------------- MODULE SettingsPage ----------------------------
(***************************************************************************)
(* The form of the Settings page (frontend/src/pages/Settings.tsx) with    *)
(* the configuration in the store and the one in the server: broadcasts of *)
(* other clients, and the PUT of this one, which is checked, overtaken or  *)
(* lost, and is answered with what is in force by then.  Which texts are   *)
(* accepted is SettingsValidation's subject: here a field is good, or      *)
(* BadText.  How an update comes into force is ConfigUpdates's subject:    *)
(* here it does so in one step.                                            *)
(*                                                                         *)
(* An operator named Bug... is a wrong variant of the operator after it,   *)
(* which no specification uses.                                            *)
(***************************************************************************)
EXTENDS Integers, Sequences

CONSTANTS SField, SValue, BadText, NoForm,
          PpmField,       \* the field the calibration fills
          Suggested,      \* what the server may measure for it
          PresetField,    \* the fields of a preset
          ReceiverField,  \* the fields the server sets to the receiver it has opened
          MaxSaves        \* bound on the versions of the configuration

ASSUME SettingsAssumption ==
    /\ PpmField \in SField \ PresetField /\ PresetField \cup ReceiverField \subseteq SField
    /\ SValue # {} /\ Suggested \subseteq SValue /\ BadText \notin SValue
    /\ NoForm \notin [SField -> SValue \cup {BadText}]
    /\ MaxSaves \in Nat \ {0}

VARIABLES
    log,       \* the configuration of each version, the last one in force
    heard,     \* the last config message that reached this client
    version,   \* configVersion in the store
    operator,  \* isOperator() of the store
    form,
    edited,    \* history: the fields changed here since the form was loaded
    put,       \* the PUT in flight, while saving
    conflict,  \* conflictVersion is set
    suggested  \* calResult, or that it is being measured

settingsVars == <<log, heard, version, operator, form, edited, put, conflict, suggested>>

SConfig == [SField -> SValue]
Form == [SField -> SValue \cup {BadText}]
NoPut == [at |-> "none"]
Nothing == [at |-> "none"]
Suggestion == {Nothing, [at |-> "measuring"]} \cup [at : {"measured"}, ppm : Suggested]
Refusal == {"conflict", "refused", "failed"}

config == log[version]
saving == put # NoPut
disabled == ~operator \/ saving

SettingsTypeOK ==
    /\ log \in UNION {[1 .. n -> SConfig] : n \in 1 .. MaxSaves}
    /\ {heard, version} \subseteq 1 .. Len(log)
    /\ operator \in BOOLEAN /\ conflict \in BOOLEAN
    /\ form \in Form \cup {NoForm}
    /\ edited \subseteq SField
    /\ put \in {NoPut} \cup [at : {"sent"}, update : SConfig, version : 1 .. MaxSaves]
                  \cup [at : {"accepted"}, update : SConfig]
                  \cup [at : {"applied"}, made : 1 .. MaxSaves]
                  \cup [at : {"saved"}, made : 1 .. MaxSaves, version : 1 .. MaxSaves]
                  \cup [at : Refusal]
    /\ suggested \in Suggestion

\* The configuration that is in force at first: one value of a field is as
\* good as another.
Initially == CHOOSE c \in SConfig : TRUE

SettingsClosed ==
    /\ log = <<Initially>> /\ heard = 1 /\ version = 1
    /\ operator = FALSE
    /\ form = NoForm /\ edited = {}
    /\ put = NoPut /\ conflict = FALSE /\ suggested = Nothing

SettingsMount(f) ==
    /\ log' = <<Initially>> /\ heard' = 1 /\ version' = 1
    /\ operator' = FALSE
    /\ form' = f /\ edited' = {}
    /\ put' = NoPut /\ conflict' = FALSE /\ suggested' = Nothing

\* The page is opened: the form is loaded when the store has a configuration.
SettingsOpens == SettingsMount(Initially) \/ SettingsMount(NoForm)
SettingsCloses == SettingsMount(NoForm)

-----------------------------------------------------------------------------
(* What others do.                                                          *)

\* Another client, or another tab of this one, changes a field.
OtherSaves(f, v) ==
    /\ Len(log) < MaxSaves
    /\ log' = Append(log, [log[Len(log)] EXCEPT ![f] = v])
    /\ UNCHANGED <<heard, version, operator, form, edited, put, conflict, suggested>>

BugConfigArrives ==
    /\ heard < Len(log)
    /\ heard' = heard + 1 /\ version' = heard + 1
    /\ form' = log[heard + 1]
    /\ UNCHANGED <<log, operator, edited, put, conflict, suggested>>

\* A config message, and the effect that loads it into an empty form only.
ConfigArrives ==
    /\ heard < Len(log)
    /\ heard' = heard + 1 /\ version' = heard + 1
    /\ form' = IF form = NoForm THEN log[heard + 1] ELSE form
    /\ UNCHANGED <<log, operator, edited, put, conflict, suggested>>

\* The effect of the configuration that was in the store.
FormLoads ==
    /\ form = NoForm
    /\ form' = config
    /\ UNCHANGED <<log, heard, version, operator, edited, put, conflict, suggested>>

\* A control message names the operator.
ControlArrives ==
    /\ operator' \in BOOLEAN
    /\ UNCHANGED <<log, heard, version, form, edited, put, conflict, suggested>>

\* acquire() and release() of the ControlLeaseBar are answered, perhaps late:
\* another button may be shown by then.
LeaseAnswered(acquire) ==
    /\ operator' = acquire
    /\ UNCHANGED <<log, heard, version, form, edited, put, conflict, suggested>>

-----------------------------------------------------------------------------
(* What the user does.                                                      *)

\* set() and setBool() behind the inputs, which are disabled.
EditField(f, t) ==
    /\ form # NoForm /\ ~disabled
    /\ form' = [form EXCEPT ![f] = t]
    /\ edited' = edited \cup {f}
    /\ UNCHANGED <<log, heard, version, operator, put, conflict, suggested>>

ApplyPreset(v) ==
    /\ form # NoForm /\ ~disabled
    /\ form' = [f \in SField |-> IF f \in PresetField THEN v ELSE form[f]]
    /\ edited' = edited \cup PresetField
    /\ UNCHANGED <<log, heard, version, operator, put, conflict, suggested>>

\* measureCalibration(), which shows what the server has found, if anything.
MeasureCalibration ==
    /\ form # NoForm /\ suggested.at # "measuring"
    /\ suggested' = [at |-> "measuring"]
    /\ UNCHANGED <<log, heard, version, operator, form, edited, put, conflict>>

CalibrationMeasured ==
    /\ suggested.at = "measuring"
    /\ suggested' \in Suggestion \ {[at |-> "measuring"]}
    /\ UNCHANGED <<log, heard, version, operator, form, edited, put, conflict>>

\* The button is not disabled while saving.
ApplySuggestedPpm ==
    /\ form # NoForm /\ operator
    /\ suggested.at = "measured"
    /\ form' = [form EXCEPT ![PpmField] = suggested.ppm]
    /\ edited' = edited \cup {PpmField}
    /\ UNCHANGED <<log, heard, version, operator, put, conflict, suggested>>

\* reset(), behind the Reset button and, under a conflict, Reload latest.
Reset ==
    /\ form # NoForm
    /\ form' = config /\ edited' = {} /\ conflict' = FALSE
    /\ UNCHANGED <<log, heard, version, operator, put, suggested>>

\* save() of a form without errors: every field goes with the version the
\* store has now.
Save ==
    /\ form # NoForm /\ ~disabled
    /\ form \in SConfig
    /\ put' = [at |-> "sent", update |-> form, version |-> version]
    /\ UNCHANGED <<log, heard, version, operator, form, edited, conflict, suggested>>

\* PUT /api/config at the server: the version is compared, unless the lease is
\* gone, and the update waits for the scan to stop.
PutAccepted ==
    /\ put.at = "sent" /\ put.version = Len(log)
    /\ put' = [at |-> "accepted", update |-> put.update]
    /\ UNCHANGED <<log, heard, version, operator, form, edited, conflict, suggested>>

PutRejected ==
    /\ put.at = "sent"
    /\ put' \in [at : IF put.version # Len(log) THEN Refusal ELSE {"refused", "failed"}]
    /\ UNCHANGED <<log, heard, version, operator, form, edited, conflict, suggested>>

\* What a configuration becomes when its receiver is opened: what was asked
\* for, or, with the simulator in its place, what there is.
Reconciled(c) ==
    {c} \cup {[f \in SField |-> IF f \in ReceiverField THEN v ELSE c[f]] : v \in SValue}

PutApplied ==
    /\ put.at = "accepted" /\ Len(log) < MaxSaves
    /\ \E c \in Reconciled(put.update) : log' = Append(log, c)
    /\ put' = [at |-> "applied", made |-> Len(log) + 1]
    /\ UNCHANGED <<heard, version, operator, form, edited, conflict, suggested>>

\* The answer is the configuration in force when the update is done, its own
\* or a later one.
PutAnswered ==
    /\ put.at = "applied"
    /\ put' = [at |-> "saved", made |-> put.made, version |-> Len(log)]
    /\ UNCHANGED <<log, heard, version, operator, form, edited, conflict, suggested>>

\* The update fails, before or after it is in force, or its answer is lost.
PutFails ==
    /\ put.at \in {"accepted", "applied"}
    /\ put' = [at |-> "failed"]
    /\ UNCHANGED <<log, heard, version, operator, form, edited, conflict, suggested>>

\* The result replaces the configuration in the store and the form.
Saved ==
    /\ put.at = "saved"
    /\ put' = NoPut
    /\ version' = put.version
    /\ form' = log[put.version] /\ edited' = {}
    /\ conflict' = FALSE
    /\ UNCHANGED <<log, heard, operator, suggested>>

\* 409 offers to reload; every other refusal leaves a message.
NotSaved ==
    /\ put.at \in Refusal
    /\ put' = NoPut
    /\ conflict' = (conflict \/ put.at = "conflict")
    /\ UNCHANGED <<log, heard, version, operator, form, edited, suggested>>

\* The parts of the page.
Inputs == \E f \in SField, t \in SValue \cup {BadText} : EditField(f, t)
Presets == \E v \in SValue : ApplyPreset(v)
ReloadLatest == conflict /\ Reset
Buttons == (~saving /\ Reset) \/ Save
Calibration == MeasureCalibration \/ ApplySuggestedPpm

FormUser == Inputs \/ Presets \/ ReloadLatest \/ Buttons \/ Calibration

SettingsNext ==
    \/ \E f \in SField, v \in SValue : OtherSaves(f, v)
    \/ ConfigArrives \/ FormLoads \/ ControlArrives
    \/ LeaseAnswered(TRUE) \/ LeaseAnswered(FALSE)
    \/ FormUser \/ CalibrationMeasured
    \/ PutAccepted \/ PutRejected \/ PutApplied \/ PutAnswered \/ PutFails
    \/ Saved \/ NotSaved

-----------------------------------------------------------------------------
(* Properties.                                                              *)

\* The answer may bring this field back altered: the server has set it to the
\* receiver it has opened, or the ppm was typed while the form was saved, since
\* "Apply suggested ppm" stays enabled.
Altered == ReceiverField \cup {PpmField}

\* "don't clobber unsaved edits after that" (Settings.tsx:98): a field that
\* was changed here keeps its text whatever others save and whatever becomes of
\* a PUT, until the user changes or resets it, or his own PUT is answered.
\* Then, too, the text stays, but for the fields of Altered and for an answer
\* that another update has overtaken, which fills the form with that one's.
EditsSurvive ==
    [][form' # NoForm =>
           \A f \in edited : form'[f] # form[f] =>
               FormUser \/ (Saved /\ (f \in Altered \/ put.version # put.made))]_settingsVars
=============================================================================
