------------------------ MODULE ConfigUpdatesProofs ------------------------
(***************************************************************************)
(* What ConfigUpdates keeps for any number of overlapping requests, fields *)
(* and values.                                                             *)
(***************************************************************************)
EXTENDS ConfigUpdates, TLAPS

USE ConfigAssumption

-----------------------------------------------------------------------------
(* Types.                                                                   *)

LEMMA SettingsType == Settings \in Config /\ Reconciled(Settings) \subseteq Config
BY DEF Settings, Config, Reconciled

LEMMA ActivateType ==
  ASSUME NEW c \in Config, NEW a \in Config, Activate(c, a)
  PROVE  config' \in Config /\ asked' \in Config
BY DEF Activate, Reconciled, Config

LEMMA ApplyType ==
  ASSUME TypeOK, NEW r \in Put, NEW fs \in SUBSET Field, NEW new \in Config, Apply(r, fs, new)
  PROVE  /\ config' \in Config /\ asked' \in Config
         /\ version' \in 1 .. MaxVersion /\ version' = version + 1
         /\ \E l \in {"reopening", "opened", "recording"} : Goto(r, l)
<1> DEFINE wanted == [f \in Field |-> IF f \in fs THEN new[f] ELSE asked[f]]
<1>1. wanted \in Config
    BY DEF TypeOK, Config
<1>2. version' \in 1 .. MaxVersion /\ version' = version + 1
    BY DEF TypeOK, Apply
<1>3. \/ config' = new /\ asked' = wanted
      \/ Activate(new, wanted)
    BY DEF Apply
<1>4. config' \in Config /\ asked' \in Config
    BY <1>1, <1>3, ActivateType
<1>5. \E l \in {"reopening", "opened", "recording"} : Goto(r, l)
    BY DEF Apply
<1> QED
    BY <1>2, <1>4, <1>5

LEMMA GotoType ==
  ASSUME TypeOK, NEW r \in Put, NEW l \in Label, Goto(r, l)
  PROVE  pc' \in [Put -> Label] /\ pc'[r] = l /\ \A s \in Put \ {r} : pc'[s] = pc[s]
BY DEF TypeOK, Goto

Announced == [config : Config, version : 1 .. MaxVersion]

LEMMA InitType == Init => TypeOK
<1> SUFFICES ASSUME Init PROVE TypeOK
    OBVIOUS
<1>1. config \in Config /\ asked \in Config /\ version \in 1 .. MaxVersion /\ rows = {}
    BY SettingsType DEF Init
<1>2. announced \in Announced
    BY <1>1 DEF Init, Current, Announced
<1>3. pc \in [Put -> Label] /\ broken \in BOOLEAN
    BY DEF Init, Label
<1>4. /\ merged \in [Put -> Config] /\ changing \in [Put -> SUBSET Field]
      /\ saving \in [Put -> 0 .. MaxVersion]
    BY SettingsType DEF Init
<1> QED
    BY <1>1, <1>2, <1>3, <1>4 DEF TypeOK, Announced

\* The requests whose update has taken effect and is not announced yet.
Working == {"reopening", "opened", "recording", "saving", "emitting"}

InForce == 1 .. version

SavingInForce == \A r \in Put : pc[r] = "saving" => saving[r] \in InForce

\* The table has a greatest version.
HasLast == rows = {} \/ \E m \in rows : \A n \in rows : n <= m

LEMMA LastIs ==
  ASSUME NEW m \in rows, \A n \in rows : n <= m, rows \subseteq Nat
  PROVE  LastSaved = m /\ Max(rows) = m
<1>1. \A y \in rows : m >= y
    OBVIOUS
<1>2. Max(rows) \in rows /\ \A y \in rows : Max(rows) >= y
    BY <1>1 DEF Max
<1>3. m \in Nat /\ Max(rows) \in Nat /\ Max(rows) >= m /\ Max(rows) <= m
    BY <1>2
<1>4. Max(rows) = m
    BY <1>3
<1> QED
    BY <1>4 DEF LastSaved

\* The version in force has its row, or a request that will write it.
Kept ==
    \/ broken
    \/ version \in rows
    \/ version = 1 /\ rows = {}
    \/ \E r \in Put : \/ pc[r] \in {"reopening", "opened", "recording"}
                      \/ pc[r] = "saving" /\ saving[r] = version

LEMMA PutType ==
  ASSUME TypeOK, NEW r \in Put, PutConfig(r)
  PROVE  TypeOK'
<1>1. PICK new \in Config :
        LET fs == {f \in Field : new[f] # config[f]}
        IN  \/ Apply(r, fs, new) /\ UNCHANGED <<merged, changing>>
            \/ /\ fs \cap TuneField # {}
               /\ merged' = [merged EXCEPT ![r] = new]
               /\ changing' = [changing EXCEPT ![r] = fs]
               /\ Goto(r, "stopping")
               /\ UNCHANGED <<config, version, asked>>
    BY DEF PutConfig
<1> DEFINE fs == {f \in Field : new[f] # config[f]}
<1>2. UNCHANGED <<rows, saving, announced, broken>>
    BY DEF PutConfig
<1>3. CASE Apply(r, fs, new) /\ UNCHANGED <<merged, changing>>
  <2>1. PICK l \in {"reopening", "opened", "recording"} : Goto(r, l)
      BY <1>3, ApplyType
  <2>2. pc' \in [Put -> Label]
      BY <2>1, GotoType DEF Label
  <2> QED
      BY <1>2, <1>3, <2>2, ApplyType DEF TypeOK
<1>4. CASE /\ merged' = [merged EXCEPT ![r] = new]
           /\ changing' = [changing EXCEPT ![r] = fs]
           /\ Goto(r, "stopping")
           /\ UNCHANGED <<config, version, asked>>
  <2>1. pc' \in [Put -> Label]
      BY <1>4, GotoType DEF Label
  <2> QED
      BY <1>2, <1>4, <2>1 DEF TypeOK
<1> QED
    BY <1>1, <1>3, <1>4

LEMMA StoppedType ==
  ASSUME TypeOK, NEW r \in Put, Stopped(r)
  PROVE  TypeOK'
<1>1. changing[r] \in SUBSET Field /\ merged[r] \in Config /\ Apply(r, changing[r], merged[r])
    BY DEF TypeOK, Stopped
<1>2. PICK l \in {"reopening", "opened", "recording"} : Goto(r, l)
    BY <1>1, ApplyType
<1>3. pc' \in [Put -> Label]
    BY <1>2, GotoType DEF Label
<1>4. config' \in Config /\ asked' \in Config /\ version' \in 1 .. MaxVersion
    BY <1>1, ApplyType
<1> QED
    BY <1>3, <1>4, SettingsType DEF TypeOK, Stopped

LEMMA StepType ==
  ASSUME TypeOK, SavingInForce, NEW r \in Put,
         Reopened(r) \/ OpenedEvents(r) \/ Recorded(r) \/ Saved(r) \/ Announce(r) \/ Fail(r)
  PROVE  TypeOK'
<1>1. pc' \in [Put -> Label]
    BY GotoType DEF Reopened, OpenedEvents, Recorded, Saved, Announce, Fail, Over, Label
<1>2. config' \in Config /\ asked' \in Config
    BY ActivateType DEF TypeOK, Reopened, OpenedEvents, Recorded, Saved, Announce, Fail
<1>3. /\ UNCHANGED version
      /\ merged' \in [Put -> Config] /\ changing' \in [Put -> SUBSET Field]
    BY SettingsType DEF TypeOK, Reopened, OpenedEvents, Recorded, Saved, Announce, Fail, Over
<1>4. saving' \in [Put -> 0 .. MaxVersion]
    BY DEF TypeOK, Reopened, OpenedEvents, Recorded, Saved, Announce, Fail, Over
<1>5. announced' \in Announced /\ broken' \in BOOLEAN
  <2>1. Current \in Announced
      BY DEF TypeOK, Current, Announced
  <2>2. announced' \in {announced, Current}
      BY DEF Reopened, OpenedEvents, Recorded, Saved, Announce, Fail
  <2>3. announced' \in Announced
      BY <2>1, <2>2 DEF TypeOK, Announced
  <2>4. broken' \in BOOLEAN
      BY DEF TypeOK, Reopened, OpenedEvents, Recorded, Saved, Announce, Fail
  <2> QED
      BY <2>3, <2>4
<1>6. rows' \subseteq 1 .. MaxVersion
  <2>1. CASE Saved(r)
    <3>1. saving[r] \in 1 .. MaxVersion
        BY <2>1 DEF Saved, TypeOK, SavingInForce, InForce
    <3> QED
        BY <2>1, <3>1 DEF Saved, TypeOK
  <2>2. CASE ~Saved(r)
      BY <2>2 DEF TypeOK, Reopened, OpenedEvents, Recorded, Announce, Fail
  <2> QED
      BY <2>1, <2>2
<1> QED
    BY <1>1, <1>2, <1>3, <1>4, <1>5, <1>6 DEF TypeOK, Announced

LEMMA RestartType ==
  ASSUME TypeOK, HasLast, Restart
  PROVE  TypeOK'
<1>1. Settings \in Config /\ config' \in Config /\ asked' \in Config
    BY SettingsType, ActivateType DEF Restart
<1>2. LastSaved \in 1 .. MaxVersion
    BY LastIs DEF TypeOK, LastSaved, HasLast
<1>3. version' \in 1 .. MaxVersion
    BY <1>2 DEF Restart
<1>4. announced' \in Announced
    BY <1>1, <1>3 DEF Restart, Current, Announced
<1>5. pc' \in [Put -> Label] /\ rows' \subseteq 1 .. MaxVersion /\ broken' \in BOOLEAN
    BY DEF TypeOK, Restart, Label
<1>6. /\ merged' \in [Put -> Config] /\ changing' \in [Put -> SUBSET Field]
      /\ saving' \in [Put -> 0 .. MaxVersion]
    BY <1>1 DEF Restart
<1> QED
    BY <1>1, <1>3, <1>4, <1>5, <1>6 DEF TypeOK, Announced

LEMMA NextType ==
  ASSUME TypeOK, SavingInForce, HasLast, [Next]_vars
  PROVE  TypeOK'
<1>1. CASE UNCHANGED vars
    BY <1>1 DEF vars, TypeOK
<1> QED
    BY <1>1, PutType, StoppedType, StepType, RestartType DEF Next

-----------------------------------------------------------------------------
(* The rows.                                                                *)

RowsInv == SavingInForce /\ HasLast /\ rows \subseteq InForce /\ Kept

LEMMA InitRows == Init => RowsInv
BY DEF Init, RowsInv, SavingInForce, HasLast, Kept, InForce

\* An update that takes effect is one that still has its row to write.
LEMMA ApplyRows ==
  ASSUME TypeOK, RowsInv, NEW r \in Put, NEW fs \in SUBSET Field, NEW new \in Config,
         Apply(r, fs, new), UNCHANGED <<rows, saving>>
  PROVE  RowsInv'
<1>1. version' = version + 1 /\ version \in Nat /\ InForce' = 1 .. (version + 1)
    BY ApplyType DEF TypeOK, InForce
<1>2. PICK l \in {"reopening", "opened", "recording"} : Goto(r, l)
    BY ApplyType
<1>3. pc'[r] = l /\ \A s \in Put \ {r} : pc'[s] = pc[s]
    BY <1>2, GotoType DEF Label
<1>4. SavingInForce'
    BY <1>1, <1>3 DEF RowsInv, SavingInForce, InForce
<1>5. HasLast' /\ (rows \subseteq InForce)'
    BY <1>1 DEF RowsInv, HasLast, InForce
<1>6. Kept'
    BY <1>3 DEF Kept
<1> QED
    BY <1>4, <1>5, <1>6 DEF RowsInv

LEMMA PutRows ==
  ASSUME TypeOK, RowsInv, NEW r \in Put, PutConfig(r)
  PROVE  RowsInv'
<1>1. UNCHANGED <<rows, saving, broken>> /\ pc[r] = "idle"
    BY DEF PutConfig
<1>2. CASE \E new \in Config, fs \in SUBSET Field : Apply(r, fs, new)
    BY <1>1, <1>2, ApplyRows
<1>3. CASE UNCHANGED version /\ Goto(r, "stopping")
  <2>1. pc'[r] = "stopping" /\ \A s \in Put \ {r} : pc'[s] = pc[s]
      BY <1>3, GotoType DEF Label
  <2> QED
      BY <1>1, <1>3, <2>1 DEF RowsInv, SavingInForce, HasLast, Kept, InForce
<1> QED
    BY <1>2, <1>3 DEF PutConfig

LEMMA StepRows ==
  ASSUME TypeOK, RowsInv, NEW r \in Put,
         Reopened(r) \/ OpenedEvents(r) \/ Announce(r) \/ Fail(r)
  PROVE  RowsInv'
<1>1. PICK l \in {"opened", "recording", "idle"} : Goto(r, l)
    BY DEF Reopened, OpenedEvents, Announce, Fail, Over
<1>2. pc'[r] = l /\ \A s \in Put \ {r} : pc'[s] = pc[s]
    BY <1>1, GotoType DEF Label
<1>3. /\ UNCHANGED <<version, rows>>
      /\ \A s \in Put \ {r} : saving'[s] = saving[s]
    BY DEF TypeOK, Reopened, OpenedEvents, Announce, Fail, Over
<1>4. SavingInForce' /\ HasLast' /\ (rows \subseteq InForce)'
    BY <1>2, <1>3 DEF RowsInv, SavingInForce, HasLast, InForce
<1>5. Kept'
  <2>1. CASE Reopened(r) \/ OpenedEvents(r)
    <3>1. pc'[r] \in {"opened", "recording"}
        BY <2>1, GotoType DEF Reopened, OpenedEvents, Label
    <3> QED
        BY <3>1 DEF Kept
  <2>2. CASE Announce(r)
      BY <1>2, <1>3, <2>2 DEF Announce, RowsInv, Kept
  <2>3. CASE Fail(r)
      BY <1>2, <1>3, <2>3 DEF Fail, RowsInv, Kept
  <2> QED
      BY <2>1, <2>2, <2>3
<1> QED
    BY <1>4, <1>5 DEF RowsInv

LEMMA SavingRows ==
  ASSUME TypeOK, RowsInv, NEW r \in Put, Recorded(r) \/ Saved(r)
  PROVE  RowsInv'
<1>1. /\ UNCHANGED <<version, broken>> /\ InForce' = InForce
      /\ version \in InForce
    BY DEF TypeOK, InForce, Recorded, Saved
<1>2. CASE Recorded(r)
  <2>1. pc'[r] = "saving" /\ \A s \in Put \ {r} : pc'[s] = pc[s]
      BY <1>2, GotoType DEF Recorded, Label
  <2>2. saving'[r] = version /\ \A s \in Put \ {r} : saving'[s] = saving[s]
      BY <1>2 DEF TypeOK, Recorded
  <2> QED
      BY <1>1, <1>2, <2>1, <2>2 DEF Recorded, RowsInv, SavingInForce, HasLast, Kept
<1>3. CASE Saved(r)
  <2>1. pc'[r] = "emitting" /\ \A s \in Put \ {r} : pc'[s] = pc[s]
      BY <1>3, GotoType DEF Saved, Label
  <2>2. saving[r] \in InForce /\ rows' = rows \cup {saving[r]} /\ UNCHANGED saving
      BY <1>3 DEF Saved, RowsInv, SavingInForce
  <2>3. rows \subseteq Nat /\ saving[r] \in Nat
      BY <2>2 DEF RowsInv, InForce, TypeOK
  <2>4. HasLast'
      BY <2>2, <2>3 DEF RowsInv, HasLast
  <2>5. Kept'
    <3>1. CASE broken \/ version \in rows
        BY <1>1, <2>2, <3>1 DEF Kept
    <3>2. CASE version = 1 /\ rows = {}
      <4>1. saving[r] = version
          BY <2>2, <3>2 DEF InForce
      <4> QED
          BY <1>1, <2>2, <4>1 DEF Kept
    <3>3. ASSUME NEW s \in Put,
                 \/ pc[s] \in {"reopening", "opened", "recording"}
                 \/ pc[s] = "saving" /\ saving[s] = version
          PROVE  Kept'
      <4>1. CASE s = r
          BY <1>1, <1>3, <2>2, <3>3, <4>1 DEF Saved, Kept
      <4>2. CASE s # r
          BY <1>1, <2>1, <2>2, <3>3, <4>2 DEF Kept
      <4> QED
          BY <4>1, <4>2
    <3> QED
        BY <3>1, <3>2, <3>3 DEF RowsInv, Kept
  <2> QED
      BY <1>1, <2>1, <2>2, <2>4, <2>5 DEF RowsInv, SavingInForce
<1> QED
    BY <1>2, <1>3

LEMMA RestartRows ==
  ASSUME TypeOK, RowsInv, Restart
  PROVE  RowsInv'
<1>1. \/ rows = {} /\ version' = 1
      \/ version' \in rows /\ \A n \in rows : n <= version'
    BY LastIs DEF Restart, LastSaved, RowsInv, HasLast, TypeOK
<1>2. UNCHANGED rows /\ rows \subseteq Nat \ {0} /\ \A s \in Put : pc'[s] = "idle"
    BY DEF Restart, TypeOK
<1> QED
    BY <1>1, <1>2 DEF RowsInv, SavingInForce, HasLast, Kept, InForce

LEMMA NextRows ==
  ASSUME TypeOK, RowsInv, [Next]_vars
  PROVE  RowsInv'
<1>1. CASE UNCHANGED vars
    BY <1>1 DEF vars, RowsInv, SavingInForce, HasLast, Kept, InForce
<1>2. ASSUME NEW r \in Put, Stopped(r)
      PROVE  RowsInv'
    BY <1>2, ApplyRows DEF Stopped, TypeOK
<1> QED
    BY <1>1, <1>2, PutRows, StepRows, SavingRows, RestartRows DEF Next


\* The variables of ConfigUpdates keep their types; the version stays within
\* its bound because a row that is written is of a version that was in force.
THEOREM TypeCorrect == Spec => []TypeOK
<1>1. Init => TypeOK /\ RowsInv
    BY InitType, InitRows
<1>2. TypeOK /\ RowsInv /\ [Next]_vars => (TypeOK /\ RowsInv)'
    BY NextType, NextRows DEF RowsInv
<1> QED
    BY <1>1, <1>2, PTL DEF Spec

\* The version in force survives a restart when no update is under way and
\* none failed half-way, however updates overlapped (receiver_config.save
\* and startup in scan_manager.py).
THEOREM RestartFindsVersion == Spec => []VersionSurvives
<1>1. Init => TypeOK /\ RowsInv
    BY InitType, InitRows
<1>2. TypeOK /\ RowsInv /\ [Next]_vars => (TypeOK /\ RowsInv)'
    BY NextType, NextRows DEF RowsInv
<1>3. TypeOK /\ RowsInv => VersionSurvives
  <2> SUFFICES ASSUME TypeOK, RowsInv PROVE VersionSurvives
      OBVIOUS
  <2>1. ASSUME Quiet, ~broken
        PROVE  LastSaved = version
    <3>1. version \in rows \/ (version = 1 /\ rows = {})
        BY <2>1 DEF RowsInv, Kept, Quiet
    <3>2. rows \subseteq Nat /\ \A n \in rows : n <= version
        BY DEF RowsInv, InForce, TypeOK
    <3> QED
        BY <3>1, <3>2, LastIs DEF LastSaved
  <2> QED
      BY <2>1 DEF VersionSurvives, RowsInv, InForce
<1> QED
    BY <1>1, <1>2, <1>3, PTL DEF Spec

-----------------------------------------------------------------------------
(* The broadcast.                                                           *)

\* A step that leaves the configuration and the version alone, or leaves a
\* request at work, or an update half-done, does not disturb the broadcast.
LEMMA NextAnnounced ==
  ASSUME TypeOK, AnnouncedIsCurrent, [Next]_vars
  PROVE  AnnouncedIsCurrent'
<1>1. CASE UNCHANGED vars
    BY <1>1 DEF vars, AnnouncedIsCurrent, Quiet, Current
<1>2. ASSUME NEW r \in Put, PutConfig(r)
      PROVE  AnnouncedIsCurrent'
  <2>1. CASE \E l \in {"reopening", "opened", "recording"} : Goto(r, l)
    <3>1. pc'[r] \in {"reopening", "opened", "recording"}
        BY <2>1, GotoType DEF Label
    <3> QED
        BY <3>1 DEF AnnouncedIsCurrent, Quiet
  <2>2. CASE Goto(r, "stopping") /\ UNCHANGED <<config, version>>
    <3>1. Quiet' => Quiet
        BY <1>2, <2>2, GotoType DEF PutConfig, Quiet, Label
    <3> QED
        BY <1>2, <2>2, <3>1 DEF PutConfig, AnnouncedIsCurrent, Current
  <2> QED
      BY <1>2, <2>1, <2>2 DEF PutConfig, Apply
<1>3. ASSUME NEW r \in Put,
             Stopped(r) \/ Reopened(r) \/ OpenedEvents(r) \/ Recorded(r) \/ Saved(r)
      PROVE  AnnouncedIsCurrent'
  <2>1. PICK l \in {"reopening", "opened", "recording", "saving", "emitting"} : Goto(r, l)
      BY <1>3 DEF Stopped, Apply, Reopened, OpenedEvents, Recorded, Saved
  <2>2. pc'[r] = l
      BY <2>1, GotoType DEF Label
  <2> QED
      BY <2>2 DEF AnnouncedIsCurrent, Quiet
<1>4. ASSUME NEW r \in Put, Announce(r)
      PROVE  AnnouncedIsCurrent'
    BY <1>4 DEF Announce, AnnouncedIsCurrent, Current
<1>5. ASSUME NEW r \in Put, Fail(r)
      PROVE  AnnouncedIsCurrent'
  <2>1. /\ \A s \in Put \ {r} : pc'[s] = pc[s]
        /\ UNCHANGED <<config, version, announced>>
        /\ broken' = (broken \/ pc[r] # "stopping")
      BY <1>5, GotoType DEF Fail, Over, Label
  <2> QED
      BY <2>1 DEF AnnouncedIsCurrent, Quiet, Current
<1>6. CASE Restart
    BY <1>6 DEF Restart, AnnouncedIsCurrent
<1> QED
    BY <1>1, <1>2, <1>3, <1>4, <1>5, <1>6 DEF Next

\* However many updates overlap, clients are told the configuration and the
\* version that are in force once the updates are over (update_config).
THEOREM ClientsAreCurrent == Spec => []AnnouncedIsCurrent
<1>1. Init => AnnouncedIsCurrent
    BY DEF Init, AnnouncedIsCurrent
<1>2. TypeOK /\ AnnouncedIsCurrent /\ [Next]_vars => AnnouncedIsCurrent'
    BY NextAnnounced
<1> QED
    BY <1>1, <1>2, TypeCorrect, PTL DEF Spec
=============================================================================
