------------------------------- MODULE Browser -------------------------------
(***************************************************************************)
(* The browser app page by page.  One page is open at a time (the tabs of  *)
(* frontend/src/App.tsx); opening one mounts its components, closing it    *)
(* takes their state away, and what is left is the store, the server and   *)
(* localStorage, which a page finds in any state when it is opened again,  *)
(* as other clients and other tabs change them meanwhile.                  *)
(*                                                                         *)
(* The Settings page is here twice: "settings" is the way of its form to   *)
(* the server and back, "typing" the check of what is typed into it.       *)
(***************************************************************************)
EXTENDS ScopeHistory, SettingsPage, SettingsValidation, Alerts, DataPages, ChannelsPage,
        RecordingsPage, LiveSpectrum

VARIABLE page

browserVars == <<page, scopeVars, settingsVars, entered, alertVars, dataVars, tableVars,
                 recordingsVars, spectrumVars>>

Page == {"scope", "settings", "typing", "dashboard", "data", "channels",
         "recordings", "spectrum"}

BrowserTypeOK ==
    /\ page \in Page \cup {"none"}
    /\ ScopeTypeOK /\ SettingsTypeOK /\ AlertsTypeOK /\ DataTypeOK /\ ChannelsTypeOK
    /\ RecordingsTypeOK /\ SpectrumTypeOK
    /\ entered \in [DOMAIN entered -> Text] /\ DOMAIN entered \subseteq NumField \cup FreqField

BrowserInit ==
    /\ page = "none"
    /\ ScopeInit /\ SettingsClosed /\ EnteredInit /\ AlertsClosed /\ DataClosed /\ ChannelsClosed
    /\ RecordingsClosed /\ SpectrumClosed

\* The pages other than p do nothing.
Others(p) ==
    /\ p # "scope" => UNCHANGED scopeVars
    /\ p # "settings" => UNCHANGED settingsVars
    /\ p # "typing" => UNCHANGED entered
    /\ p # "dashboard" => UNCHANGED alertVars
    /\ p # "data" => UNCHANGED dataVars
    /\ p # "channels" => UNCHANGED tableVars
    /\ p # "recordings" => UNCHANGED recordingsVars
    /\ p # "spectrum" => UNCHANGED spectrumVars

\* A tab, or a link from one page to another: the page that is open is closed,
\* and then another one is opened.
Leave ==
    /\ page # "none" /\ page' = "none"
    /\ ScopeRemounted /\ frame' = NoFrame
    /\ SettingsCloses /\ entered' = << >> /\ AlertsCloses /\ DataCloses /\ ChannelsCloses
    /\ RecordingsCloses /\ SpectrumCloses

Enter(p) ==
    /\ page = "none" /\ page' = p /\ Others(p)
    /\ p = "scope" => ScopeRemounted /\ frame' \in FrameSeq \cup {NoFrame}
    /\ p = "settings" => SettingsOpens
    /\ p = "typing" => UNCHANGED entered
    /\ p = "dashboard" => AlertsOpens
    /\ p = "data" => DataOpens
    /\ p = "channels" => ChannelsOpens
    /\ p = "recordings" => RecordingsOpens
    /\ p = "spectrum" => SpectrumOpens

On(p) == page = p /\ UNCHANGED page /\ Others(p)

BrowserNext ==
    \/ Leave
    \/ \E p \in Page : Enter(p)
    \/ On("scope") /\ ScopeNext
    \/ On("settings") /\ SettingsNext
    \/ On("typing") /\ EnteredNext
    \/ On("dashboard") /\ AlertsNext
    \/ On("data") /\ DataNext
    \/ On("channels") /\ ChannelsNext
    \/ On("recordings") /\ RecordingsNext
    \/ On("spectrum") /\ SpectrumNext

BrowserSpec == BrowserInit /\ [][BrowserNext]_browserVars
FairBrowser == BrowserSpec /\ DataFairness
=============================================================================
