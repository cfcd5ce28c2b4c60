------------------------------- MODULE Alerts -------------------------------
(***************************************************************************)
(* The burst alerts of the Dashboard: the rules and their editor           *)
(* (frontend/src/components/AlertRules.tsx), the watcher of the channels   *)
(* in the store (frontend/src/hooks/useChannelAlerts.ts) and the toasts    *)
(* (frontend/src/components/AlertToaster.tsx).                             *)
(*                                                                         *)
(* A channel is a number, which is also its frequency, SNR and confidence; *)
(* the even ones have a regular cadence.  React runs the watcher some time *)
(* after the store changed, once for several changes.  Time is in units of *)
(* the life of a toast.                                                    *)
(*                                                                         *)
(* An operator named Bug... is a wrong variant of the operator after it,   *)
(* which no specification uses.                                            *)
(***************************************************************************)
EXTENDS Integers, Sequences, FiniteSets

CONSTANTS AChannel,
          Entry,     \* numbers that are typed into a rule
          Blank,     \* an input left empty
          MaxRules,  \* bound on the rules
          MaxToasts, \* MAX_TOASTS
          Debounce   \* DEBOUNCE_MS

ASSUME AlertsAssumption ==
    /\ AChannel \subseteq Nat \ {0} /\ IsFiniteSet(AChannel) /\ Entry \subseteq Int /\ Blank \notin Entry
    /\ {MaxRules, MaxToasts, Debounce} \subseteq Nat \ {0}

VARIABLES
    onAir,     \* the status of each channel in the server
    chans,     \* and in the store
    due,       \* channels changed: the effect has to run
    seeded,    \* seededRef
    prev,      \* prevStatusRef
    hold,      \* time until a channel may alert again, from lastAlertRef
    toasts,    \* the channels of the toasts, oldest first
    rules,
    rested     \* history: channels seen not active since their last alert

alertVars == <<onAir, chans, due, seeded, prev, hold, toasts, rules, rested>>

\* "quiet" is recently_active or inactive, "absent" not in the map.
Status == {"absent", "quiet", "active"}

Bound == Entry \cup {Blank}
Rule == [enabled : BOOLEAN, lo : Bound, hi : Bound, snr : Bound, conf : Bound \cup {0, 100},
         regular : BOOLEAN]

AlertsTypeOK ==
    /\ onAir \in [AChannel -> Status] /\ chans \in [AChannel -> Status]
    /\ prev \in [AChannel -> Status]
    /\ due \in BOOLEAN /\ seeded \in BOOLEAN
    /\ hold \in [AChannel -> 0 .. Debounce]
    /\ toasts \in Seq(AChannel) /\ Len(toasts) <= MaxToasts
    /\ rules \subseteq Rule
    /\ rested \subseteq AChannel

Nowhere == [c \in AChannel |-> "absent"]

AlertsClosed ==
    /\ onAir = Nowhere /\ chans = Nowhere
    /\ due = TRUE /\ seeded = FALSE
    /\ prev = Nowhere
    /\ hold = [c \in AChannel |-> 0]
    /\ toasts = << >>
    /\ rules = {} /\ rested = AChannel

AlertsMount(server, store, loaded) ==
    /\ onAir' = server /\ chans' = store
    /\ due' = TRUE /\ seeded' = FALSE
    /\ prev' = Nowhere
    /\ hold' = [c \in AChannel |-> 0]
    /\ toasts' = << >>
    /\ rules' = loaded /\ rested' = AChannel

AnyActive == [enabled |-> TRUE, lo |-> Blank, hi |-> Blank, snr |-> Blank, conf |-> Blank,
              regular |-> FALSE]

\* The page is opened, with the rules that localStorage has; the store is
\* empty when the app itself is being loaded.
AlertsOpens ==
    \E server \in [AChannel -> Status], loaded \in {{}, {AnyActive}} :
        AlertsMount(server, Nowhere, loaded) \/ AlertsMount(server, server, loaded)
AlertsCloses == AlertsMount(Nowhere, Nowhere, {})

-----------------------------------------------------------------------------
(* Rules.                                                                   *)

\* matchesRule().
Matches(c, r) ==
    /\ r.enabled
    /\ r.lo # Blank => c >= r.lo
    /\ r.hi # Blank => c <= r.hi
    /\ r.snr # Blank => c >= r.snr
    /\ r.conf # Blank => c >= r.conf
    /\ r.regular => c % 2 = 0

\* firstMatchingRule() finds one.
Alarms(c) == \E r \in rules : Matches(c, r)

\* The draft that submit() makes of the form: the confidence is clamped to
\* 0..100 percent.
Draft(lo, hi, snr, conf, regular) ==
    LET clamped == CASE conf = Blank -> Blank
                     [] conf # Blank /\ conf < 0 -> 0
                     [] conf # Blank /\ conf > 100 -> 100
                     [] OTHER -> conf
    IN  [enabled |-> TRUE, lo |-> lo, hi |-> hi, snr |-> snr, conf |-> clamped, regular |-> regular]

AddRule(draft) ==
    /\ Cardinality(rules) < MaxRules
    /\ rules' = rules \cup {draft}
    /\ UNCHANGED <<onAir, chans, due, seeded, prev, hold, toasts, rested>>

ToggleRule(r) ==
    /\ rules' = (rules \ {r}) \cup {[r EXCEPT !.enabled = ~r.enabled]}
    /\ UNCHANGED <<onAir, chans, due, seeded, prev, hold, toasts, rested>>

RemoveRule(r) ==
    /\ rules' = rules \ {r}
    /\ UNCHANGED <<onAir, chans, due, seeded, prev, hold, toasts, rested>>

\* The form of a new rule, and the list of the rules.
RuleForm ==
    \E lo, hi, snr, conf \in Bound, regular \in BOOLEAN : AddRule(Draft(lo, hi, snr, conf, regular))
RuleList == \E r \in rules : ToggleRule(r) \/ RemoveRule(r)

-----------------------------------------------------------------------------
(* Channels.                                                                *)

\* The server detects a channel, or it falls silent.
OnAirChanges(c, s) ==
    /\ s # "absent" \/ onAir[c] = "absent"
    /\ onAir' = [onAir EXCEPT ![c] = s]
    /\ UNCHANGED <<chans, due, seeded, prev, hold, toasts, rules, rested>>

Stored(new) ==
    /\ chans' = new /\ due' = TRUE
    /\ rested' = rested \cup {c \in AChannel : new[c] # "active"}
    /\ UNCHANGED <<onAir, seeded, prev, hold, toasts, rules>>

\* setChannels() with a snapshot, the one that primes the store included,
\* and upsertChannel().
ChannelsReplaced == Stored(onAir)
ChannelUpserted(c) == onAir[c] # "absent" /\ Stored([chans EXCEPT ![c] = onAir[c]])

\* The effect: the newly active channels that match a rule and did not alert
\* of late; the map may list them in any order.
Fresh == {c \in AChannel : chans[c] = "active" /\ prev[c] # "active"
                           /\ hold[c] = 0 /\ Alarms(c)}

BugNewest(s) == IF Len(s) > MaxToasts THEN SubSeq(s, Len(s) - MaxToasts, Len(s)) ELSE s

Newest(s) == IF Len(s) > MaxToasts THEN SubSeq(s, Len(s) - MaxToasts + 1, Len(s)) ELSE s

BugWatch ==
    /\ due /\ due' = FALSE /\ seeded' = TRUE
    /\ prev' = IF seeded /\ Fresh # {} THEN prev ELSE chans
    /\ \E order \in [1 .. Cardinality(Fresh) -> Fresh] :
           /\ \A c \in Fresh : \E i \in DOMAIN order : order[i] = c
           /\ toasts' = IF seeded THEN Newest(toasts \o order) ELSE toasts
    /\ IF seeded
       THEN /\ hold' = [c \in AChannel |-> IF c \in Fresh THEN Debounce ELSE hold[c]]
            /\ rested' = (rested \ Fresh)
       ELSE UNCHANGED <<hold, rested>>
    /\ UNCHANGED <<onAir, chans, rules>>

Watch ==
    /\ due /\ due' = FALSE /\ seeded' = TRUE
    /\ prev' = chans
    /\ \E order \in [1 .. Cardinality(Fresh) -> Fresh] :
           /\ \A c \in Fresh : \E i \in DOMAIN order : order[i] = c
           /\ toasts' = IF seeded THEN Newest(toasts \o order) ELSE toasts
    /\ IF seeded
       THEN /\ hold' = [c \in AChannel |-> IF c \in Fresh THEN Debounce ELSE hold[c]]
            /\ rested' = rested \ Fresh
       ELSE UNCHANGED <<hold, rested>>
    /\ UNCHANGED <<onAir, chans, rules>>

\* A toast is closed, or its eight seconds are over.
Dismiss(i) ==
    /\ toasts' = SubSeq(toasts, 1, i - 1) \o SubSeq(toasts, i + 1, Len(toasts))
    /\ UNCHANGED <<onAir, chans, due, seeded, prev, hold, rules, rested>>

\* The toasts on the screen, each with its timer and its button.
Toaster == \E i \in DOMAIN toasts : Dismiss(i)

TimePasses ==
    /\ \E c \in AChannel : hold[c] > 0
    /\ hold' = [c \in AChannel |-> IF hold[c] = 0 THEN 0 ELSE hold[c] - 1]
    /\ UNCHANGED <<onAir, chans, due, seeded, prev, toasts, rules, rested>>

AlertsNext ==
    \/ RuleForm \/ RuleList \/ Toaster
    \/ \E c \in AChannel, s \in Status : OnAirChanges(c, s)
    \/ ChannelsReplaced \/ Watch \/ TimePasses
    \/ \E c \in AChannel : ChannelUpserted(c)

-----------------------------------------------------------------------------
(* Properties.                                                              *)

\* A channel alerts when it becomes active, "debounced to at most one alert
\* per channel" (useChannelAlerts.ts:181): between two alerts of a channel it
\* was seen not active, and the time of the debounce has passed, whatever
\* snapshots and updates repeat, reorder or skip, and however the rules change.
AlertsOnce ==
    [][\A c \in AChannel : hold'[c] > hold[c] => c \in rested /\ hold[c] = 0]_alertVars
=============================================================================
