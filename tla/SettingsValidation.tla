------------------------- MODULE SettingsValidation -------------------------
(***************************************************************************)
(* The check of the settings form (frontend/src/lib/settingsValidation.ts) *)
(* beside the one of the server (ScanConfig in backend/app/models/         *)
(* schemas.py).  The user types into the form; what the page would send is *)
(* an operator of what is typed.                                           *)
(*                                                                         *)
(* Numbers are in tenths, so that 5 is no integer; frequencies typed in    *)
(* MHz are in tenths of a Hz, which is what sending them rounds away.      *)
(*                                                                         *)
(* An operator named Bug... is a wrong variant of the operator after it,   *)
(* which no specification uses.                                            *)
(***************************************************************************)
EXTENDS Integers, Sequences, FiniteSets

CONSTANTS Sample,   \* numbers that are typed, in tenths
          MaxTyped  \* bound on the fields that differ from the configuration

ASSUME ValidationAssumption == Sample \subseteq Nat /\ MaxTyped \in Nat

VARIABLE entered    \* the texts of the fields that were typed, as records

Number(n) == [is |-> "number", tenths |-> n]
Empty == [is |-> "empty", tenths |-> 0]
Words == [is |-> "words", tenths |-> 0]
AutoGain == [is |-> "auto", tenths |-> 0]
Text == {Number(n) : n \in Sample} \cup {Number(-n) : n \in Sample} \cup {Empty, Words, AutoGain}

\* num(): an empty text reads as 0; isInt().
Numeric(t) == t.is \in {"number", "empty"}
Whole(t) == Numeric(t) /\ t.tenths % 10 = 0
Between(t, lo, hi) == 10 * lo <= t.tenths /\ t.tenths <= 10 * hi
AtLeast(t, lo) == 10 * lo <= t.tenths

FftSizes == {256, 512, 1024, 2048, 4096, 8192, 16384}

NumField == {"device_index", "step_hz", "sample_rate", "gain", "ppm", "dwell_ms", "threshold_db",
             "noise_floor_alpha", "fft_size", "spectrum_fps", "spectrum_bins",
             "max_iq_storage_gb", "retention_days"}
FreqField == {"start_hz", "end_hz", "exclusion_low", "exclusion_high", "known_width"}

\* What validateSettings() accepts in a field of its own.
FieldOK(f, t) ==
    CASE f = "device_index" -> Whole(t) /\ AtLeast(t, 0)
      [] f = "step_hz" -> Whole(t) /\ AtLeast(t, 0)
      [] f = "sample_rate" -> Whole(t) /\ AtLeast(t, 225001)
      [] f = "gain" -> t.is = "auto" \/ (t.is = "number" /\ Between(t, 0, 60))
      [] f = "ppm" -> Whole(t) /\ Between(t, -500, 500)
      [] f = "dwell_ms" -> Whole(t) /\ Between(t, 1, 60000)
      [] f = "threshold_db" -> Numeric(t) /\ Between(t, 0, 60)
      [] f = "noise_floor_alpha" -> Numeric(t) /\ 0 < t.tenths /\ t.tenths < 10
      [] f = "fft_size" -> Whole(t) /\ t.tenths \div 10 \in FftSizes
      [] f = "spectrum_fps" -> Whole(t) /\ Between(t, 1, 60)
      [] f = "spectrum_bins" -> Whole(t) /\ Between(t, 16, 8192)
      [] f = "max_iq_storage_gb" -> Numeric(t) /\ AtLeast(t, 0)
      [] f = "retention_days" -> Whole(t) /\ AtLeast(t, 1)
      [] f = "known_width" -> t.is = "number" /\ t.tenths > 0
      [] f = "start_hz" -> Numeric(t) /\ AtLeast(t, 0)
      [] f \in {"end_hz", "exclusion_low", "exclusion_high"} -> Numeric(t)

\* configToForm(): the text of a field that was not typed is the one of the
\* configuration in force, which the server has accepted.
Loaded == [start_hz |-> Number(10), end_hz |-> Number(1000),
           exclusion_low |-> Number(20), exclusion_high |-> Number(50)]
TextOf(f) == IF f \in DOMAIN entered THEN entered[f] ELSE Loaded[f]

BugPairOK(lo, hi) == TextOf(lo).tenths <= TextOf(hi).tenths
PairOK(lo, hi) == TextOf(lo).tenths < TextOf(hi).tenths

\* validateSettings() finds no error; an exclusion is a pair, too.
Accepted ==
    /\ \A f \in DOMAIN entered : FieldOK(f, entered[f])
    /\ PairOK("start_hz", "end_hz")
    /\ PairOK("exclusion_low", "exclusion_high")

\* The number that is sent: Math.round() of Hz, any other one as it is.
Sent(f) == IF f \in FreqField THEN ((TextOf(f).tenths + 5) \div 10) * 10 ELSE TextOf(f).tenths

\* _check_ranges() of the server.
ServerOK ==
    /\ Sent("start_hz") < Sent("end_hz")
    /\ Sent("exclusion_low") < Sent("exclusion_high")
    /\ \A f \in DOMAIN entered :
           LET n == Sent(f)
           IN  CASE f = "sample_rate" -> n > 0
                 [] f = "noise_floor_alpha" -> 0 < n /\ n <= 10
                 [] f = "fft_size" -> n \in {10 * 2 ^ k : k \in 0 .. 20}
                 [] f = "device_index" -> n >= 0
                 [] f = "spectrum_fps" -> 10 <= n /\ n <= 600
                 [] f = "spectrum_bins" -> 160 <= n /\ n <= 81920
                 [] f = "max_iq_storage_gb" -> n >= 0
                 [] f = "retention_days" -> n >= 10
                 [] OTHER -> TRUE

EnteredInit == entered = << >>

\* An input of the form changes.
TypeText(f, t) ==
    /\ f \in DOMAIN entered \/ Cardinality(DOMAIN entered) < MaxTyped
    /\ entered' = [g \in DOMAIN entered \cup {f} |-> IF g = f THEN t ELSE entered[g]]

EnteredNext == \E f \in NumField \cup FreqField, t \in Text : TypeText(f, t)

-----------------------------------------------------------------------------
\* What the form accepts the server accepts too: a PUT is never answered 422,
\* except for a band or an exclusion less than one Hz wide, which the page
\* compares in MHz before it rounds both ends to the same Hz.
RoundedAway(lo, hi) == TextOf(lo).tenths < TextOf(hi).tenths /\ Sent(lo) = Sent(hi)
SentIsValid ==
    Accepted =>
        ServerOK \/ RoundedAway("start_hz", "end_hz") \/ RoundedAway("exclusion_low", "exclusion_high")
=============================================================================
