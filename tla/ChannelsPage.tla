---------------------------- MODULE ChannelsPage ----------------------------
(***************************************************************************)
(* The table of the Channels page (frontend/src/pages/Channels.tsx) with   *)
(* its filter, sort, freeze and compare, and the pins that are kept in     *)
(* localStorage (frontend/src/components/usePinnedChannels.ts).            *)
(*                                                                         *)
(* A channel has an id and one measured value, which stands for every      *)
(* column that can be sorted or filtered; Unknown is the null of a column  *)
(* that is not known yet.  The note on a channel is kept like its pin and  *)
(* is left out.                                                            *)
(*                                                                         *)
(* An operator named Bug... is a wrong variant of the operator after it,   *)
(* which no specification uses.                                            *)
(***************************************************************************)
EXTENDS Integers, Sequences, FiniteSets
Sorts == INSTANCE SequencesExt

CONSTANTS CId, Measure, Unknown, Gone

ASSUME ChannelsAssumption ==
    /\ CId \subseteq Nat /\ Measure \subseteq Nat
    /\ {Unknown, Gone} \cap Nat = {} /\ Unknown # Gone

VARIABLES
    live,      \* channels of the store, Gone for an id that is not in the map
    frozen, snapshot,
    sortKey, asc,
    atLeast,   \* the filter, Unknown when it is empty
    pins,      \* the ids that are pinned, as localStorage keeps them
    compare,   \* compareIds
    comparing

tableVars == <<live, frozen, snapshot, sortKey, asc, atLeast, pins, compare, comparing>>

Value == Measure \cup {Unknown}
Table == [CId -> Value \cup {Gone}]

ChannelsTypeOK ==
    /\ live \in Table /\ snapshot \in Table
    /\ {frozen, asc, comparing} \subseteq BOOLEAN
    /\ sortKey \in {"id", "value"} /\ atLeast \in Value
    /\ pins \subseteq CId
    /\ compare \in Seq(CId) /\ Len(compare) <= 2
    /\ \A i, j \in DOMAIN compare : compare[i] = compare[j] => i = j

NoTable == [c \in CId |-> Gone]

ChannelsClosed ==
    /\ live = NoTable /\ frozen = FALSE /\ snapshot = NoTable
    /\ sortKey = "id" /\ asc = TRUE /\ atLeast = Unknown
    /\ pins = {}
    /\ compare = << >> /\ comparing = FALSE

ChannelsMount(table, kept) ==
    /\ live' = table /\ frozen' = FALSE /\ snapshot' = NoTable
    /\ sortKey' = "id" /\ asc' = TRUE /\ atLeast' = Unknown
    /\ pins' = kept
    /\ compare' = << >> /\ comparing' = FALSE

\* The page is opened on the channels of the store, with the pins that
\* localStorage has.
ChannelsOpens == \E table \in Table, kept \in SUBSET CId : ChannelsMount(table, kept)
ChannelsCloses == ChannelsMount(NoTable, {})

-----------------------------------------------------------------------------
(* What the table shows.                                                    *)

BugSource ==
    IF frozen THEN [c \in CId |-> IF snapshot[c] = Gone \/ live[c] = Gone THEN snapshot[c] ELSE live[c]]
    ELSE live

Source == IF frozen THEN snapshot ELSE live

\* A value that is null counts as 0 in a comparison with <.
Measured(v) == IF v = Unknown THEN 0 ELSE v

Filtered(source, limit) ==
    {c \in CId : /\ source[c] # Gone
                 /\ limit # Unknown => Measured(source[c]) >= limit}

\* The comparator: null is less than every number, and the map lists its
\* channels in the order of their ids.
Less(source, key, up, c, d) ==
    LET rank(x) == IF key = "id" THEN x ELSE IF source[x] = Unknown THEN -1 ELSE source[x]
    IN  IF rank(c) = rank(d) THEN c < d
        ELSE IF up THEN rank(c) < rank(d) ELSE rank(d) < rank(c)

\* Pinned rows first, each group in the order of the sort.
Arranged(source, limit, key, up, kept) ==
    LET before(c, d) == Less(source, key, up, c, d)
        sorted == Sorts!SetToSortSeq(Filtered(source, limit), before)
    IN  SelectSeq(sorted, LAMBDA c : c \in kept) \o SelectSeq(sorted, LAMBDA c : c \notin kept)
TableRows == Arranged(Source, atLeast, sortKey, asc, pins)

Cells == [i \in DOMAIN TableRows |-> <<TableRows[i], Source[TableRows[i]]>>]

\* The line above the table: how many channels there are, how many the
\* filters leave, and the strongest one.
Present(source) == {c \in CId : source[c] # Gone}
Strongest(source) == CHOOSE c \in Present(source) : \A d \in Present(source) :
                         \/ Measured(source[c]) > Measured(source[d])
                         \/ Measured(source[c]) = Measured(source[d]) /\ c <= d
Headline == <<Cardinality(Present(Source)), Cardinality(Filtered(Source, atLeast)),
              IF Present(Source) = {} THEN Gone ELSE Strongest(Source)>>

\* channelSimilarity() of two channels, in percent: two unknown values are
\* left out of the mean, one alone differs entirely.
Larger(x, y) == IF x >= y THEN x ELSE y
RelDiff(x, y) ==
    IF x = y THEN 0 ELSE (100 * (Larger(x, y) - (x + y - Larger(x, y)))) \div Larger(x, y)
Similarity(x, y) ==
    IF x = y THEN 100 ELSE IF Unknown \in {x, y} THEN 0 ELSE 100 - RelDiff(x, y)

\* The two channels of the comparison are looked up in what is not filtered.
Compared(source, selected) == SelectSeq(selected, LAMBDA c : source[c] # Gone)
CanCompare == Len(Compared(Source, compare)) = 2
CompareRows(c, d) ==
    [a |-> <<c, Source[c]>>, b |-> <<d, Source[d]>>, similar |-> Similarity(Source[c], Source[d])]
Dialog ==
    LET both == Compared(Source, compare)
    IN  IF comparing /\ CanCompare THEN CompareRows(both[1], both[2]) ELSE << >>

-----------------------------------------------------------------------------
(* Messages.                                                                *)

SnapshotArrives(table) ==
    /\ live' = table
    /\ UNCHANGED <<frozen, snapshot, sortKey, asc, atLeast, pins, compare, comparing>>

UpdateArrives(c, v) == SnapshotArrives([live EXCEPT ![c] = v])

(* The user.                                                                *)

ToggleFreeze ==
    /\ frozen' = ~frozen
    /\ snapshot' = IF frozen THEN snapshot ELSE live
    /\ UNCHANGED <<live, sortKey, asc, atLeast, pins, compare, comparing>>

SetFilter(v) ==
    /\ atLeast' = v
    /\ UNCHANGED <<live, frozen, snapshot, sortKey, asc, pins, compare, comparing>>

ToggleSort(k) ==
    /\ sortKey' = k
    /\ asc' = (k = sortKey => ~asc)
    /\ UNCHANGED <<live, frozen, snapshot, atLeast, pins, compare, comparing>>

\* The star of a row; an effect saves every change.
TogglePin(c) ==
    /\ \E i \in DOMAIN TableRows : TableRows[i] = c
    /\ pins' = (pins \ {c}) \cup ({c} \ pins)
    /\ UNCHANGED <<live, frozen, snapshot, sortKey, asc, atLeast, compare, comparing>>

\* The checkbox of a row, disabled when two others are selected.  No id is
\* selected twice, so filter() takes one away.
ToggleCompare(c) ==
    /\ \E i \in DOMAIN TableRows : TableRows[i] = c
    /\ \/ \E i \in DOMAIN compare :
              compare[i] = c /\ compare' = Sorts!RemoveAt(compare, i)
       \/ /\ \A i \in DOMAIN compare : compare[i] # c
          /\ Len(compare) < 2
          /\ compare' = Append(compare, c)
    /\ UNCHANGED <<live, frozen, snapshot, sortKey, asc, atLeast, pins, comparing>>

OpenCompare ==
    /\ CanCompare /\ comparing' = TRUE
    /\ UNCHANGED <<live, frozen, snapshot, sortKey, asc, atLeast, pins, compare>>

CloseCompare ==
    /\ Dialog # << >> /\ comparing' = FALSE
    /\ UNCHANGED <<live, frozen, snapshot, sortKey, asc, atLeast, pins, compare>>

\* The parts of the page.
HeaderButtons == OpenCompare \/ ToggleFreeze
FilterForm == \E v \in Value : SetFilter(v)
SortHeaders == \E k \in {"id", "value"} : ToggleSort(k)
RowControls == \E c \in CId : TogglePin(c) \/ ToggleCompare(c)

TableUser == HeaderButtons \/ FilterForm \/ SortHeaders \/ RowControls \/ CloseCompare

ChannelsNext ==
    \/ \E table \in Table : SnapshotArrives(table)
    \/ \E c \in CId, v \in Value : UpdateArrives(c, v)
    \/ TableUser

-----------------------------------------------------------------------------
(* Properties.                                                              *)

\* "Freeze the table so it stops updating while you read/compare"
\* (Channels.tsx:207): while it is frozen, no snapshot and no update moves a
\* row, changes a cell or the line above, or changes, closes or opens the
\* comparison.
FrozenStays ==
    [][frozen /\ frozen' /\ live' # live =>
           Cells' = Cells /\ Headline' = Headline /\ Dialog' = Dialog]_tableVars
=============================================================================
