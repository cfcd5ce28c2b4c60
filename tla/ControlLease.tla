---------------------------- MODULE ControlLease ----------------------------
(***************************************************************************)
(* ControlLease (backend/app/services/control_lease.py): at most one       *)
(* client operates the scanner, until it releases the lease or lets it     *)
(* lapse.  Time is what is left of the lease: _expires - utcnow(), not     *)
(* below 0, and 0 when nobody holds it.  Each method runs under the        *)
(* lease's lock and is one step.                                           *)
(*                                                                         *)
(* An operator named Bug... is a wrong variant of the operator after it,   *)
(* which no specification uses.                                            *)
(***************************************************************************)
EXTENDS Naturals

CONSTANTS Client,    \* client ids
          NoClient,  \* None
          Ttl        \* _ttl

ASSUME LeaseAssumption == NoClient \notin Client /\ Ttl \in Nat \ {0}

VARIABLES operator,   \* _operator
          remaining   \* time until _expires

leaseVars == <<operator, remaining>>

LeaseTypeOK ==
    /\ operator \in Client \cup {NoClient}
    /\ remaining \in 0 .. Ttl
    /\ operator = NoClient => remaining = 0

LeaseInit == operator = NoClient /\ remaining = 0

Expired == operator # NoClient /\ remaining = 0

\* Who operates now; reading it also forgets a holder whose lease lapsed.
Operator == IF Expired THEN NoClient ELSE operator
ReadOperator == operator' = Operator /\ UNCHANGED remaining

MayAcquire(c) == Operator \in {NoClient, c}

\* The bug counts the new term from the end of the old one.
BugGranted(c) == operator' = c /\ remaining' = remaining + Ttl
Granted(c) == operator' = c /\ remaining' = Ttl

\* The bug takes a lease that was not just renewed for an abandoned one.
BugAcquire(c) == IF MayAcquire(c) \/ remaining < Ttl THEN Granted(c) ELSE ReadOperator
Acquire(c) == IF MayAcquire(c) THEN Granted(c) ELSE ReadOperator

\* release() does not look at the expiry.
Release(c) ==
    /\ operator = c
    /\ operator' = NoClient /\ remaining' = 0

\* renew() checks again: the lease may have lapsed during the update.
Renew(c) == IF operator = c /\ ~Expired THEN Granted(c) ELSE UNCHANGED leaseVars

TimePasses == remaining' = (IF remaining = 0 THEN 0 ELSE remaining - 1) /\ UNCHANGED operator
=============================================================================
