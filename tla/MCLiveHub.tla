----------------------------- MODULE MCLiveHub -----------------------------
(***************************************************************************)
(* LiveHub for TLC.  Clients and handlers are interchangeable: every       *)
(* action and every property treats them alike.                            *)
(***************************************************************************)
EXTENDS LiveHub, TLC

Symmetry == Permutations(Client) \cup Permutations(Handler)
=============================================================================
