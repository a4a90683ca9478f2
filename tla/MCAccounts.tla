----------------------------- MODULE MCAccounts -----------------------------
(***************************************************************************)
(* A database that starts empty, two users, two companies of two names,    *)
(* and two calls at a time.                                                *)
(***************************************************************************)
EXTENDS Accounts, TLC

CONSTANTS e1, e2, n1, n2, c1, c2

MCUsers == {1, 2}
MCTenants == {1, 2}
MCTokens == 1 .. 3
MCLinks == {1, 2}
MCEmails == {e1, e2}
MCNames == {n1, n2}
MCCalls == {c1, c2}
Symmetry == Permutations(MCCalls) \cup Permutations(MCEmails) \cup Permutations(MCNames)
=============================================================================
