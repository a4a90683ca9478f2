-------------------------- MODULE MCBirthdayInbox --------------------------
(***************************************************************************)
(* The turn of a year: one birthday is on its first day, the other is just *)
(* out of reach of the last day of the old year.                           *)
(***************************************************************************)
EXTENDS BirthdayInbox

CONSTANTS u1, u2, w1, w2

MCUsers == {u1, u2}
MCBirthDay == [u \in MCUsers |-> IF u = u1 THEN 0 ELSE 7]
MCRuns == {w1, w2}
=============================================================================
