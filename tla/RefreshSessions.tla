-------------------------- MODULE RefreshSessions --------------------------
(***************************************************************************)
(* What refresh tokens promise.  A login opens a session, named after its  *)
(* first token.  A session has at most one valid token: a renewal consumes *)
(* it and later hands out a new one, or the session is lost half-way and   *)
(* its user has to log in again.  Accounts is the detailed system.         *)
(***************************************************************************)
CONSTANT Tokens

VARIABLES
  valid,     \* the valid tokens of each session
  renewing,  \* sessions whose token is consumed and not yet replaced
  issued     \* all tokens handed out so far

vars == <<valid, renewing, issued>>

Init == /\ valid = [f \in Tokens |-> {}]
        /\ renewing = {}
        /\ issued = {}

Issue(f, t) ==
  /\ t \in Tokens \ issued
  /\ valid' = [valid EXCEPT ![f] = {t}]
  /\ issued' = issued \cup {t}

Open(t) == Issue(t, t) /\ UNCHANGED renewing

BeginRenewal(f) ==
  /\ valid[f] # {} /\ f \notin renewing
  /\ valid' = [valid EXCEPT ![f] = {}]
  /\ renewing' = renewing \cup {f}
  /\ UNCHANGED issued

FinishRenewal(f, t) ==
  /\ f \in renewing
  /\ Issue(f, t)
  /\ renewing' = renewing \ {f}

AbandonRenewal(f) ==
  /\ f \in renewing
  /\ renewing' = renewing \ {f}
  /\ UNCHANGED <<valid, issued>>

\* Logging out ends one session, removing a company those of all its users.
Close(ended) ==
  /\ valid' = [f \in Tokens |-> IF f \in ended THEN {} ELSE valid[f]]
  /\ UNCHANGED <<renewing, issued>>

Next ==
  \/ \E t \in Tokens : Open(t)
  \/ \E f \in Tokens : BeginRenewal(f) \/ AbandonRenewal(f)
  \/ \E f, t \in Tokens : FinishRenewal(f, t)
  \/ \E ended \in SUBSET Tokens : Close(ended)

Spec == Init /\ [][Next]_vars

-----------------------------------------------------------------------------
\* A session never has two valid tokens, and none while it is renewed: a
\* token is exchanged at most once.
OneTokenPerSession ==
  \A f \in Tokens : /\ \A s, t \in valid[f] : s = t
                    /\ f \in renewing => valid[f] = {}
=============================================================================
