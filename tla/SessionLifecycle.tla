-------------------------- MODULE SessionLifecycle --------------------------
(***************************************************************************)
(* What the session service promises the owner of a device: a session is   *)
(* opened once, is held by exactly one refresh token at a time, passes to  *)
(* a token that was never used before, and once closed stays closed.       *)
(***************************************************************************)
CONSTANTS Sids, Tokens, NULL

VARIABLES
  holder,  \* the refresh token that keeps a session alive, or NULL
  opened,  \* sessions that have been opened
  used     \* tokens that have held a session

vars == <<holder, opened, used>>

Open(s, t) ==
  /\ s \notin opened /\ t \notin used
  /\ holder' = [holder EXCEPT ![s] = t]
  /\ opened' = opened \cup {s}
  /\ used' = used \cup {t}

Pass(s, t) ==
  /\ holder[s] # NULL /\ t \notin used
  /\ holder' = [holder EXCEPT ![s] = t]
  /\ used' = used \cup {t}
  /\ UNCHANGED opened

\* Several sessions of one account may end together.
Close(ss) ==
  /\ holder' = [s \in Sids |-> IF s \in ss THEN NULL ELSE holder[s]]
  /\ UNCHANGED <<opened, used>>

Init ==
  /\ opened \in SUBSET Sids
  /\ used \in SUBSET Tokens
  /\ holder \in [Sids -> used \cup {NULL}]
  /\ \A s \in Sids : holder[s] # NULL => s \in opened

Next ==
  \/ \E s \in Sids, t \in Tokens : Open(s, t) \/ Pass(s, t)
  \/ \E ss \in SUBSET Sids : Close(ss)

Spec == Init /\ [][Next]_vars

=============================================================================
