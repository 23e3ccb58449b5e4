------------------------- MODULE MCAccountSessions -------------------------
(* Instances of AccountSessions for TLC.                                   *)
EXTENDS AccountSessions, TLC

\* Accounts, identities, requests and old sessions are interchangeable.
Symmetry ==
  Permutations(Users) \cup Permutations(Identities) \cup Permutations(Requests)
    \cup Permutations(OldSessions)
=============================================================================
