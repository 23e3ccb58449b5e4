--------------------------- MODULE PlanLifecycle ---------------------------
(***************************************************************************)
(* What the plan service promises a room, without transactions, locks or   *)
(* rows: a plan is proposed, collects one answer per member, and is        *)
(* confirmed once and for all.                                             *)
(*                                                                         *)
(* An answer may still arrive after the confirmation: the service checks   *)
(* the status before it saves an answer, not when it saves it.             *)
(***************************************************************************)
CONSTANTS Users, Plans

VARIABLES
  phase,   \* "absent", "VOTING" or "CONFIRMED", per plan
  answer   \* what each user has answered, per plan

vars == <<phase, answer>>

Answers == {"none", "going", "not_going"}

Propose(p) ==
  /\ phase[p] = "absent"
  /\ phase' = [phase EXCEPT ![p] = "VOTING"]
  /\ UNCHANGED answer

\* One member answers one plan, once or again; the last answer counts.
Answer(p, u, a) ==
  /\ phase[p] # "absent"
  /\ answer' = [answer EXCEPT ![p][u] = a]
  /\ UNCHANGED phase

Confirm(p) ==
  /\ phase[p] = "VOTING"
  /\ phase' = [phase EXCEPT ![p] = "CONFIRMED"]
  /\ UNCHANGED answer

\* A user withdraws: the answers the withdrawal has found are gone.  One that
\* is on its way meanwhile stays.
Forget(u, ps) ==
  /\ answer' = [p \in Plans |-> IF p \in ps THEN [answer[p] EXCEPT ![u] = "none"]
                                           ELSE answer[p]]
  /\ UNCHANGED phase

Init ==
  /\ phase \in [Plans -> {"absent", "VOTING"}]
  /\ answer = [p \in Plans |-> [u \in Users |-> "none"]]

Next ==
  \/ \E p \in Plans : Propose(p) \/ Confirm(p)
  \/ \E p \in Plans, u \in Users, a \in {"going", "not_going"} : Answer(p, u, a)
  \/ \E u \in Users, ps \in SUBSET Plans : Forget(u, ps)

Spec == Init /\ [][Next]_vars

=============================================================================
