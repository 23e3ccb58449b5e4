---------------------------- MODULE MCPlanVoting ----------------------------
(* Instances of PlanVoting for TLC.                                        *)
EXTENDS PlanVoting, TLC

\* Users, requests and workers are interchangeable: the specification never
\* names one, and the initial creator and host are any user.
Symmetry == Permutations(Users) \cup Permutations(Requests) \cup Permutations(Workers)
=============================================================================
