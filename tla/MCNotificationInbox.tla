------------------------ MODULE MCNotificationInbox ------------------------
(* Instances of NotificationInbox for TLC.                                 *)
EXTENDS NotificationInbox, TLC

CONSTANTS u1, u2, t1, d1, n1, n2

MCOldRows == t1 :> [owner |-> u1, device |-> d1]

MCOldBatch ==
  n1 :> [type |-> "PLAN_CONFIRMED", users |-> {u1}, voter |-> NULL]
  @@ n2 :> [type |-> "MEMBER_GOING", users |-> {u1}, voter |-> u2]

MCOldOrder == <<n2, n1>>

MCPatches ==
  {[type \in {"PLAN_CONFIRMED"} |-> on] : on \in BOOLEAN}
  \cup {[type \in {"PLAN_REQUESTED"} |-> FALSE]}

MCOccasions ==
  {[type |-> "PLAN_CONFIRMED", users |-> {u1, u2}, voter |-> NULL],
   [type |-> "MEMBER_GOING", users |-> {u1}, voter |-> u2]}

Symmetry == Permutations(Requests)
=============================================================================
