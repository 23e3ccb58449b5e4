-------------------------- MODULE PlanVotingProofs --------------------------
(***************************************************************************)
(* Proofs about PlanVoting, for any number of users, plans, requests and   *)
(* workers.                                                                *)
(***************************************************************************)
EXTENDS PlanVoting, TLAPS

USE IdsAreDistinct, BoundsAreNat

-----------------------------------------------------------------------------
(* Type correctness                                                        *)

\* TypeOK without the transactions.
DataOK ==
  /\ status \in [Plans -> PlanStatus]
  /\ creator \in [Plans -> Users \cup {NULL}]
  /\ placeOf \in [Plans -> Places \cup {NULL}]
  /\ due \in [Plans -> BOOLEAN]
  /\ vote \in [Requests -> VoteRow]
  /\ active \subseteq Users
  /\ member \subseteq Users
  /\ host \in Users \cup {NULL}
  /\ inbox \subseteq Notification
  /\ leaving \in [Users -> LeavingRecord]
  /\ reclosers \in [Plans -> SUBSET Txns]
  /\ churn \in Nat
  /\ faults \in Nat

\* What transaction t holds at each point of its handler.
TxOK(t, rec) ==
  /\ rec \in TxRecord
  /\ rec.pc \notin {"idle", "done"} => rec.plan \in Plans
  /\ t \in Workers => /\ rec.pc \in {"idle", "checked", "read"}
                      /\ rec.pc # "idle" => rec.op = "auto_close"
  /\ t \in Requests => /\ rec.op # "auto_close"
                       /\ rec.pc \notin {"idle", "done"} => rec.user \in Users
                       /\ rec.op = "create" /\ rec.pc \in {"read", "inserted"} =>
                            rec.place \in Places
                       /\ rec.pc \in {"inserting", "flushed"} => rec.op = "respond"
                       /\ rec.pc = "inserted" => rec.op = "create"

TypeInv ==
  /\ DataOK
  /\ tx \in [Txns -> TxRecord]
  /\ \A t \in Txns : TxOK(t, tx[t])

LEMMA TypeInvImpliesTypeOK == TypeInv => TypeOK
BY DEF TypeInv, TypeOK, DataOK

LEMMA FinishedOK == \A t \in Txns : TxOK(t, Finished(t)) /\ TxOK(t, Idle)
BY DEF Txns, TxOK, Finished, Done, Idle, TxRecord

\* One transaction moves on, the tables keep their types.
LEMMA TxStep ==
  ASSUME TypeInv, DataOK', NEW t \in Txns, NEW rec, TxOK(t, rec),
         tx' = [tx EXCEPT ![t] = rec]
  PROVE  TypeInv'
BY DEF TypeInv, TxOK

LEMMA InitTypeInv == Init => TypeInv
<1> SUFFICES ASSUME Init PROVE TypeInv
  OBVIOUS
<1>1. DataOK
  BY DEF Init, DataOK, PlanStatus, VoteRow, NoVote, Notification, Stays, LeavingRecord
<1>2. \A t \in Txns : tx[t] = Idle
  BY DEF Init
<1>3. tx \in [Txns -> TxRecord]
  BY DEF Init, Idle, TxRecord
<1> QED BY <1>1, <1>2, <1>3, FinishedOK DEF TypeInv

\* Recipients that are users make well-formed notification rows.
LEMMA NotificationsType ==
  ASSUME NEW users \in SUBSET Users, NEW type \in NotificationType,
         NEW p \in Plans, NEW t \in Txns
  PROVE  Notifications(users, type, p, t) \subseteq Notification
BY DEF Notifications, Notification

\* Nobody but users answers, is heard or takes part.
LEMMA QueriesType ==
  ASSUME DataOK, NEW p
  PROVE  /\ Voters(p) \subseteq Users
         /\ Participants(p) \subseteq Users
         /\ PendingMembers(p) \subseteq Users
         /\ \A u : LiveVotes(p, u) \subseteq Requests
BY DEF DataOK, Voters, Participants, PendingMembers, LiveVotes

\* The tables keep their types when nothing but tx and inbox changes.
LEMMA InboxStep ==
  ASSUME DataOK, inbox' \subseteq Notification,
         UNCHANGED <<planVars, vote, roomVars, leaving, reclosers, boundVars>>
  PROVE  DataOK'
BY DEF DataOK, planVars, roomVars, boundVars

\* A transaction moves on with what it has read, and may lock rows of users.
LEMMA HoldsMore ==
  ASSUME NEW t \in Txns, NEW rec, TxOK(t, rec), NEW held \in SUBSET Users
  PROVE  TxOK(t, [rec EXCEPT !.holds = held])
BY DEF TxOK, TxRecord

\* Nothing changes but a withdrawal and the bounds.
LEMMA LeavingStep ==
  ASSUME DataOK, NEW u \in Users, NEW rec \in LeavingRecord,
         leaving' = [leaving EXCEPT ![u] = rec],
         UNCHANGED <<planVars, vote, roomVars, inbox, reclosers>>,
         churn' \in Nat, faults' \in Nat
  PROVE  DataOK'
BY DEF DataOK, planVars, roomVars

LEMMA CreateType ==
  ASSUME TypeInv, NEW r \in Requests,
         \/ \E u \in Users, place \in Places, p \in Plans : CreatePlanCheck(r, u, place, p)
         \/ CreatePlanInsert(r)
         \/ CreatePlanCommit(r)
  PROVE  TypeInv'
<1> USE DEF TypeInv
<1>1. CASE \E u \in Users, place \in Places, p \in Plans : CreatePlanCheck(r, u, place, p)
  <2>1. PICK u \in Users, place \in Places, p \in Plans : CreatePlanCheck(r, u, place, p)
    BY <1>1
  <2> DEFINE rec == [Idle EXCEPT !.pc = "read", !.op = "create",
                                 !.user = u, !.place = place, !.plan = p]
  <2>2. tx' = [tx EXCEPT ![r] = rec]
    BY <2>1 DEF CreatePlanCheck
  <2>3. TxOK(r, rec)
    BY DEF TxOK, TxRecord, Idle, AllOps
  <2>4. DataOK'
    BY <2>1, InboxStep DEF CreatePlanCheck, DataOK
  <2> QED BY <2>2, <2>3, <2>4, TxStep DEF Txns
<1>2. CASE CreatePlanCommit(r)
  <2>1. /\ tx[r].plan \in Plans /\ tx[r].user \in Users /\ tx[r].place \in Places
        /\ tx[r].notify \in SUBSET Users
    BY <1>2 DEF CreatePlanCommit, TxOK, TxRecord, Txns
  <2>2. Notifications(tx[r].notify, "PLAN_REQUESTED", tx[r].plan, r) \subseteq Notification
    BY <2>1, NotificationsType DEF NotificationType, Txns
  <2>3. DataOK'
    BY <1>2, <2>1, <2>2 DEF CreatePlanCommit, DataOK, PlanStatus, roomVars, boundVars
  <2>4. tx' = [tx EXCEPT ![r] = Finished(r)]
    BY <1>2 DEF CreatePlanCommit, Finished
  <2> QED BY <2>3, <2>4, FinishedOK, TxStep DEF Txns
<1>3. CASE CreatePlanInsert(r)
  <2> DEFINE asked == (member \cap active) \ {tx[r].user}
             rec == [tx[r] EXCEPT !.pc = "inserted", !.notify = asked, !.holds = {tx[r].user}]
  <2>1. tx' = [tx EXCEPT ![r] = rec] /\ tx[r].op = "create" /\ tx[r].pc = "read"
    BY <1>3 DEF CreatePlanInsert
  <2>2. asked \in SUBSET Users /\ TxOK(r, tx[r])
    BY DEF DataOK, Txns
  <2>3. TxOK(r, rec)
    <3> HIDE DEF asked
    <3> QED BY <2>1, <2>2 DEF TxOK, TxRecord
  <2>4. DataOK'
    BY <1>3, InboxStep DEF CreatePlanInsert, DataOK
  <2> QED BY <2>1, <2>3, <2>4, TxStep DEF Txns
<1> QED BY <1>1, <1>2, <1>3

\* A row that changes its answer is still a row.
LEMMA AnsweredRow ==
  ASSUME NEW row \in VoteRow, NEW going \in BOOLEAN
  PROVE  [row EXCEPT !.going = going] \in VoteRow
BY DEF VoteRow

LEMMA RespondType ==
  ASSUME TypeInv, NEW r \in Requests,
         \/ \E u \in Users, p \in Plans, going \in BOOLEAN :
              SavePlanResponseCheck(r, u, p, going)
         \/ SavePlanResponseInsert(r)
         \/ SavePlanResponseFlush(r)
         \/ SavePlanResponseFails(r)
         \/ SavePlanResponseCommit(r)
  PROVE  TypeInv'
<1> USE DEF TypeInv
<1>1. CASE \E u \in Users, p \in Plans, going \in BOOLEAN :
             SavePlanResponseCheck(r, u, p, going)
  <2>1. PICK u \in Users, p \in Plans, going \in BOOLEAN :
          SavePlanResponseCheck(r, u, p, going)
    BY <1>1
  <2>2. PICK v \in (IF LiveVotes(p, u) = {} THEN {NULL} ELSE LiveVotes(p, u)) :
          tx' = [tx EXCEPT ![r] =
                [Idle EXCEPT !.pc = "read", !.op = "respond", !.user = u,
                             !.plan = p, !.going = going, !.vote = v,
                             !.write = IF v = NULL THEN "insert"
                                       ELSE IF vote[v].going = going THEN "nothing"
                                       ELSE "update",
                             !.notify = IF going THEN {creator[p]} \ {NULL} ELSE {}]]
    BY <2>1 DEF SavePlanResponseCheck
  <2> DEFINE write == IF v = NULL THEN "insert"
                      ELSE IF vote[v].going = going THEN "nothing" ELSE "update"
             notify == IF going THEN {creator[p]} \ {NULL} ELSE {}
             rec == [Idle EXCEPT !.pc = "read", !.op = "respond", !.user = u,
                                 !.plan = p, !.going = going, !.vote = v,
                                 !.write = write, !.notify = notify]
  <2>3. v \in Requests \cup {NULL} /\ write \in {"insert", "update", "nothing"}
    BY QueriesType
  <2>4. notify \in SUBSET Users
    BY DEF DataOK
  <2>5. TxOK(r, rec)
    <3> HIDE DEF write, notify
    <3> QED BY <2>3, <2>4 DEF TxOK, TxRecord, Idle, AllOps
  <2>6. DataOK'
    BY <2>1, InboxStep DEF SavePlanResponseCheck, DataOK
  <2> QED BY <2>2, <2>5, <2>6, TxStep DEF Txns
<1>2. CASE SavePlanResponseFlush(r)
  <2> DEFINE rec == [tx[r] EXCEPT !.pc = "flushed"]
             locked == [tx[r] EXCEPT !.pc = "flushed", !.holds = {tx[r].user}]
  <2>1. tx' = [tx EXCEPT ![r] = locked] \/ tx' = [tx EXCEPT ![r] = rec]
    BY <1>2 DEF SavePlanResponseFlush
  <2>2. /\ tx[r].op = "respond" /\ tx[r].pc \in {"read", "inserting"}
        /\ TxOK(r, tx[r]) /\ tx[r].user \in Users
    BY <1>2 DEF SavePlanResponseFlush, TxOK, Txns
  <2>3. TxOK(r, rec) /\ TxOK(r, locked)
    BY <2>2 DEF TxOK, TxRecord
  <2>4. DataOK'
    BY <1>2, InboxStep DEF SavePlanResponseFlush, DataOK
  <2> HIDE DEF rec, locked
  <2> QED BY <2>1, <2>3, <2>4, TxStep DEF Txns
<1>3. CASE SavePlanResponseFails(r)
  <2>1. tx' = [tx EXCEPT ![r] = Finished(r)]
    BY <1>3 DEF SavePlanResponseFails, Finished
  <2>2. DataOK'
    BY <1>3, InboxStep DEF SavePlanResponseFails, DataOK
  <2> QED BY <2>1, <2>2, FinishedOK, TxStep DEF Txns
<1>4. CASE SavePlanResponseCommit(r)
  <2>1. /\ tx[r].plan \in Plans /\ tx[r].user \in Users /\ tx[r].going \in BOOLEAN
        /\ tx[r].notify \in SUBSET Users
    BY <1>4 DEF SavePlanResponseCommit, TxOK, Txns, TxRecord
  <2>2. Notifications(tx[r].notify, "MEMBER_GOING", tx[r].plan, r) \subseteq Notification
    BY <2>1, NotificationsType DEF NotificationType, Txns
  <2>3. vote' \in [Requests -> VoteRow]
    <3>1. CASE tx[r].write = "insert"
      BY <1>4, <2>1, <3>1 DEF SavePlanResponseCommit, DataOK, VoteRow
    <3>2. CASE tx[r].write = "update"
      <4>1. vote' = [vote EXCEPT ![tx[r].vote] = [@ EXCEPT !.going = tx[r].going]]
        BY <1>4, <3>2 DEF SavePlanResponseCommit
      <4>2. \A i \in Requests : vote'[i] = vote[i]
                                 \/ vote'[i] = [vote[i] EXCEPT !.going = tx[r].going]
        BY <4>1 DEF DataOK
      <4>3. \A i \in Requests : vote'[i] \in VoteRow
        <5> TAKE i \in Requests
        <5>1. vote[i] \in VoteRow
          BY DEF DataOK
        <5>2. [vote[i] EXCEPT !.going = tx[r].going] \in VoteRow
          BY <2>1, <5>1, AnsweredRow
        <5> QED BY <4>2, <5>1, <5>2
      <4>4. vote' = [i \in Requests |-> vote'[i]]
        BY <4>1 DEF DataOK
      <4> QED BY <4>3, <4>4
    <3>3. CASE tx[r].write \notin {"insert", "update"}
      BY <1>4, <3>3 DEF SavePlanResponseCommit, DataOK
    <3> QED BY <3>1, <3>2, <3>3
  <2>4. DataOK'
    BY <1>4, <2>2, <2>3 DEF SavePlanResponseCommit, DataOK, planVars, roomVars, boundVars
  <2>5. tx' = [tx EXCEPT ![r] = Finished(r)]
    BY <1>4 DEF SavePlanResponseCommit, Finished
  <2> QED BY <2>4, <2>5, FinishedOK, TxStep DEF Txns
<1>5. CASE SavePlanResponseInsert(r)
  <2> DEFINE rec == [tx[r] EXCEPT !.pc = "inserting"]
  <2>1. tx' = [tx EXCEPT ![r] = rec]
    BY <1>5 DEF SavePlanResponseInsert
  <2>2. TxOK(r, rec)
    BY <1>5 DEF SavePlanResponseInsert, TxOK, TxRecord, Txns
  <2>3. DataOK'
    BY <1>5, InboxStep DEF SavePlanResponseInsert, DataOK
  <2> QED BY <2>1, <2>2, <2>3, TxStep DEF Txns
<1> QED BY <1>1, <1>2, <1>3, <1>4, <1>5

LEMMA RemindType ==
  ASSUME TypeInv, NEW r \in Requests,
         \/ \E u \in Users, p \in Plans : SendRemindersCheck(r, u, p)
         \/ SendRemindersCommit(r)
  PROVE  TypeInv'
<1> USE DEF TypeInv
<1>1. CASE \E u \in Users, p \in Plans : SendRemindersCheck(r, u, p)
  <2>1. PICK u \in Users, p \in Plans : SendRemindersCheck(r, u, p)
    BY <1>1
  <2>2. PICK to \in {PendingMembers(p)} \cup {{m} : m \in PendingMembers(p)} :
          tx' = [tx EXCEPT ![r] = [Idle EXCEPT !.pc = "read", !.op = "remind",
                                               !.user = u, !.plan = p, !.notify = to]]
    BY <2>1 DEF SendRemindersCheck
  <2> DEFINE rec == [Idle EXCEPT !.pc = "read", !.op = "remind",
                                 !.user = u, !.plan = p, !.notify = to]
  <2>3. to \in SUBSET Users
    BY QueriesType
  <2>4. TxOK(r, rec)
    BY <2>3 DEF TxOK, TxRecord, Idle, AllOps
  <2>5. DataOK'
    BY <2>1, InboxStep DEF SendRemindersCheck, DataOK
  <2> QED BY <2>2, <2>4, <2>5, TxStep DEF Txns
<1>2. CASE SendRemindersCommit(r)
  <2>1. tx[r].plan \in Plans /\ tx[r].notify \in SUBSET Users
    BY <1>2 DEF SendRemindersCommit, TxOK, Txns, TxRecord
  <2>2. Notifications(tx[r].notify, "RESPONSE_DEADLINE_SOON", tx[r].plan, r)
          \subseteq Notification
    BY <2>1, NotificationsType DEF NotificationType, Txns
  <2>3. DataOK'
    BY <1>2, <2>2, InboxStep DEF SendRemindersCommit, DataOK
  <2>4. tx' = [tx EXCEPT ![r] = Finished(r)]
    BY <1>2 DEF SendRemindersCommit, Finished
  <2> QED BY <2>3, <2>4, FinishedOK, TxStep DEF Txns
<1> QED BY <1>1, <1>2

LEMMA ConfirmType ==
  ASSUME TypeInv,
         \/ \E r \in Requests, u \in Users, p \in Plans : ClosePlanCheck(r, u, p)
         \/ \E w \in Workers, p \in Plans : AutoCloseLock(w, p)
         \/ \E t \in Txns : Confirm(t)
  PROVE  TypeInv'
<1> USE DEF TypeInv
<1>1. ASSUME NEW r \in Requests, NEW u \in Users, NEW p \in Plans, ClosePlanCheck(r, u, p)
      PROVE  TypeInv'
  <2> DEFINE rec == [Idle EXCEPT !.pc = "checked", !.op = "close", !.user = u, !.plan = p]
  <2>1. tx' = [tx EXCEPT ![r] = rec]
    BY <1>1 DEF ClosePlanCheck
  <2>2. TxOK(r, rec)
    BY DEF TxOK, TxRecord, Idle, AllOps
  <2>3. DataOK'
    BY <1>1, InboxStep DEF ClosePlanCheck, DataOK
  <2> QED BY <2>1, <2>2, <2>3, TxStep DEF Txns
<1>2. ASSUME NEW w \in Workers, NEW p \in Plans, AutoCloseLock(w, p)
      PROVE  TypeInv'
  <2> DEFINE rec == [Idle EXCEPT !.pc = "checked", !.op = "auto_close", !.plan = p]
  <2>1. tx' = [tx EXCEPT ![w] = rec]
    BY <1>2 DEF AutoCloseLock
  <2>2. TxOK(w, rec)
    BY DEF TxOK, TxRecord, Idle, AllOps
  <2>3. DataOK'
    BY <1>2, InboxStep DEF AutoCloseLock, DataOK
  <2> QED BY <2>1, <2>2, <2>3, TxStep DEF Txns
<1>3. ASSUME NEW t \in Txns, ConfirmCollect(t)
      PROVE  TypeInv'
  <2> DEFINE rec == [tx[t] EXCEPT !.pc = "read",
                                  !.heard = Voters(tx[t].plan),
                                  !.notify = Participants(tx[t].plan) \ {tx[t].user}]
  <2>1. tx' = [tx EXCEPT ![t] = rec]
    BY <1>3 DEF ConfirmCollect
  <2>2. tx[t].op \in {"close", "auto_close"} /\ tx[t].pc = "checked"
    BY <1>3 DEF ConfirmCollect
  <2>3. TxOK(t, tx[t])
    OBVIOUS
  <2>4. Voters(tx[t].plan) \in SUBSET Users
        /\ (Participants(tx[t].plan) \ {tx[t].user}) \in SUBSET Users
    BY QueriesType
  <2>5. TxOK(t, rec)
    BY <2>2, <2>3, <2>4 DEF TxOK, TxRecord
  <2>6. DataOK'
    BY <1>3, InboxStep DEF ConfirmCollect, DataOK
  <2> QED BY <2>1, <2>5, <2>6, TxStep
<1>4. ASSUME NEW t \in Txns, ConfirmCommit(t)
      PROVE  TypeInv'
  <2>1. tx[t].plan \in Plans /\ tx[t].notify \in SUBSET Users
    BY <1>4 DEF ConfirmCommit, TxOK, TxRecord
  <2>2. Notifications(tx[t].notify, "PLAN_CONFIRMED", tx[t].plan, t) \subseteq Notification
    BY <2>1, NotificationsType DEF NotificationType
  <2>3. DataOK'
    BY <1>4, <2>1, <2>2 DEF ConfirmCommit, DataOK, PlanStatus, roomVars, boundVars
  <2>4. tx' = [tx EXCEPT ![t] = Finished(t)]
    BY <1>4 DEF ConfirmCommit
  <2> QED BY <2>3, <2>4, FinishedOK, TxStep
<1> QED BY <1>1, <1>2, <1>3, <1>4 DEF Confirm

LEMMA AroundType ==
  ASSUME TypeInv,
         \/ \E t \in Txns : Rollback(t)
         \/ \E t \in Txns, u \in Users : LocksUserRow(t, u)
         \/ \E p \in Plans : DeadlinePasses(p)
         \/ \E u \in Users : LeaveRoom(u)
  PROVE  TypeInv'
<1> USE DEF TypeInv
<1>1. ASSUME NEW t \in Txns, Rollback(t)
      PROVE  TypeInv'
  <2>1. DataOK'
    BY <1>1 DEF Rollback, DataOK, planVars, roomVars
  <2>2. tx' = [tx EXCEPT ![t] = Finished(t)]
    BY <1>1 DEF Rollback
  <2> QED BY <2>1, <2>2, FinishedOK, TxStep
<1>2. ASSUME NEW t \in Txns, NEW u \in Users, LocksUserRow(t, u)
      PROVE  TypeInv'
  <2> DEFINE rec == [tx[t] EXCEPT !.holds = tx[t].holds \cup {u}]
  <2>1. tx' = [tx EXCEPT ![t] = rec]
    BY <1>2 DEF LocksUserRow
  <2>2. tx[t].holds \cup {u} \in SUBSET Users
    BY DEF TxRecord
  <2>3. TxOK(t, rec)
    BY <2>2, HoldsMore
  <2>4. DataOK'
    BY <1>2, InboxStep DEF LocksUserRow, DataOK
  <2> QED BY <2>1, <2>3, <2>4, TxStep
<1>3. ASSUME NEW p \in Plans, DeadlinePasses(p)
      PROVE  TypeInv'
  BY <1>3 DEF DeadlinePasses, DataOK, roomVars, boundVars, TxOK
<1>4. ASSUME NEW u \in Users, LeaveRoom(u)
      PROVE  TypeInv'
  BY <1>4 DEF LeaveRoom, DataOK, planVars, TxOK
<1> QED BY <1>1, <1>2, <1>3, <1>4

\* The points of a withdrawal, and what it has found at each.
LEMMA LeavingPoints ==
  ASSUME NEW rec \in LeavingRecord, NEW votes \in SUBSET Requests, NEW plans \in SUBSET Plans
  PROVE  /\ [rec EXCEPT !.pc = "plans", !.votes = votes] \in LeavingRecord
         /\ [rec EXCEPT !.pc = "users", !.plans = plans] \in LeavingRecord
         /\ [rec EXCEPT !.pc = "awaits"] \in LeavingRecord
BY DEF LeavingRecord

\* A withdrawal that does not commit writes nothing that others see.
LEMMA WithdrawStill ==
  ASSUME TypeInv, NEW u \in Users,
         WithdrawBegins(u) \/ WithdrawTakesVotes(u) \/ WithdrawTakesPlans(u)
           \/ WithdrawTakesUser(u) \/ WithdrawFails(u)
  PROVE  /\ UNCHANGED <<planVars, vote, roomVars, inbox, tx, reclosers>>
         /\ churn' \in Nat /\ faults' \in Nat
         /\ \E rec \in LeavingRecord : leaving' = [leaving EXCEPT ![u] = rec]
<1>1. leaving[u] \in LeavingRecord
  BY DEF TypeInv, DataOK
<1> USE DEF TypeInv, DataOK
<1>2. CASE WithdrawBegins(u)
  <2> DEFINE rec == [leaving[u] EXCEPT !.pc = "votes"]
  <2>1. rec \in LeavingRecord
    BY <1>1 DEF LeavingRecord
  <2>2. leaving' = [leaving EXCEPT ![u] = rec]
    BY <1>2 DEF WithdrawBegins
  <2>3. churn' \in Nat /\ faults' \in Nat
    BY <1>2 DEF WithdrawBegins
  <2>4. UNCHANGED <<planVars, vote, roomVars, inbox, tx, reclosers>>
    BY <1>2 DEF WithdrawBegins
  <2> HIDE DEF rec
  <2> QED BY <2>1, <2>2, <2>3, <2>4
<1>3. CASE WithdrawTakesVotes(u)
  <2> DEFINE votes == {i \in Requests : vote[i].state = "live" /\ vote[i].user = u}
  <2>1. leaving' = [leaving EXCEPT ![u] = [leaving[u] EXCEPT !.pc = "plans", !.votes = votes]]
    BY <1>3 DEF WithdrawTakesVotes
  <2>2. votes \in SUBSET Requests
    OBVIOUS
  <2> HIDE DEF votes
  <2> QED BY <1>1, <1>3, <2>1, <2>2, LeavingPoints DEF WithdrawTakesVotes, boundVars
<1>4. CASE WithdrawTakesPlans(u)
  <2> DEFINE plans == {p \in Plans : creator[p] = u}
  <2>1. leaving' = [leaving EXCEPT ![u] = [leaving[u] EXCEPT !.pc = "users", !.plans = plans]]
    BY <1>4 DEF WithdrawTakesPlans
  <2>2. plans \in SUBSET Plans
    OBVIOUS
  <2> HIDE DEF plans
  <2> QED BY <1>1, <1>4, <2>1, <2>2, LeavingPoints DEF WithdrawTakesPlans, boundVars
<1>5. CASE WithdrawTakesUser(u)
  BY <1>1, <1>5, LeavingPoints DEF WithdrawTakesUser, boundVars
<1>6. CASE WithdrawFails(u)
  <2>1. leaving' = [leaving EXCEPT ![u] = Stays] /\ Stays \in LeavingRecord
    BY <1>6 DEF WithdrawFails, Stays, LeavingRecord
  <2>2. churn' \in Nat /\ faults' \in Nat
    BY <1>6 DEF WithdrawFails
  <2>3. UNCHANGED <<planVars, vote, roomVars, inbox, tx, reclosers>>
    BY <1>6 DEF WithdrawFails
  <2> QED BY <2>1, <2>2, <2>3
<1> QED BY <1>2, <1>3, <1>4, <1>5, <1>6

\* The deadlock detector ends a request, or a withdrawal.
LEMMA DeadlockEnds ==
  ASSUME NEW r \in Requests, NEW u \in Users, DeadlockDetected(r, u)
  PROVE  /\ UNCHANGED <<planVars, vote, roomVars, inbox, reclosers, boundVars>>
         /\ tx[r].pc = "read"
         /\ \/ tx' = [tx EXCEPT ![r] = Finished(r)] /\ leaving' = leaving
            \/ tx' = tx /\ leaving' = [leaving EXCEPT ![u] = Stays]
BY DEF DeadlockDetected, Finished

LEMMA WithdrawType ==
  ASSUME TypeInv, NEW u \in Users,
         \/ WithdrawBegins(u) \/ Withdraw(u) \/ WithdrawFails(u)
         \/ \E r \in Requests : DeadlockDetected(r, u)
  PROVE  TypeInv'
<1> USE DEF TypeInv
<1>1. CASE WithdrawBegins(u) \/ WithdrawTakesVotes(u) \/ WithdrawTakesPlans(u)
             \/ WithdrawTakesUser(u) \/ WithdrawFails(u)
  <2>1. DataOK' /\ tx' = tx
    BY <1>1, WithdrawStill, LeavingStep
  <2> QED BY <2>1 DEF TxOK
<1>2. CASE WithdrawCommit(u)
  <2>1. vote' \in [Requests -> VoteRow]
    BY <1>2 DEF WithdrawCommit, DataOK, VoteRow
  <2>2. creator' \in [Plans -> Users \cup {NULL}] /\ host' \in Users \cup {NULL}
    BY <1>2 DEF WithdrawCommit, DataOK
  <2>3. leaving' \in [Users -> LeavingRecord]
    <3>1. Stays \in LeavingRecord
      BY DEF Stays, LeavingRecord
    <3> QED BY <1>2, <3>1 DEF WithdrawCommit, DataOK
  <2>4. active' \subseteq Users /\ member' \subseteq Users
    BY <1>2 DEF WithdrawCommit, DataOK
  <2>5. DataOK' /\ tx' = tx
    BY <1>2, <2>1, <2>2, <2>3, <2>4 DEF WithdrawCommit, DataOK, boundVars
  <2> QED BY <2>5 DEF TxOK
<1>3. ASSUME NEW r \in Requests, DeadlockDetected(r, u)
      PROVE  TypeInv'
  <2>1. /\ UNCHANGED <<planVars, vote, roomVars, inbox, reclosers, boundVars>>
        /\ \/ tx' = [tx EXCEPT ![r] = Finished(r)] /\ leaving' = leaving
           \/ tx' = tx /\ leaving' = [leaving EXCEPT ![u] = Stays]
    BY <1>3, DeadlockEnds
  <2>2. CASE tx' = [tx EXCEPT ![r] = Finished(r)] /\ leaving' = leaving
    <3>1. DataOK'
      BY <2>1, <2>2, InboxStep DEF DataOK
    <3> QED BY <2>2, <3>1, FinishedOK, TxStep DEF Txns
  <2>3. CASE tx' = tx /\ leaving' = [leaving EXCEPT ![u] = Stays]
    <3>1. Stays \in LeavingRecord
      BY DEF Stays, LeavingRecord
    <3>2. DataOK'
      BY <2>1, <2>3, <3>1, LeavingStep DEF DataOK, boundVars
    <3> QED BY <2>3, <3>2 DEF TxOK
  <2> QED BY <2>1, <2>2, <2>3
<1> QED BY <1>1, <1>2, <1>3 DEF Withdraw

LEMMA NextTypeInv == TypeInv /\ [Next]_vars => TypeInv'
<1> SUFFICES ASSUME TypeInv, [Next]_vars PROVE TypeInv'
  OBVIOUS
<1>1. CASE UNCHANGED vars
  BY <1>1 DEF vars, TypeInv, DataOK, TxOK
<1>2. CASE Next
  BY <1>2, CreateType, RespondType, RemindType, ConfirmType, AroundType, WithdrawType
  DEF Next, Arrive, Continue
<1> QED BY <1>1, <1>2

\* Every variable keeps its type: rows are rows, handlers hold what their
\* point in the code has read, for any number of users, requests and workers.
THEOREM TypeCorrect == Spec => []TypeOK
<1>1. Spec => []TypeInv
  BY InitTypeInv, NextTypeInv, PTL DEF Spec
<1> QED BY <1>1, TypeInvImpliesTypeOK, PTL

-----------------------------------------------------------------------------
(* Row locks: the auto-close worker against voters and closers             *)

Locks(w, p) == tx[w].pc \in {"checked", "read"} /\ tx[w].plan = p

\* A vote that is inserted and not committed yet.
Inserting(r) == tx[r].pc = "flushed" /\ tx[r].write = "insert"

\* A plan is locked by one worker at a time ...
OneWorkerPerPlan ==
  \A v, w \in Workers, p \in Plans : Locks(v, p) /\ Locks(w, p) => v = w

\* ... and not while a vote on it is being inserted.
InsertsKeepWorkersOut ==
  \A w \in Workers, r \in Requests : Inserting(r) => ~Locks(w, tx[r].plan)

LockInv ==
  /\ OneWorkerPerPlan
  /\ InsertsKeepWorkersOut
  /\ LockedPlanIsOpen
  /\ AutoCloseNeverRecloses
  /\ AutoCloseHearsEveryVoter

LEMMA InitLockInv == Init => LockInv
<1> SUFFICES ASSUME Init PROVE LockInv
  OBVIOUS
<1>1. \A t \in Txns : tx[t].pc = "idle"
  BY DEF Init, Idle
<1>2. \A p \in Plans : reclosers[p] = {}
  BY DEF Init
<1> QED
  BY <1>1, <1>2 DEF LockInv, OneWorkerPerPlan, InsertsKeepWorkersOut, LockedPlanIsOpen,
     AutoCloseNeverRecloses, AutoCloseHearsEveryVoter, Locks, Inserting, Txns

\* One transaction moves; the others keep what they hold.
Moves(t) == \A s \in Txns : s # t => tx'[s] = tx[s]

LEMMA MovesOne ==
  ASSUME TypeInv, NEW t \in Txns, NEW rec, tx' = [tx EXCEPT ![t] = rec]
  PROVE  Moves(t) /\ tx'[t] = rec
BY DEF TypeInv, Moves

LEMMA FinishedPC ==
  ASSUME NEW t
  PROVE  /\ t \in Workers => Finished(t).pc = "idle"
         /\ Finished(t).pc \in {"idle", "done"}
         /\ Done.pc = "done"
BY DEF Finished, Done, Idle

\* A step after which t holds no lock, and which adds no vote.
LEMMA LockFreeStep ==
  ASSUME LockInv, NEW t \in Txns, Moves(t),
         t \in Workers => tx'[t].pc = "idle",
         tx'[t].pc # "flushed",
         \A w \in Workers : w # t /\ tx[w].pc \in {"checked", "read"} =>
           status'[tx[w].plan] = "VOTING",
         \A p : Voters(p)' \subseteq Voters(p),
         AutoCloseNeverRecloses'
  PROVE  LockInv'
<1>1. OneWorkerPerPlan' /\ InsertsKeepWorkersOut'
  BY DEF Moves, LockInv, OneWorkerPerPlan, InsertsKeepWorkersOut, Locks, Inserting, Txns
<1>2. LockedPlanIsOpen'
  BY DEF Moves, LockedPlanIsOpen, Txns
<1>3. AutoCloseHearsEveryVoter'
  BY DEF Moves, LockInv, AutoCloseHearsEveryVoter, Txns
<1> QED BY <1>1, <1>2, <1>3 DEF LockInv

\* A step of a handler that neither holds a lock nor changes the tables.
LEMMA QuietStep ==
  ASSUME LockInv, NEW t \in Txns, Moves(t),
         t \in Workers => tx'[t].pc = "idle",
         tx'[t].pc # "flushed",
         UNCHANGED <<status, vote, reclosers>>
  PROVE  LockInv'
<1>1. \A p : Voters(p)' = Voters(p)
  BY DEF Voters
<1>2. AutoCloseNeverRecloses'
  BY DEF LockInv, AutoCloseNeverRecloses
<1>3. \A w \in Workers : tx[w].pc \in {"checked", "read"} => status'[tx[w].plan] = "VOTING"
  BY DEF LockInv, LockedPlanIsOpen
<1> QED BY <1>1, <1>2, <1>3, LockFreeStep

\* A handler that has just passed its checks.
LEMMA ArriveMoves ==
  ASSUME TypeInv, NEW r \in Requests, Arrive(r)
  PROVE  /\ Moves(r)
         /\ tx[r].pc = "idle"
         /\ tx'[r].pc \in {"read", "checked"}
         /\ UNCHANGED <<planVars, vote, inbox, leaving, reclosers>>
<1>1. UNCHANGED <<planVars, vote, inbox, leaving, reclosers>> /\ tx[r].pc = "idle"
  BY DEF Arrive, CreatePlanCheck, SavePlanResponseCheck, ClosePlanCheck, SendRemindersCheck
<1>2. ASSUME NEW u, NEW place, NEW p, CreatePlanCheck(r, u, place, p)
      PROVE  Moves(r) /\ tx'[r].pc = "read"
  <2> DEFINE rec == [Idle EXCEPT !.pc = "read", !.op = "create",
                                 !.user = u, !.place = place, !.plan = p]
  <2>1. tx' = [tx EXCEPT ![r] = rec] /\ rec.pc = "read"
    BY <1>2 DEF CreatePlanCheck, Idle
  <2> QED BY <2>1, MovesOne DEF Txns
<1>3. ASSUME NEW u, NEW p, NEW going, SavePlanResponseCheck(r, u, p, going)
      PROVE  Moves(r) /\ tx'[r].pc = "read"
  <2>1. PICK v : tx' = [tx EXCEPT ![r] =
                [Idle EXCEPT !.pc = "read", !.op = "respond", !.user = u,
                             !.plan = p, !.going = going, !.vote = v,
                             !.write = IF v = NULL THEN "insert"
                                       ELSE IF vote[v].going = going THEN "nothing"
                                       ELSE "update",
                             !.notify = IF going THEN {creator[p]} \ {NULL} ELSE {}]]
    BY <1>3 DEF SavePlanResponseCheck
  <2> DEFINE rec == [Idle EXCEPT !.pc = "read", !.op = "respond", !.user = u,
                                 !.plan = p, !.going = going, !.vote = v,
                                 !.write = IF v = NULL THEN "insert"
                                           ELSE IF vote[v].going = going THEN "nothing"
                                           ELSE "update",
                                 !.notify = IF going THEN {creator[p]} \ {NULL} ELSE {}]
  <2>2. rec.pc = "read"
    BY DEF Idle
  <2> QED BY <2>1, <2>2, MovesOne DEF Txns
<1>4. ASSUME NEW u, NEW p, ClosePlanCheck(r, u, p)
      PROVE  Moves(r) /\ tx'[r].pc = "checked"
  <2> DEFINE rec == [Idle EXCEPT !.pc = "checked", !.op = "close", !.user = u, !.plan = p]
  <2>1. tx' = [tx EXCEPT ![r] = rec] /\ rec.pc = "checked"
    BY <1>4 DEF ClosePlanCheck, Idle
  <2> QED BY <2>1, MovesOne DEF Txns
<1>5. ASSUME NEW u, NEW p, SendRemindersCheck(r, u, p)
      PROVE  Moves(r) /\ tx'[r].pc = "read"
  <2>1. PICK to : tx' = [tx EXCEPT ![r] = [Idle EXCEPT !.pc = "read", !.op = "remind",
                                             !.user = u, !.plan = p, !.notify = to]]
    BY <1>5 DEF SendRemindersCheck
  <2> DEFINE rec == [Idle EXCEPT !.pc = "read", !.op = "remind",
                                 !.user = u, !.plan = p, !.notify = to]
  <2>2. rec.pc = "read"
    BY DEF Idle
  <2> QED BY <2>1, <2>2, MovesOne DEF Txns
<1> QED BY <1>1, <1>2, <1>3, <1>4, <1>5 DEF Arrive

\* Rows of users that a transaction locks are not its plan or its vote.
LEMMA SameLocks ==
  ASSUME LockInv, UNCHANGED <<status, vote, reclosers>>,
         \A s \in Txns : /\ tx'[s].pc = tx[s].pc /\ tx'[s].plan = tx[s].plan
                         /\ tx'[s].write = tx[s].write /\ tx'[s].heard = tx[s].heard
  PROVE  LockInv'
<1>1. \A p : Voters(p)' = Voters(p)
  BY DEF Voters
<1>2. OneWorkerPerPlan' /\ InsertsKeepWorkersOut'
  BY DEF LockInv, OneWorkerPerPlan, InsertsKeepWorkersOut, Locks, Inserting, Txns
<1>3. LockedPlanIsOpen' /\ AutoCloseNeverRecloses' /\ AutoCloseHearsEveryVoter'
  BY <1>1 DEF LockInv, LockedPlanIsOpen, AutoCloseNeverRecloses, AutoCloseHearsEveryVoter, Txns
<1> QED BY <1>2, <1>3 DEF LockInv

\* A transaction that locks a row of users keeps everything else it has.
LEMMA OnlyHolds ==
  ASSUME TypeInv, NEW t \in Txns, NEW u \in Users, LocksUserRow(t, u)
  PROVE  /\ UNCHANGED <<planVars, vote, roomVars, inbox, leaving, reclosers, boundVars>>
         /\ Moves(t) /\ tx[t].pc \notin {"idle", "done"}
         /\ \A s \in Txns : /\ tx'[s].pc = tx[s].pc /\ tx'[s].op = tx[s].op
                            /\ tx'[s].plan = tx[s].plan /\ tx'[s].user = tx[s].user
                            /\ tx'[s].write = tx[s].write /\ tx'[s].vote = tx[s].vote
                            /\ tx'[s].heard = tx[s].heard
<1>1. /\ UNCHANGED <<planVars, vote, roomVars, inbox, leaving, reclosers, boundVars>>
      /\ tx' = [tx EXCEPT ![t] = [tx[t] EXCEPT !.holds = tx[t].holds \cup {u}]]
  BY DEF LocksUserRow
<1>2. tx[t] \in TxRecord
  BY DEF TypeInv
<1>3. tx[t].pc \notin {"idle", "done"}
  BY DEF LocksUserRow, HasToWait
<1> QED BY <1>1, <1>2, <1>3, MovesOne DEF Moves, TxRecord

LEMMA ArriveLocks ==
  ASSUME TypeInv, LockInv, NEW r \in Requests, Arrive(r)
  PROVE  LockInv'
BY ArriveMoves, QuietStep DEF Txns, planVars

LEMMA ContinueLocks ==
  ASSUME TypeInv, LockInv, NEW r \in Requests, Continue(r)
  PROVE  LockInv'
<1>1. CASE CreatePlanCommit(r)
  <2>1. \A w \in Workers : tx[w].pc \in {"checked", "read"} =>
          status'[tx[w].plan] = "VOTING"
    BY <1>1 DEF CreatePlanCommit, LockInv, LockedPlanIsOpen, TypeInv, DataOK, TxOK, Txns
  <2>2. \A p : Voters(p)' = Voters(p)
    BY <1>1 DEF CreatePlanCommit, Voters
  <2>3. AutoCloseNeverRecloses'
    BY <1>1 DEF CreatePlanCommit, LockInv, AutoCloseNeverRecloses
  <2>4. Moves(r) /\ tx'[r].pc = "done"
    BY <1>1, MovesOne, FinishedPC DEF CreatePlanCommit, Txns
  <2> QED BY <2>1, <2>2, <2>3, <2>4, LockFreeStep DEF Txns
<1>2. CASE SavePlanResponseFlush(r)
  <2>1. /\ UNCHANGED <<status, vote, reclosers>>
        /\ tx[r].pc \in {"read", "inserting"}
        /\ \A s \in Txns : s # r => tx'[s] = tx[s]
        /\ tx'[r].plan = tx[r].plan /\ tx'[r].write = tx[r].write
    BY <1>2 DEF SavePlanResponseFlush, TypeInv, TxRecord, Txns, planVars
  <2>2. tx[r].write = "insert" => LockedForUpdate(tx[r].plan) = {}
    BY <1>2 DEF SavePlanResponseFlush, ForeignKeysWait
  <2>3. \A w \in Workers : tx'[w] = tx[w]
    BY <2>1 DEF Txns
  <2>4. InsertsKeepWorkersOut'
    BY <2>1, <2>2, <2>3 DEF LockInv, InsertsKeepWorkersOut, Inserting, Locks, LockedForUpdate,
       Txns
  <2>5. \A p : Voters(p)' = Voters(p)
    BY <2>1 DEF Voters
  <2> QED
    BY <2>1, <2>3, <2>4, <2>5 DEF LockInv, OneWorkerPerPlan, LockedPlanIsOpen, Locks,
       AutoCloseNeverRecloses, AutoCloseHearsEveryVoter
<1>3. CASE SavePlanResponseFails(r)
  <2>1. Moves(r) /\ tx'[r].pc = "done"
    BY <1>3, MovesOne, FinishedPC DEF SavePlanResponseFails, Txns
  <2> QED BY <1>3, <2>1, QuietStep DEF SavePlanResponseFails, planVars, Txns
<1>4. CASE SavePlanResponseCommit(r)
  <2>1. /\ tx' = [tx EXCEPT ![r] = Done]
        /\ UNCHANGED <<status, reclosers>>
    BY <1>4 DEF SavePlanResponseCommit, planVars
  <2>2. tx[r].pc = "flushed" /\ \A w \in Workers : tx'[w] = tx[w]
    BY <1>4, <2>1 DEF SavePlanResponseCommit, TypeInv, Txns
  <2>3. \A p : (tx[r].write = "insert" /\ tx[r].plan = p) \/ Voters(p)' \subseteq Voters(p)
    BY <1>4 DEF SavePlanResponseCommit, Voters, TypeInv, DataOK, VoteRow
  <2>4. AutoCloseHearsEveryVoter'
    BY <2>2, <2>3 DEF LockInv, InsertsKeepWorkersOut, Inserting, Locks,
       AutoCloseHearsEveryVoter
  <2>5. \A s \in Requests : s # r => tx'[s] = tx[s]
    BY <2>1 DEF TypeInv, Txns
  <2>6. tx'[r].pc = "done"
    BY <2>1 DEF TypeInv, Done, Idle, Txns
  <2> QED
    BY <2>1, <2>2, <2>4, <2>5, <2>6 DEF LockInv, OneWorkerPerPlan, InsertsKeepWorkersOut,
       Inserting, LockedPlanIsOpen, Locks, AutoCloseNeverRecloses
<1>5. CASE SendRemindersCommit(r)
  <2>1. Moves(r) /\ tx'[r].pc = "done"
    BY <1>5, MovesOne, FinishedPC DEF SendRemindersCommit, Txns
  <2> QED BY <1>5, <2>1, QuietStep DEF SendRemindersCommit, planVars, Txns
<1>6. CASE CreatePlanInsert(r)
  <2>1. Moves(r) /\ tx'[r].pc = "inserted"
    BY <1>6 DEF CreatePlanInsert, Moves, TypeInv, TxRecord, Txns
  <2> QED BY <1>6, <2>1, QuietStep DEF CreatePlanInsert, planVars, Txns
<1>7. CASE SavePlanResponseInsert(r)
  <2>1. Moves(r) /\ tx'[r].pc = "inserting"
    BY <1>7 DEF SavePlanResponseInsert, Moves, TypeInv, TxRecord, Txns
  <2> QED BY <1>7, <2>1, QuietStep DEF SavePlanResponseInsert, planVars, Txns
<1> QED BY <1>1, <1>2, <1>3, <1>4, <1>5, <1>6, <1>7 DEF Continue

\* The lock is taken only where nobody has it and no vote is on its way.
LEMMA AutoCloseLocks ==
  ASSUME TypeInv, LockInv, NEW w \in Workers, NEW p \in Plans, AutoCloseLock(w, p)
  PROVE  LockInv'
<1>1. /\ tx' = [tx EXCEPT ![w] = [Idle EXCEPT !.pc = "checked", !.op = "auto_close",
                                              !.plan = p]]
      /\ UNCHANGED <<status, vote, reclosers>>
      /\ status[p] = "VOTING"
      /\ LockedForUpdate(p) = {} /\ LockedForKeyShare(p) = {}
  BY DEF AutoCloseLock, planVars
<1>2. tx'[w].pc = "checked" /\ tx'[w].plan = p
  BY <1>1 DEF TypeInv, Idle, Txns
<1>3. \A t \in Txns : t # w => tx'[t] = tx[t]
  BY <1>1 DEF TypeInv
<1>4. \A q : Voters(q)' = Voters(q)
  BY <1>1 DEF Voters
<1>5. OneWorkerPerPlan'
  BY <1>1, <1>2, <1>3 DEF LockInv, OneWorkerPerPlan, Locks, LockedForUpdate, Txns
<1>6. InsertsKeepWorkersOut'
  BY <1>1, <1>2, <1>3 DEF LockInv, InsertsKeepWorkersOut, Locks, Inserting,
     LockedForKeyShare, Txns
<1> QED
  BY <1>1, <1>2, <1>3, <1>4, <1>5, <1>6 DEF LockInv, LockedPlanIsOpen, Txns,
     AutoCloseNeverRecloses, AutoCloseHearsEveryVoter

LEMMA ConfirmLocks ==
  ASSUME TypeInv, LockInv, NEW t \in Txns, Confirm(t)
  PROVE  LockInv'
<1>1. CASE ConfirmCollect(t)
  <2>1. /\ tx[t].pc = "checked"
        /\ tx' = [tx EXCEPT ![t].pc = "read", ![t].heard = Voters(tx[t].plan),
                            ![t].notify = Participants(tx[t].plan) \ {tx[t].user}]
        /\ UNCHANGED <<status, vote, reclosers>>
    BY <1>1 DEF ConfirmCollect, planVars
  <2>2. /\ tx'[t].pc = "read" /\ tx'[t].plan = tx[t].plan
        /\ tx'[t].heard = Voters(tx[t].plan)
    BY <2>1 DEF TypeInv, TxRecord
  <2>3. \A s \in Txns : s # t => tx'[s] = tx[s]
    BY <2>1 DEF TypeInv
  <2>4. \A p : Voters(p)' = Voters(p)
    BY <2>1 DEF Voters
  <2>5. \A w \in Workers, p \in Plans : Locks(w, p)' <=> Locks(w, p)
    BY <2>1, <2>2, <2>3 DEF Locks, Txns
  <2>6. OneWorkerPerPlan'
    BY <2>5 DEF LockInv, OneWorkerPerPlan
  <2>7. \A r \in Requests : Inserting(r)' => Inserting(r) /\ tx'[r] = tx[r]
    BY <2>2, <2>3 DEF Inserting, Txns
  <2>8. InsertsKeepWorkersOut'
    <3> SUFFICES ASSUME NEW w \in Workers, NEW r \in Requests, Inserting(r)',
                        Locks(w, tx[r].plan)'
                 PROVE  FALSE
      BY DEF InsertsKeepWorkersOut
    <3>1. Inserting(r) /\ tx'[r].plan = tx[r].plan /\ tx[r].plan \in Plans
      BY <2>7 DEF TypeInv, TxOK, Inserting, Txns
    <3>2. Locks(w, tx[r].plan)
      BY <2>5, <3>1 DEF Locks
    <3> QED BY <3>1, <3>2 DEF LockInv, InsertsKeepWorkersOut
  <2>9. AutoCloseHearsEveryVoter'
    BY <2>2, <2>3, <2>4 DEF LockInv, AutoCloseHearsEveryVoter, Txns
  <2>10. LockedPlanIsOpen'
    <3> SUFFICES ASSUME NEW w \in Workers, tx'[w].pc \in {"checked", "read"}
                 PROVE  status'[tx'[w].plan] = "VOTING"
      BY DEF LockedPlanIsOpen
    <3>1. tx'[w].plan = tx[w].plan /\ tx[w].pc \in {"checked", "read"}
      BY <2>1, <2>2, <2>3 DEF Txns
    <3> QED BY <2>1, <3>1 DEF LockInv, LockedPlanIsOpen
  <2> QED
    BY <2>1, <2>6, <2>8, <2>9, <2>10 DEF LockInv, AutoCloseNeverRecloses
<1>2. CASE ConfirmCommit(t)
  <2>1. /\ tx[t].pc = "read"
        /\ LockedForUpdate(tx[t].plan) \ {t} = {}
        /\ status' = [status EXCEPT ![tx[t].plan] = "CONFIRMED"]
        /\ reclosers' = IF status[tx[t].plan] = "CONFIRMED"
                          THEN [reclosers EXCEPT ![tx[t].plan] = @ \cup {t}]
                          ELSE reclosers
        /\ tx' = [tx EXCEPT ![t] = Finished(t)]
        /\ vote' = vote
    BY <1>2 DEF ConfirmCommit, ConfirmMustWait
  <2>2. \A w \in Workers : w # t /\ tx[w].pc \in {"checked", "read"} =>
          status'[tx[w].plan] = "VOTING"
    BY <2>1 DEF LockedForUpdate, LockInv, LockedPlanIsOpen, TypeInv, DataOK
  <2>3. AutoCloseNeverRecloses'
    <3>1. CASE t \in Workers
      BY <2>1, <3>1 DEF LockInv, LockedPlanIsOpen, AutoCloseNeverRecloses
    <3>2. CASE t \notin Workers
      BY <2>1, <3>2 DEF LockInv, AutoCloseNeverRecloses, TypeInv, DataOK
    <3> QED BY <3>1, <3>2
  <2>4. \A p : Voters(p)' = Voters(p)
    BY <2>1 DEF Voters
  <2>5. Moves(t) /\ tx'[t] = Finished(t)
    BY <2>1, MovesOne
  <2> QED BY <2>2, <2>3, <2>4, <2>5, FinishedPC, LockFreeStep
<1> QED BY <1>1, <1>2 DEF Confirm

LEMMA AroundLocks ==
  ASSUME TypeInv, LockInv,
         \/ \E t \in Txns : Rollback(t)
         \/ \E t \in Txns, u \in Users : LocksUserRow(t, u)
         \/ \E r \in Requests, u \in Users : DeadlockDetected(r, u)
         \/ \E p \in Plans : DeadlinePasses(p)
         \/ \E u \in Users : LeaveRoom(u)
         \/ \E u \in Users : WithdrawBegins(u) \/ Withdraw(u) \/ WithdrawFails(u)
  PROVE  LockInv'
<1>1. ASSUME NEW t \in Txns, tx' = [tx EXCEPT ![t] = Finished(t)],
             UNCHANGED <<status, vote, reclosers>>
      PROVE  LockInv'
  <2>1. Moves(t) /\ tx'[t] = Finished(t)
    BY <1>1, MovesOne
  <2> QED BY <1>1, <2>1, FinishedPC, QuietStep
<1>2. CASE tx' = tx /\ status' = status /\ reclosers' = reclosers
           /\ \A p : Voters(p)' \subseteq Voters(p)
  BY <1>2 DEF LockInv, OneWorkerPerPlan, InsertsKeepWorkersOut, Locks, Inserting,
     LockedPlanIsOpen, AutoCloseNeverRecloses, AutoCloseHearsEveryVoter
<1>3. CASE UNCHANGED <<tx, status, vote, reclosers>>
  BY <1>2, <1>3 DEF Voters
<1>4. ASSUME NEW t \in Txns, Rollback(t)
      PROVE  LockInv'
  BY <1>1, <1>4 DEF Rollback, planVars
<1>5. ASSUME NEW t \in Txns, NEW u \in Users, LocksUserRow(t, u)
      PROVE  LockInv'
  BY <1>5, OnlyHolds, SameLocks DEF planVars
<1>6. ASSUME NEW r \in Requests, NEW u \in Users, DeadlockDetected(r, u)
      PROVE  LockInv'
  BY <1>1, <1>3, <1>6, DeadlockEnds DEF planVars, Txns
<1>7. ASSUME NEW p \in Plans, DeadlinePasses(p)
      PROVE  LockInv'
  BY <1>3, <1>7 DEF DeadlinePasses
<1>8. ASSUME NEW u \in Users, LeaveRoom(u)
      PROVE  LockInv'
  BY <1>3, <1>8 DEF LeaveRoom, planVars
<1>9. ASSUME NEW u \in Users, WithdrawCommit(u)
      PROVE  LockInv'
  <2>1. \A i \in Requests : vote'[i].state = "live" => vote'[i] = vote[i]
    BY <1>9 DEF WithdrawCommit, TypeInv, DataOK, VoteRow
  <2>2. \A p : Voters(p)' \subseteq Voters(p)
    BY <2>1 DEF Voters
  <2> QED BY <1>2, <1>9, <2>2 DEF WithdrawCommit
<1>10. ASSUME NEW u \in Users,
              WithdrawBegins(u) \/ WithdrawTakesVotes(u) \/ WithdrawTakesPlans(u)
                \/ WithdrawTakesUser(u) \/ WithdrawFails(u)
       PROVE  LockInv'
  BY <1>3, <1>10, WithdrawStill DEF planVars
<1> QED BY <1>4, <1>5, <1>6, <1>7, <1>8, <1>9, <1>10 DEF Withdraw

LEMMA NextLockInv == TypeInv /\ LockInv /\ [Next]_vars => LockInv'
<1> SUFFICES ASSUME TypeInv, LockInv, [Next]_vars PROVE LockInv'
  OBVIOUS
<1>1. CASE UNCHANGED vars
  BY <1>1 DEF vars, LockInv, OneWorkerPerPlan, InsertsKeepWorkersOut, Locks, Inserting,
     LockedPlanIsOpen, AutoCloseNeverRecloses, AutoCloseHearsEveryVoter, Voters
<1>2. CASE Next
  BY <1>2, ArriveLocks, ContinueLocks, AutoCloseLocks, ConfirmLocks, AroundLocks DEF Next
<1> QED BY <1>1, <1>2

LEMMA LockInvHolds == Spec => []LockInv
<1>1. Spec => []TypeInv
  BY InitTypeInv, NextTypeInv, PTL DEF Spec
<1> QED BY <1>1, InitLockInv, NextLockInv, PTL DEF Spec

\* The plan a worker has locked stays in VOTING under it.
THEOREM LockedPlanStaysOpen == Spec => []LockedPlanIsOpen
<1>1. LockInv => LockedPlanIsOpen
  BY DEF LockInv
<1> QED BY <1>1, LockInvHolds, PTL

\* However many workers run, none confirms a plan that is confirmed already.
THEOREM AutoCloseConfirmsOnce == Spec => []AutoCloseNeverRecloses
<1>1. LockInv => AutoCloseNeverRecloses
  BY DEF LockInv
<1> QED BY <1>1, LockInvHolds, PTL

\* No vote is committed between a worker's SELECT of the votes and its commit
\* unless the worker has heard its voter.
THEOREM AutoCloseMissesNobody == Spec => []AutoCloseHearsEveryVoter
<1>1. LockInv => AutoCloseHearsEveryVoter
  BY DEF LockInv
<1> QED BY <1>1, LockInvHolds, PTL

-----------------------------------------------------------------------------
(* Rows of votes                                                           *)

SameKey(a, b) == a.user = b.user /\ a.plan = b.plan

\* A request inserts its row, if any, as its last step.
RowsComeLast == \A r \in Requests : vote[r].state # "none" => tx[r].pc = "done"

\* The votes a withdrawal has locked are rows of its user.
CapturedVotes ==
  \A u \in Users : \A i \in leaving[u].votes : vote[i].state # "none" /\ vote[i].user = u

RowInv == RowsComeLast /\ CapturedVotes

LEMMA InitRowInv == Init => RowInv
BY DEF Init, RowInv, RowsComeLast, CapturedVotes, NoVote, Stays

\* Rows are not removed and keep their keys, deleted or not.
RowsStay ==
  \A i \in Requests : vote[i].state # "none" =>
    vote'[i].state # "none" /\ SameKey(vote'[i], vote[i])

\* A step by which rows only appear at the end of their handlers, and
\* withdrawals only lock rows of their users.
LEMMA RowFrame ==
  ASSUME TypeInv, RowInv, RowsStay,
         \A r \in Requests : tx[r].pc = "done" => tx'[r].pc = "done",
         \A i \in Requests : vote[i].state = "none" /\ vote'[i].state # "none" =>
           tx'[i].pc = "done",
         \A u \in Users : leaving'[u].votes \subseteq
           leaving[u].votes \cup {i \in Requests : vote[i].state # "none" /\ vote[i].user = u}
  PROVE  RowInv'
<1>1. \A u \in Users : leaving[u].votes \subseteq Requests
  BY DEF TypeInv, DataOK, LeavingRecord
<1>2. CapturedVotes'
  BY <1>1 DEF RowInv, CapturedVotes, RowsStay, SameKey
<1>3. RowsComeLast'
  BY DEF RowInv, RowsComeLast
<1> QED BY <1>2, <1>3 DEF RowInv

\* A handler moves on and writes no vote.
LEMMA RowsStill ==
  ASSUME TypeInv, RowInv, UNCHANGED <<vote, leaving>>,
         \A r \in Requests : tx[r].pc = "done" => tx'[r].pc = "done"
  PROVE  RowInv' /\ RowsStay
<1>1. RowsStay
  BY DEF RowsStay, SameKey
<1> QED BY <1>1, RowFrame

LEMMA RowsStillMove ==
  ASSUME TypeInv, RowInv, UNCHANGED <<vote, leaving>>,
         NEW t \in Txns, Moves(t), tx[t].pc # "done"
  PROVE  RowInv' /\ RowsStay
<1>1. \A r \in Requests : tx[r].pc = "done" => tx'[r].pc = "done"
  BY DEF Moves, Txns
<1> QED BY <1>1, RowsStill

LEMMA ContinueRows ==
  ASSUME TypeInv, RowInv, NEW r \in Requests, Continue(r)
  PROVE  RowInv' /\ RowsStay
<1>1. Moves(r) /\ tx[r].pc # "done"
  BY DEF Continue, CreatePlanInsert, CreatePlanCommit, SavePlanResponseInsert,
     SavePlanResponseFlush, SavePlanResponseFails, SavePlanResponseCommit, SendRemindersCommit,
     Moves, TypeInv
<1>2. CASE UNCHANGED <<vote, leaving>>
  BY <1>1, <1>2, RowsStillMove DEF Txns
<1>3. CASE SavePlanResponseCommit(r)
  <2>1. tx[r].pc = "flushed" /\ tx' = [tx EXCEPT ![r] = Done] /\ leaving' = leaving
    BY <1>3 DEF SavePlanResponseCommit
  <2>2. tx'[r].pc = "done" /\ vote[r].state = "none"
    BY <2>1, MovesOne, FinishedPC DEF RowInv, RowsComeLast, Txns
  <2>3. RowsStay /\ \A i \in Requests : vote[i].state = "none" /\ vote'[i].state # "none" => i = r
    <3>1. CASE tx[r].write = "insert"
      <4>1. \A i \in Requests : i # r => vote'[i] = vote[i]
        BY <1>3, <3>1 DEF SavePlanResponseCommit, TypeInv, DataOK
      <4> QED BY <2>2, <4>1 DEF RowsStay, SameKey
    <3>2. CASE tx[r].write = "update"
      <4>1. vote' = [vote EXCEPT ![tx[r].vote] = [@ EXCEPT !.going = tx[r].going]]
        BY <1>3, <3>2 DEF SavePlanResponseCommit
      <4> QED BY <4>1 DEF RowsStay, SameKey, TypeInv, DataOK, VoteRow
    <3>3. CASE tx[r].write \notin {"insert", "update"}
      <4>1. vote' = vote
        BY <1>3, <3>3 DEF SavePlanResponseCommit
      <4> QED BY <4>1 DEF RowsStay, SameKey
    <3> QED BY <3>1, <3>2, <3>3
  <2>4. \A s \in Requests : tx[s].pc = "done" => tx'[s].pc = "done"
    BY <1>1, <2>2 DEF Moves, Txns
  <2> QED BY <2>1, <2>2, <2>3, <2>4, RowFrame
<1>4. Continue(r) => UNCHANGED <<vote, leaving>> \/ SavePlanResponseCommit(r)
  BY DEF Continue, CreatePlanInsert, CreatePlanCommit, SavePlanResponseInsert,
     SavePlanResponseFlush, SavePlanResponseFails, SendRemindersCommit
<1> QED BY <1>2, <1>3, <1>4

LEMMA ConfirmMoves ==
  ASSUME TypeInv, NEW t \in Txns, Confirm(t)
  PROVE  Moves(t) /\ tx[t].pc # "done" /\ UNCHANGED <<vote, leaving>>
BY DEF Confirm, ConfirmCollect, ConfirmCommit, Moves, TypeInv

\* A withdrawal soft-deletes the rows it has locked and nothing else.
LEMMA WithdrawRows ==
  ASSUME TypeInv, RowInv, NEW u \in Users, WithdrawBegins(u) \/ Withdraw(u) \/ WithdrawFails(u)
  PROVE  RowInv' /\ RowsStay
<1>1. leaving \in [Users -> LeavingRecord] /\ vote \in [Requests -> VoteRow]
      /\ leaving[u].votes \subseteq Requests
  BY DEF TypeInv, DataOK, LeavingRecord
<1>2. Stays.votes = {}
  BY DEF Stays
<1>3. ASSUME UNCHANGED <<vote, tx>>, NEW rec, leaving' = [leaving EXCEPT ![u] = rec],
             rec.votes \subseteq leaving[u].votes \cup
               {i \in Requests : vote[i].state # "none" /\ vote[i].user = u}
      PROVE  RowInv' /\ RowsStay
  <2>1. RowsStay
    BY <1>3 DEF RowsStay, SameKey
  <2>2. \A x \in Users : leaving'[x].votes \subseteq
          leaving[x].votes \cup {i \in Requests : vote[i].state # "none" /\ vote[i].user = x}
    BY <1>1, <1>3
  <2> QED BY <1>3, <2>1, <2>2, RowFrame
<1>4. CASE WithdrawBegins(u)
  <2> DEFINE rec == [leaving[u] EXCEPT !.pc = "votes"]
  <2>1. rec.votes = leaving[u].votes
    BY <1>1 DEF LeavingRecord
  <2>2. leaving' = [leaving EXCEPT ![u] = rec] /\ UNCHANGED <<vote, tx>>
    BY <1>4 DEF WithdrawBegins
  <2> HIDE DEF rec
  <2> QED BY <1>3, <2>1, <2>2
<1>5. CASE WithdrawTakesVotes(u)
  <2> DEFINE votes == {i \in Requests : vote[i].state = "live" /\ vote[i].user = u}
             rec == [leaving[u] EXCEPT !.pc = "plans", !.votes = votes]
  <2>1. rec.votes = votes
    BY <1>1 DEF LeavingRecord
  <2>2. leaving' = [leaving EXCEPT ![u] = rec] /\ UNCHANGED <<vote, tx>>
    BY <1>5 DEF WithdrawTakesVotes
  <2>3. votes \subseteq {i \in Requests : vote[i].state # "none" /\ vote[i].user = u}
    OBVIOUS
  <2> HIDE DEF rec
  <2> QED BY <1>3, <2>1, <2>2, <2>3
<1>6. CASE WithdrawTakesPlans(u)
  <2> DEFINE rec == [leaving[u] EXCEPT !.pc = "users", !.plans = {p \in Plans : creator[p] = u}]
  <2>1. rec.votes = leaving[u].votes
    BY <1>1 DEF LeavingRecord
  <2>2. leaving' = [leaving EXCEPT ![u] = rec] /\ UNCHANGED <<vote, tx>>
    BY <1>6 DEF WithdrawTakesPlans
  <2> HIDE DEF rec
  <2> QED BY <1>3, <2>1, <2>2
<1>7. CASE WithdrawTakesUser(u)
  <2> DEFINE rec == [leaving[u] EXCEPT !.pc = "awaits"]
  <2>1. rec.votes = leaving[u].votes
    BY <1>1 DEF LeavingRecord
  <2>2. leaving' = [leaving EXCEPT ![u] = rec] /\ UNCHANGED <<vote, tx>>
    BY <1>7 DEF WithdrawTakesUser
  <2> HIDE DEF rec
  <2> QED BY <1>3, <2>1, <2>2
<1>8. CASE WithdrawFails(u)
  BY <1>2, <1>3, <1>8 DEF WithdrawFails
<1>9. CASE WithdrawCommit(u)
  <2>1. \A i \in Requests : i \in leaving[u].votes => vote[i].state # "none"
    BY DEF RowInv, CapturedVotes
  <2>2. \A i \in Requests : /\ i \notin leaving[u].votes => vote'[i] = vote[i]
                            /\ i \in leaving[u].votes => vote'[i].state # "none"
                            /\ SameKey(vote'[i], vote[i])
    BY <1>1, <1>9 DEF WithdrawCommit, SameKey, VoteRow
  <2>3. RowsStay
    BY <2>2 DEF RowsStay
  <2>4. tx' = tx /\ leaving' = [leaving EXCEPT ![u] = Stays]
    BY <1>9 DEF WithdrawCommit
  <2>5. \A x \in Users : leaving'[x].votes \subseteq leaving[x].votes
    BY <1>1, <1>2, <2>4
  <2>6. \A i \in Requests : vote[i].state = "none" => vote'[i].state = "none"
    BY <2>1, <2>2
  <2> QED BY <2>3, <2>4, <2>5, <2>6, RowFrame
<1> QED BY <1>4, <1>5, <1>6, <1>7, <1>8, <1>9 DEF Withdraw

LEMMA NextRowInv == TypeInv /\ RowInv /\ [Next]_vars => RowInv' /\ RowsStay
<1> SUFFICES ASSUME TypeInv, RowInv, [Next]_vars PROVE RowInv' /\ RowsStay
  OBVIOUS
<1>1. CASE UNCHANGED <<vote, leaving, tx>>
  BY <1>1, RowsStill
<1>2. ASSUME NEW r \in Requests, Arrive(r)
      PROVE  RowInv' /\ RowsStay
  BY <1>2, ArriveMoves, RowsStillMove DEF Txns
<1>3. ASSUME NEW w \in Workers, NEW p \in Plans, AutoCloseLock(w, p)
      PROVE  RowInv' /\ RowsStay
  <2>1. Moves(w) /\ tx[w].pc # "done" /\ UNCHANGED <<vote, leaving>>
    BY <1>3, MovesOne DEF AutoCloseLock, Txns
  <2> QED BY <2>1, RowsStillMove DEF Txns
<1>4. ASSUME NEW t \in Txns, Confirm(t)
      PROVE  RowInv' /\ RowsStay
  BY <1>4, ConfirmMoves, RowsStillMove
<1>5. ASSUME NEW t \in Txns, Rollback(t)
      PROVE  RowInv' /\ RowsStay
  <2>1. Moves(t) /\ tx[t].pc # "done" /\ UNCHANGED <<vote, leaving>>
    BY <1>5, MovesOne DEF Rollback
  <2> QED BY <2>1, RowsStillMove
<1>6. ASSUME NEW t \in Txns, NEW u \in Users, LocksUserRow(t, u)
      PROVE  RowInv' /\ RowsStay
  BY <1>6, OnlyHolds, RowsStillMove
<1>7. ASSUME NEW r \in Requests, NEW u \in Users, DeadlockDetected(r, u)
      PROVE  RowInv' /\ RowsStay
  <2>1. CASE tx' = [tx EXCEPT ![r] = Finished(r)] /\ leaving' = leaving
    BY <1>7, <2>1, DeadlockEnds, MovesOne, RowsStillMove DEF Txns
  <2>2. CASE tx' = tx /\ leaving' = [leaving EXCEPT ![u] = Stays]
    <3>1. RowsStay
      BY <1>7, DeadlockEnds DEF RowsStay, SameKey
    <3>2. \A x \in Users : leaving'[x].votes \subseteq leaving[x].votes
      BY <2>2 DEF TypeInv, DataOK, Stays
    <3> QED BY <1>7, <2>2, <3>1, <3>2, DeadlockEnds, RowFrame
  <2> QED BY <1>7, <2>1, <2>2, DeadlockEnds
<1>8. CASE UNCHANGED vars \/ (\E p \in Plans : DeadlinePasses(p)) \/ \E u \in Users : LeaveRoom(u)
  BY <1>1, <1>8 DEF vars, DeadlinePasses, LeaveRoom
<1> QED
  BY <1>2, <1>3, <1>4, <1>5, <1>6, <1>7, <1>8, ContinueRows, WithdrawRows DEF Next

LEMMA RowInvHolds == Spec => [](TypeInv /\ RowInv)
<1>1. Spec => []TypeInv
  BY InitTypeInv, NextTypeInv, PTL DEF Spec
<1> QED BY <1>1, InitRowInv, NextRowInv, PTL DEF Spec

-----------------------------------------------------------------------------
(* One row per member and plan                                             *)

\* A vote that is in the unique index and not committed yet.
Indexed(r) == tx[r].pc \in {"inserting", "flushed"} /\ tx[r].write = "insert"

\* Inserts that wait for their commit do not meet each other ...
InsertsDiffer ==
  \A r, s \in Requests : Indexed(r) /\ Indexed(s) /\ SameKey(tx[r], tx[s]) => r = s

\* ... nor a row that is there, deleted or not.
InsertsAreNew ==
  \A r, i \in Requests : Indexed(r) /\ vote[i].state # "none" => ~SameKey(tx[r], vote[i])

KeyInv == OneVotePerMember /\ InsertsDiffer /\ InsertsAreNew

LEMMA InitKeyInv == Init => KeyInv
<1> SUFFICES ASSUME Init PROVE KeyInv
  OBVIOUS
<1>1. \A r \in Requests : tx[r].pc = "idle" /\ vote[r].state = "none"
  BY DEF Init, Idle, NoVote, Txns
<1> QED BY <1>1 DEF KeyInv, OneVotePerMember, InsertsDiffer, InsertsAreNew, Indexed

\* The rows keep their keys, though not their answers or their deletion.
RowsKeepKeys ==
  \A i \in Requests : /\ SameKey(vote'[i], vote[i])
                      /\ vote'[i].state = "none" <=> vote[i].state = "none"

\* A step that inserts nothing and changes no key.
LEMMA KeyFrame ==
  ASSUME KeyInv, RowsKeepKeys,
         \A r \in Requests : Indexed(r)' => Indexed(r) /\ SameKey(tx'[r], tx[r])
  PROVE  KeyInv'
<1>1. OneVotePerMember'
  BY DEF KeyInv, OneVotePerMember, RowsKeepKeys, SameKey
<1>2. InsertsDiffer'
  BY DEF KeyInv, InsertsDiffer, SameKey
<1>3. InsertsAreNew'
  BY DEF KeyInv, InsertsAreNew, RowsKeepKeys, SameKey
<1> QED BY <1>1, <1>2, <1>3 DEF KeyInv

LEMMA SameRows ==
  ASSUME UNCHANGED vote
  PROVE  RowsKeepKeys
BY DEF RowsKeepKeys, SameKey

\* A handler that moves to a point where it is not inserting.
LEMMA MovesKeys ==
  ASSUME KeyInv, NEW t \in Txns, Moves(t), tx'[t].pc \notin {"inserting", "flushed"},
         RowsKeepKeys
  PROVE  KeyInv'
BY KeyFrame DEF Moves, Indexed, SameKey, Txns

LEMMA InsertKeys ==
  ASSUME TypeInv, KeyInv, NEW r \in Requests, SavePlanResponseInsert(r)
  PROVE  KeyInv'
<1>1. /\ tx[r].pc = "read" /\ vote' = vote
      /\ tx' = [tx EXCEPT ![r] = [tx[r] EXCEPT !.pc = "inserting"]]
      /\ ~KeyIsPending(r) /\ ~InsertConflicts(r)
  BY DEF SavePlanResponseInsert
<1>2. Moves(r) /\ SameKey(tx'[r], tx[r]) /\ tx'[r].write = tx[r].write
  BY <1>1 DEF TypeInv, TxRecord, Moves, SameKey, Txns
<1>3. ~Indexed(r)
  BY <1>1 DEF Indexed
<1>4. \A s \in Requests : Indexed(s)' /\ s # r => Indexed(s) /\ tx'[s] = tx[s]
  BY <1>2 DEF Moves, Indexed, Txns
<1>5. \A s \in Requests : Indexed(s) => ~SameKey(tx[s], tx[r])
  BY <1>1 DEF Indexed, KeyIsPending, SameKey
<1>6. InsertsDiffer'
  BY <1>2, <1>4, <1>5 DEF KeyInv, InsertsDiffer, SameKey
<1>7. InsertsAreNew'
  <2> SUFFICES ASSUME NEW s \in Requests, NEW i \in Requests, Indexed(s)',
                      vote[i].state # "none"
               PROVE  ~SameKey(tx'[s], vote[i])
    BY <1>1 DEF InsertsAreNew
  <2>1. CASE s = r
    BY <1>1, <1>2, <2>1 DEF InsertConflicts, SameKey
  <2>2. CASE s # r
    BY <1>4, <2>2 DEF KeyInv, InsertsAreNew
  <2> QED BY <2>1, <2>2
<1>8. OneVotePerMember'
  BY <1>1 DEF KeyInv, OneVotePerMember
<1> QED BY <1>6, <1>7, <1>8 DEF KeyInv

\* The foreign keys are checked when the key is in the index.
LEMMA FlushKeys ==
  ASSUME TypeInv, KeyInv, NEW r \in Requests, SavePlanResponseFlush(r)
  PROVE  KeyInv'
<1>1. /\ vote' = vote
      /\ \A s \in Txns : s # r => tx'[s] = tx[s]
      /\ SameKey(tx'[r], tx[r]) /\ tx'[r].write = tx[r].write
      /\ tx[r].write = "insert" => tx[r].pc = "inserting"
  BY DEF SavePlanResponseFlush, TypeInv, TxRecord, SameKey, Txns
<1>2. \A s \in Requests : Indexed(s)' => Indexed(s) /\ SameKey(tx'[s], tx[s])
  BY <1>1 DEF Indexed, SameKey, Txns
<1> QED BY <1>1, <1>2, SameRows, KeyFrame

LEMMA CommitKeys ==
  ASSUME TypeInv, KeyInv, NEW r \in Requests, SavePlanResponseCommit(r)
  PROVE  KeyInv'
<1>1. Moves(r) /\ tx'[r].pc = "done"
  BY MovesOne, FinishedPC DEF SavePlanResponseCommit, Txns
<1>2. CASE tx[r].write = "insert"
  <2>1. Indexed(r)
    BY <1>2 DEF SavePlanResponseCommit, Indexed
  <2>2. /\ \A i \in Requests : i # r => vote'[i] = vote[i]
        /\ SameKey(vote'[r], tx[r])
    BY <1>2 DEF SavePlanResponseCommit, TypeInv, DataOK, SameKey
  <2>3. \A s \in Requests : Indexed(s)' => s # r /\ Indexed(s) /\ tx'[s] = tx[s]
    BY <1>1 DEF Moves, Indexed, Txns
  <2>4. OneVotePerMember'
    BY <2>1, <2>2 DEF KeyInv, OneVotePerMember, InsertsAreNew, SameKey
  <2>5. InsertsDiffer'
    BY <2>3 DEF KeyInv, InsertsDiffer
  <2>6. InsertsAreNew'
    <3> SUFFICES ASSUME NEW s \in Requests, NEW i \in Requests, Indexed(s)',
                        vote'[i].state # "none"
                 PROVE  ~SameKey(tx'[s], vote'[i])
      BY DEF InsertsAreNew
    <3>1. CASE i = r
      BY <2>1, <2>2, <2>3, <3>1 DEF KeyInv, InsertsDiffer, SameKey
    <3>2. CASE i # r
      BY <2>2, <2>3, <3>2 DEF KeyInv, InsertsAreNew
    <3> QED BY <3>1, <3>2
  <2> QED BY <2>4, <2>5, <2>6 DEF KeyInv
<1>3. CASE tx[r].write = "update"
  <2>1. vote' = [vote EXCEPT ![tx[r].vote] = [@ EXCEPT !.going = tx[r].going]]
    BY <1>3 DEF SavePlanResponseCommit
  <2>2. RowsKeepKeys
    BY <2>1 DEF RowsKeepKeys, SameKey, TypeInv, DataOK, VoteRow
  <2> QED BY <1>1, <2>2, MovesKeys DEF Txns
<1>4. CASE tx[r].write \notin {"insert", "update"}
  <2>1. vote' = vote
    BY <1>4 DEF SavePlanResponseCommit
  <2> QED BY <1>1, <2>1, SameRows, MovesKeys DEF Txns
<1> QED BY <1>2, <1>3, <1>4

LEMMA NextKeyInv == TypeInv /\ RowInv /\ KeyInv /\ [Next]_vars => KeyInv'
<1> SUFFICES ASSUME TypeInv, RowInv, KeyInv, [Next]_vars PROVE KeyInv'
  OBVIOUS
<1>1. ASSUME UNCHANGED <<vote, tx>>
      PROVE  KeyInv'
  BY <1>1, SameRows, KeyFrame DEF Indexed, SameKey
<1>2. ASSUME NEW r \in Requests, Arrive(r)
      PROVE  KeyInv'
  BY <1>2, ArriveMoves, SameRows, MovesKeys DEF Txns
<1>3. ASSUME NEW r \in Requests, Continue(r)
      PROVE  KeyInv'
  <2>1. CASE CreatePlanCommit(r) \/ SavePlanResponseFails(r) \/ SendRemindersCommit(r)
    <3>1. tx' = [tx EXCEPT ![r] = Done] /\ vote' = vote
      BY <2>1 DEF CreatePlanCommit, SavePlanResponseFails, SendRemindersCommit
    <3>2. Moves(r) /\ tx'[r].pc = "done"
      BY <3>1, MovesOne, FinishedPC DEF Txns
    <3> QED BY <3>1, <3>2, SameRows, MovesKeys DEF Txns
  <2>2. CASE CreatePlanInsert(r)
    <3>1. Moves(r) /\ tx'[r].pc = "inserted" /\ vote' = vote
      BY <2>2 DEF CreatePlanInsert, Moves, TypeInv, TxRecord, Txns
    <3> QED BY <3>1, SameRows, MovesKeys DEF Txns
  <2> QED BY <1>3, <2>1, <2>2, InsertKeys, FlushKeys, CommitKeys DEF Continue
<1>4. ASSUME NEW w \in Workers, NEW p \in Plans, AutoCloseLock(w, p)
      PROVE  KeyInv'
  <2>1. Moves(w) /\ vote' = vote
    BY <1>4, MovesOne DEF AutoCloseLock, Txns
  <2>2. \A r \in Requests : tx'[r] = tx[r]
    BY <2>1 DEF Moves, Txns
  <2> QED BY <2>1, <2>2, SameRows, KeyFrame DEF Indexed, SameKey
<1>5. ASSUME NEW t \in Txns, ConfirmCollect(t)
      PROVE  KeyInv'
  <2>1. Moves(t) /\ tx'[t].pc = "read" /\ vote' = vote
    BY <1>5 DEF ConfirmCollect, Moves, TypeInv, TxRecord
  <2> QED BY <2>1, SameRows, MovesKeys
<1>6. ASSUME NEW t \in Txns, tx' = [tx EXCEPT ![t] = Finished(t)], vote' = vote
      PROVE  KeyInv'
  BY <1>6, MovesOne, FinishedPC, SameRows, MovesKeys
<1>7. ASSUME NEW t \in Txns, ConfirmCommit(t) \/ Rollback(t)
      PROVE  KeyInv'
  BY <1>6, <1>7 DEF ConfirmCommit, Rollback
<1>8. ASSUME NEW t \in Txns, NEW u \in Users, LocksUserRow(t, u)
      PROVE  KeyInv'
  BY <1>8, OnlyHolds, SameRows, KeyFrame DEF Indexed, SameKey, Txns
<1>9. ASSUME NEW r \in Requests, NEW u \in Users, DeadlockDetected(r, u)
      PROVE  KeyInv'
  BY <1>1, <1>6, <1>9, DeadlockEnds DEF Txns
<1>10. ASSUME NEW u \in Users, WithdrawCommit(u)
       PROVE  KeyInv'
  <2>1. \A i \in Requests : i \in leaving[u].votes => vote[i].state # "none"
    BY DEF RowInv, CapturedVotes
  <2>2. tx' = tx /\ RowsKeepKeys
    BY <1>10, <2>1 DEF WithdrawCommit, RowsKeepKeys, SameKey, TypeInv, DataOK, VoteRow
  <2> QED BY <2>2, KeyFrame DEF Indexed, SameKey
<1>11. ASSUME NEW u \in Users, WithdrawBegins(u) \/ WithdrawTakesVotes(u) \/ WithdrawTakesPlans(u)
                                  \/ WithdrawTakesUser(u) \/ WithdrawFails(u)
       PROVE  KeyInv'
  BY <1>1, <1>11, WithdrawStill
<1>12. CASE UNCHANGED vars \/ (\E p \in Plans : DeadlinePasses(p)) \/ \E u \in Users : LeaveRoom(u)
  BY <1>1, <1>12 DEF vars, DeadlinePasses, LeaveRoom
<1> QED
  BY <1>2, <1>3, <1>4, <1>5, <1>7, <1>8, <1>9, <1>10, <1>11, <1>12
  DEF Next, Confirm, Withdraw

\* Two INSERTs of the same answer never both commit, and none commits beside
\* a row that a withdrawal has soft-deleted: one row per member and plan.
THEOREM AtMostOneVote == Spec => []OneVotePerMember
<1>1. Spec => []KeyInv
  BY RowInvHolds, InitKeyInv, NextKeyInv, PTL DEF Spec
<1>2. KeyInv => OneVotePerMember
  BY DEF KeyInv
<1> QED BY <1>1, <1>2, PTL

-----------------------------------------------------------------------------
(* Notifications                                                           *)

InFlight(t) == tx[t].pc \notin {"idle", "done"}

Creating(t) == InFlight(t) /\ tx[t].op = "create"

\* The id of a plan that is about to be inserted is nobody else's.
NewPlanIsUnknown == \A t \in Txns : Creating(t) => status[tx[t].plan] = "absent"

NewPlansDiffer ==
  \A s, t \in Txns : Creating(s) /\ Creating(t) /\ tx[s].plan = tx[t].plan => s = t

\* Every other handler works on a plan that is there.
HandlersKnowThePlan ==
  \A t \in Txns : InFlight(t) /\ ~Creating(t) => status[tx[t].plan] # "absent"

\* The row upsert_vote has found stays, deleted or not.
FoundRowStays ==
  \A r \in Requests :
    InFlight(r) /\ tx[r].op = "respond" /\ tx[r].write # "insert" =>
      /\ tx[r].vote \in Requests
      /\ vote[tx[r].vote].state # "none"
      /\ SameKey(tx[r], vote[tx[r].vote])

HandlerInv ==
  /\ NewPlanIsUnknown
  /\ NewPlansDiffer
  /\ HandlersKnowThePlan
  /\ FoundRowStays

LEMMA InitHandlerInv == Init => HandlerInv /\ NotificationsAreTrue
<1> SUFFICES ASSUME Init PROVE HandlerInv /\ NotificationsAreTrue
  OBVIOUS
<1>1. \A t \in Txns : tx[t].pc = "idle"
  BY DEF Init, Idle
<1>2. inbox = {}
  BY DEF Init
<1> QED
  BY <1>1, <1>2 DEF HandlerInv, NewPlanIsUnknown, NewPlansDiffer, Creating, InFlight,
     HandlersKnowThePlan, FoundRowStays, NotificationsAreTrue, Txns

\* Plans do not go back.
PlansGoOn ==
  \A p \in Plans : /\ status[p] # "absent" => status'[p] # "absent"
                   /\ status[p] = "CONFIRMED" => status'[p] = "CONFIRMED"

\* A handler ends, is rolled back, or moves on with what it holds.
MovesOn(t) ==
  /\ Moves(t)
  /\ tx[t].pc # "done"
  /\ \/ tx'[t].pc \in {"idle", "done"}
     \/ /\ InFlight(t) /\ InFlight(t)'
        /\ tx'[t].op = tx[t].op /\ tx'[t].plan = tx[t].plan /\ tx'[t].user = tx[t].user
        /\ tx'[t].write = tx[t].write /\ tx'[t].vote = tx[t].vote

\* A handler that moves on, while the statuses only go on for plans that are
\* there or are its own.
LEMMA HandlerFrame ==
  ASSUME TypeInv, HandlerInv, NEW t \in Txns, MovesOn(t),
         PlansGoOn, RowsStay,
         \A p \in Plans : status[p] = "absent" /\ status'[p] # "absent" =>
           Creating(t) /\ tx[t].plan = p /\ tx'[t].pc = "done"
  PROVE  HandlerInv'
<1>1. \A s \in Txns : InFlight(s)' =>
        /\ InFlight(s)
        /\ tx'[s].op = tx[s].op /\ tx'[s].plan = tx[s].plan /\ tx'[s].user = tx[s].user
        /\ tx'[s].write = tx[s].write /\ tx'[s].vote = tx[s].vote
        /\ tx[s].plan \in Plans
  BY DEF MovesOn, Moves, InFlight, TypeInv, TxOK
<1>2. NewPlanIsUnknown'
  <2> SUFFICES ASSUME NEW s \in Txns, Creating(s)'
               PROVE  status'[tx'[s].plan] = "absent"
    BY DEF NewPlanIsUnknown
  <2>1. Creating(s) /\ tx'[s].plan = tx[s].plan /\ tx[s].plan \in Plans
    BY <1>1 DEF Creating
  <2>2. status[tx[s].plan] = "absent"
    BY <2>1 DEF HandlerInv, NewPlanIsUnknown
  <2>3. tx'[t].pc = "done" => s # t
    BY DEF Creating, InFlight
  <2> QED BY <2>1, <2>2, <2>3 DEF HandlerInv, NewPlansDiffer
<1>3. NewPlansDiffer'
  BY <1>1 DEF HandlerInv, NewPlansDiffer, Creating
<1>4. HandlersKnowThePlan'
  BY <1>1 DEF HandlerInv, HandlersKnowThePlan, Creating, PlansGoOn
<1>5. FoundRowStays'
  BY <1>1 DEF HandlerInv, FoundRowStays, RowsStay, SameKey, Txns
<1> QED BY <1>2, <1>3, <1>4, <1>5 DEF HandlerInv

\* The tables stand still: one case for most steps.
LEMMA StillFrame ==
  ASSUME TypeInv, HandlerInv, NEW t \in Txns, MovesOn(t), UNCHANGED <<status, vote>>
  PROVE  HandlerInv'
<1>1. PlansGoOn /\ RowsStay
  BY DEF PlansGoOn, RowsStay, SameKey
<1> QED BY <1>1, HandlerFrame

LEMMA EndMovesOn ==
  ASSUME TypeInv, NEW t \in Txns, tx[t].pc # "done",
         tx' = [tx EXCEPT ![t] = Finished(t)]
  PROVE  MovesOn(t) /\ (t \in Requests => tx'[t].pc = "done")
BY MovesOne, FinishedPC DEF MovesOn, Finished

\* A request that has passed its checks holds a plan that is there, or one
\* that nobody knows; and a row it has found has the key it looked for.
LEMMA ArrivePlan ==
  ASSUME TypeInv, NEW r \in Requests, Arrive(r)
  PROVE  /\ \/ /\ tx'[r].op = "create" /\ status[tx'[r].plan] = "absent"
               /\ \A s \in Txns : tx[s].plan # tx'[r].plan
            \/ tx'[r].op # "create" /\ status[tx'[r].plan] # "absent"
         /\ tx'[r].op = "respond" /\ tx'[r].write # "insert" =>
              /\ tx'[r].vote \in Requests
              /\ vote[tx'[r].vote].state # "none"
              /\ SameKey(tx'[r], vote[tx'[r].vote])
<1>1. ASSUME NEW u, NEW place, NEW p, CreatePlanCheck(r, u, place, p)
      PROVE  /\ tx'[r].op = "create" /\ status[tx'[r].plan] = "absent"
             /\ \A s \in Txns : tx[s].plan # tx'[r].plan
  <2> DEFINE rec == [Idle EXCEPT !.pc = "read", !.op = "create",
                                 !.user = u, !.place = place, !.plan = p]
  <2>1. tx' = [tx EXCEPT ![r] = rec] /\ rec.op = "create" /\ rec.plan = p
    BY <1>1 DEF CreatePlanCheck, Idle
  <2>2. tx'[r] = rec
    BY <2>1, MovesOne DEF Txns
  <2> QED BY <1>1, <2>1, <2>2 DEF CreatePlanCheck
<1>2. ASSUME NEW u, NEW p, NEW going, SavePlanResponseCheck(r, u, p, going)
      PROVE  /\ tx'[r].op = "respond" /\ status[tx'[r].plan] # "absent"
             /\ tx'[r].write # "insert" =>
                  /\ tx'[r].vote \in Requests
                  /\ vote[tx'[r].vote].state # "none"
                  /\ SameKey(tx'[r], vote[tx'[r].vote])
  <2>1. PICK v \in (IF LiveVotes(p, u) = {} THEN {NULL} ELSE LiveVotes(p, u)) :
          tx' = [tx EXCEPT ![r] =
                [Idle EXCEPT !.pc = "read", !.op = "respond", !.user = u,
                             !.plan = p, !.going = going, !.vote = v,
                             !.write = IF v = NULL THEN "insert"
                                       ELSE IF vote[v].going = going THEN "nothing"
                                       ELSE "update",
                             !.notify = IF going THEN {creator[p]} \ {NULL} ELSE {}]]
    BY <1>2 DEF SavePlanResponseCheck
  <2> DEFINE rec == [Idle EXCEPT !.pc = "read", !.op = "respond", !.user = u,
                                 !.plan = p, !.going = going, !.vote = v,
                                 !.write = IF v = NULL THEN "insert"
                                           ELSE IF vote[v].going = going THEN "nothing"
                                           ELSE "update",
                                 !.notify = IF going THEN {creator[p]} \ {NULL} ELSE {}]
  <2>2. tx'[r] = rec
    BY <2>1, MovesOne DEF Txns
  <2>3. /\ rec.op = "respond" /\ rec.plan = p /\ rec.user = u /\ rec.vote = v
        /\ v = NULL => rec.write = "insert"
    BY DEF Idle
  <2>4. v # NULL => v \in LiveVotes(p, u)
    OBVIOUS
  <2> HIDE DEF rec
  <2> QED BY <1>2, <2>2, <2>3, <2>4 DEF SavePlanResponseCheck, LiveVotes, SameKey
<1>3. ASSUME NEW u, NEW p, ClosePlanCheck(r, u, p)
      PROVE  tx'[r].op = "close" /\ status[tx'[r].plan] # "absent"
  <2> DEFINE rec == [Idle EXCEPT !.pc = "checked", !.op = "close", !.user = u, !.plan = p]
  <2>1. tx' = [tx EXCEPT ![r] = rec] /\ rec.op = "close" /\ rec.plan = p
    BY <1>3 DEF ClosePlanCheck, Idle
  <2>2. tx'[r] = rec
    BY <2>1, MovesOne DEF Txns
  <2> QED BY <1>3, <2>1, <2>2 DEF ClosePlanCheck
<1>4. ASSUME NEW u, NEW p, SendRemindersCheck(r, u, p)
      PROVE  tx'[r].op = "remind" /\ status[tx'[r].plan] # "absent"
  <2>1. PICK to : tx' = [tx EXCEPT ![r] = [Idle EXCEPT !.pc = "read", !.op = "remind",
                                             !.user = u, !.plan = p, !.notify = to]]
    BY <1>4 DEF SendRemindersCheck
  <2> DEFINE rec == [Idle EXCEPT !.pc = "read", !.op = "remind",
                                 !.user = u, !.plan = p, !.notify = to]
  <2>2. rec.op = "remind" /\ rec.plan = p
    BY DEF Idle
  <2>3. tx'[r] = rec
    BY <2>1, MovesOne DEF Txns
  <2> QED BY <1>4, <2>2, <2>3 DEF SendRemindersCheck
<1> QED BY <1>1, <1>2, <1>3, <1>4 DEF Arrive

\* A handler starts on such a plan.
LEMMA StartFrame ==
  ASSUME HandlerInv, NEW t \in Txns, Moves(t), UNCHANGED <<status, vote>>,
         tx[t].pc = "idle", InFlight(t)',
         \/ /\ tx'[t].op = "create" /\ status[tx'[t].plan] = "absent"
            /\ \A s \in Txns : tx[s].plan # tx'[t].plan
         \/ tx'[t].op # "create" /\ status[tx'[t].plan] # "absent",
         tx'[t].op = "respond" /\ tx'[t].write # "insert" =>
           /\ tx'[t].vote \in Requests
           /\ vote[tx'[t].vote].state # "none"
           /\ SameKey(tx'[t], vote[tx'[t].vote])
  PROVE  HandlerInv'
<1>1. NewPlanIsUnknown' /\ HandlersKnowThePlan'
  BY DEF HandlerInv, NewPlanIsUnknown, HandlersKnowThePlan, Creating, InFlight, Moves
<1>2. NewPlansDiffer'
  BY DEF HandlerInv, NewPlansDiffer, Creating, InFlight, Moves
<1>3. FoundRowStays'
  <2> SUFFICES ASSUME NEW s \in Requests, InFlight(s)', tx'[s].op = "respond",
                      tx'[s].write # "insert"
               PROVE  /\ tx'[s].vote \in Requests
                      /\ vote'[tx'[s].vote].state # "none"
                      /\ SameKey(tx'[s], vote'[tx'[s].vote])
    BY DEF FoundRowStays
  <2>1. CASE s = t
    BY <2>1
  <2>2. CASE s # t
    BY <2>2 DEF HandlerInv, FoundRowStays, InFlight, Moves, Txns
  <2> QED BY <2>1, <2>2
<1> QED BY <1>1, <1>2, <1>3 DEF HandlerInv

\* What a notification says.
TrueNotice(n) ==
  /\ status[n.plan] # "absent"
  /\ n.type = "PLAN_CONFIRMED" => status[n.plan] = "CONFIRMED"
  /\ n.type = "MEMBER_GOING" =>
       \E i \in Requests : vote[i].state # "none" /\ vote[i].plan = n.plan

\* What was true stays true, so that only new notifications matter.
LEMMA NoticeFrame ==
  ASSUME TypeInv, NotificationsAreTrue, PlansGoOn, RowsStay,
         \A n \in inbox' : n \in inbox \/ TrueNotice(n)'
  PROVE  NotificationsAreTrue'
<1> SUFFICES ASSUME NEW n \in inbox PROVE TrueNotice(n)'
  BY DEF NotificationsAreTrue, TrueNotice
<1>1. n.plan \in Plans
  BY DEF TypeInv, DataOK, Notification
<1>2. TrueNotice(n)
  BY DEF NotificationsAreTrue, TrueNotice
<1> QED BY <1>1, <1>2 DEF TrueNotice, PlansGoOn, RowsStay, SameKey

LEMMA NoticesOf ==
  ASSUME NEW users, NEW type, NEW p, NEW t, NEW n \in Notifications(users, type, p, t)
  PROVE  n.plan = p /\ n.type = type
BY DEF Notifications

\* Nothing happens to the tables that notifications speak of.
LEMMA StillNotices ==
  ASSUME TypeInv, NotificationsAreTrue, UNCHANGED <<status, vote>>, inbox' \subseteq inbox
  PROVE  NotificationsAreTrue'
<1>1. PlansGoOn /\ RowsStay
  BY DEF PlansGoOn, RowsStay, SameKey
<1> QED BY <1>1, NoticeFrame

NoticeInv == HandlerInv /\ NotificationsAreTrue

LEMMA ContinueNotices ==
  ASSUME TypeInv, RowInv, NoticeInv, NEW r \in Requests, Continue(r)
  PROVE  NoticeInv'
<1> USE DEF NoticeInv
<1>1. CASE CreatePlanCommit(r)
  <2> DEFINE asked == Notifications(tx[r].notify, "PLAN_REQUESTED", tx[r].plan, r)
  <2>1. /\ tx[r].op = "create" /\ tx[r].pc = "inserted"
        /\ status' = [status EXCEPT ![tx[r].plan] = "VOTING"]
        /\ inbox' = inbox \cup asked
        /\ vote' = vote
        /\ tx' = [tx EXCEPT ![r] = Finished(r)]
    BY <1>1 DEF CreatePlanCommit, Finished
  <2>2. MovesOn(r) /\ tx'[r].pc = "done"
    BY <2>1, EndMovesOn DEF Txns
  <2>3. Creating(r) /\ tx[r].plan \in Plans /\ status[tx[r].plan] = "absent"
    BY <2>1 DEF HandlerInv, NewPlanIsUnknown, Creating, InFlight, TypeInv, TxOK, Txns
  <2>4. PlansGoOn /\ RowsStay /\ status'[tx[r].plan] = "VOTING"
    BY <2>1, <2>3 DEF PlansGoOn, RowsStay, SameKey, TypeInv, DataOK
  <2>5. \A p \in Plans : status'[p] # status[p] => p = tx[r].plan
    BY <2>1 DEF TypeInv, DataOK
  <2>6. HandlerInv'
    BY <2>1, <2>2, <2>3, <2>4, <2>5, HandlerFrame DEF Txns
  <2>7. \A n \in asked : TrueNotice(n)'
    BY <2>4, NoticesOf DEF TrueNotice
  <2> QED BY <2>1, <2>4, <2>6, <2>7, NoticeFrame
<1>2. CASE CreatePlanInsert(r) \/ SavePlanResponseInsert(r) \/ SavePlanResponseFlush(r)
  <2>1. UNCHANGED <<status, vote, inbox>>
    BY <1>2 DEF CreatePlanInsert, SavePlanResponseInsert, SavePlanResponseFlush, planVars
  <2>2. MovesOn(r)
    <3>1. tx \in [Txns -> TxRecord] /\ tx[r] \in TxRecord /\ r \in Txns
      BY DEF TypeInv, Txns
    <3>2. CASE CreatePlanInsert(r)
      BY <3>1, <3>2 DEF CreatePlanInsert, MovesOn, Moves, InFlight, TxRecord
    <3>3. CASE SavePlanResponseInsert(r)
      BY <3>1, <3>3 DEF SavePlanResponseInsert, MovesOn, Moves, InFlight, TxRecord
    <3>4. CASE SavePlanResponseFlush(r)
      BY <3>1, <3>4 DEF SavePlanResponseFlush, MovesOn, Moves, InFlight, TxRecord
    <3> QED BY <1>2, <3>2, <3>3, <3>4
  <2> QED BY <2>1, <2>2, StillFrame, StillNotices DEF Txns
<1>3. CASE SavePlanResponseFails(r)
  <2>1. /\ tx[r].pc = "read" /\ UNCHANGED <<status, vote, inbox>>
        /\ tx' = [tx EXCEPT ![r] = Finished(r)]
    BY <1>3 DEF SavePlanResponseFails, planVars, Finished
  <2>2. MovesOn(r)
    BY <2>1, EndMovesOn DEF Txns
  <2> QED BY <2>1, <2>2, StillFrame, StillNotices DEF Txns
<1>4. CASE SavePlanResponseCommit(r)
  <2> DEFINE told == Notifications(tx[r].notify, "MEMBER_GOING", tx[r].plan, r)
  <2>1. /\ tx[r].op = "respond" /\ tx[r].pc = "flushed"
        /\ status' = status
        /\ inbox' = inbox \cup told
        /\ tx' = [tx EXCEPT ![r] = Finished(r)]
    BY <1>4 DEF SavePlanResponseCommit, planVars, Finished
  <2>2. MovesOn(r) /\ tx'[r].pc = "done"
    BY <2>1, EndMovesOn DEF Txns
  <2>3. /\ InFlight(r) /\ ~Creating(r) /\ vote[r].state = "none"
        /\ tx[r].plan \in Plans /\ status[tx[r].plan] # "absent"
    BY <2>1 DEF HandlerInv, HandlersKnowThePlan, RowInv, RowsComeLast, Creating, InFlight,
       TypeInv, TxOK, Txns
  <2>4. PlansGoOn
    BY <2>1 DEF PlansGoOn
  <2>5. RowsStay
    BY ContinueRows
  <2>6. \E i \in Requests : vote'[i].state # "none" /\ vote'[i].plan = tx[r].plan
    <3>1. CASE tx[r].write = "insert"
      <4>1. vote'[r].state = "live" /\ vote'[r].plan = tx[r].plan
        BY <1>4, <3>1 DEF SavePlanResponseCommit, TypeInv, DataOK
      <4> QED BY <4>1
    <3>2. CASE tx[r].write # "insert"
      <4>1. /\ tx[r].vote \in Requests /\ vote[tx[r].vote].state # "none"
            /\ vote[tx[r].vote].plan = tx[r].plan
        BY <2>1, <2>3, <3>2 DEF HandlerInv, FoundRowStays, SameKey
      <4> QED BY <2>5, <4>1 DEF RowsStay, SameKey
    <3> QED BY <3>1, <3>2
  <2>7. HandlerInv'
    BY <2>1, <2>2, <2>4, <2>5, HandlerFrame DEF Txns
  <2>8. \A n \in told : TrueNotice(n)'
    BY <2>1, <2>3, <2>6, NoticesOf DEF TrueNotice
  <2> QED BY <2>1, <2>4, <2>5, <2>7, <2>8, NoticeFrame
<1>5. CASE SendRemindersCommit(r)
  <2> DEFINE told == Notifications(tx[r].notify, "RESPONSE_DEADLINE_SOON", tx[r].plan, r)
  <2>1. /\ tx[r].op = "remind" /\ tx[r].pc = "read"
        /\ UNCHANGED <<status, vote>>
        /\ inbox' = inbox \cup told
        /\ tx' = [tx EXCEPT ![r] = Finished(r)]
    BY <1>5 DEF SendRemindersCommit, planVars, Finished
  <2>2. MovesOn(r)
    BY <2>1, EndMovesOn DEF Txns
  <2>3. status[tx[r].plan] # "absent"
    BY <2>1 DEF HandlerInv, HandlersKnowThePlan, Creating, InFlight, Txns
  <2>4. PlansGoOn /\ RowsStay
    BY <2>1 DEF PlansGoOn, RowsStay, SameKey
  <2>5. \A n \in told : TrueNotice(n)'
    BY <2>1, <2>3, NoticesOf DEF TrueNotice
  <2> QED BY <2>1, <2>2, <2>4, <2>5, StillFrame, NoticeFrame DEF Txns
<1> QED BY <1>1, <1>2, <1>3, <1>4, <1>5 DEF Continue

LEMMA ConfirmNotices ==
  ASSUME TypeInv, NoticeInv, NEW t \in Txns, Confirm(t)
  PROVE  NoticeInv'
<1> USE DEF NoticeInv
<1>1. CASE ConfirmCollect(t)
  <2>1. /\ tx[t].pc = "checked" /\ UNCHANGED <<status, vote, inbox>>
        /\ tx' = [tx EXCEPT ![t].pc = "read", ![t].heard = Voters(tx[t].plan),
                            ![t].notify = Participants(tx[t].plan) \ {tx[t].user}]
    BY <1>1 DEF ConfirmCollect, planVars
  <2>2. MovesOn(t)
    BY <2>1 DEF MovesOn, Moves, InFlight, TypeInv, TxRecord
  <2> QED BY <2>1, <2>2, StillFrame, StillNotices
<1>2. CASE ConfirmCommit(t)
  <2> DEFINE told == Notifications(tx[t].notify, "PLAN_CONFIRMED", tx[t].plan, t)
  <2>1. /\ tx[t].pc = "read" /\ tx[t].op \in {"close", "auto_close"}
        /\ status' = [status EXCEPT ![tx[t].plan] = "CONFIRMED"]
        /\ vote' = vote
        /\ inbox' = inbox \cup told
        /\ tx' = [tx EXCEPT ![t] = Finished(t)]
    BY <1>2 DEF ConfirmCommit
  <2>2. MovesOn(t)
    BY <2>1, EndMovesOn
  <2>3. tx[t].plan \in Plans /\ status[tx[t].plan] # "absent"
    BY <2>1 DEF HandlerInv, HandlersKnowThePlan, Creating, InFlight, TypeInv, TxOK
  <2>4. PlansGoOn /\ RowsStay /\ status'[tx[t].plan] = "CONFIRMED"
    BY <2>1, <2>3 DEF PlansGoOn, RowsStay, SameKey, TypeInv, DataOK
  <2>5. \A p \in Plans : status[p] = "absent" => status'[p] = "absent"
    BY <2>1, <2>3 DEF TypeInv, DataOK
  <2>6. HandlerInv'
    BY <2>1, <2>2, <2>4, <2>5, HandlerFrame
  <2>7. \A n \in told : TrueNotice(n)'
    BY <2>4, NoticesOf DEF TrueNotice
  <2> QED BY <2>1, <2>4, <2>6, <2>7, NoticeFrame
<1> QED BY <1>1, <1>2 DEF Confirm

LEMMA NextNoticeInv == TypeInv /\ RowInv /\ NoticeInv /\ [Next]_vars => NoticeInv'
<1> SUFFICES ASSUME TypeInv, RowInv, NoticeInv, [Next]_vars PROVE NoticeInv'
  OBVIOUS
<1> USE DEF NoticeInv
<1>1. ASSUME NEW r \in Requests, Arrive(r)
      PROVE  NoticeInv'
  <2>1. /\ Moves(r) /\ tx[r].pc = "idle" /\ InFlight(r)'
        /\ UNCHANGED <<status, vote, inbox>>
    BY <1>1, ArriveMoves DEF InFlight, planVars
  <2> QED BY <1>1, <2>1, ArrivePlan, StartFrame, StillNotices DEF Txns
<1>2. ASSUME NEW w \in Workers, NEW p \in Plans, AutoCloseLock(w, p)
      PROVE  NoticeInv'
  <2> DEFINE rec == [Idle EXCEPT !.pc = "checked", !.op = "auto_close", !.plan = p]
  <2>1. /\ tx[w].pc = "idle" /\ status[p] = "VOTING" /\ UNCHANGED <<status, vote, inbox>>
        /\ tx' = [tx EXCEPT ![w] = rec]
    BY <1>2 DEF AutoCloseLock, planVars
  <2>2. rec.pc = "checked" /\ rec.op = "auto_close" /\ rec.plan = p
    BY DEF Idle
  <2>3. Moves(w) /\ tx'[w] = rec
    BY <2>1, MovesOne DEF Txns
  <2>4. InFlight(w)'
    BY <2>2, <2>3 DEF InFlight
  <2> HIDE DEF rec
  <2> QED BY <2>1, <2>2, <2>3, <2>4, StartFrame, StillNotices DEF Txns
<1>3. ASSUME NEW t \in Txns, tx' = [tx EXCEPT ![t] = Finished(t)],
             tx[t].pc # "done", UNCHANGED <<status, vote, inbox>>
      PROVE  NoticeInv'
  BY <1>3, EndMovesOn, StillFrame, StillNotices
<1>4. CASE UNCHANGED <<status, vote, inbox, tx>>
  BY <1>4, StillNotices DEF HandlerInv, NewPlanIsUnknown, NewPlansDiffer, Creating, InFlight,
     HandlersKnowThePlan, FoundRowStays
<1>5. ASSUME NEW t \in Txns, Rollback(t)
      PROVE  NoticeInv'
  BY <1>3, <1>5 DEF Rollback, planVars
<1>6. ASSUME NEW t \in Txns, NEW u \in Users, LocksUserRow(t, u)
      PROVE  NoticeInv'
  <2>1. MovesOn(t) /\ UNCHANGED <<status, vote, inbox>>
    BY <1>6, OnlyHolds DEF MovesOn, InFlight, planVars
  <2> QED BY <2>1, StillFrame, StillNotices
<1>7. ASSUME NEW r \in Requests, NEW u \in Users, DeadlockDetected(r, u)
      PROVE  NoticeInv'
  BY <1>3, <1>4, <1>7, DeadlockEnds DEF planVars, Txns
<1>8. ASSUME NEW u \in Users, WithdrawCommit(u)
      PROVE  NoticeInv'
  <2>1. UNCHANGED <<tx, status, inbox>> /\ RowsStay
    BY <1>8, WithdrawRows DEF WithdrawCommit, Withdraw
  <2>2. PlansGoOn
    BY <2>1 DEF PlansGoOn
  <2>3. HandlerInv'
    BY <2>1 DEF HandlerInv, NewPlanIsUnknown, NewPlansDiffer, Creating, InFlight,
       HandlersKnowThePlan, FoundRowStays, RowsStay, SameKey
  <2> QED BY <2>1, <2>2, <2>3, NoticeFrame
<1>9. ASSUME NEW u \in Users, WithdrawBegins(u) \/ WithdrawTakesVotes(u) \/ WithdrawTakesPlans(u)
                                 \/ WithdrawTakesUser(u) \/ WithdrawFails(u)
      PROVE  NoticeInv'
  BY <1>4, <1>9, WithdrawStill DEF planVars
<1>10. CASE UNCHANGED vars \/ (\E p \in Plans : DeadlinePasses(p)) \/ \E u \in Users : LeaveRoom(u)
  BY <1>4, <1>10 DEF vars, DeadlinePasses, LeaveRoom, planVars
<1> QED
  BY <1>1, <1>2, <1>5, <1>6, <1>7, <1>8, <1>9, <1>10, ContinueNotices, ConfirmNotices
  DEF Next, Withdraw

\* No notification announces a plan, an answer or a confirmation that was not
\* committed with it, whichever handlers interleave, fail or are rolled back.
THEOREM NoticesAreTrue == Spec => []NotificationsAreTrue
<1>1. Init => NoticeInv
  BY InitHandlerInv DEF NoticeInv
<1>2. Spec => []NoticeInv
  BY <1>1, RowInvHolds, NextNoticeInv, PTL DEF Spec
<1>3. NoticeInv => NotificationsAreTrue
  BY DEF NoticeInv
<1> QED BY <1>2, <1>3, PTL

-----------------------------------------------------------------------------
(* The lifecycle that the transactions implement                           *)

\* A row that is not deleted is the answer of user u to plan p.
Says(row, p, u) == row.state = "live" /\ row.plan = p /\ row.user = u

\* What the rows of votes say of one user, of any version of the table.
AnswerIn(rows, p, u) ==
  IF \E i \in Requests : Says(rows[i], p, u) /\ rows[i].going THEN "going"
  ELSE IF \E i \in Requests : Says(rows[i], p, u) THEN "not_going" ELSE "none"

\* Lifecycle!answer.
AnswerTable == [p \in Plans |-> [u \in Users |-> AnswerOf(p, u)]]

\* AnswerOf reads the table, before a step and after it.
LEMMA AnswersAre ==
  /\ AnswerTable = [p \in Plans |-> [u \in Users |-> AnswerIn(vote, p, u)]]
  /\ AnswerTable' = [p \in Plans |-> [u \in Users |-> AnswerIn(vote', p, u)]]
<1>1. \A p \in Plans, u \in Users : AnswerOf(p, u) = AnswerIn(vote, p, u)
  BY DEF AnswerOf, Attending, Voters, AnswerIn, Says
<1>2. \A p \in Plans, u \in Users : AnswerOf(p, u)' = AnswerIn(vote', p, u)
  BY DEF AnswerOf, Attending, Voters, AnswerIn, Says
<1> QED BY <1>1, <1>2 DEF AnswerTable

\* The rows that are not deleted say the same as before.
LEMMA AnswersStay ==
  ASSUME \A i \in Requests : \/ vote'[i] = vote[i]
                             \/ vote'[i].state # "live" /\ vote[i].state # "live"
  PROVE  AnswerTable' = AnswerTable
<1>1. \A p \in Plans, u \in Users : AnswerIn(vote', p, u) = AnswerIn(vote, p, u)
  BY DEF AnswerIn, Says
<1> QED BY <1>1, AnswersAre

\* One row is written, and it is the only one of its user and plan.
LEMMA AnswerIsSaved ==
  ASSUME NEW i \in Requests, NEW p \in Plans, NEW u \in Users, NEW going \in BOOLEAN,
         \A j \in Requests \ {i} : vote'[j] = vote[j] /\ ~Says(vote[j], p, u),
         Says(vote'[i], p, u), vote'[i].going = going,
         vote[i].state = "live" => Says(vote[i], p, u),
         status[p] # "absent", UNCHANGED status
  PROVE  Lifecycle!Answer(p, u, IF going THEN "going" ELSE "not_going")
<1> DEFINE a == IF going THEN "going" ELSE "not_going"
<1>1. AnswerIn(vote', p, u) = a
  BY DEF AnswerIn, Says
<1>2. \A q \in Plans, x \in Users : q # p \/ x # u => AnswerIn(vote', q, x) = AnswerIn(vote, q, x)
  BY DEF AnswerIn, Says
<1> HIDE DEF a
<1>3. \A q \in Plans : q # p => AnswerTable'[q] = AnswerTable[q]
  BY <1>2, AnswersAre
<1>4. AnswerTable'[p] = [AnswerTable[p] EXCEPT ![u] = a]
  BY <1>1, <1>2, AnswersAre
<1>5. AnswerTable' = [AnswerTable EXCEPT ![p] = [AnswerTable[p] EXCEPT ![u] = a]]
  <2> HIDE DEF a
  <2>1. AnswerTable' = [q \in Plans |-> AnswerTable'[q]]
    BY AnswersAre
  <2>2. AnswerTable = [q \in Plans |-> AnswerTable[q]]
    BY AnswersAre
  <2> QED BY <1>3, <1>4, <2>1, <2>2
<1> QED BY <1>5 DEF Lifecycle!Answer, AnswerTable, a

\* save_plan_response is an answer, unless a withdrawal has deleted the row it found.
LEMMA CommitAnswers ==
  ASSUME TypeInv, RowInv, KeyInv, HandlerInv, NEW r \in Requests, SavePlanResponseCommit(r)
  PROVE  [Lifecycle!Next]_(Lifecycle!vars)
<1> DEFINE p == tx[r].plan
           u == tx[r].user
<1>1. /\ tx[r].pc = "flushed" /\ tx[r].op = "respond" /\ r \in Txns
      /\ p \in Plans /\ u \in Users /\ tx[r].going \in BOOLEAN /\ tx[r].vote \in Requests \cup {NULL}
      /\ tx[r].write \in {"insert", "update", "nothing"}
      /\ vote \in [Requests -> VoteRow] /\ UNCHANGED status
  BY DEF SavePlanResponseCommit, TypeInv, DataOK, TxOK, TxRecord, Txns, planVars
<1>2. status[p] # "absent"
  BY <1>1 DEF HandlerInv, HandlersKnowThePlan, InFlight, Creating
<1>3. CASE tx[r].write = "insert"
  <2>1. vote' = [vote EXCEPT ![r] = [state |-> "live", user |-> u, plan |-> p,
                                     going |-> tx[r].going]]
    BY <1>1, <1>3 DEF SavePlanResponseCommit
  <2>2. vote[r].state = "none"
    BY <1>1 DEF RowInv, RowsComeLast
  <2>3. Says(vote'[r], p, u) /\ vote'[r].going = tx[r].going
    BY <1>1, <2>1 DEF Says
  <2>4. \A j \in Requests \ {r} : vote'[j] = vote[j]
    BY <1>1, <2>1
  <2>5. \A j \in Requests : ~Says(vote[j], p, u)
    BY <1>1, <1>3 DEF KeyInv, InsertsAreNew, Indexed, SameKey, Says
  <2> HIDE DEF p, u
  <2>6. Lifecycle!Answer(p, u, IF tx[r].going THEN "going" ELSE "not_going")
    BY <1>1, <1>2, <2>2, <2>3, <2>4, <2>5, AnswerIsSaved
  <2> QED BY <1>1, <2>6 DEF Lifecycle!Next
<1>4. CASE tx[r].write = "update"
  <2> DEFINE i == tx[r].vote
  <2>1. i \in Requests /\ vote[i].state # "none" /\ vote[i].user = u /\ vote[i].plan = p
    BY <1>1, <1>4 DEF HandlerInv, FoundRowStays, InFlight, SameKey
  <2>2. vote' = [vote EXCEPT ![i] = [@ EXCEPT !.going = tx[r].going]]
    BY <1>1, <1>4 DEF SavePlanResponseCommit
  <2>3. \A j \in Requests \ {i} : vote'[j] = vote[j]
    BY <1>1, <2>1, <2>2
  <2>4. /\ vote'[i].state = vote[i].state /\ vote'[i].user = u /\ vote'[i].plan = p
        /\ vote'[i].going = tx[r].going
    <3>1. vote[i] \in VoteRow
      BY <1>1, <2>1
    <3> QED BY <1>1, <2>1, <2>2, <3>1 DEF VoteRow
  <2> HIDE DEF p, u, i
  <2>5. CASE vote[i].state # "live"
    <3>1. AnswerTable' = AnswerTable
      BY <2>3, <2>4, <2>5, AnswersStay
    <3> QED BY <1>1, <3>1 DEF Lifecycle!vars, AnswerTable
  <2>6. CASE vote[i].state = "live"
    <3>1. \A j \in Requests \ {i} : ~Says(vote[j], p, u)
      BY <2>1 DEF KeyInv, OneVotePerMember, Says
    <3>2. Says(vote[i], p, u) /\ Says(vote'[i], p, u)
      BY <2>1, <2>4, <2>6 DEF Says
    <3>3. Lifecycle!Answer(p, u, IF tx[r].going THEN "going" ELSE "not_going")
      BY <1>1, <1>2, <2>1, <2>3, <2>4, <3>1, <3>2, AnswerIsSaved
    <3> QED BY <1>1, <3>3 DEF Lifecycle!Next
  <2> QED BY <2>5, <2>6
<1>5. CASE tx[r].write = "nothing"
  <2>1. vote' = vote
    BY <1>1, <1>5 DEF SavePlanResponseCommit
  <2>2. AnswerTable' = AnswerTable
    BY <2>1, AnswersStay
  <2> QED BY <1>1, <2>2 DEF Lifecycle!vars, AnswerTable
<1> QED BY <1>1, <1>3, <1>4, <1>5

\* A withdrawal takes the answers it has locked, of one user, and no others.
LEMMA WithdrawalForgets ==
  ASSUME TypeInv, RowInv, KeyInv, NEW u \in Users, WithdrawCommit(u)
  PROVE  Lifecycle!Next
<1> DEFINE votes == leaving[u].votes
           ps == {p \in Plans : \E i \in votes : vote[i].plan = p}
<1>1. /\ UNCHANGED status
      /\ vote' = [i \in Requests |-> IF i \in votes THEN [vote[i] EXCEPT !.state = "deleted"]
                                                    ELSE vote[i]]
      /\ vote \in [Requests -> VoteRow] /\ votes \subseteq Requests
  BY DEF WithdrawCommit, TypeInv, DataOK, LeavingRecord
<1>2. \A i \in votes : vote[i].state # "none" /\ vote[i].user = u
  BY DEF RowInv, CapturedVotes
<1>3. \A i \in Requests : /\ i \notin votes => vote'[i] = vote[i]
                          /\ i \in votes => vote'[i].state # "live"
  BY <1>1 DEF VoteRow
<1> HIDE DEF votes
<1>4. \A p \in ps : AnswerIn(vote', p, u) = "none"
  <2> SUFFICES ASSUME NEW p \in ps, NEW j \in Requests, Says(vote'[j], p, u)
               PROVE  FALSE
    BY DEF AnswerIn
  <2>1. PICK i \in votes : vote[i].plan = p
    OBVIOUS
  <2>2. j \notin votes /\ vote[j].state = "live" /\ vote[j].plan = p /\ vote[j].user = u
    BY <1>3 DEF Says
  <2>3. i \in Requests /\ vote[i].state # "none" /\ vote[i].user = u
    BY <1>1, <1>2
  <2> QED BY <2>1, <2>2, <2>3 DEF KeyInv, OneVotePerMember
<1>5. \A p \in Plans, x \in Users : x # u \/ p \notin ps =>
        AnswerIn(vote', p, x) = AnswerIn(vote, p, x)
  <2> SUFFICES ASSUME NEW p \in Plans, NEW x \in Users, x # u \/ p \notin ps
               PROVE  AnswerIn(vote', p, x) = AnswerIn(vote, p, x)
    OBVIOUS
  <2>1. \A i \in Requests : i \in votes => ~Says(vote[i], p, x) /\ ~Says(vote'[i], p, x)
    BY <1>2, <1>3 DEF Says
  <2> QED BY <1>3, <2>1 DEF AnswerIn
<1>6. ps \subseteq Plans
  OBVIOUS
<1> HIDE DEF ps
<1>7. AnswerTable' = [p \in Plans |-> IF p \in ps THEN [AnswerTable[p] EXCEPT ![u] = "none"]
                                                  ELSE AnswerTable[p]]
  BY <1>4, <1>5, <1>6, AnswersAre
<1>8. Lifecycle!Forget(u, ps)
  BY <1>1, <1>7 DEF Lifecycle!Forget, AnswerTable
<1> QED BY <1>6, <1>8 DEF Lifecycle!Next

LEMMA InitLifecycle == Init => Lifecycle!Init
<1> SUFFICES ASSUME Init PROVE Lifecycle!Init
  OBVIOUS
<1>1. \A i \in Requests : vote[i].state = "none"
  BY DEF Init, NoVote
<1>2. AnswerTable = [p \in Plans |-> [u \in Users |-> "none"]]
  BY <1>1, AnswersAre DEF AnswerIn, Says
<1>3. status \in [Plans -> {"absent", "VOTING"}]
  BY DEF Init
<1> QED BY <1>2, <1>3 DEF Lifecycle!Init, AnswerTable

\* Every step is a step of the lifecycle of a plan or is invisible there.
LEMMA NextLifecycle ==
  ASSUME TypeInv, RowInv, KeyInv, HandlerInv, [Next]_vars
  PROVE  [Lifecycle!Next]_(Lifecycle!vars)
<1>1. ASSUME UNCHANGED <<status, vote>>
      PROVE  UNCHANGED Lifecycle!vars
  <2>1. AnswerTable' = AnswerTable
    BY <1>1, AnswersStay
  <2> QED BY <1>1, <2>1 DEF Lifecycle!vars, AnswerTable
<1>2. ASSUME NEW r \in Requests, CreatePlanCommit(r)
      PROVE  Lifecycle!Next
  <2> DEFINE p == tx[r].plan
  <2>1. p \in Plans /\ status[p] = "absent"
    BY <1>2 DEF CreatePlanCommit, TypeInv, TxOK, Txns, HandlerInv, NewPlanIsUnknown, Creating,
                InFlight
  <2>2. status' = [status EXCEPT ![p] = "VOTING"] /\ vote' = vote
    BY <1>2 DEF CreatePlanCommit
  <2>3. AnswerTable' = AnswerTable
    BY <2>2, AnswersStay
  <2> HIDE DEF p
  <2>4. Lifecycle!Propose(p)
    BY <2>1, <2>2, <2>3 DEF Lifecycle!Propose, AnswerTable
  <2> QED BY <2>1, <2>4 DEF Lifecycle!Next
<1>3. ASSUME NEW t \in Txns, ConfirmCommit(t)
      PROVE  [Lifecycle!Next]_(Lifecycle!vars)
  <2> DEFINE p == tx[t].plan
  <2>1. p \in Plans /\ status \in [Plans -> PlanStatus] /\ status[p] # "absent"
    BY <1>3 DEF ConfirmCommit, TypeInv, DataOK, TxOK, HandlerInv, HandlersKnowThePlan, Creating,
                InFlight
  <2>2. status' = [status EXCEPT ![p] = "CONFIRMED"] /\ vote' = vote
    BY <1>3 DEF ConfirmCommit
  <2> HIDE DEF p
  <2>3. AnswerTable' = AnswerTable
    BY <2>2, AnswersStay
  <2>4. CASE status[p] = "VOTING"
    <3>1. Lifecycle!Confirm(p)
      BY <2>2, <2>3, <2>4 DEF Lifecycle!Confirm, AnswerTable
    <3> QED BY <2>1, <3>1 DEF Lifecycle!Next
  <2>5. CASE status[p] = "CONFIRMED"
    <3>1. status' = status
      BY <2>1, <2>2, <2>5
    <3> QED BY <1>1, <2>2, <3>1
  <2> QED BY <2>1, <2>4, <2>5 DEF PlanStatus
<1>4. ASSUME NEW r \in Requests, Arrive(r)
      PROVE  UNCHANGED <<status, vote>>
  <2>1. CASE \E u \in Users, place \in Places, p \in Plans : CreatePlanCheck(r, u, place, p)
    BY <2>1 DEF CreatePlanCheck, planVars
  <2>2. CASE \E u \in Users, p \in Plans, going \in BOOLEAN : SavePlanResponseCheck(r, u, p, going)
    BY <2>2 DEF SavePlanResponseCheck, planVars
  <2>3. CASE \E u \in Users, p \in Plans : ClosePlanCheck(r, u, p)
    BY <2>3 DEF ClosePlanCheck, planVars
  <2>4. CASE \E u \in Users, p \in Plans : SendRemindersCheck(r, u, p)
    BY <2>4 DEF SendRemindersCheck, planVars
  <2> QED BY <1>4, <2>1, <2>2, <2>3, <2>4 DEF Arrive
<1>5. ASSUME NEW r \in Requests,
             \/ CreatePlanInsert(r) \/ SavePlanResponseInsert(r) \/ SavePlanResponseFlush(r)
             \/ SavePlanResponseFails(r) \/ SendRemindersCommit(r)
      PROVE  UNCHANGED <<status, vote>>
  BY <1>5 DEF CreatePlanInsert, SavePlanResponseInsert, SavePlanResponseFlush,
              SavePlanResponseFails, SendRemindersCommit, planVars
<1>6. ASSUME NEW w \in Workers, NEW p \in Plans, AutoCloseLock(w, p)
      PROVE  UNCHANGED <<status, vote>>
  BY <1>6 DEF AutoCloseLock, planVars
<1>7. ASSUME NEW t \in Txns, ConfirmCollect(t) \/ Rollback(t)
      PROVE  UNCHANGED <<status, vote>>
  BY <1>7 DEF ConfirmCollect, Rollback, planVars
<1>8. CASE \/ UNCHANGED vars
           \/ \E t \in Txns, u \in Users : LocksUserRow(t, u)
           \/ \E r \in Requests, u \in Users : DeadlockDetected(r, u)
           \/ \E p \in Plans : DeadlinePasses(p)
           \/ \E u \in Users : LeaveRoom(u)
  BY <1>1, <1>8 DEF vars, LocksUserRow, DeadlockDetected, DeadlinePasses, LeaveRoom, planVars
<1>9. ASSUME NEW u \in Users, WithdrawBegins(u) \/ WithdrawTakesVotes(u) \/ WithdrawTakesPlans(u)
                                 \/ WithdrawTakesUser(u) \/ WithdrawFails(u)
      PROVE  UNCHANGED <<status, vote>>
  BY <1>9, WithdrawStill DEF planVars
<1> QED
  BY <1>1, <1>2, <1>3, <1>4, <1>5, <1>6, <1>7, <1>8, <1>9, CommitAnswers, WithdrawalForgets
  DEF Next, Continue, Confirm, Withdraw

\* For all the interleavings, refused duplicates, blind updates and rollbacks, every
\* step is an answer of one member, a proposal, the one confirmation of a plan, a
\* withdrawal or invisible.
THEOREM PlansFollowTheLifecycle == Spec => ImplementsLifecycle
<1>1. Init => NoticeInv
  BY InitHandlerInv DEF NoticeInv
<1>2. Spec => [](KeyInv /\ NoticeInv)
  BY <1>1, RowInvHolds, InitKeyInv, NextKeyInv, NextNoticeInv, PTL DEF Spec
<1>3. NoticeInv => HandlerInv
  BY DEF NoticeInv
<1>4. TypeInv /\ RowInv /\ KeyInv /\ NoticeInv /\ [Next]_vars =>
        [Lifecycle!Next]_(Lifecycle!vars)
  BY <1>3, NextLifecycle
<1>5. Spec => Lifecycle!Spec
  BY <1>2, <1>4, RowInvHolds, InitLifecycle, PTL DEF Spec, Lifecycle!Spec
<1> QED BY <1>5 DEF ImplementsLifecycle

=============================================================================
