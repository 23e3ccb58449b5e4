----------------------------- MODULE PlanVoting -----------------------------
(***************************************************************************)
(* The voting lifecycle of a plan (services/plan/plan_service.py and the   *)
(* auto-close worker of services/plan/auto_close_service.py), at the grain *)
(* of database transactions.                                               *)
(*                                                                         *)
(* Every request handler runs in one PostgreSQL transaction at READ        *)
(* COMMITTED on a thread of its own; the auto-close worker is one more     *)
(* thread.  A handler is split where another transaction can get in        *)
(* between: the SELECTs that decide (…Check), the flush that takes row     *)
(* locks (…Flush) and the commit that publishes the writes (…Commit).  The *)
(* SELECTs of one check are taken as one step.  A request that a check     *)
(* rejects changes nothing and is left out.                                *)
(*                                                                         *)
(* One handler is different: withdraw_user is a coroutine.  Its queries    *)
(* block the event loop while they wait for a row, and it keeps the rows   *)
(* it has written across awaits, until it commits.  Nothing else that is   *)
(* modelled here runs on the loop but the call that starts the next poll   *)
(* of the worker; a poll or a handler that has a thread goes on without it. *)
(*                                                                         *)
(* One room is modelled.  Its members only leave here; the room service    *)
(* has operations this module does not need.  A response deadline is a     *)
(* flag that the clock raises.                                             *)
(***************************************************************************)
EXTENDS Naturals, FiniteSets

CONSTANTS
  Users,      \* rows of users
  Plans,      \* plan ids; a plan is a row once its status is not "absent"
  Places,     \* undeleted places of the room
  Requests,   \* HTTP requests; each one runs a handler once
  Workers,    \* auto-close worker threads
  NULL,       \* SQL NULL / Python None
  Ops,        \* the endpoints clients call in this instance
  OpenPlans,  \* plans that exist, in VOTING, when the behaviour starts
  MaxChurn,   \* bound: members leaving or withdrawing
  MaxFaults   \* bound: transactions that fail and roll back

Txns == Requests \cup Workers

PlanStatus == {"absent", "VOTING", "CONFIRMED"}

NotificationType ==
  {"PLAN_REQUESTED", "MEMBER_GOING", "PLAN_CONFIRMED", "RESPONSE_DEADLINE_SOON"}

AllOps == {"create", "respond", "close", "remind"}

ASSUME IdsAreDistinct ==
  /\ Requests \cap Workers = {}
  /\ NULL \notin Users \cup Plans \cup Places \cup Requests \cup Workers
  /\ OpenPlans \subseteq Plans

ASSUME BoundsAreNat == MaxChurn \in Nat /\ MaxFaults \in Nat

VARIABLES
  status,     \* plans.status
  creator,    \* plans.creator_id
  placeOf,    \* plans.place_id
  due,        \* plans.voting_ends_at <= now
  vote,       \* votes rows, by the request that inserted them
  active,     \* users that are ACTIVE and not deleted
  member,     \* users with an undeleted room_members row
  host,       \* the member whose role is HOST
  inbox,      \* notifications rows, soft-deleted ones included
  tx,         \* per transaction: program counter and what the handler holds
  leaving,    \* per user: the withdrawal under way and the rows it has locked
  reclosers,  \* history: who confirmed a plan that was already CONFIRMED
  churn,      \* members that have left or withdrawn, up to MaxChurn
  faults      \* transactions that have failed, up to MaxFaults

planVars == <<status, creator, placeOf, due>>
roomVars == <<active, member, host>>
boundVars == <<churn, faults>>
vars == <<status, creator, placeOf, due, vote, active, member, host, inbox, tx,
          leaving, reclosers, churn, faults>>

-----------------------------------------------------------------------------
(* Rows and transactions                                                   *)

\* A row of votes.  The unique constraint on (user_id, plan_id) counts
\* soft-deleted rows too, so "deleted" rows stay.
VoteRow == [state : {"none", "live", "deleted"},
            user  : Users \cup {NULL},
            plan  : Plans \cup {NULL},
            going : BOOLEAN]

NoVote == [state |-> "none", user |-> NULL, plan |-> NULL, going |-> FALSE]

Notification == [to : Users, type : NotificationType, plan : Plans, by : Txns]

\* What a transaction holds in its local variables.  `heard` are the users
\* whose votes it read, `notify` the recipients it computed, `vote` and
\* `write` what upsert_vote found and is going to do about it, `holds` the
\* rows of users it has locked FOR KEY SHARE.
TxRecord == [pc     : {"idle", "checked", "read", "inserting", "inserted", "flushed",
                       "done"},
             op     : AllOps \cup {"auto_close", "none"},
             user   : Users \cup {NULL},
             plan   : Plans \cup {NULL},
             place  : Places \cup {NULL},
             write  : {"insert", "update", "nothing"},
             vote   : Requests \cup {NULL},
             going  : BOOLEAN,
             heard  : SUBSET Users,
             notify : SUBSET Users,
             holds  : SUBSET Users]

Idle == [pc |-> "idle", op |-> "none", user |-> NULL, plan |-> NULL,
         place |-> NULL, write |-> "nothing", vote |-> NULL, going |-> FALSE,
         heard |-> {}, notify |-> {}, holds |-> {}]

Done == [Idle EXCEPT !.pc = "done"]

\* After commit or rollback a request is over; a worker takes the next plan.
Finished(t) == IF t \in Workers THEN Idle ELSE Done

\* A withdrawal: the rows it is going to UPDATE next, and the votes and plans
\* it has found and locked.  Once all is written it "awaits" the identity
\* provider and Redis.
LeavingRecord == [pc    : {"none", "votes", "plans", "users", "awaits"},
                  votes : SUBSET Requests,
                  plans : SUBSET Plans]

Stays == [pc |-> "none", votes |-> {}, plans |-> {}]

-----------------------------------------------------------------------------
(* Queries                                                                 *)

\* find_vote_by_plan_and_user: ids of the undeleted rows.
LiveVotes(p, u) ==
  {i \in Requests : vote[i].state = "live" /\ vote[i].plan = p /\ vote[i].user = u}

\* find_votes_by_plan_id: the users whose undeleted votes come back.
Voters(p) ==
  {u \in Users : \E i \in Requests :
     vote[i].state = "live" /\ vote[i].plan = p /\ vote[i].user = u}

Attending(p) ==
  {u \in Users : \E i \in Requests :
     /\ vote[i].state = "live" /\ vote[i].plan = p /\ vote[i].user = u
     /\ vote[i].going}

\* Mutant of Participants: find_members_by_ids without its filter on deleted
\* users, and creator_id taken as it is.
ParticipantsUnfiltered(p) == {creator[p]} \cup Attending(p)

\* The creator and the attending voters, without deleted users.
Participants(p) == {u \in active : u = creator[p] \/ u \in Attending(p)}

IsHostOrCreator(p, u) == creator[p] = u \/ host = u

\* _ensure_active_user and _ensure_plan_accessible.
MayAccess(p, u) == status[p] # "absent" /\ u \in active /\ u \in member

Notifications(users, type, p, t) ==
  {[to |-> u, type |-> type, plan |-> p, by |-> t] : u \in users}

\* Mutant of LockedForUpdate: the transaction that took the lock ends before
\* the confirmation begins to write.
LockReleasedEarly(p) == {w \in Workers : tx[w].pc = "checked" /\ tx[w].plan = p}

\* Row locks on plans, read off the transactions in flight.  SELECT ... FOR
\* UPDATE is held by an auto-close from its SELECT to its commit.  A vote's
\* INSERT holds FOR KEY SHARE on the plan its foreign key points to; the
\* UPDATE of a vote does not touch the key and locks nothing on the plan.
LockedForUpdate(p) ==
  {w \in Workers : tx[w].pc \in {"checked", "read"} /\ tx[w].plan = p}

LockedForKeyShare(p) ==
  {r \in Requests : /\ tx[r].pc = "flushed" /\ tx[r].write = "insert"
                    /\ tx[r].plan = p}

\* UPDATE plans SET creator_id, by a withdrawal.  It keeps FOR UPDATE and
\* other UPDATEs out, and lets foreign keys through.
LockedByWithdrawal(p) == \E u \in Users : p \in leaving[u].plans

\* UPDATE votes, by a withdrawal or by an answer that is changed.
VoteLocked(i) ==
  \/ \E u \in Users : i \in leaving[u].votes
  \/ \E r \in Requests : /\ tx[r].pc = "flushed" /\ tx[r].write = "update"
                          /\ tx[r].vote = i

\* UPDATE users, by a withdrawal.  provider_id is under a unique constraint,
\* so that foreign keys to the row wait.
UserLocked(u) == leaving[u].pc = "awaits"

\* The rows of users that the INSERT t has come to refers to.
References(t) ==
  IF tx[t].pc = "read" /\ tx[t].op = "create" THEN {tx[t].user}
  ELSE IF tx[t].pc = "inserting" THEN {tx[t].user}
  ELSE IF tx[t].pc = "read" /\ tx[t].op = "respond" THEN {}
  ELSE tx[t].notify

UserRowsFree(t) == \A u \in References(t) : ~UserLocked(u)

\* A withdrawal in the middle of its queries has the event loop.
LoopRuns == \A u \in Users : leaving[u].pc \in {"none", "awaits"}

-----------------------------------------------------------------------------
(* create_plan                                                             *)

\* The active-plan query takes no lock and no constraint backs it.  `p` is the
\* UUID the new row is going to get.
CreatePlanCheck(r, u, place, p) ==
  /\ "create" \in Ops
  /\ tx[r].pc = "idle"
  /\ u \in active /\ u \in member
  /\ \A q \in Plans : ~(placeOf[q] = place /\ status[q] \in {"VOTING", "CONFIRMED"})
  /\ member \ {u} # {}
  /\ status[p] = "absent"
  /\ \A s \in Txns : tx[s].plan # p
  /\ tx' = [tx EXCEPT ![r] = [Idle EXCEPT !.pc = "read", !.op = "create",
                                          !.user = u, !.place = place, !.plan = p]]
  /\ UNCHANGED <<planVars, vote, roomVars, inbox, leaving, reclosers, boundVars>>

\* The row is inserted in VOTING with a deadline in the future; then the
\* members to ask are read.
CreatePlanInsert(r) ==
  /\ tx[r].op = "create" /\ tx[r].pc = "read"
  /\ UserRowsFree(r)
  /\ tx' = [tx EXCEPT ![r].pc = "inserted",
                      ![r].notify = (member \cap active) \ {tx[r].user},
                      ![r].holds = {tx[r].user}]
  /\ UNCHANGED <<planVars, vote, roomVars, inbox, leaving, reclosers, boundVars>>

\* The members other than the creator are asked in the same transaction.
CreatePlanCommit(r) ==
  /\ tx[r].op = "create" /\ tx[r].pc = "inserted"
  /\ UserRowsFree(r)
  /\ status' = [status EXCEPT ![tx[r].plan] = "VOTING"]
  /\ creator' = [creator EXCEPT ![tx[r].plan] = tx[r].user]
  /\ placeOf' = [placeOf EXCEPT ![tx[r].plan] = tx[r].place]
  /\ inbox' = inbox \cup Notifications(tx[r].notify, "PLAN_REQUESTED", tx[r].plan, r)
  /\ tx' = [tx EXCEPT ![r] = Done]
  /\ UNCHANGED <<due, vote, roomVars, leaving, reclosers, boundVars>>

-----------------------------------------------------------------------------
(* save_plan_response                                                      *)

\* The checks, and the SELECT of upsert_vote that decides between INSERT and
\* UPDATE.  An UPDATE that changes nothing is never sent.  The creator is
\* told only of a GOING.
SavePlanResponseCheck(r, u, p, going) ==
  /\ "respond" \in Ops
  /\ tx[r].pc = "idle"
  /\ MayAccess(p, u)
  /\ creator[p] # u
  /\ status[p] = "VOTING"
  /\ ~due[p]
  /\ \E v \in (IF LiveVotes(p, u) = {} THEN {NULL} ELSE LiveVotes(p, u)) :
       tx' = [tx EXCEPT ![r] =
                [Idle EXCEPT !.pc = "read", !.op = "respond", !.user = u,
                             !.plan = p, !.going = going, !.vote = v,
                             !.write = IF v = NULL THEN "insert"
                                       ELSE IF vote[v].going = going THEN "nothing"
                                       ELSE "update",
                             !.notify = IF going THEN {creator[p]} \ {NULL} ELSE {}]]
  /\ UNCHANGED <<planVars, vote, roomVars, inbox, leaving, reclosers, boundVars>>

\* The INSERT of the same (user, plan) by another transaction, or the UPDATE
\* of a row that has the key, is not committed: the unique index must wait.
KeyIsPending(r) ==
  \/ \E s \in Requests : /\ tx[s].pc \in {"inserting", "flushed"}
                          /\ tx[s].write = "insert"
                          /\ tx[s].user = tx[r].user /\ tx[s].plan = tx[r].plan
  \/ \E i \in Requests : /\ vote[i].user = tx[r].user /\ vote[i].plan = tx[r].plan
                          /\ VoteLocked(i)

\* Mutant of InsertConflicts: a unique index over undeleted rows only.
InsertConflictsWithLive(r) ==
  \E i \in Requests : /\ vote[i].state = "live"
                      /\ vote[i].user = tx[r].user /\ vote[i].plan = tx[r].plan

\* The unique constraint uq_votes_user_plan, soft-deleted rows included.
InsertConflicts(r) ==
  \E i \in Requests : /\ vote[i].state # "none"
                      /\ vote[i].user = tx[r].user /\ vote[i].plan = tx[r].plan

\* The row goes into the unique index ...
SavePlanResponseInsert(r) ==
  /\ tx[r].op = "respond" /\ tx[r].pc = "read" /\ tx[r].write = "insert"
  /\ ~KeyIsPending(r) /\ ~InsertConflicts(r)
  /\ tx' = [tx EXCEPT ![r].pc = "inserting"]
  /\ UNCHANGED <<planVars, vote, roomVars, inbox, leaving, reclosers, boundVars>>

\* Mutant of ForeignKeysWait: the worker locks with FOR NO KEY UPDATE, which
\* lets foreign keys through.
ForeignKeysIgnoreLock(r) == ~UserRowsFree(r)

\* ... and then its foreign keys are checked, which a withdrawal of the user
\* and FOR UPDATE on the plan keep out.
ForeignKeysWait(r) == ~UserRowsFree(r) \/ LockedForUpdate(tx[r].plan) # {}

SavePlanResponseFlush(r) ==
  /\ tx[r].op = "respond"
  /\ \/ /\ tx[r].pc = "inserting"
        /\ ~ForeignKeysWait(r)
        /\ tx' = [tx EXCEPT ![r].pc = "flushed", ![r].holds = {tx[r].user}]
     \/ /\ tx[r].pc = "read" /\ tx[r].write # "insert"
        /\ ~(tx[r].write = "update" /\ VoteLocked(tx[r].vote))
        /\ tx' = [tx EXCEPT ![r].pc = "flushed"]
  /\ UNCHANGED <<planVars, vote, roomVars, inbox, leaving, reclosers, boundVars>>

\* Mutant of SavePlanResponseFails: the INSERT is tried again and again.
SavePlanResponseRetries(r) ==
  /\ tx[r].op = "respond" /\ tx[r].pc = "read"
  /\ tx[r].write = "insert" /\ ~KeyIsPending(r) /\ InsertConflicts(r)
  /\ UNCHANGED vars

\* IntegrityError: rollback and PlanResponseSaveFailedException.
SavePlanResponseFails(r) ==
  /\ tx[r].op = "respond" /\ tx[r].pc = "read"
  /\ tx[r].write = "insert" /\ ~KeyIsPending(r) /\ InsertConflicts(r)
  /\ tx' = [tx EXCEPT ![r] = Done]
  /\ UNCHANGED <<planVars, vote, roomVars, inbox, leaving, reclosers, boundVars>>

\* Mutant of SavePlanResponseCommit: the plan that was read is written back
\* with all its columns.
SavePlanResponseWritesPlan(r) ==
  /\ tx[r].op = "respond" /\ tx[r].pc = "flushed"
  /\ vote' = IF tx[r].write = "insert"
               THEN [vote EXCEPT ![r] = [state |-> "live", user |-> tx[r].user,
                                         plan |-> tx[r].plan, going |-> tx[r].going]]
               ELSE vote
  /\ status' = [status EXCEPT ![tx[r].plan] = "VOTING"]
  /\ tx' = [tx EXCEPT ![r] = Done]
  /\ UNCHANGED <<creator, placeOf, due, roomVars, inbox, leaving, reclosers, boundVars>>

\* The creator is told.  The UPDATE was by primary key: it reaches the row
\* whatever became of it.
SavePlanResponseCommit(r) ==
  /\ tx[r].op = "respond" /\ tx[r].pc = "flushed"
  /\ UserRowsFree(r)
  /\ vote' = CASE tx[r].write = "insert" ->
                    [vote EXCEPT ![r] = [state |-> "live", user |-> tx[r].user,
                                         plan |-> tx[r].plan, going |-> tx[r].going]]
               [] tx[r].write = "update" ->
                    [vote EXCEPT ![tx[r].vote] = [@ EXCEPT !.going = tx[r].going]]
               [] OTHER -> vote
  /\ inbox' = inbox \cup Notifications(tx[r].notify, "MEMBER_GOING", tx[r].plan, r)
  /\ tx' = [tx EXCEPT ![r] = Done]
  /\ UNCHANGED <<planVars, roomVars, leaving, reclosers, boundVars>>

-----------------------------------------------------------------------------
(* close_plan and the auto-close worker                                    *)

\* close_plan reads the status without a lock.
ClosePlanCheck(r, u, p) ==
  /\ "close" \in Ops
  /\ tx[r].pc = "idle"
  /\ MayAccess(p, u)
  /\ IsHostOrCreator(p, u)
  /\ status[p] = "VOTING"
  /\ tx' = [tx EXCEPT ![r] = [Idle EXCEPT !.pc = "checked", !.op = "close",
                                          !.user = u, !.plan = p]]
  /\ UNCHANGED <<planVars, vote, roomVars, inbox, leaving, reclosers, boundVars>>

\* Mutant of AutoCloseLock: plans whose creator has withdrawn are not selected.
AutoCloseNeedsCreator(w, p) ==
  /\ tx[w].pc = "idle"
  /\ status[p] = "VOTING"
  /\ due[p]
  /\ creator[p] # NULL
  /\ LockedForUpdate(p) = {} /\ LockedForKeyShare(p) = {} /\ ~LockedByWithdrawal(p)
  /\ tx' = [tx EXCEPT ![w] = [Idle EXCEPT !.pc = "checked", !.op = "auto_close",
                                          !.plan = p]]
  /\ UNCHANGED <<planVars, vote, roomVars, inbox, leaving, reclosers, boundVars>>

\* find_due_voting_plan_id_for_update: a row another transaction has locked
\* against FOR UPDATE is skipped.  The handler re-reads the plan afterwards
\* and gives up if it is not VOTING any more; LockedPlanIsOpen shows that
\* this cannot happen while the lock is held.
AutoCloseLock(w, p) ==
  /\ tx[w].pc = "idle"
  /\ status[p] = "VOTING"
  /\ due[p]
  /\ LockedForUpdate(p) = {} /\ LockedForKeyShare(p) = {} /\ ~LockedByWithdrawal(p)
  /\ tx' = [tx EXCEPT ![w] = [Idle EXCEPT !.pc = "checked", !.op = "auto_close",
                                          !.plan = p]]
  /\ UNCHANGED <<planVars, vote, roomVars, inbox, leaving, reclosers, boundVars>>

\* Mutant of ConfirmCollect: the notifications are committed on their own,
\* before the plan is written.
CollectCommitsNotifications(t) ==
  /\ tx[t].op \in {"close", "auto_close"} /\ tx[t].pc = "checked"
  /\ tx' = [tx EXCEPT ![t].pc = "read",
                      ![t].heard = Voters(tx[t].plan)]
  /\ inbox' = inbox \cup Notifications(Participants(tx[t].plan) \ {tx[t].user},
                                       "PLAN_CONFIRMED", tx[t].plan, t)
  /\ UNCHANGED <<planVars, vote, roomVars, leaving, reclosers, boundVars>>

\* _confirm_plan_and_dispatch_notifications, the reads: votes, then the
\* participants; the closing user is not notified, auto-close excludes nobody.
ConfirmCollect(t) ==
  /\ tx[t].op \in {"close", "auto_close"} /\ tx[t].pc = "checked"
  /\ tx' = [tx EXCEPT ![t].pc = "read",
                      ![t].heard = Voters(tx[t].plan),
                      ![t].notify = Participants(tx[t].plan) \ {tx[t].user}]
  /\ UNCHANGED <<planVars, vote, roomVars, inbox, leaving, reclosers, boundVars>>

\* Somebody else has locked the plan against an UPDATE.
ConfirmMustWait(t) ==
  LockedForUpdate(tx[t].plan) \ {t} # {} \/ LockedByWithdrawal(tx[t].plan)

\* One flush, which INSERTs the notifications before it UPDATEs the plan, and
\* the commit.  The UPDATE is by primary key and does not look at the status
\* again.
ConfirmCommit(t) ==
  /\ tx[t].op \in {"close", "auto_close"} /\ tx[t].pc = "read"
  /\ UserRowsFree(t) /\ ~ConfirmMustWait(t)
  /\ status' = [status EXCEPT ![tx[t].plan] = "CONFIRMED"]
  /\ inbox' = inbox \cup Notifications(tx[t].notify, "PLAN_CONFIRMED", tx[t].plan, t)
  /\ reclosers' = IF status[tx[t].plan] = "CONFIRMED"
                    THEN [reclosers EXCEPT ![tx[t].plan] = @ \cup {t}]
                    ELSE reclosers
  /\ tx' = [tx EXCEPT ![t] = Finished(t)]
  /\ UNCHANGED <<creator, placeOf, due, vote, roomVars, leaving, boundVars>>

-----------------------------------------------------------------------------
(* send_pending_reminders, send_pending_reminder_test                      *)

\* _get_pending_member_ids
PendingMembers(p) ==
  {m \in member \cap active : m # creator[p] /\ m \notin Voters(p)}

\* Either everybody pending, or the one member the test endpoint names.
SendRemindersCheck(r, u, p) ==
  /\ "remind" \in Ops
  /\ tx[r].pc = "idle"
  /\ MayAccess(p, u)
  /\ IsHostOrCreator(p, u)
  /\ status[p] = "VOTING"
  /\ ~due[p]
  /\ \E to \in {PendingMembers(p)} \cup {{m} : m \in PendingMembers(p)} :
       /\ to # {}
       /\ tx' = [tx EXCEPT ![r] = [Idle EXCEPT !.pc = "read", !.op = "remind",
                                               !.user = u, !.plan = p, !.notify = to]]
  /\ UNCHANGED <<planVars, vote, roomVars, inbox, leaving, reclosers, boundVars>>

SendRemindersCommit(r) ==
  /\ tx[r].op = "remind" /\ tx[r].pc = "read"
  /\ UserRowsFree(r)
  /\ inbox' = inbox \cup Notifications(tx[r].notify, "RESPONSE_DEADLINE_SOON",
                                       tx[r].plan, r)
  /\ tx' = [tx EXCEPT ![r] = Done]
  /\ UNCHANGED <<planVars, vote, roomVars, leaving, reclosers, boundVars>>

-----------------------------------------------------------------------------
(* Waiting for rows                                                        *)

\* The handler is at an INSERT, or a flush that begins with one, and cannot
\* finish it.
HasToWait(t) ==
  /\ tx[t].pc \notin {"idle", "done"}
  /\ \/ ~UserRowsFree(t)
     \/ tx[t].op \in {"close", "auto_close"} /\ tx[t].pc = "read" /\ ConfirmMustWait(t)
     \/ tx[t].pc = "inserting" /\ ForeignKeysWait(t)

\* Foreign keys lock the rows of users one after the other, and a statement
\* that waits keeps those it has.
LocksUserRow(t, u) ==
  /\ HasToWait(t)
  /\ u \in References(t) \ tx[t].holds
  /\ ~UserLocked(u)
  /\ tx' = [tx EXCEPT ![t].holds = @ \cup {u}]
  /\ UNCHANGED <<planVars, vote, roomVars, inbox, leaving, reclosers, boundVars>>

\* The one cycle that PostgreSQL sees: somebody closes the plan of a creator
\* who withdraws, and has inserted the creator's notification.  The deadlock
\* detector fails one of the two.
DeadlockDetected(r, u) ==
  /\ tx[r].op = "close" /\ tx[r].pc = "read" /\ UserRowsFree(r)
  /\ leaving[u].pc = "users" /\ u \in tx[r].holds
  /\ tx[r].plan \in leaving[u].plans
  /\ \/ tx' = [tx EXCEPT ![r] = Done] /\ UNCHANGED leaving
     \/ leaving' = [leaving EXCEPT ![u] = Stays] /\ UNCHANGED tx
  /\ UNCHANGED <<planVars, vote, roomVars, inbox, reclosers, boundVars>>

-----------------------------------------------------------------------------
(* What happens around the handlers                                        *)

\* The clock reaches voting_ends_at.
DeadlinePasses(p) ==
  /\ status[p] # "absent" /\ ~due[p]
  /\ due' = [due EXCEPT ![p] = TRUE]
  /\ UNCHANGED <<status, creator, placeOf, vote, roomVars, inbox, tx, leaving,
                 reclosers, boundVars>>

\* leave_room under the lock of the room row: a host hands over to another
\* member, the last one closes the room.  Being kicked has the same effect
\* on the tables this module reads.  A member row that a withdrawal has
\* written makes it wait.
LeaveRoom(u) ==
  /\ churn < MaxChurn
  /\ u \in member /\ leaving[u].pc = "none"
  /\ member' = member \ {u}
  /\ \/ u # host /\ host' = host
     \/ u = host /\ member \ {u} = {} /\ host' = NULL
     \/ u = host /\ \E successor \in {v \in member \ {u} : leaving[v].pc = "none"} :
          host' = successor
  /\ churn' = churn + 1
  /\ UNCHANGED <<planVars, vote, active, inbox, tx, leaving, reclosers, faults>>

-----------------------------------------------------------------------------
(* withdraw_user, as far as plans see it                                   *)

\* The SELECT of the account, and the UPDATEs of memberships, images and
\* notifications, which wait for nothing that this module has.  What a second
\* withdrawal of the same user does to the first is left to AccountSessions.
WithdrawBegins(u) ==
  /\ churn < MaxChurn
  /\ LoopRuns
  /\ u \in active /\ leaving[u].pc = "none"
  /\ leaving' = [leaving EXCEPT ![u].pc = "votes"]
  /\ churn' = churn + 1
  /\ UNCHANGED <<planVars, vote, roomVars, inbox, tx, reclosers, faults>>

\* The UPDATE of votes waits for an answer that is being changed; one that is
\* inserted and not committed yet is invisible to it.
WithdrawTakesVotes(u) ==
  /\ leaving[u].pc = "votes"
  /\ LET votes == {i \in Requests : vote[i].state = "live" /\ vote[i].user = u}
     IN  /\ \A i \in votes : ~VoteLocked(i)
         /\ leaving' = [leaving EXCEPT ![u].pc = "plans", ![u].votes = votes]
  /\ UNCHANGED <<planVars, vote, roomVars, inbox, tx, reclosers, boundVars>>

WithdrawTakesPlans(u) ==
  /\ leaving[u].pc = "plans"
  /\ LET plans == {p \in Plans : creator[p] = u}
     IN  /\ \A p \in plans : LockedForUpdate(p) = {}
         /\ leaving' = [leaving EXCEPT ![u].pc = "users", ![u].plans = plans]
  /\ UNCHANGED <<planVars, vote, roomVars, inbox, tx, reclosers, boundVars>>

\* db.flush: the row of the user waits for everybody whose foreign keys refer
\* to it.
WithdrawTakesUser(u) ==
  /\ leaving[u].pc = "users"
  /\ \A t \in Txns : u \notin tx[t].holds
  /\ leaving' = [leaving EXCEPT ![u].pc = "awaits"]
  /\ UNCHANGED <<planVars, vote, roomVars, inbox, tx, reclosers, boundVars>>

\* The awaits are over and the loop comes back to the coroutine.  Memberships
\* and the votes it has found are soft-deleted, plans lose their creator,
\* nobody inherits HOST.
WithdrawCommit(u) ==
  /\ leaving[u].pc = "awaits" /\ LoopRuns
  /\ active' = active \ {u}
  /\ member' = member \ {u}
  /\ host' = IF host = u THEN NULL ELSE host
  /\ vote' = [i \in Requests |->
                IF i \in leaving[u].votes THEN [vote[i] EXCEPT !.state = "deleted"]
                                          ELSE vote[i]]
  /\ creator' = [p \in Plans |-> IF p \in leaving[u].plans THEN NULL ELSE creator[p]]
  /\ leaving' = [leaving EXCEPT ![u] = Stays]
  /\ UNCHANGED <<status, placeOf, due, inbox, tx, reclosers, boundVars>>

\* A database error, or the identity provider or Redis fails: the coroutine
\* rolls back.
WithdrawFails(u) ==
  /\ faults < MaxFaults
  /\ leaving[u].pc # "none"
  /\ leaving[u].pc = "awaits" => LoopRuns
  /\ leaving' = [leaving EXCEPT ![u] = Stays]
  /\ faults' = faults + 1
  /\ UNCHANGED <<planVars, vote, roomVars, inbox, tx, reclosers, churn>>

-----------------------------------------------------------------------------
(* Failures                                                                *)

\* A database error, or the process going down: the transaction is rolled
\* back.  The worker logs it and comes back for the plan.
Rollback(t) ==
  /\ faults < MaxFaults
  /\ tx[t].pc \notin {"idle", "done"}
  /\ tx' = [tx EXCEPT ![t] = Finished(t)]
  /\ faults' = faults + 1
  /\ UNCHANGED <<planVars, vote, roomVars, inbox, leaving, reclosers, churn>>

-----------------------------------------------------------------------------
(* Specification                                                           *)

Init ==
  /\ status = [p \in Plans |-> IF p \in OpenPlans THEN "VOTING" ELSE "absent"]
  /\ creator \in [Plans -> Users \cup {NULL}]
  /\ placeOf \in [Plans -> Places \cup {NULL}]
  /\ \A p \in Plans : /\ creator[p] = NULL <=> p \notin OpenPlans
                      /\ placeOf[p] = NULL <=> p \notin OpenPlans
  /\ \A p, q \in OpenPlans : placeOf[p] = placeOf[q] => p = q
  /\ due = [p \in Plans |-> FALSE]
  /\ vote = [i \in Requests |-> NoVote]
  /\ active = Users
  /\ member = Users
  /\ host \in Users
  /\ inbox = {}
  /\ tx = [t \in Txns |-> Idle]
  /\ leaving = [u \in Users |-> Stays]
  /\ reclosers = [p \in Plans |-> {}]
  /\ churn = 0
  /\ faults = 0

\* A client calls an endpoint, and the checks let the request in.
Arrive(r) ==
  \/ \E u \in Users, place \in Places, p \in Plans : CreatePlanCheck(r, u, place, p)
  \/ \E u \in Users, p \in Plans, going \in BOOLEAN :
       SavePlanResponseCheck(r, u, p, going)
  \/ \E u \in Users, p \in Plans : ClosePlanCheck(r, u, p)
  \/ \E u \in Users, p \in Plans : SendRemindersCheck(r, u, p)

\* The next step of a handler that has started.
Continue(r) ==
  \/ CreatePlanInsert(r) \/ CreatePlanCommit(r)
  \/ SavePlanResponseInsert(r) \/ SavePlanResponseFlush(r)
  \/ SavePlanResponseFails(r)
  \/ SavePlanResponseCommit(r)
  \/ SendRemindersCommit(r)

Confirm(t) == ConfirmCollect(t) \/ ConfirmCommit(t)

\* The next step of a withdrawal that has begun.
Withdraw(u) ==
  \/ WithdrawTakesVotes(u) \/ WithdrawTakesPlans(u) \/ WithdrawTakesUser(u)
  \/ WithdrawCommit(u)

Next ==
  \/ \E r \in Requests : Arrive(r) \/ Continue(r)
  \/ \E w \in Workers, p \in Plans : AutoCloseLock(w, p)
  \/ \E t \in Txns : Confirm(t) \/ Rollback(t)
  \/ \E t \in Txns, u \in Users : LocksUserRow(t, u)
  \/ \E r \in Requests, u \in Users : DeadlockDetected(r, u)
  \/ \E p \in Plans : DeadlinePasses(p)
  \/ \E u \in Users : LeaveRoom(u)
  \/ \E u \in Users : WithdrawBegins(u) \/ Withdraw(u) \/ WithdrawFails(u)

Spec == Init /\ [][Next]_vars

\* A thread that has started goes on when the row it waits for is free, and
\* so does a withdrawal, which has the loop; from its awaits it comes back
\* only if the loop runs, and so does the worker for the next poll.  Nobody
\* need send, leave, withdraw or fail; PostgreSQL breaks the deadlocks it
\* sees, and the clock reaches every deadline.
Fairness ==
  /\ \A r \in Requests : WF_vars(Continue(r) \/ Confirm(r))
  /\ \A w \in Workers : WF_vars(Confirm(w))
  /\ \A w \in Workers : WF_vars(LoopRuns /\ \E p \in Plans : AutoCloseLock(w, p))
  /\ \A u \in Users : WF_vars(Withdraw(u))
  /\ WF_vars(\E r \in Requests, u \in Users : DeadlockDetected(r, u))
  /\ \A p \in Plans : WF_vars(DeadlinePasses(p))

FairSpec == Spec /\ Fairness

-----------------------------------------------------------------------------
(* Safety                                                                  *)

\* Every variable keeps the type of the column or local variable it models.
TypeOK ==
  /\ status \in [Plans -> PlanStatus]
  /\ creator \in [Plans -> Users \cup {NULL}]
  /\ placeOf \in [Plans -> Places \cup {NULL}]
  /\ due \in [Plans -> BOOLEAN]
  /\ vote \in [Requests -> VoteRow]
  /\ active \subseteq Users
  /\ member \subseteq Users
  /\ host \in Users \cup {NULL}
  /\ inbox \subseteq Notification
  /\ tx \in [Txns -> TxRecord]
  /\ leaving \in [Users -> LeavingRecord]
  /\ reclosers \in [Plans -> SUBSET Txns]
  /\ churn \in Nat
  /\ faults \in Nat

\* A member who answers twice at the same time (a double tap, a retry of a
\* slow request, a withdrawal in between) still has one row in votes for the
\* plan: upsert_vote finds nothing in both transactions, and the second
\* INSERT must fail.
OneVotePerMember ==
  \A i, j \in Requests :
    /\ i # j
    /\ vote[i].state # "none" /\ vote[j].state # "none"
    => ~(vote[i].user = vote[j].user /\ vote[i].plan = vote[j].plan)

\* While auto_close_due_plans_once holds the row it locked, nobody closes the
\* plan under it, so that the status it confirms from is still VOTING.
LockedPlanIsOpen ==
  \A w \in Workers : tx[w].pc \in {"checked", "read"} => status[tx[w].plan] = "VOTING"

\* Auto-close confirms a plan at most once, however many workers poll and
\* whoever presses "close now" meanwhile: it never repeats the confirmation,
\* and its notifications, of a plan that is already CONFIRMED.
AutoCloseNeverRecloses == \A p \in Plans : reclosers[p] \cap Workers = {}

\* Auto-close takes every voter into account: when it has read the votes no
\* vote of somebody it has not heard can be committed before it commits,
\* because the INSERT of a vote and the FOR UPDATE lock exclude each other.
AutoCloseHearsEveryVoter ==
  \A w \in Workers :
    tx[w].pc = "read" => Voters(tx[w].plan) \subseteq tx[w].heard

\* Notifications are committed with the change they announce or not at all:
\* nobody is told of a plan that is not there, of a confirmation that did not
\* happen or of an answer that was rolled back.
NotificationsAreTrue ==
  \A n \in inbox :
    /\ status[n.plan] # "absent"
    /\ n.type = "PLAN_CONFIRMED" => status[n.plan] = "CONFIRMED"
    /\ n.type = "MEMBER_GOING" =>
         \E i \in Requests : vote[i].state # "none" /\ vote[i].plan = n.plan

-----------------------------------------------------------------------------
(* Liveness, under FairSpec                                                *)

\* A withdrawal blocks the loop while another one stands at its awaits and
\* needs the loop to go on.  Once the first waits, through whatever handlers,
\* for the second, this never ends.
LoopStands == ~LoopRuns /\ \E u \in Users : leaving[u].pc = "awaits"

\* A plan that is past its deadline is confirmed, by a member or by the
\* worker, whatever handlers and withdrawals hold its row and make the worker
\* skip it, unless two withdrawals stop the event loop for good.
DuePlansAreConfirmed ==
  \A p \in Plans :
    (status[p] = "VOTING" /\ due[p]) ~> (status[p] = "CONFIRMED" \/ []LoopStands)

\* Handlers and withdrawals end.  They wait for votes, plans and users of one
\* another and of the worker, and what PostgreSQL does not break has no cycle,
\* unless two withdrawals stop the event loop for good: one withdrawal never
\* does, whatever else is under way.
HandlersEnd ==
  /\ \A r \in Requests : tx[r].pc # "idle" ~> (tx[r].pc = "done" \/ []LoopStands)
  /\ \A u \in Users : leaving[u].pc # "none" ~> (leaving[u].pc = "none" \/ []LoopStands)

-----------------------------------------------------------------------------
(* What the service says and its transactions do not keep                  *)

\* PlanAlreadyClosedException: a plan is closed once.
ConfirmedOnce == \A p \in Plans : reclosers[p] = {}

-----------------------------------------------------------------------------
(* The lifecycle that the transactions implement                           *)

\* What the undeleted votes row of a user says.
AnswerOf(p, u) == CASE u \in Attending(p) -> "going"
                    [] u \in Voters(p) \ Attending(p) -> "not_going"
                    [] OTHER -> "none"

Lifecycle == INSTANCE PlanLifecycle
               WITH phase <- status,
                    answer <- [p \in Plans |-> [u \in Users |-> AnswerOf(p, u)]]

\* For all the interleavings, duplicate rows refused, blind updates and
\* rollbacks, every step is an answer of one member, a proposal, the one
\* confirmation of a plan, a withdrawal or invisible.
ImplementsLifecycle == Lifecycle!Spec

=============================================================================
