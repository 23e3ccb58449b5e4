--------------------------- MODULE RoomMembership ---------------------------
(***************************************************************************)
(* Rooms and their members (services/room/room_service.py), and the        *)
(* account withdrawal that reaches into room_members                       *)
(* (services/user/withdrawal_service.py), at the grain of database         *)
(* transactions at READ COMMITTED.                                         *)
(*                                                                         *)
(* Joining, leaving and kicking check the account first, then lock the row *)
(* of the room (SELECT ... FOR UPDATE), decide from what they read under   *)
(* the lock (…Lock), and write and commit (…Commit).                       *)
(*                                                                         *)
(* A withdrawal does not lock the room.  It is a coroutine: its queries    *)
(* block the event loop while they wait for a row, and it keeps the rows   *)
(* it has written across its calls to the identity provider and Redis.     *)
(* The other handlers have threads and need no loop once they have begun.  *)
(***************************************************************************)
EXTENDS Naturals, FiniteSets

CONSTANTS
  Users,      \* rows of users
  Rooms,      \* room ids; a room is a row once its state is not "absent"
  Codes,      \* invite codes
  Requests,   \* HTTP requests; each one runs a handler once
  NULL,       \* SQL NULL / Python None
  Ops,        \* the endpoints clients call in this instance
  OpenRooms,  \* rooms that exist when the behaviour starts
  Attempts,   \* INVITE_CODE_GENERATION_ATTEMPTS
  MaxFaults   \* bound: transactions that fail and roll back

ASSUME NullIsNothing ==
  /\ NULL \notin Users \cup Rooms \cup Codes \cup Requests
  /\ NULL \notin {"LEFT", "KICKED"}
ASSUME RoomsToStartWith == OpenRooms \subseteq Rooms
ASSUME AttemptsArePositive == Attempts \in Nat \ {0}
ASSUME FaultsAreNat == MaxFaults \in Nat

VARIABLES
  room,    \* rooms: state and invite code
  row,     \* room_members rows, by room and user (uq_room_members_room_user)
  active,  \* users whose account is ACTIVE and not deleted
  tx,      \* per request: program counter and what the handler holds
  faults   \* transactions that have failed, up to MaxFaults

vars == <<room, row, active, tx, faults>>

-----------------------------------------------------------------------------
(* Rows and transactions                                                   *)

AllOps == {"create", "join", "leave", "kick", "withdraw"}

RoomRow == [state : {"absent", "open", "deleted"}, code : Codes \cup {NULL}]

MemberRow == [state  : {"none", "active", "deleted"},
              role   : {"HOST", "MEMBER"},
              reason : {"LEFT", "KICKED", NULL}]

NoRow == [state |-> "none", role |-> "MEMBER", reason |-> NULL]
NewMember == [NoRow EXCEPT !.state = "active"]
NewHost == [NewMember EXCEPT !.role = "HOST"]

\* What a handler holds.  `target` is the member to kick or the next host,
\* `wasHost` the role leave_room has read, `rooms` the memberships that the
\* UPDATE of a withdrawal has found and not come to yet, `rows` the rows of
\* room_members that are written and not committed.
TxRecord == [pc      : {"idle", "checked", "locked", "written", "done"},
             op      : AllOps \cup {"none"},
             user    : Users \cup {NULL},
             room    : Rooms \cup {NULL},
             target  : Users \cup {NULL},
             wasHost : BOOLEAN,
             rooms   : SUBSET Rooms,
             rows    : SUBSET (Rooms \X Users),
             code    : Codes \cup {NULL},
             tries   : 0 .. Attempts]

Idle == [pc |-> "idle", op |-> "none", user |-> NULL, room |-> NULL,
         target |-> NULL, wasHost |-> FALSE, rooms |-> {}, rows |-> {}, code |-> NULL,
         tries |-> 0]

Done == [Idle EXCEPT !.pc = "done"]

At(r, op, pc) == tx[r].op = op /\ tx[r].pc = pc

-----------------------------------------------------------------------------
(* Queries and locks                                                       *)

Members(m) == {u \in Users : row[m][u].state = "active"}
Hosts(m) == {u \in Members(m) : row[m][u].role = "HOST"}

\* find_earliest_active_member picks one of these.  created_at is the time
\* at which a transaction began, not the order in which rows were committed,
\* so that any of them may be the earliest.
Successors(m, u) == {s \in Members(m) \ {u} : row[m][s].role = "MEMBER"}

\* Mutant of RoomLockedBy: the SELECT without with_for_update.
NeverLocked(m) == {}

\* FOR UPDATE on the row of the room, held until commit or rollback.
RoomLockedBy(m) == {r \in Requests : tx[r].pc = "locked" /\ tx[r].room = m}

\* A withdrawal has written its user's row.  The identifiers are under a
\* unique constraint, so that foreign keys to the row wait.
UserLocked(u) == \E w \in Requests : At(w, "withdraw", "written") /\ tx[w].user = u

\* Somebody else has written the row and not committed.
MemberLocked(r, m, u) == \E s \in Requests \ {r} : <<m, u>> \in tx[s].rows

\* A withdrawal in the middle of its queries has the event loop.
LoopRuns == \A w \in Requests : ~At(w, "withdraw", "checked")

-----------------------------------------------------------------------------
(* create_room                                                             *)

\* `m` is the UUID the new row is going to get.
CreateCheck(r, u, m) ==
  /\ "create" \in Ops
  /\ tx[r].pc = "idle"
  /\ u \in active
  /\ room[m].state = "absent"
  /\ \A s \in Requests : tx[s].room # m
  /\ tx' = [tx EXCEPT ![r] = [Idle EXCEPT !.pc = "checked", !.op = "create",
                                          !.user = u, !.room = m]]
  /\ UNCHANGED <<room, row, active, faults>>

\* uq_rooms_invite_code, deleted rooms included.
CodeTaken(code) == \E m \in Rooms : room[m].code = code

\* An uncommitted room with the same code makes the INSERT wait.
CodePending(code) == \E s \in Requests : At(s, "create", "written") /\ tx[s].code = code

\* One attempt in a savepoint: room and HOST row go in together.
CreateInsert(r, code) ==
  /\ At(r, "create", "checked")
  /\ ~UserLocked(tx[r].user)
  /\ ~CodePending(code) /\ ~CodeTaken(code)
  /\ tx' = [tx EXCEPT ![r].pc = "written", ![r].code = code]
  /\ UNCHANGED <<room, row, active, faults>>

\* Mutant of CreateCollides: the loop never runs out of attempts.
CollidesForever(r, code) ==
  /\ At(r, "create", "checked")
  /\ ~CodePending(code) /\ CodeTaken(code)
  /\ tx' = [tx EXCEPT ![r].tries = @ + 1]
  /\ UNCHANGED <<room, row, active, faults>>

\* IntegrityError on the code: back to the savepoint, and another code while
\* there are attempts left.
CreateCollides(r, code) ==
  /\ At(r, "create", "checked")
  /\ ~CodePending(code) /\ CodeTaken(code)
  /\ tx' = [tx EXCEPT ![r] = IF tx[r].tries + 1 = Attempts THEN Done
                             ELSE [tx[r] EXCEPT !.tries = @ + 1]]
  /\ UNCHANGED <<room, row, active, faults>>

CreateCommit(r) ==
  /\ At(r, "create", "written")
  /\ room' = [room EXCEPT ![tx[r].room] = [state |-> "open", code |-> tx[r].code]]
  /\ row' = [row EXCEPT ![tx[r].room][tx[r].user] = NewHost]
  /\ tx' = [tx EXCEPT ![r] = Done]
  /\ UNCHANGED <<active, faults>>

-----------------------------------------------------------------------------
(* join_room_by_invite_code, leave_room, kick_room_member                  *)

\* The account is read before the room is locked and not again.  For a kick
\* `v` is the member to be kicked.
AccountCheck(r, op, u, m, v) ==
  /\ op \in Ops
  /\ tx[r].pc = "idle"
  /\ u \in active
  /\ room[m].state # "absent"
  /\ tx' = [tx EXCEPT ![r] = [Idle EXCEPT !.pc = "checked", !.op = op, !.user = u,
                                          !.room = m, !.target = v]]
  /\ UNCHANGED <<room, row, active, faults>>

\* Mutant of MayJoin: left_reason is not looked at.
MayJoinAgain(m, u) == row[m][u].state # "active"

MayJoin(m, u) ==
  /\ row[m][u].state # "active"
  /\ ~(row[m][u].state = "deleted" /\ row[m][u].reason = "KICKED")

\* Mutant of MayLeave: deleted_at is not looked at.
MayLeaveTwice(m, u) == row[m][u].state # "none"

MayLeave(m, u) == row[m][u].state = "active"

\* Mutant of MayKick: the checks on self and on the target's role are gone.
MayKickAnybody(m, u, v) == u \in Hosts(m) /\ v \in Members(m)

MayKick(m, u, v) ==
  /\ u \in Hosts(m)
  /\ v # u
  /\ v \in Members(m) \ Hosts(m)

\* The checks that come after the lock.
Allowed(r) ==
  /\ room[tx[r].room].state = "open"
  /\ \/ tx[r].op = "join" /\ MayJoin(tx[r].room, tx[r].user)
     \/ tx[r].op = "leave" /\ MayLeave(tx[r].room, tx[r].user)
     \/ tx[r].op = "kick" /\ MayKick(tx[r].room, tx[r].user, tx[r].target)

CanLock(r) ==
  /\ tx[r].pc = "checked" /\ tx[r].op \in {"join", "leave", "kick"}
  /\ RoomLockedBy(tx[r].room) = {}

JoinOrKickLock(r) ==
  /\ CanLock(r) /\ Allowed(r)
  /\ tx[r].op # "leave"
  /\ tx' = [tx EXCEPT ![r].pc = "locked"]
  /\ UNCHANGED <<room, row, active, faults>>

\* A host looks for a successor; _transfer_room_host.
LeaveLock(r) ==
  /\ CanLock(r) /\ Allowed(r)
  /\ tx[r].op = "leave"
  /\ LET m == tx[r].room
         u == tx[r].user
     IN  \E next \in (IF row[m][u].role = "MEMBER" \/ Successors(m, u) = {}
                        THEN {NULL} ELSE Successors(m, u)) :
           tx' = [tx EXCEPT ![r] = [@ EXCEPT !.pc = "locked", !.target = next,
                                             !.wasHost = (row[m][u].role = "HOST")]]
  /\ UNCHANGED <<room, row, active, faults>>

\* Mutant of Refused: the exception handler forgets the rollback, and the
\* connection keeps the lock.
RefusedKeepsLock(r) ==
  /\ CanLock(r) /\ ~Allowed(r)
  /\ tx' = [tx EXCEPT ![r].pc = "locked", ![r].op = "none"]
  /\ UNCHANGED <<room, row, active, faults>>

Refused(r) ==
  /\ CanLock(r) /\ ~Allowed(r)
  /\ tx' = [tx EXCEPT ![r] = Done]
  /\ UNCHANGED <<room, row, active, faults>>

\* Mutant of JoinCommit: a member who comes back is restored as it was.
JoinKeepsRole(r) ==
  /\ At(r, "join", "locked")
  /\ row[tx[r].room][tx[r].user].state = "none" => ~UserLocked(tx[r].user)
  /\ row' = [row EXCEPT ![tx[r].room][tx[r].user] =
               [@ EXCEPT !.state = "active", !.reason = NULL]]
  /\ tx' = [tx EXCEPT ![r] = Done]
  /\ UNCHANGED <<room, active, faults>>

\* A first join inserts a row, whose foreign key waits for a withdrawal of
\* the user; coming back is an UPDATE and waits for nothing.
JoinCommit(r) ==
  /\ At(r, "join", "locked")
  /\ row[tx[r].room][tx[r].user].state = "none" => ~UserLocked(tx[r].user)
  /\ row' = [row EXCEPT ![tx[r].room][tx[r].user] = NewMember]
  /\ tx' = [tx EXCEPT ![r] = Done]
  /\ UNCHANGED <<room, active, faults>>

\* The rows that leave_room writes: the leaver's and the next host's.
LeaveRows(r) == {v \in Users : v = tx[r].user \/ v = tx[r].target}

\* The flush updates one after the other.  When it has to wait for the one it
\* keeps the other.
LeaveTakesRow(r, v) ==
  /\ At(r, "leave", "locked")
  /\ v \in LeaveRows(r) /\ <<tx[r].room, v>> \notin tx[r].rows
  /\ ~MemberLocked(r, tx[r].room, v)
  /\ \E w \in LeaveRows(r) : MemberLocked(r, tx[r].room, w)
  /\ tx' = [tx EXCEPT ![r].rows = @ \cup {<<tx[r].room, v>>}]
  /\ UNCHANGED <<room, row, active, faults>>

\* The UPDATEs are by primary key: they reach rows that a withdrawal has
\* soft-deleted since they were read.
LeaveCommit(r) ==
  /\ At(r, "leave", "locked")
  /\ \A v \in LeaveRows(r) : ~MemberLocked(r, tx[r].room, v)
  /\ LET m == tx[r].room
         u == tx[r].user
         next == tx[r].target
     IN  /\ row' = [row EXCEPT ![m] = [v \in Users |->
              IF v = u THEN [row[m][u] EXCEPT !.state = "deleted", !.reason = "LEFT"]
              ELSE IF v = next THEN [row[m][v] EXCEPT !.role = "HOST"]
              ELSE row[m][v]]]
         /\ room' = IF tx[r].wasHost /\ next = NULL
                      THEN [room EXCEPT ![m].state = "deleted"] ELSE room
  /\ tx' = [tx EXCEPT ![r] = Done]
  /\ UNCHANGED <<active, faults>>

KickCommit(r) ==
  /\ At(r, "kick", "locked")
  /\ ~MemberLocked(r, tx[r].room, tx[r].target)
  /\ row' = [row EXCEPT ![tx[r].room][tx[r].target] =
               [@ EXCEPT !.state = "deleted", !.reason = "KICKED"]]
  /\ tx' = [tx EXCEPT ![r] = Done]
  /\ UNCHANGED <<room, active, faults>>

-----------------------------------------------------------------------------
(* withdraw_user, as far as rooms see it                                   *)

\* The checks, and the UPDATE of room_members finds the memberships that are
\* committed by now.  What two withdrawals of one user do to each other is
\* left to AccountSessions.
WithdrawBegin(r, u) ==
  /\ "withdraw" \in Ops
  /\ tx[r].pc = "idle"
  /\ LoopRuns
  /\ u \in active
  /\ \A s \in Requests : ~(tx[s].op = "withdraw" /\ tx[s].user = u)
  /\ tx' = [tx EXCEPT ![r] = [Idle EXCEPT !.pc = "checked", !.op = "withdraw",
                                          !.user = u,
                                          !.rooms = {m \in Rooms : u \in Members(m)}]]
  /\ UNCHANGED <<room, row, active, faults>>

\* The UPDATE comes to a row, and waits for a leave that has written it.  A
\* row that is soft-deleted by then is passed over.
WithdrawTakesRow(r, m) ==
  /\ At(r, "withdraw", "checked")
  /\ m \in tx[r].rooms
  /\ ~MemberLocked(r, m, tx[r].user)
  /\ tx' = [tx EXCEPT ![r].rooms = @ \ {m},
                      ![r].rows = IF tx[r].user \in Members(m)
                                    THEN @ \cup {<<m, tx[r].user>>} ELSE @]
  /\ UNCHANGED <<room, row, active, faults>>

\* db.flush: the row of the user waits for a room that the user is creating.
WithdrawFlush(r) ==
  /\ At(r, "withdraw", "checked")
  /\ tx[r].rooms = {}
  /\ \A s \in Requests : At(s, "create", "written") => tx[s].user # tx[r].user
  /\ tx' = [tx EXCEPT ![r].pc = "written"]
  /\ UNCHANGED <<room, row, active, faults>>

\* The awaits are over and the loop comes back.  Nobody inherits the HOST
\* role, and left_reason stays NULL.
WithdrawCommit(r) ==
  /\ At(r, "withdraw", "written")
  /\ LoopRuns
  /\ active' = active \ {tx[r].user}
  /\ row' = [m \in Rooms |-> [u \in Users |->
               IF <<m, u>> \in tx[r].rows
                 THEN [row[m][u] EXCEPT !.state = "deleted"] ELSE row[m][u]]]
  /\ tx' = [tx EXCEPT ![r] = Done]
  /\ UNCHANGED <<room, faults>>

\* A database error, a Redis or provider failure in a withdrawal, or the
\* process going down.
Rollback(r) ==
  /\ faults < MaxFaults
  /\ tx[r].pc \notin {"idle", "done"}
  /\ tx' = [tx EXCEPT ![r] = Done]
  /\ faults' = faults + 1
  /\ UNCHANGED <<room, row, active>>

-----------------------------------------------------------------------------
(* Specification                                                           *)

\* The rooms that exist have a host and any other members.
Init ==
  /\ \E host \in [OpenRooms -> Users], others \in [OpenRooms -> SUBSET Users] :
       row = [m \in Rooms |-> [u \in Users |->
                IF m \notin OpenRooms THEN NoRow
                ELSE IF u = host[m] THEN NewHost
                ELSE IF u \in others[m] THEN NewMember ELSE NoRow]]
  /\ room \in [Rooms -> RoomRow]
  /\ \A m \in Rooms : IF m \in OpenRooms
                        THEN room[m].state = "open" /\ room[m].code # NULL
                        ELSE room[m].state = "absent" /\ room[m].code = NULL
  /\ \A m, n \in OpenRooms : room[m].code = room[n].code => m = n
  /\ active = Users
  /\ tx = [r \in Requests |-> Idle]
  /\ faults = 0

Arrive(r) ==
  \E u \in Users :
    \/ \E m \in Rooms : CreateCheck(r, u, m)
    \/ \E m \in Rooms, op \in {"join", "leave"} : AccountCheck(r, op, u, m, NULL)
    \/ \E m \in Rooms, v \in Users : AccountCheck(r, "kick", u, m, v)
    \/ WithdrawBegin(r, u)

Continue(r) ==
  \/ \E code \in Codes : CreateInsert(r, code) \/ CreateCollides(r, code)
  \/ CreateCommit(r)
  \/ JoinOrKickLock(r) \/ LeaveLock(r) \/ Refused(r)
  \/ JoinCommit(r) \/ LeaveCommit(r) \/ KickCommit(r)
  \/ \E v \in Users : LeaveTakesRow(r, v)
  \/ \E m \in Rooms : WithdrawTakesRow(r, m)
  \/ WithdrawFlush(r) \/ WithdrawCommit(r)

Next == \E r \in Requests : Arrive(r) \/ Continue(r) \/ Rollback(r)

Spec == Init /\ [][Next]_vars

\* A handler that has started runs on when the row it waits for is free;
\* PostgreSQL hands a row lock to everybody who waits for it in turn.  A
\* withdrawal comes back from its awaits only if the loop runs.
Fairness == \A r \in Requests : WF_vars(Continue(r))

FairSpec == Spec /\ Fairness

-----------------------------------------------------------------------------
(* Properties                                                              *)

\* Every variable keeps the type of the columns and local variables it
\* models; create_room stops after INVITE_CODE_GENERATION_ATTEMPTS.
TypeOK ==
  /\ room \in [Rooms -> RoomRow]
  /\ row \in [Rooms -> [Users -> MemberRow]]
  /\ active \subseteq Users
  /\ tx \in [Requests -> TxRecord]
  /\ faults \in Nat

\* Hosts leave, come back, hand over, kick and withdraw in any interleaving:
\* a room never has two hosts.
AtMostOneHost == \A m \in Rooms : \A u, v \in Hosts(m) : u = v

\* Nothing but a withdrawal leaves an open room without a host: not a host
\* who leaves while the successor is being kicked, leaves or withdraws.
HostlessByWithdrawal ==
  \A m \in Rooms :
    room[m].state = "open" /\ Hosts(m) = {} =>
      \E u \in Users \ active : row[m][u].state # "none"

\* When a room is deleted everybody is out, and nobody who was on the way in
\* with an invite code ends up in it.
DeletedRoomIsEmpty == \A m \in Rooms : room[m].state = "deleted" => Members(m) = {}

\* Who was kicked stays kicked: no later join, leave or withdrawal that read
\* the row before the kick brings the member back or forgets the reason.
KickedStaysOut ==
  [][\A m \in Rooms, u \in Users :
       row[m][u].state = "deleted" /\ row[m][u].reason = "KICKED" =>
         row'[m][u] = row[m][u]]_vars

\* A withdrawal blocks the loop while another one stands at its awaits and
\* needs the loop to go on.  Once the first waits, through whatever handler,
\* for the second, this never ends.
LoopStands == ~LoopRuns /\ \E w \in Requests : At(w, "withdraw", "written")

\* Every handler that starts ends: nobody holds a room or a member's row while
\* waiting for somebody who needs it, unless two withdrawals stop the event
\* loop for good.  One withdrawal never does.
HandlersEnd ==
  \A r \in Requests : tx[r].pc # "idle" ~> (tx[r].pc = "done" \/ []LoopStands)

\* What a user is in a room, for RoomLifecycle.
RoleOf(x) ==
  IF x.state = "active" THEN x.role
  ELSE IF x.state = "deleted" /\ x.reason = "KICKED" THEN "kicked" ELSE "out"

Lifecycle == INSTANCE RoomLifecycle WITH
  phase <- [m \in Rooms |-> room[m].state],
  role <- [m \in Rooms |-> [u \in Users |-> RoleOf(row[m][u])]],
  gone <- Users \ active,
  calling <- {tx[r].user : r \in Requests} \ {NULL}

\* Rooms and their members go through what RoomLifecycle allows, step by
\* step: the commits of the handlers are its actions, the rest is invisible.
\* So a user who has withdrawn gets into a room only by a request from before
\* the withdrawal, and the room passes on or ends as its host leaves.
ImplementsLifecycle == Lifecycle!Spec

-----------------------------------------------------------------------------
(* What leave_room says and withdrawals break                              *)

\* "Without a successor it is the last user who leaves, so the room ends with
\* it": a room that its last member leaves, without withdrawing, is deleted.
LastLeaverEndsRoom ==
  [][\A m \in Rooms :
       Members(m) # {} /\ Members(m)' = {} /\ active' = active =>
         room'[m].state = "deleted"]_vars

=============================================================================
