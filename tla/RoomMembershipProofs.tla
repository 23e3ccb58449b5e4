------------------------ MODULE RoomMembershipProofs ------------------------
(***************************************************************************)
(* Proofs about RoomMembership, for any number of users, rooms, requests   *)
(* and attempts.                                                           *)
(***************************************************************************)
EXTENDS RoomMembership, TLAPS

USE NullIsNothing, RoomsToStartWith, AttemptsArePositive, FaultsAreNat

-----------------------------------------------------------------------------
(* Type correctness                                                        *)

\* TypeOK without the handlers.
DataOK ==
  /\ room \in [Rooms -> RoomRow]
  /\ row \in [Rooms -> [Users -> MemberRow]]
  /\ active \subseteq Users
  /\ faults \in Nat

\* What a handler holds at each point of its program.
TxOK(t) ==
  /\ t \in TxRecord
  /\ t.pc \in {"idle", "done"} => t.op = "none" /\ t.room = NULL
  /\ t.pc = "checked" => t.op \in {"create", "join", "leave", "kick", "withdraw"}
  /\ t.pc = "locked" => t.op \in {"join", "leave", "kick"}
  /\ t.pc = "written" => t.op \in {"create", "withdraw"}
  /\ t.op # "none" => t.user \in Users
  /\ t.op \in {"create", "join", "leave", "kick"} => t.room \in Rooms
  /\ t.op = "withdraw" => t.room = NULL
  /\ t.op = "kick" => t.target \in Users
  /\ t.op = "create" => t.tries < Attempts
  /\ t.op = "create" /\ t.pc = "written" => t.code \in Codes

TypeInv == DataOK /\ tx \in [Requests -> TxRecord] /\ \A r \in Requests : TxOK(tx[r])

LEMMA TypeInvImpliesTypeOK == TypeInv => TypeOK
BY DEF TypeInv, TypeOK, DataOK

LEMMA TriesLeft == 0 \in 0 .. Attempts /\ 0 < Attempts
OBVIOUS

LEMMA AnotherTry ==
  \A n \in 0 .. Attempts :
    n < Attempts /\ n + 1 # Attempts => n + 1 \in 0 .. Attempts /\ n + 1 < Attempts
OBVIOUS

LEMMA RestOK == TxOK(Idle) /\ TxOK(Done)
<1>1. Idle \in TxRecord
  BY TriesLeft DEF Idle, TxRecord, AllOps
<1>2. Done \in TxRecord
  BY <1>1, TriesLeft DEF Done, Idle, TxRecord, AllOps
<1> QED BY <1>1, <1>2, TriesLeft DEF TxOK, Done, Idle

\* What a step changes in the record of its handler.
LEMMA RecordSteps ==
  ASSUME NEW t \in TxRecord
  PROVE  /\ \A code \in Codes : [t EXCEPT !.pc = "written", !.code = code] \in TxRecord
         /\ \A n \in 0 .. Attempts : [t EXCEPT !.tries = n] \in TxRecord
         /\ [t EXCEPT !.pc = "locked"] \in TxRecord
         /\ \A next \in Users \cup {NULL}, b \in BOOLEAN :
              [t EXCEPT !.pc = "locked", !.target = next, !.wasHost = b] \in TxRecord
         /\ [t EXCEPT !.pc = "written"] \in TxRecord
BY DEF TxRecord

LEMMA RowSteps ==
  ASSUME NEW t \in TxRecord, NEW held \in SUBSET (Rooms \X Users)
  PROVE  /\ [t EXCEPT !.rows = held] \in TxRecord
         /\ \A ms \in SUBSET Rooms : [t EXCEPT !.rooms = ms, !.rows = held] \in TxRecord
<1> DEFINE Pairs == SUBSET (Rooms \X Users)
           Sets == SUBSET Rooms
<1>1. TxRecord = [pc : {"idle", "checked", "locked", "written", "done"},
                  op : AllOps \cup {"none"}, user : Users \cup {NULL}, room : Rooms \cup {NULL},
                  target : Users \cup {NULL}, wasHost : BOOLEAN, rooms : Sets, rows : Pairs,
                  code : Codes \cup {NULL}, tries : 0 .. Attempts]
  BY DEF TxRecord
<1>2. held \in Pairs /\ Sets = SUBSET Rooms
  OBVIOUS
<1> HIDE DEF Pairs, Sets
<1>3. [t EXCEPT !.rows = held] \in TxRecord
  BY <1>1, <1>2
<1>4. \A ms \in Sets : [t EXCEPT !.rooms = ms, !.rows = held] \in TxRecord
  BY <1>1, <1>2
<1> QED BY <1>2, <1>3, <1>4

\* One handler moves on, the tables keep their types.
LEMMA TxStep ==
  ASSUME TypeInv, DataOK', NEW r \in Requests, NEW rec, TxOK(rec),
         tx' = [tx EXCEPT ![r] = rec]
  PROVE  TypeInv'
BY DEF TypeInv, TxOK

LEMMA RowsType ==
  /\ NoRow \in MemberRow /\ NewMember \in MemberRow /\ NewHost \in MemberRow
  /\ \A x \in MemberRow :
       /\ [x EXCEPT !.state = "deleted"] \in MemberRow
       /\ [x EXCEPT !.role = "HOST"] \in MemberRow
       /\ [x EXCEPT !.state = "deleted", !.reason = "LEFT"] \in MemberRow
       /\ [x EXCEPT !.state = "deleted", !.reason = "KICKED"] \in MemberRow
BY DEF NoRow, NewMember, NewHost, MemberRow

LEMMA InitTypeInv == Init => TypeInv
<1> SUFFICES ASSUME Init PROVE TypeInv
  OBVIOUS
<1>1. row \in [Rooms -> [Users -> MemberRow]]
  <2>1. PICK host \in [OpenRooms -> Users], others \in [OpenRooms -> SUBSET Users] :
          row = [m \in Rooms |-> [u \in Users |->
                   IF m \notin OpenRooms THEN NoRow
                   ELSE IF u = host[m] THEN NewHost
                   ELSE IF u \in others[m] THEN NewMember ELSE NoRow]]
    BY DEF Init
  <2> QED BY <2>1, RowsType
<1>2. DataOK
  BY <1>1 DEF Init, DataOK
<1>3. tx \in [Requests -> TxRecord] /\ \A r \in Requests : TxOK(tx[r])
  BY RestOK DEF Init, TxOK
<1> QED BY <1>2, <1>3 DEF TypeInv

\* A handler starts, or gets no further than its own record.
LEMMA HandlersType ==
  ASSUME TypeInv, NEW r \in Requests, UNCHANGED <<room, row, active>>, faults' \in Nat,
         NEW rec, TxOK(rec), tx' = [tx EXCEPT ![r] = rec]
  PROVE  TypeInv'
BY TxStep DEF TypeInv, DataOK

LEMMA ArriveType ==
  ASSUME TypeInv, NEW r \in Requests, Arrive(r)
  PROVE  TypeInv'
<1> USE DEF TypeInv, DataOK
<1>1. PICK u \in Users :
        \/ \E m \in Rooms : CreateCheck(r, u, m)
        \/ \E m \in Rooms, op \in {"join", "leave"} : AccountCheck(r, op, u, m, NULL)
        \/ \E m \in Rooms, v \in Users : AccountCheck(r, "kick", u, m, v)
        \/ WithdrawBegin(r, u)
  BY DEF Arrive
<1>2. ASSUME NEW m \in Rooms, CreateCheck(r, u, m)
      PROVE  TypeInv'
  <2> DEFINE rec == [Idle EXCEPT !.pc = "checked", !.op = "create", !.user = u, !.room = m]
  <2>1. rec \in TxRecord
    BY TriesLeft DEF TxRecord, Idle, AllOps
  <2>2. TxOK(rec)
    BY <2>1, TriesLeft DEF TxOK, Idle
  <2> QED BY <1>2, <2>2, HandlersType DEF CreateCheck
<1>3. ASSUME NEW m \in Rooms, NEW op \in {"join", "leave", "kick"}, NEW v \in Users \cup {NULL},
             op = "kick" => v \in Users, AccountCheck(r, op, u, m, v)
      PROVE  TypeInv'
  <2> DEFINE rec == [Idle EXCEPT !.pc = "checked", !.op = op, !.user = u,
                                 !.room = m, !.target = v]
  <2>1. rec \in TxRecord
    BY TriesLeft DEF TxRecord, Idle, AllOps
  <2>2. TxOK(rec)
    BY <1>3, <2>1, TriesLeft DEF TxOK, Idle
  <2> QED BY <1>3, <2>2, HandlersType DEF AccountCheck
<1>4. ASSUME WithdrawBegin(r, u)
      PROVE  TypeInv'
  <2> DEFINE rec == [Idle EXCEPT !.pc = "checked", !.op = "withdraw", !.user = u,
                                 !.rooms = {m \in Rooms : u \in Members(m)}]
  <2>1. rec \in TxRecord
    BY TriesLeft DEF TxRecord, Idle, AllOps
  <2>2. TxOK(rec)
    BY <2>1, TriesLeft DEF TxOK, Idle
  <2> QED BY <1>4, <2>2, HandlersType DEF WithdrawBegin
<1> QED BY <1>1, <1>2, <1>3, <1>4

\* The steps in which a handler comes to a row and keeps it, or has got all.
Taking(r) ==
  \/ \E v \in Users : LeaveTakesRow(r, v)
  \/ \E m \in Rooms : WithdrawTakesRow(r, m)
  \/ WithdrawFlush(r)

\* A leave stays where it is, a withdrawal goes on; it takes rows of its user
\* that are active.
TakesMore(t, rec) ==
  /\ rec.op = t.op /\ rec.user = t.user /\ rec.room = t.room
  /\ rec.target = t.target /\ rec.wasHost = t.wasHost
  /\ t.op = "leave" => t.pc = "locked" /\ rec.pc = "locked"
  /\ t.op = "withdraw" =>
       /\ rec.pc \in {"checked", "written"}
       /\ \A m \in Rooms, v \in Users :
            <<m, v>> \in rec.rows =>
              <<m, v>> \in t.rows \/ (v = t.user /\ row[m][v].state = "active")

LEMMA TakingRecord ==
  ASSUME TypeInv, NEW r \in Requests, Taking(r)
  PROVE  /\ UNCHANGED <<room, row, active, faults>>
         /\ tx[r].op \in {"leave", "withdraw"}
         /\ \E rec \in TxRecord : tx' = [tx EXCEPT ![r] = rec] /\ TakesMore(tx[r], rec)
<1>1. tx[r] \in TxRecord /\ TxOK(tx[r]) /\ tx \in [Requests -> TxRecord]
  BY DEF TypeInv
<1>2. tx[r].rooms \in SUBSET Rooms /\ tx[r].rows \in SUBSET (Rooms \X Users)
  BY <1>1 DEF TxRecord
<1>3. ASSUME NEW v \in Users, LeaveTakesRow(r, v)
      PROVE  \E rec \in TxRecord : tx' = [tx EXCEPT ![r] = rec] /\ TakesMore(tx[r], rec)
  <2>1. PICK held \in SUBSET (Rooms \X Users) : held = tx[r].rows \cup {<<tx[r].room, v>>}
    <3>1. tx[r].room \in Rooms
      BY <1>1, <1>3 DEF LeaveTakesRow, At, TxOK
    <3>2. <<tx[r].room, v>> \in Rooms \X Users
      BY <3>1
    <3>3. tx[r].rows \cup {<<tx[r].room, v>>} \in SUBSET (Rooms \X Users)
      BY <1>2, <3>2
    <3> QED BY <3>3
  <2> DEFINE rec == [tx[r] EXCEPT !.rows = held]
  <2>2. rec \in TxRecord
    BY <1>1, RowSteps
  <2>3. tx' = [tx EXCEPT ![r] = rec]
    BY <1>1, <1>3, <2>1 DEF LeaveTakesRow
  <2>4. /\ rec.op = tx[r].op /\ rec.user = tx[r].user /\ rec.room = tx[r].room /\ rec.pc = tx[r].pc
        /\ rec.target = tx[r].target /\ rec.wasHost = tx[r].wasHost
    BY <1>1 DEF TxRecord
  <2>5. tx[r].op = "leave" /\ tx[r].pc = "locked"
    BY <1>3 DEF LeaveTakesRow, At
  <2> HIDE DEF rec
  <2>6. TakesMore(tx[r], rec)
    BY <2>4, <2>5 DEF TakesMore
  <2> QED BY <2>2, <2>3, <2>6
<1>4. ASSUME NEW m \in Rooms, WithdrawTakesRow(r, m)
      PROVE  \E rec \in TxRecord : tx' = [tx EXCEPT ![r] = rec] /\ TakesMore(tx[r], rec)
  <2>1. At(r, "withdraw", "checked") /\ tx[r].user \in Users
    BY <1>1, <1>4 DEF WithdrawTakesRow, At, TxOK
  <2>2. PICK held \in SUBSET (Rooms \X Users), ms \in SUBSET Rooms :
          /\ held = IF tx[r].user \in Members(m)
                      THEN tx[r].rows \cup {<<m, tx[r].user>>} ELSE tx[r].rows
          /\ ms = tx[r].rooms \ {m}
    <3>1. <<m, tx[r].user>> \in Rooms \X Users
      BY <2>1
    <3>2. /\ tx[r].rows \cup {<<m, tx[r].user>>} \in SUBSET (Rooms \X Users)
          /\ tx[r].rooms \ {m} \in SUBSET Rooms
      BY <1>2, <3>1
    <3> QED BY <1>2, <3>2
  <2> DEFINE rec == [tx[r] EXCEPT !.rooms = ms, !.rows = held]
  <2>3. rec \in TxRecord
    BY <1>1, RowSteps
  <2>4. tx' = [tx EXCEPT ![r] = rec]
    BY <1>1, <1>4, <2>2 DEF WithdrawTakesRow
  <2>5. /\ rec.op = tx[r].op /\ rec.user = tx[r].user /\ rec.room = tx[r].room /\ rec.pc = tx[r].pc
        /\ rec.target = tx[r].target /\ rec.wasHost = tx[r].wasHost /\ rec.rows = held
    BY <1>1 DEF TxRecord
  <2> HIDE DEF rec
  <2>6. \A n \in Rooms, v \in Users :
          <<n, v>> \in rec.rows =>
            <<n, v>> \in tx[r].rows \/ (v = tx[r].user /\ row[n][v].state = "active")
    BY <2>2, <2>5 DEF Members
  <2>7. TakesMore(tx[r], rec)
    BY <2>1, <2>5, <2>6 DEF TakesMore, At
  <2> QED BY <2>3, <2>4, <2>7
<1>5. ASSUME WithdrawFlush(r)
      PROVE  \E rec \in TxRecord : tx' = [tx EXCEPT ![r] = rec] /\ TakesMore(tx[r], rec)
  <2> DEFINE rec == [tx[r] EXCEPT !.pc = "written"]
  <2>1. rec \in TxRecord
    BY <1>1, RecordSteps
  <2>2. tx' = [tx EXCEPT ![r] = rec]
    BY <1>5 DEF WithdrawFlush
  <2>3. /\ rec.op = tx[r].op /\ rec.user = tx[r].user /\ rec.room = tx[r].room
        /\ rec.pc = "written" /\ rec.rows = tx[r].rows
        /\ rec.target = tx[r].target /\ rec.wasHost = tx[r].wasHost
    BY <1>1 DEF TxRecord
  <2>4. At(r, "withdraw", "checked")
    BY <1>5 DEF WithdrawFlush
  <2> HIDE DEF rec
  <2>5. TakesMore(tx[r], rec)
    BY <2>3, <2>4 DEF TakesMore, At
  <2> QED BY <2>1, <2>2, <2>5
<1>6. UNCHANGED <<room, row, active, faults>> /\ tx[r].op \in {"leave", "withdraw"}
  BY DEF Taking, LeaveTakesRow, WithdrawTakesRow, WithdrawFlush, At
<1> QED BY <1>3, <1>4, <1>5, <1>6 DEF Taking

LEMMA TakingType ==
  ASSUME TypeInv, NEW r \in Requests, Taking(r)
  PROVE  TypeInv'
<1>1. PICK rec \in TxRecord : tx' = [tx EXCEPT ![r] = rec] /\ TakesMore(tx[r], rec)
  BY TakingRecord
<1>2. TxOK(tx[r]) /\ tx[r].op \in {"leave", "withdraw"}
  BY TakingRecord DEF TypeInv
<1>3. TxOK(rec)
  BY <1>1, <1>2 DEF TxOK, TakesMore
<1>4. UNCHANGED <<room, row, active>> /\ faults' \in Nat
  BY TakingRecord DEF TypeInv, DataOK
<1> QED BY <1>1, <1>3, <1>4, HandlersType

LEMMA CreateType ==
  ASSUME TypeInv, NEW r \in Requests,
         (\E code \in Codes : CreateInsert(r, code) \/ CreateCollides(r, code))
           \/ CreateCommit(r)
  PROVE  TypeInv'
<1> USE DEF TypeInv, DataOK
<1>1. ASSUME NEW code \in Codes, CreateInsert(r, code)
      PROVE  TypeInv'
  <2> DEFINE rec == [tx[r] EXCEPT !.pc = "written", !.code = code]
  <2>1. tx' = [tx EXCEPT ![r] = rec]
    BY <1>1 DEF CreateInsert
  <2>2. rec \in TxRecord
    BY RecordSteps
  <2>3. TxOK(rec)
    BY <1>1, <2>2 DEF CreateInsert, At, TxOK, TxRecord
  <2> QED BY <1>1, <2>1, <2>3, HandlersType DEF CreateInsert
<1>2. ASSUME NEW code \in Codes, CreateCollides(r, code)
      PROVE  TypeInv'
  <2> DEFINE n == tx[r].tries + 1
             rec == [tx[r] EXCEPT !.tries = n]
  <2>2. tx[r].tries \in 0 .. Attempts /\ tx[r].tries < Attempts
    BY <1>2 DEF CreateCollides, At, TxOK, TxRecord
  <2>3. CASE tx[r].tries + 1 = Attempts
    <3>1. tx' = [tx EXCEPT ![r] = Done]
      BY <1>2, <2>3 DEF CreateCollides
    <3> QED BY <1>2, <3>1, RestOK, HandlersType DEF CreateCollides
  <2>4. CASE tx[r].tries + 1 # Attempts
    <3>1. tx' = [tx EXCEPT ![r] = rec]
      BY <1>2, <2>2, <2>4 DEF CreateCollides
    <3>2. n \in 0 .. Attempts /\ n < Attempts
      BY <2>2, <2>4, AnotherTry
    <3>3. rec \in TxRecord
      BY <3>2, RecordSteps
    <3>4. TxOK(rec)
      BY <1>2, <3>2, <3>3 DEF CreateCollides, At, TxOK, TxRecord
    <3> QED BY <1>2, <3>1, <3>4, HandlersType DEF CreateCollides
  <2> QED BY <2>3, <2>4
<1>3. CASE CreateCommit(r)
  <2>1. tx[r].room \in Rooms /\ tx[r].user \in Users /\ tx[r].code \in Codes
    BY <1>3 DEF CreateCommit, At, TxOK
  <2>2. DataOK'
    BY <1>3, <2>1, RowsType DEF CreateCommit, RoomRow
  <2> QED BY <1>3, <2>2, RestOK, TxStep DEF CreateCommit
<1> QED BY <1>1, <1>2, <1>3

LEMMA LockType ==
  ASSUME TypeInv, NEW r \in Requests, JoinOrKickLock(r) \/ LeaveLock(r) \/ Refused(r)
  PROVE  TypeInv'
<1> USE DEF TypeInv, DataOK
<1>1. CASE JoinOrKickLock(r)
  <2> DEFINE rec == [tx[r] EXCEPT !.pc = "locked"]
  <2>1. tx' = [tx EXCEPT ![r] = rec]
    BY <1>1 DEF JoinOrKickLock
  <2>2. rec \in TxRecord
    BY RecordSteps
  <2>3. TxOK(rec)
    BY <1>1, <2>2 DEF JoinOrKickLock, CanLock, TxOK, TxRecord
  <2> QED BY <1>1, <2>1, <2>3, HandlersType DEF JoinOrKickLock
<1>2. CASE LeaveLock(r)
  <2>1. PICK next \in Users \cup {NULL} :
          tx' = [tx EXCEPT ![r] = [tx[r] EXCEPT !.pc = "locked", !.target = next,
                   !.wasHost = (row[tx[r].room][tx[r].user].role = "HOST")]]
    BY <1>2 DEF LeaveLock, Successors, Members
  <2> DEFINE rec == [tx[r] EXCEPT !.pc = "locked", !.target = next,
                       !.wasHost = (row[tx[r].room][tx[r].user].role = "HOST")]
  <2>2. rec \in TxRecord
    <3>1. (row[tx[r].room][tx[r].user].role = "HOST") \in BOOLEAN
      OBVIOUS
    <3> QED BY <3>1, RecordSteps
  <2>3. TxOK(tx[r]) /\ tx[r].op = "leave" /\ tx[r] \in TxRecord
    BY <1>2 DEF LeaveLock
  <2>4. /\ rec.op = tx[r].op /\ rec.pc = "locked"
        /\ rec.user = tx[r].user /\ rec.room = tx[r].room
    BY <2>3 DEF TxRecord
  <2>5. TxOK(rec)
    BY <2>2, <2>3, <2>4 DEF TxOK
  <2> QED BY <1>2, <2>1, <2>5, HandlersType DEF LeaveLock
<1>3. CASE Refused(r)
  BY <1>3, RestOK, HandlersType DEF Refused
<1> QED BY <1>1, <1>2, <1>3

LEMMA CommitType ==
  ASSUME TypeInv, NEW r \in Requests,
         JoinCommit(r) \/ LeaveCommit(r) \/ KickCommit(r) \/ WithdrawCommit(r)
  PROVE  TypeInv'
<1> USE DEF TypeInv, DataOK
<1>1. TxOK(tx[r]) /\ tx' = [tx EXCEPT ![r] = Done] /\ faults' = faults
  BY DEF JoinCommit, LeaveCommit, KickCommit, WithdrawCommit
<1>2. CASE JoinCommit(r)
  <2>1. DataOK'
    BY <1>1, <1>2, RowsType DEF JoinCommit, At, TxOK
  <2> QED BY <1>1, <2>1, RestOK, TxStep
<1>3. CASE LeaveCommit(r)
  <2>1. tx[r].room \in Rooms
    BY <1>1, <1>3 DEF LeaveCommit, At, TxOK
  <2> DEFINE m == tx[r].room
             left == [v \in Users |->
                        IF v = tx[r].user
                          THEN [row[m][tx[r].user] EXCEPT !.state = "deleted", !.reason = "LEFT"]
                        ELSE IF v = tx[r].target THEN [row[m][v] EXCEPT !.role = "HOST"]
                        ELSE row[m][v]]
  <2>2. row' \in [Rooms -> [Users -> MemberRow]]
    <3>1. \A v \in Users : row[m][v] \in MemberRow
      BY <2>1
    <3>2. \A v \in Users : left[v] \in MemberRow
      BY <3>1, RowsType
    <3>3. row' = [row EXCEPT ![m] = left]
      BY <1>3 DEF LeaveCommit
    <3> QED BY <2>1, <3>2, <3>3
  <2>3. room' \in [Rooms -> RoomRow]
    BY <1>3, <2>1 DEF LeaveCommit, RoomRow
  <2> QED BY <1>1, <1>3, <2>2, <2>3, RestOK, TxStep DEF LeaveCommit
<1>4. CASE KickCommit(r)
  <2>1. tx[r].room \in Rooms /\ tx[r].target \in Users
    BY <1>1, <1>4 DEF KickCommit, At, TxOK
  <2>2. row[tx[r].room][tx[r].target] \in MemberRow
    BY <2>1
  <2>3. DataOK'
    BY <1>4, <1>1, <2>1, <2>2, RowsType DEF KickCommit
  <2> QED BY <1>1, <2>3, RestOK, TxStep
<1>5. CASE WithdrawCommit(r)
  <2>1. DataOK'
    BY <1>1, <1>5, RowsType DEF WithdrawCommit
  <2> QED BY <1>1, <2>1, RestOK, TxStep
<1> QED BY <1>2, <1>3, <1>4, <1>5

LEMMA NextTypeInv == TypeInv /\ [Next]_vars => TypeInv'
<1> SUFFICES ASSUME TypeInv, [Next]_vars PROVE TypeInv'
  OBVIOUS
<1>1. CASE UNCHANGED vars
  BY <1>1 DEF vars, TypeInv, DataOK
<1>2. ASSUME NEW r \in Requests, Rollback(r)
      PROVE  TypeInv'
  <2>1. faults' \in Nat
    BY <1>2 DEF Rollback, TypeInv, DataOK
  <2> QED BY <1>2, <2>1, RestOK, HandlersType DEF Rollback
<1> QED
  BY <1>1, <1>2, ArriveType, TakingType, CreateType, LockType, CommitType
  DEF Next, Continue, Taking

\* Every variable keeps the type of the columns and local variables it models,
\* and create_room never counts past its attempts.
THEOREM TypeCorrect == Spec => []TypeOK
<1>1. Spec => []TypeInv
  BY InitTypeInv, NextTypeInv, PTL DEF Spec
<1> QED BY <1>1, TypeInvImpliesTypeOK, PTL

-----------------------------------------------------------------------------
(* What keeps rooms in order                                               *)

\* What holds of a room whatever handlers are under way.
RoomOK(m) ==
  /\ room[m].state = "absent" => \A u \in Users : row[m][u] = NoRow
  /\ \A u \in Members(m) : row[m][u].reason # "KICKED"
  /\ \A u, v \in Hosts(m) : u = v
  /\ room[m].state = "open" /\ Hosts(m) = {} =>
       \E u \in Users \ active : row[m][u].state # "none"
  /\ room[m].state = "deleted" => Members(m) = {}

\* A host who leaves is still the only one, a host who leaves without a
\* successor is the last member, and a successor is a member or has withdrawn.
LeaveOK(m, u, next, wasHost) ==
  /\ row[m][u].reason # "KICKED"
  /\ ~wasHost => row[m][u].role = "MEMBER" /\ next = NULL
  /\ wasHost => Hosts(m) \subseteq {u}
  /\ wasHost /\ next = NULL => Members(m) \subseteq {u}
  /\ next # NULL => /\ next # u
                    /\ row[m][next].reason # "KICKED"
                    /\ row[m][next].state # "none"
                    /\ next \notin active \/ row[m][next].state = "active"

\* A withdrawal holds rows of its user, and they stay active while it does.
RowsHeld(s) ==
  \A m \in Rooms, v \in Users :
    <<m, v>> \in tx[s].rows => v = tx[s].user /\ row[m][v].state = "active"

\* What a handler has seen is still so when it writes.
HandlerOK(r) ==
  /\ tx[r].op = "create" => room[tx[r].room].state = "absent"
  /\ tx[r].pc = "locked" => room[tx[r].room].state = "open"
  /\ At(r, "join", "locked") => MayJoin(tx[r].room, tx[r].user)
  /\ At(r, "leave", "locked") =>
       LeaveOK(tx[r].room, tx[r].user, tx[r].target, tx[r].wasHost)
  /\ At(r, "kick", "locked") => row[tx[r].room][tx[r].target].role = "MEMBER"
  /\ tx[r].op = "withdraw" => RowsHeld(r)

\* Two handlers do not hold the same room, create the same room or withdraw
\* the same user.
Apart(r, s) ==
  /\ ~(tx[r].pc = "locked" /\ tx[s].pc = "locked" /\ tx[r].room = tx[s].room)
  /\ ~(tx[r].op = "create" /\ tx[s].room = tx[r].room)
  /\ ~(/\ tx[r].op = "withdraw" /\ tx[s].op = "withdraw"
       /\ tx[r].user = tx[s].user)

RoomInv ==
  /\ \A m \in Rooms : RoomOK(m)
  /\ \A r \in Requests : HandlerOK(r)
  /\ \A r, s \in Requests : r # s => Apart(r, s)

LEMMA NullIsNoReason == NULL # "KICKED"
OBVIOUS

LEMMA RoomInvImplies ==
  RoomInv => AtMostOneHost /\ HostlessByWithdrawal /\ DeletedRoomIsEmpty
BY DEF RoomInv, RoomOK, AtMostOneHost, HostlessByWithdrawal, DeletedRoomIsEmpty

LEMMA InitRoomInv == Init => RoomInv
<1> SUFFICES ASSUME Init PROVE RoomInv
  OBVIOUS
<1>1. \A r \in Requests : tx[r] = Idle
  BY DEF Init
<1>2. (\A r \in Requests : HandlerOK(r)) /\ \A r, s \in Requests : Apart(r, s)
  BY <1>1 DEF HandlerOK, Apart, At, Idle
<1>3. PICK host \in [OpenRooms -> Users], others \in [OpenRooms -> SUBSET Users] :
        row = [m \in Rooms |-> [u \in Users |->
                 IF m \notin OpenRooms THEN NoRow
                 ELSE IF u = host[m] THEN NewHost
                 ELSE IF u \in others[m] THEN NewMember ELSE NoRow]]
  BY DEF Init
<1>4. ASSUME NEW m \in Rooms, m \in OpenRooms
      PROVE  RoomOK(m)
  <2>1. Hosts(m) = {host[m]}
    BY <1>3, <1>4 DEF Hosts, Members, NoRow, NewMember, NewHost
  <2>2. \A u \in Users : row[m][u].reason = NULL
    BY <1>3, <1>4 DEF NoRow, NewMember, NewHost
  <2>3. NULL # "KICKED"
    BY NullIsNoReason
  <2>4. room[m].state = "open"
    BY <1>4 DEF Init
  <2> QED BY <2>1, <2>2, <2>3, <2>4 DEF RoomOK, Members
<1>5. ASSUME NEW m \in Rooms, m \notin OpenRooms
      PROVE  RoomOK(m)
  <2>1. \A u \in Users : row[m][u] = NoRow
    BY <1>3, <1>5
  <2>2. Members(m) = {} /\ Hosts(m) = {}
    BY <2>1 DEF Hosts, Members, NoRow
  <2>3. room[m].state = "absent"
    BY <1>5 DEF Init
  <2> QED BY <2>1, <2>2, <2>3 DEF RoomOK
<1> QED BY <1>2, <1>4, <1>5 DEF RoomInv

\* A handler is not disturbed by a step that leaves it and the tables alone.
LEMMA SameHandler ==
  ASSUME NEW s \in Requests, tx'[s] = tx[s], HandlerOK(s), UNCHANGED <<room, row, active>>
  PROVE  HandlerOK(s)'
<1>1. PICK m, u, next, was :
        m = tx[s].room /\ u = tx[s].user /\ next = tx[s].target /\ was = tx[s].wasHost
  OBVIOUS
<1>2. m = tx'[s].room /\ u = tx'[s].user /\ next = tx'[s].target /\ was = tx'[s].wasHost
  BY <1>1
<1>3. LeaveOK(m, u, next, was) => LeaveOK(m, u, next, was)'
  BY DEF LeaveOK, Hosts, Members
<1>4. MayJoin(m, u) => MayJoin(m, u)'
  BY DEF MayJoin
<1>5. RowsHeld(s) => RowsHeld(s)'
  BY DEF RowsHeld
<1> QED BY <1>1, <1>2, <1>3, <1>4, <1>5 DEF HandlerOK, At

\* Nor by a commit that touches one room it does not hold or create.
LEMMA OtherRoom ==
  ASSUME TypeInv, NEW s \in Requests, tx'[s] = tx[s], HandlerOK(s), active' = active,
         NEW m \in Rooms, \A n \in Rooms \ {m} : row'[n] = row[n] /\ room'[n] = room[n],
         tx[s].pc = "locked" \/ tx[s].op = "create" => tx[s].room # m,
         tx[s].op = "withdraw" =>
           \A v \in Users : <<m, v>> \in tx[s].rows => row'[m][v].state = "active"
  PROVE  HandlerOK(s)'
<1>1. tx[s] \in TxRecord /\ TxOK(tx[s])
  BY DEF TypeInv
<1>2. CASE tx[s].pc = "locked" \/ tx[s].op = "create"
  <2>1. /\ tx[s].room \in Rooms \ {m}
        /\ tx[s].op # "withdraw"
    BY <1>1, <1>2 DEF TxOK
  <2>2. row'[tx[s].room] = row[tx[s].room] /\ room'[tx[s].room] = room[tx[s].room]
    BY <2>1
  <2>3. PICK n, u, next, was :
          n = tx[s].room /\ u = tx[s].user /\ next = tx[s].target /\ was = tx[s].wasHost
    OBVIOUS
  <2>4. n = tx'[s].room /\ u = tx'[s].user /\ next = tx'[s].target /\ was = tx'[s].wasHost
    BY <2>3
  <2>5. row'[n] = row[n] /\ room'[n] = room[n]
    BY <2>2, <2>3
  <2>6. Members(n)' = Members(n) /\ Hosts(n)' = Hosts(n)
    BY <2>5 DEF Hosts, Members
  <2>7. LeaveOK(n, u, next, was) => LeaveOK(n, u, next, was)'
    BY <2>5, <2>6 DEF LeaveOK
  <2>8. MayJoin(n, u) => MayJoin(n, u)'
    BY <2>5 DEF MayJoin
  <2> QED BY <2>1, <2>3, <2>4, <2>5, <2>7, <2>8 DEF HandlerOK, At
<1>3. CASE tx[s].op = "withdraw"
  <2>1. RowsHeld(s)'
    BY <1>3 DEF HandlerOK, RowsHeld
  <2>2. tx[s].pc # "locked"
    BY <1>1, <1>3 DEF TxOK
  <2> QED BY <1>3, <2>1, <2>2 DEF HandlerOK, At
<1>4. CASE tx[s].pc # "locked" /\ tx[s].op # "create" /\ tx[s].op # "withdraw"
  BY <1>4 DEF HandlerOK, At
<1> QED BY <1>2, <1>3, <1>4

LEMMA SameRoom ==
  ASSUME NEW m \in Rooms, RoomOK(m), row'[m] = row[m], room'[m] = room[m], active' = active
  PROVE  RoomOK(m)'
BY DEF RoomOK, Hosts, Members

\* A handler that has ended holds nothing.
LEMMA EndsApart ==
  ASSUME TypeInv, RoomInv, NEW r \in Requests, tx' = [tx EXCEPT ![r] = Done]
  PROVE  /\ HandlerOK(r)'
         /\ \A p, s \in Requests : p # s => Apart(p, s)'
         /\ \A s \in Requests \ {r} : tx'[s] = tx[s]
<1>1. tx'[r] = Done /\ \A s \in Requests \ {r} : tx'[s] = tx[s]
  BY DEF TypeInv
<1>2. HandlerOK(r)'
  BY <1>1 DEF HandlerOK, At, Done, Idle
<1>3. ASSUME NEW s \in Requests, s # r
      PROVE  Apart(r, s)' /\ Apart(s, r)'
  <2>1. tx[s].op = "create" => tx[s].room # NULL
    BY DEF TypeInv, TxOK
  <2> QED BY <1>1, <1>3, <2>1 DEF Apart, At, Done, Idle
<1>4. ASSUME NEW p \in Requests \ {r}, NEW s \in Requests \ {r}, p # s
      PROVE  Apart(p, s)'
  BY <1>1, <1>4 DEF RoomInv, Apart, At
<1> QED BY <1>1, <1>2, <1>3, <1>4

\* A step of handler r that leaves the tables alone.
LEMMA StillFrame ==
  ASSUME TypeInv, RoomInv, NEW r \in Requests, UNCHANGED <<room, row, active>>,
         NEW rec, tx' = [tx EXCEPT ![r] = rec], HandlerOK(r)',
         \A s \in Requests \ {r} : Apart(r, s)' /\ Apart(s, r)'
  PROVE  RoomInv'
<1>1. \A s \in Requests \ {r} : tx'[s] = tx[s]
  BY DEF TypeInv
<1>2. \A m \in Rooms : RoomOK(m)'
  BY SameRoom DEF RoomInv
<1>3. \A s \in Requests : HandlerOK(s)'
  BY <1>1, SameHandler DEF RoomInv
<1>4. \A p, s \in Requests \ {r} : p # s => Apart(p, s)'
  BY <1>1 DEF RoomInv, Apart, At
<1> QED BY <1>2, <1>3, <1>4 DEF RoomInv

LEMMA EndStep ==
  ASSUME TypeInv, RoomInv, NEW r \in Requests, UNCHANGED <<room, row, active>>,
         tx' = [tx EXCEPT ![r] = Done]
  PROVE  RoomInv'
BY EndsApart, StillFrame

\* The commit of a handler that holds or creates room m.
LEMMA CommitFrame ==
  ASSUME TypeInv, RoomInv, NEW r \in Requests, tx' = [tx EXCEPT ![r] = Done],
         active' = active, NEW m \in Rooms, tx[r].room = m,
         tx[r].pc = "locked" \/ tx[r].op = "create",
         \A n \in Rooms \ {m} : row'[n] = row[n] /\ room'[n] = room[n],
         \A s \in Requests, v \in Users :
           tx[s].op = "withdraw" /\ <<m, v>> \in tx[s].rows => row'[m][v].state = "active",
         RoomOK(m)'
  PROVE  RoomInv'
<1>1. \A n \in Rooms : RoomOK(n)'
  BY SameRoom DEF RoomInv
<1>2. ASSUME NEW s \in Requests \ {r}
      PROVE  HandlerOK(s)'
  <2>1. tx[s].pc = "locked" \/ tx[s].op = "create" => tx[s].room # m
    <3>1. Apart(r, s) /\ Apart(s, r)
      BY DEF RoomInv
    <3>2. tx[r].pc = "locked" => tx[r].op # "create"
      BY DEF TypeInv, TxOK
    <3> QED BY <3>1, <3>2 DEF Apart
  <2>2. tx'[s] = tx[s]
    BY EndsApart
  <2> QED BY <2>1, <2>2, OtherRoom DEF RoomInv
<1> QED BY <1>1, <1>2, EndsApart DEF RoomInv

-----------------------------------------------------------------------------
(* One lemma per operation                                                 *)

LEMMA ArriveRooms ==
  ASSUME TypeInv, RoomInv, NEW r \in Requests, Arrive(r)
  PROVE  RoomInv'
<1>1. PICK u \in Users :
        \/ \E m \in Rooms : CreateCheck(r, u, m)
        \/ \E m \in Rooms, op \in {"join", "leave"} : AccountCheck(r, op, u, m, NULL)
        \/ \E m \in Rooms, v \in Users : AccountCheck(r, "kick", u, m, v)
        \/ WithdrawBegin(r, u)
  BY DEF Arrive
<1>2. ASSUME NEW m \in Rooms, CreateCheck(r, u, m)
      PROVE  RoomInv'
  <2> DEFINE rec == [Idle EXCEPT !.pc = "checked", !.op = "create", !.user = u, !.room = m]
  <2>1. /\ tx' = [tx EXCEPT ![r] = rec] /\ UNCHANGED <<room, row, active>>
        /\ room[m].state = "absent" /\ \A s \in Requests : tx[s].room # m
    BY <1>2 DEF CreateCheck
  <2>2. tx'[r] = rec /\ \A s \in Requests \ {r} : tx'[s] = tx[s]
    BY <2>1 DEF TypeInv
  <2>3. tx'[r].pc = "checked" /\ tx'[r].op = "create" /\ tx'[r].room = m
    BY <2>2 DEF Idle
  <2>4. HandlerOK(r)'
    BY <2>1, <2>3 DEF HandlerOK, At
  <2>5. \A s \in Requests \ {r} : Apart(r, s)' /\ Apart(s, r)'
    BY <2>1, <2>2, <2>3 DEF Apart, At
  <2> QED BY <2>1, <2>4, <2>5, StillFrame
<1>3. ASSUME NEW m \in Rooms, NEW op \in {"join", "leave", "kick"}, NEW v,
             AccountCheck(r, op, u, m, v)
      PROVE  RoomInv'
  <2> DEFINE rec == [Idle EXCEPT !.pc = "checked", !.op = op, !.user = u,
                                 !.room = m, !.target = v]
  <2>1. /\ tx' = [tx EXCEPT ![r] = rec] /\ UNCHANGED <<room, row, active>>
        /\ room[m].state # "absent"
    BY <1>3 DEF AccountCheck
  <2>2. tx'[r] = rec /\ \A s \in Requests \ {r} : tx'[s] = tx[s]
    BY <2>1 DEF TypeInv
  <2>3. tx'[r].pc = "checked" /\ tx'[r].op = op /\ tx'[r].room = m
    BY <2>2 DEF Idle
  <2>4. HandlerOK(r)'
    BY <2>3 DEF HandlerOK, At
  <2>5. \A s \in Requests : tx[s].op = "create" => tx[s].room # m
    BY <2>1 DEF RoomInv, HandlerOK
  <2>6. \A s \in Requests \ {r} : Apart(r, s)' /\ Apart(s, r)'
    BY <2>2, <2>3, <2>5 DEF Apart, At
  <2> QED BY <2>1, <2>4, <2>6, StillFrame
<1>4. ASSUME WithdrawBegin(r, u)
      PROVE  RoomInv'
  <2> DEFINE rec == [Idle EXCEPT !.pc = "checked", !.op = "withdraw", !.user = u,
                                 !.rooms = {m \in Rooms : u \in Members(m)}]
  <2>1. /\ tx' = [tx EXCEPT ![r] = rec] /\ UNCHANGED <<room, row, active>>
        /\ \A s \in Requests : ~(tx[s].op = "withdraw" /\ tx[s].user = u)
    BY <1>4 DEF WithdrawBegin
  <2>2. tx'[r] = rec /\ \A s \in Requests \ {r} : tx'[s] = tx[s]
    BY <2>1 DEF TypeInv
  <2>3. /\ tx'[r].pc = "checked" /\ tx'[r].op = "withdraw" /\ tx'[r].room = NULL
        /\ tx'[r].user = u /\ tx'[r].rows = {}
    BY <2>2 DEF Idle
  <2>4. HandlerOK(r)'
    BY <2>3 DEF HandlerOK, At, RowsHeld
  <2>5. \A s \in Requests : tx[s].op = "create" => tx[s].room # NULL
    BY DEF TypeInv, TxOK
  <2>6. \A s \in Requests \ {r} : Apart(r, s)' /\ Apart(s, r)'
    BY <2>1, <2>2, <2>3, <2>5 DEF Apart
  <2> QED BY <2>1, <2>4, <2>6, StillFrame
<1> QED BY <1>1, <1>2, <1>3, <1>4

LEMMA TakingRooms ==
  ASSUME TypeInv, RoomInv, NEW r \in Requests, Taking(r)
  PROVE  RoomInv'
<1>1. PICK rec \in TxRecord : tx' = [tx EXCEPT ![r] = rec] /\ TakesMore(tx[r], rec)
  BY TakingRecord
<1>2. /\ UNCHANGED <<room, row, active>> /\ HandlerOK(r) /\ TxOK(tx[r])
      /\ tx[r].op \in {"leave", "withdraw"}
  BY TakingRecord DEF RoomInv, TypeInv
<1>3. tx'[r] = rec /\ \A s \in Requests \ {r} : tx'[s] = tx[s]
  BY <1>1 DEF TypeInv
<1>4. PICK m, u, next, was :
        m = tx[r].room /\ u = tx[r].user /\ next = tx[r].target /\ was = tx[r].wasHost
  OBVIOUS
<1>5. /\ tx'[r].op = tx[r].op /\ tx'[r].room = m /\ tx'[r].user = u
      /\ tx'[r].target = next /\ tx'[r].wasHost = was
  BY <1>1, <1>3, <1>4 DEF TakesMore
<1>6. CASE tx[r].op = "leave"
  <2>1. tx[r].pc = "locked" /\ tx'[r].pc = "locked"
    BY <1>1, <1>3, <1>6 DEF TakesMore
  <2>2. LeaveOK(m, u, next, was)'
    <3>1. LeaveOK(m, u, next, was)
      BY <1>2, <1>4, <1>6, <2>1 DEF HandlerOK, At
    <3> QED BY <1>2, <3>1 DEF LeaveOK, Hosts, Members
  <2>3. HandlerOK(r)'
    BY <1>2, <1>4, <1>5, <1>6, <2>1, <2>2 DEF HandlerOK, At
  <2>4. \A s \in Requests \ {r} : Apart(r, s)' /\ Apart(s, r)'
    BY <1>3, <1>4, <1>5, <1>6, <2>1 DEF RoomInv, Apart
  <2> QED BY <1>1, <1>2, <2>3, <2>4, StillFrame
<1>7. CASE tx[r].op = "withdraw"
  <2>1. tx'[r].pc \in {"checked", "written"}
    BY <1>1, <1>3, <1>7 DEF TakesMore
  <2>2. RowsHeld(r)'
    <3>1. RowsHeld(r)
      BY <1>2, <1>7 DEF HandlerOK
    <3>2. \A n \in Rooms, v \in Users :
            <<n, v>> \in rec.rows =>
              <<n, v>> \in tx[r].rows \/ (v = tx[r].user /\ row[n][v].state = "active")
      BY <1>1, <1>7 DEF TakesMore
    <3> QED BY <1>2, <1>3, <1>4, <1>5, <3>1, <3>2 DEF RowsHeld
  <2>3. HandlerOK(r)'
    BY <1>5, <1>7, <2>1, <2>2 DEF HandlerOK, At
  <2>4. \A s \in Requests \ {r} : Apart(r, s)' /\ Apart(s, r)'
    BY <1>3, <1>4, <1>5, <1>7, <2>1 DEF RoomInv, Apart
  <2> QED BY <1>1, <1>2, <2>3, <2>4, StillFrame
<1> QED BY <1>2, <1>6, <1>7

LEMMA CreateRooms ==
  ASSUME TypeInv, RoomInv, NEW r \in Requests,
         (\E code \in Codes : CreateInsert(r, code) \/ CreateCollides(r, code))
           \/ CreateCommit(r)
  PROVE  RoomInv'
<1>1. ASSUME NEW rec, tx' = [tx EXCEPT ![r] = rec], UNCHANGED <<room, row, active>>,
             tx[r].op = "create", rec.op = "create", rec.room = tx[r].room,
             rec.pc \in {"checked", "written"}
      PROVE  RoomInv'
  <2>1. tx'[r] = rec /\ \A s \in Requests \ {r} : tx'[s] = tx[s]
    BY <1>1 DEF TypeInv
  <2>2. HandlerOK(r)'
    BY <1>1, <2>1 DEF RoomInv, HandlerOK, At
  <2>3. \A s \in Requests \ {r} : Apart(r, s) /\ Apart(s, r)
    BY DEF RoomInv
  <2>4. \A s \in Requests \ {r} : Apart(r, s)' /\ Apart(s, r)'
    BY <1>1, <2>1, <2>3 DEF Apart, At
  <2> QED BY <1>1, <2>2, <2>4, StillFrame
<1>2. ASSUME NEW code \in Codes, CreateInsert(r, code)
      PROVE  RoomInv'
  <2> DEFINE rec == [tx[r] EXCEPT !.pc = "written", !.code = code]
  <2>1. tx[r] \in TxRecord
    BY DEF TypeInv
  <2>2. rec.op = tx[r].op /\ rec.room = tx[r].room /\ rec.pc = "written"
    BY <2>1 DEF TxRecord
  <2>3. tx' = [tx EXCEPT ![r] = rec]
    BY <1>2 DEF CreateInsert
  <2> QED BY <1>1, <1>2, <2>2, <2>3 DEF CreateInsert, At
<1>3. ASSUME NEW code \in Codes, CreateCollides(r, code)
      PROVE  RoomInv'
  <2> DEFINE rec == [tx[r] EXCEPT !.tries = tx[r].tries + 1]
  <2>1. tx[r] \in TxRecord
    BY DEF TypeInv
  <2>2. rec.op = tx[r].op /\ rec.room = tx[r].room /\ rec.pc = tx[r].pc
    BY <2>1 DEF TxRecord
  <2>3. tx' = [tx EXCEPT ![r] = Done] \/ tx' = [tx EXCEPT ![r] = rec]
    BY <1>3 DEF CreateCollides
  <2>4. UNCHANGED <<room, row, active>> /\ At(r, "create", "checked")
    BY <1>3 DEF CreateCollides
  <2> QED BY <1>1, <2>2, <2>3, <2>4, EndStep DEF At
<1>4. CASE CreateCommit(r)
  <2>1. PICK m \in Rooms, u \in Users : m = tx[r].room /\ u = tx[r].user
    BY <1>4 DEF CreateCommit, At, TypeInv, TxOK
  <2>2. room[m].state = "absent" /\ \A v \in Users : row[m][v] = NoRow
    BY <1>4, <2>1 DEF CreateCommit, At, RoomInv, HandlerOK, RoomOK
  <2>3. /\ \A n \in Rooms \ {m} : row'[n] = row[n] /\ room'[n] = room[n]
        /\ room'[m].state = "open"
        /\ \A v \in Users : row'[m][v] = IF v = u THEN NewHost ELSE NoRow
    BY <1>4, <2>1, <2>2 DEF CreateCommit, TypeInv, DataOK
  <2>4. \A s \in Requests, v \in Users : ~(tx[s].op = "withdraw" /\ <<m, v>> \in tx[s].rows)
    <3>1. SUFFICES ASSUME NEW s \in Requests, NEW v \in Users, tx[s].op = "withdraw",
                          <<m, v>> \in tx[s].rows
                   PROVE  FALSE
      OBVIOUS
    <3>2. row[m][v].state = "active"
      BY <3>1 DEF RoomInv, HandlerOK, RowsHeld
    <3> QED BY <2>2, <3>2 DEF NoRow
  <2>5. RoomOK(m)'
    <3>1. Hosts(m)' = {u}
      <4>1. NewHost.state = "active" /\ NewHost.role = "HOST" /\ NoRow.state = "none"
        BY DEF NoRow, NewMember, NewHost
      <4> QED BY <2>3, <4>1 DEF Hosts, Members
    <3>2. \A v \in Users : row'[m][v].reason # "KICKED"
      BY <2>3, NullIsNoReason DEF NoRow, NewMember, NewHost
    <3> QED BY <2>3, <3>1, <3>2 DEF RoomOK, Members
  <2> QED BY <1>4, <2>1, <2>3, <2>4, <2>5, CommitFrame DEF CreateCommit, At
<1> QED BY <1>2, <1>3, <1>4

LEMMA LockRooms ==
  ASSUME TypeInv, RoomInv, NEW r \in Requests,
         JoinOrKickLock(r) \/ LeaveLock(r) \/ Refused(r)
  PROVE  RoomInv'
<1> DEFINE m == tx[r].room
           u == tx[r].user
<1>1. ASSUME NEW rec, tx' = [tx EXCEPT ![r] = rec], UNCHANGED <<room, row, active>>,
             CanLock(r), rec.op = tx[r].op, rec.room = m, rec.pc = "locked", HandlerOK(r)'
      PROVE  RoomInv'
  <2>1. tx'[r] = rec /\ \A s \in Requests \ {r} : tx'[s] = tx[s]
    BY <1>1 DEF TypeInv
  <2>2. \A s \in Requests \ {r} : Apart(r, s) /\ Apart(s, r)
    BY DEF RoomInv
  <2>3. \A s \in Requests : ~(tx[s].pc = "locked" /\ tx[s].room = m)
    BY <1>1 DEF CanLock, RoomLockedBy
  <2>4. \A s \in Requests \ {r} : Apart(r, s)' /\ Apart(s, r)'
    BY <1>1, <2>1, <2>2, <2>3 DEF Apart, At, CanLock
  <2> QED BY <1>1, <2>4, StillFrame
<1>2. CASE JoinOrKickLock(r)
  <2> DEFINE rec == [tx[r] EXCEPT !.pc = "locked"]
  <2>1. tx[r] \in TxRecord /\ TxOK(tx[r])
    BY DEF TypeInv
  <2>2. /\ rec.op = tx[r].op /\ rec.room = m /\ rec.pc = "locked"
        /\ rec.user = u /\ rec.target = tx[r].target
    BY <2>1 DEF TxRecord
  <2>3. tx' = [tx EXCEPT ![r] = rec] /\ UNCHANGED <<room, row, active>>
    BY <1>2 DEF JoinOrKickLock
  <2>4. tx'[r] = rec
    BY <2>3 DEF TypeInv
  <2>5. CanLock(r) /\ Allowed(r) /\ tx[r].op \in {"join", "kick"}
    BY <1>2 DEF JoinOrKickLock, CanLock
  <2>6. tx[r].op = "kick" => row[m][tx[r].target].role = "MEMBER"
    <3>1. ASSUME tx[r].op = "kick"
          PROVE  row[m][tx[r].target].role = "MEMBER"
      <4>1. m \in Rooms /\ tx[r].target \in Users
        BY <2>1, <3>1 DEF TxOK
      <4>2. row[m][tx[r].target] \in MemberRow
        BY <4>1 DEF TypeInv, DataOK
      <4> QED BY <2>5, <3>1, <4>1, <4>2 DEF Allowed, MayKick, Hosts, MemberRow
    <3> QED BY <3>1
  <2>7. HandlerOK(r)'
    <3>1. /\ tx'[r].op = tx[r].op /\ tx'[r].pc = "locked" /\ tx'[r].room = m
          /\ tx'[r].user = u /\ tx'[r].target = tx[r].target
      BY <2>2, <2>4
    <3>2. room[m].state = "open" /\ (tx[r].op = "join" => MayJoin(m, u))
      BY <2>5 DEF Allowed
    <3>3. room' = room /\ row' = row
      BY <2>3
    <3> QED BY <2>5, <2>6, <3>1, <3>2, <3>3 DEF HandlerOK, At, MayJoin
  <2> QED BY <1>1, <2>2, <2>3, <2>5, <2>7
<1>3. CASE LeaveLock(r)
  <2>1. tx[r] \in TxRecord /\ TxOK(tx[r]) /\ tx[r].op = "leave" /\ CanLock(r) /\ Allowed(r)
    BY <1>3 DEF LeaveLock, TypeInv
  <2>2. m \in Rooms /\ u \in Users /\ RoomOK(m) /\ row[m][u] \in MemberRow
    BY <2>1 DEF TxOK, RoomInv, TypeInv, DataOK
  <2> DEFINE nexts == IF row[m][u].role = "MEMBER" \/ Successors(m, u) = {}
                        THEN {NULL} ELSE Successors(m, u)
             was == (row[m][u].role = "HOST")
  <2>3. PICK next \in nexts :
          tx' = [tx EXCEPT ![r] = [tx[r] EXCEPT !.pc = "locked", !.target = next,
                                                !.wasHost = was]]
    BY <1>3 DEF LeaveLock
  <2> DEFINE rec == [tx[r] EXCEPT !.pc = "locked", !.target = next, !.wasHost = was]
  <2>4. /\ rec.op = "leave" /\ rec.room = m /\ rec.pc = "locked"
        /\ rec.user = u /\ rec.target = next /\ rec.wasHost = was
    BY <2>1 DEF TxRecord
  <2>5. UNCHANGED <<room, row, active>>
    BY <1>3 DEF LeaveLock
  <2>6. u \in Members(m) /\ room[m].state = "open"
    BY <2>1, <2>2 DEF Allowed, MayLeave, Members
  <2>7. LeaveOK(m, u, next, was)
    <3>1. row[m][u].reason # "KICKED"
      BY <2>2, <2>6 DEF RoomOK
    <3>2. CASE row[m][u].role = "MEMBER"
      BY <3>1, <3>2 DEF LeaveOK
    <3>3. CASE row[m][u].role = "HOST"
      <4>1. Hosts(m) \subseteq {u}
        BY <2>2, <2>6, <3>3 DEF RoomOK, Hosts
      <4>2. CASE Successors(m, u) = {}
        <5>1. \A v \in Members(m) : row[m][v] \in MemberRow
          BY <2>2 DEF TypeInv, DataOK, Members
        <5>2. Members(m) \subseteq {u}
          BY <4>1, <4>2, <5>1 DEF Successors, Hosts, MemberRow
        <5> QED BY <3>1, <3>3, <4>1, <4>2, <5>2 DEF LeaveOK
      <4>3. CASE Successors(m, u) # {}
        <5>1. next \in Members(m) \ {u} /\ next \in Users
          BY <3>3, <4>3 DEF Successors, Members
        <5>2. row[m][next].reason # "KICKED" /\ row[m][next].state = "active"
          BY <2>2, <5>1 DEF RoomOK, Members
        <5> QED BY <3>1, <3>3, <4>1, <5>1, <5>2 DEF LeaveOK
      <4> QED BY <4>2, <4>3
    <3> QED BY <2>2, <3>2, <3>3 DEF MemberRow
  <2>8. tx'[r] = rec
    BY <2>3 DEF TypeInv
  <2>9. HandlerOK(r)'
    <3>1. LeaveOK(m, u, next, was)'
      BY <2>5, <2>7, <2>8, <2>4 DEF LeaveOK, Hosts, Members
    <3>2. /\ tx'[r].op = "leave" /\ tx'[r].pc = "locked" /\ tx'[r].room = m
          /\ tx'[r].user = u /\ tx'[r].target = next /\ tx'[r].wasHost = was
      BY <2>4, <2>8
    <3> QED BY <2>5, <2>6, <3>1, <3>2 DEF HandlerOK, At
  <2> QED BY <1>1, <2>1, <2>3, <2>4, <2>5, <2>9
<1>4. CASE Refused(r)
  BY <1>4, EndStep DEF Refused
<1> QED BY <1>2, <1>3, <1>4

\* What an update of a row changes, and what it leaves.
LEMMA RowFields ==
  ASSUME NEW x \in MemberRow
  PROVE  /\ [x EXCEPT !.state = "deleted"].state = "deleted"
         /\ [x EXCEPT !.state = "deleted"].role = x.role
         /\ [x EXCEPT !.state = "deleted"].reason = x.reason
         /\ [x EXCEPT !.state = "deleted", !.reason = "LEFT"].state = "deleted"
         /\ [x EXCEPT !.role = "HOST"].role = "HOST"
         /\ [x EXCEPT !.role = "HOST"].state = x.state
         /\ [x EXCEPT !.role = "HOST"].reason = x.reason
BY DEF MemberRow

\* What a handler that holds a room knows when it commits.
LEMMA LockedRoom ==
  ASSUME TypeInv, RoomInv, NEW r \in Requests, tx[r].pc = "locked"
  PROVE  /\ tx[r].room \in Rooms /\ tx[r].user \in Users
         /\ tx[r].op = "kick" => tx[r].target \in Users
         /\ room[tx[r].room].state = "open"
         /\ RoomOK(tx[r].room)
         /\ HandlerOK(r)
<1>1. TxOK(tx[r]) /\ HandlerOK(r) /\ tx[r].op \in {"join", "leave", "kick"}
  BY DEF TypeInv, RoomInv, TxOK
<1> QED BY <1>1 DEF TxOK, HandlerOK, RoomInv

\* A withdrawal has written memberships that are still active.
LEMMA WrittenRows ==
  ASSUME TypeInv, RoomInv, NEW s \in Requests, tx[s].op = "withdraw",
         NEW m \in Rooms, NEW v \in Users, <<m, v>> \in tx[s].rows
  PROVE  v = tx[s].user /\ row[m][v].state = "active"
BY DEF RoomInv, HandlerOK, RowsHeld

LEMMA JoinRooms ==
  ASSUME TypeInv, RoomInv, NEW r \in Requests, JoinCommit(r)
  PROVE  RoomInv'
<1>1. PICK m \in Rooms, u \in Users : m = tx[r].room /\ u = tx[r].user
  BY LockedRoom DEF JoinCommit, At
<1>2. room[m].state = "open" /\ RoomOK(m) /\ row[m][u].state # "active"
  BY <1>1, LockedRoom DEF JoinCommit, At, HandlerOK, MayJoin
<1>3. /\ \A n \in Rooms \ {m} : row'[n] = row[n]
      /\ \A v \in Users : row'[m][v] = IF v = u THEN NewMember ELSE row[m][v]
      /\ room' = room
  BY <1>1 DEF JoinCommit, TypeInv, DataOK
<1>4. ASSUME NEW s \in Requests, NEW v \in Users, tx[s].op = "withdraw", <<m, v>> \in tx[s].rows
      PROVE  row'[m][v].state = "active"
  BY <1>2, <1>3, <1>4, WrittenRows
<1>5. RoomOK(m)'
  <2>1. Hosts(m)' = Hosts(m) /\ Members(m)' = Members(m) \cup {u}
    BY <1>2, <1>3 DEF Hosts, Members, NewMember, NoRow
  <2>2. \A v \in Members(m)' : row'[m][v].reason # "KICKED"
    BY <1>2, <1>3, <2>1, NullIsNoReason DEF RoomOK, Members, NewMember, NoRow
  <2>3. \A v \in Users : row[m][v].state # "none" => row'[m][v].state # "none"
    BY <1>3 DEF NewMember, NoRow
  <2>4. active' = active
    BY DEF JoinCommit
  <2>5. room'[m].state = "open" /\ "open" # "absent" /\ "open" # "deleted"
    BY <1>2, <1>3
  <2>6. \A v, w \in Hosts(m)' : v = w
    BY <1>2, <2>1 DEF RoomOK
  <2>7. Hosts(m)' = {} => \E v \in Users \ active' : row'[m][v].state # "none"
    BY <1>2, <2>1, <2>3, <2>4 DEF RoomOK
  <2> QED BY <2>2, <2>5, <2>6, <2>7 DEF RoomOK
<1>6. tx[r].pc = "locked" /\ active' = active /\ tx' = [tx EXCEPT ![r] = Done]
  BY DEF JoinCommit, At
<1> QED BY <1>1, <1>3, <1>4, <1>5, <1>6, CommitFrame

LEMMA KickRooms ==
  ASSUME TypeInv, RoomInv, NEW r \in Requests, KickCommit(r)
  PROVE  RoomInv'
<1>1. PICK m \in Rooms, v \in Users : m = tx[r].room /\ v = tx[r].target
  BY LockedRoom DEF KickCommit, At
<1>2. room[m].state = "open" /\ RoomOK(m) /\ row[m][v].role = "MEMBER"
  BY <1>1, LockedRoom DEF KickCommit, At, HandlerOK
<1>3. /\ \A n \in Rooms \ {m} : row'[n] = row[n]
      /\ row'[m][v].state = "deleted"
      /\ \A w \in Users \ {v} : row'[m][w] = row[m][w]
      /\ room' = room
  BY <1>1 DEF KickCommit, TypeInv, DataOK, MemberRow
<1>4. ASSUME NEW s \in Requests, NEW w \in Users, tx[s].op = "withdraw", <<m, w>> \in tx[s].rows
      PROVE  row'[m][w].state = "active"
  <2>1. w # v
    BY <1>1, <1>4 DEF KickCommit, MemberLocked, At
  <2> QED BY <1>3, <1>4, <2>1, WrittenRows
<1>5. RoomOK(m)'
  <2>1. Hosts(m)' = Hosts(m) /\ Members(m)' = Members(m) \ {v}
    BY <1>2, <1>3 DEF Hosts, Members
  <2>2. \A w \in Members(m)' : row'[m][w].reason # "KICKED"
    BY <1>2, <1>3, <2>1 DEF RoomOK, Members
  <2>3. \A w \in Users : row[m][w].state # "none" => row'[m][w].state # "none"
    BY <1>3
  <2>4. active' = active
    BY DEF KickCommit
  <2> QED BY <1>2, <1>3, <2>1, <2>2, <2>3, <2>4 DEF RoomOK
<1>6. tx[r].pc = "locked" /\ active' = active /\ tx' = [tx EXCEPT ![r] = Done]
  BY DEF KickCommit, At
<1> QED BY <1>1, <1>3, <1>4, <1>5, <1>6, CommitFrame

LEMMA LeaveRooms ==
  ASSUME TypeInv, RoomInv, NEW r \in Requests, LeaveCommit(r)
  PROVE  RoomInv'
<1>1. PICK m \in Rooms, u \in Users : m = tx[r].room /\ u = tx[r].user
  BY LockedRoom DEF LeaveCommit, At
<1>2. PICK next, was : next = tx[r].target /\ was = tx[r].wasHost
  OBVIOUS
<1>3. /\ room[m].state = "open" /\ RoomOK(m) /\ LeaveOK(m, u, next, was)
      /\ was \in BOOLEAN /\ next \in Users \cup {NULL}
  BY <1>1, <1>2, LockedRoom DEF LeaveCommit, At, HandlerOK, TypeInv, TxRecord
<1>4. \A v \in Users : row[m][v] \in MemberRow
  BY DEF TypeInv, DataOK
<1>5. row'[m] = [v \in Users |->
         IF v = u THEN [row[m][u] EXCEPT !.state = "deleted", !.reason = "LEFT"]
         ELSE IF v = next THEN [row[m][v] EXCEPT !.role = "HOST"] ELSE row[m][v]]
  BY <1>1, <1>2 DEF LeaveCommit, TypeInv, DataOK
<1>6. /\ row'[m][u].state = "deleted"
      /\ \A v \in Users \ {u} : v # next => row'[m][v] = row[m][v]
      /\ next \in Users \ {u} =>
           row'[m][next].role = "HOST" /\ row'[m][next].state = row[m][next].state
                                       /\ row'[m][next].reason = row[m][next].reason
  <2>1. row'[m][u].state = "deleted"
    <3>1. row'[m][u] = [row[m][u] EXCEPT !.state = "deleted", !.reason = "LEFT"]
      BY <1>5
    <3> QED BY <1>4, <3>1, RowFields
  <2>2. \A v \in Users \ {u} : v # next => row'[m][v] = row[m][v]
    BY <1>5
  <2>3. ASSUME next \in Users \ {u}
        PROVE  /\ row'[m][next].role = "HOST"
               /\ row'[m][next].state = row[m][next].state
               /\ row'[m][next].reason = row[m][next].reason
    <3>1. row'[m][next] = [row[m][next] EXCEPT !.role = "HOST"]
      BY <1>5, <2>3
    <3> QED BY <1>4, <2>3, <3>1, RowFields
  <2> QED BY <2>1, <2>2, <2>3
<1>7. /\ \A n \in Rooms \ {m} : row'[n] = row[n] /\ room'[n] = room[n]
      /\ room'[m].state = IF was /\ next = NULL THEN "deleted" ELSE "open"
  BY <1>1, <1>2, <1>3 DEF LeaveCommit, TypeInv, DataOK, RoomRow
<1>8. ASSUME NEW s \in Requests, NEW v \in Users, tx[s].op = "withdraw", <<m, v>> \in tx[s].rows
      PROVE  row'[m][v].state = "active"
  <2>1. v # u /\ v # next
    BY <1>1, <1>2, <1>8 DEF LeaveCommit, LeaveRows, MemberLocked, At
  <2> QED BY <1>6, <1>8, <2>1, WrittenRows
<1>9. active' = active
  BY DEF LeaveCommit
<1>10. RoomOK(m)'
  <2>1. Members(m)' = Members(m) \ {u}
    BY <1>3, <1>6 DEF Members, LeaveOK
  <2>2. \A v \in Members(m)' : row'[m][v].reason # "KICKED"
    BY <1>3, <1>6, <2>1 DEF RoomOK, LeaveOK, Members
  <2>3. CASE ~was
    <3>1. next = NULL /\ row[m][u].role = "MEMBER"
      BY <1>3, <2>3 DEF LeaveOK
    <3>2. Hosts(m)' = Hosts(m)
      BY <1>6, <2>1, <3>1 DEF Hosts, Members
    <3>3. \A v \in Users : row[m][v].state # "none" => row'[m][v].state # "none"
      BY <1>6, <3>1
    <3>4. room'[m].state = "open"
      BY <1>7, <2>3
    <3> QED BY <1>3, <1>9, <2>2, <3>2, <3>3, <3>4 DEF RoomOK
  <2>4. CASE was /\ next = NULL
    <3>1. Members(m)' = {} /\ room'[m].state = "deleted"
      BY <1>3, <1>7, <2>1, <2>4 DEF LeaveOK
    <3> QED BY <3>1 DEF RoomOK, Hosts
  <2>5. CASE was /\ next # NULL
    <3>1. /\ next \in Users \ {u} /\ Hosts(m) \subseteq {u} /\ row[m][next].state # "none"
          /\ next \notin active \/ row[m][next].state = "active"
      BY <1>3, <2>5 DEF LeaveOK
    <3>2. \A v \in Hosts(m)' : v = next
      BY <1>6, <2>1, <3>1 DEF Hosts, Members
    <3>3. next \in active => next \in Hosts(m)'
      BY <1>6, <3>1 DEF Hosts, Members
    <3>4. room'[m].state = "open"
      BY <1>7, <2>5
    <3>5. row'[m][next].state # "none"
      BY <1>6, <3>1
    <3> QED BY <1>9, <2>2, <3>1, <3>2, <3>3, <3>4, <3>5 DEF RoomOK
  <2> QED BY <1>3, <2>3, <2>4, <2>5
<1>11. tx[r].pc = "locked" /\ tx' = [tx EXCEPT ![r] = Done]
  BY DEF LeaveCommit, At
<1> QED BY <1>1, <1>7, <1>8, <1>9, <1>10, <1>11, CommitFrame

\* The rooms that a withdrawal takes its user out of.
LeftRooms(s) == {m \in Rooms : <<m, tx[s].user>> \in tx[s].rows}

LEMMA WithdrawnRows ==
  ASSUME TypeInv, RoomInv, NEW r \in Requests, WithdrawCommit(r),
         NEW u \in Users, u = tx[r].user, NEW left, left = LeftRooms(r)
  PROVE  /\ \A m \in left : row[m][u].state = "active"
         /\ \A m \in Rooms, v \in Users : v # u \/ m \notin left => row'[m][v] = row[m][v]
         /\ \A m \in left : row'[m][u] = [row[m][u] EXCEPT !.state = "deleted"]
<1>1. tx[r].op = "withdraw"
  BY DEF WithdrawCommit, At
<1>2. \A m \in Rooms, v \in Users :
        <<m, v>> \in tx[r].rows <=> v = u /\ m \in left
  BY <1>1, WrittenRows DEF LeftRooms
<1>3. \A m \in left : m \in Rooms /\ row[m][u].state = "active"
  BY <1>1, <1>2, WrittenRows DEF LeftRooms
<1>4. \A m \in Rooms, v \in Users :
        row'[m][v] = IF <<m, v>> \in tx[r].rows
                       THEN [row[m][v] EXCEPT !.state = "deleted"] ELSE row[m][v]
  BY DEF WithdrawCommit
<1> QED BY <1>2, <1>3, <1>4

LEMMA WithdrawRooms ==
  ASSUME TypeInv, RoomInv, NEW r \in Requests, WithdrawCommit(r)
  PROVE  RoomInv'
<1>1. PICK u \in Users, left \in SUBSET Rooms : u = tx[r].user /\ left = LeftRooms(r)
  BY DEF WithdrawCommit, TypeInv, TxOK, At, LeftRooms
<1>2. \A m \in left : row[m][u].state = "active"
  BY <1>1, WithdrawnRows
<1>3. /\ \A m \in Rooms, v \in Users : v # u \/ m \notin left => row'[m][v] = row[m][v]
      /\ \A m \in left : row'[m][u] = [row[m][u] EXCEPT !.state = "deleted"]
  BY <1>1, WithdrawnRows
<1>4. \A m \in Rooms, v \in Users :
        /\ row[m][v].state # "active" => row'[m][v] = row[m][v]
        /\ row'[m][v].role = row[m][v].role
        /\ row'[m][v].reason = row[m][v].reason
        /\ row[m][v].state # "none" => row'[m][v].state # "none"
        /\ row'[m][v].state = "active" => row[m][v].state = "active"
        /\ row[m][v].state = "active" /\ v # u => row'[m][v].state = "active"
  <2>1. \A m \in left : row[m][u] \in MemberRow
    BY DEF TypeInv, DataOK
  <2>2. ASSUME NEW m \in left
        PROVE  /\ row'[m][u].state = "deleted"
               /\ row'[m][u].role = row[m][u].role
               /\ row'[m][u].reason = row[m][u].reason
    <3>1. row'[m][u] = [row[m][u] EXCEPT !.state = "deleted"]
      BY <1>3
    <3>2. row[m][u] \in MemberRow
      BY <2>1
    <3> QED BY <3>1, <3>2, RowFields
  <2>3. \A m \in Rooms, v \in Users : row'[m][v] = row[m][v] \/ (m \in left /\ v = u)
    BY <1>3
  <2>4. \A m \in left : row[m][u].state = "active" /\ row'[m][u].state = "deleted"
    BY <1>2, <2>2
  <2> QED BY <2>2, <2>3, <2>4
<1>5. active' = active \ {u} /\ room' = room /\ tx' = [tx EXCEPT ![r] = Done]
  BY <1>1 DEF WithdrawCommit
<1>6. ASSUME NEW m \in Rooms
      PROVE  Members(m)' \subseteq Members(m) /\ Hosts(m)' \subseteq Hosts(m)
  BY <1>4 DEF Members, Hosts
<1>7. ASSUME NEW m \in Rooms
      PROVE  RoomOK(m)'
  <2>1. RoomOK(m)
    BY DEF RoomInv
  <2>2. room[m].state = "absent" => \A v \in Users : row'[m][v] = NoRow
    BY <1>4, <2>1 DEF RoomOK, NoRow
  <2>3. \A v \in Members(m)' : row'[m][v].reason # "KICKED"
    BY <1>4, <1>6, <2>1 DEF RoomOK, Members
  <2>4. ASSUME room[m].state = "open", Hosts(m)' = {}
        PROVE  \E v \in Users \ active' : row'[m][v].state # "none"
    <3>1. CASE Hosts(m) = {}
      BY <1>4, <1>5, <2>1, <2>4, <3>1 DEF RoomOK
    <3>2. CASE Hosts(m) # {}
      <4>1. PICK h \in Users : row[m][h].state = "active" /\ row[m][h].role = "HOST"
        BY <3>2 DEF Hosts, Members
      <4>2. row'[m][h].state # "active"
        BY <1>4, <2>4, <4>1 DEF Hosts, Members
      <4>3. h = u /\ row'[m][h].state # "none"
        BY <1>4, <4>1, <4>2
      <4> QED BY <1>5, <4>3
    <3> QED BY <3>1, <3>2
  <2>5. \A v, w \in Hosts(m)' : v = w
    BY <1>6, <2>1 DEF RoomOK
  <2>6. room[m].state = "deleted" => Members(m)' = {}
    BY <1>6, <2>1 DEF RoomOK
  <2> QED BY <1>5, <2>2, <2>3, <2>4, <2>5, <2>6 DEF RoomOK
<1>8. ASSUME NEW s \in Requests \ {r}
      PROVE  HandlerOK(s)'
  <2>1. /\ tx'[s] = tx[s] /\ HandlerOK(s) /\ TxOK(tx[s]) /\ tx[s] \in TxRecord
        /\ Apart(r, s)
    BY <1>5, EndsApart DEF RoomInv, TypeInv
  <2>2. CASE tx[s].pc = "locked"
    <3>1. PICK m \in Rooms, v \in Users : m = tx[s].room /\ v = tx[s].user
      BY <2>2, LockedRoom
    <3>2. room'[m].state = "open" /\ tx[s].op \in {"join", "leave", "kick"}
      BY <1>5, <2>1, <2>2, <3>1 DEF HandlerOK, TxOK
    <3>3. CASE tx[s].op = "join"
      <4>1. MayJoin(m, v)
        BY <2>1, <2>2, <3>1, <3>3 DEF HandlerOK, At
      <4>2. MayJoin(m, v)'
        BY <1>4, <4>1 DEF MayJoin
      <4> QED BY <2>1, <2>2, <3>1, <3>2, <3>3, <4>2 DEF HandlerOK, At, MayJoin
    <3>4. CASE tx[s].op = "kick"
      <4>1. tx[s].target \in Users /\ row[m][tx[s].target].role = "MEMBER"
        BY <2>1, <2>2, <3>1, <3>4 DEF HandlerOK, At, TxOK
      <4>2. row'[m][tx[s].target].role = "MEMBER"
        BY <1>4, <4>1
      <4> QED BY <2>1, <2>2, <3>1, <3>2, <3>4, <4>2 DEF HandlerOK, At
    <3>5. CASE tx[s].op = "leave"
      <4>1. PICK next, was : next = tx[s].target /\ was = tx[s].wasHost
        OBVIOUS
      <4>2. LeaveOK(m, v, next, was)
        BY <2>1, <2>2, <3>1, <3>5, <4>1 DEF HandlerOK, At
      <4>3. next \in Users \cup {NULL}
        BY <2>1, <4>1 DEF TxRecord
      <4>4. next # NULL => next \notin active' \/ row'[m][next].state = "active"
        BY <1>4, <1>5, <4>2, <4>3 DEF LeaveOK
      <4>5. LeaveOK(m, v, next, was)'
        BY <1>4, <1>6, <4>2, <4>3, <4>4 DEF LeaveOK
      <4>6. /\ tx'[s].op = "leave" /\ tx'[s].pc = "locked" /\ tx'[s].room = m
            /\ tx'[s].user = v /\ tx'[s].target = next /\ tx'[s].wasHost = was
        BY <2>1, <2>2, <3>1, <3>5, <4>1
      <4> QED BY <3>2, <4>5, <4>6 DEF HandlerOK, At
    <3> QED BY <3>2, <3>3, <3>4, <3>5
  <2>3. CASE tx[s].op = "withdraw"
    <3>1. tx[s].user # u /\ tx[s].pc # "locked"
      BY <1>1, <2>1, <2>3 DEF Apart, WithdrawCommit, At, TxOK
    <3>2. RowsHeld(s) /\ tx'[s] = tx[s]
      BY <2>1, <2>3 DEF HandlerOK
    <3>3. RowsHeld(s)'
      BY <1>3, <3>1, <3>2 DEF RowsHeld
    <3> QED BY <2>1, <2>3, <3>1, <3>3 DEF HandlerOK, At
  <2>4. CASE tx[s].pc # "locked" /\ tx[s].op # "withdraw"
    BY <1>5, <2>1, <2>4 DEF HandlerOK, At
  <2> QED BY <2>2, <2>3, <2>4
<1> QED BY <1>5, <1>7, <1>8, EndsApart DEF RoomInv

LEMMA NextRoomInv == TypeInv /\ RoomInv /\ [Next]_vars => RoomInv'
<1> SUFFICES ASSUME TypeInv, RoomInv, [Next]_vars PROVE RoomInv'
  OBVIOUS
<1>1. CASE UNCHANGED vars
  <2>1. UNCHANGED <<room, row, active, tx>>
    BY <1>1 DEF vars
  <2>2. (\A m \in Rooms : RoomOK(m)') /\ \A r \in Requests : HandlerOK(r)'
    BY <2>1, SameRoom, SameHandler DEF RoomInv
  <2>3. \A r, s \in Requests : r # s => Apart(r, s)'
    BY <2>1 DEF RoomInv, Apart, At
  <2> QED BY <2>2, <2>3 DEF RoomInv
<1>2. ASSUME NEW r \in Requests, Rollback(r)
      PROVE  RoomInv'
  BY <1>2, EndStep DEF Rollback
<1> QED BY <1>1, <1>2, ArriveRooms, TakingRooms, CreateRooms, LockRooms, JoinRooms,
           LeaveRooms, KickRooms, WithdrawRooms DEF Next, Continue, Taking

\* What a commit leaves of a kick.
LEMMA KickIsKept ==
  TypeInv /\ RoomInv /\ [Next]_vars =>
    [\A m \in Rooms, u \in Users :
       row[m][u].state = "deleted" /\ row[m][u].reason = "KICKED" =>
         row'[m][u] = row[m][u]]_vars
<1> SUFFICES ASSUME TypeInv, RoomInv, [Next]_vars, ~ UNCHANGED vars,
                    NEW m \in Rooms, NEW u \in Users,
                    row[m][u].state = "deleted", row[m][u].reason = "KICKED"
             PROVE  row'[m][u] = row[m][u]
  OBVIOUS
<1>1. PICK r \in Requests : Arrive(r) \/ Continue(r) \/ Rollback(r)
  BY DEF Next
<1>2. CASE row' = row
  BY <1>2
<1>3. CASE CreateCommit(r)
  <2>1. tx[r].room \in Rooms /\ room[tx[r].room].state = "absent" /\ RoomOK(tx[r].room)
    BY <1>3 DEF CreateCommit, At, TypeInv, TxOK, RoomInv, HandlerOK
  <2>2. tx[r].room # m
    BY <2>1 DEF RoomOK, NoRow
  <2> QED BY <1>3, <2>1, <2>2 DEF CreateCommit, TypeInv, DataOK
<1>4. CASE JoinCommit(r)
  <2>1. MayJoin(tx[r].room, tx[r].user) /\ tx[r].room \in Rooms /\ tx[r].user \in Users
    BY <1>4, LockedRoom DEF JoinCommit, At, HandlerOK
  <2>2. ~(tx[r].room = m /\ tx[r].user = u)
    BY <2>1 DEF MayJoin
  <2> QED BY <1>4, <2>1, <2>2 DEF JoinCommit, TypeInv, DataOK
<1>5. CASE LeaveCommit(r)
  <2>1. /\ tx[r].room \in Rooms /\ tx[r].user \in Users
        /\ LeaveOK(tx[r].room, tx[r].user, tx[r].target, tx[r].wasHost)
    BY <1>5, LockedRoom DEF LeaveCommit, At, HandlerOK
  <2>2. CASE tx[r].room # m
    BY <1>5, <2>1, <2>2 DEF LeaveCommit, TypeInv, DataOK
  <2>3. CASE tx[r].room = m
    <3>1. tx[r].user # u
      BY <2>1, <2>3 DEF LeaveOK
    <3>2. tx[r].target # u
      BY <2>1, <2>3 DEF LeaveOK
    <3> QED BY <1>5, <2>3, <3>1, <3>2 DEF LeaveCommit, TypeInv, DataOK
  <2> QED BY <2>2, <2>3
<1>6. CASE KickCommit(r)
  <2>1. tx[r].room \in Rooms /\ tx[r].target \in Users
    BY <1>6, LockedRoom DEF KickCommit, At
  <2>2. row[m][u] \in MemberRow
    BY DEF TypeInv, DataOK
  <2>3. [row[m][u] EXCEPT !.state = "deleted", !.reason = "KICKED"] = row[m][u]
    BY <2>2 DEF MemberRow
  <2> QED BY <1>6, <2>1, <2>3 DEF KickCommit, TypeInv, DataOK
<1>7. CASE WithdrawCommit(r)
  <2>1. <<m, u>> \notin tx[r].rows
    BY <1>7, WrittenRows DEF WithdrawCommit, At
  <2> QED BY <1>7, <2>1 DEF WithdrawCommit
<1>8. CASE Arrive(r) \/ Rollback(r)
  <2>1. row' = row
    BY <1>8 DEF Arrive, CreateCheck, AccountCheck, WithdrawBegin, Rollback
  <2> QED BY <2>1
<1>9. CASE (\E code \in Codes : CreateInsert(r, code) \/ CreateCollides(r, code))
             \/ JoinOrKickLock(r) \/ LeaveLock(r) \/ Refused(r) \/ Taking(r)
  <2>1. row' = row
    BY <1>9, TakingRecord DEF CreateInsert, CreateCollides, JoinOrKickLock, LeaveLock, Refused
  <2> QED BY <2>1
<1> QED BY <1>1, <1>3, <1>4, <1>5, <1>6, <1>7, <1>8, <1>9 DEF Continue, Taking

-----------------------------------------------------------------------------
(* Theorems                                                                *)

LEMMA RoomsInOrder == Spec => [](TypeInv /\ RoomInv)
BY InitTypeInv, NextTypeInv, InitRoomInv, NextRoomInv, PTL DEF Spec

\* A room never has two hosts, however hosts leave, come back, hand over, kick
\* and withdraw (leave_room, _transfer_room_host, withdraw_user).
THEOREM OneHost == Spec => []AtMostOneHost
BY RoomsInOrder, RoomInvImplies, PTL

\* An open room has a host unless one of those who have been in it has
\* withdrawn (leave_room, kick_room_member, _soft_delete_room_members).
THEOREM HostsAreLostByWithdrawal == Spec => []HostlessByWithdrawal
BY RoomsInOrder, RoomInvImplies, PTL

\* A room that leave_room has deleted has no active member, and nobody who was
\* waiting for its lock gets in.
THEOREM DeletedRoomsAreEmpty == Spec => []DeletedRoomIsEmpty
BY RoomsInOrder, RoomInvImplies, PTL

\* A row that kick_room_member has written is never written again.
THEOREM KickedMembersStayOut == Spec => KickedStaysOut
BY RoomsInOrder, KickIsKept, PTL DEF Spec, KickedStaysOut

-----------------------------------------------------------------------------
(* The lifecycle that the transactions implement                           *)

\* Who acts: a request that has ended is nobody's, and between its checks and
\* its commit the host who leaves or kicks is the host still or has withdrawn.
StillIn(m, u) == row[m][u].state = "active" \/ u \notin active

LeaverOK(m, u, wasHost) == StillIn(m, u) /\ (wasHost => row[m][u].role = "HOST")

KickerOK(m, u, v) == u # v /\ row[m][u].role = "HOST" /\ StillIn(m, u) /\ StillIn(m, v)

ActorOK(r) ==
  /\ tx[r].pc \in {"idle", "done"} => tx[r].user = NULL
  /\ At(r, "leave", "locked") => LeaverOK(tx[r].room, tx[r].user, tx[r].wasHost)
  /\ At(r, "kick", "locked") => KickerOK(tx[r].room, tx[r].user, tx[r].target)
  /\ tx[r].op = "withdraw" => tx[r].user \in active

ActorInv == \A r \in Requests : ActorOK(r)

LEMMA InitActorInv == Init => ActorInv
BY DEF Init, ActorInv, ActorOK, At, Idle

\* A request begins on behalf of an active user.
LEMMA ArrivalRecord ==
  ASSUME TypeInv, NEW r \in Requests, Arrive(r)
  PROVE  /\ UNCHANGED <<room, row, active>>
         /\ tx[r].pc = "idle"
         /\ \E rec : tx' = [tx EXCEPT ![r] = rec] /\ rec.user \in active
<1>1. PICK u \in Users :
        \/ \E m \in Rooms : CreateCheck(r, u, m)
        \/ \E m \in Rooms, op \in {"join", "leave"} : AccountCheck(r, op, u, m, NULL)
        \/ \E m \in Rooms, v \in Users : AccountCheck(r, "kick", u, m, v)
        \/ WithdrawBegin(r, u)
  BY DEF Arrive
<1> DEFINE Begun ==
      /\ UNCHANGED <<room, row, active>> /\ tx[r].pc = "idle"
      /\ \E rec : tx' = [tx EXCEPT ![r] = rec] /\ rec.user \in active
<1>2. ASSUME NEW m \in Rooms, CreateCheck(r, u, m)
      PROVE  Begun
  <2> DEFINE rec == [Idle EXCEPT !.pc = "checked", !.op = "create", !.user = u, !.room = m]
  <2>1. rec.user = u
    BY DEF Idle
  <2>2. tx' = [tx EXCEPT ![r] = rec] /\ u \in active
    BY <1>2 DEF CreateCheck
  <2> HIDE DEF rec
  <2> QED BY <1>2, <2>1, <2>2 DEF CreateCheck
<1>3. ASSUME NEW m \in Rooms, NEW op, NEW v, AccountCheck(r, op, u, m, v)
      PROVE  Begun
  <2> DEFINE rec == [Idle EXCEPT !.pc = "checked", !.op = op, !.user = u,
                                 !.room = m, !.target = v]
  <2>1. rec.user = u
    BY DEF Idle
  <2>2. tx' = [tx EXCEPT ![r] = rec] /\ u \in active
    BY <1>3 DEF AccountCheck
  <2> HIDE DEF rec
  <2> QED BY <1>3, <2>1, <2>2 DEF AccountCheck
<1>4. ASSUME WithdrawBegin(r, u)
      PROVE  Begun
  <2> DEFINE rec == [Idle EXCEPT !.pc = "checked", !.op = "withdraw", !.user = u,
                                 !.rooms = {m \in Rooms : u \in Members(m)}]
  <2>1. rec.user = u
    BY DEF Idle
  <2>2. tx' = [tx EXCEPT ![r] = rec] /\ u \in active
    BY <1>4 DEF WithdrawBegin
  <2>3. UNCHANGED <<room, row, active>> /\ tx[r].pc = "idle"
    BY <1>4 DEF WithdrawBegin
  <2> HIDE DEF rec
  <2> QED BY <2>1, <2>2, <2>3
<1> QED BY <1>1, <1>2, <1>3, <1>4

\* A step of one handler leaves the records of the others alone.
LEMMA OthersStay ==
  ASSUME TypeInv, NEW r \in Requests, Arrive(r) \/ Continue(r) \/ Rollback(r)
  PROVE  \A s \in Requests \ {r} : tx'[s] = tx[s]
<1>1. CASE Arrive(r)
  <2>1. \E rec : tx' = [tx EXCEPT ![r] = rec]
    BY <1>1, ArrivalRecord
  <2> QED BY <2>1 DEF TypeInv
<1>5. CASE Rollback(r)
  BY <1>5 DEF Rollback, TypeInv
<1>2. CASE \E code \in Codes : CreateInsert(r, code) \/ CreateCollides(r, code)
  BY <1>2 DEF CreateInsert, CreateCollides, TypeInv
<1>3. CASE JoinOrKickLock(r) \/ LeaveLock(r) \/ Refused(r)
  <2>1. CASE JoinOrKickLock(r)
    BY <2>1 DEF JoinOrKickLock, TypeInv
  <2>2. CASE LeaveLock(r)
    <3>1. \E rec : tx' = [tx EXCEPT ![r] = rec]
      BY <2>2 DEF LeaveLock
    <3> QED BY <3>1 DEF TypeInv
  <2>3. CASE Refused(r)
    BY <2>3 DEF Refused, TypeInv
  <2> QED BY <1>3, <2>1, <2>2, <2>3
<1>4. CASE CreateCommit(r) \/ JoinCommit(r) \/ LeaveCommit(r) \/ KickCommit(r) \/ WithdrawCommit(r)
  BY <1>4 DEF CreateCommit, JoinCommit, LeaveCommit, KickCommit, WithdrawCommit, TypeInv
<1>6. CASE Taking(r)
  <2>1. \E rec : tx' = [tx EXCEPT ![r] = rec]
    BY <1>6, TakingRecord
  <2> QED BY <2>1 DEF TypeInv
<1> QED BY <1>1, <1>2, <1>3, <1>4, <1>5, <1>6 DEF Continue, Taking

\* The steps that write no table.
Silent(r) ==
  \/ Arrive(r) \/ Rollback(r)
  \/ \E code \in Codes : CreateInsert(r, code) \/ CreateCollides(r, code)
  \/ JoinOrKickLock(r) \/ LeaveLock(r) \/ Refused(r)
  \/ Taking(r)

LEMMA SilentSteps ==
  ASSUME TypeInv, NEW r \in Requests, Silent(r)
  PROVE  UNCHANGED <<room, row, active>>
<1>1. CASE Arrive(r) \/ Rollback(r)
  BY <1>1, ArrivalRecord DEF Rollback
<1>2. CASE \E code \in Codes : CreateInsert(r, code) \/ CreateCollides(r, code)
  BY <1>2 DEF CreateInsert, CreateCollides
<1>3. CASE JoinOrKickLock(r) \/ LeaveLock(r) \/ Refused(r)
  <2>1. CASE JoinOrKickLock(r)
    BY <2>1 DEF JoinOrKickLock
  <2>2. CASE LeaveLock(r)
    BY <2>2 DEF LeaveLock
  <2>3. CASE Refused(r)
    BY <2>3 DEF Refused
  <2> QED BY <1>3, <2>1, <2>2, <2>3
<1>4. CASE Taking(r)
  BY <1>4, TakingRecord
<1> QED BY <1>1, <1>2, <1>3, <1>4 DEF Silent

\* A room that somebody has locked is changed by withdrawals only.
LEMMA LockedRowsStay ==
  ASSUME TypeInv, RoomInv, NEW r \in Requests, NEW s \in Requests \ {r}, tx[s].pc = "locked",
         Silent(r) \/ CreateCommit(r) \/ JoinCommit(r) \/ LeaveCommit(r) \/ KickCommit(r)
  PROVE  active' = active /\ row'[tx[s].room] = row[tx[s].room]
<1>1. tx[s].room \in Rooms /\ room[tx[s].room].state = "open" /\ Apart(r, s)
  BY LockedRoom DEF RoomInv
<1>2. CASE Silent(r)
  BY <1>2, SilentSteps
<1>3. CASE CreateCommit(r)
  <2>1. tx[r].room # tx[s].room
    BY <1>1, <1>3 DEF CreateCommit, At, RoomInv, HandlerOK
  <2> QED BY <1>1, <1>3, <2>1 DEF CreateCommit, TypeInv, DataOK
<1>4. CASE JoinCommit(r) \/ LeaveCommit(r) \/ KickCommit(r)
  <2>1. tx[r].room # tx[s].room
    <3>1. CASE JoinCommit(r)
      BY <1>1, <3>1 DEF JoinCommit, At, Apart
    <3>2. CASE LeaveCommit(r)
      BY <1>1, <3>2 DEF LeaveCommit, At, Apart
    <3>3. CASE KickCommit(r)
      BY <1>1, <3>3 DEF KickCommit, At, Apart
    <3> QED BY <1>4, <3>1, <3>2, <3>3
  <2>2. CASE JoinCommit(r)
    BY <1>1, <2>1, <2>2 DEF JoinCommit, TypeInv, DataOK
  <2>3. CASE LeaveCommit(r)
    BY <1>1, <2>1, <2>3 DEF LeaveCommit, TypeInv, DataOK
  <2>4. CASE KickCommit(r)
    BY <1>1, <2>1, <2>4 DEF KickCommit, TypeInv, DataOK
  <2> QED BY <1>4, <2>2, <2>3, <2>4
<1> QED BY <1>2, <1>3, <1>4

\* What a withdrawal changes: the account, and the state of memberships of its user.
LEMMA WithdrawalRows ==
  ASSUME TypeInv, RoomInv, NEW r \in Requests, WithdrawCommit(r)
  PROVE  /\ tx[r].user \in Users /\ LeftRooms(r) \in SUBSET Rooms
         /\ active' = active \ {tx[r].user}
         /\ \A m \in Rooms, u \in Users :
              /\ row'[m][u].role = row[m][u].role /\ row'[m][u].reason = row[m][u].reason
              /\ u # tx[r].user \/ m \notin LeftRooms(r) => row'[m][u] = row[m][u]
         /\ \A m \in LeftRooms(r) : /\ row[m][tx[r].user].state = "active"
                                   /\ row'[m][tx[r].user].state = "deleted"
<1>1. PICK u \in Users, left \in SUBSET Rooms : u = tx[r].user /\ left = LeftRooms(r)
  BY DEF WithdrawCommit, TypeInv, TxOK, At, LeftRooms
<1>2. \A m \in left : row[m][u].state = "active"
  BY <1>1, WithdrawnRows
<1>3. /\ \A m \in Rooms, v \in Users : v # u \/ m \notin left => row'[m][v] = row[m][v]
      /\ \A m \in left : row'[m][u] = [row[m][u] EXCEPT !.state = "deleted"]
  BY <1>1, WithdrawnRows
<1>4. ASSUME NEW m \in left
      PROVE  /\ row'[m][u].state = "deleted"
             /\ row'[m][u].role = row[m][u].role /\ row'[m][u].reason = row[m][u].reason
  <2>1. row[m][u] \in MemberRow /\ row'[m][u] = [row[m][u] EXCEPT !.state = "deleted"]
    BY <1>3 DEF TypeInv, DataOK
  <2> QED BY <2>1, RowFields
<1>5. active' = active \ {u}
  BY <1>1 DEF WithdrawCommit
<1> QED BY <1>1, <1>2, <1>3, <1>4, <1>5

LEMMA OtherActors ==
  ASSUME TypeInv, RoomInv, ActorInv, NEW r \in Requests, NEW s \in Requests \ {r},
         Arrive(r) \/ Continue(r) \/ Rollback(r)
  PROVE  ActorOK(s)'
<1>1. tx'[s] = tx[s] /\ ActorOK(s) /\ TxOK(tx[s]) /\ tx[s] \in TxRecord
  BY OthersStay DEF ActorInv, TypeInv
<1>2. PICK m, u, v, was :
        m = tx[s].room /\ u = tx[s].user /\ v = tx[s].target /\ was = tx[s].wasHost
  OBVIOUS
<1>3. m = tx'[s].room /\ u = tx'[s].user /\ v = tx'[s].target /\ was = tx'[s].wasHost
  BY <1>1, <1>2
<1>4. CASE WithdrawCommit(r)
  <2>1. ASSUME NEW n \in Rooms, NEW x \in Users
        PROVE  /\ row'[n][x].role = row[n][x].role
               /\ StillIn(n, x) => StillIn(n, x)'
    BY <1>4, WithdrawalRows DEF StillIn
  <2>2. At(s, "leave", "locked") => LeaverOK(m, u, was)'
    BY <1>1, <1>2, <2>1 DEF ActorOK, LeaverOK, At, TxOK
  <2>3. At(s, "kick", "locked") => KickerOK(m, u, v)'
    BY <1>1, <1>2, <2>1 DEF ActorOK, KickerOK, At, TxOK
  <2>4. tx[s].op = "withdraw" => u \in active'
    <3>1. Apart(r, s) /\ active' = active \ {tx[r].user}
      BY <1>4, WithdrawalRows DEF RoomInv
    <3> QED BY <1>1, <1>2, <1>4, <3>1 DEF ActorOK, Apart, WithdrawCommit, At
  <2> QED BY <1>1, <1>2, <1>3, <2>2, <2>3, <2>4 DEF ActorOK, At
<1>5. CASE ~WithdrawCommit(r)
  <2>1. Silent(r) \/ CreateCommit(r) \/ JoinCommit(r) \/ LeaveCommit(r) \/ KickCommit(r)
    BY <1>5 DEF Continue, Silent, Taking
  <2>2. active' = active
    BY <2>1, SilentSteps DEF CreateCommit, JoinCommit, LeaveCommit, KickCommit
  <2>3. tx[s].pc = "locked" => row'[m] = row[m]
    BY <1>2, <2>1, LockedRowsStay
  <2>4. At(s, "leave", "locked") => LeaverOK(m, u, was)'
    BY <1>1, <1>2, <2>2, <2>3 DEF ActorOK, LeaverOK, StillIn, At
  <2>5. At(s, "kick", "locked") => KickerOK(m, u, v)'
    BY <1>1, <1>2, <2>2, <2>3 DEF ActorOK, KickerOK, StillIn, At
  <2> QED BY <1>1, <1>2, <1>3, <2>2, <2>4, <2>5 DEF ActorOK, At
<1> QED BY <1>4, <1>5

LEMMA OwnActor ==
  ASSUME TypeInv, RoomInv, ActorInv, NEW r \in Requests,
         Arrive(r) \/ Continue(r) \/ Rollback(r)
  PROVE  ActorOK(r)'
<1>1. TxOK(tx[r]) /\ tx[r] \in TxRecord /\ ActorOK(r) /\ tx \in [Requests -> TxRecord]
  BY DEF TypeInv, ActorInv
<1>2. CASE tx' = [tx EXCEPT ![r] = Done]
  <2>1. tx'[r] = Done
    BY <1>1, <1>2
  <2> QED BY <2>1 DEF ActorOK, At, Done, Idle
<1>3. ASSUME NEW u \in Users, NEW m \in Rooms, CreateCheck(r, u, m)
      PROVE  ActorOK(r)'
  <2>1. tx'[r].pc = "checked" /\ tx'[r].op = "create"
    BY <1>1, <1>3 DEF CreateCheck, Idle
  <2> QED BY <2>1 DEF ActorOK, At
<1>4. ASSUME NEW u \in Users, NEW m \in Rooms, NEW v \in Users \cup {NULL},
             NEW op \in {"join", "leave", "kick"}, AccountCheck(r, op, u, m, v)
      PROVE  ActorOK(r)'
  <2>1. tx'[r].pc = "checked" /\ tx'[r].op = op
    BY <1>1, <1>4 DEF AccountCheck, Idle
  <2> QED BY <2>1 DEF ActorOK, At
<1>5. ASSUME NEW u \in Users, WithdrawBegin(r, u)
      PROVE  ActorOK(r)'
  <2>1. /\ tx'[r].pc = "checked" /\ tx'[r].op = "withdraw" /\ tx'[r].user = u
        /\ u \in active /\ active' = active
    BY <1>1, <1>5 DEF WithdrawBegin, Idle
  <2> QED BY <2>1 DEF ActorOK, At
<1>6. ASSUME NEW code \in Codes, CreateInsert(r, code) \/ CreateCollides(r, code)
      PROVE  ActorOK(r)'
  <2>1. tx'[r] = Done \/ (tx'[r].pc \in {"checked", "written"} /\ tx'[r].op = "create")
    BY <1>1, <1>6 DEF CreateInsert, CreateCollides, At, TxRecord
  <2> QED BY <2>1 DEF ActorOK, At, Done, Idle
<1>7. CASE JoinOrKickLock(r)
  <2>1. PICK m, u, v : m = tx[r].room /\ u = tx[r].user /\ v = tx[r].target
    OBVIOUS
  <2>2. /\ tx'[r].pc = "locked" /\ tx'[r].op = tx[r].op /\ tx[r].op \in {"join", "kick"}
        /\ tx'[r].room = m /\ tx'[r].user = u /\ tx'[r].target = v
        /\ UNCHANGED <<row, active>>
    BY <1>1, <1>7, <2>1 DEF JoinOrKickLock, CanLock, TxRecord
  <2>3. tx[r].op = "kick" => KickerOK(m, u, v)
    BY <1>7, <2>1 DEF JoinOrKickLock, Allowed, MayKick, KickerOK, Hosts, Members, StillIn
  <2>4. tx[r].op = "kick" => KickerOK(m, u, v)'
    BY <2>2, <2>3 DEF KickerOK, StillIn
  <2> QED BY <2>2, <2>4 DEF ActorOK, At
<1>8. CASE LeaveLock(r)
  <2>1. PICK m, u, was : m = tx[r].room /\ u = tx[r].user /\ was = (row[m][u].role = "HOST")
    OBVIOUS
  <2>2. /\ tx'[r].pc = "locked" /\ tx'[r].op = "leave"
        /\ tx'[r].room = m /\ tx'[r].user = u /\ tx'[r].wasHost = was
        /\ UNCHANGED <<row, active>>
    BY <1>1, <1>8, <2>1 DEF LeaveLock, CanLock, TxRecord
  <2>3. row[m][u].state = "active"
    BY <1>8, <2>1 DEF LeaveLock, Allowed, MayLeave
  <2>4. LeaverOK(m, u, was)'
    BY <2>1, <2>2, <2>3 DEF LeaverOK, StillIn
  <2> QED BY <2>2, <2>4 DEF ActorOK, At
<1>9. CASE CreateCommit(r) \/ JoinCommit(r) \/ LeaveCommit(r) \/ KickCommit(r)
             \/ WithdrawCommit(r) \/ Refused(r) \/ Rollback(r)
  BY <1>2, <1>9 DEF CreateCommit, JoinCommit, LeaveCommit, KickCommit, WithdrawCommit, Refused,
                    Rollback
<1>10. CASE Taking(r)
  <2>1. PICK rec \in TxRecord : tx' = [tx EXCEPT ![r] = rec] /\ TakesMore(tx[r], rec)
    BY <1>10, TakingRecord
  <2>2. /\ tx'[r] = rec /\ UNCHANGED <<row, active>>
        /\ tx[r].op \in {"leave", "withdraw"}
    BY <1>1, <1>10, <2>1, TakingRecord
  <2>3. PICK m, u, was : m = tx[r].room /\ u = tx[r].user /\ was = tx[r].wasHost
    OBVIOUS
  <2>4. /\ tx'[r].op = tx[r].op /\ tx'[r].room = m /\ tx'[r].user = u /\ tx'[r].wasHost = was
        /\ tx[r].op = "leave" => tx[r].pc = "locked" /\ tx'[r].pc = "locked"
        /\ tx[r].op = "withdraw" => tx'[r].pc \in {"checked", "written"}
    BY <2>1, <2>2, <2>3 DEF TakesMore
  <2>5. tx[r].op = "leave" => LeaverOK(m, u, was)'
    BY <1>1, <2>2, <2>3, <2>4 DEF ActorOK, LeaverOK, StillIn, At
  <2>6. tx[r].op = "withdraw" => u \in active'
    BY <1>1, <2>2, <2>3 DEF ActorOK
  <2> QED BY <2>2, <2>4, <2>5, <2>6 DEF ActorOK, At
<1> QED BY <1>3, <1>4, <1>5, <1>6, <1>7, <1>8, <1>9, <1>10 DEF Arrive, Continue, Taking

LEMMA NextActorInv == TypeInv /\ RoomInv /\ ActorInv /\ [Next]_vars => ActorInv'
<1> SUFFICES ASSUME TypeInv, RoomInv, ActorInv, [Next]_vars PROVE ActorInv'
  OBVIOUS
<1>1. CASE UNCHANGED vars
  BY <1>1 DEF vars, ActorInv, ActorOK, LeaverOK, KickerOK, StillIn, At
<1> QED BY <1>1, OtherActors, OwnActor DEF Next, ActorInv

\* The variables of the lifecycle.
Phases == [m \in Rooms |-> room[m].state]
Roles == [m \in Rooms |-> [u \in Users |-> RoleOf(row[m][u])]]
Callers == {tx[r].user : r \in Requests} \ {NULL}

LEMMA CallersEnd ==
  ASSUME TypeInv, NEW r \in Requests, tx' = [tx EXCEPT ![r] = Done]
  PROVE  Callers' \subseteq Callers
<1>1. tx'[r].user = NULL /\ \A s \in Requests \ {r} : tx'[s] = tx[s]
  BY DEF TypeInv, Done, Idle
<1> QED BY <1>1 DEF Callers

LEMMA CallersStay ==
  ASSUME TypeInv, NEW r \in Requests, tx'[r].user = tx[r].user,
         \A s \in Requests \ {r} : tx'[s] = tx[s]
  PROVE  Callers' = Callers
<1>1. \A s \in Requests : tx'[s].user = tx[s].user
  OBVIOUS
<1> QED BY <1>1 DEF Callers

LEMMA CallersBegin ==
  ASSUME TypeInv, ActorInv, NEW r \in Requests, NEW rec, NEW u \in Users,
         tx[r].pc = "idle", tx' = [tx EXCEPT ![r] = rec], rec.user = u
  PROVE  Callers' = Callers \cup {u}
<1>1. tx'[r] = rec /\ \A s \in Requests \ {r} : tx'[s] = tx[s]
  BY DEF TypeInv
<1>2. tx[r].user = NULL
  BY DEF ActorInv, ActorOK
<1>3. tx'[r].user = u
  BY <1>1
<1> QED BY <1>1, <1>2, <1>3 DEF Callers

LEMMA Caller ==
  ASSUME NEW r \in Requests, tx[r].user \in Users
  PROVE  tx[r].user \in Callers
BY DEF Callers

\* What a row says of its user, before and after an update of it.
LEMMA RoleFacts ==
  ASSUME NEW x \in MemberRow
  PROVE  /\ RoleOf(x) \in {"HOST", "MEMBER"} <=> x.state = "active"
         /\ x.state = "active" => RoleOf(x) = x.role
         /\ x.state # "active" /\ x.reason # "KICKED" => RoleOf(x) = "out"
BY DEF MemberRow, RoleOf

LEMMA HostRow ==
  ASSUME NEW x \in MemberRow, NEW y, y = [x EXCEPT !.role = "HOST"]
  PROVE  RoleOf(y) = IF x.state = "active" THEN "HOST" ELSE RoleOf(x)
<1>1. y.state = x.state /\ y.reason = x.reason /\ y.role = "HOST"
  BY DEF MemberRow
<1> QED BY <1>1 DEF RoleOf

LEMMA NewRoles == RoleOf(NewHost) = "HOST" /\ RoleOf(NewMember) = "MEMBER" /\ RoleOf(NoRow) = "out"
BY DEF NewHost, NewMember, NoRow, RoleOf

\* One user's role in one room changes.
LEMMA OneRole ==
  ASSUME NEW m \in Rooms, NEW u \in Users,
         \A n \in Rooms : n # m => row'[n] = row[n],
         \A v \in Users : v # u => row'[m][v] = row[m][v]
  PROVE  Roles' = [Roles EXCEPT ![m][u] = RoleOf(row'[m][u])]
<1> DEFINE x == RoleOf(row'[m][u])
<1>1. \A n \in Rooms : n # m => Roles'[n] = Roles[n]
  BY DEF Roles
<1>2. Roles'[m] = [Roles[m] EXCEPT ![u] = x]
  BY DEF Roles
<1> HIDE DEF x
<1>3. Roles' = [n \in Rooms |-> Roles'[n]] /\ Roles = [n \in Rooms |-> Roles[n]]
  BY DEF Roles
<1>4. Roles' = [Roles EXCEPT ![m] = [Roles[m] EXCEPT ![u] = x]]
  BY <1>1, <1>2, <1>3
<1> QED BY <1>4 DEF x

LEMMA SamePhases ==
  ASSUME room' = room
  PROVE  Phases' = Phases
BY DEF Phases

LEMMA SilentLifecycle ==
  ASSUME TypeInv, RoomInv, ActorInv, NEW r \in Requests, Silent(r)
  PROVE  Lifecycle!Next
<1>1. UNCHANGED <<room, row, active>> /\ Phases' = Phases /\ Roles' = Roles
  BY SilentSteps DEF Phases, Roles
<1>2. ASSUME Callers' \subseteq Callers
      PROVE  Lifecycle!Next
  <2>1. Lifecycle!HangUp
    BY <1>1, <1>2 DEF Lifecycle!HangUp, Phases, Roles, Callers
  <2> QED BY <2>1 DEF Lifecycle!Next
<1>3. CASE Arrive(r)
  <2>1. PICK rec : tx' = [tx EXCEPT ![r] = rec] /\ rec.user \in active
    BY <1>3, ArrivalRecord
  <2>2. PICK u \in Users : u = rec.user /\ u \in active
    BY <2>1 DEF TypeInv, DataOK
  <2>3. Callers' = Callers \cup {u}
    BY <1>3, <2>1, <2>2, ArrivalRecord, CallersBegin
  <2>4. Lifecycle!Call(u)
    BY <1>1, <2>2, <2>3 DEF Lifecycle!Call, Phases, Roles, Callers
  <2> QED BY <2>4 DEF Lifecycle!Next
<1>4. CASE Rollback(r) \/ Refused(r)
  BY <1>2, <1>4, CallersEnd DEF Rollback, Refused
<1>5. ASSUME NEW code \in Codes, CreateInsert(r, code) \/ CreateCollides(r, code)
      PROVE  Lifecycle!Next
  <2>1. tx' = [tx EXCEPT ![r] = Done] \/ tx'[r].user = tx[r].user
    BY <1>5 DEF CreateInsert, CreateCollides, TypeInv, TxRecord
  <2> QED BY <1>2, <1>5, <2>1, CallersEnd, CallersStay, OthersStay DEF Continue
<1>6. CASE JoinOrKickLock(r) \/ LeaveLock(r)
  <2>1. tx'[r].user = tx[r].user
    <3>1. tx \in [Requests -> TxRecord] /\ tx[r] \in TxRecord
      BY DEF TypeInv
    <3>2. CASE JoinOrKickLock(r)
      BY <3>1, <3>2 DEF JoinOrKickLock, TxRecord
    <3>3. CASE LeaveLock(r)
      BY <3>1, <3>3 DEF LeaveLock, TxRecord
    <3> QED BY <1>6, <3>2, <3>3
  <2> QED BY <1>2, <1>6, <2>1, CallersStay, OthersStay DEF Continue
<1>7. CASE Taking(r)
  <2>1. PICK rec \in TxRecord : tx' = [tx EXCEPT ![r] = rec] /\ TakesMore(tx[r], rec)
    BY <1>7, TakingRecord
  <2>2. tx'[r].user = tx[r].user
    BY <2>1 DEF TakesMore, TypeInv
  <2> QED BY <1>2, <1>7, <2>2, CallersStay, OthersStay DEF Continue, Taking
<1> QED BY <1>3, <1>4, <1>5, <1>6, <1>7 DEF Silent

LEMMA CreateLifecycle ==
  ASSUME TypeInv, RoomInv, NEW r \in Requests, CreateCommit(r)
  PROVE  Lifecycle!Next
<1>1. PICK m \in Rooms, u \in Users : m = tx[r].room /\ u = tx[r].user
  BY DEF CreateCommit, At, TypeInv, TxOK
<1>2. room[m].state = "absent"
  BY <1>1 DEF CreateCommit, At, RoomInv, HandlerOK
<1>3. /\ \A n \in Rooms : n # m => row'[n] = row[n]
      /\ \A v \in Users : v # u => row'[m][v] = row[m][v]
      /\ row'[m][u] = NewHost
      /\ room' = [room EXCEPT ![m] = [state |-> "open", code |-> tx[r].code]]
  BY <1>1 DEF CreateCommit, TypeInv, DataOK
<1>4. Roles' = [Roles EXCEPT ![m][u] = "HOST"]
  BY <1>3, OneRole, NewRoles
<1>5. Phases' = [Phases EXCEPT ![m] = "open"]
  BY <1>3 DEF Phases, TypeInv, DataOK
<1>6. Callers' \subseteq Callers /\ u \in Callers /\ active' = active
  BY <1>1, CallersEnd, Caller DEF CreateCommit
<1>7. Lifecycle!Open(m, u)
  BY <1>2, <1>4, <1>5, <1>6 DEF Lifecycle!Open, Lifecycle!Acts, Phases, Roles, Callers
<1> QED BY <1>7 DEF Lifecycle!Next

LEMMA JoinLifecycle ==
  ASSUME TypeInv, RoomInv, NEW r \in Requests, JoinCommit(r)
  PROVE  Lifecycle!Next
<1>1. PICK m \in Rooms, u \in Users : m = tx[r].room /\ u = tx[r].user
  BY LockedRoom DEF JoinCommit, At
<1>2. room[m].state = "open" /\ MayJoin(m, u) /\ row[m][u] \in MemberRow
  BY <1>1, LockedRoom DEF JoinCommit, At, HandlerOK, TypeInv, DataOK
<1>3. /\ \A n \in Rooms : n # m => row'[n] = row[n]
      /\ \A v \in Users : v # u => row'[m][v] = row[m][v]
      /\ row'[m][u] = NewMember
      /\ room' = room
  BY <1>1 DEF JoinCommit, TypeInv, DataOK
<1>4. Roles' = [Roles EXCEPT ![m][u] = "MEMBER"]
  BY <1>3, OneRole, NewRoles
<1>5. Roles[m][u] = "out"
  BY <1>2 DEF Roles, MayJoin, RoleOf
<1>6. Callers' \subseteq Callers /\ u \in Callers /\ active' = active
  BY <1>1, CallersEnd, Caller DEF JoinCommit
<1>7. Lifecycle!Join(m, u)
  BY <1>2, <1>3, <1>4, <1>5, <1>6, SamePhases
  DEF Lifecycle!Join, Lifecycle!Acts, Phases, Roles, Callers
<1> QED BY <1>7 DEF Lifecycle!Next

\* Somebody who was in a room when a handler began is so still, or gone.
LEMMA StillOrGone ==
  ASSUME NEW m \in Rooms, NEW u \in Users, NEW r, row[m][u] \in MemberRow,
         StillIn(m, u), row[m][u].role = r
  PROVE  Lifecycle!IsOrGone(m, u, r)
<1>1. row[m][u].state = "active" => RoleOf(row[m][u]) = r
  BY DEF RoleOf
<1>2. row[m][u].state # "active" => RoleOf(row[m][u]) \notin {"HOST", "MEMBER"}
  BY DEF RoleOf
<1> QED BY <1>1, <1>2 DEF Lifecycle!IsOrGone, Lifecycle!Inside, StillIn

LEMMA KickLifecycle ==
  ASSUME TypeInv, RoomInv, ActorInv, NEW r \in Requests, KickCommit(r)
  PROVE  Lifecycle!Next
<1>1. PICK m \in Rooms, u \in Users, v \in Users :
        m = tx[r].room /\ u = tx[r].user /\ v = tx[r].target
  BY LockedRoom DEF KickCommit, At
<1>2. /\ room[m].state = "open" /\ row[m][v].role = "MEMBER" /\ KickerOK(m, u, v)
      /\ row[m][u] \in MemberRow /\ row[m][v] \in MemberRow
  BY <1>1, LockedRoom DEF KickCommit, At, HandlerOK, ActorInv, ActorOK, TypeInv, DataOK
<1>3. /\ \A n \in Rooms : n # m => row'[n] = row[n]
      /\ \A w \in Users : w # v => row'[m][w] = row[m][w]
      /\ row'[m][v] = [row[m][v] EXCEPT !.state = "deleted", !.reason = "KICKED"]
      /\ room' = room
  BY <1>1 DEF KickCommit, TypeInv, DataOK
<1>4. Roles' = [Roles EXCEPT ![m][v] = "kicked"]
  <2>1. RoleOf(row'[m][v]) = "kicked"
    <3>1. row'[m][v].state = "deleted" /\ row'[m][v].reason = "KICKED"
      BY <1>2, <1>3 DEF MemberRow
    <3> QED BY <3>1 DEF RoleOf
  <2> QED BY <1>3, <2>1, OneRole
<1>5. Lifecycle!IsOrGone(m, u, "HOST") /\ Lifecycle!IsOrGone(m, v, "MEMBER") /\ u # v
  BY <1>2, StillOrGone DEF KickerOK
<1>6. Callers' \subseteq Callers /\ u \in Callers /\ active' = active
  BY <1>1, CallersEnd, Caller DEF KickCommit
<1>7. Lifecycle!Kick(m, u, v)
  BY <1>2, <1>3, <1>4, <1>5, <1>6, SamePhases
  DEF Lifecycle!Kick, Lifecycle!Acts, Phases, Roles, Callers
<1> QED BY <1>7 DEF Lifecycle!Next

\* What leave_room writes, as far as roles go.
LEMMA LeaveRoles ==
  ASSUME TypeInv, RoomInv, NEW r \in Requests, LeaveCommit(r),
         NEW m \in Rooms, NEW u \in Users, NEW next, NEW was, m = tx[r].room, u = tx[r].user,
         next = tx[r].target, was = tx[r].wasHost
  PROVE  /\ room' = IF was /\ next = NULL THEN [room EXCEPT ![m].state = "deleted"] ELSE room
         /\ \A n \in Rooms : n # m => row'[n] = row[n]
         /\ \A v \in Users : v # u /\ v # next => row'[m][v] = row[m][v]
         /\ RoleOf(row'[m][u]) = "out"
         /\ \A v \in Users : v # u /\ v = next =>
              RoleOf(row'[m][v]) = IF row[m][v].state = "active" THEN "HOST" ELSE RoleOf(row[m][v])
         /\ row[m][u].state # "active" => RoleOf(row[m][u]) = "out"
<1>1. LeaveOK(m, u, next, was)
  BY LockedRoom DEF LeaveCommit, At, HandlerOK
<1>3. \A v \in Users : row[m][v] \in MemberRow
  BY DEF TypeInv, DataOK
<1>4. row'[m] = [v \in Users |->
         IF v = u THEN [row[m][u] EXCEPT !.state = "deleted", !.reason = "LEFT"]
         ELSE IF v = next THEN [row[m][v] EXCEPT !.role = "HOST"] ELSE row[m][v]]
  BY DEF LeaveCommit, TypeInv, DataOK
<1>5. RoleOf(row'[m][u]) = "out"
  <2>1. row'[m][u] = [row[m][u] EXCEPT !.state = "deleted", !.reason = "LEFT"]
    BY <1>4
  <2>2. row[m][u] \in MemberRow
    BY <1>3
  <2>3. row'[m][u].state = "deleted" /\ row'[m][u].reason = "LEFT"
    BY <2>1, <2>2 DEF MemberRow
  <2> QED BY <2>3 DEF RoleOf
<1>6. ASSUME NEW v \in Users, v # u, v = next
      PROVE  RoleOf(row'[m][v]) = IF row[m][v].state = "active" THEN "HOST" ELSE RoleOf(row[m][v])
  <2>1. row'[m][v] = [row[m][v] EXCEPT !.role = "HOST"]
    BY <1>4, <1>6
  <2> QED BY <1>3, <2>1, HostRow
<1>7. row[m][u].state # "active" => RoleOf(row[m][u]) = "out"
  <2>1. row[m][u].reason # "KICKED"
    BY <1>1 DEF LeaveOK
  <2> QED BY <2>1 DEF RoleOf
<1>8. \A n \in Rooms : n # m => row'[n] = row[n]
  BY DEF LeaveCommit, TypeInv, DataOK
<1>9. room' = IF tx[r].wasHost /\ next = NULL THEN [room EXCEPT ![m].state = "deleted"] ELSE room
  BY DEF LeaveCommit
<1>10. \A v \in Users : v # u /\ v # next => row'[m][v] = row[m][v]
  BY <1>4
<1> QED BY <1>5, <1>6, <1>7, <1>8, <1>9, <1>10

\* Whoever is in no longer counts as an active row.
LEMMA NotInside ==
  ASSUME TypeInv, NEW m \in Rooms, NEW v \in Users
  PROVE  /\ v \notin Members(m) => Roles[m][v] \notin {"HOST", "MEMBER"}
         /\ Roles[m][v] = "HOST" => v \in Hosts(m)
<1>1. Roles[m][v] = RoleOf(row[m][v])
  BY DEF Roles
<1> QED BY <1>1 DEF Members, Hosts, RoleOf

LEMMA LeaveLifecycle ==
  ASSUME TypeInv, RoomInv, ActorInv, NEW r \in Requests, LeaveCommit(r)
  PROVE  Lifecycle!Next
<1>1. PICK m \in Rooms, u \in Users : m = tx[r].room /\ u = tx[r].user
  BY LockedRoom DEF LeaveCommit, At
<1>2. PICK next, was : next = tx[r].target /\ was = tx[r].wasHost
  OBVIOUS
<1>3. /\ LeaverOK(m, u, was) /\ LeaveOK(m, u, next, was) /\ room[m].state = "open"
      /\ was \in BOOLEAN /\ next \in Users \cup {NULL}
  <2>1. LeaverOK(m, u, was)
    BY <1>1, <1>2 DEF LeaveCommit, ActorInv, ActorOK
  <2>2. LeaveOK(m, u, next, was) /\ room[m].state = "open"
    BY <1>1, <1>2, LockedRoom DEF LeaveCommit, At, HandlerOK
  <2> QED BY <1>2, <2>1, <2>2 DEF TypeInv, TxRecord
<1>4. /\ room' = IF was /\ next = NULL THEN [room EXCEPT ![m].state = "deleted"] ELSE room
      /\ \A n \in Rooms : n # m => row'[n] = row[n]
      /\ \A v \in Users : v # u /\ v # next => row'[m][v] = row[m][v]
      /\ RoleOf(row'[m][u]) = "out"
      /\ \A v \in Users : v # u /\ v = next =>
           RoleOf(row'[m][v]) = IF row[m][v].state = "active" THEN "HOST" ELSE RoleOf(row[m][v])
      /\ row[m][u].state # "active" => RoleOf(row[m][u]) = "out"
  BY <1>1, <1>2, LeaveRoles
<1>5. Callers' \subseteq Callers /\ u \in Callers /\ active' = active
  BY <1>1, CallersEnd, Caller DEF LeaveCommit
<1>6. \A v \in Users : row[m][v] \in MemberRow
  BY DEF TypeInv, DataOK
<1>7. next = NULL => Roles' = [Roles EXCEPT ![m][u] = "out"]
  BY <1>4, OneRole
<1>8. CASE ~was
  <2>1. next = NULL /\ row[m][u].role = "MEMBER" /\ room' = room
    BY <1>3, <1>4, <1>8 DEF LeaveOK
  <2>2. CASE row[m][u].state = "active"
    <3>1. Roles[m][u] = "MEMBER"
      BY <2>1, <2>2 DEF Roles, RoleOf
    <3>2. Lifecycle!Leave(m, u)
      BY <1>3, <1>5, <1>7, <2>1, <3>1, SamePhases
      DEF Lifecycle!Leave, Lifecycle!Acts, Phases, Roles, Callers
    <3> QED BY <3>2 DEF Lifecycle!Next
  <2>3. CASE row[m][u].state # "active"
    <3>1. Roles[m][u] = "out"
      BY <1>4, <2>3 DEF Roles
    <3>2. Roles' = Roles
      <4>1. Roles = [Roles EXCEPT ![m][u] = Roles[m][u]]
        BY DEF Roles
      <4> QED BY <1>7, <2>1, <3>1, <4>1
    <3>3. Lifecycle!HangUp
      BY <1>5, <2>1, <3>2, SamePhases DEF Lifecycle!HangUp, Phases, Roles, Callers
    <3> QED BY <3>3 DEF Lifecycle!Next
  <2> QED BY <2>2, <2>3
<1>9. ASSUME was
      PROVE  Lifecycle!IsOrGone(m, u, "HOST")
  BY <1>3, <1>6, <1>9, StillOrGone DEF LeaverOK
<1>10. Lifecycle!Becomes(Roles[m][u], "out") = "out"
  <2>1. Roles[m][u] \in {"HOST", "MEMBER"} \/ Roles[m][u] = "out"
    <3>1. row[m][u] \in MemberRow
      BY <1>6
    <3> QED BY <1>4, <3>1 DEF Roles, RoleOf, MemberRow
  <2> QED BY <2>1 DEF Lifecycle!Becomes, Lifecycle!Inside
<1>11. CASE was /\ next = NULL
  <2>1. Phases' = [Phases EXCEPT ![m] = "deleted"]
    <3>1. room' = [room EXCEPT ![m].state = "deleted"] /\ room \in [Rooms -> RoomRow]
      BY <1>4, <1>11 DEF TypeInv, DataOK
    <3>2. room'[m].state = "deleted" /\ \A n \in Rooms : n # m => room'[n] = room[n]
      BY <3>1 DEF RoomRow
    <3> QED BY <3>2 DEF Phases
  <2>2. \A v \in Users \ {u} : Roles[m][v] \notin {"HOST", "MEMBER"}
    BY <1>3, <1>11, NotInside DEF LeaveOK
  <2>3. Lifecycle!NobodyIn(m, Users \ {u})
    BY <2>2 DEF Lifecycle!NobodyIn, Lifecycle!Inside, Roles
  <2>4. Roles' = [Roles EXCEPT ![m][u] = Lifecycle!Becomes(@, "out")]
    <3>1. Roles' = [Roles EXCEPT ![m][u] = Lifecycle!Becomes(Roles[m][u], "out")]
      BY <1>7, <1>10, <1>11
    <3> QED BY <3>1
  <2>5. Lifecycle!Close(m, u)
    BY <1>3, <1>5, <1>9, <1>11, <2>1, <2>3, <2>4
    DEF Lifecycle!Close, Lifecycle!Acts, Phases, Roles, Callers
  <2> QED BY <2>5 DEF Lifecycle!Next
<1>12. CASE was /\ next # NULL
  <2>1. /\ next \in Users /\ next # u /\ Hosts(m) \subseteq {u} /\ room' = room
        /\ StillIn(m, next)
    BY <1>3, <1>4, <1>12 DEF LeaveOK, StillIn
  <2>2. PICK v \in Users : v = next
    BY <2>1
  <2>3. \A w \in Users \ {u} : Roles[m][w] # "HOST"
    BY <2>1, NotInside
  <2>4. Lifecycle!IsOrGone(m, v, "MEMBER")
    <3>1. row[m][v].state = "active" => row[m][v].role = "MEMBER"
      BY <1>6, <2>1, <2>2 DEF Hosts, Members, MemberRow
    <3>2. Roles[m][v] = "MEMBER" \/ (v \notin active /\ Roles[m][v] \notin {"HOST", "MEMBER"})
      BY <2>1, <2>2, <3>1 DEF StillIn, Roles, RoleOf
    <3> QED BY <3>2 DEF Lifecycle!IsOrGone, Lifecycle!Inside, Roles
  <2> DEFINE new(w) == IF w = u THEN Lifecycle!Becomes(Roles[m][w], "out")
                       ELSE IF w = v THEN Lifecycle!Becomes(Roles[m][w], "HOST") ELSE Roles[m][w]
  <2>5. \A w \in Users : Roles'[m][w] = new(w)
    <3>1. Roles'[m][u] = new(u)
      BY <1>4, <1>10 DEF Roles
    <3>2. Roles'[m][v] = new(v)
      <4>1. Roles'[m][v] = IF row[m][v].state = "active" THEN "HOST" ELSE Roles[m][v]
        BY <1>4, <2>1, <2>2 DEF Roles
      <4>2. Roles[m][v] \in {"HOST", "MEMBER"} <=> row[m][v].state = "active"
        <5>1. row[m][v] \in MemberRow
          BY <1>6
        <5> QED BY <5>1, RoleFacts DEF Roles, MemberRow, RoleOf
      <4> QED BY <2>1, <2>2, <4>1, <4>2 DEF Lifecycle!Becomes, Lifecycle!Inside
    <3>3. \A w \in Users : w # u /\ w # v => Roles'[m][w] = new(w)
      BY <1>4, <2>2 DEF Roles
    <3> QED BY <3>1, <3>2, <3>3
  <2>6. \A n \in Rooms : n # m => Roles'[n] = Roles[n]
    BY <1>4 DEF Roles
  <2>7. Roles' = [Roles EXCEPT ![m] = [w \in Users |-> new(w)]]
    <3>1. Roles'[m] = [w \in Users |-> new(w)]
      <4> HIDE DEF new
      <4>1. Roles'[m] = [w \in Users |-> Roles'[m][w]]
        BY DEF Roles
      <4> QED BY <2>5, <4>1
    <3> HIDE DEF new
    <3>2. Roles' = [n \in Rooms |-> Roles'[n]] /\ Roles = [n \in Rooms |-> Roles[n]]
      BY DEF Roles
    <3> QED BY <2>6, <3>1, <3>2
  <2>8. Lifecycle!HandOver(m, u, v)
    BY <1>3, <1>5, <1>9, <1>12, <2>1, <2>2, <2>3, <2>4, <2>7, SamePhases
    DEF Lifecycle!HandOver, Lifecycle!Acts, Phases, Roles, Callers
  <2> QED BY <2>8 DEF Lifecycle!Next
<1> QED BY <1>3, <1>8, <1>11, <1>12

LEMMA WithdrawLifecycle ==
  ASSUME TypeInv, RoomInv, ActorInv, NEW r \in Requests, WithdrawCommit(r)
  PROVE  Lifecycle!Next
<1>1. PICK u \in Users, ms \in SUBSET Rooms : u = tx[r].user /\ ms = LeftRooms(r)
  BY WithdrawalRows
<1>2. /\ active' = active \ {u} /\ u \in active /\ room' = room
      /\ \A m \in Rooms, v \in Users :
           /\ row'[m][v].role = row[m][v].role /\ row'[m][v].reason = row[m][v].reason
           /\ v # u \/ m \notin ms => row'[m][v] = row[m][v]
      /\ \A m \in ms : row[m][u].state = "active" /\ row'[m][u].state = "deleted"
  <2>1. u \in active
    BY <1>1 DEF ActorInv, ActorOK, WithdrawCommit, At
  <2>2. room' = room
    BY DEF WithdrawCommit
  <2> QED BY <1>1, <2>1, <2>2, WithdrawalRows
<1>3. ASSUME NEW m \in ms
      PROVE  Roles[m][u] \in {"HOST", "MEMBER"} /\ Roles'[m][u] = "out"
  <2>1. row[m][u] \in MemberRow /\ row[m][u].reason # "KICKED"
    BY <1>2 DEF TypeInv, DataOK, RoomInv, RoomOK, Members
  <2> QED BY <1>2, <2>1 DEF Roles, RoleOf, MemberRow
<1>4. Roles' = [m \in Rooms |-> [Roles[m] EXCEPT ![u] = IF m \in ms THEN "out" ELSE @]]
  <2>1. \A m \in Rooms : Roles'[m] = [Roles[m] EXCEPT ![u] = IF m \in ms THEN "out" ELSE @]
    <3> SUFFICES ASSUME NEW m \in Rooms
                 PROVE  Roles'[m] = [Roles[m] EXCEPT ![u] = IF m \in ms THEN "out" ELSE @]
      OBVIOUS
    <3>1. Roles'[m][u] = IF m \in ms THEN "out" ELSE Roles[m][u]
      <4>1. m \notin ms => row'[m][u] = row[m][u]
        BY <1>2
      <4>2. m \notin ms => Roles'[m][u] = Roles[m][u]
        BY <4>1 DEF Roles
      <4> QED BY <1>3, <4>2
    <3>2. \A v \in Users : v # u => Roles'[m][v] = Roles[m][v]
      BY <1>2 DEF Roles
    <3>3. Roles'[m] = [v \in Users |-> Roles'[m][v]] /\ Roles[m] = [v \in Users |-> Roles[m][v]]
      BY DEF Roles
    <3> QED BY <3>1, <3>2, <3>3
  <2> QED BY <2>1 DEF Roles
<1>5. Callers' \subseteq Callers /\ u \in Callers
  BY <1>1, CallersEnd, Caller DEF WithdrawCommit
<1>6. Users \ active' = (Users \ active) \cup {u}
  BY <1>2
<1>7. Lifecycle!Withdraw(u, ms)
  <2>1. \A m \in ms : Roles[m][u] \in Lifecycle!Inside
    BY <1>3 DEF Lifecycle!Inside
  <2> QED BY <1>2, <1>4, <1>5, <1>6, <2>1, SamePhases
          DEF Lifecycle!Withdraw, Lifecycle!Acts, Phases, Roles, Callers
<1> QED BY <1>1, <1>7 DEF Lifecycle!Next

LEMMA InitLifecycle == Init => Lifecycle!Init
<1> SUFFICES ASSUME Init PROVE Lifecycle!Init
  OBVIOUS
<1>1. PICK host \in [OpenRooms -> Users], others \in [OpenRooms -> SUBSET Users] :
        row = [m \in Rooms |-> [u \in Users |->
                 IF m \notin OpenRooms THEN NoRow
                 ELSE IF u = host[m] THEN NewHost
                 ELSE IF u \in others[m] THEN NewMember ELSE NoRow]]
  BY DEF Init
<1>2. \A m \in Rooms, u \in Users :
        Roles[m][u] = IF m \notin OpenRooms THEN "out" ELSE IF u = host[m] THEN "HOST"
                      ELSE IF u \in others[m] THEN "MEMBER" ELSE "out"
  BY <1>1, NewRoles DEF Roles
<1>3. Roles \in [Rooms -> [Users -> {"HOST", "MEMBER"} \cup {"out"}]]
  <2>1. \A m \in Rooms, u \in Users : Roles[m][u] \in {"HOST", "MEMBER"} \cup {"out"}
    BY <1>2
  <2>2. \A m \in Rooms : Roles[m] = [u \in Users |-> Roles[m][u]]
    BY DEF Roles
  <2>3. Roles = [m \in Rooms |-> Roles[m]]
    BY DEF Roles
  <2> QED BY <2>1, <2>2, <2>3
<1>4. \A m \in Rooms : Phases[m] = IF m \in OpenRooms THEN "open" ELSE "absent"
  BY DEF Init, Phases
<1>5. Phases \in [Rooms -> {"absent", "open"}]
  BY <1>4 DEF Phases
<1>6. ASSUME NEW m \in Rooms
      PROVE  IF Phases[m] = "absent" THEN \A u \in Users : Roles[m][u] \notin {"HOST", "MEMBER"}
             ELSE \E u \in Users : \A v \in Users : Roles[m][v] = "HOST" <=> v = u
  BY <1>2, <1>4
<1>7. Callers = {} /\ Users \ active = {}
  BY DEF Init, Callers, Idle
<1> QED BY <1>3, <1>5, <1>6, <1>7
        DEF Lifecycle!Init, Lifecycle!NobodyIn, Lifecycle!Inside, Phases, Roles, Callers

\* Every step is a step of the lifecycle of rooms or is invisible there.
LEMMA NextLifecycle ==
  ASSUME TypeInv, RoomInv, ActorInv, [Next]_vars
  PROVE  [Lifecycle!Next]_(Lifecycle!vars)
<1>1. CASE UNCHANGED vars
  BY <1>1 DEF vars, Lifecycle!vars
<1> QED BY <1>1, SilentLifecycle, CreateLifecycle, JoinLifecycle, KickLifecycle, LeaveLifecycle,
           WithdrawLifecycle DEF Next, Continue, Silent, Taking

\* For any number of users, rooms and requests: every commit is a member who comes
\* or leaves, a hand-over of the host, a kick, the end of a room with its last
\* member or a withdrawal, on behalf of a user whose request began before the
\* account was withdrawn; nothing else touches rooms.
THEOREM RoomsFollowTheLifecycle == Spec => ImplementsLifecycle
<1>1. Spec => [](TypeInv /\ RoomInv)
  BY RoomsInOrder
<1>2. Spec => []ActorInv
  BY <1>1, InitActorInv, NextActorInv, PTL DEF Spec
<1>3. TypeInv /\ RoomInv /\ ActorInv /\ [Next]_vars => [Lifecycle!Next]_(Lifecycle!vars)
  BY NextLifecycle
<1> QED BY <1>1, <1>2, <1>3, InitLifecycle, PTL DEF Spec, ImplementsLifecycle, Lifecycle!Spec

=============================================================================
