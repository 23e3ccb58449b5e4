---------------------- MODULE NotificationInboxProofs ----------------------
(***************************************************************************)
(* Proofs about NotificationInbox and PushDelivery, for any number of      *)
(* users, devices, notifications and requests and any page size.           *)
(***************************************************************************)
EXTENDS NotificationInbox, FunctionTheorems, FiniteSetTheorems, TLAPS

USE NullIsNothing, RequestsAreNew, OldNotesAreNew

-----------------------------------------------------------------------------
(* Types                                                                   *)

Pcs == {"idle", "checked", "found", "writing", "committed", "sending", "reading", "between", "done"}

AllOps == {"none", "register", "settings", "notify", "withdraw", "browse", "read", "read_all",
           "refused"}

Results == {"none", "ok", "failed", "refused", "REQUESTED", "PARTIAL_FAILED", "FAILED", "SKIPPED"}

AccountRow == [active : BOOLEAN, on : SUBSET Toggles]

TokenRow == [owner : Users \cup {NULL}, device : Devices \cup {NULL},
             active : BOOLEAN, deleted : BOOLEAN]

NoteStates == {"none", "unread", "read", "deleted"}

\* The values of the locals; a name for each keeps them apart for the provers.
RequestSets == SUBSET Requests
UserIds == Users \cup {NULL}
DeviceIds == Devices \cup Users \cup {NULL}
TokenIds == Tokens \cup {NULL}
ReadRows == TokenRow \cup {NULL}
HadSets == SUBSET (Tokens \cup Toggles)
PatchBodies == Patches \cup {<<>>}
TypeNames == Types \cup {NULL}
UserSets == SUBSET Users
TargetSets == SUBSET (Users \X Devices)
TodoSets == SUBSET (Tokens \cup (Users \X Devices))
DeviceSets == SUBSET Devices
NoteSets == SUBSET Batches

TxRecord == [pc : Pcs,
             op : AllOps,
             result : Results,
             before : RequestSets,
             user : UserIds,
             device : DeviceIds,
             id : TokenIds,
             read : ReadRows,
             had : HadSets,
             patch : PatchBodies,
             type : TypeNames,
             users : UserSets,
             chosen : TargetSets,
             todo : TodoSets,
             invalid : DeviceSets,
             sent : Nat,
             there : NoteSets,
             seen : NoteSets,
             filtered : BOOLEAN,
             page : Nat,
             count : Nat,
             torn : BOOLEAN]

\* A row that is not there, one that is masked, and one of a device.
TokenOK(t) ==
  /\ token[t].owner = NULL => token[t].device = NULL /\ ~token[t].active /\ ~token[t].deleted
  /\ token[t].owner # NULL => (token[t].deleted <=> token[t].device = NULL)

Existing == {t \in Tokens : token[t].owner # NULL}

Notified == {b \in Batches : \E u \in Users : note[b][u] # "none"}

TokensOK ==
  /\ token \in [Tokens -> TokenRow]
  /\ \A t \in Tokens : TokenOK(t)
  /\ \A s, t \in Tokens : token[s].device = token[t].device /\ token[s].device # NULL => s = t
  /\ IsFiniteSet(Existing)

NotesOK ==
  /\ note \in [Batches -> [Users -> NoteStates]]
  /\ order \in Seq(Batches)
  /\ IsFiniteSet(Notified)

AccountsOK == account \in [Users -> AccountRow]

\* What a registration has found.
FoundOK(r) ==
  /\ tx[r].id \in Tokens /\ token[tx[r].id].owner \in Users
  /\ tx[r].read \in TokenRow /\ tx[r].read.device = tx[r].device /\ tx[r].read.owner \in Users
  /\ token[tx[r].id].device \in {tx[r].device, NULL}

TxOK(r) ==
  /\ tx[r].before \subseteq Finished
  /\ tx[r].pc = "idle" <=> tx[r].op = "none"
  /\ tx[r].op = "register" =>
       /\ tx[r].user \in Users /\ tx[r].device \in Devices
       /\ tx[r].pc # "done" =>
            /\ tx[r].pc \in {"checked", "found"} /\ token[r].owner = NULL
            /\ tx[r].pc = "checked" => tx[r].id = NULL
            /\ tx[r].pc = "found" /\ tx[r].id # NULL => FoundOK(r)
  /\ tx[r].op # "register" => token[r].owner = NULL
  /\ tx[r].op = "settings" =>
       tx[r].user \in Users /\ tx[r].patch \in Patches /\ tx[r].pc \in {"checked", "done"}
  /\ tx[r].op = "withdraw" =>
       /\ tx[r].user \in Users /\ tx[r].pc \in {"checked", "done"}
       /\ tx[r].pc = "checked" => tx[r].had \subseteq Existing
  /\ tx[r].op = "browse" => tx[r].user \in Users /\ tx[r].pc \in {"reading", "between", "done"}
  /\ tx[r].op = "notify" =>
       /\ tx[r].pc \in {"writing", "committed", "sending", "done"} /\ tx[r].type \in Types
       /\ tx[r].device \in Users \cup {NULL}
  /\ tx[r].op # "notify" \/ tx[r].pc \in {"writing", "committed"} =>
       tx[r].invalid = {} /\ tx[r].chosen = {}
  /\ tx[r].op = "notify" /\ tx[r].pc = "sending" => tx[r].todo \subseteq tx[r].chosen

TypeInv ==
  /\ AccountsOK /\ TokensOK /\ NotesOK
  /\ tx \in [Requests -> TxRecord]
  /\ \A r \in Requests : TxOK(r)

-----------------------------------------------------------------------------
(* What a step does to the record of its request                           *)

Alone(r) == tx' \in [Requests -> TxRecord] /\ \A s \in Requests \ {r} : tx'[s] = tx[s]

Begins(r, op) ==
  /\ tx[r].pc = "idle" /\ tx[r].op = "none" /\ tx'[r].op = op /\ tx'[r].pc # "idle"
  /\ tx'[r].before = Finished
  /\ tx'[r].invalid = {} /\ tx'[r].chosen = {}

Goes(r) ==
  /\ tx[r].pc \notin {"idle", "done"} /\ tx'[r].pc # "idle"
  /\ tx'[r].op = tx[r].op /\ tx'[r].before = tx[r].before
  /\ tx'[r].user = tx[r].user /\ tx'[r].device = tx[r].device
  /\ tx'[r].patch = tx[r].patch /\ tx'[r].type = tx[r].type /\ tx'[r].users = tx[r].users
  /\ tx'[r].there = tx[r].there /\ tx'[r].filtered = tx[r].filtered
  /\ tx[r].invalid \subseteq tx'[r].invalid

LEMMA FieldValues ==
  /\ {"idle", "checked", "found", "writing", "committed", "sending", "reading", "between", "done"}
       \subseteq Pcs
  /\ {"none", "register", "settings", "notify", "withdraw", "browse", "read", "read_all", "refused"}
       \subseteq AllOps
  /\ {"none", "ok", "failed", "refused", "REQUESTED", "PARTIAL_FAILED", "FAILED", "SKIPPED"}
       \subseteq Results
  /\ Users \subseteq UserIds /\ NULL \in UserIds /\ NULL \in DeviceIds /\ NULL \in TokenIds
  /\ NULL \in ReadRows /\ NULL \in TypeNames /\ <<>> \in PatchBodies
  /\ {} \in RequestSets /\ {} \in HadSets /\ {} \in UserSets /\ {} \in TargetSets
  /\ {} \in TodoSets /\ {} \in DeviceSets /\ {} \in NoteSets
  /\ Finished \in RequestSets
BY DEF Pcs, AllOps, Results, UserIds, DeviceIds, TokenIds, ReadRows, TypeNames, PatchBodies,
       RequestSets, HadSets, UserSets, TargetSets, TodoSets, DeviceSets, NoteSets, Finished

LEMMA IdleRecord == Idle \in TxRecord
BY FieldValues DEF Idle, TxRecord

LEMMA FreshRecord ==
  ASSUME NEW op \in AllOps, NEW u \in UserIds
  PROVE  /\ Fresh(op, u) \in TxRecord
         /\ Fresh(op, u).op = op /\ Fresh(op, u).user = u /\ Fresh(op, u).before = Finished
         /\ Fresh(op, u).invalid = {} /\ Fresh(op, u).chosen = {} /\ Fresh(op, u).id = NULL
         /\ Fresh(op, u).seen = {} /\ Fresh(op, u).page = 0 /\ ~Fresh(op, u).torn
         /\ Fresh(op, u).result = "none" /\ Fresh(op, u).count = 0
<1>1. Finished \in RequestSets
  BY FieldValues
<1>2. Fresh(op, u) \in TxRecord
  BY <1>1, IdleRecord DEF Fresh, TxRecord
<1>3. /\ Idle.invalid = {} /\ Idle.chosen = {} /\ Idle.id = NULL /\ Idle.seen = {} /\ Idle.page = 0
      /\ ~Idle.torn /\ Idle.result = "none" /\ Idle.count = 0
  BY DEF Idle
<1> QED BY <1>2, <1>3, IdleRecord DEF Fresh, TxRecord

LEMMA Updated ==
  ASSUME TypeInv, NEW r \in Requests, NEW rec \in TxRecord, tx' = [tx EXCEPT ![r] = rec]
  PROVE  Alone(r) /\ tx'[r] = rec
BY DEF TypeInv, Alone

LEMMA EndedRecord ==
  ASSUME NEW f \in TxRecord, NEW result \in Results
  PROVE  [f EXCEPT !.pc = "done", !.result = result, !.read = NULL, !.had = {},
                   !.todo = {}, !.id = NULL] \in TxRecord
BY FieldValues DEF TxRecord

LEMMA Ended ==
  ASSUME TypeInv, NEW r \in Requests, tx[r].pc \notin {"idle", "done"},
         NEW result \in Results, Ends(r, result)
  PROVE  /\ Alone(r) /\ Goes(r) /\ tx'[r].pc = "done" /\ tx'[r].result = result
         /\ tx'[r].chosen = tx[r].chosen /\ tx'[r].invalid = tx[r].invalid
         /\ tx'[r].seen = tx[r].seen /\ tx'[r].torn = tx[r].torn
<1> DEFINE f == tx[r]
           rec == [f EXCEPT !.pc = "done", !.result = result, !.read = NULL, !.had = {},
                            !.todo = {}, !.id = NULL]
<1>1. f \in TxRecord
  BY DEF TypeInv
<1>2. tx' = [tx EXCEPT ![r] = rec]
  BY DEF Ends
<1>3. /\ rec \in TxRecord /\ rec.pc = "done" /\ rec.result = result
      /\ rec.op = f.op /\ rec.before = f.before /\ rec.user = f.user /\ rec.device = f.device
      /\ rec.patch = f.patch /\ rec.type = f.type /\ rec.users = f.users
      /\ rec.there = f.there /\ rec.filtered = f.filtered
      /\ rec.chosen = f.chosen /\ rec.invalid = f.invalid
      /\ rec.seen = f.seen /\ rec.torn = f.torn
  <2> HIDE DEF f
  <2>1. rec \in TxRecord
    BY <1>1, EndedRecord
  <2> QED BY <1>1, <2>1 DEF TxRecord
<1> HIDE DEF rec
<1>4. Alone(r) /\ tx'[r] = rec
  BY <1>2, <1>3, Updated
<1> QED BY <1>3, <1>4 DEF Goes

\* The requests that a step does not advance keep what they hold, for a row of a
\* device keeps its device until it is masked.
LEMMA OthersKeepType ==
  ASSUME TypeInv, NEW r \in Requests, Alone(r), tx[r].pc # "done",
         \A t \in Tokens \ {r} : token[t].owner = NULL => token'[t].owner = NULL,
         \A t \in Tokens : token[t].owner \in Users =>
           token'[t].owner \in Users /\ token'[t].device \in {token[t].device, NULL}
  PROVE  \A s \in Requests \ {r} : TxOK(s)'
<1> SUFFICES ASSUME NEW s \in Requests \ {r} PROVE TxOK(s)'
  OBVIOUS
<1>1. tx'[s] = tx[s] /\ TxOK(s) /\ s \in Tokens
  BY DEF Alone, TypeInv, Tokens
<1>2. Finished \subseteq Finished'
  BY DEF Finished, Alone
<1>3. FoundOK(s) => FoundOK(s)'
  BY <1>1 DEF FoundOK
<1>4. token[s].owner = NULL => token'[s].owner = NULL
  BY <1>1
<1>5. Existing \subseteq Existing'
  BY DEF TypeInv, TokensOK, TokenRow, Existing
<1> HIDE DEF FoundOK
<1> QED BY <1>1, <1>2, <1>3, <1>4, <1>5 DEF TxOK

LEMMA TypeInvFrom ==
  ASSUME TypeInv, NEW r \in Requests, Alone(r), AccountsOK', TokensOK', NotesOK', TxOK(r)',
         \A s \in Requests \ {r} : TxOK(s)'
  PROVE  TypeInv'
BY DEF TypeInv, Alone

\* A step that changes no row of a device.
LEMMA TokensStayKeepType ==
  ASSUME TypeInv, NEW r \in Requests, Alone(r), tx[r].pc # "done", token' = token,
         AccountsOK', NotesOK', TxOK(r)'
  PROVE  TypeInv'
<1>1. TokensOK'
  BY DEF TypeInv, TokensOK, TokenOK, Existing
<1>2. token \in [Tokens -> TokenRow]
  BY DEF TypeInv, TokensOK
<1>3. \A s \in Requests \ {r} : TxOK(s)'
  BY OthersKeepType
<1> QED BY <1>1, <1>3, TypeInvFrom

-----------------------------------------------------------------------------
(* A lemma for each action: the types, and what becomes of its request     *)

LEMMA RestStays ==
  ASSUME TypeInv
  PROVE  /\ UNCHANGED account => AccountsOK'
         /\ UNCHANGED inbox => NotesOK'
BY DEF TypeInv, AccountsOK, NotesOK, Notified, inbox

\* A request that begins and changes no row of a device.
LEMMA BeginsKeepType ==
  ASSUME TypeInv, NEW r \in Requests, Alone(r), NEW op \in AllOps \ {"none"}, Begins(r, op),
         UNCHANGED <<account, token>>, NotesOK',
         op = "register" => /\ tx'[r].user \in Users /\ tx'[r].device \in Devices
                            /\ tx'[r].pc = "checked" /\ tx'[r].id = NULL,
         op = "settings" =>
           tx'[r].user \in Users /\ tx'[r].patch \in Patches /\ tx'[r].pc = "checked",
         op = "withdraw" => /\ tx'[r].user \in Users /\ tx'[r].pc = "checked"
                            /\ tx'[r].had \subseteq Existing,
         op = "browse" => tx'[r].user \in Users /\ tx'[r].pc = "reading",
         op = "notify" => /\ tx'[r].pc = "writing" /\ tx'[r].type \in Types
                          /\ tx'[r].device \in Users \cup {NULL}
  PROVE  TypeInv'
<1>1. Finished \subseteq Finished'
  BY DEF Finished, Alone, Begins
<1>2. token[r].owner = NULL
  BY DEF TypeInv, TxOK, Begins
<1>3. Existing' = Existing
  BY DEF Existing
<1>4. TxOK(r)'
  BY <1>1, <1>2, <1>3 DEF TxOK, Begins
<1> QED BY <1>4, RestStays, TokensStayKeepType DEF Begins

\* A request that goes on and changes no row of a device.
LEMMA GoesKeepType ==
  ASSUME TypeInv, NEW r \in Requests, Alone(r), Goes(r), UNCHANGED token, AccountsOK', NotesOK',
         tx[r].op = "register" /\ tx'[r].pc # "done" =>
           /\ tx'[r].pc = "found"
           /\ tx'[r].id # NULL => FoundOK(r)',
         tx[r].op = "settings" => tx'[r].pc = "done",
         tx[r].op = "withdraw" => tx'[r].pc = "done",
         tx[r].op = "browse" => tx'[r].pc \in {"reading", "between", "done"},
         tx[r].op = "notify" => tx'[r].pc \in {"committed", "sending", "done"},
         tx[r].op # "notify" \/ tx'[r].pc = "committed" =>
           tx'[r].invalid = {} /\ tx'[r].chosen = {},
         tx'[r].pc = "sending" => tx'[r].todo \subseteq tx'[r].chosen
  PROVE  TypeInv'
<1>1. Finished \subseteq Finished'
  BY DEF Finished, Alone, Goes
<1>2. TxOK(r)
  BY DEF TypeInv
<1>3. token'[r] = token[r]
  OBVIOUS
<1> HIDE DEF FoundOK
<1>4. TxOK(r)'
  BY <1>1, <1>2, <1>3 DEF TxOK, Goes
<1> QED BY <1>4, TokensStayKeepType DEF Goes

LEMMA RegisterCheckStep ==
  ASSUME TypeInv, NEW r \in Requests, NEW u \in Users, NEW d \in Devices,
         RegisterCheck(r, u, d), UNCHANGED inbox
  PROVE  /\ TypeInv' /\ Alone(r) /\ Begins(r, "register") /\ tx'[r].pc = "checked"
         /\ tx'[r].user = u /\ tx'[r].device = d /\ account[u].active
         /\ UNCHANGED <<account, token>>
<1> DEFINE f == Fresh("register", u)
           rec == [f EXCEPT !.pc = "checked", !.device = d]
<1>1. /\ f \in TxRecord /\ f.op = "register" /\ f.user = u /\ f.before = Finished
      /\ f.invalid = {} /\ f.chosen = {} /\ f.id = NULL
  BY FreshRecord, FieldValues
<1>2. /\ tx' = [tx EXCEPT ![r] = rec] /\ tx[r].pc = "idle" /\ account[u].active
      /\ UNCHANGED <<account, token>>
  BY DEF RegisterCheck
<1>3. /\ rec \in TxRecord /\ rec.op = "register" /\ rec.user = u /\ rec.before = Finished
      /\ rec.invalid = {} /\ rec.chosen = {} /\ rec.id = NULL
      /\ rec.pc = "checked" /\ rec.device = d
  <2> HIDE DEF f
  <2>1. d \in DeviceIds
    BY DEF DeviceIds
  <2> QED BY <1>1, <2>1, FieldValues DEF TxRecord
<1> HIDE DEF rec
<1>4. Alone(r) /\ tx'[r] = rec
  BY <1>2, <1>3, Updated
<1>5. Begins(r, "register")
  BY <1>2, <1>3, <1>4 DEF Begins, TypeInv, TxOK
<1>6. "register" \in AllOps \ {"none"}
  BY DEF AllOps
<1>7. TypeInv'
  BY <1>2, <1>3, <1>4, <1>5, <1>6, RestStays, BeginsKeepType
<1> QED BY <1>2, <1>3, <1>4, <1>5, <1>7

\* The row of a device, which is one at most.
LEMMA OneRow ==
  ASSUME TypeInv, NEW d \in Devices, NEW t \in TokensOf(d)
  PROVE  t \in Tokens /\ TokensOf(d) = {t} /\ token[t].device = d /\ token[t].owner \in Users
BY DEF TypeInv, TokensOK, TokenOK, TokensOf, TokenRow

LEMMA RegisterFindStep ==
  ASSUME TypeInv, NEW r \in Requests, RegisterFind(r), UNCHANGED inbox
  PROVE  /\ TypeInv' /\ Alone(r) /\ Goes(r) /\ At(r, "register", "checked")
         /\ tx'[r].pc = "found" /\ UNCHANGED <<account, token>>
         /\ \/ TokensOf(tx[r].device) = {} /\ tx'[r].id = NULL
            \/ /\ TokensOf(tx[r].device) = {tx'[r].id} /\ tx'[r].id # NULL
               /\ tx'[r].read = token[tx'[r].id]
<1> DEFINE f == tx[r]
<1>1. /\ f \in TxRecord /\ f.op = "register" /\ f.pc = "checked" /\ f.device \in Devices
      /\ f.id = NULL /\ f.invalid = {} /\ f.chosen = {}
      /\ UNCHANGED <<account, token>>
  BY DEF RegisterFind, At, TypeInv, TxOK
<1>2. CASE TokensOf(tx[r].device) = {}
  <2> DEFINE rec == [f EXCEPT !.pc = "found"]
  <2>1. tx' = [tx EXCEPT ![r] = rec]
    BY <1>2 DEF RegisterFind
  <2>2. /\ rec \in TxRecord /\ rec.pc = "found" /\ rec.op = f.op /\ rec.before = f.before
        /\ rec.user = f.user /\ rec.device = f.device /\ rec.patch = f.patch /\ rec.type = f.type
        /\ rec.users = f.users /\ rec.there = f.there /\ rec.filtered = f.filtered
        /\ rec.id = f.id /\ rec.invalid = f.invalid /\ rec.chosen = f.chosen
    <3> HIDE DEF f
    <3> QED BY <1>1, FieldValues DEF TxRecord
  <2> HIDE DEF rec
  <2>3. Alone(r) /\ tx'[r] = rec
    BY <2>1, <2>2, Updated
  <2>4. Goes(r)
    BY <1>1, <2>2, <2>3 DEF Goes
  <2>5. TypeInv'
    BY <1>1, <2>2, <2>3, <2>4, RestStays, GoesKeepType
  <2> QED BY <1>1, <1>2, <2>2, <2>3, <2>4, <2>5 DEF At
<1>3. CASE TokensOf(tx[r].device) # {}
  <2>1. PICK t \in TokensOf(tx[r].device) :
          tx' = [tx EXCEPT ![r] = [f EXCEPT !.pc = "found", !.id = t, !.read = token[t]]]
    BY <1>3 DEF RegisterFind
  <2> DEFINE rec == [f EXCEPT !.pc = "found", !.id = t, !.read = token[t]]
  <2>2. /\ t \in Tokens /\ TokensOf(f.device) = {t} /\ token[t].device = f.device
        /\ token[t].owner \in Users /\ token[t] \in TokenRow
    BY <1>1, OneRow DEF TypeInv, TokensOK
  <2>3. /\ rec \in TxRecord /\ rec.pc = "found" /\ rec.op = f.op /\ rec.before = f.before
        /\ rec.user = f.user /\ rec.device = f.device /\ rec.patch = f.patch /\ rec.type = f.type
        /\ rec.users = f.users /\ rec.there = f.there /\ rec.filtered = f.filtered
        /\ rec.id = t /\ rec.read = token[t] /\ rec.invalid = f.invalid /\ rec.chosen = f.chosen
    <3> HIDE DEF f
    <3>1. t \in TokenIds /\ token[t] \in ReadRows
      BY <2>2 DEF TokenIds, ReadRows
    <3> QED BY <1>1, <3>1, FieldValues DEF TxRecord
  <2> HIDE DEF rec
  <2>4. Alone(r) /\ tx'[r] = rec
    BY <2>1, <2>3, Updated DEF rec
  <2>5. Goes(r)
    BY <1>1, <2>3, <2>4 DEF Goes
  <2>6. FoundOK(r)'
    BY <1>1, <2>2, <2>3, <2>4 DEF FoundOK
  <2>7. TypeInv'
    BY <1>1, <2>3, <2>4, <2>5, <2>6, RestStays, GoesKeepType
  <2>8. t # NULL
    BY <2>2
  <2> QED BY <1>1, <2>2, <2>3, <2>4, <2>5, <2>7, <2>8 DEF At
<1> QED BY <1>2, <1>3

LEMMA RegisterUpdatesStep ==
  ASSUME TypeInv, NEW r \in Requests, RegisterUpdates(r), UNCHANGED inbox
  PROVE  /\ TypeInv' /\ Alone(r) /\ Goes(r) /\ At(r, "register", "found") /\ FoundOK(r)
         /\ tx'[r].pc = "done" /\ tx'[r].result = "ok" /\ tx[r].id # NULL /\ UNCHANGED account
         /\ tx'[r].chosen = tx[r].chosen /\ tx'[r].invalid = tx[r].invalid
         /\ \A t \in Tokens \ {tx[r].id} : token'[t] = token[t]
         /\ token'[tx[r].id].device = token[tx[r].id].device
         /\ token'[tx[r].id].deleted = token[tx[r].id].deleted
         /\ token'[tx[r].id].owner = IF tx[r].user # tx[r].read.owner THEN tx[r].user
                                     ELSE token[tx[r].id].owner
         /\ token'[tx[r].id].active = IF tx[r].read.active THEN token[tx[r].id].active ELSE TRUE
<1> DEFINE t0 == tx[r].id
<1>1. /\ At(r, "register", "found") /\ FoundOK(r) /\ tx[r].id # NULL /\ UNCHANGED account
      /\ tx[r].pc \notin {"idle", "done"} /\ Ends(r, "ok") /\ "ok" \in Results
      /\ token' = [token EXCEPT ![t0] = Registered(token[t0], r)]
      /\ tx[r].user \in Users
  BY FieldValues DEF RegisterUpdates, At, TypeInv, TxOK
<1>2. /\ Alone(r) /\ Goes(r) /\ tx'[r].pc = "done" /\ tx'[r].result = "ok"
      /\ tx'[r].chosen = tx[r].chosen /\ tx'[r].invalid = tx[r].invalid
  BY <1>1, Ended
<1>3. /\ t0 \in Tokens /\ token \in [Tokens -> TokenRow] /\ token[t0].owner \in Users
      /\ token[t0] \in TokenRow
  BY <1>1 DEF FoundOK, TypeInv, TokensOK
<1> DEFINE row == Registered(token[t0], r)
<1>4. /\ row \in TokenRow /\ row.device = token[t0].device /\ row.deleted = token[t0].deleted
      /\ row.owner = IF tx[r].user # tx[r].read.owner THEN tx[r].user ELSE token[t0].owner
      /\ row.active = IF tx[r].read.active THEN token[t0].active ELSE TRUE
      /\ row.owner \in Users
  BY <1>1, <1>3 DEF Registered, TokenRow
<1>5. token' = [token EXCEPT ![t0] = row]
  BY <1>1
<1> HIDE DEF row
<1>6. /\ \A t \in Tokens \ {t0} : token'[t] = token[t]
      /\ token'[t0] = row
      /\ token' \in [Tokens -> TokenRow]
  BY <1>3, <1>4, <1>5
<1>7. TokensOK'
  <2>1. \A t \in Tokens : TokenOK(t)'
    BY <1>3, <1>4, <1>6 DEF TypeInv, TokensOK, TokenOK
  <2>2. \A t \in Tokens : token'[t].device = token[t].device
    BY <1>4, <1>6
  <2>3. \A s, t \in Tokens : token'[s].device = token'[t].device /\ token'[s].device # NULL => s = t
    BY <2>2 DEF TypeInv, TokensOK
  <2>4. Existing' = Existing
    BY <1>3, <1>4, <1>6 DEF Existing
  <2> QED BY <1>6, <2>1, <2>3, <2>4 DEF TypeInv, TokensOK
<1>8. \A s \in Requests \ {r} : TxOK(s)'
  <2>1. /\ \A t \in Tokens \ {r} : token[t].owner = NULL => token'[t].owner = NULL
        /\ \A t \in Tokens : token[t].owner \in Users =>
             token'[t].owner \in Users /\ token'[t].device \in {token[t].device, NULL}
    BY <1>3, <1>4, <1>6
  <2> QED BY <1>1, <1>2, <2>1, OthersKeepType
<1>9. TxOK(r)'
  <2>1. Finished \subseteq Finished'
    BY <1>1, <1>2 DEF Finished, Alone
  <2>2. tx'[r].invalid = {} /\ tx'[r].chosen = {} /\ tx[r].before \subseteq Finished
        /\ tx[r].device \in Devices
    BY <1>1, <1>2 DEF TypeInv, TxOK, At
  <2> QED BY <1>1, <1>2, <2>1, <2>2 DEF TxOK, Goes, At
<1>10. TypeInv'
  BY <1>1, <1>2, <1>7, <1>8, <1>9, RestStays, TypeInvFrom
<1> QED BY <1>1, <1>2, <1>4, <1>6, <1>10

LEMMA RegisterInsertsStep ==
  ASSUME TypeInv, NEW r \in Requests, RegisterInserts(r), UNCHANGED inbox
  PROVE  /\ TypeInv' /\ Alone(r) /\ Goes(r) /\ At(r, "register", "found")
         /\ tx'[r].pc = "done" /\ tx[r].id = NULL /\ UNCHANGED account
         /\ tx'[r].chosen = tx[r].chosen /\ tx'[r].invalid = tx[r].invalid
         /\ \/ /\ tx'[r].result = "ok" /\ TokensOf(tx[r].device) = {}
               /\ token[r].owner = NULL /\ token'[r].owner = tx[r].user
               /\ token'[r].device = tx[r].device /\ token'[r].active /\ ~token'[r].deleted
               /\ \A t \in Tokens \ {r} : token'[t] = token[t]
            \/ tx'[r].result = "failed" /\ TokensOf(tx[r].device) # {} /\ UNCHANGED token
<1>1. /\ At(r, "register", "found") /\ tx[r].id = NULL /\ UNCHANGED account
      /\ tx[r].pc \notin {"idle", "done"} /\ {"ok", "failed"} \subseteq Results
      /\ tx[r].user \in Users /\ tx[r].device \in Devices /\ token[r].owner = NULL /\ r \in Tokens
      /\ tx[r].before \subseteq Finished /\ tx[r].invalid = {} /\ tx[r].chosen = {}
  BY FieldValues DEF RegisterInserts, At, TypeInv, TxOK, Tokens
<1>2. CASE TokensOf(tx[r].device) = {}
  <2> DEFINE row == [owner |-> tx[r].user, device |-> tx[r].device, active |-> TRUE,
                     deleted |-> FALSE]
  <2>1. token' = [token EXCEPT ![r] = row] /\ Ends(r, "ok")
    BY <1>2 DEF RegisterInserts
  <2>2. /\ Alone(r) /\ Goes(r) /\ tx'[r].pc = "done" /\ tx'[r].result = "ok"
        /\ tx'[r].chosen = tx[r].chosen /\ tx'[r].invalid = tx[r].invalid
    BY <1>1, <2>1, Ended
  <2>3. /\ row \in TokenRow /\ row.owner = tx[r].user /\ row.device = tx[r].device /\ row.active
        /\ ~row.deleted
    BY <1>1 DEF TokenRow
  <2> HIDE DEF row
  <2>4. /\ \A t \in Tokens \ {r} : token'[t] = token[t]
        /\ token'[r] = row /\ token' \in [Tokens -> TokenRow]
    BY <1>1, <2>1, <2>3 DEF TypeInv, TokensOK
  <2>5. TokensOK'
    <3>1. \A t \in Tokens : TokenOK(t)'
      BY <1>1, <2>3, <2>4 DEF TypeInv, TokensOK, TokenOK
    <3>2. \A s, t \in Tokens :
            token'[s].device = token'[t].device /\ token'[s].device # NULL => s = t
      BY <1>2, <2>3, <2>4 DEF TypeInv, TokensOK, TokensOf
    <3>3. Existing' = Existing \cup {r}
      BY <1>1, <2>3, <2>4 DEF Existing
    <3>4. IsFiniteSet(Existing')
      BY <3>3, FS_AddElement DEF TypeInv, TokensOK
    <3> QED BY <2>4, <3>1, <3>2, <3>4 DEF TokensOK
  <2>6. \A s \in Requests \ {r} : TxOK(s)'
    <3>1. /\ \A t \in Tokens \ {r} : token[t].owner = NULL => token'[t].owner = NULL
          /\ \A t \in Tokens : token[t].owner \in Users =>
               token'[t].owner \in Users /\ token'[t].device \in {token[t].device, NULL}
      BY <1>1, <2>4
    <3> QED BY <1>1, <2>2, <3>1, OthersKeepType
  <2>7. TxOK(r)'
    <3>1. Finished \subseteq Finished'
      BY <1>1, <2>2 DEF Finished, Alone
    <3> QED BY <1>1, <2>2, <3>1 DEF TxOK, Goes, At
  <2>8. TypeInv'
    BY <1>1, <2>2, <2>5, <2>6, <2>7, RestStays, TypeInvFrom
  <2> QED BY <1>1, <1>2, <2>2, <2>3, <2>4, <2>8
<1>3. CASE TokensOf(tx[r].device) # {}
  <2>1. Ends(r, "failed") /\ UNCHANGED token
    BY <1>3 DEF RegisterInserts
  <2>2. /\ Alone(r) /\ Goes(r) /\ tx'[r].pc = "done" /\ tx'[r].result = "failed"
        /\ tx'[r].chosen = tx[r].chosen /\ tx'[r].invalid = tx[r].invalid
    BY <1>1, <2>1, Ended
  <2>3. TypeInv'
    BY <1>1, <2>1, <2>2, RestStays, GoesKeepType DEF At
  <2> QED BY <1>1, <1>3, <2>1, <2>2, <2>3
<1> QED BY <1>2, <1>3

LEMMA SettingsCheckStep ==
  ASSUME TypeInv, NEW r \in Requests, NEW u \in Users, NEW patch \in Patches,
         SettingsCheck(r, u, patch), UNCHANGED inbox
  PROVE  /\ TypeInv' /\ Alone(r) /\ Begins(r, "settings") /\ tx'[r].pc = "checked"
         /\ tx'[r].user = u /\ tx'[r].patch = patch /\ tx'[r].had = account[u].on
         /\ UNCHANGED <<account, token>>
<1> DEFINE f == Fresh("settings", u)
           on == account[u].on
           rec == [f EXCEPT !.pc = "checked", !.patch = patch, !.had = on]
<1>1. /\ f \in TxRecord /\ f.op = "settings" /\ f.user = u /\ f.before = Finished
      /\ f.invalid = {} /\ f.chosen = {}
  BY FreshRecord, FieldValues
<1>2. /\ tx' = [tx EXCEPT ![r] = rec] /\ tx[r].pc = "idle"
      /\ UNCHANGED <<account, token>>
  BY DEF SettingsCheck
<1>3. on \subseteq Toggles
  BY DEF TypeInv, AccountsOK, AccountRow
<1>4. /\ rec \in TxRecord /\ rec.op = "settings" /\ rec.user = u /\ rec.before = Finished
      /\ rec.invalid = {} /\ rec.chosen = {} /\ rec.pc = "checked" /\ rec.patch = patch
      /\ rec.had = on
  <2> HIDE DEF f, on
  <2>1. patch \in PatchBodies /\ on \in HadSets
    BY <1>3 DEF PatchBodies, HadSets
  <2> QED BY <1>1, <2>1, FieldValues DEF TxRecord
<1> HIDE DEF rec
<1>5. Alone(r) /\ tx'[r] = rec
  BY <1>2, <1>4, Updated
<1>6. Begins(r, "settings")
  BY <1>2, <1>4, <1>5 DEF Begins, TypeInv, TxOK
<1>7. "settings" \in AllOps \ {"none"}
  BY DEF AllOps
<1>8. TypeInv'
  BY <1>2, <1>4, <1>5, <1>6, <1>7, RestStays, BeginsKeepType
<1> QED BY <1>2, <1>4, <1>5, <1>6, <1>8

LEMMA SettingsCommitStep ==
  ASSUME TypeInv, NEW r \in Requests, SettingsCommit(r), UNCHANGED inbox
  PROVE  /\ TypeInv' /\ Alone(r) /\ Goes(r) /\ At(r, "settings", "checked")
         /\ tx'[r].pc = "done" /\ tx'[r].result = "ok" /\ UNCHANGED token
         /\ tx[r].user \in Users /\ tx[r].patch \in Patches
         /\ tx'[r].chosen = tx[r].chosen /\ tx'[r].invalid = tx[r].invalid
         /\ account'[tx[r].user].on = Switched(account[tx[r].user].on, r)
         /\ account'[tx[r].user].active = account[tx[r].user].active
         /\ \A u \in Users \ {tx[r].user} : account'[u] = account[u]
<1> DEFINE u0 == tx[r].user
           on == Switched(account[u0].on, r)
<1>1. /\ At(r, "settings", "checked") /\ UNCHANGED token /\ Ends(r, "ok") /\ "ok" \in Results
      /\ tx[r].pc \notin {"idle", "done"} /\ u0 \in Users /\ tx[r].patch \in Patches
      /\ account' = [account EXCEPT ![u0].on = on]
      /\ tx[r].invalid = {} /\ tx[r].chosen = {}
  BY FieldValues DEF SettingsCommit, At, TypeInv, TxOK
<1>2. /\ Alone(r) /\ Goes(r) /\ tx'[r].pc = "done" /\ tx'[r].result = "ok"
      /\ tx'[r].chosen = tx[r].chosen /\ tx'[r].invalid = tx[r].invalid
  BY <1>1, Ended
<1>3. on \subseteq Toggles
  BY DEF Switched
<1> HIDE DEF on
<1>4. /\ account'[u0].on = on /\ account'[u0].active = account[u0].active
      /\ \A u \in Users \ {u0} : account'[u] = account[u]
      /\ AccountsOK'
  BY <1>1, <1>3 DEF TypeInv, AccountsOK, AccountRow
<1>5. TypeInv'
  BY <1>1, <1>2, <1>4, RestStays, GoesKeepType DEF At
<1> QED BY <1>1, <1>2, <1>4, <1>5 DEF on

\* The rows that a dispatch finds are those of devices.
LEMMA ActiveRows ==
  ASSUME TypeInv, NEW users, NEW type
  PROVE  FindActiveTokenRows(users, type) \subseteq Users \X Devices
<1> SUFFICES ASSUME NEW t \in Tokens, token[t].active, ~token[t].deleted
             PROVE  token[t].owner \in Users /\ token[t].device \in Devices
  BY DEF FindActiveTokenRows
<1> QED BY DEF TypeInv, TokensOK, TokenOK, TokenRow

LEMMA DispatchSkipsStep ==
  ASSUME TypeInv, NEW r \in Requests, DispatchSkips(r), UNCHANGED inbox
  PROVE  /\ TypeInv' /\ Alone(r) /\ Goes(r) /\ At(r, "notify", "committed")
         /\ tx'[r].pc = "done" /\ tx'[r].chosen = {} /\ tx'[r].invalid = {}
         /\ FindActiveTokenRows(tx[r].users, tx[r].type) = {} \/ ~PushEnabled
         /\ UNCHANGED <<account, token>>
<1>1. /\ At(r, "notify", "committed") /\ UNCHANGED <<account, token>> /\ Ends(r, "SKIPPED")
      /\ "SKIPPED" \in Results /\ tx[r].pc \notin {"idle", "done"}
      /\ FindActiveTokenRows(tx[r].users, tx[r].type) = {} \/ ~PushEnabled
      /\ tx[r].invalid = {} /\ tx[r].chosen = {}
  BY FieldValues DEF DispatchSkips, At, TypeInv, TxOK
<1>2. /\ Alone(r) /\ Goes(r) /\ tx'[r].pc = "done"
      /\ tx'[r].chosen = tx[r].chosen /\ tx'[r].invalid = tx[r].invalid
  BY <1>1, Ended
<1>3. TypeInv'
  BY <1>1, <1>2, RestStays, GoesKeepType DEF At
<1> QED BY <1>1, <1>2, <1>3

LEMMA DispatchFailsStep ==
  ASSUME TypeInv, NEW r \in Requests, DispatchFails(r), UNCHANGED inbox
  PROVE  /\ TypeInv' /\ Alone(r) /\ Goes(r) /\ At(r, "notify", "committed")
         /\ tx'[r].pc = "done" /\ tx'[r].result = "FAILED"
         /\ tx'[r].chosen = {} /\ tx'[r].invalid = {}
         /\ UNCHANGED <<account, token>>
<1>1. /\ At(r, "notify", "committed") /\ UNCHANGED <<account, token>> /\ Ends(r, "FAILED")
      /\ "FAILED" \in Results /\ tx[r].pc \notin {"idle", "done"}
      /\ tx[r].invalid = {} /\ tx[r].chosen = {}
  BY FieldValues DEF DispatchFails, At, TypeInv, TxOK
<1>2. /\ Alone(r) /\ Goes(r) /\ tx'[r].pc = "done" /\ tx'[r].result = "FAILED"
      /\ tx'[r].chosen = tx[r].chosen /\ tx'[r].invalid = tx[r].invalid
  BY <1>1, Ended
<1>3. TypeInv'
  BY <1>1, <1>2, RestStays, GoesKeepType DEF At
<1> QED BY <1>1, <1>2, <1>3

LEMMA DispatchSelectsStep ==
  ASSUME TypeInv, NEW r \in Requests, DispatchSelects(r), UNCHANGED inbox
  PROVE  /\ TypeInv' /\ Alone(r) /\ Goes(r) /\ At(r, "notify", "committed")
         /\ tx'[r].pc = "sending" /\ tx'[r].invalid = {}
         /\ tx'[r].chosen = FindActiveTokenRows(tx[r].users, tx[r].type)
         /\ UNCHANGED <<account, token>>
<1> DEFINE f == tx[r]
           rows == FindActiveTokenRows(tx[r].users, tx[r].type)
           rec == [f EXCEPT !.pc = "sending", !.chosen = rows, !.todo = rows]
<1>1. /\ f \in TxRecord /\ f.op = "notify" /\ f.pc = "committed" /\ f.invalid = {}
      /\ At(r, "notify", "committed") /\ UNCHANGED <<account, token>>
      /\ tx' = [tx EXCEPT ![r] = rec]
  BY DEF DispatchSelects, At, TypeInv, TxOK
<1>2. rows \subseteq Users \X Devices
  BY ActiveRows
<1>3. /\ rec \in TxRecord /\ rec.pc = "sending" /\ rec.op = f.op /\ rec.before = f.before
      /\ rec.user = f.user /\ rec.device = f.device /\ rec.patch = f.patch /\ rec.type = f.type
      /\ rec.users = f.users /\ rec.there = f.there /\ rec.filtered = f.filtered
      /\ rec.chosen = rows /\ rec.todo = rows /\ rec.invalid = f.invalid
  <2> HIDE DEF f, rows
  <2>1. rows \in TargetSets /\ rows \in TodoSets
    BY <1>2 DEF TargetSets, TodoSets
  <2> QED BY <1>1, <2>1, FieldValues DEF TxRecord
<1> HIDE DEF rec, rows
<1>4. Alone(r) /\ tx'[r] = rec
  BY <1>1, <1>3, Updated
<1>5. Goes(r)
  BY <1>1, <1>3, <1>4 DEF Goes
<1>6. TypeInv'
  BY <1>1, <1>3, <1>4, <1>5, RestStays, GoesKeepType
<1> QED BY <1>1, <1>3, <1>4, <1>5, <1>6 DEF rows

LEMMA SendStep ==
  ASSUME TypeInv, NEW r \in Requests, NEW target \in tx[r].todo, NEW answer,
         Send(r, target, answer), UNCHANGED inbox
  PROVE  /\ TypeInv' /\ Alone(r) /\ Goes(r) /\ At(r, "notify", "sending")
         /\ tx'[r].pc = "sending" /\ tx'[r].chosen = tx[r].chosen
         /\ UNCHANGED <<account, token>>
<1> DEFINE f == tx[r]
           todo == f.todo \ {target}
           sent == IF answer = "taken" THEN f.sent + 1 ELSE f.sent
           invalid == IF answer = "unregistered" THEN f.invalid \cup {target[2]} ELSE f.invalid
           rec == [f EXCEPT !.todo = todo, !.sent = sent, !.invalid = invalid]
<1>1. /\ f \in TxRecord /\ f.op = "notify" /\ f.pc = "sending" /\ f.todo \subseteq f.chosen
      /\ At(r, "notify", "sending") /\ UNCHANGED <<account, token>>
      /\ tx \in [Requests -> TxRecord]
  BY DEF Send, At, TypeInv, TxOK
<1>2. tx' = [tx EXCEPT ![r] = rec]
  BY <1>1 DEF Send
<1>3. /\ todo \in TodoSets /\ todo \subseteq f.chosen /\ sent \in Nat /\ invalid \in DeviceSets
      /\ f.invalid \subseteq invalid
  <2> HIDE DEF f
  <2>1. /\ f.todo \in TodoSets /\ f.chosen \in TargetSets /\ f.sent \in Nat
        /\ f.invalid \in DeviceSets
    BY <1>1 DEF TxRecord
  <2>2. target \in Users \X Devices
    BY <1>1, <2>1 DEF TargetSets, f
  <2>3. target[2] \in Devices
    BY <2>2
  <2> QED BY <1>1, <2>1, <2>3 DEF TodoSets, DeviceSets
<1>4. /\ rec \in TxRecord /\ rec.pc = f.pc /\ rec.op = f.op /\ rec.before = f.before
      /\ rec.user = f.user /\ rec.device = f.device /\ rec.patch = f.patch /\ rec.type = f.type
      /\ rec.users = f.users /\ rec.there = f.there /\ rec.filtered = f.filtered
      /\ rec.chosen = f.chosen /\ rec.todo = todo /\ rec.invalid = invalid
  <2> HIDE DEF f, todo, sent, invalid
  <2> QED BY <1>1, <1>3, FieldValues DEF TxRecord
<1> HIDE DEF rec, todo, invalid
<1>5. Alone(r) /\ tx'[r] = rec
  BY <1>2, <1>4, Updated
<1>6. Goes(r)
  BY <1>1, <1>3, <1>4, <1>5 DEF Goes
<1>7. TypeInv'
  BY <1>1, <1>3, <1>4, <1>5, <1>6, RestStays, GoesKeepType
<1> QED BY <1>1, <1>4, <1>5, <1>6, <1>7

LEMMA DispatchEndsStep ==
  ASSUME TypeInv, NEW r \in Requests, DispatchEnds(r), UNCHANGED inbox
  PROVE  /\ TypeInv' /\ Alone(r) /\ Goes(r) /\ At(r, "notify", "sending")
         /\ tx'[r].pc = "done" /\ UNCHANGED account
         /\ tx'[r].chosen = tx[r].chosen /\ tx'[r].invalid = tx[r].invalid
         /\ \A t \in Tokens :
              /\ token'[t].owner = token[t].owner /\ token'[t].device = token[t].device
              /\ token'[t].deleted = token[t].deleted
              /\ token'[t].active <=> token[t].active /\ token[t].device \notin tx[r].invalid
<1> DEFINE f == tx[r]
           result == SummaryStatus(f.sent, Cardinality(f.chosen) - f.sent)
           rec == [f EXCEPT !.pc = "done", !.result = result]
<1>1. /\ f \in TxRecord /\ f.op = "notify" /\ f.pc = "sending"
      /\ At(r, "notify", "sending") /\ UNCHANGED account
      /\ tx' = [tx EXCEPT ![r] = rec] /\ token' = Deactivated(f.invalid)
      /\ f.before \subseteq Finished
  BY DEF DispatchEnds, At, TypeInv, TxOK
<1>2. result \in Results
  BY FieldValues DEF SummaryStatus
<1>3. /\ rec \in TxRecord /\ rec.pc = "done" /\ rec.op = f.op /\ rec.before = f.before
      /\ rec.user = f.user /\ rec.device = f.device /\ rec.patch = f.patch /\ rec.type = f.type
      /\ rec.users = f.users /\ rec.there = f.there /\ rec.filtered = f.filtered
      /\ rec.chosen = f.chosen /\ rec.invalid = f.invalid
  <2> HIDE DEF f, result
  <2> QED BY <1>1, <1>2, FieldValues DEF TxRecord
<1> HIDE DEF rec
<1>4. Alone(r) /\ tx'[r] = rec
  BY <1>1, <1>3, Updated
<1>5. Goes(r)
  BY <1>1, <1>3, <1>4 DEF Goes
<1>6. /\ token \in [Tokens -> TokenRow] /\ token' \in [Tokens -> TokenRow]
      /\ \A t \in Tokens :
           /\ token'[t].owner = token[t].owner /\ token'[t].device = token[t].device
           /\ token'[t].deleted = token[t].deleted
           /\ token'[t].active <=> token[t].active /\ token[t].device \notin f.invalid
  <2>1. token \in [Tokens -> TokenRow]
    BY DEF TypeInv, TokensOK
  <2>2. \A t \in Tokens : token'[t] = IF token[t].device \in f.invalid
                                        THEN [token[t] EXCEPT !.active = FALSE] ELSE token[t]
    BY <1>1 DEF Deactivated
  <2>3. token' = [t \in Tokens |-> token'[t]]
    BY <1>1 DEF Deactivated
  <2> HIDE DEF f
  <2>4. \A t \in Tokens :
          /\ token'[t] \in TokenRow
          /\ token'[t].owner = token[t].owner /\ token'[t].device = token[t].device
          /\ token'[t].deleted = token[t].deleted
          /\ token'[t].active <=> token[t].active /\ token[t].device \notin f.invalid
    <3> TAKE t \in Tokens
    <3>1. token[t] \in TokenRow
      BY <2>1
    <3>2. CASE token[t].device \in f.invalid
      <4> DEFINE row == [token[t] EXCEPT !.active = FALSE]
      <4>1. token'[t] = row
        BY <2>2, <3>2
      <4>2. /\ row \in TokenRow /\ row.owner = token[t].owner /\ row.device = token[t].device
            /\ row.deleted = token[t].deleted /\ ~row.active
        BY <3>1 DEF TokenRow
      <4> HIDE DEF row
      <4> QED BY <3>2, <4>1, <4>2
    <3>3. CASE token[t].device \notin f.invalid
      <4>1. token'[t] = token[t]
        BY <2>2, <3>3
      <4> QED BY <3>1, <3>3, <4>1
    <3> QED BY <3>2, <3>3
  <2>5. token' \in [Tokens -> TokenRow]
    BY <2>3, <2>4
  <2> QED BY <2>1, <2>4, <2>5
<1>7. TokensOK'
  <2>1. \A t \in Tokens : TokenOK(t)'
    BY <1>6 DEF TypeInv, TokensOK, TokenOK
  <2>2. \A s, t \in Tokens : token'[s].device = token'[t].device /\ token'[s].device # NULL => s = t
    BY <1>6 DEF TypeInv, TokensOK
  <2>3. Existing' = Existing
    BY <1>6 DEF Existing
  <2> QED BY <1>6, <2>1, <2>2, <2>3 DEF TypeInv, TokensOK
<1>8. \A s \in Requests \ {r} : TxOK(s)'
  <2>1. /\ \A t \in Tokens \ {r} : token[t].owner = NULL => token'[t].owner = NULL
        /\ \A t \in Tokens : token[t].owner \in Users =>
             token'[t].owner \in Users /\ token'[t].device \in {token[t].device, NULL}
    BY <1>6
  <2> QED BY <1>1, <1>4, <2>1, OthersKeepType
<1>9. TxOK(r)'
  <2>1. Finished \subseteq Finished'
    BY <1>1, <1>4 DEF Finished, Alone
  <2>2. token'[r].owner = NULL /\ f.type \in Types /\ f.device \in Users \cup {NULL}
    BY <1>1, <1>6 DEF TypeInv, TxOK, Tokens
  <2> QED BY <1>1, <1>3, <1>4, <1>5, <2>1, <2>2 DEF TxOK
<1>10. TypeInv'
  BY <1>1, <1>4, <1>7, <1>8, <1>9, RestStays, TypeInvFrom
<1> QED BY <1>1, <1>3, <1>4, <1>5, <1>6, <1>10

LEMMA NotesFrom ==
  ASSUME TypeInv, NEW r \in Requests, note' \in [Batches -> [Users -> NoteStates]],
         order' \in Seq(Batches), Notified' \subseteq Notified \cup {r}
  PROVE  NotesOK'
<1>1. IsFiniteSet(Notified \cup {r})
  BY FS_AddElement DEF TypeInv, NotesOK
<1>2. IsFiniteSet(Notified')
  BY <1>1, FS_Subset
<1> QED BY <1>2 DEF NotesOK

LEMMA NotifyBeginStep ==
  ASSUME TypeInv, NEW r \in Requests, NEW o \in Occasions,
         NotifyBegin(r, o.type, o.users, o.voter)
  PROVE  /\ TypeInv' /\ Alone(r) /\ Begins(r, "notify") /\ tx'[r].pc = "writing"
         /\ tx'[r].users = {u \in o.users : account[u].active} /\ tx'[r].type = o.type
         /\ tx'[r].device = o.voter /\ o.voter # NULL => account[o.voter].active
         /\ order' = <<r>> \o order /\ UNCHANGED <<account, token, note>>
<1> DEFINE f == Fresh("notify", NULL)
           members == {u \in o.users : account[u].active}
           rec == [f EXCEPT !.pc = "writing", !.users = members, !.type = o.type,
                            !.device = o.voter]
<1>1. /\ f \in TxRecord /\ f.op = "notify" /\ f.before = Finished
      /\ f.invalid = {} /\ f.chosen = {}
  BY FreshRecord, FieldValues
<1>2. /\ tx' = [tx EXCEPT ![r] = rec] /\ tx[r].pc = "idle"
      /\ UNCHANGED <<account, token, note>> /\ order' = <<r>> \o order
      /\ o.voter # NULL => account[o.voter].active
  BY DEF NotifyBegin
<1>3. o.type \in Types /\ members \subseteq Users /\ o.voter \in Users \cup {NULL}
  BY OccasionsNotify
<1>4. /\ rec \in TxRecord /\ rec.op = "notify" /\ rec.before = Finished
      /\ rec.invalid = {} /\ rec.chosen = {} /\ rec.pc = "writing"
      /\ rec.users = members /\ rec.type = o.type /\ rec.device = o.voter
  <2> HIDE DEF f, members
  <2>1. members \in UserSets /\ o.type \in TypeNames /\ o.voter \in DeviceIds
    BY <1>3 DEF UserSets, TypeNames, DeviceIds
  <2> QED BY <1>1, <2>1, FieldValues DEF TxRecord
<1> HIDE DEF rec
<1>5. Alone(r) /\ tx'[r] = rec
  BY <1>2, <1>4, Updated
<1>6. Begins(r, "notify")
  BY <1>2, <1>4, <1>5 DEF Begins, TypeInv, TxOK
<1>7. "notify" \in AllOps \ {"none"}
  BY DEF AllOps
<1>8. NotesOK'
  <2>1. order \in Seq(Batches) /\ r \in Batches /\ note \in [Batches -> [Users -> NoteStates]]
    BY DEF TypeInv, NotesOK, Batches
  <2>2. order' \in Seq(Batches)
    BY <1>2, <2>1
  <2>3. Notified' = Notified
    BY <1>2 DEF Notified
  <2> QED BY <1>2, <2>1, <2>2, <2>3, NotesFrom
<1>9. TypeInv'
  BY <1>2, <1>3, <1>4, <1>5, <1>6, <1>7, <1>8, BeginsKeepType
<1> QED BY <1>2, <1>4, <1>5, <1>6, <1>9

LEMMA NotifyCommitStep ==
  ASSUME TypeInv, NEW r \in Requests, NotifyCommit(r)
  PROVE  /\ TypeInv' /\ Alone(r) /\ Goes(r) /\ At(r, "notify", "writing")
         /\ tx'[r].pc = "committed" /\ tx'[r].chosen = {} /\ tx'[r].invalid = {}
         /\ UNCHANGED <<account, token, order>>
         /\ \A b \in Batches \ {r} : note'[b] = note[b]
         /\ \A u \in Users : note'[r][u] = IF u \in tx[r].users THEN "unread" ELSE note[r][u]
<1> DEFINE f == tx[r]
           rec == [f EXCEPT !.pc = "committed"]
           row == [u \in Users |-> IF u \in tx[r].users THEN "unread" ELSE note[r][u]]
<1>1. /\ f \in TxRecord /\ f.op = "notify" /\ f.pc = "writing" /\ At(r, "notify", "writing")
      /\ f.invalid = {} /\ f.chosen = {}
      /\ UNCHANGED <<account, token, order>>
      /\ tx' = [tx EXCEPT ![r] = rec] /\ note' = [note EXCEPT ![r] = row]
      /\ note \in [Batches -> [Users -> NoteStates]] /\ order \in Seq(Batches) /\ r \in Batches
  BY DEF NotifyCommit, At, TypeInv, TxOK, NotesOK, Batches
<1>2. /\ rec \in TxRecord /\ rec.pc = "committed" /\ rec.op = f.op /\ rec.before = f.before
      /\ rec.user = f.user /\ rec.device = f.device /\ rec.patch = f.patch /\ rec.type = f.type
      /\ rec.users = f.users /\ rec.there = f.there /\ rec.filtered = f.filtered
      /\ rec.chosen = f.chosen /\ rec.invalid = f.invalid
  <2> HIDE DEF f
  <2> QED BY <1>1, FieldValues DEF TxRecord
<1>3. row \in [Users -> NoteStates]
  BY <1>1 DEF NoteStates
<1>4. \A u \in Users : row[u] = IF u \in tx[r].users THEN "unread" ELSE note[r][u]
  OBVIOUS
<1> HIDE DEF rec, row
<1>5. /\ note' \in [Batches -> [Users -> NoteStates]] /\ note'[r] = row
      /\ \A b \in Batches \ {r} : note'[b] = note[b]
  BY <1>1, <1>3
<1>6. Alone(r) /\ tx'[r] = rec
  BY <1>1, <1>2, Updated
<1>7. Goes(r)
  BY <1>1, <1>2, <1>6 DEF Goes
<1>8. Notified' \subseteq Notified \cup {r}
  BY <1>5 DEF Notified
<1>9. NotesOK'
  BY <1>1, <1>5, <1>8, NotesFrom
<1>10. TypeInv'
  BY <1>1, <1>2, <1>6, <1>7, <1>9, RestStays, GoesKeepType
<1> QED BY <1>1, <1>2, <1>4, <1>5, <1>6, <1>7, <1>10

LEMMA NotifyFailsStep ==
  ASSUME TypeInv, NEW r \in Requests, NotifyFails(r)
  PROVE  /\ TypeInv' /\ Alone(r) /\ Goes(r) /\ At(r, "notify", "writing")
         /\ tx'[r].pc = "done" /\ tx'[r].result = "failed"
         /\ tx'[r].chosen = {} /\ tx'[r].invalid = {}
         /\ UNCHANGED <<account, token, note, order>>
<1>1. /\ At(r, "notify", "writing") /\ UNCHANGED <<account, token, note, order>>
      /\ Ends(r, "failed") /\ "failed" \in Results /\ tx[r].pc \notin {"idle", "done"}
      /\ tx[r].invalid = {} /\ tx[r].chosen = {}
  BY FieldValues DEF NotifyFails, At, TypeInv, TxOK
<1>2. /\ Alone(r) /\ Goes(r) /\ tx'[r].pc = "done" /\ tx'[r].result = "failed"
      /\ tx'[r].chosen = tx[r].chosen /\ tx'[r].invalid = tx[r].invalid
  BY <1>1, Ended
<1>3. TypeInv'
  BY <1>1, <1>2, RestStays, GoesKeepType DEF At, inbox
<1> QED BY <1>1, <1>2, <1>3

LEMMA WithdrawReadsStep ==
  ASSUME TypeInv, NEW r \in Requests, NEW u \in Users, WithdrawReads(r, u)
  PROVE  /\ TypeInv' /\ Alone(r) /\ Begins(r, "withdraw") /\ tx'[r].pc = "checked"
         /\ tx'[r].user = u /\ tx'[r].had = {t \in Tokens : token[t].owner = u}
         /\ account[u].active /\ UNCHANGED <<account, token, note, order>>
<1> DEFINE f == Fresh("withdraw", u)
           had == {t \in Tokens : token[t].owner = u}
           todo == {t \in Tokens : token[t].owner = u /\ token[t].active}
           found == {b \in Batches : note[b][u] \in {"unread", "read"}}
           rec == [f EXCEPT !.pc = "checked", !.had = had, !.todo = todo, !.there = found]
<1>1. /\ f \in TxRecord /\ f.op = "withdraw" /\ f.user = u /\ f.before = Finished
      /\ f.invalid = {} /\ f.chosen = {}
  BY FreshRecord, FieldValues
<1>2. /\ tx' = [tx EXCEPT ![r] = rec] /\ tx[r].pc = "idle" /\ account[u].active
      /\ UNCHANGED <<account, token, note, order>>
  BY DEF WithdrawReads
<1>3. had \in HadSets /\ todo \in TodoSets /\ found \in NoteSets /\ had \subseteq Existing
  BY DEF HadSets, TodoSets, NoteSets, Existing
<1>4. /\ rec \in TxRecord /\ rec.op = "withdraw" /\ rec.user = u /\ rec.before = Finished
      /\ rec.invalid = {} /\ rec.chosen = {} /\ rec.pc = "checked" /\ rec.had = had
  <2> HIDE DEF f, had, todo, found
  <2> QED BY <1>1, <1>3, FieldValues DEF TxRecord
<1> HIDE DEF rec
<1>5. Alone(r) /\ tx'[r] = rec
  BY <1>2, <1>4, Updated
<1>6. Begins(r, "withdraw")
  BY <1>2, <1>4, <1>5 DEF Begins, TypeInv, TxOK
<1>7. "withdraw" \in AllOps \ {"none"}
  BY DEF AllOps
<1>8. NotesOK'
  BY <1>2, RestStays DEF inbox
<1>9. tx'[r].user \in Users /\ tx'[r].pc = "checked" /\ tx'[r].had \subseteq Existing
  BY <1>3, <1>4, <1>5
<1>10. TypeInv'
  BY <1>2, <1>5, <1>6, <1>7, <1>8, <1>9, BeginsKeepType
<1> QED BY <1>2, <1>4, <1>5, <1>6, <1>10

\* A withdrawal writes notifications of its user only.
LEMMA DeletedNotesAre ==
  ASSUME TypeInv, NEW u \in Users, NEW found
  PROVE  /\ DeletedNotes(u, found) \in [Batches -> [Users -> NoteStates]]
         /\ \A b \in Batches :
              /\ \A v \in Users \ {u} : DeletedNotes(u, found)[b][v] = note[b][v]
              /\ DeletedNotes(u, found)[b][u] = "none" <=> note[b][u] = "none"
BY DEF DeletedNotes, TypeInv, NotesOK, NoteStates

LEMMA WithdrawCommitStep ==
  ASSUME TypeInv, NEW r \in Requests, WithdrawCommit(r)
  PROVE  /\ TypeInv' /\ Alone(r) /\ Goes(r) /\ At(r, "withdraw", "checked")
         /\ tx'[r].pc = "done" /\ tx'[r].result = "ok" /\ tx[r].user \in Users
         /\ tx'[r].chosen = tx[r].chosen /\ tx'[r].invalid = tx[r].invalid
         /\ UNCHANGED order
         /\ ~account'[tx[r].user].active
         /\ account'[tx[r].user].on = account[tx[r].user].on
         /\ \A u \in Users \ {tx[r].user} : account'[u] = account[u]
         /\ \A t \in Tokens : /\ token'[t].owner = token[t].owner
                              /\ t \in tx[r].had => token'[t].device = NULL /\ token'[t].deleted
                              /\ t \notin tx[r].had => token'[t] = token[t]
         /\ note' = DeletedNotes(tx[r].user, tx[r].there)
<1> DEFINE u0 == tx[r].user
<1>1. /\ At(r, "withdraw", "checked") /\ Ends(r, "ok") /\ UNCHANGED order
      /\ "ok" \in Results /\ tx[r].pc \notin {"idle", "done"} /\ u0 \in Users
      /\ account' = [account EXCEPT ![u0].active = FALSE]
      /\ token' = [t \in Tokens |-> IF t \in tx[r].had THEN Masked(t, r) ELSE token[t]]
      /\ note' = DeletedNotes(u0, tx[r].there)
      /\ tx[r].invalid = {} /\ tx[r].chosen = {} /\ tx[r].had \subseteq Existing
      /\ tx[r].before \subseteq Finished
  BY FieldValues DEF WithdrawCommit, At, TypeInv, TxOK
<1>2. /\ Alone(r) /\ Goes(r) /\ tx'[r].pc = "done" /\ tx'[r].result = "ok"
      /\ tx'[r].chosen = tx[r].chosen /\ tx'[r].invalid = tx[r].invalid
  BY <1>1, Ended
<1>3. /\ ~account'[u0].active /\ account'[u0].on = account[u0].on
      /\ \A u \in Users \ {u0} : account'[u] = account[u]
      /\ AccountsOK'
  <2> DEFINE row == [account[u0] EXCEPT !.active = FALSE]
  <2>1. account \in [Users -> AccountRow] /\ account[u0] \in AccountRow
    BY <1>1 DEF TypeInv, AccountsOK
  <2>2. row \in AccountRow /\ ~row.active /\ row.on = account[u0].on
    <3> HIDE DEF u0
    <3> QED BY <2>1 DEF AccountRow
  <2>3. account' = [account EXCEPT ![u0] = row]
    BY <1>1
  <2> HIDE DEF row, u0
  <2> QED BY <1>1, <2>1, <2>2, <2>3 DEF AccountsOK
<1>4. /\ token \in [Tokens -> TokenRow] /\ token' \in [Tokens -> TokenRow]
      /\ \A t \in Tokens :
           /\ token'[t].owner = token[t].owner
           /\ t \in tx[r].had => token'[t].device = NULL /\ token'[t].deleted
           /\ t \notin tx[r].had => token'[t] = token[t]
  <2>1. token \in [Tokens -> TokenRow]
    BY DEF TypeInv, TokensOK
  <2>2. \A t \in Tokens :
          /\ token'[t] \in TokenRow /\ token'[t].owner = token[t].owner
          /\ t \in tx[r].had => token'[t].device = NULL /\ token'[t].deleted
          /\ t \notin tx[r].had => token'[t] = token[t]
    <3> TAKE t \in Tokens
    <3>1. CASE t \in tx[r].had
      <4> DEFINE row == Masked(t, r)
      <4>1. token[t] \in TokenRow
        BY <2>1
      <4>2. row \in TokenRow /\ row.owner = token[t].owner /\ row.device = NULL /\ row.deleted
        BY <4>1 DEF Masked, TokenRow
      <4>3. token'[t] = row
        BY <1>1, <3>1
      <4> HIDE DEF row
      <4> QED BY <3>1, <4>2, <4>3
    <3>2. CASE t \notin tx[r].had
      BY <1>1, <2>1, <3>2
    <3> QED BY <3>1, <3>2
  <2>3. token' = [t \in Tokens |-> token'[t]]
    BY <1>1
  <2> QED BY <2>1, <2>2, <2>3
<1>5. TokensOK'
  <2>1. \A t \in Tokens : TokenOK(t)'
    BY <1>1, <1>4 DEF TypeInv, TokensOK, TokenOK, Existing
  <2>2. \A s, t \in Tokens : token'[s].device = token'[t].device /\ token'[s].device # NULL => s = t
    BY <1>4 DEF TypeInv, TokensOK
  <2>3. Existing' = Existing
    BY <1>4 DEF Existing
  <2> QED BY <1>4, <2>1, <2>2, <2>3 DEF TypeInv, TokensOK
<1>6. NotesOK'
  <2>1. note' \in [Batches -> [Users -> NoteStates]]
    BY <1>1, DeletedNotesAre
  <2>2. Notified' \subseteq Notified
    <3> SUFFICES ASSUME NEW b \in Batches, NEW u \in Users, note'[b][u] # "none"
                 PROVE  note[b][u] # "none"
      BY DEF Notified
    <3>1. note'[b][u] = DeletedNotes(u0, tx[r].there)[b][u]
      BY <1>1
    <3>2. u0 \in Users
      BY <1>1
    <3> HIDE DEF u0
    <3>3. /\ u # u0 => DeletedNotes(u0, tx[r].there)[b][u] = note[b][u]
          /\ note[b][u0] = "none" => DeletedNotes(u0, tx[r].there)[b][u0] = "none"
      BY <3>2, DeletedNotesAre
    <3> QED BY <3>1, <3>3
  <2> QED BY <1>1, <2>1, <2>2, NotesFrom DEF TypeInv, NotesOK
<1>7. \A s \in Requests \ {r} : TxOK(s)'
  <2>1. /\ \A t \in Tokens \ {r} : token[t].owner = NULL => token'[t].owner = NULL
        /\ \A t \in Tokens : token[t].owner \in Users =>
             token'[t].owner \in Users /\ token'[t].device \in {token[t].device, NULL}
    BY <1>4
  <2> QED BY <1>1, <1>2, <2>1, OthersKeepType
<1>8. TxOK(r)'
  <2>1. Finished \subseteq Finished'
    BY <1>1, <1>2 DEF Finished, Alone
  <2>2. token'[r].owner = NULL
    BY <1>1, <1>4 DEF TypeInv, TxOK, Tokens, At
  <2> QED BY <1>1, <1>2, <2>1, <2>2 DEF TxOK, Goes, At
<1>9. TypeInv'
  BY <1>2, <1>3, <1>5, <1>6, <1>7, <1>8, TypeInvFrom
<1> QED BY <1>1, <1>2, <1>3, <1>4, <1>9

LEMMA ListedAreNotified ==
  ASSUME TypeInv, NEW u \in Users, NEW filtered
  PROVE  /\ Listed(u, filtered) \subseteq Batches /\ IsFiniteSet(Listed(u, filtered))
         /\ Cardinality(Listed(u, filtered)) \in Nat
         /\ IsFiniteSet(Unread(u)) /\ Cardinality(Unread(u)) \in Nat
<1>1. Listed(u, filtered) \subseteq Notified /\ Unread(u) \subseteq Notified
  BY DEF Listed, Unread, Notified
<1>2. IsFiniteSet(Notified) /\ Notified \subseteq Batches
  BY DEF TypeInv, NotesOK, Notified
<1>3. IsFiniteSet(Listed(u, filtered)) /\ IsFiniteSet(Unread(u))
  BY <1>1, <1>2, FS_Subset
<1> QED BY <1>1, <1>2, <1>3, FS_CardinalityType

\* A step of a request that reads: it changes no list.
NotesKept ==
  \A b \in Batches, u \in Users :
    /\ note'[b][u] \in {"unread", "read"} <=> note[b][u] \in {"unread", "read"}
    /\ note'[b][u] = "none" <=> note[b][u] = "none"

LEMMA BrowseCountStep ==
  ASSUME TypeInv, NEW r \in Requests, NEW u \in Users, NEW filtered \in BOOLEAN,
         BrowseCount(r, u, filtered)
  PROVE  /\ TypeInv' /\ Alone(r) /\ UNCHANGED <<account, token, note, order>>
         /\ tx'[r].pc = "reading" /\ tx'[r].user = u /\ tx'[r].filtered = filtered
         /\ tx'[r].count = Cardinality(Listed(u, filtered)) /\ account[u].active
         /\ tx'[r].invalid = {} /\ tx'[r].chosen = {}
         /\ \/ /\ Begins(r, "browse") /\ tx'[r].there = Listed(u, filtered)
               /\ tx'[r].seen = {} /\ tx'[r].page = 0 /\ ~tx'[r].torn
            \/ /\ Goes(r) /\ At(r, "browse", "between")
               /\ tx[r].user = u /\ tx[r].filtered = filtered
               /\ tx'[r].seen = tx[r].seen /\ tx'[r].page = tx[r].page
               /\ tx'[r].torn = tx[r].torn
<1> DEFINE listed == Listed(u, filtered)
           count == Cardinality(listed)
<1>1. /\ UNCHANGED <<account, token, note, order>> /\ account[u].active
      /\ listed \in NoteSets /\ count \in Nat
      /\ NotesOK'
  <2>1. UNCHANGED <<account, token, note, order>> /\ account[u].active
    BY DEF BrowseCount
  <2>2. listed \in NoteSets /\ count \in Nat
    BY ListedAreNotified DEF NoteSets
  <2>3. NotesOK'
    BY <2>1, RestStays DEF inbox
  <2> QED BY <2>1, <2>2, <2>3
<1>2. CASE tx[r].pc = "idle"
  <2> DEFINE f == Fresh("browse", u)
             g == [f EXCEPT !.filtered = filtered, !.there = listed]
             rec == [g EXCEPT !.pc = "reading", !.count = count]
  <2>1. /\ f \in TxRecord /\ f.op = "browse" /\ f.user = u /\ f.before = Finished
        /\ f.invalid = {} /\ f.chosen = {} /\ f.seen = {} /\ f.page = 0 /\ ~f.torn
    BY FreshRecord, FieldValues
  <2>2. tx' = [tx EXCEPT ![r] = rec]
    BY <1>2 DEF BrowseCount
  <2>3. /\ g \in TxRecord /\ g.op = "browse" /\ g.user = u /\ g.before = Finished
        /\ g.invalid = {} /\ g.chosen = {} /\ g.seen = {} /\ g.page = 0 /\ ~g.torn
        /\ g.filtered = filtered /\ g.there = listed
    <3> HIDE DEF f, listed
    <3> QED BY <1>1, <2>1 DEF TxRecord
  <2>4. /\ rec \in TxRecord /\ rec.op = "browse" /\ rec.user = u /\ rec.before = Finished
        /\ rec.invalid = {} /\ rec.chosen = {} /\ rec.seen = {} /\ rec.page = 0 /\ ~rec.torn
        /\ rec.filtered = filtered /\ rec.there = listed /\ rec.pc = "reading"
        /\ rec.count = count
    <3> HIDE DEF g, listed, count
    <3> QED BY <1>1, <2>3, FieldValues DEF TxRecord
  <2> HIDE DEF rec
  <2>5. Alone(r) /\ tx'[r] = rec
    BY <2>2, <2>4, Updated
  <2>6. Begins(r, "browse")
    BY <1>2, <2>4, <2>5 DEF Begins, TypeInv, TxOK
  <2>7. "browse" \in AllOps \ {"none"}
    BY DEF AllOps
  <2>8. TypeInv'
    BY <1>1, <2>4, <2>5, <2>6, <2>7, BeginsKeepType
  <2> QED BY <1>1, <2>4, <2>5, <2>6, <2>8
<1>3. CASE tx[r].pc # "idle"
  <2> DEFINE f == tx[r]
             rec == [f EXCEPT !.pc = "reading", !.count = count]
  <2>1. /\ f \in TxRecord /\ f.op = "browse" /\ f.pc = "between" /\ f.user = u
        /\ f.filtered = filtered /\ f.invalid = {} /\ f.chosen = {}
        /\ tx' = [tx EXCEPT ![r] = rec]
    BY <1>3 DEF BrowseCount, At, TypeInv, TxOK
  <2>2. /\ rec \in TxRecord /\ rec.pc = "reading" /\ rec.op = f.op /\ rec.before = f.before
        /\ rec.user = f.user /\ rec.device = f.device /\ rec.patch = f.patch /\ rec.type = f.type
        /\ rec.users = f.users /\ rec.there = f.there /\ rec.filtered = f.filtered
        /\ rec.chosen = f.chosen /\ rec.invalid = f.invalid
        /\ rec.seen = f.seen /\ rec.page = f.page /\ rec.torn = f.torn /\ rec.count = count
    <3> HIDE DEF f, count
    <3> QED BY <1>1, <2>1, FieldValues DEF TxRecord
  <2> HIDE DEF rec
  <2>3. Alone(r) /\ tx'[r] = rec
    BY <2>1, <2>2, Updated
  <2>4. Goes(r)
    BY <2>1, <2>2, <2>3 DEF Goes
  <2>5. TypeInv'
    BY <1>1, <2>1, <2>2, <2>3, <2>4, RestStays, GoesKeepType
  <2> QED BY <1>1, <2>1, <2>2, <2>3, <2>4, <2>5 DEF At
<1> QED BY <1>2, <1>3

LEMMA BrowseRowsStep ==
  ASSUME TypeInv, NEW r \in Requests, BrowseRows(r)
  PROVE  LET listed == Listed(tx[r].user, tx[r].filtered)
             last == ~HasNext(tx[r].page, tx[r].count)
         IN  /\ TypeInv' /\ Alone(r) /\ Goes(r) /\ UNCHANGED <<account, token, note, order>>
             /\ At(r, "browse", "reading") /\ tx[r].user \in Users
             /\ tx'[r].invalid = {} /\ tx'[r].chosen = {}
             /\ tx'[r].pc = (IF last THEN "done" ELSE "between")
             /\ tx'[r].seen = tx[r].seen \cup PageRows(listed, tx[r].page)
             /\ ~last => tx'[r].page = tx[r].page + 1
             /\ tx'[r].torn = (tx[r].torn \/ Cardinality(listed) > tx[r].count)
<1> DEFINE f == tx[r]
           listed == Listed(f.user, f.filtered)
           last == ~HasNext(f.page, f.count)
           pc == IF last THEN "done" ELSE "between"
           result == IF last THEN "ok" ELSE "none"
           seen == f.seen \cup PageRows(listed, f.page)
           page == IF last THEN 0 ELSE f.page + 1
           torn == f.torn \/ Cardinality(listed) > f.count
           rec == [f EXCEPT !.pc = pc, !.result = result, !.seen = seen, !.page = page,
                            !.torn = torn, !.count = 0]
<1>1. /\ f \in TxRecord /\ f.op = "browse" /\ f.pc = "reading" /\ f.user \in Users
      /\ At(r, "browse", "reading") /\ UNCHANGED <<account, token, note, order>>
      /\ f.invalid = {} /\ f.chosen = {}
      /\ tx \in [Requests -> TxRecord]
  BY DEF BrowseRows, At, TypeInv, TxOK
<1>2. tx' = [tx EXCEPT ![r] = rec]
  BY <1>1 DEF BrowseRows
<1>3. /\ pc \in Pcs /\ result \in Results /\ seen \in NoteSets /\ page \in Nat /\ torn \in BOOLEAN
  <2>1. listed \subseteq Batches
    BY <1>1, ListedAreNotified
  <2>2. f.seen \in NoteSets /\ f.page \in Nat /\ f.torn \in BOOLEAN
    <3> HIDE DEF f
    <3> QED BY <1>1 DEF TxRecord
  <2>3. seen \in NoteSets
    BY <2>1, <2>2 DEF PageRows, NoteSets
  <2> QED BY <2>2, <2>3, FieldValues
<1>4. /\ rec \in TxRecord /\ rec.pc = pc /\ rec.op = f.op /\ rec.before = f.before
      /\ rec.user = f.user /\ rec.device = f.device /\ rec.patch = f.patch /\ rec.type = f.type
      /\ rec.users = f.users /\ rec.there = f.there /\ rec.filtered = f.filtered
      /\ rec.chosen = f.chosen /\ rec.invalid = f.invalid
      /\ rec.seen = seen /\ rec.page = page /\ rec.torn = torn
  <2> HIDE DEF f, pc, result, seen, page, torn
  <2> QED BY <1>1, <1>3, FieldValues DEF TxRecord
<1>5. pc \in {"done", "between"}
  OBVIOUS
<1> HIDE DEF rec, pc, seen, page, torn
<1>6. Alone(r) /\ tx'[r] = rec
  BY <1>2, <1>4, Updated
<1>7. Goes(r)
  BY <1>1, <1>4, <1>5, <1>6 DEF Goes
<1>8. NotesOK'
  BY <1>1, RestStays DEF inbox
<1>9. TypeInv'
  BY <1>1, <1>4, <1>5, <1>6, <1>7, <1>8, RestStays, GoesKeepType
<1>10. ~last => page = f.page + 1
  BY DEF page
<1> QED BY <1>1, <1>4, <1>6, <1>7, <1>9, <1>10 DEF pc, seen, torn

LEMMA BrowseRefusedStep ==
  ASSUME TypeInv, NEW r \in Requests, BrowseRefused(r)
  PROVE  /\ TypeInv' /\ Alone(r) /\ Goes(r) /\ UNCHANGED <<account, token, note, order>>
         /\ tx[r].op = "browse" /\ tx'[r].pc = "done" /\ tx'[r].result = "refused"
         /\ tx'[r].invalid = {} /\ tx'[r].chosen = {}
<1>1. /\ tx[r].op = "browse" /\ UNCHANGED <<account, token, note, order>>
      /\ Ends(r, "refused") /\ "refused" \in Results /\ tx[r].pc \notin {"idle", "done"}
      /\ tx[r].invalid = {} /\ tx[r].chosen = {}
  BY FieldValues DEF BrowseRefused, At, TypeInv, TxOK
<1>2. /\ Alone(r) /\ Goes(r) /\ tx'[r].pc = "done" /\ tx'[r].result = "refused"
      /\ tx'[r].chosen = tx[r].chosen /\ tx'[r].invalid = tx[r].invalid
  BY <1>1, Ended
<1>3. TypeInv'
  BY <1>1, <1>2, RestStays, GoesKeepType DEF At, inbox
<1> QED BY <1>1, <1>2, <1>3

\* A request of one step, which ends as it begins.
LEMMA AtOnce ==
  ASSUME TypeInv, NEW r \in Requests, NEW rec \in TxRecord, tx' = [tx EXCEPT ![r] = rec],
         tx[r].pc = "idle", rec.pc = "done", rec.before = Finished,
         rec.op \in {"read", "read_all", "refused"}, rec.invalid = {}, rec.chosen = {},
         UNCHANGED <<account, token>>, NotesOK'
  PROVE  TypeInv' /\ Alone(r) /\ Begins(r, tx'[r].op) /\ tx'[r] = rec
<1>1. Alone(r) /\ tx'[r] = rec
  BY Updated
<1>2. Begins(r, rec.op)
  BY <1>1 DEF Begins, TypeInv, TxOK
<1>3. rec.op \in AllOps \ {"none"}
  BY DEF AllOps
<1> DEFINE op == rec.op
<1>4. op \notin {"register", "settings", "withdraw", "browse", "notify"}
  OBVIOUS
<1> HIDE DEF op
<1>5. TypeInv'
  BY <1>1, <1>2, <1>3, <1>4, BeginsKeepType DEF op
<1> QED BY <1>1, <1>2, <1>5

LEMMA IsRefusedStep ==
  ASSUME TypeInv, NEW r \in Requests, NEW u \in Users, IsRefused(r, u),
         UNCHANGED <<account, token, note, order>>
  PROVE  /\ TypeInv' /\ Alone(r) /\ Begins(r, "refused") /\ NotesKept
         /\ tx'[r].invalid = {} /\ tx'[r].chosen = {}
<1> DEFINE f == Fresh("refused", u)
           rec == [f EXCEPT !.pc = "done"]
<1>1. /\ f \in TxRecord /\ f.op = "refused" /\ f.user = u /\ f.before = Finished
      /\ f.invalid = {} /\ f.chosen = {}
  BY FreshRecord, FieldValues
<1>2. tx' = [tx EXCEPT ![r] = rec] /\ tx[r].pc = "idle"
  BY DEF IsRefused
<1>3. /\ rec \in TxRecord /\ rec.op = "refused" /\ rec.before = Finished
      /\ rec.invalid = {} /\ rec.chosen = {} /\ rec.pc = "done"
  <2> HIDE DEF f
  <2> QED BY <1>1, FieldValues DEF TxRecord
<1> HIDE DEF rec
<1>4. NotesOK'
  BY RestStays DEF inbox
<1>5. TypeInv' /\ Alone(r) /\ Begins(r, tx'[r].op) /\ tx'[r] = rec
  BY <1>2, <1>3, <1>4, AtOnce
<1> QED BY <1>3, <1>5 DEF NotesKept

LEMMA ReadNotificationStep ==
  ASSUME TypeInv, NEW r \in Requests, NEW u \in Users, NEW b \in Batches,
         ReadNotification(r, u, b)
  PROVE  /\ TypeInv' /\ Alone(r) /\ Begins(r, tx'[r].op) /\ NotesKept
         /\ tx'[r].op \in {"read", "refused"} /\ tx'[r].invalid = {} /\ tx'[r].chosen = {}
         /\ UNCHANGED <<account, token, order>>
<1> DEFINE f == Fresh("read", u)
           found == note[b][u] \in {"unread", "read"}
           op == IF found THEN "read" ELSE "refused"
           rec == [f EXCEPT !.op = op, !.pc = "done"]
<1>1. /\ f \in TxRecord /\ f.op = "read" /\ f.user = u /\ f.before = Finished
      /\ f.invalid = {} /\ f.chosen = {}
  BY FreshRecord, FieldValues
<1>2. /\ tx' = [tx EXCEPT ![r] = rec] /\ tx[r].pc = "idle"
      /\ note' = IF found THEN [note EXCEPT ![b][u] = "read"] ELSE note
      /\ UNCHANGED <<account, token, order>>
  BY DEF ReadNotification
<1>3. op \in {"read", "refused"}
  OBVIOUS
<1>4. /\ rec \in TxRecord /\ rec.op = op /\ rec.before = Finished
      /\ rec.invalid = {} /\ rec.chosen = {} /\ rec.pc = "done"
  <2> HIDE DEF f, op
  <2>1. op \in AllOps
    BY <1>3 DEF AllOps
  <2> QED BY <1>1, <2>1, FieldValues DEF TxRecord
<1> HIDE DEF rec, op
<1>5. note' \in [Batches -> [Users -> NoteStates]] /\ NotesKept
  BY <1>2 DEF TypeInv, NotesOK, NoteStates, NotesKept
<1>6. NotesOK'
  <2>1. Notified' = Notified
    BY <1>5 DEF NotesKept, Notified
  <2> QED BY <1>2, <1>5, <2>1, NotesFrom DEF TypeInv, NotesOK
<1>7. TypeInv' /\ Alone(r) /\ Begins(r, tx'[r].op) /\ tx'[r] = rec
  BY <1>2, <1>3, <1>4, <1>6, AtOnce
<1> QED BY <1>2, <1>3, <1>4, <1>5, <1>7

LEMMA ReadAllStep ==
  ASSUME TypeInv, NEW r \in Requests, NEW u \in Users, ReadAll(r, u)
  PROVE  /\ TypeInv' /\ Alone(r) /\ Begins(r, "read_all") /\ NotesKept
         /\ tx'[r].invalid = {} /\ tx'[r].chosen = {}
         /\ UNCHANGED <<account, token, order>>
<1> DEFINE f == Fresh("read_all", u)
           count == Cardinality(Unread(u))
           rec == [f EXCEPT !.pc = "done", !.result = "ok", !.count = count]
<1>1. /\ f \in TxRecord /\ f.op = "read_all" /\ f.user = u /\ f.before = Finished
      /\ f.invalid = {} /\ f.chosen = {}
  BY FreshRecord, FieldValues
<1>2. /\ tx' = [tx EXCEPT ![r] = rec] /\ tx[r].pc = "idle"
      /\ note' = [b \in Batches |-> [note[b] EXCEPT ![u] = IF @ = "unread" THEN "read" ELSE @]]
      /\ UNCHANGED <<account, token, order>>
  BY DEF ReadAll
<1>3. count \in Nat
  BY ListedAreNotified
<1>4. /\ rec \in TxRecord /\ rec.op = "read_all" /\ rec.before = Finished
      /\ rec.invalid = {} /\ rec.chosen = {} /\ rec.pc = "done"
  <2> HIDE DEF f, count
  <2> QED BY <1>1, <1>3, FieldValues DEF TxRecord
<1> HIDE DEF rec
<1>5. note' \in [Batches -> [Users -> NoteStates]] /\ NotesKept
  BY <1>2 DEF TypeInv, NotesOK, NoteStates, NotesKept
<1>6. NotesOK'
  <2>1. Notified' = Notified
    BY <1>5 DEF NotesKept, Notified
  <2> QED BY <1>2, <1>5, <2>1, NotesFrom DEF TypeInv, NotesOK
<1>7. TypeInv' /\ Alone(r) /\ Begins(r, tx'[r].op) /\ tx'[r] = rec
  BY <1>2, <1>4, <1>6, AtOnce
<1> QED BY <1>2, <1>4, <1>5, <1>7

\* Readers, and who is refused: nothing that a push depends on is changed.
Aside(r) ==
  /\ Alone(r) /\ UNCHANGED <<account, token>>
  /\ tx'[r].op \notin {"register", "settings", "notify", "withdraw"}
  /\ tx'[r].invalid = {} /\ tx'[r].chosen = {}
  /\ Begins(r, tx'[r].op) \/ Goes(r)

LEMMA ReadsOnlyStep ==
  ASSUME TypeInv, NEW r \in Requests,
         (Refused(r) /\ UNCHANGED <<account, token, note, order>>) \/ Browses(r) \/ Reads(r)
  PROVE  TypeInv' /\ Aside(r)
<1>1. CASE Refused(r) /\ UNCHANGED <<account, token, note, order>>
  <2>1. PICK u \in Users : IsRefused(r, u)
    BY <1>1 DEF Refused
  <2>2. TypeInv' /\ Alone(r) /\ Begins(r, "refused") /\ tx'[r].invalid = {} /\ tx'[r].chosen = {}
    BY <1>1, <2>1, IsRefusedStep
  <2> QED BY <1>1, <2>2 DEF Aside, Begins
<1>2. CASE \E u \in Readers, filtered \in BOOLEAN : BrowseCount(r, u, filtered)
  <2>1. PICK u \in Readers, filtered \in BOOLEAN : BrowseCount(r, u, filtered)
    BY <1>2
  <2>2. /\ TypeInv' /\ Alone(r) /\ UNCHANGED <<account, token>>
        /\ tx'[r].invalid = {} /\ tx'[r].chosen = {}
        /\ Begins(r, "browse") \/ (Goes(r) /\ At(r, "browse", "between"))
    BY <2>1, ReadersAreUsers, BrowseCountStep
  <2> QED BY <2>2 DEF Aside, Begins, Goes, At
<1>3. CASE BrowseRows(r)
  <2>1. /\ TypeInv' /\ Alone(r) /\ UNCHANGED <<account, token>> /\ Goes(r)
        /\ At(r, "browse", "reading") /\ tx'[r].invalid = {} /\ tx'[r].chosen = {}
    BY <1>3, BrowseRowsStep
  <2> QED BY <2>1 DEF Aside, Goes, At
<1>4. CASE BrowseRefused(r)
  BY <1>4, BrowseRefusedStep DEF Aside, Goes
<1>5. CASE Reads(r)
  <2>1. PICK u \in Readers : ReadAll(r, u) \/ \E b \in Batches : ReadNotification(r, u, b)
    BY <1>5 DEF Reads
  <2>2. CASE ReadAll(r, u)
    <3>1. /\ TypeInv' /\ Alone(r) /\ UNCHANGED <<account, token>> /\ Begins(r, "read_all")
          /\ tx'[r].invalid = {} /\ tx'[r].chosen = {}
      BY <2>2, ReadersAreUsers, ReadAllStep
    <3> QED BY <3>1 DEF Aside, Begins
  <2>3. CASE \E b \in Batches : ReadNotification(r, u, b)
    <3>1. PICK b \in Batches : ReadNotification(r, u, b)
      BY <2>3
    <3>2. /\ TypeInv' /\ Alone(r) /\ UNCHANGED <<account, token>> /\ Begins(r, tx'[r].op)
          /\ tx'[r].op \in {"read", "refused"} /\ tx'[r].invalid = {} /\ tx'[r].chosen = {}
      BY <3>1, ReadersAreUsers, ReadNotificationStep
    <3> QED BY <3>2 DEF Aside
  <2> QED BY <2>1, <2>2, <2>3
<1> QED BY <1>1, <1>2, <1>3, <1>4, <1>5 DEF Browses

LEMMA TypeInvInit == Init => TypeInv
<1> SUFFICES ASSUME Init PROVE TypeInv
  OBVIOUS
<1>1. AccountsOK
  BY DEF Init, AccountsOK, AccountRow
<1>2. TokensOK
  <2> DEFINE old(t) == [owner |-> OldRows[t].owner, device |-> OldRows[t].device,
                        active |-> TRUE, deleted |-> FALSE]
  <2>1. token = [t \in Tokens |-> IF t \in OldTokens THEN old(t) ELSE NoToken]
    BY DEF Init
  <2>2. NoToken \in TokenRow
    BY DEF NoToken, TokenRow
  <2>3. \A t \in OldTokens : old(t) \in TokenRow
    BY OldRowsAreRows DEF TokenRow
  <2>4. \A t \in OldTokens : /\ old(t).owner = OldRows[t].owner /\ old(t).device = OldRows[t].device
                             /\ ~old(t).deleted
    OBVIOUS
  <2> HIDE DEF old
  <2>5. /\ token \in [Tokens -> TokenRow]
        /\ \A t \in Tokens : token[t] = IF t \in OldTokens THEN old(t) ELSE NoToken
    BY <2>1, <2>2, <2>3
  <2>6. \A t \in Tokens : TokenOK(t)
    BY <2>4, <2>5, OldRowsAreRows DEF TokenOK, NoToken
  <2>7. \A s, t \in Tokens : token[s].device = token[t].device /\ token[s].device # NULL => s = t
    BY <2>4, <2>5, OldRowsAreRows DEF NoToken
  <2>8. Existing \subseteq OldTokens
    BY <2>5 DEF Existing, NoToken
  <2>9. IsFiniteSet(Existing)
    BY <2>8, OldRowsAreRows, FS_Subset
  <2> QED BY <2>5, <2>6, <2>7, <2>9 DEF TokensOK
<1>3. NotesOK
  <2>1. note \in [Batches -> [Users -> NoteStates]]
    BY DEF Init, NoteStates
  <2>2. order \in Seq(Batches)
    BY OldNotesAreRows DEF Init, Batches
  <2>3. Notified \subseteq OldNotes
    BY DEF Init, Notified
  <2>4. IsFiniteSet(Notified)
    BY <2>3, OldNotesAreRows, FS_Subset
  <2> QED BY <2>1, <2>2, <2>4 DEF NotesOK
<1>4. tx \in [Requests -> TxRecord] /\ \A r \in Requests : tx[r] = Idle
  BY IdleRecord DEF Init
<1>5. \A r \in Requests : TxOK(r)
  <2> SUFFICES ASSUME NEW r \in Requests PROVE TxOK(r)
    OBVIOUS
  <2>1. token[r].owner = NULL
    BY DEF Init, NoToken, Tokens
  <2>2. /\ tx[r].pc = "idle" /\ tx[r].op = "none" /\ tx[r].before = {} /\ tx[r].invalid = {}
        /\ tx[r].chosen = {}
    BY <1>4 DEF Idle
  <2> QED BY <2>1, <2>2 DEF TxOK
<1> QED BY <1>1, <1>2, <1>3, <1>4, <1>5 DEF TypeInv

LEMMA TypeInvStep == TypeInv /\ [Next]_vars => TypeInv'
<1> SUFFICES ASSUME TypeInv, [Next]_vars PROVE TypeInv'
  OBVIOUS
<1>1. CASE UNCHANGED vars
  BY <1>1 DEF vars, TypeInv, AccountsOK, TokensOK, TokenOK, Existing, NotesOK, Notified, TxOK,
              FoundOK, Finished
<1>2. ASSUME NEW r \in Requests, Registers(r), UNCHANGED inbox
      PROVE  TypeInv'
  BY <1>2, RegisterCheckStep, RegisterFindStep, RegisterUpdatesStep, RegisterInsertsStep
     DEF Registers
<1>3. ASSUME NEW r \in Requests, Switches(r), UNCHANGED inbox
      PROVE  TypeInv'
  BY <1>3, SettingsCheckStep, SettingsCommitStep DEF Switches
<1>4. ASSUME NEW r \in Requests, Dispatches(r), UNCHANGED inbox
      PROVE  TypeInv'
  BY <1>4, DispatchSkipsStep, DispatchFailsStep, DispatchSelectsStep, SendStep, DispatchEndsStep
     DEF Dispatches
<1>5. ASSUME NEW r \in Requests, Notifies(r)
      PROVE  TypeInv'
  BY <1>5, NotifyBeginStep, NotifyCommitStep, NotifyFailsStep DEF Notifies
<1>6. ASSUME NEW r \in Requests, Withdraws(r)
      PROVE  TypeInv'
  BY <1>6, WithdrawReadsStep, WithdrawCommitStep DEF Withdraws
<1> QED BY <1>1, <1>2, <1>3, <1>4, <1>5, <1>6, ReadsOnlyStep DEF Next

LEMMA TypeInvHolds == Spec => []TypeInv
BY TypeInvInit, TypeInvStep, PTL DEF Spec

LEMMA TypeInvImpliesTypeOK == TypeInv => TypeOK
<1> SUFFICES ASSUME TypeInv PROVE TypeOK
  OBVIOUS
<1>1. \A d \in Devices : Cardinality(TokensOf(d)) <= 1
  <2> SUFFICES ASSUME NEW d \in Devices PROVE Cardinality(TokensOf(d)) <= 1
    OBVIOUS
  <2>1. CASE TokensOf(d) = {}
    BY <2>1, FS_EmptySet
  <2>2. CASE TokensOf(d) # {}
    <3>1. PICK t \in TokensOf(d) : TRUE
      BY <2>2
    <3>2. TokensOf(d) = {t}
      BY <3>1, OneRow
    <3> QED BY <3>2, FS_Singleton
  <2> QED BY <2>1, <2>2
<1>2. \A t \in Tokens : token[t].deleted => token[t].device = NULL
  BY DEF TypeInv, TokensOK, TokenOK
<1>3. \A r \in Requests : tx[r].before \subseteq Finished /\ tx[r].chosen \subseteq Users \X Devices
  BY DEF TypeInv, TxOK, TxRecord, TargetSets
<1> QED BY <1>1, <1>2, <1>3 DEF TypeOK, TypeInv, AccountsOK, AccountRow, TokensOK,
                                TokenRow, NotesOK, NoteStates

\* Every row and every local keeps its type; a device has one row, whoever
\* registers it at the same time, and a deleted row has none.
THEOREM TypeCorrectness == Spec => []TypeOK
BY TypeInvHolds, TypeInvImpliesTypeOK, PTL

-----------------------------------------------------------------------------
(* The diagnosis                                                           *)

LEMMA Requested ==
  ASSUME NEW sent \in Nat, NEW failed \in Int, SummaryStatus(sent, failed) = "REQUESTED"
  PROVE  sent > 0 /\ failed = 0
BY DEF SummaryStatus

\* A set that keeps the cardinality of a finite one is all of it.
LEMMA AllOfIt ==
  ASSUME NEW S, IsFiniteSet(S), NEW T \in SUBSET S,
         SummaryStatus(Cardinality(T), Cardinality(S) - Cardinality(T)) = "REQUESTED"
  PROVE  T = S /\ S # {}
<1>1. /\ IsFiniteSet(T) /\ Cardinality(T) \in Nat /\ Cardinality(S) \in Nat
      /\ Cardinality(S) = Cardinality(T) => S = T
  BY FS_Subset, FS_CardinalityType
<1>2. Cardinality(T) > 0 /\ Cardinality(S) - Cardinality(T) = 0
  BY <1>1, Requested
<1>3. S = T
  BY <1>1, <1>2
<1>4. S # {}
  BY <1>1, <1>2, FS_EmptySet
<1> QED BY <1>3, <1>4

LEMMA SkipReason ==
  ASSUME NEW u \in Users, account[u].active, NEW type, NEW available \in BOOLEAN
  PROVE  TypeLevelSkipReason(u, type, available) = NULL
           <=> SettingEnabled(u, type) /\ ActiveTokenRows(u) # {} /\ PushEnabled /\ available
<1>1. NULL \notin SkipReasons
  OBVIOUS
<1>2. TokenRows(u) = {} => ActiveTokenRows(u) = {}
  BY DEF ActiveTokenRows
<1> QED BY <1>1, <1>2, TogglesAreTypes DEF TypeLevelSkipReason, SkipReasons

\* The rows that are counted are the targets of a dispatch to the user alone.
LEMMA CountedAreTargets ==
  ASSUME TypeInv, NEW u \in Users, account[u].active, NEW type
  PROVE  /\ IsFiniteSet(ActiveTokenRows(u)) /\ Cardinality(ActiveTokenRows(u)) \in Nat
         /\ ~SettingEnabled(u, type) => FindActiveTokenRows({u}, type) = {}
         /\ SettingEnabled(u, type) =>
              FindActiveTokenRows({u}, type) = {<<u, token[t].device>> : t \in ActiveTokenRows(u)}
         /\ Cardinality({<<u, token[t].device>> : t \in ActiveTokenRows(u)})
              = Cardinality(ActiveTokenRows(u))
<1> DEFINE A == ActiveTokenRows(u)
           C == {<<u, token[t].device>> : t \in A}
<1>1. IsFiniteSet(A)
  <2>1. A \subseteq Existing
    BY DEF ActiveTokenRows, TokenRows, Existing
  <2>2. IsFiniteSet(Existing)
    BY DEF TypeInv, TokensOK
  <2> HIDE DEF A
  <2> QED BY <2>1, <2>2, FS_Subset
<1>2. ~SettingEnabled(u, type) => FindActiveTokenRows({u}, type) = {}
  BY DEF FindActiveTokenRows, SettingEnabled
<1>3. SettingEnabled(u, type) => FindActiveTokenRows({u}, type) = C
  <2> SUFFICES ASSUME SettingEnabled(u, type)
               PROVE  FindActiveTokenRows({u}, type) = C
    OBVIOUS
  <2>1. {s \in Tokens : /\ token[s].owner \in {u} /\ token[s].active /\ ~token[s].deleted
                        /\ account[token[s].owner].active
                        /\ type \in Toggles => type \in account[token[s].owner].on} = A
    BY DEF SettingEnabled, ActiveTokenRows, TokenRows
  <2>2. \A t \in A : token[t].owner = u
    BY DEF ActiveTokenRows, TokenRows
  <2>3. FindActiveTokenRows({u}, type) = {<<token[t].owner, token[t].device>> : t \in A}
    BY <2>1 DEF FindActiveTokenRows
  <2> HIDE DEF A
  <2> QED BY <2>2, <2>3
<1>4. Cardinality(C) = Cardinality(A)
  <2>1. \A t \in A : t \in Tokens /\ token[t].device # NULL
    BY DEF TypeInv, TokensOK, TokenOK, ActiveTokenRows, TokenRows
  <2>2. \A s, t \in A : token[s].device = token[t].device => s = t
    BY <2>1 DEF TypeInv, TokensOK
  <2> DEFINE f == [t \in A |-> <<u, token[t].device>>]
  <2> HIDE DEF A
  <2>3. f \in Bijection(A, C)
    BY <2>2 DEF Bijection, Injection, Surjection, IsInjective
  <2>4. ExistsBijection(A, C)
    BY <2>3 DEF ExistsBijection
  <2> HIDE DEF C, f
  <2> QED BY <1>1, <2>4, FS_Bijection
<1>5. Cardinality(A) \in Nat
  <2> HIDE DEF A
  <2> QED BY <1>1, FS_CardinalityType
<1> QED BY <1>1, <1>2, <1>3, <1>4, <1>5

LEMMA EligibleAreTargets ==
  ASSUME TypeInv, NEW u \in Users, account[u].active, NEW type, NEW valid, NEW accepted,
         PushEnabled
  PROVE  Diagnose(u, type, TRUE, valid, accepted).eligible
           = Cardinality(FindActiveTokenRows({u}, type))
<1> DEFINE A == ActiveTokenRows(u)
           chosen == FindActiveTokenRows({u}, type)
           C == {<<u, token[t].device>> : t \in A}
           reason == TypeLevelSkipReason(u, type, TRUE)
           eligible == Diagnose(u, type, TRUE, valid, accepted).eligible
<1>1. /\ Cardinality(A) \in Nat /\ Cardinality(C) = Cardinality(A)
      /\ ~SettingEnabled(u, type) => chosen = {}
      /\ SettingEnabled(u, type) => chosen = C
  BY CountedAreTargets
<1>2. reason = NULL <=> SettingEnabled(u, type) /\ A # {} /\ PushEnabled
  BY SkipReason
<1>3. eligible = IF reason = NULL THEN Cardinality(A) ELSE 0
  BY DEF Diagnose
<1>4. A = {} => C = {}
  OBVIOUS
<1> HIDE DEF A, chosen, C, reason, eligible
<1>5. Cardinality({}) = 0
  BY FS_EmptySet
<1>6. eligible = Cardinality(chosen)
  BY <1>1, <1>2, <1>3, <1>4, <1>5
<1> QED BY <1>6 DEF chosen, eligible

LEMMA DiagnosisOfOne ==
  ASSUME TypeInv, NEW u \in Users, account[u].active, NEW type \in Types,
         NEW valid, NEW accepted
  PROVE  /\ Diagnose(u, type, FALSE, valid, accepted).eligible = 0
         /\ \A t \in Diagnose(u, type, TRUE, valid, accepted).attempted :
              /\ <<u, token[t].device>> \in FindActiveTokenRows({u}, type)
              /\ token[t].device \in valid
         /\ /\ Diagnose(u, type, TRUE, valid, accepted).dry_run = "REQUESTED"
            /\ Diagnose(u, type, TRUE, valid, accepted).actual = "REQUESTED"
            => /\ FindActiveTokenRows({u}, type) # {}
               /\ \A target \in FindActiveTokenRows({u}, type) : target[2] \in accepted
<1> DEFINE A == ActiveTokenRows(u)
           chosen == FindActiveTokenRows({u}, type)
           C == {<<u, token[t].device>> : t \in A}
           d == Diagnose(u, type, TRUE, valid, accepted)
           validated == {t \in A : token[t].device \in valid}
           attempted == Attempted(u, type, TRUE, valid)
           taken == {t \in attempted : token[t].device \in accepted}
<1>1. /\ IsFiniteSet(A) /\ Cardinality(A) \in Nat /\ Cardinality(C) = Cardinality(A)
      /\ ~SettingEnabled(u, type) => chosen = {}
      /\ SettingEnabled(u, type) => chosen = C
  BY CountedAreTargets
<1>2. /\ TypeLevelSkipReason(u, type, FALSE) # NULL
      /\ TypeLevelSkipReason(u, type, TRUE) = NULL
           <=> SettingEnabled(u, type) /\ A # {} /\ PushEnabled
  BY SkipReason
<1>3. Diagnose(u, type, FALSE, valid, accepted).eligible = 0
  BY <1>2 DEF Diagnose
<1>4. /\ d.attempted = attempted
      /\ d.dry_run = SummaryStatus(Cardinality(validated), Cardinality(A) - Cardinality(validated))
      /\ d.actual = SummaryStatus(Cardinality(taken), Cardinality(attempted) - Cardinality(taken))
  BY DEF Diagnose
<1>5. attempted = IF SettingEnabled(u, type) /\ A # {} /\ PushEnabled THEN validated ELSE {}
  BY <1>2 DEF Attempted
<1> HIDE DEF A, chosen, d, attempted
<1>6. \A t \in d.attempted : <<u, token[t].device>> \in chosen /\ token[t].device \in valid
  BY <1>1, <1>4, <1>5
<1>7. ASSUME d.dry_run = "REQUESTED", d.actual = "REQUESTED"
      PROVE  chosen # {} /\ \A target \in chosen : target[2] \in accepted
  <2>1. validated \in SUBSET A /\ attempted \in SUBSET A /\ taken \in SUBSET attempted
    BY <1>5
  <2>2. IsFiniteSet(attempted)
    BY <1>1, <2>1, FS_Subset
  <2>3. validated = A
    <3> HIDE DEF validated
    <3> QED BY <1>1, <1>4, <1>7, <2>1, AllOfIt
  <2>4. taken = attempted /\ attempted # {}
    <3> HIDE DEF taken
    <3> QED BY <1>4, <1>7, <2>1, <2>2, AllOfIt
  <2>5. SettingEnabled(u, type) /\ attempted = A
    BY <1>5, <2>3, <2>4
  <2>6. chosen = C /\ A # {}
    BY <1>1, <2>4, <2>5
  <2>7. \A t \in A : token[t].device \in accepted
    BY <2>4, <2>5
  <2>8. \A target \in C : target[2] \in accepted
    BY <2>7
  <2>9. C # {}
    BY <2>6
  <2> QED BY <2>6, <2>8, <2>9
<1> QED BY <1>3, <1>6, <1>7 DEF chosen, d

LEMMA DiagnosisIsRight == TypeInv => DiagnosisMatchesDispatch
<1> SUFFICES ASSUME TypeInv, NEW u \in {v \in Users : account[v].active}, NEW type \in Types
             PROVE  LET chosen == FindActiveTokenRows({u}, type)
                        devices == {token[t].device : t \in ActiveTokenRows(u)}
                    IN  /\ Diagnose(u, type, FALSE, devices, devices).eligible = 0
                        /\ \A valid \in SUBSET devices : \A accepted \in SUBSET valid :
                             LET d == Diagnose(u, type, TRUE, valid, accepted)
                             IN  /\ PushEnabled => d.eligible = Cardinality(chosen)
                                 /\ \A t \in d.attempted :
                                      <<u, token[t].device>> \in chosen /\ token[t].device \in valid
                                 /\ d.dry_run = "REQUESTED" /\ d.actual = "REQUESTED"
                                      => chosen # {} /\ \A target \in chosen : target[2] \in accepted
  BY DEF DiagnosisMatchesDispatch
<1> DEFINE chosen == FindActiveTokenRows({u}, type)
           devices == {token[t].device : t \in ActiveTokenRows(u)}
<1>1. Diagnose(u, type, FALSE, devices, devices).eligible = 0
  <2> HIDE DEF devices
  <2> QED BY DiagnosisOfOne
<1>2. ASSUME NEW valid \in SUBSET devices, NEW accepted \in SUBSET valid
      PROVE  LET d == Diagnose(u, type, TRUE, valid, accepted)
             IN  /\ PushEnabled => d.eligible = Cardinality(chosen)
                 /\ \A t \in d.attempted :
                      <<u, token[t].device>> \in chosen /\ token[t].device \in valid
                 /\ d.dry_run = "REQUESTED" /\ d.actual = "REQUESTED"
                      => chosen # {} /\ \A target \in chosen : target[2] \in accepted
  <2> DEFINE d == Diagnose(u, type, TRUE, valid, accepted)
  <2>1. PushEnabled => d.eligible = Cardinality(chosen)
    BY EligibleAreTargets
  <2>2. \A t \in d.attempted : <<u, token[t].device>> \in chosen /\ token[t].device \in valid
    BY DiagnosisOfOne
  <2>3. d.dry_run = "REQUESTED" /\ d.actual = "REQUESTED"
          => chosen # {} /\ \A target \in chosen : target[2] \in accepted
    BY DiagnosisOfOne
  <2> HIDE DEF d, chosen
  <2> QED BY <2>1, <2>2, <2>3 DEF d
<1> QED BY <1>1, <1>2

\* The diagnosis says what a dispatch would do, whatever the rows of the devices
\* and the switches have become meanwhile.
THEOREM DiagnosisIsADispatch == Spec => []DiagnosisMatchesDispatch
BY TypeInvHolds, DiagnosisIsRight, PTL

-----------------------------------------------------------------------------
(* Steps                                                                   *)

StepOf(r) ==
  \/ (Registers(r) \/ Switches(r) \/ Dispatches(r)) /\ UNCHANGED inbox
  \/ Refused(r) /\ UNCHANGED <<account, token, note, order>>
  \/ Notifies(r) \/ Withdraws(r) \/ Browses(r) \/ Reads(r)

\* A row of the inbox, and whether an account is ACTIVE, changes in few steps.
Shown(state) == state \in {"unread", "read"}

ListGrows == order' = order \/ \E r \in Requests : order' = <<r>> \o order

AccountsStay == \A u \in Users : account'[u].active = account[u].active

NotesStay ==
  \A b \in Batches, u \in Users :
    /\ Shown(note[b][u]) => Shown(note'[b][u])
    /\ note'[b][u] # "none" => note[b][u] # "none"

QuietStep(r) ==
  /\ order' = order /\ AccountsStay /\ NotesStay
  /\ tx[r].pc = "idle" => tx'[r].op # "notify"

LEMMA StepsOfDevices ==
  ASSUME TypeInv, NEW r \in Requests, Registers(r) \/ Switches(r) \/ Dispatches(r),
         UNCHANGED inbox
  PROVE  /\ TypeInv' /\ Alone(r) /\ (Begins(r, tx'[r].op) \/ Goes(r))
         /\ tx'[r].op # "browse" /\ QuietStep(r)
<1>1. order' = order /\ NotesStay
  BY DEF inbox, NotesStay
<1>2. CASE Registers(r)
  <2>1. ASSUME NEW u \in Users, NEW d \in Devices, RegisterCheck(r, u, d)
        PROVE  /\ TypeInv' /\ Alone(r) /\ Begins(r, "register") /\ account' = account
    BY <2>1, RegisterCheckStep
  <2>2. CASE RegisterFind(r) \/ RegisterUpdates(r) \/ RegisterInserts(r)
    <3>1. TypeInv' /\ Alone(r) /\ Goes(r) /\ tx[r].op = "register" /\ account' = account
      BY <2>2, RegisterFindStep, RegisterUpdatesStep, RegisterInsertsStep DEF At
    <3> QED BY <1>1, <3>1 DEF QuietStep, AccountsStay, Goes
  <2> QED BY <1>1, <1>2, <2>1, <2>2 DEF Registers, QuietStep, AccountsStay, Begins
<1>3. CASE Switches(r)
  <2>1. ASSUME NEW u \in Users, NEW patch \in Patches, SettingsCheck(r, u, patch)
        PROVE  /\ TypeInv' /\ Alone(r) /\ Begins(r, "settings") /\ account' = account
    BY <2>1, SettingsCheckStep
  <2>2. CASE SettingsCommit(r)
    <3>1. TypeInv' /\ Alone(r) /\ Goes(r) /\ tx[r].op = "settings" /\ AccountsStay
      BY <2>2, SettingsCommitStep DEF At, AccountsStay
    <3> QED BY <1>1, <3>1 DEF QuietStep, Goes
  <2> QED BY <1>1, <1>3, <2>1, <2>2 DEF Switches, QuietStep, AccountsStay, Begins
<1>4. CASE Dispatches(r)
  <2>1. TypeInv' /\ Alone(r) /\ Goes(r) /\ tx[r].op = "notify" /\ account' = account
    BY <1>4, DispatchSkipsStep, DispatchFailsStep, DispatchSelectsStep, SendStep, DispatchEndsStep
       DEF Dispatches, At
  <2> QED BY <1>1, <2>1 DEF QuietStep, AccountsStay, Goes
<1> QED BY <1>2, <1>3, <1>4

LEMMA StepsOfReaders ==
  ASSUME TypeInv, NEW r \in Requests,
         (Refused(r) /\ UNCHANGED <<account, token, note, order>>) \/ Reads(r) \/ Browses(r)
  PROVE  QuietStep(r)
<1>1. AccountsStay /\ (tx[r].pc = "idle" => tx'[r].op # "notify")
  BY ReadsOnlyStep DEF Aside, AccountsStay
<1>2. CASE UNCHANGED <<note, order>>
  BY <1>1, <1>2 DEF QuietStep, NotesStay
<1>3. CASE Reads(r)
  <2>1. PICK u \in Readers : ReadAll(r, u) \/ \E b \in Batches : ReadNotification(r, u, b)
    BY <1>3 DEF Reads
  <2>2. NotesKept /\ order' = order
    BY <2>1, ReadersAreUsers, ReadAllStep, ReadNotificationStep
  <2> QED BY <1>1, <2>2 DEF QuietStep, NotesStay, NotesKept, Shown
<1>4. CASE Browses(r)
  <2>1. UNCHANGED <<note, order>>
    BY <1>4 DEF Browses, BrowseCount, BrowseRows, BrowseRefused
  <2> QED BY <1>2, <2>1
<1> QED BY <1>2, <1>3, <1>4

LEMMA StepsOfNotifiers ==
  ASSUME TypeInv, NEW r \in Requests, Notifies(r)
  PROVE  /\ TypeInv' /\ Alone(r) /\ (Begins(r, "notify") \/ Goes(r)) /\ tx'[r].op = "notify"
         /\ account' = account /\ token' = token
         /\ tx[r].pc = "idle" => order' = <<r>> \o order
         /\ tx[r].pc # "idle" => order' = order /\ tx[r].pc = "writing"
         /\ \A b \in Batches, u \in Users :
              /\ Shown(note[b][u]) => Shown(note'[b][u])
              /\ note'[b][u] # "none" =>
                   note[b][u] # "none" \/ (b = r /\ At(r, "notify", "writing"))
<1>1. ASSUME NEW o \in Occasions, NotifyBegin(r, o.type, o.users, o.voter)
      PROVE  /\ TypeInv' /\ Alone(r) /\ Begins(r, "notify") /\ order' = <<r>> \o order
             /\ UNCHANGED <<account, token, note>>
  BY <1>1, NotifyBeginStep
<1>2. CASE NotifyCommit(r)
  <2>1. /\ TypeInv' /\ Alone(r) /\ Goes(r) /\ At(r, "notify", "writing")
        /\ UNCHANGED <<account, token, order>>
        /\ \A b \in Batches \ {r} : note'[b] = note[b]
        /\ \A u \in Users : note'[r][u] = IF u \in tx[r].users THEN "unread" ELSE note[r][u]
    BY <1>2, NotifyCommitStep
  <2> QED BY <2>1 DEF Shown, At, Goes
<1>3. CASE NotifyFails(r)
  BY <1>3, NotifyFailsStep DEF At, Goes
<1> QED BY <1>1, <1>2, <1>3 DEF Notifies, Begins

LEMMA StepsOfLeavers ==
  ASSUME TypeInv, NEW r \in Requests, Withdraws(r)
  PROVE  /\ TypeInv' /\ Alone(r) /\ order' = order
         /\ \/ Begins(r, "withdraw") /\ QuietStep(r)
            \/ /\ Goes(r) /\ At(r, "withdraw", "checked") /\ tx[r].user \in Users
               /\ tx'[r].pc = "done" /\ tx'[r].result = "ok"
               /\ \A b \in Batches, u \in Users :
                    /\ note'[b][u] # "none" => note[b][u] # "none"
                    /\ u # tx[r].user => note'[b][u] = note[b][u]
<1>1. ASSUME NEW u \in Users, WithdrawReads(r, u)
      PROVE  /\ TypeInv' /\ Alone(r) /\ Begins(r, "withdraw") /\ QuietStep(r) /\ order' = order
  BY <1>1, WithdrawReadsStep DEF QuietStep, AccountsStay, NotesStay, Begins
<1>2. CASE WithdrawCommit(r)
  <2> DEFINE u0 == tx[r].user
  <2>1. /\ TypeInv' /\ Alone(r) /\ Goes(r) /\ At(r, "withdraw", "checked") /\ u0 \in Users
        /\ tx'[r].pc = "done" /\ tx'[r].result = "ok" /\ order' = order
        /\ note' = DeletedNotes(u0, tx[r].there)
    BY <1>2, WithdrawCommitStep
  <2> HIDE DEF u0
  <2>2. \A b \in Batches :
          /\ \A v \in Users \ {u0} : DeletedNotes(u0, tx[r].there)[b][v] = note[b][v]
          /\ DeletedNotes(u0, tx[r].there)[b][u0] = "none" <=> note[b][u0] = "none"
    BY <2>1, DeletedNotesAre
  <2>3. \A b \in Batches, u \in Users :
          /\ note'[b][u] # "none" => note[b][u] # "none"
          /\ u # u0 => note'[b][u] = note[b][u]
    BY <2>1, <2>2
  <2> QED BY <2>1, <2>3 DEF u0
<1> QED BY <1>1, <1>2 DEF Withdraws

LEMMA Moves ==
  ASSUME TypeInv, NEW r \in Requests, StepOf(r)
  PROVE  /\ TypeInv' /\ Alone(r) /\ (Begins(r, tx'[r].op) \/ Goes(r))
         /\ ListGrows /\ order' \in {order, <<r>> \o order}
<1>1. CASE (Registers(r) \/ Switches(r) \/ Dispatches(r)) /\ UNCHANGED inbox
  BY <1>1, StepsOfDevices DEF QuietStep, ListGrows
<1>2. CASE Notifies(r)
  BY <1>2, StepsOfNotifiers DEF ListGrows, Begins
<1>3. CASE Withdraws(r)
  BY <1>3, StepsOfLeavers DEF ListGrows, Begins
<1>4. CASE Refused(r) /\ UNCHANGED <<account, token, note, order>>
  BY <1>4, ReadsOnlyStep DEF ListGrows, Aside
<1>5. CASE Browses(r) \/ Reads(r)
  BY <1>5, ReadsOnlyStep, StepsOfReaders DEF QuietStep, ListGrows, Aside
<1> QED BY <1>1, <1>2, <1>3, <1>4, <1>5 DEF StepOf

-----------------------------------------------------------------------------
(* Scrolling                                                               *)

\* ceil(n / size) pages of that size hold n rows.
LEMMA LastPage ==
  ASSUME NEW n \in Nat, NEW page \in Nat, ~HasNext(page, n)
  PROVE  n <= (page + 1) * PageSize
<1> DEFINE a == n + PageSize - 1
           k == a \div PageSize
<1>1. PageSize \in Nat /\ PageSize > 0
  OBVIOUS
<1>2. a \in Nat
  BY <1>1
<1> HIDE DEF a
<1>3. k \in Int /\ a < (k + 1) * PageSize
  BY <1>1, <1>2
<1>4. ~(page + 1 < k)
  BY DEF HasNext, a
<1> HIDE DEF k
<1>5. k + 1 <= page + 2
  BY <1>3, <1>4
<1>6. (k + 1) * PageSize <= (page + 2) * PageSize
  BY <1>1, <1>3, <1>5
<1>7. (page + 2) * PageSize = (page + 1) * PageSize + PageSize
  BY <1>1
<1>8. /\ (k + 1) * PageSize \in Int /\ (page + 2) * PageSize \in Int
      /\ (page + 1) * PageSize \in Int
  BY <1>1, <1>3
<1> QED BY <1>1, <1>3, <1>6, <1>7, <1>8 DEF a

IsListed(b) == \E i \in DOMAIN order : order[i] = b

\* Every notification has its place in the order, and one that is about to be
\* written too; the batches of this behaviour are those of plan handlers.
OrderInv ==
  /\ \A b \in Batches, u \in Users : note[b][u] # "none" =>
       IsListed(b) /\ (b \in Requests => tx[b].op = "notify")
  /\ \A r \in Requests : At(r, "notify", "writing") => IsListed(r)

\* Nobody has taken notifications of the list away, and no count was of a
\* shorter list than its rows.
Undisturbed(r) ==
  /\ ~tx[r].torn
  /\ ~\E w \in Requests : /\ tx[w].op = "withdraw" /\ Succeeded(w) /\ Overlap(r, w)
                          /\ tx[r].filtered \/ tx[w].user = tx[r].user

Rank(u, filtered, b) == Cardinality(RowsDownTo(Listed(u, filtered), b))

\* What was there has been seen, or is on a page that is to come: rows only come
\* in before it.
ScrollInv ==
  \A r \in Requests, u \in Users, filtered \in BOOLEAN :
    tx[r].op = "browse" /\ tx[r].user = u /\ tx[r].filtered = filtered /\ Undisturbed(r) =>
      /\ Succeeded(r) => tx[r].there \subseteq tx[r].seen
      /\ tx[r].pc # "done" =>
           \A b \in tx[r].there :
             /\ b \in Listed(u, filtered)
             /\ b \in tx[r].seen \/ Rank(u, filtered, b) > tx[r].page * PageSize

LEMMA ScrollInvImplies == TypeInv /\ ScrollInv => ScrollingMissesNothing
<1> SUFFICES ASSUME TypeInv, ScrollInv, NEW r \in Requests, At(r, "browse", "done"),
                    tx[r].result = "ok", Undisturbed(r)
             PROVE  tx[r].there \subseteq tx[r].seen
  BY DEF ScrollingMissesNothing, Undisturbed
<1>1. tx[r].user \in Users /\ tx[r].filtered \in BOOLEAN
  BY DEF TypeInv, TxOK, TxRecord, At
<1> QED BY <1>1 DEF ScrollInv, Succeeded, At

LEMMA GrownList ==
  ASSUME NEW S, NEW s \in Seq(S), NEW x \in S
  PROVE  /\ \A i \in DOMAIN s : i + 1 \in DOMAIN (<<x>> \o s) /\ (<<x>> \o s)[i + 1] = s[i]
         /\ 1 \in DOMAIN (<<x>> \o s) /\ (<<x>> \o s)[1] = x
<1>1. <<x>> \in Seq(S) /\ Len(<<x>>) = 1 /\ <<x>>[1] = x
  OBVIOUS
<1>2. Len(s) \in Nat /\ DOMAIN s = 1 .. Len(s)
  OBVIOUS
<1>3. /\ DOMAIN (<<x>> \o s) = 1 .. 1 + Len(s)
      /\ \A i \in 1 .. 1 + Len(s) :
           (<<x>> \o s)[i] = IF i <= 1 THEN <<x>>[i] ELSE s[i - 1]
  BY <1>1, <1>2
<1>4. ASSUME NEW i \in DOMAIN s
      PROVE  i + 1 \in DOMAIN (<<x>> \o s) /\ (<<x>> \o s)[i + 1] = s[i]
  <2>1. i \in Int /\ i >= 1 /\ i <= Len(s)
    BY <1>2
  <2>2. i + 1 \in 1 .. 1 + Len(s) /\ ~(i + 1 <= 1) /\ (i + 1) - 1 = i
    BY <1>2, <2>1
  <2> QED BY <1>3, <2>2
<1>5. 1 \in 1 .. 1 + Len(s) /\ 1 <= 1
  BY <1>2
<1> QED BY <1>1, <1>3, <1>4, <1>5

LEMMA ListedStays ==
  ASSUME TypeInv, ListGrows, NEW p
  PROVE  /\ IsListed(p) => IsListed(p)'
         /\ \A q : (\E i, j \in DOMAIN order : i <= j /\ order[i] = q /\ order[j] = p)
                     => \E i, j \in DOMAIN order' : i <= j /\ order'[i] = q /\ order'[j] = p
<1>1. order \in Seq(Batches) /\ \A i \in DOMAIN order : i \in Int
  BY DEF TypeInv, NotesOK
<1>2. CASE order' = order
  BY <1>2 DEF IsListed
<1>3. ASSUME NEW r \in Requests, order' = <<r>> \o order
      PROVE  /\ IsListed(p) => IsListed(p)'
             /\ \A q : (\E i, j \in DOMAIN order : i <= j /\ order[i] = q /\ order[j] = p)
                         => \E i, j \in DOMAIN order' : i <= j /\ order'[i] = q /\ order'[j] = p
  <2>0. r \in Batches
    BY DEF Batches
  <2>1. \A i \in DOMAIN order : i + 1 \in DOMAIN order' /\ order'[i + 1] = order[i]
    BY <1>1, <1>3, <2>0, GrownList
  <2>2. IsListed(p) => IsListed(p)'
    BY <2>1 DEF IsListed
  <2>3. ASSUME NEW q, NEW i \in DOMAIN order, NEW j \in DOMAIN order,
               i <= j, order[i] = q, order[j] = p
        PROVE  \E k, l \in DOMAIN order' : k <= l /\ order'[k] = q /\ order'[l] = p
    <3>1. i + 1 <= j + 1
      BY <1>1, <2>3
    <3> QED BY <2>1, <2>3, <3>1
  <2> QED BY <2>2, <2>3
<1> QED BY <1>2, <1>3 DEF ListGrows

\* What a step can make of the inboxes.
LEMMA NewNotes ==
  ASSUME TypeInv, NEW r \in Requests, StepOf(r)
  PROVE  /\ \A b \in Batches, u \in Users : note'[b][u] # "none" =>
              note[b][u] # "none" \/ (b = r /\ At(r, "notify", "writing"))
         /\ tx[r].pc = "idle" /\ tx'[r].op = "notify" => order' = <<r>> \o order
<1>1. CASE (Registers(r) \/ Switches(r) \/ Dispatches(r)) /\ UNCHANGED inbox
  BY <1>1, StepsOfDevices DEF QuietStep, NotesStay
<1>2. CASE Notifies(r)
  BY <1>2, StepsOfNotifiers
<1>3. CASE Withdraws(r)
  BY <1>3, StepsOfLeavers DEF QuietStep, NotesStay, At
<1>4. CASE \/ Refused(r) /\ UNCHANGED <<account, token, note, order>>
           \/ Browses(r) \/ Reads(r)
  BY <1>4, StepsOfReaders DEF QuietStep, NotesStay
<1> QED BY <1>1, <1>2, <1>3, <1>4 DEF StepOf

LEMMA OrderInvStep ==
  ASSUME TypeInv, OrderInv, NEW r \in Requests, StepOf(r)
  PROVE  OrderInv'
<1>1. Alone(r) /\ (Begins(r, tx'[r].op) \/ Goes(r)) /\ ListGrows
  BY Moves
<1>2. ASSUME NEW b \in Batches, NEW u \in Users, note'[b][u] # "none"
      PROVE  IsListed(b)' /\ (b \in Requests => tx'[b].op = "notify")
  <2>1. IsListed(b) /\ (b \in Requests => tx[b].op = "notify")
    <3>1. note[b][u] # "none" \/ (b = r /\ At(r, "notify", "writing"))
      BY <1>2, NewNotes
    <3>2. At(r, "notify", "writing") => IsListed(r) /\ tx[r].op = "notify"
      BY DEF OrderInv, At
    <3> QED BY <3>1, <3>2 DEF OrderInv
  <2>2. b \in Requests => tx'[b].op = "notify"
    BY <1>1, <2>1 DEF Alone, Begins, Goes
  <2> QED BY <1>1, <2>1, <2>2, ListedStays
<1>3. ASSUME NEW s \in Requests, At(s, "notify", "writing")'
      PROVE  IsListed(s)'
  <2>1. CASE At(s, "notify", "writing")
    BY <1>1, <2>1, ListedStays DEF OrderInv
  <2>2. CASE ~At(s, "notify", "writing") /\ tx[s].pc # "idle"
    <3>1. s = r /\ Goes(r)
      BY <1>1, <1>3, <2>2 DEF Alone, At, Begins
    <3>2. FALSE
      <4>1. CASE Notifies(r)
        BY <1>3, <2>2, <3>1, <4>1, StepsOfNotifiers DEF At, Goes
      <4>2. CASE (Registers(r) \/ Switches(r) \/ Dispatches(r)) /\ UNCHANGED inbox
        <5>1. CASE Dispatches(r)
          <6>1. tx'[r].pc \in {"done", "sending"}
            BY <4>2, <5>1, DispatchSkipsStep, DispatchFailsStep, DispatchSelectsStep, SendStep,
               DispatchEndsStep DEF Dispatches
          <6> QED BY <1>3, <3>1, <6>1 DEF At
        <5>2. CASE Registers(r) \/ Switches(r)
          <6>1. tx[r].op \in {"none", "register", "settings"}
            BY <5>2, <3>1 DEF Registers, Switches, RegisterCheck, RegisterFind, RegisterUpdates,
               RegisterInserts, SettingsCheck, SettingsCommit, At, Goes
          <6> QED BY <1>3, <3>1, <6>1 DEF At, Goes
        <5> QED BY <4>2, <5>1, <5>2
      <4>3. CASE Withdraws(r)
        BY <1>3, <3>1, <4>3, StepsOfLeavers DEF At, Goes, Begins
      <4>4. CASE \/ Refused(r) /\ UNCHANGED <<account, token, note, order>>
                 \/ Browses(r) \/ Reads(r)
        BY <1>3, <3>1, <4>4, ReadsOnlyStep DEF Aside, At
      <4> QED BY <4>1, <4>2, <4>3, <4>4 DEF StepOf
    <3> QED BY <3>2
  <2>3. CASE tx[s].pc = "idle"
    <3>1. s = r
      BY <1>1, <1>3, <2>3 DEF Alone, At
    <3>2. order' = <<s>> \o order /\ order \in Seq(Batches) /\ s \in Batches
      BY <1>3, <2>3, <3>1, NewNotes DEF At, TypeInv, NotesOK, Batches
    <3>3. 1 \in DOMAIN order' /\ order'[1] = s
      BY <3>2, GrownList
    <3> QED BY <3>3 DEF IsListed
  <2> QED BY <2>1, <2>2, <2>3
<1> QED BY <1>2, <1>3 DEF OrderInv

LEMMA OrderInvInit == Init => OrderInv
<1> SUFFICES ASSUME Init PROVE OrderInv
  OBVIOUS
<1>1. \A b \in Batches, u \in Users : note[b][u] # "none" => b \in OldNotes
  BY DEF Init
<1>2. \A b \in OldNotes : IsListed(b)
  BY OldNotesAreRows DEF Init, IsListed
<1>3. \A r \in Requests : tx[r].pc = "idle"
  BY DEF Init, Idle
<1> QED BY <1>1, <1>2, <1>3 DEF OrderInv, At

\* Everything that does not withdraw, or withdraws another user, leaves the rows.
LEMMA ListStays ==
  ASSUME TypeInv, OrderInv, NEW r \in Requests, StepOf(r), NEW u \in Users, NEW filtered,
         \/ ~(Goes(r) /\ tx[r].op = "withdraw")
         \/ ~filtered /\ tx[r].user # u
  PROVE  Listed(u, filtered) \subseteq Listed(u, filtered)'
<1> SUFFICES ASSUME NEW b \in Listed(u, filtered) PROVE b \in Listed(u, filtered)'
  OBVIOUS
<1>1. b \in Batches /\ Shown(note[b][u]) /\ (filtered => InRoom(b))
  BY DEF Listed, Shown
<1>2. CASE Withdraws(r) /\ Goes(r)
  <2>1. tx[r].op = "withdraw" /\ note'[b][u] = note[b][u]
    BY <1>1, <1>2, StepsOfLeavers DEF Begins, At, Goes
  <2> QED BY <1>1, <1>2, <2>1 DEF Listed, Shown
<1>3. CASE ~(Withdraws(r) /\ Goes(r))
  <2>1. Shown(note'[b][u]) /\ AccountsStay
    <3>1. CASE Withdraws(r)
      BY <1>1, <1>3, <3>1, StepsOfLeavers DEF QuietStep, NotesStay
    <3>2. CASE Notifies(r)
      BY <1>1, <3>2, StepsOfNotifiers DEF AccountsStay
    <3>3. CASE (Registers(r) \/ Switches(r) \/ Dispatches(r)) /\ UNCHANGED inbox
      BY <1>1, <3>3, StepsOfDevices DEF QuietStep, NotesStay
    <3>4. CASE \/ Refused(r) /\ UNCHANGED <<account, token, note, order>>
               \/ Browses(r) \/ Reads(r)
      BY <1>1, <3>4, StepsOfReaders DEF QuietStep, NotesStay
    <3> QED BY <3>1, <3>2, <3>3, <3>4 DEF StepOf
  <2>2. Voter(b)' = Voter(b) /\ Voter(b) \in Users \cup {NULL}
    <3>1. CASE b \in OldNotes
      BY <3>1, OldNotesAreRows DEF Voter
    <3>2. CASE b \in Requests
      <4>1. tx[b].op = "notify"
        BY <1>1, <3>2 DEF OrderInv, Shown
      <4>2. tx[b].device \in Users \cup {NULL}
        BY <3>2, <4>1 DEF TypeInv, TxOK
      <4>3. tx'[b].device = tx[b].device
        BY <3>2, <4>1, Moves DEF Alone, Begins, Goes
      <4> QED BY <3>2, <4>2, <4>3 DEF Voter
    <3> QED BY <1>1, <3>1, <3>2 DEF Batches
  <2>3. filtered => InRoom(b)'
    BY <1>1, <2>1, <2>2 DEF InRoom, AccountsStay
  <2> QED BY <1>1, <2>1, <2>3 DEF Listed, Shown
<1> QED BY <1>2, <1>3

LEMMA UndisturbedStep ==
  ASSUME TypeInv, OrderInv, NEW r \in Requests, StepOf(r), NEW s \in Requests,
         NEW u \in Users, NEW filtered \in BOOLEAN,
         tx[s].op = "browse", tx[s].user = u, tx[s].filtered = filtered,
         ~tx[s].torn, Undisturbed(s)'
  PROVE  /\ Undisturbed(s)
         /\ tx'[s].user = u /\ tx'[s].filtered = filtered /\ tx'[s].there = tx[s].there
         /\ tx[s].pc # "done" => Listed(u, filtered) \subseteq Listed(u, filtered)'
<1>1. /\ Alone(r) /\ (Begins(r, tx'[r].op) \/ Goes(r)) /\ tx[r].pc # "done"
      /\ tx'[s].before = tx[s].before /\ tx'[s].user = u /\ tx'[s].filtered = filtered
      /\ tx'[s].there = tx[s].there
  <2>1. Alone(r) /\ (Begins(r, tx'[r].op) \/ Goes(r))
    BY Moves
  <2>2. tx[r].pc # "done"
    BY <2>1 DEF Begins, Goes
  <2>3. CASE s = r
    BY <2>1, <2>2, <2>3 DEF Begins, Goes
  <2>4. CASE s # r
    BY <2>1, <2>2, <2>4 DEF Alone
  <2> QED BY <2>3, <2>4
<1>2. ASSUME NEW w \in Requests, tx[w].op = "withdraw", Succeeded(w), Overlap(s, w),
             filtered \/ tx[w].user = u
      PROVE  FALSE
  <2>1. tx'[w] = tx[w]
    BY <1>1, <1>2 DEF Succeeded, Alone
  <2>2. Overlap(s, w)' /\ Succeeded(w)'
    BY <1>1, <1>2, <2>1 DEF Overlap, Succeeded
  <2> QED BY <1>1, <1>2, <2>1, <2>2 DEF Undisturbed
<1>3. ASSUME tx[s].pc # "done", Goes(r), tx[r].op = "withdraw"
      PROVE  ~filtered /\ tx[r].user # u
  <2>1. Withdraws(r)
    <3>1. tx'[r].op = "withdraw"
      BY <1>3 DEF Goes
    <3>2. ~((Registers(r) \/ Switches(r) \/ Dispatches(r)) /\ UNCHANGED inbox)
      BY <1>3 DEF Goes, Registers, Switches, Dispatches, RegisterCheck, RegisterFind,
         RegisterUpdates, RegisterInserts, SettingsCheck, SettingsCommit, DispatchSkips,
         DispatchFails, DispatchSelects, Send, DispatchEnds, At
    <3>3. ~Notifies(r)
      BY <3>1, StepsOfNotifiers
    <3>4. ~(\/ Refused(r) /\ UNCHANGED <<account, token, note, order>>
            \/ Browses(r) \/ Reads(r))
      BY <3>1, ReadsOnlyStep DEF Aside
    <3> QED BY <3>2, <3>3, <3>4 DEF StepOf
  <2>2. tx'[r].pc = "done" /\ tx'[r].result = "ok"
    BY <1>3, <2>1, StepsOfLeavers DEF Begins, Goes
  <2>3. Succeeded(r)' /\ tx'[r].op = "withdraw" /\ tx'[r].before = tx[r].before
        /\ tx'[r].user = tx[r].user
    BY <1>3, <2>2 DEF Succeeded, Goes
  <2>4. s # r /\ s \notin tx[r].before /\ r \notin tx[s].before
    BY <1>1, <1>3 DEF TypeInv, TxOK, Finished
  <2>5. Overlap(s, r)'
    BY <1>1, <2>3, <2>4 DEF Overlap
  <2> QED BY <1>1, <2>3, <2>5 DEF Undisturbed
<1>4. tx[s].pc # "done" => Listed(u, filtered) \subseteq Listed(u, filtered)'
  BY <1>1, <1>3, ListStays
<1>5. Undisturbed(s)
  BY <1>2 DEF Undisturbed
<1> QED BY <1>1, <1>4, <1>5

LEMMA RankFacts ==
  ASSUME TypeInv, NEW u \in Users, NEW filtered, NEW b
  PROVE  /\ Rank(u, filtered, b) \in Nat /\ Cardinality(Listed(u, filtered)) \in Nat
         /\ Rank(u, filtered, b) <= Cardinality(Listed(u, filtered))
         /\ IsFiniteSet(RowsDownTo(Listed(u, filtered), b))
         /\ OrderInv /\ b \in Listed(u, filtered) => Rank(u, filtered, b) > 0
<1> DEFINE listed == Listed(u, filtered)
           rows == RowsDownTo(listed, b)
<1>1. IsFiniteSet(listed) /\ Cardinality(listed) \in Nat
  BY ListedAreNotified
<1>2. rows \in SUBSET listed
  BY DEF RowsDownTo
<1>3. ASSUME OrderInv, b \in listed
      PROVE  b \in rows
  <2>1. b \in Batches /\ note[b][u] # "none"
    BY <1>3 DEF Listed
  <2>2. PICK i \in DOMAIN order : order[i] = b
    BY <1>3, <2>1 DEF OrderInv, IsListed
  <2>3. order \in Seq(Batches)
    BY DEF TypeInv, NotesOK
  <2>4. i <= i
    BY <2>2, <2>3
  <2> QED BY <1>3, <2>2, <2>4 DEF RowsDownTo
<1> HIDE DEF listed, rows
<1>4. IsFiniteSet(rows) /\ Cardinality(rows) <= Cardinality(listed)
  BY <1>1, <1>2, FS_Subset
<1>5. Cardinality(rows) \in Nat
  BY <1>4, FS_CardinalityType
<1>6. rows # {} => Cardinality(rows) # 0
  BY <1>4, FS_EmptySet
<1> QED BY <1>1, <1>3, <1>4, <1>5, <1>6 DEF listed, rows, Rank

\* Rows only come in before a row: it never moves up.
LEMMA RanksGrow ==
  ASSUME TypeInv, TypeInv', ListGrows, NEW u \in Users, NEW filtered, NEW b,
         Listed(u, filtered) \subseteq Listed(u, filtered)'
  PROVE  Rank(u, filtered, b) <= Rank(u, filtered, b)' /\ Rank(u, filtered, b)' \in Nat
<1> DEFINE now == RowsDownTo(Listed(u, filtered), b)
           later == RowsDownTo(Listed(u, filtered), b)'
<1>1. now \in SUBSET later
  BY ListedStays DEF RowsDownTo
<1>2. later \in SUBSET (Listed(u, filtered)')
  BY DEF RowsDownTo
<1>3. IsFiniteSet(Listed(u, filtered)')
  <2>1. Listed(u, filtered)' \in SUBSET (Notified')
    BY DEF Listed, Notified
  <2>2. IsFiniteSet(Notified')
    BY DEF TypeInv, NotesOK
  <2> QED BY <2>1, <2>2, FS_Subset
<1> HIDE DEF now, later
<1>4. IsFiniteSet(later)
  BY <1>2, <1>3, FS_Subset
<1>5. IsFiniteSet(now) /\ Cardinality(now) <= Cardinality(later)
  BY <1>1, <1>4, FS_Subset
<1>6. Cardinality(later) \in Nat
  BY <1>4, FS_CardinalityType
<1> QED BY <1>5, <1>6 DEF now, later, Rank

\* What the invariant says of a request that scrolls.
Scrolls(r, u, filtered) ==
  /\ Succeeded(r) => tx[r].there \subseteq tx[r].seen
  /\ tx[r].pc # "done" =>
       \A b \in tx[r].there :
         /\ b \in Listed(u, filtered)
         /\ b \in tx[r].seen \/ Rank(u, filtered, b) > tx[r].page * PageSize

LEMMA OthersScrollOn ==
  ASSUME TypeInv, TypeInv', OrderInv, ScrollInv, NEW r \in Requests, StepOf(r),
         NEW s \in Requests, NEW u \in Users, NEW filtered \in BOOLEAN,
         tx'[s] = tx[s], tx[s].op = "browse", tx[s].user = u, tx[s].filtered = filtered,
         Undisturbed(s)'
  PROVE  Scrolls(s, u, filtered)'
<1>1. ~tx[s].torn
  BY DEF Undisturbed
<1>2. /\ Undisturbed(s)
      /\ tx[s].pc # "done" => Listed(u, filtered) \subseteq Listed(u, filtered)'
  BY <1>1, UndisturbedStep
<1>3. ASSUME tx[s].pc # "done", NEW b \in tx[s].there
      PROVE  /\ b \in Listed(u, filtered)'
             /\ b \in tx[s].seen \/ Rank(u, filtered, b)' > tx[s].page * PageSize
  <2>1. /\ b \in Listed(u, filtered)
        /\ b \in tx[s].seen \/ Rank(u, filtered, b) > tx[s].page * PageSize
    BY <1>2, <1>3 DEF ScrollInv
  <2>2. /\ Rank(u, filtered, b) <= Rank(u, filtered, b)' /\ Rank(u, filtered, b)' \in Nat
        /\ Rank(u, filtered, b) \in Nat
    BY <1>2, <1>3, RanksGrow, RankFacts, Moves
  <2>3. tx[s].page \in Nat /\ PageSize \in Nat
    BY DEF TypeInv, TxRecord
  <2>4. tx[s].page * PageSize \in Nat
    BY <2>3
  <2> QED BY <1>2, <1>3, <2>1, <2>2, <2>4
<1>4. Succeeded(s) => tx[s].there \subseteq tx[s].seen
  BY <1>2 DEF ScrollInv
<1> QED BY <1>3, <1>4 DEF Scrolls, Succeeded

LEMMA BrowseCountScrolls ==
  ASSUME TypeInv, OrderInv, ScrollInv, NEW r \in Requests, NEW u \in Users,
         NEW filtered \in BOOLEAN, BrowseCount(r, u, filtered), StepOf(r), Undisturbed(r)'
  PROVE  Scrolls(r, u, filtered)'
<1>1. /\ UNCHANGED <<account, token, note, order>> /\ tx'[r].pc = "reading"
      /\ \/ /\ Begins(r, "browse") /\ tx'[r].there = Listed(u, filtered)
            /\ tx'[r].seen = {} /\ tx'[r].page = 0
         \/ /\ Goes(r) /\ At(r, "browse", "between")
            /\ tx[r].user = u /\ tx[r].filtered = filtered
            /\ tx'[r].seen = tx[r].seen /\ tx'[r].page = tx[r].page
            /\ tx'[r].torn = tx[r].torn
  BY BrowseCountStep
<1>2. Alone(r)
  BY Moves
<1>3. CASE Begins(r, "browse")
  <2>1. tx'[r].there = Listed(u, filtered) /\ tx'[r].seen = {} /\ tx'[r].page = 0
    BY <1>1, <1>3 DEF Begins, Goes
  <2>2. tx'[r].page * PageSize = 0
    BY <2>1
  <2>3. \A b \in Listed(u, filtered) : Rank(u, filtered, b) > 0
    BY RankFacts
  <2>4. /\ Listed(u, filtered)' = Listed(u, filtered)
        /\ \A b : Rank(u, filtered, b)' = Rank(u, filtered, b)
    <3>1. \A b \in Batches : note[b][u] # "none" => Voter(b)' = Voter(b)
      BY <1>2, <1>3 DEF Voter, OrderInv, Alone, Begins, Batches
    <3>2. Listed(u, filtered)' = Listed(u, filtered)
      BY <1>1, <3>1 DEF Listed, InRoom
    <3> QED BY <1>1, <3>2 DEF Rank, RowsDownTo
  <2> QED BY <1>1, <2>1, <2>2, <2>3, <2>4 DEF Scrolls, Succeeded
<1>4. CASE ~Begins(r, "browse")
  <2>1. /\ tx[r].op = "browse" /\ tx[r].user = u /\ tx[r].filtered = filtered
        /\ tx[r].pc # "done" /\ tx'[r].seen = tx[r].seen /\ tx'[r].page = tx[r].page
        /\ tx'[r].torn = tx[r].torn
    BY <1>1, <1>4 DEF At
  <2>2. ~tx[r].torn
    BY <2>1 DEF Undisturbed
  <2>3. Undisturbed(r) /\ tx'[r].there = tx[r].there
    BY <2>1, <2>2, UndisturbedStep
  <2>4. \A b \in tx[r].there :
          /\ b \in Listed(u, filtered)
          /\ b \in tx[r].seen \/ Rank(u, filtered, b) > tx[r].page * PageSize
    BY <2>1, <2>3 DEF ScrollInv
  <2>5. /\ Listed(u, filtered)' = Listed(u, filtered)
        /\ \A b : Rank(u, filtered, b)' = Rank(u, filtered, b)
    <3>1. \A b \in Batches : note[b][u] # "none" => Voter(b)' = Voter(b)
      BY <1>1, <1>2, <1>4 DEF Voter, OrderInv, Alone, Goes, Batches
    <3>2. Listed(u, filtered)' = Listed(u, filtered)
      BY <1>1, <3>1 DEF Listed, InRoom
    <3> QED BY <1>1, <3>2 DEF Rank, RowsDownTo
  <2> QED BY <1>1, <2>1, <2>3, <2>4, <2>5 DEF Scrolls, Succeeded
<1> QED BY <1>3, <1>4

LEMMA BrowseRowsScrolls ==
  ASSUME TypeInv, OrderInv, ScrollInv, NEW r \in Requests, BrowseRows(r), StepOf(r),
         NEW u \in Users, NEW filtered \in BOOLEAN, tx[r].user = u, tx[r].filtered = filtered,
         Undisturbed(r)'
  PROVE  Scrolls(r, u, filtered)'
<1> DEFINE page == tx[r].page
           listed == Listed(u, filtered)
           last == ~HasNext(page, tx[r].count)
<1>1. /\ UNCHANGED <<account, token, note, order>> /\ Alone(r) /\ Goes(r)
      /\ At(r, "browse", "reading")
      /\ tx'[r].pc = (IF last THEN "done" ELSE "between")
      /\ tx'[r].seen = tx[r].seen \cup PageRows(listed, page)
      /\ ~last => tx'[r].page = page + 1
      /\ tx'[r].torn = (tx[r].torn \/ Cardinality(listed) > tx[r].count)
  BY BrowseRowsStep
<1>2. /\ Listed(u, filtered)' = listed
      /\ \A b : Rank(u, filtered, b)' = Rank(u, filtered, b)
  <2>1. \A b \in Batches : note[b][u] # "none" => Voter(b)' = Voter(b)
    BY <1>1 DEF Voter, OrderInv, Alone, Goes, Batches
  <2>2. Listed(u, filtered)' = Listed(u, filtered)
    BY <1>1, <2>1 DEF Listed, InRoom
  <2> QED BY <1>1, <2>2 DEF Rank, RowsDownTo
<1>3. ~tx[r].torn /\ ~(Cardinality(listed) > tx[r].count)
  BY <1>1 DEF Undisturbed
<1>4. Undisturbed(r) /\ tx'[r].there = tx[r].there
  BY <1>1, <1>3, UndisturbedStep DEF At
<1>5. page \in Nat /\ tx[r].count \in Nat /\ PageSize \in Nat
  BY DEF TypeInv, TxRecord
<1>6. page * PageSize \in Nat /\ (page + 1) * PageSize \in Nat
  BY <1>5
<1> HIDE DEF page, listed
<1>7. ASSUME NEW b \in tx[r].there
      PROVE  /\ b \in listed
             /\ b \in tx'[r].seen \/ Rank(u, filtered, b) > (page + 1) * PageSize
  <2>1. /\ b \in listed
        /\ b \in tx[r].seen \/ Rank(u, filtered, b) > page * PageSize
    BY <1>1, <1>4 DEF ScrollInv, At, page, listed
  <2>2. Rank(u, filtered, b) \in Nat
    BY RankFacts
  <2>3. CASE Rank(u, filtered, b) \in page * PageSize + 1 .. (page + 1) * PageSize
    BY <1>1, <2>1, <2>3 DEF PageRows, Rank, listed
  <2>4. CASE Rank(u, filtered, b) \notin page * PageSize + 1 .. (page + 1) * PageSize
    BY <1>1, <1>6, <2>1, <2>2, <2>4
  <2> QED BY <2>1, <2>3, <2>4
<1>8. ASSUME last, NEW b \in tx[r].there
      PROVE  b \in tx'[r].seen
  <2>1. tx[r].count <= (page + 1) * PageSize
    BY <1>5, <1>8, LastPage
  <2>2. /\ Rank(u, filtered, b) \in Nat /\ Cardinality(listed) \in Nat
        /\ Rank(u, filtered, b) <= Cardinality(listed)
    BY RankFacts DEF listed
  <2> QED BY <1>3, <1>5, <1>6, <1>7, <2>1, <2>2
<1> HIDE DEF last
<1> QED BY <1>1, <1>2, <1>4, <1>7, <1>8 DEF Scrolls, Succeeded

LEMMA ScrollInvStep ==
  ASSUME TypeInv, OrderInv, ScrollInv, NEW r \in Requests, StepOf(r)
  PROVE  ScrollInv'
<1> SUFFICES ASSUME NEW s \in Requests, NEW u \in Users, NEW filtered \in BOOLEAN,
                    tx'[s].op = "browse", tx'[s].user = u, tx'[s].filtered = filtered,
                    Undisturbed(s)'
             PROVE  Scrolls(s, u, filtered)'
  BY DEF ScrollInv, Scrolls
<1>1. TypeInv' /\ Alone(r) /\ (Begins(r, tx'[r].op) \/ Goes(r))
  BY Moves
<1>2. CASE s # r
  <2>1. tx'[s] = tx[s]
    BY <1>1, <1>2 DEF Alone
  <2> QED BY <1>1, <2>1, OthersScrollOn
<1>3. CASE s = r
  <2>1. Browses(r)
    <3>1. ~((Registers(r) \/ Switches(r) \/ Dispatches(r)) /\ UNCHANGED inbox)
      BY <1>3, StepsOfDevices
    <3>2. ~Notifies(r)
      BY <1>3, StepsOfNotifiers
    <3>3. ~Withdraws(r)
      BY <1>3, StepsOfLeavers DEF Begins, Goes, At
    <3>4. ASSUME NEW v \in Users, IsRefused(r, v), UNCHANGED <<account, token, note, order>>
          PROVE  FALSE
      BY <1>3, <3>4, IsRefusedStep DEF Begins
    <3>5. ASSUME NEW v \in Readers, ReadAll(r, v) \/ \E b \in Batches : ReadNotification(r, v, b)
          PROVE  FALSE
      <4>1. v \in Users
        BY ReadersAreUsers
      <4> QED BY <1>3, <3>5, <4>1, ReadAllStep, ReadNotificationStep DEF Begins
    <3> QED BY <3>1, <3>2, <3>3, <3>4, <3>5 DEF StepOf, Refused, Reads
  <2>2. CASE \E v \in Readers, f \in BOOLEAN : BrowseCount(r, v, f)
    <3>1. PICK v \in Readers, f \in BOOLEAN : BrowseCount(r, v, f)
      BY <2>2
    <3>2. v \in Users
      BY ReadersAreUsers
    <3>3. tx'[r].user = v /\ tx'[r].filtered = f
      BY <3>1, <3>2, BrowseCountStep
    <3>4. BrowseCount(r, u, filtered)
      BY <1>3, <3>1, <3>3
    <3> QED BY <1>3, <3>4, BrowseCountScrolls
  <2>3. CASE BrowseRows(r)
    <3>1. tx[r].user = u /\ tx[r].filtered = filtered
      BY <1>3, <2>3, BrowseRowsStep DEF Goes
    <3> QED BY <1>3, <2>3, <3>1, BrowseRowsScrolls
  <2>4. CASE BrowseRefused(r)
    BY <1>3, <2>4, BrowseRefusedStep DEF Scrolls, Succeeded
  <2> QED BY <2>1, <2>2, <2>3, <2>4 DEF Browses
<1> QED BY <1>2, <1>3

LEMMA ScrollInvNext ==
  ASSUME TypeInv, OrderInv, ScrollInv, [Next]_vars
  PROVE  OrderInv' /\ ScrollInv'
<1>1. CASE UNCHANGED vars
  <2>1. OrderInv'
    BY <1>1 DEF vars, OrderInv, IsListed, At
  <2>2. \A s \in Requests : Undisturbed(s)' <=> Undisturbed(s)
    BY <1>1 DEF vars, Undisturbed, Succeeded, Overlap
  <2>3. \A u \in Users, filtered \in BOOLEAN :
          /\ Listed(u, filtered)' = Listed(u, filtered)
          /\ \A b : Rank(u, filtered, b)' = Rank(u, filtered, b)
    <3>1. \A u \in Users, filtered \in BOOLEAN : Listed(u, filtered)' = Listed(u, filtered)
      BY <1>1 DEF vars, Listed, InRoom, Voter
    <3> QED BY <1>1, <3>1 DEF vars, Rank, RowsDownTo
  <2>4. ScrollInv'
    BY <1>1, <2>2, <2>3 DEF vars, ScrollInv, Succeeded
  <2> QED BY <2>1, <2>4
<1>2. ASSUME NEW r \in Requests, StepOf(r)
      PROVE  OrderInv' /\ ScrollInv'
  BY <1>2, OrderInvStep, ScrollInvStep
<1> QED BY <1>1, <1>2 DEF Next, StepOf

LEMMA ScrollInvInit == Init => ScrollInv
BY DEF Init, ScrollInv, Idle

\* Scrolling to the last page shows every notification that was there all along,
\* for any page size and any number of notifications, while others are written,
\* read and deleted and, in the list of one room, nobody withdraws.
THEOREM ScrollingIsComplete == Spec => []ScrollingMissesNothing
<1>1. TypeInv /\ OrderInv /\ ScrollInv /\ [Next]_vars => OrderInv' /\ ScrollInv'
  BY ScrollInvNext
<1>2. Spec => [](OrderInv /\ ScrollInv)
  BY <1>1, TypeInvHolds, OrderInvInit, ScrollInvInit, PTL DEF Spec
<1>3. TypeInv /\ ScrollInv => ScrollingMissesNothing
  BY ScrollInvImplies
<1> QED BY <1>2, <1>3, TypeInvHolds, PTL

=============================================================================
