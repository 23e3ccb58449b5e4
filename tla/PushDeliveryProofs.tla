------------------------- MODULE PushDeliveryProofs -------------------------
(***************************************************************************)
(* The proof that the pushes of PushDelivery, in the system of             *)
(* NotificationInbox, follow what its requests have been answered, for any *)
(* number of users, devices and requests.                                  *)
(***************************************************************************)
EXTENDS NotificationInboxProofs

USE NullIsNothing, RequestsAreNew, OldNotesAreNew

-----------------------------------------------------------------------------
(* What the words of the requests and the rows of the devices become       *)

\* Only the handlers of an operation advance its requests.
LEMMA OpOfStep ==
  ASSUME TypeInv, NEW q \in Requests, StepOf(q)
  PROVE  /\ tx'[q].op = "register" => Registers(q) /\ UNCHANGED inbox
         /\ tx'[q].op = "settings" => Switches(q) /\ UNCHANGED inbox
         /\ tx'[q].op = "withdraw" => Withdraws(q)
         /\ tx'[q].op = "notify" => Notifies(q) \/ (Dispatches(q) /\ UNCHANGED inbox)
<1>1. CASE Registers(q) /\ UNCHANGED inbox
  <2>1. tx'[q].op = "register"
    <3>1. ASSUME NEW u \in Users, NEW d \in Devices, RegisterCheck(q, u, d)
          PROVE  tx'[q].op = "register"
      BY <1>1, <3>1, RegisterCheckStep DEF Begins
    <3>2. ASSUME RegisterFind(q) \/ RegisterUpdates(q) \/ RegisterInserts(q)
          PROVE  tx'[q].op = "register"
      <4>1. Goes(q) /\ tx[q].op = "register"
        BY <1>1, <3>2, RegisterFindStep, RegisterUpdatesStep, RegisterInsertsStep DEF At
      <4> QED BY <4>1 DEF Goes
    <3> QED BY <1>1, <3>1, <3>2 DEF Registers
  <2> QED BY <1>1, <2>1
<1>2. CASE Switches(q) /\ UNCHANGED inbox
  <2>1. tx'[q].op = "settings"
    BY <1>2, SettingsCheckStep, SettingsCommitStep DEF Switches, Begins, Goes, At
  <2> QED BY <1>2, <2>1
<1>3. CASE Dispatches(q) /\ UNCHANGED inbox
  <2>1. tx'[q].op = "notify"
    BY <1>3, DispatchSkipsStep, DispatchFailsStep, DispatchSelectsStep, SendStep, DispatchEndsStep
       DEF Dispatches, Goes, At
  <2> QED BY <1>3, <2>1
<1>4. CASE Notifies(q)
  BY <1>4, StepsOfNotifiers
<1>5. CASE Withdraws(q)
  <2>1. tx'[q].op = "withdraw"
    BY <1>5, StepsOfLeavers DEF Begins, Goes, At
  <2> QED BY <1>5, <2>1
<1>6. CASE \/ Refused(q) /\ UNCHANGED <<account, token, note, order>>
           \/ Browses(q) \/ Reads(q)
  BY <1>6, ReadsOnlyStep DEF Aside
<1> QED BY <1>1, <1>2, <1>3, <1>4, <1>5, <1>6 DEF StepOf

\* What a request is about is settled when it begins, and a request that has
\* ended stays as it is; nothing begins after one that has not ended.
LEMMA Steady ==
  ASSUME TypeInv, NEW q \in Requests, StepOf(q), NEW s \in Requests
  PROVE  /\ tx[s].op # "none" =>
              /\ tx'[s].op = tx[s].op /\ tx'[s].before = tx[s].before
              /\ tx'[s].user = tx[s].user /\ tx'[s].device = tx[s].device
              /\ tx'[s].patch = tx[s].patch /\ tx'[s].type = tx[s].type
              /\ tx'[s].users = tx[s].users /\ tx[s].invalid \subseteq tx'[s].invalid
         /\ tx[s].pc = "done" => tx'[s] = tx[s] /\ s # q
         /\ s # q => tx'[s] = tx[s]
         /\ tx[q].pc # "done" /\ q \notin tx[s].before
         /\ q \notin tx'[s].before
<1>1. Alone(q) /\ (Begins(q, tx'[q].op) \/ Goes(q))
  BY Moves
<1>2. tx[q].pc # "done"
  BY <1>1 DEF Begins, Goes
<1>3. q \notin tx[s].before /\ q \notin Finished
  BY <1>2 DEF TypeInv, TxOK, Finished
<1>4. CASE s = q
  BY <1>1, <1>2, <1>3, <1>4 DEF Begins, Goes
<1>5. CASE s # q
  BY <1>1, <1>2, <1>3, <1>5 DEF Alone
<1> QED BY <1>4, <1>5

IsUpdated(q, t) ==
  /\ At(q, "register", "found") /\ FoundOK(q) /\ t = tx[q].id
  /\ tx'[q].pc = "done" /\ tx'[q].result = "ok"
  /\ token'[t].device = token[t].device /\ token'[t].deleted = token[t].deleted
  /\ token'[t].owner = IF tx[q].user # tx[q].read.owner THEN tx[q].user ELSE token[t].owner
  /\ token'[t].active = IF tx[q].read.active THEN token[t].active ELSE TRUE

IsInserted(q, t) ==
  /\ At(q, "register", "found") /\ t = q /\ TokensOf(tx[q].device) = {}
  /\ tx'[q].pc = "done" /\ tx'[q].result = "ok"
  /\ token[t].owner = NULL /\ token'[t].owner = tx[q].user
  /\ token'[t].device = tx[q].device /\ token'[t].active

IsMasked(q, t) ==
  /\ At(q, "withdraw", "checked") /\ t \in tx[q].had
  /\ token'[t].owner = token[t].owner /\ token'[t].device = NULL

IsDeactivated(q, t) ==
  /\ At(q, "notify", "sending") /\ tx'[q].pc = "done" /\ tx'[q].invalid = tx[q].invalid
  /\ token'[t].owner = token[t].owner /\ token'[t].device = token[t].device
  /\ token'[t].deleted = token[t].deleted
  /\ token'[t].active <=> token[t].active /\ token[t].device \notin tx[q].invalid

LEMMA TokenChanges ==
  ASSUME TypeInv, NEW q \in Requests, StepOf(q), NEW t \in Tokens
  PROVE  \/ token'[t] = token[t]
         \/ IsUpdated(q, t) \/ IsInserted(q, t) \/ IsMasked(q, t) \/ IsDeactivated(q, t)
<1>1. CASE Registers(q) /\ UNCHANGED inbox
  <2>1. ASSUME NEW u \in Users, NEW d \in Devices, RegisterCheck(q, u, d)
        PROVE  token' = token
    BY <2>1 DEF RegisterCheck
  <2>2. CASE RegisterFind(q)
    BY <2>2 DEF RegisterFind
  <2>3. CASE RegisterUpdates(q)
    <3>1. CASE t = tx[q].id
      <4>1. IsUpdated(q, tx[q].id)
        BY <1>1, <2>3, RegisterUpdatesStep DEF IsUpdated
      <4> QED BY <3>1, <4>1
    <3>2. CASE t # tx[q].id
      BY <1>1, <2>3, <3>2, RegisterUpdatesStep
    <3> QED BY <3>1, <3>2
  <2>4. CASE RegisterInserts(q)
    BY <1>1, <2>4, RegisterInsertsStep DEF IsInserted
  <2> QED BY <1>1, <2>1, <2>2, <2>3, <2>4 DEF Registers
<1>2. CASE Switches(q)
  BY <1>2 DEF Switches, SettingsCheck, SettingsCommit
<1>3. CASE Dispatches(q) /\ UNCHANGED inbox
  <2>1. CASE DispatchEnds(q)
    BY <1>3, <2>1, DispatchEndsStep DEF IsDeactivated
  <2>2. CASE ~DispatchEnds(q)
    BY <1>3, <2>2 DEF Dispatches, DispatchSkips, DispatchFails, DispatchSelects, Send
  <2> QED BY <2>1, <2>2
<1>4. CASE Notifies(q)
  BY <1>4, StepsOfNotifiers
<1>5. CASE Withdraws(q)
  <2>1. ASSUME NEW u \in Users, WithdrawReads(q, u)
        PROVE  token' = token
    BY <2>1 DEF WithdrawReads
  <2>2. CASE WithdrawCommit(q)
    BY <2>2, WithdrawCommitStep DEF IsMasked
  <2> QED BY <1>5, <2>1, <2>2 DEF Withdraws
<1>6. CASE \/ Refused(q) /\ UNCHANGED <<account, token, note, order>>
           \/ Browses(q) \/ Reads(q)
  BY <1>6, ReadsOnlyStep DEF Aside
<1> QED BY <1>1, <1>2, <1>3, <1>4, <1>5, <1>6 DEF StepOf

\* Accounts are only ever closed, and switches only set by their requests.
LEMMA AccountChanges ==
  ASSUME TypeInv, NEW q \in Requests, StepOf(q), NEW u \in Users
  PROVE  \/ account'[u] = account[u]
         \/ /\ At(q, "withdraw", "checked") /\ tx[q].user = u
            /\ tx'[q].pc = "done" /\ tx'[q].result = "ok"
            /\ ~account'[u].active /\ account'[u].on = account[u].on
         \/ /\ At(q, "settings", "checked") /\ tx[q].user = u /\ tx[q].patch \in Patches
            /\ tx'[q].pc = "done" /\ tx'[q].result = "ok"
            /\ account'[u].active = account[u].active
            /\ account'[u].on = Switched(account[u].on, q)
<1>1. CASE Registers(q) /\ UNCHANGED inbox
  BY <1>1 DEF Registers, RegisterCheck, RegisterFind, RegisterUpdates, RegisterInserts
<1>2. CASE Switches(q) /\ UNCHANGED inbox
  <2>1. ASSUME NEW v \in Users, NEW patch \in Patches, SettingsCheck(q, v, patch)
        PROVE  account' = account
    BY <2>1 DEF SettingsCheck
  <2>2. CASE SettingsCommit(q)
    BY <1>2, <2>2, SettingsCommitStep
  <2> QED BY <1>2, <2>1, <2>2 DEF Switches
<1>3. CASE Dispatches(q)
  BY <1>3 DEF Dispatches, DispatchSkips, DispatchFails, DispatchSelects, Send, DispatchEnds
<1>4. CASE Notifies(q)
  BY <1>4, StepsOfNotifiers
<1>5. CASE Withdraws(q)
  <2>1. ASSUME NEW v \in Users, WithdrawReads(q, v)
        PROVE  account' = account
    BY <2>1 DEF WithdrawReads
  <2>2. CASE WithdrawCommit(q)
    BY <2>2, WithdrawCommitStep
  <2> QED BY <1>5, <2>1, <2>2 DEF Withdraws
<1>6. CASE \/ Refused(q) /\ UNCHANGED <<account, token, note, order>>
           \/ Browses(q) \/ Reads(q)
  BY <1>6, ReadsOnlyStep DEF Aside
<1> QED BY <1>1, <1>2, <1>3, <1>4, <1>5, <1>6 DEF StepOf

LEMMA RegisterMoves ==
  ASSUME TypeInv, NEW q \in Requests, StepOf(q), tx'[q].op = "register"
  PROVE  /\ UNCHANGED inbox
         /\ tx[q].op = "none" => /\ tx'[q].pc = "checked" /\ tx'[q].user \in Users
                                 /\ account[tx'[q].user].active
         /\ tx[q].op # "none" =>
              /\ tx[q].op = "register"
              /\ RegisterFind(q) \/ RegisterUpdates(q) \/ RegisterInserts(q)
<1>1. Registers(q) /\ UNCHANGED inbox
  BY OpOfStep
<1>2. ASSUME NEW u \in Users, NEW d \in Devices, RegisterCheck(q, u, d)
      PROVE  tx[q].op = "none" /\ tx'[q].pc = "checked" /\ tx'[q].user = u /\ account[u].active
  BY <1>1, <1>2, RegisterCheckStep DEF Begins
<1>3. CASE RegisterFind(q) \/ RegisterUpdates(q) \/ RegisterInserts(q)
  BY <1>1, <1>3 DEF RegisterFind, RegisterUpdates, RegisterInserts, At
<1> QED BY <1>1, <1>2, <1>3 DEF Registers

LEMMA SettingsMoves ==
  ASSUME TypeInv, NEW q \in Requests, StepOf(q), tx'[q].op = "settings"
  PROVE  /\ UNCHANGED inbox
         /\ tx[q].op = "none" =>
              /\ tx'[q].pc = "checked" /\ tx'[q].had = account[tx'[q].user].on
              /\ account' = account
         /\ tx[q].op # "none" => tx[q].op = "settings" /\ SettingsCommit(q)
<1>1. Switches(q) /\ UNCHANGED inbox
  BY OpOfStep
<1>2. ASSUME NEW u \in Users, NEW patch \in Patches, SettingsCheck(q, u, patch)
      PROVE  /\ tx[q].op = "none" /\ tx'[q].pc = "checked" /\ tx'[q].user = u
             /\ tx'[q].had = account[u].on /\ account' = account
  BY <1>1, <1>2, SettingsCheckStep DEF Begins
<1>3. CASE SettingsCommit(q)
  BY <1>1, <1>3 DEF SettingsCommit, At
<1> QED BY <1>1, <1>2, <1>3 DEF Switches

LEMMA WithdrawMoves ==
  ASSUME TypeInv, NEW q \in Requests, StepOf(q), tx'[q].op = "withdraw"
  PROVE  /\ tx[q].op = "none" =>
              /\ tx'[q].pc = "checked" /\ tx'[q].had = {t \in Tokens : token[t].owner = tx'[q].user}
              /\ token' = token
         /\ tx[q].op # "none" => tx[q].op = "withdraw" /\ WithdrawCommit(q)
<1>1. Withdraws(q)
  BY OpOfStep
<1>2. ASSUME NEW u \in Users, WithdrawReads(q, u)
      PROVE  /\ tx[q].op = "none" /\ tx'[q].pc = "checked" /\ tx'[q].user = u
             /\ tx'[q].had = {t \in Tokens : token[t].owner = u} /\ token' = token
  BY <1>2, WithdrawReadsStep DEF Begins
<1>3. CASE WithdrawCommit(q)
  BY <1>3 DEF WithdrawCommit, At
<1> QED BY <1>1, <1>2, <1>3 DEF Withdraws

-----------------------------------------------------------------------------
(* Withdrawn accounts                                                      *)

\* Who has withdrawn stays out, and has not been able to register since.
AccountInv ==
  /\ \A w \in Requests : tx[w].op = "withdraw" /\ Succeeded(w) =>
       /\ ~account[tx[w].user].active
       /\ \A r \in Requests :
            w \in tx[r].before /\ tx[r].op = "register" => tx[r].user # tx[w].user
  /\ \A u \in Users : ~account[u].active =>
       \E w \in Requests : tx[w].op = "withdraw" /\ Succeeded(w) /\ tx[w].user = u

LEMMA AccountInvStep ==
  ASSUME TypeInv, AccountInv, NEW q \in Requests, StepOf(q)
  PROVE  AccountInv'
<1>1. ASSUME NEW w \in Requests, tx'[w].op = "withdraw", Succeeded(w)', tx[w].pc = "done"
      PROVE  /\ ~account'[tx'[w].user].active
             /\ \A r \in Requests :
                  w \in tx'[r].before /\ tx'[r].op = "register" => tx'[r].user # tx'[w].user
  <2>1. tx'[w] = tx[w] /\ tx[w].op = "withdraw" /\ Succeeded(w) /\ tx[w].user \in Users
    BY <1>1, Steady DEF Succeeded, TypeInv, TxOK
  <2>2. ~account[tx[w].user].active /\ ~account'[tx[w].user].active
    BY <2>1, AccountChanges DEF AccountInv
  <2>3. ASSUME NEW r \in Requests, w \in tx'[r].before, tx'[r].op = "register"
        PROVE  tx'[r].user # tx[w].user
    <3>1. CASE tx[r].op # "none"
      <4>1. tx[r].op = "register" /\ w \in tx[r].before /\ tx'[r].user = tx[r].user
        BY <2>3, <3>1, Steady
      <4> QED BY <2>1, <4>1 DEF AccountInv
    <3>2. CASE tx[r].op = "none"
      <4>1. r = q
        BY <2>3, <3>2, Steady
      <4>2. account[tx'[r].user].active
        BY <2>3, <3>2, <4>1, RegisterMoves
      <4> QED BY <2>2, <4>2
    <3> QED BY <3>1, <3>2
  <2> QED BY <2>1, <2>2, <2>3
<1>2. ASSUME NEW w \in Requests, tx'[w].op = "withdraw", Succeeded(w)', tx[w].pc # "done"
      PROVE  /\ ~account'[tx'[w].user].active
             /\ \A r \in Requests : w \notin tx'[r].before
  <2>1. w = q
    BY <1>2, Steady DEF Succeeded
  <2>2. WithdrawCommit(q)
    BY <1>2, <2>1, WithdrawMoves DEF Succeeded
  <2>3. ~account'[tx[q].user].active /\ Goes(q)
    BY <2>2, WithdrawCommitStep
  <2> QED BY <2>1, <2>3, Steady DEF Goes
<1>3. ASSUME NEW u \in Users, ~account'[u].active
      PROVE  \E w \in Requests : tx'[w].op = "withdraw" /\ Succeeded(w)' /\ tx'[w].user = u
  <2>1. CASE account[u].active
    <3>1. /\ At(q, "withdraw", "checked") /\ tx[q].user = u
          /\ tx'[q].pc = "done" /\ tx'[q].result = "ok"
      BY <1>3, <2>1, AccountChanges
    <3>2. tx'[q].op = "withdraw" /\ tx'[q].user = u
      BY <3>1, Steady DEF At
    <3> QED BY <3>1, <3>2 DEF Succeeded
  <2>2. CASE ~account[u].active
    <3>1. PICK w \in Requests : tx[w].op = "withdraw" /\ Succeeded(w) /\ tx[w].user = u
      BY <2>2 DEF AccountInv
    <3>2. tx'[w] = tx[w]
      BY <3>1, Steady DEF Succeeded
    <3> QED BY <3>1, <3>2 DEF Succeeded
  <2> QED BY <2>1, <2>2
<1> QED BY <1>1, <1>2, <1>3 DEF AccountInv

-----------------------------------------------------------------------------
(* Switches                                                                *)

\* Requests of the kind, not known to be earlier, that have ended stay such.
LEMMA SinceGrows ==
  ASSUME TypeInv, NEW q \in Requests, StepOf(q), NEW s \in Requests, tx[s].op # "none", NEW op
  PROVE  /\ \A s2 \in Since(s, op) : s2 \in Since(s, op)' /\ tx'[s2] = tx[s2]
         /\ q # s /\ tx'[q].op = op /\ Succeeded(q)' => q \in Since(s, op)'
<1>1. tx'[s].before = tx[s].before /\ q \notin tx'[s].before
  BY Steady
<1>2. ASSUME NEW s2 \in Since(s, op)
      PROVE  s2 \in Since(s, op)' /\ tx'[s2] = tx[s2]
  <2>1. s2 \in Requests \ {s} /\ tx[s2].op = op /\ Succeeded(s2) /\ s2 \notin tx[s].before
    BY DEF Since
  <2>2. tx'[s2] = tx[s2]
    BY <2>1, Steady DEF Succeeded
  <2> QED BY <1>1, <2>1, <2>2 DEF Since, Succeeded
<1> QED BY <1>1, <1>2 DEF Since

TurnedOn(s, type) ==
  \E s2 \in Since(s, "settings") :
    tx[s2].user = tx[s].user /\ type \in DOMAIN tx[s2].patch /\ tx[s2].patch[type]

\* A type that a request has switched off, and that is on, was switched on by
\* one that did not come before; and no type is off that nobody has switched off.
SwitchInv ==
  /\ \A s \in Requests, type \in Toggles :
       /\ tx[s].op = "settings" /\ type \in DOMAIN tx[s].patch /\ ~tx[s].patch[type]
       /\ type \in account[tx[s].user].on
       => /\ Succeeded(s) => TurnedOn(s, type)
          /\ tx[s].pc = "checked" /\ type \notin tx[s].had => TurnedOn(s, type)
  /\ \A u \in Users, type \in Toggles : type \notin account[u].on =>
       \E s \in Requests : /\ tx[s].op = "settings" /\ tx[s].user = u
                           /\ type \in DOMAIN tx[s].patch /\ ~tx[s].patch[type]

LEMMA TurnedOnStays ==
  ASSUME TypeInv, NEW q \in Requests, StepOf(q), NEW s \in Requests, tx[s].op # "none", NEW type
  PROVE  /\ TurnedOn(s, type) => TurnedOn(s, type)'
         /\ /\ q # s /\ tx'[q].op = "settings" /\ Succeeded(q)' /\ tx'[q].user = tx[s].user
            /\ type \in DOMAIN tx'[q].patch /\ tx'[q].patch[type]
            => TurnedOn(s, type)'
<1>1. tx'[s].user = tx[s].user
  BY Steady
<1>2. ASSUME TurnedOn(s, type)
      PROVE  TurnedOn(s, type)'
  <2>1. PICK s2 \in Since(s, "settings") :
          tx[s2].user = tx[s].user /\ type \in DOMAIN tx[s2].patch /\ tx[s2].patch[type]
    BY <1>2 DEF TurnedOn
  <2>2. s2 \in Since(s, "settings")' /\ tx'[s2] = tx[s2]
    BY <2>1, SinceGrows
  <2> QED BY <1>1, <2>1, <2>2 DEF TurnedOn
<1>3. ASSUME q # s, tx'[q].op = "settings", Succeeded(q)', tx'[q].user = tx[s].user,
             type \in DOMAIN tx'[q].patch, tx'[q].patch[type]
      PROVE  TurnedOn(s, type)'
  <2>1. q \in Since(s, "settings")'
    BY <1>3, SinceGrows
  <2> QED BY <1>1, <1>3, <2>1 DEF TurnedOn
<1> QED BY <1>2, <1>3

LEMMA SwitchInvStep ==
  ASSUME TypeInv, SwitchInv, NEW q \in Requests, StepOf(q)
  PROVE  SwitchInv'
<1>1. ASSUME NEW s \in Requests, NEW type \in Toggles,
             tx'[s].op = "settings", type \in DOMAIN tx'[s].patch, ~tx'[s].patch[type],
             type \in account'[tx'[s].user].on
      PROVE  /\ Succeeded(s)' => TurnedOn(s, type)'
             /\ tx'[s].pc = "checked" /\ type \notin tx'[s].had => TurnedOn(s, type)'
  <2>1. CASE tx[s].op = "none"
    <3>1. s = q
      BY <1>1, <2>1, Steady
    <3>2. tx'[s].pc = "checked" /\ tx'[s].had = account[tx'[s].user].on /\ account' = account
      BY <1>1, <2>1, <3>1, SettingsMoves
    <3> QED BY <1>1, <3>2 DEF Succeeded
  <2>2. CASE tx[s].op # "none"
    <3> DEFINE u == tx[s].user
    <3>1. /\ tx[s].op = "settings" /\ tx'[s].user = u /\ tx'[s].patch = tx[s].patch /\ u \in Users
          /\ type \in DOMAIN tx[s].patch /\ ~tx[s].patch[type] /\ type \in account'[u].on
      <4>1. /\ tx[s].op = "settings" /\ tx'[s].user = u /\ tx'[s].patch = tx[s].patch
        BY <1>1, <2>2, Steady
      <4>2. u \in Users
        BY <4>1 DEF TypeInv, TxOK
      <4> QED BY <1>1, <4>1, <4>2
    <3>2. CASE s # q /\ type \in account[u].on
      <4>1. tx'[s] = tx[s]
        BY <3>2, Steady
      <4> QED BY <2>2, <3>1, <3>2, <4>1, TurnedOnStays DEF SwitchInv, Succeeded
    <3>3. CASE s # q /\ type \notin account[u].on
      <4>1. /\ At(q, "settings", "checked") /\ tx[q].user = u
            /\ tx'[q].pc = "done" /\ tx'[q].result = "ok"
            /\ type \in Switched(account[u].on, q)
        BY <3>1, <3>3, AccountChanges
      <4>2. type \in DOMAIN tx[q].patch /\ tx[q].patch[type]
        BY <3>3, <4>1 DEF Switched
      <4>3. tx'[q].op = "settings" /\ tx'[q].user = u /\ tx'[q].patch = tx[q].patch
        BY <4>1, Steady DEF At
      <4> QED BY <2>2, <3>3, <4>1, <4>2, <4>3, TurnedOnStays DEF Succeeded
    <3>4. CASE s = q
      <4>1. SettingsCommit(q) /\ UNCHANGED inbox
        BY <1>1, <2>2, <3>4, SettingsMoves
      <4>2. /\ At(q, "settings", "checked") /\ tx'[q].pc = "done"
            /\ account'[u].on = Switched(account[u].on, q)
        BY <3>4, <4>1, SettingsCommitStep
      <4>3. type \in Switched(account[u].on, q)
        BY <3>1, <4>2
      <4>4. tx[q].patch \in Patches
        BY <3>1, <3>4 DEF TypeInv, TxOK
      <4>5. tx[q].patch[type] \in BOOLEAN
        BY <3>1, <3>4, <4>4, PatchesAreNotEmpty
      <4>6. type \notin tx[q].had /\ type \in account[u].on
        BY <3>1, <3>4, <4>3, <4>5 DEF Switched
      <4>7. TurnedOn(s, type)
        BY <3>1, <3>4, <4>2, <4>6 DEF SwitchInv, At
      <4> QED BY <2>2, <4>7, TurnedOnStays
    <3> QED BY <3>2, <3>3, <3>4
  <2> QED BY <2>1, <2>2
<1>2. ASSUME NEW u \in Users, NEW type \in Toggles, type \notin account'[u].on
      PROVE  \E s \in Requests : /\ tx'[s].op = "settings" /\ tx'[s].user = u
                                 /\ type \in DOMAIN tx'[s].patch /\ ~tx'[s].patch[type]
  <2>1. CASE type \notin account[u].on
    <3>1. PICK s \in Requests : /\ tx[s].op = "settings" /\ tx[s].user = u
                                /\ type \in DOMAIN tx[s].patch /\ ~tx[s].patch[type]
      BY <2>1 DEF SwitchInv
    <3>2. tx'[s].op = "settings" /\ tx'[s].user = u /\ tx'[s].patch = tx[s].patch
      BY <3>1, Steady
    <3> QED BY <3>1, <3>2
  <2>2. CASE type \in account[u].on
    <3>1. /\ At(q, "settings", "checked") /\ tx[q].user = u
          /\ type \notin Switched(account[u].on, q)
      BY <1>2, <2>2, AccountChanges
    <3>2. type \in DOMAIN tx[q].patch /\ ~tx[q].patch[type]
      BY <2>2, <3>1 DEF Switched
    <3>3. tx'[q].op = "settings" /\ tx'[q].user = u /\ tx'[q].patch = tx[q].patch
      BY <3>1, Steady DEF At
    <3> QED BY <3>2, <3>3
  <2> QED BY <2>1, <2>2
<1> QED BY <1>1, <1>2 DEF SwitchInv

-----------------------------------------------------------------------------
(* Devices and who has them                                                *)

TakenBy(r, u) ==
  \E r2 \in Since(r, "register") : tx[r2].device = tx[r].device /\ tx[r2].user = u

\* The row of a registered device is of the user who has registered it, or of one
\* who has done so since; so is the row that a registration is about to update.
OwnerInv ==
  \A r \in Requests, t \in Tokens, u \in Users :
    tx[r].op = "register" /\ token[t].device = tx[r].device /\ token[t].owner = u =>
      /\ Succeeded(r) => u = tx[r].user \/ TakenBy(r, u)
      /\ tx[r].pc = "found" => (t = tx[r].id /\ u = tx[r].read.owner) \/ TakenBy(r, u)

LEMMA TakenByStays ==
  ASSUME TypeInv, NEW q \in Requests, StepOf(q), NEW r \in Requests, tx[r].op # "none", NEW u
  PROVE  /\ TakenBy(r, u) => TakenBy(r, u)'
         /\ /\ q # r /\ tx'[q].op = "register" /\ Succeeded(q)' /\ tx'[q].user = u
            /\ tx'[q].device = tx[r].device
            => TakenBy(r, u)'
<1>1. tx'[r].device = tx[r].device
  BY Steady
<1>2. ASSUME TakenBy(r, u)
      PROVE  TakenBy(r, u)'
  <2>1. PICK r2 \in Since(r, "register") : tx[r2].device = tx[r].device /\ tx[r2].user = u
    BY <1>2 DEF TakenBy
  <2>2. r2 \in Since(r, "register")' /\ tx'[r2] = tx[r2]
    BY <2>1, SinceGrows
  <2> QED BY <1>1, <2>1, <2>2 DEF TakenBy
<1>3. ASSUME q # r, tx'[q].op = "register", Succeeded(q)', tx'[q].user = u,
             tx'[q].device = tx[r].device
      PROVE  TakenBy(r, u)'
  <2>1. q \in Since(r, "register")'
    BY <1>3, SinceGrows
  <2> QED BY <1>1, <1>3, <2>1 DEF TakenBy
<1> QED BY <1>2, <1>3

\* The device of a registration is in Devices, so no masked row has it.
LEMMA RegisteredDevice ==
  ASSUME TypeInv, NEW r \in Requests, tx[r].op = "register"
  PROVE  tx[r].device \in Devices /\ tx[r].device # NULL /\ tx[r].user \in Users
BY NullIsNothing DEF TypeInv, TxOK

\* What the step of another request does to the row of a registered device.
LEMMA OthersTouchDevice ==
  ASSUME TypeInv, NEW q \in Requests, StepOf(q), NEW r \in Requests, tx[r].op = "register",
         q # r, NEW t \in Tokens, NEW u \in Users,
         token'[t].device = tx[r].device, token'[t].owner = u
  PROVE  \/ token[t].device = tx[r].device /\ token[t].owner = u
         \/ TakenBy(r, u)'
<1>1. tx[r].device \in Devices /\ tx[r].device # NULL
  BY RegisteredDevice
<1>2. CASE IsUpdated(q, t)
  <2>1. /\ tx'[q].op = "register" /\ tx'[q].user = tx[q].user /\ tx'[q].device = tx[q].device
        /\ Succeeded(q)'
    BY <1>2, Steady DEF IsUpdated, At, Succeeded
  <2>2. token[t].device = tx[r].device /\ token[t].device = tx[q].device
    BY <1>1, <1>2 DEF IsUpdated, FoundOK
  <2>3. CASE token'[t].owner = token[t].owner
    BY <2>2, <2>3
  <2>4. CASE token'[t].owner = tx[q].user
    BY <2>1, <2>2, <2>4, TakenByStays
  <2> QED BY <1>2, <2>3, <2>4 DEF IsUpdated
<1>3. CASE IsInserted(q, t)
  <2>1. /\ tx'[q].op = "register" /\ tx'[q].user = tx[q].user /\ tx'[q].device = tx[q].device
        /\ Succeeded(q)'
    BY <1>3, Steady DEF IsInserted, At, Succeeded
  <2>2. token'[t].owner = tx[q].user /\ tx[q].device = tx[r].device
    BY <1>3 DEF IsInserted
  <2> QED BY <2>1, <2>2, TakenByStays
<1>4. CASE IsMasked(q, t)
  BY <1>1, <1>4 DEF IsMasked
<1>5. CASE IsDeactivated(q, t) \/ token'[t] = token[t]
  BY <1>5 DEF IsDeactivated
<1> QED BY <1>2, <1>3, <1>4, <1>5, TokenChanges

LEMMA OwnerInvStep ==
  ASSUME TypeInv, OwnerInv, NEW q \in Requests, StepOf(q)
  PROVE  OwnerInv'
<1> SUFFICES ASSUME NEW r \in Requests, NEW t \in Tokens, NEW u \in Users,
                    tx'[r].op = "register", token'[t].device = tx'[r].device, token'[t].owner = u
             PROVE  /\ Succeeded(r)' => u = tx'[r].user \/ TakenBy(r, u)'
                    /\ tx'[r].pc = "found" =>
                         (t = tx'[r].id /\ u = tx'[r].read.owner) \/ TakenBy(r, u)'
  BY DEF OwnerInv
<1>1. CASE q # r
  <2>1. tx'[r] = tx[r]
    BY <1>1, Steady
  <2>2. CASE token[t].device = tx[r].device /\ token[t].owner = u
    BY <2>1, <2>2, TakenByStays DEF OwnerInv, Succeeded
  <2>3. CASE TakenBy(r, u)'
    BY <2>3
  <2> QED BY <1>1, <2>1, <2>2, <2>3, OthersTouchDevice
<1>2. CASE q = r /\ tx[r].op = "none"
  <2>1. tx'[r].pc = "checked"
    BY <1>2, RegisterMoves
  <2> QED BY <2>1 DEF Succeeded
<1>3. CASE q = r /\ tx[r].op # "none"
  <2>1. /\ tx[r].op = "register" /\ tx'[r].device = tx[r].device /\ tx'[r].user = tx[r].user
        /\ UNCHANGED inbox /\ tx[r].device \in Devices /\ tx[r].device # NULL
        /\ RegisterFind(r) \/ RegisterUpdates(r) \/ RegisterInserts(r)
    BY <1>3, RegisterMoves, Steady, RegisteredDevice
  <2>2. CASE RegisterFind(r)
    <3>1. /\ tx'[r].pc = "found" /\ UNCHANGED <<account, token>>
          /\ \/ TokensOf(tx[r].device) = {}
             \/ TokensOf(tx[r].device) = {tx'[r].id} /\ tx'[r].read = token[tx'[r].id]
      BY <2>1, <2>2, RegisterFindStep
    <3>2. t \in TokensOf(tx[r].device)
      BY <2>1, <3>1 DEF TokensOf
    <3>3. t = tx'[r].id /\ tx'[r].read = token[t]
      BY <3>1, <3>2
    <3> QED BY <3>1, <3>3 DEF Succeeded
  <2>3. CASE RegisterUpdates(r)
    <3>1. /\ tx'[r].pc = "done" /\ At(r, "register", "found")
          /\ \A s \in Tokens \ {tx[r].id} : token'[s] = token[s]
          /\ token'[tx[r].id].device = token[tx[r].id].device
          /\ token'[tx[r].id].owner = IF tx[r].user # tx[r].read.owner THEN tx[r].user
                                      ELSE token[tx[r].id].owner
      BY <2>1, <2>3, RegisterUpdatesStep
    <3>2. CASE t = tx[r].id
      <4>1. token[t].device = tx[r].device
        BY <2>1, <3>1, <3>2
      <4>2. CASE token[t].owner = tx[r].read.owner
        BY <2>1, <3>1, <3>2, <4>2
      <4>3. CASE TakenBy(r, u)
        BY <1>3, <2>1, <3>1, <3>2, <4>3, TakenByStays
      <4> QED BY <2>1, <3>1, <4>1, <4>2, <4>3 DEF OwnerInv, At
    <3>3. CASE t # tx[r].id
      <4>1. token'[t] = token[t] /\ token[t].owner = u
        BY <3>1, <3>3
      <4>2. TakenBy(r, u)
        BY <2>1, <3>1, <3>3, <4>1 DEF OwnerInv, At
      <4> QED BY <1>3, <4>1, <4>2, TakenByStays
    <3> QED BY <3>1, <3>2, <3>3
  <2>4. CASE RegisterInserts(r)
    <3>1. /\ tx'[r].pc = "done"
          /\ \/ /\ TokensOf(tx[r].device) = {} /\ token'[r].owner = tx[r].user
                /\ \A s \in Tokens \ {r} : token'[s] = token[s]
             \/ tx'[r].result = "failed"
      BY <2>1, <2>4, RegisterInsertsStep
    <3>2. CASE tx'[r].result = "failed"
      BY <3>1, <3>2 DEF Succeeded
    <3>3. CASE /\ TokensOf(tx[r].device) = {} /\ token'[r].owner = tx[r].user
               /\ \A s \in Tokens \ {r} : token'[s] = token[s]
      <4>1. t # r => token[t].device = tx[r].device
        BY <2>1, <3>3
      <4>2. t = r
        BY <3>3, <4>1 DEF TokensOf
      <4> QED BY <2>1, <3>1, <3>3, <4>2
    <3> QED BY <3>1, <3>2, <3>3
  <2> QED BY <2>1, <2>2, <2>3, <2>4
<1> QED BY <1>1, <1>2, <1>3

-----------------------------------------------------------------------------
(* Devices that FCM has refused                                            *)

\* A row of a device that a dispatch has heard to be unregistered stays inactive
\* until the device is registered again.
RejectInv ==
  \A k \in Requests, t \in Tokens :
    /\ At(k, "notify", "done") /\ token[t].device \in tx[k].invalid
    /\ \A r \in Requests :
         tx[r].op = "register" /\ tx[r].device = token[t].device => r \in tx[k].before
    => ~token[t].active

LEMMA RejectInvStep ==
  ASSUME TypeInv, RejectInv, NEW q \in Requests, StepOf(q)
  PROVE  RejectInv'
<1> SUFFICES ASSUME NEW k \in Requests, NEW t \in Tokens, At(k, "notify", "done")',
                    token'[t].device \in tx'[k].invalid,
                    \A r \in Requests : tx'[r].op = "register" /\ tx'[r].device = token'[t].device
                                          => r \in tx'[k].before
             PROVE  ~token'[t].active
  BY DEF RejectInv
<1>1. ASSUME NEW r \in Requests, tx[r].op = "register", tx[r].device = token'[t].device
      PROVE  r \in tx'[k].before /\ r # q
  <2>1. tx'[r].op = "register" /\ tx'[r].device = token'[t].device
    BY <1>1, Steady
  <2> QED BY <2>1, Steady
<1>2. CASE k # q
  <2>1. tx'[k] = tx[k] /\ At(k, "notify", "done")
    BY <1>2, Steady DEF At
  <2>2. CASE /\ token'[t].device = token[t].device
             /\ token'[t].active => token[t].active
    <3>1. \A r \in Requests : tx[r].op = "register" /\ tx[r].device = token[t].device
                                => r \in tx[k].before
      BY <1>1, <2>1, <2>2
    <3> QED BY <2>1, <2>2, <3>1 DEF RejectInv
  <2>3. CASE IsUpdated(q, t) \/ IsInserted(q, t)
    <3>1. tx'[k].invalid \subseteq Devices
      BY <2>1 DEF TypeInv, TxRecord, DeviceSets
    <3>2. tx[q].op = "register" /\ tx[q].device = token'[t].device
      BY <2>3, <3>1, NullIsNothing DEF IsUpdated, IsInserted, FoundOK, At
    <3> QED BY <1>1, <3>2
  <2>4. CASE IsMasked(q, t)
    <3>1. tx'[k].invalid \subseteq Devices
      BY <2>1 DEF TypeInv, TxRecord, DeviceSets
    <3> QED BY <2>4, <3>1, NullIsNothing DEF IsMasked
  <2> QED BY <2>2, <2>3, <2>4, TokenChanges DEF IsDeactivated
<1>3. CASE k = q
  <2>1. Notifies(q) \/ (Dispatches(q) /\ UNCHANGED inbox)
    BY <1>3, OpOfStep DEF At
  <2>2. tx'[q].pc = "done" /\ tx'[q].invalid # {}
    BY <1>3 DEF At
  <2>3. ~Notifies(q)
    <3>1. ASSUME NEW o \in Occasions, NotifyBegin(q, o.type, o.users, o.voter)
          PROVE  FALSE
      BY <2>2, <3>1, NotifyBeginStep DEF Begins
    <3>2. CASE NotifyCommit(q)
      BY <2>2, <3>2, NotifyCommitStep
    <3>3. CASE NotifyFails(q)
      BY <2>2, <3>3, NotifyFailsStep
    <3> QED BY <3>1, <3>2, <3>3 DEF Notifies
  <2>4. DispatchEnds(q)
    <3>1. ~DispatchSkips(q)
      BY <2>1, <2>2, <2>3, DispatchSkipsStep
    <3>2. ~DispatchFails(q)
      BY <2>1, <2>2, <2>3, DispatchFailsStep
    <3>3. ~DispatchSelects(q)
      BY <2>1, <2>2, <2>3, DispatchSelectsStep
    <3>4. ASSUME NEW target \in tx[q].todo, NEW answer \in {"taken", "unregistered", "error"},
                 Send(q, target, answer)
          PROVE  FALSE
      BY <2>1, <2>2, <2>3, <3>4, SendStep
    <3> QED BY <2>1, <2>3, <3>1, <3>2, <3>3, <3>4 DEF Dispatches
  <2>5. /\ tx'[q].invalid = tx[q].invalid
        /\ token'[t].device = token[t].device
        /\ token'[t].active <=> token[t].active /\ token[t].device \notin tx[q].invalid
    BY <2>1, <2>3, <2>4, DispatchEndsStep
  <2> QED BY <1>3, <2>5
<1> QED BY <1>2, <1>3
-----------------------------------------------------------------------------
(* Devices that are promised a push                                        *)

\* Nothing that might come after registration r goes against it.
Kept(r) ==
  \A s \in Requests \ tx[r].before :
    /\ tx[s].op = "register" /\ tx[s].device = tx[r].device => tx[s].user = tx[r].user
    /\ tx[s].op = "withdraw" => r \in tx[s].before /\ tx[s].user # tx[r].user
    /\ ~Rejected(s, tx[r].device)

Spared(t) == \A w \in Requests : At(w, "withdraw", "checked") => t \notin tx[w].had

\* Such a registration leaves the user an active row of the device that no
\* withdrawal is about to mask; the row it has found stays good for its UPDATE.
PromiseInv ==
  \A r \in Requests : tx[r].op = "register" /\ Kept(r) =>
    /\ Succeeded(r) =>
         \E t \in Tokens : /\ token[t].owner = tx[r].user /\ token[t].device = tx[r].device
                           /\ token[t].active /\ Spared(t)
    /\ tx[r].pc = "found" /\ tx[r].id # NULL =>
         /\ token[tx[r].id].device = tx[r].device
         /\ token[tx[r].id].owner \in {tx[r].read.owner, tx[r].user}
         /\ tx[r].read.active => token[tx[r].id].active

LEMMA KeptBefore ==
  ASSUME TypeInv, NEW q \in Requests, StepOf(q), NEW r \in Requests, tx[r].op = "register", Kept(r)'
  PROVE  Kept(r)
<1>1. /\ tx'[r].before = tx[r].before /\ tx'[r].device = tx[r].device
      /\ tx'[r].user = tx[r].user
  BY Steady
<1>2. ASSUME NEW s \in Requests \ tx[r].before, tx[s].op # "none"
      PROVE  /\ tx[s].op = "register" /\ tx[s].device = tx[r].device => tx[s].user = tx[r].user
             /\ tx[s].op = "withdraw" => r \in tx[s].before /\ tx[s].user # tx[r].user
             /\ ~Rejected(s, tx[r].device)
  <2>1. /\ tx'[s].op = tx[s].op /\ tx'[s].before = tx[s].before /\ tx'[s].user = tx[s].user
        /\ tx'[s].device = tx[s].device /\ tx[s].invalid \subseteq tx'[s].invalid
    BY <1>2, Steady
  <2>2. /\ tx'[s].op = "register" /\ tx'[s].device = tx'[r].device => tx'[s].user = tx'[r].user
        /\ tx'[s].op = "withdraw" => r \in tx'[s].before /\ tx'[s].user # tx'[r].user
        /\ ~Rejected(s, tx[r].device)'
    BY <1>1 DEF Kept, Rejected
  <2> QED BY <1>1, <2>1, <2>2 DEF Rejected
<1> QED BY <1>2 DEF Kept, Rejected

\* No withdrawal is under way while the registration is.
LEMMA NobodyLeaves ==
  ASSUME TypeInv, NEW r \in Requests, tx[r].op = "register", Kept(r), tx[r].pc # "done",
         NEW w \in Requests, At(w, "withdraw", "checked")
  PROVE  FALSE
<1>1. w \notin tx[r].before /\ r \notin tx[w].before
  BY DEF TypeInv, TxOK, Finished, At
<1> QED BY <1>1 DEF Kept, At

\* What other requests do to the row of a device that is kept.
LEMMA KeptRow ==
  ASSUME TypeInv, NEW q \in Requests, StepOf(q), NEW r \in Requests, tx[r].op = "register",
         Kept(r)', q # r, NEW t \in Tokens, token[t].device = tx[r].device,
         Spared(t) \/ tx[r].pc # "done"
  PROVE  /\ token'[t].device = tx[r].device
         /\ token'[t].owner \in {token[t].owner, tx[r].user}
         /\ token[t].active => token'[t].active
<1>1. /\ Kept(r) /\ q \notin tx[r].before /\ tx[r].device \in Devices /\ tx[r].device # NULL
  BY KeptBefore, Steady, RegisteredDevice
<1>2. CASE IsUpdated(q, t)
  <2>1. tx[q].op = "register" /\ tx[q].device = tx[r].device
    BY <1>1, <1>2 DEF IsUpdated, FoundOK, At
  <2>2. tx[q].user = tx[r].user
    BY <1>1, <2>1 DEF Kept
  <2>3. token'[t].owner \in {token[t].owner, tx[q].user}
    BY <1>2 DEF IsUpdated
  <2>4. token[t].active => token'[t].active
    <3>1. CASE tx[q].read.active
      BY <1>2, <3>1 DEF IsUpdated
    <3>2. CASE ~tx[q].read.active
      BY <1>2, <3>2 DEF IsUpdated
    <3> QED BY <3>1, <3>2
  <2> QED BY <1>2, <2>2, <2>3, <2>4 DEF IsUpdated
<1>3. CASE IsInserted(q, t)
  BY <1>1, <1>3 DEF IsInserted, TypeInv, TokensOK, TokenOK
<1>4. CASE IsMasked(q, t)
  BY <1>1, <1>4, NobodyLeaves DEF IsMasked, Spared
<1>5. CASE IsDeactivated(q, t)
  <2>1. tx[r].device \notin tx[q].invalid
    BY <1>1, <1>5 DEF Kept, Rejected, IsDeactivated, At
  <2> QED BY <1>5, <2>1 DEF IsDeactivated
<1> QED BY <1>2, <1>3, <1>4, <1>5, TokenChanges

LEMMA SparedStays ==
  ASSUME TypeInv, NEW q \in Requests, StepOf(q), NEW r \in Requests, tx[r].op = "register",
         Kept(r)', q # r, NEW t \in Tokens, token[t].owner = tx[r].user, Spared(t)
  PROVE  Spared(t)'
<1> SUFFICES ASSUME NEW w \in Requests, At(w, "withdraw", "checked")'
             PROVE  t \notin tx'[w].had
  BY DEF Spared
<1>1. CASE w # q
  <2>1. tx'[w] = tx[w]
    BY <1>1, Steady
  <2> QED BY <2>1 DEF Spared, At
<1>2. CASE w = q /\ tx[q].op = "none"
  <2>1. tx'[q].op = "withdraw" /\ q \notin tx'[r].before /\ tx'[r].user = tx[r].user
    BY <1>2, Steady DEF At
  <2>2. tx'[q].user # tx[r].user
    BY <2>1 DEF Kept
  <2>3. tx'[q].had = {s \in Tokens : token[s].owner = tx'[q].user}
    BY <1>2, <2>1, WithdrawMoves
  <2> QED BY <1>2, <2>2, <2>3
<1>3. CASE w = q /\ tx[q].op # "none"
  BY <1>3, WithdrawMoves, WithdrawCommitStep DEF At
<1> QED BY <1>1, <1>2, <1>3

LEMMA PromiseInvStep ==
  ASSUME TypeInv, PromiseInv, NEW q \in Requests, StepOf(q)
  PROVE  PromiseInv'
<1> DEFINE HasRow(r) == \E t \in Tokens : /\ token[t].owner = tx[r].user
                                          /\ token[t].device = tx[r].device
                                          /\ token[t].active /\ Spared(t)
           GoodRow(r) == /\ token[tx[r].id].device = tx[r].device
                         /\ token[tx[r].id].owner \in {tx[r].read.owner, tx[r].user}
                         /\ tx[r].read.active => token[tx[r].id].active
<1> SUFFICES ASSUME NEW r \in Requests, tx'[r].op = "register", Kept(r)'
             PROVE  /\ Succeeded(r)' => HasRow(r)'
                    /\ tx'[r].pc = "found" /\ tx'[r].id # NULL => GoodRow(r)'
  BY DEF PromiseInv
<1>1. CASE tx[r].op = "none"
  <2>1. r = q
    BY <1>1, Steady
  <2>2. tx'[r].pc = "checked"
    BY <1>1, <2>1, RegisterMoves
  <2> QED BY <2>2 DEF Succeeded
<1>2. CASE tx[r].op # "none" /\ q # r
  <2>1. tx'[r] = tx[r] /\ tx[r].op = "register"
    BY <1>2, Steady
  <2>2. Kept(r)
    BY <2>1, KeptBefore
  <2>3. ASSUME Succeeded(r)
        PROVE  HasRow(r)'
    <3>1. PICK t \in Tokens : /\ token[t].owner = tx[r].user /\ token[t].device = tx[r].device
                              /\ token[t].active /\ Spared(t)
      BY <2>1, <2>2, <2>3 DEF PromiseInv
    <3>2. /\ token'[t].device = tx[r].device /\ token'[t].owner = tx[r].user
          /\ token'[t].active
      BY <1>2, <2>1, <3>1, KeptRow
    <3>3. Spared(t)'
      BY <1>2, <2>1, <3>1, SparedStays
    <3> QED BY <2>1, <3>2, <3>3
  <2>4. ASSUME tx[r].pc = "found", tx[r].id # NULL
        PROVE  GoodRow(r)'
    <3>1. GoodRow(r)
      BY <2>1, <2>2, <2>4 DEF PromiseInv
    <3>2. tx[r].id \in Tokens
      BY <2>1, <2>4 DEF TypeInv, TxOK, FoundOK
    <3>3. /\ token'[tx[r].id].device = tx[r].device
          /\ token'[tx[r].id].owner \in {token[tx[r].id].owner, tx[r].user}
          /\ token[tx[r].id].active => token'[tx[r].id].active
      BY <1>2, <2>1, <2>4, <3>1, <3>2, KeptRow
    <3> QED BY <2>1, <3>1, <3>3
  <2> HIDE DEF HasRow, GoodRow
  <2> QED BY <2>1, <2>3, <2>4 DEF Succeeded
<1>3. CASE tx[r].op # "none" /\ q = r
  <2>1. /\ tx[r].op = "register" /\ tx'[r].device = tx[r].device /\ tx'[r].user = tx[r].user
        /\ UNCHANGED inbox /\ tx[r].device \in Devices /\ tx[r].device # NULL
        /\ RegisterFind(r) \/ RegisterUpdates(r) \/ RegisterInserts(r)
    BY <1>3, RegisterMoves, Steady, RegisteredDevice
  <2>2. Kept(r) /\ tx[r].pc # "done"
    BY <1>3, <2>1, KeptBefore, Steady
  <2>3. \A t \in Tokens : Spared(t)'
    <3> SUFFICES ASSUME NEW w \in Requests, At(w, "withdraw", "checked")' PROVE FALSE
      BY DEF Spared
    <3>1. w # r
      BY <2>1, Steady DEF At
    <3>2. At(w, "withdraw", "checked")
      BY <1>3, <3>1, Steady DEF At
    <3> QED BY <2>1, <2>2, <3>2, NobodyLeaves
  <2>4. CASE RegisterFind(r)
    <3>1. /\ tx'[r].pc = "found" /\ UNCHANGED <<account, token>>
          /\ tx'[r].id # NULL =>
               TokensOf(tx[r].device) = {tx'[r].id} /\ tx'[r].read = token[tx'[r].id]
      BY <2>1, <2>4, RegisterFindStep
    <3>2. ASSUME tx'[r].id # NULL
          PROVE  token[tx'[r].id].device = tx[r].device
      <4>1. tx'[r].id \in TokensOf(tx[r].device)
        BY <3>1, <3>2
      <4> QED BY <4>1 DEF TokensOf
    <3> QED BY <2>1, <3>1, <3>2 DEF Succeeded
  <2>5. CASE RegisterUpdates(r)
    <3> DEFINE i == tx[r].id
    <3>1. /\ tx'[r].pc = "done" /\ At(r, "register", "found") /\ i # NULL /\ i \in Tokens
          /\ token'[i].device = token[i].device
          /\ token'[i].owner = IF tx[r].user # tx[r].read.owner THEN tx[r].user ELSE token[i].owner
          /\ token'[i].active = IF tx[r].read.active THEN token[i].active ELSE TRUE
      BY <2>1, <2>5, RegisterUpdatesStep DEF FoundOK
    <3>2. /\ token[i].device = tx[r].device
          /\ token[i].owner \in {tx[r].read.owner, tx[r].user}
          /\ tx[r].read.active => token[i].active
      BY <2>1, <2>2, <3>1 DEF PromiseInv, At
    <3> HIDE DEF i
    <3>3. token'[i].device = tx[r].device /\ token'[i].owner = tx[r].user
      BY <3>1, <3>2
    <3>4. token'[i].active
      <4>1. CASE tx[r].read.active
        BY <3>1, <3>2, <4>1
      <4>2. CASE ~tx[r].read.active
        BY <3>1, <4>2
      <4> QED BY <4>1, <4>2
    <3> QED BY <2>1, <2>3, <3>1, <3>3, <3>4
  <2>6. CASE RegisterInserts(r)
    <3>1. /\ tx'[r].pc = "done"
          /\ \/ /\ token'[r].owner = tx[r].user /\ token'[r].device = tx[r].device
                /\ token'[r].active
             \/ tx'[r].result = "failed"
      BY <2>1, <2>6, RegisterInsertsStep
    <3>2. r \in Tokens
      BY DEF Tokens
    <3> QED BY <2>1, <2>3, <3>1, <3>2 DEF Succeeded
  <2> QED BY <2>1, <2>4, <2>5, <2>6
<1> QED BY <1>1, <1>2, <1>3
-----------------------------------------------------------------------------
(* Pushes                                                                  *)

\* No push goes against the last word.
AgainstInv ==
  \A j \in Requests, u \in Users, d \in Devices :
    <<u, d>> \in tx[j].chosen => ~LastWordIsAgainst(j, u, d)

\* A dispatch that has not failed goes to all that it promises a push.
ForInv ==
  \A j \in Requests, u \in Users, d \in Devices :
    /\ PushEnabled /\ LastWordIsFor(j, u, d)
    /\ \/ At(j, "notify", "sending")
       \/ At(j, "notify", "done") /\ tx[j].result \notin {"failed", "FAILED"}
    => <<u, d>> \in tx[j].chosen

LEMMA PushInvImplies == TypeInv /\ AgainstInv /\ ForInv => PushesFollowTheLastWord
<1> SUFFICES ASSUME TypeInv, AgainstInv, ForInv, NEW j \in Requests
             PROVE  /\ \A target \in tx[j].chosen : ~LastWordIsAgainst(j, target[1], target[2])
                    /\ /\ PushEnabled /\ (At(j, "notify", "sending") \/ At(j, "notify", "done"))
                       /\ tx[j].result \notin {"failed", "FAILED"}
                       => \A u \in Users, d \in Devices :
                            LastWordIsFor(j, u, d) => <<u, d>> \in tx[j].chosen
  BY DEF PushesFollowTheLastWord
<1>1. ASSUME NEW target \in tx[j].chosen
      PROVE  ~LastWordIsAgainst(j, target[1], target[2])
  <2>1. tx[j].chosen \subseteq Users \X Devices
    BY DEF TypeInv, TxRecord, TargetSets
  <2>2. target[1] \in Users /\ target[2] \in Devices /\ target = <<target[1], target[2]>>
    BY <2>1
  <2> QED BY <2>2 DEF AgainstInv
<1> QED BY <1>1 DEF ForInv

\* What was against the push or for it when the dispatch began was so before.
LEMMA AgainstBefore ==
  ASSUME TypeInv, NEW q \in Requests, StepOf(q), NEW j \in Requests, tx[j].op # "none",
         NEW u, NEW d, LastWordIsAgainst(j, u, d)'
  PROVE  LastWordIsAgainst(j, u, d)
<1>1. /\ tx'[j].before = tx[j].before /\ tx'[j].type = tx[j].type
      /\ tx[j].before \subseteq Requests
      /\ \A s \in tx[j].before : s \in Requests /\ tx[s].pc = "done" /\ tx'[s] = tx[s]
                                 /\ (tx[s].op # "none")
  <2>1. tx'[j].before = tx[j].before /\ tx'[j].type = tx[j].type
    BY Steady
  <2>2. tx[j].before \subseteq Finished
    BY DEF TypeInv, TxOK
  <2>3. \A s \in tx[j].before : s \in Requests /\ tx[s].pc = "done" /\ tx[s].op # "none"
    BY <2>2 DEF Finished, TypeInv, TxOK
  <2> QED BY <2>1, <2>3, Steady
<1>2. ASSUME NEW w \in tx[j].before, (tx[w].op = "withdraw" /\ tx[w].user = u /\ Succeeded(w))'
      PROVE  LastWordIsAgainst(j, u, d)
  <2>1. tx[w].op = "withdraw" /\ tx[w].user = u /\ Succeeded(w)
    BY <1>1, <1>2 DEF Succeeded
  <2> QED BY <2>1 DEF LastWordIsAgainst
<1>3. ASSUME NEW s \in tx[j].before,
             (/\ tx[s].op = "settings" /\ tx[s].user = u /\ Succeeded(s)
              /\ tx[j].type \in DOMAIN tx[s].patch /\ ~tx[s].patch[tx[j].type]
              /\ \A s2 \in Since(s, "settings") :
                   tx[s2].user = u /\ tx[j].type \in DOMAIN tx[s2].patch
                     => ~tx[s2].patch[tx[j].type])'
      PROVE  LastWordIsAgainst(j, u, d)
  <2>1. /\ tx[s].op = "settings" /\ tx[s].user = u /\ Succeeded(s)
        /\ tx[j].type \in DOMAIN tx[s].patch /\ ~tx[s].patch[tx[j].type]
    BY <1>1, <1>3 DEF Succeeded
  <2>2. \A s2 \in Since(s, "settings") :
          tx[s2].user = u /\ tx[j].type \in DOMAIN tx[s2].patch => ~tx[s2].patch[tx[j].type]
    BY <1>1, <1>3, SinceGrows
  <2> QED BY <2>1, <2>2 DEF LastWordIsAgainst
<1>4. ASSUME NEW r \in tx[j].before,
             (/\ tx[r].op = "register" /\ tx[r].device = d /\ tx[r].user # u /\ Succeeded(r)
              /\ \A r2 \in Since(r, "register") : tx[r2].device = d => tx[r2].user # u)'
      PROVE  LastWordIsAgainst(j, u, d)
  <2>1. tx[r].op = "register" /\ tx[r].device = d /\ tx[r].user # u /\ Succeeded(r)
    BY <1>1, <1>4 DEF Succeeded
  <2>2. \A r2 \in Since(r, "register") : tx[r2].device = d => tx[r2].user # u
    BY <1>1, <1>4, SinceGrows
  <2> QED BY <2>1, <2>2 DEF LastWordIsAgainst
<1>5. ASSUME NEW k \in tx[j].before,
             (/\ Rejected(k, d)
              /\ \A r \in Requests :
                   tx[r].op = "register" /\ tx[r].device = d => r \in tx[k].before)'
      PROVE  LastWordIsAgainst(j, u, d)
  <2>1. Rejected(k, d)
    BY <1>1, <1>5 DEF Rejected
  <2>2. ASSUME NEW r \in Requests, tx[r].op = "register", tx[r].device = d
        PROVE  r \in tx[k].before
    <3>1. tx'[r].op = "register" /\ tx'[r].device = d
      BY <2>2, Steady
    <3> QED BY <1>1, <1>5, <3>1
  <2> QED BY <2>1, <2>2 DEF LastWordIsAgainst
<1> QED BY <1>1, <1>2, <1>3, <1>4, <1>5 DEF LastWordIsAgainst

LEMMA ForBefore ==
  ASSUME TypeInv, NEW q \in Requests, StepOf(q), NEW j \in Requests, tx[j].op # "none",
         NEW u, NEW d, LastWordIsFor(j, u, d)'
  PROVE  LastWordIsFor(j, u, d)
<1>1. /\ tx'[j].before = tx[j].before /\ tx'[j].type = tx[j].type /\ tx'[j].users = tx[j].users
  BY Steady
<1>2. u \in tx[j].users
  BY <1>1 DEF LastWordIsFor
<1>3. ASSUME NEW s \in Requests, tx[s].op = "settings", tx[s].user = u,
             tx[j].type \in DOMAIN tx[s].patch
      PROVE  tx[s].patch[tx[j].type]
  <2>1. tx'[s].op = "settings" /\ tx'[s].user = u /\ tx'[s].patch = tx[s].patch
    BY <1>3, Steady
  <2> QED BY <1>1, <1>3, <2>1 DEF LastWordIsFor
<1>4. PICK r \in tx'[j].before :
        /\ tx'[r].op = "register" /\ tx'[r].device = d /\ tx'[r].user = u /\ Succeeded(r)'
        /\ \A s \in Requests \ tx'[r].before :
             /\ tx'[s].op = "register" /\ tx'[s].device = d => tx'[s].user = u
             /\ tx'[s].op = "withdraw" => r \in tx'[s].before /\ tx'[s].user # u
             /\ ~Rejected(s, d)'
  BY DEF LastWordIsFor
<1>5. r \in tx[j].before /\ r \in Requests /\ tx'[r] = tx[r]
  <2>1. r \in tx[j].before /\ r \in Finished
    BY <1>1 DEF TypeInv, TxOK
  <2> QED BY <2>1, Steady DEF Finished
<1>6. Kept(r)'
  BY <1>4 DEF Kept
<1>7. tx[r].op = "register" /\ tx[r].device = d /\ tx[r].user = u /\ Succeeded(r) /\ Kept(r)
  BY <1>4, <1>5, <1>6, KeptBefore DEF Succeeded
<1> QED BY <1>2, <1>3, <1>5, <1>7 DEF LastWordIsFor, Kept

-----------------------------------------------------------------------------
(* The rows that a dispatch selects                                        *)

LEMMA SelectedAreNotAgainst ==
  ASSUME TypeInv, AccountInv, SwitchInv, OwnerInv, RejectInv, NEW j \in Requests,
         NEW u \in Users, NEW d \in Devices,
         <<u, d>> \in FindActiveTokenRows(tx[j].users, tx[j].type)
  PROVE  ~LastWordIsAgainst(j, u, d)
<1>1. PICK t \in Tokens :
        /\ token[t].owner = u /\ token[t].device = d /\ token[t].active
        /\ account[u].active
        /\ tx[j].type \in Toggles => tx[j].type \in account[u].on
  BY DEF FindActiveTokenRows
<1>2. \A s \in tx[j].before : s \in Requests /\ tx[s].pc = "done"
  BY DEF TypeInv, TxOK, Finished
<1>3. ASSUME NEW w \in tx[j].before, tx[w].op = "withdraw", tx[w].user = u, Succeeded(w)
      PROVE  FALSE
  BY <1>1, <1>2, <1>3 DEF AccountInv
<1>4. ASSUME NEW s \in tx[j].before, tx[s].op = "settings", tx[s].user = u, Succeeded(s),
             tx[j].type \in DOMAIN tx[s].patch, ~tx[s].patch[tx[j].type],
             \A s2 \in Since(s, "settings") :
               tx[s2].user = u /\ tx[j].type \in DOMAIN tx[s2].patch => ~tx[s2].patch[tx[j].type]
      PROVE  FALSE
  <2>1. tx[s].patch \in Patches
    BY <1>2, <1>4 DEF TypeInv, TxOK
  <2>2. tx[j].type \in Toggles
    BY <1>4, <2>1, PatchesAreNotEmpty
  <2>3. TurnedOn(s, tx[j].type)
    BY <1>1, <1>2, <1>4, <2>2 DEF SwitchInv
  <2> QED BY <1>4, <2>3 DEF TurnedOn
<1>5. ASSUME NEW r \in tx[j].before, tx[r].op = "register", tx[r].device = d, tx[r].user # u,
             Succeeded(r), \A r2 \in Since(r, "register") : tx[r2].device = d => tx[r2].user # u
      PROVE  FALSE
  <2>1. TakenBy(r, u)
    BY <1>1, <1>2, <1>5 DEF OwnerInv
  <2> QED BY <1>5, <2>1 DEF TakenBy
<1>6. ASSUME NEW k \in tx[j].before, Rejected(k, d),
             \A r \in Requests : tx[r].op = "register" /\ tx[r].device = d => r \in tx[k].before
      PROVE  FALSE
  BY <1>1, <1>2, <1>6 DEF RejectInv, Rejected, At
<1> QED BY <1>3, <1>4, <1>5, <1>6 DEF LastWordIsAgainst

LEMMA PromisedAreSelected ==
  ASSUME TypeInv, AccountInv, SwitchInv, PromiseInv, NEW j \in Requests,
         NEW u \in Users, NEW d \in Devices, LastWordIsFor(j, u, d)
  PROVE  <<u, d>> \in FindActiveTokenRows(tx[j].users, tx[j].type)
<1>1. PICK r \in tx[j].before :
        /\ tx[r].op = "register" /\ tx[r].device = d /\ tx[r].user = u /\ Succeeded(r)
        /\ \A s \in Requests \ tx[r].before :
             /\ tx[s].op = "register" /\ tx[s].device = d => tx[s].user = u
             /\ tx[s].op = "withdraw" => r \in tx[s].before /\ tx[s].user # u
             /\ ~Rejected(s, d)
  BY DEF LastWordIsFor
<1>2. r \in Requests /\ Kept(r)
  BY <1>1 DEF Kept, TypeInv, TxOK, Finished
<1>3. PICK t \in Tokens : token[t].owner = u /\ token[t].device = d /\ token[t].active
  BY <1>1, <1>2 DEF PromiseInv
<1>4. account[u].active
  <2> SUFFICES ASSUME ~account[u].active PROVE FALSE
    OBVIOUS
  <2>1. PICK w \in Requests : tx[w].op = "withdraw" /\ Succeeded(w) /\ tx[w].user = u
    BY DEF AccountInv
  <2>2. w \in tx[r].before
    BY <1>1, <2>1
  <2> QED BY <1>1, <1>2, <2>1, <2>2 DEF AccountInv
<1>5. tx[j].type \in Toggles => tx[j].type \in account[u].on
  BY DEF SwitchInv, LastWordIsFor
<1>6. ~token[t].deleted
  <2>1. d # NULL
    BY NullIsNothing
  <2>2. u # NULL
    BY NullIsNothing
  <2> QED BY <1>3, <2>1, <2>2 DEF TypeInv, TokensOK, TokenOK
<1>7. u \in tx[j].users
  BY DEF LastWordIsFor
<1> QED BY <1>3, <1>4, <1>5, <1>6, <1>7 DEF FindActiveTokenRows
LEMMA ChosenChanges ==
  ASSUME TypeInv, NEW q \in Requests, StepOf(q), NEW j \in Requests, tx'[j].chosen # {}
  PROVE  /\ tx[j].op = "notify"
         /\ \/ tx'[j].chosen = tx[j].chosen
            \/ tx'[j].chosen = FindActiveTokenRows(tx[j].users, tx[j].type)
<1>1. TypeInv'
  BY Moves
<1>2. tx'[j].op = "notify"
  BY <1>1 DEF TypeInv, TxOK
<1>3. CASE j # q
  <2>1. tx'[j] = tx[j]
    BY <1>3, Steady
  <2> QED BY <1>2, <2>1
<1>4. CASE j = q
  <2>1. Notifies(q) \/ (Dispatches(q) /\ UNCHANGED inbox)
    BY <1>2, <1>4, OpOfStep
  <2>2. ASSUME NEW o \in Occasions, NotifyBegin(q, o.type, o.users, o.voter)
        PROVE  FALSE
    BY <1>4, <2>2, NotifyBeginStep DEF Begins
  <2>3. ~NotifyCommit(q)
    BY <1>4, NotifyCommitStep
  <2>4. ~NotifyFails(q)
    BY <1>4, NotifyFailsStep
  <2>5. Dispatches(q) /\ UNCHANGED inbox
    BY <2>1, <2>2, <2>3, <2>4 DEF Notifies
  <2>6. ~DispatchSkips(q)
    BY <1>4, <2>5, DispatchSkipsStep
  <2>7. ~DispatchFails(q)
    BY <1>4, <2>5, DispatchFailsStep
  <2>8. CASE DispatchSelects(q)
    BY <1>4, <2>5, <2>8, DispatchSelectsStep DEF At
  <2>9. ASSUME NEW target \in tx[q].todo, NEW answer \in {"taken", "unregistered", "error"},
               Send(q, target, answer)
        PROVE  tx[q].op = "notify" /\ tx'[q].chosen = tx[q].chosen
    BY <2>5, <2>9, SendStep DEF At
  <2>10. CASE DispatchEnds(q)
    BY <1>4, <2>5, <2>10, DispatchEndsStep DEF At
  <2> QED BY <1>4, <2>5, <2>6, <2>7, <2>8, <2>9, <2>10 DEF Dispatches
<1> QED BY <1>3, <1>4

\* A dispatch that is sending, or has not failed, was so, or begins to send, or
\* has nobody to send to.
LEMMA DispatchMoves ==
  ASSUME TypeInv, NEW q \in Requests, StepOf(q), NEW j \in Requests, PushEnabled,
         \/ At(j, "notify", "sending")'
         \/ At(j, "notify", "done")' /\ tx'[j].result \notin {"failed", "FAILED"}
  PROVE  /\ tx[j].op = "notify"
         /\ \/ /\ tx'[j].chosen = tx[j].chosen
               /\ \/ At(j, "notify", "sending")
                  \/ At(j, "notify", "done") /\ tx[j].result \notin {"failed", "FAILED"}
            \/ tx'[j].chosen = FindActiveTokenRows(tx[j].users, tx[j].type)
<1>1. CASE j # q
  <2>1. tx'[j] = tx[j]
    BY <1>1, Steady
  <2> QED BY <2>1 DEF At
<1>2. CASE j = q
  <2>1. Notifies(q) \/ (Dispatches(q) /\ UNCHANGED inbox)
    BY <1>2, OpOfStep DEF At
  <2>2. ASSUME NEW o \in Occasions, NotifyBegin(q, o.type, o.users, o.voter)
        PROVE  FALSE
    BY <1>2, <2>2, NotifyBeginStep DEF At
  <2>3. ~NotifyCommit(q)
    BY <1>2, NotifyCommitStep DEF At
  <2>4. ~NotifyFails(q)
    BY <1>2, NotifyFailsStep DEF At
  <2>5. Dispatches(q) /\ UNCHANGED inbox
    BY <2>1, <2>2, <2>3, <2>4 DEF Notifies
  <2>6. CASE DispatchSkips(q)
    BY <1>2, <2>5, <2>6, DispatchSkipsStep DEF At
  <2>7. ~DispatchFails(q)
    BY <1>2, <2>5, DispatchFailsStep DEF At
  <2>8. CASE DispatchSelects(q)
    BY <1>2, <2>5, <2>8, DispatchSelectsStep DEF At
  <2>9. ASSUME NEW target \in tx[q].todo, NEW answer \in {"taken", "unregistered", "error"},
               Send(q, target, answer)
        PROVE  At(q, "notify", "sending") /\ tx'[q].chosen = tx[q].chosen
    BY <2>5, <2>9, SendStep
  <2>10. CASE DispatchEnds(q)
    BY <1>2, <2>5, <2>10, DispatchEndsStep DEF At
  <2> QED BY <1>2, <2>5, <2>6, <2>7, <2>8, <2>9, <2>10 DEF Dispatches, At
<1> QED BY <1>1, <1>2

PushInv ==
  AccountInv /\ SwitchInv /\ OwnerInv /\ RejectInv /\ PromiseInv /\ AgainstInv /\ ForInv

LEMMA PushInvStep ==
  ASSUME TypeInv, PushInv, NEW q \in Requests, StepOf(q)
  PROVE  PushInv'
<1>1. AccountInv' /\ SwitchInv' /\ OwnerInv' /\ RejectInv' /\ PromiseInv'
  BY AccountInvStep, SwitchInvStep, OwnerInvStep, RejectInvStep, PromiseInvStep DEF PushInv
<1>2. AgainstInv'
  <2> SUFFICES ASSUME NEW j \in Requests, NEW u \in Users, NEW d \in Devices,
                      <<u, d>> \in tx'[j].chosen, LastWordIsAgainst(j, u, d)'
               PROVE  FALSE
    BY DEF AgainstInv
  <2>1. /\ tx[j].op = "notify"
        /\ \/ tx'[j].chosen = tx[j].chosen
           \/ tx'[j].chosen = FindActiveTokenRows(tx[j].users, tx[j].type)
    BY ChosenChanges
  <2>2. LastWordIsAgainst(j, u, d)
    BY <2>1, AgainstBefore
  <2>3. CASE tx'[j].chosen = tx[j].chosen
    BY <2>2, <2>3 DEF PushInv, AgainstInv
  <2>4. CASE tx'[j].chosen = FindActiveTokenRows(tx[j].users, tx[j].type)
    BY <2>2, <2>4, SelectedAreNotAgainst DEF PushInv
  <2> QED BY <2>1, <2>3, <2>4
<1>3. ForInv'
  <2> SUFFICES ASSUME NEW j \in Requests, NEW u \in Users, NEW d \in Devices, PushEnabled,
                      LastWordIsFor(j, u, d)',
                      \/ At(j, "notify", "sending")'
                      \/ At(j, "notify", "done")' /\ tx'[j].result \notin {"failed", "FAILED"}
               PROVE  <<u, d>> \in tx'[j].chosen
    BY DEF ForInv
  <2>1. /\ tx[j].op = "notify"
        /\ \/ /\ tx'[j].chosen = tx[j].chosen
              /\ \/ At(j, "notify", "sending")
                 \/ At(j, "notify", "done") /\ tx[j].result \notin {"failed", "FAILED"}
           \/ tx'[j].chosen = FindActiveTokenRows(tx[j].users, tx[j].type)
    BY DispatchMoves
  <2>2. LastWordIsFor(j, u, d)
    BY <2>1, ForBefore
  <2>3. <<u, d>> \in FindActiveTokenRows(tx[j].users, tx[j].type)
    BY <2>2, PromisedAreSelected DEF PushInv
  <2> QED BY <2>1, <2>2, <2>3 DEF PushInv, ForInv
<1> QED BY <1>1, <1>2, <1>3 DEF PushInv

LEMMA PushInvNext ==
  ASSUME TypeInv, PushInv, [Next]_vars
  PROVE  PushInv'
<1>1. CASE UNCHANGED vars
  <2>1. account' = account /\ token' = token /\ tx' = tx
    BY <1>1 DEF vars
  <2>2. AccountInv'
    BY <2>1 DEF PushInv, AccountInv, Succeeded
  <2>3. SwitchInv'
    BY <2>1 DEF PushInv, SwitchInv, TurnedOn, Since, Succeeded
  <2>4. OwnerInv'
    BY <2>1 DEF PushInv, OwnerInv, TakenBy, Since, Succeeded
  <2>5. RejectInv'
    BY <2>1 DEF PushInv, RejectInv, At
  <2>6. PromiseInv'
    BY <2>1 DEF PushInv, PromiseInv, Kept, Rejected, Spared, Succeeded, At
  <2>7. \A j \in Requests, u \in Users, d \in Devices :
          /\ LastWordIsAgainst(j, u, d)' <=> LastWordIsAgainst(j, u, d)
          /\ LastWordIsFor(j, u, d)' <=> LastWordIsFor(j, u, d)
    BY <2>1 DEF LastWordIsAgainst, LastWordIsFor, Since, Rejected, Succeeded
  <2>8. AgainstInv' /\ ForInv'
    BY <2>1, <2>7 DEF PushInv, AgainstInv, ForInv, At
  <2> QED BY <2>2, <2>3, <2>4, <2>5, <2>6, <2>8 DEF PushInv
<1>2. ASSUME NEW q \in Requests, StepOf(q)
      PROVE  PushInv'
  BY <1>2, PushInvStep
<1> QED BY <1>1, <1>2 DEF Next, StepOf

LEMMA PushInvInit == Init => PushInv
<1> SUFFICES ASSUME Init PROVE PushInv
  OBVIOUS
<1>1. \A r \in Requests : /\ tx[r].pc = "idle" /\ tx[r].op = "none" /\ tx[r].chosen = {}
  BY DEF Init, Idle
<1>2. \A u \in Users : account[u].active /\ account[u].on = Toggles
  BY DEF Init
<1>3. AccountInv /\ SwitchInv /\ OwnerInv
  BY <1>1, <1>2 DEF AccountInv, SwitchInv, OwnerInv
<1>4. RejectInv /\ PromiseInv
  BY <1>1 DEF RejectInv, PromiseInv, At
<1>5. AgainstInv /\ ForInv
  BY <1>1 DEF AgainstInv, ForInv, At
<1> QED BY <1>3, <1>4, <1>5 DEF PushInv

\* Of any users, devices and requests, and any switches: no push goes against what
\* was answered before its dispatch began, a device taken over, refused, switched
\* off or withdrawn, and every device that the answers promise a push is sent one.
THEOREM PushesObeyTheAnswers == Spec => []PushesFollowTheLastWord
<1>1. TypeInv /\ PushInv /\ [Next]_vars => PushInv'
  BY PushInvNext
<1>2. Spec => []PushInv
  BY <1>1, TypeInvHolds, PushInvInit, PTL DEF Spec
<1>3. TypeInv /\ PushInv => PushesFollowTheLastWord
  BY PushInvImplies DEF PushInv
<1> QED BY <1>2, <1>3, TypeInvHolds, PTL
=============================================================================
