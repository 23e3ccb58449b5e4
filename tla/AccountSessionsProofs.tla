----------------------- MODULE AccountSessionsProofs -----------------------
(***************************************************************************)
(* Proofs about AccountSessions, for any number of users, identities,      *)
(* sessions, requests, failures and expiries.                              *)
(***************************************************************************)
EXTENDS AccountSessions, TLAPS

USE NullIsNothing, NullIsNoRow, RequestsAreNew, BoundsAreNat

-----------------------------------------------------------------------------
(* Type correctness                                                        *)

\* TypeOK without the coroutines.
DataOK ==
  /\ account \in [Users -> Account]
  /\ \A u \in Users : account[u].identity = NULL <=> account[u].state \in {"absent", "withdrawn"}
  /\ token \in [Tokens -> TokenPair \cup {NULL}]
  /\ session \in [Tokens -> Session \cup {NULL}]
  /\ blacklist \subseteq Tokens
  /\ age \in [Tokens -> {"valid", "last second", "expired"}]
  /\ faults \in Nat /\ ticks \in Nat

\* A coroutine has a token that was issued.
Issued(t) == t \in Tokens /\ token[t] # NULL

\* What a coroutine holds at each point of its program.
TxOK(x) ==
  /\ x \in TxRecord
  /\ x.op = "none" <=> x.pc = "idle"
  /\ x.pc # "done" => x.result = "none"
  /\ x.op = "login" => x.pc \in {"saving", "done"}
  /\ x.op = "login" /\ x.pc = "saving" => x.user \in Users
  /\ x.op = "reissue" => /\ x.pc \in {"rotating", "dropping", "done"}
                         /\ Issued(x.tok) /\ x.user = token[x.tok].user
  /\ x.op \in {"logout", "withdraw"} => x.user \in Users /\ x.acc \in Tokens
  /\ x.op = "logout" => /\ x.pc \in {"entering", "looking", "blacklisting", "deleting", "done"}
                        /\ x.pc \in {"looking", "blacklisting", "deleting"} \/ x.result = "ok"
                             => Issued(x.tok)
  /\ x.op = "withdraw" => x.pc \notin {"saving", "rotating", "dropping", "looking"}

\* A pair of tokens is issued when its request ends.
TypeInv ==
  /\ DataOK
  /\ tx \in [Requests -> TxRecord]
  /\ \A r \in Requests : TxOK(tx[r])
  /\ \A r \in Requests : token[r] # NULL => tx[r].pc = "done"

LEMMA TypeInvImpliesTypeOK == TypeInv => TypeOK
BY DEF TypeInv, TypeOK, DataOK

LEMMA RestOK == TxOK(Idle)
BY DEF TxOK, Idle, TxRecord, AllOps

\* What a step changes in the record of its coroutine.
LEMMA RecordSteps ==
  ASSUME NEW x \in TxRecord, NEW pc \in {"done", "looking", "blacklisting", "deleting",
                                        "scanning", "committing", "waiting"}
  PROVE  /\ [x EXCEPT !.pc = pc] \in TxRecord
         /\ \A t \in Tokens : [x EXCEPT !.pc = pc, !.tok = t] \in TxRecord
         /\ \A result \in {"ok", "refused", "failed"} :
              [x EXCEPT !.pc = pc, !.result = result] \in TxRecord
<1>1. [x EXCEPT !.pc = pc] \in TxRecord
  BY DEF TxRecord
<1>2. ASSUME NEW t \in Tokens
      PROVE  [x EXCEPT !.pc = pc, !.tok = t] \in TxRecord
  BY DEF TxRecord
<1>3. ASSUME NEW result \in {"ok", "refused", "failed"}
      PROVE  [x EXCEPT !.pc = pc, !.result = result] \in TxRecord
  BY DEF TxRecord
<1> QED BY <1>1, <1>2, <1>3

LEMMA ScanSteps ==
  ASSUME NEW x \in TxRecord, NEW ss \in SUBSET Tokens, NEW ks \in SUBSET Tokens
  PROVE  /\ [x EXCEPT !.pc = "scanning", !.old = ss, !.left = ks] \in TxRecord
         /\ [x EXCEPT !.left = ss, !.keys = ks] \in TxRecord
BY DEF TxRecord

\* One coroutine moves on, no token is issued.
LEMMA TxStep ==
  ASSUME TypeInv, DataOK', UNCHANGED token, NEW r \in Requests, NEW rec, TxOK(rec),
         tx' = [tx EXCEPT ![r] = rec], token[r] = NULL
  PROVE  TypeInv'
<1>1. tx' \in [Requests -> TxRecord]
  BY DEF TypeInv, TxOK
<1>2. \A q \in Requests : TxOK(tx[q])'
  <2> TAKE q \in Requests
  <2>1. CASE q = r
    BY <2>1 DEF TypeInv, TxOK, Issued
  <2>2. CASE q # r
    BY <2>2 DEF TypeInv, TxOK, Issued
  <2> QED BY <2>1, <2>2
<1>3. \A q \in Requests : token'[q] # NULL => tx'[q].pc = "done"
  BY DEF TypeInv
<1> QED BY <1>1, <1>2, <1>3 DEF TypeInv

\* A coroutine ends, and a pair of tokens may be issued.
LEMMA EndStep ==
  ASSUME TypeInv, DataOK', NEW r \in Requests, NEW result \in {"ok", "refused", "failed"},
         tx[r].pc # "idle", Ends(r, result),
         tx[r].op = "logout" /\ result = "ok" => Issued(tx[r].tok),
         \A t \in Tokens \ {r} : token'[t] = token[t],
         token[r] # NULL => token'[r] = token[r]
  PROVE  TypeInv'
<1> DEFINE rec == [tx[r] EXCEPT !.pc = "done", !.result = result]
<1>1. tx' = [tx EXCEPT ![r] = rec]
  BY DEF Ends
<1>2. rec \in TxRecord
  BY RecordSteps DEF TypeInv
<1>3. tx' \in [Requests -> TxRecord]
  BY <1>1, <1>2 DEF TypeInv
<1>4. \A t \in Tokens : token[t] # NULL => token'[t] = token[t]
  OBVIOUS
<1>5. \A q \in Requests : TxOK(tx[q])'
  <2> TAKE q \in Requests
  <2>1. CASE q = r
    <3>1. tx'[q] = rec
      BY <1>1, <2>1 DEF TypeInv
    <3> QED BY <3>1, <1>2, <1>4 DEF TypeInv, TxOK, Issued, TxRecord
  <2>2. CASE q # r
    <3>1. tx'[q] = tx[q]
      BY <1>1, <2>2 DEF TypeInv
    <3> QED BY <3>1, <1>4 DEF TypeInv, TxOK, Issued
  <2> QED BY <2>1, <2>2
<1>6. \A q \in Requests : token'[q] # NULL => tx'[q].pc = "done"
  <2> TAKE q \in Requests
  <2>1. CASE q = r
    BY <1>1, <2>1 DEF TypeInv
  <2>2. CASE q # r
    BY <1>1, <2>2 DEF TypeInv, Tokens
  <2> QED BY <2>1, <2>2
<1> QED BY <1>3, <1>5, <1>6 DEF TypeInv

LEMMA InitTypeInv == Init => TypeInv
<1> SUFFICES ASSUME Init PROVE TypeInv
  OBVIOUS
<1>1. PICK owner \in [OldSessions -> {u \in Users : account[u].state # "absent"}] :
        /\ token = [t \in Tokens |-> IF t \in OldSessions THEN [user |-> owner[t], sid |-> t]
                                     ELSE NULL]
        /\ session = [s \in Tokens |-> IF s \in OldSessions THEN [user |-> owner[s], jti |-> s]
                                       ELSE NULL]
  BY DEF Init
<1>2. token \in [Tokens -> TokenPair \cup {NULL}]
  BY <1>1 DEF TokenPair, Tokens
<1>3. session \in [Tokens -> Session \cup {NULL}]
  BY <1>1 DEF Session, Tokens
<1>4. /\ account \in [Users -> Account]
      /\ \A u \in Users : account[u].identity = NULL <=> account[u].state \in {"absent", "withdrawn"}
  BY DEF Init, Account
<1>5. DataOK
  BY <1>2, <1>3, <1>4 DEF Init, DataOK
<1>6. \A r \in Requests : tx[r] = Idle /\ token[r] = NULL
  BY <1>1 DEF Init, Tokens
<1>7. tx \in [Requests -> TxRecord] /\ \A r \in Requests : TxOK(tx[r])
  BY <1>6, RestOK DEF Init, TxOK
<1> QED BY <1>5, <1>6, <1>7 DEF TypeInv

\* Whatever a provider answers, a login is for an identity or for none.
LEMMA LoginIdentitiesType == LoginIdentities \subseteq Identities \cup {NULL}
<1>1. \A a \in ProviderAnswer : Vouched(a) \in Identities \cup {NULL}
  BY DEF ProviderAnswer, Vouched
<1>2. \A p \in {"KAKAO", "GOOGLE", "APPLE"}, a \in ProviderAnswer, b \in ProviderAnswer :
        OAuthIdentity(p, a, b) \in Identities \cup {NULL}
  BY <1>1 DEF OAuthIdentity, KakaoIdentity, GoogleIdentity, AppleIdentity
<1> QED BY <1>2 DEF LoginIdentities

LEMMA ArriveType ==
  ASSUME TypeInv, NEW r \in Requests, Arrive(r)
  PROVE  TypeInv'
<1>1. token[r] = NULL /\ tx[r].pc = "idle"
  BY DEF TypeInv, Arrive, LoginCheck, LoginRefused, ReissueCheck, GetCurrentAccessPayload
<1>2. ASSUME NEW id \in LoginIdentities, LoginCheck(r, id)
      PROVE  TypeInv'
  <2>1. PICK u \in Users :
          /\ id # NULL
          /\ IF UsersWith(id) = {} THEN account[u].state = "absent" ELSE u \in UsersWith(id)
          /\ account' = IF UsersWith(id) = {}
                          THEN [account EXCEPT ![u] = [state |-> "active", identity |-> id]]
                          ELSE account
          /\ tx' = [tx EXCEPT ![r] =
                      [Idle EXCEPT !.op = "login", !.user = u,
                         !.pc = IF account'[u].state = "active" THEN "saving" ELSE "done",
                         !.result = IF account'[u].state = "active" THEN "none" ELSE "refused"]]
    BY <1>2 DEF LoginCheck
  <2> DEFINE rec == [Idle EXCEPT !.op = "login", !.user = u,
                       !.pc = IF account'[u].state = "active" THEN "saving" ELSE "done",
                       !.result = IF account'[u].state = "active" THEN "none" ELSE "refused"]
  <2>2. id \in Identities
    BY <2>1, LoginIdentitiesType
  <2>3. DataOK'
    BY <1>2, <2>1, <2>2 DEF LoginCheck, TypeInv, DataOK, Account
  <2>4. rec \in TxRecord
    BY DEF Idle, TxRecord, AllOps
  <2>5. TxOK(rec)
    BY <2>4 DEF TxOK, Idle
  <2> QED BY <1>1, <1>2, <2>1, <2>3, <2>5, TxStep DEF LoginCheck
<1>3. ASSUME LoginRefused(r)
      PROVE  TypeInv'
  <2> DEFINE rec == [Idle EXCEPT !.op = "login", !.pc = "done", !.result = "refused"]
  <2>1. rec \in TxRecord
    BY DEF Idle, TxRecord, AllOps
  <2>2. TxOK(rec)
    BY <2>1 DEF TxOK, Idle
  <2>3. DataOK'
    BY <1>3 DEF LoginRefused, TypeInv, DataOK
  <2> QED BY <1>1, <1>3, <2>2, <2>3, TxStep DEF LoginRefused
<1>4. ASSUME NEW t \in Tokens, ReissueCheck(r, t)
      PROVE  TypeInv'
  <2> DEFINE rec == [Idle EXCEPT !.op = "reissue", !.tok = t, !.user = token[t].user,
                       !.pc = IF account[token[t].user].state = "active" THEN "rotating"
                                                                         ELSE "dropping"]
  <2>1. token[t] # NULL /\ token[t].user \in Users
    BY <1>4 DEF ReissueCheck, TypeInv, DataOK, TokenPair
  <2>2. rec \in TxRecord
    BY <2>1 DEF Idle, TxRecord, AllOps
  <2>3. TxOK(rec)
    BY <2>1, <2>2 DEF TxOK, Idle, Issued
  <2>4. DataOK'
    BY <1>4 DEF ReissueCheck, TypeInv, DataOK
  <2> QED BY <1>1, <1>4, <2>3, <2>4, TxStep DEF ReissueCheck
<1>5. ASSUME NEW op \in {"logout", "withdraw"}, NEW a \in Tokens,
             GetCurrentAccessPayload(r, op, a)
      PROVE  TypeInv'
  <2> DEFINE rec == [Idle EXCEPT !.op = op, !.pc = "entering", !.user = token[a].user, !.acc = a]
  <2>1. token[a].user \in Users
    BY <1>5 DEF GetCurrentAccessPayload, Authenticated, TypeInv, DataOK, TokenPair
  <2>2. rec \in TxRecord
    BY <2>1 DEF Idle, TxRecord, AllOps
  <2>3. TxOK(rec)
    BY <2>1, <2>2 DEF TxOK, Idle
  <2>4. DataOK'
    BY <1>5 DEF GetCurrentAccessPayload, TypeInv, DataOK
  <2> QED BY <1>1, <1>5, <2>3, <2>4, TxStep DEF GetCurrentAccessPayload
<1> QED BY <1>2, <1>3, <1>4, <1>5 DEF Arrive

\* The tables keep their types when a session ends, passes or begins.
LEMMA ReissueType ==
  ASSUME TypeInv, NEW r \in Requests, ReissueDrop(r) \/ ReissueRotate(r) \/ ReissueRefused(r)
  PROVE  TypeInv'
<1>1. /\ tx[r].op = "reissue" /\ tx[r].pc # "done" /\ tx[r].pc # "idle"
      /\ tx[r].tok \in Tokens /\ token[tx[r].tok] # NULL
      /\ tx[r].user = token[tx[r].tok].user /\ token[r] = NULL /\ r \in Tokens
  BY DEF ReissueDrop, ReissueRotate, ReissueRefused, At, TypeInv, TxOK, Issued, Tokens
<1>2. token[tx[r].tok] \in TokenPair /\ token[tx[r].tok].sid \in Tokens /\ tx[r].user \in Users
  BY <1>1 DEF TypeInv, DataOK, TokenPair
<1>3. CASE ReissueDrop(r)
  <2>1. DataOK'
    BY <1>2, <1>3 DEF ReissueDrop, TypeInv, DataOK
  <2>2. token' = token /\ Ends(r, "refused")
    BY <1>3 DEF ReissueDrop
  <2> QED BY <1>1, <2>1, <2>2, EndStep
<1>4. CASE ReissueRefused(r)
  <2>1. DataOK'
    BY <1>4 DEF ReissueRefused, TypeInv, DataOK
  <2>2. token' = token /\ Ends(r, "refused")
    BY <1>4 DEF ReissueRefused
  <2> QED BY <1>1, <2>1, <2>2, EndStep
<1>5. CASE ReissueRotate(r)
  <2>1. /\ session' = [session EXCEPT ![token[tx[r].tok].sid] = [user |-> tx[r].user, jti |-> r]]
        /\ token' = [token EXCEPT ![r] = token[tx[r].tok]]
        /\ Ends(r, "ok") /\ UNCHANGED <<account, blacklist, age, faults, ticks>>
    BY <1>5 DEF ReissueRotate, RotateTokens
  <2>2. [user |-> tx[r].user, jti |-> r] \in Session
    BY <1>1, <1>2 DEF Session
  <2>3. DataOK'
    BY <1>2, <2>1, <2>2 DEF TypeInv, DataOK
  <2>4. \A t \in Tokens \ {r} : token'[t] = token[t]
    BY <2>1 DEF TypeInv, DataOK
  <2> QED BY <1>1, <2>1, <2>3, <2>4, EndStep
<1> QED BY <1>3, <1>4, <1>5

LEMMA LoginSaveType ==
  ASSUME TypeInv, NEW r \in Requests, LoginSave(r)
  PROVE  TypeInv'
<1>1. /\ tx[r].op = "login" /\ tx[r].pc # "idle" /\ tx[r].user \in Users
      /\ token[r] = NULL /\ r \in Tokens
  BY DEF LoginSave, At, TypeInv, TxOK, Tokens
<1>2. /\ session' = [session EXCEPT ![r] = [user |-> tx[r].user, jti |-> r]]
      /\ token' = [token EXCEPT ![r] = [user |-> tx[r].user, sid |-> r]]
      /\ Ends(r, "ok") /\ UNCHANGED <<account, blacklist, age, faults, ticks>>
  BY DEF LoginSave, CreateTokens
<1>3. [user |-> tx[r].user, jti |-> r] \in Session /\ [user |-> tx[r].user, sid |-> r] \in TokenPair
  BY <1>1 DEF Session, TokenPair
<1>4. DataOK'
  BY <1>1, <1>2, <1>3 DEF TypeInv, DataOK
<1>5. \A t \in Tokens \ {r} : token'[t] = token[t]
  BY <1>2 DEF TypeInv, DataOK
<1> QED BY <1>1, <1>2, <1>4, <1>5, EndStep

LEMMA BlacklistsType ==
  ASSUME NEW t \in Tokens, blacklist \subseteq Tokens, Blacklists(t)
  PROVE  blacklist' \subseteq Tokens
BY DEF Blacklists

LEMMA LogoutType ==
  ASSUME TypeInv, NEW r \in Requests,
         \/ \E t \in Tokens : LogoutCheck(r, t)
         \/ LogoutLooks(r) \/ LogoutBlacklist(r) \/ LogoutDelete(r)
  PROVE  TypeInv'
<1> DEFINE x == tx[r]
<1>1. /\ x.op = "logout" /\ x.pc # "done" /\ x.pc # "idle" /\ x.result = "none"
      /\ x \in TxRecord /\ TxOK(x) /\ token[r] = NULL
      /\ x.acc \in Tokens /\ x.user \in Users
  BY DEF LogoutCheck, LogoutLooks, LogoutBlacklist, LogoutDelete, At, TypeInv, TxOK
<1>2. ASSUME NEW t \in Tokens, LogoutCheck(r, t)
      PROVE  TypeInv'
  <2>1. DataOK' /\ token' = token /\ token[t] # NULL
    BY <1>2 DEF LogoutCheck, TypeInv, DataOK
  <2>2. CASE token[t].user = x.user
    <3> DEFINE rec == [x EXCEPT !.pc = "looking", !.tok = t]
    <3>1. rec \in TxRecord
      BY <1>1, RecordSteps
    <3>2. TxOK(rec)
      BY <1>1, <2>1, <3>1 DEF TxOK, Issued
    <3>3. tx' = [tx EXCEPT ![r] = rec]
      BY <1>2, <2>2 DEF LogoutCheck
    <3> QED BY <1>1, <2>1, <3>2, <3>3, TxStep
  <2>3. CASE token[t].user # x.user
    <3>1. Ends(r, "refused")
      BY <1>2, <2>3 DEF LogoutCheck, Ends
    <3> QED BY <1>1, <2>1, <3>1, EndStep
  <2> QED BY <2>2, <2>3
<1>3. CASE LogoutLooks(r)
  <2>1. DataOK' /\ token' = token /\ x.pc = "looking"
    BY <1>3 DEF LogoutLooks, At, TypeInv, DataOK
  <2>2. CASE Ends(r, "refused")
    BY <1>1, <2>1, <2>2, EndStep
  <2>3. CASE Goes(r, "blacklisting")
    <3> DEFINE rec == [x EXCEPT !.pc = "blacklisting"]
    <3>1. rec \in TxRecord
      BY <1>1, RecordSteps
    <3>2. TxOK(rec)
      BY <1>1, <2>1, <3>1 DEF TxOK
    <3>3. tx' = [tx EXCEPT ![r] = rec]
      BY <2>3 DEF Goes
    <3> QED BY <1>1, <2>1, <3>2, <3>3, TxStep
  <2> QED BY <1>3, <2>2, <2>3 DEF LogoutLooks
<1>4. CASE LogoutBlacklist(r)
  <2>1. token' = token /\ x.pc = "blacklisting" /\ Goes(r, "deleting")
        /\ Blacklists(x.acc) /\ UNCHANGED <<account, session, age, faults, ticks>>
    BY <1>4 DEF LogoutBlacklist, At
  <2>2. DataOK'
    BY <1>1, <2>1, BlacklistsType DEF TypeInv, DataOK
  <2> DEFINE rec == [x EXCEPT !.pc = "deleting"]
  <2>3. rec \in TxRecord
    BY <1>1, RecordSteps
  <2>4. TxOK(rec)
    BY <1>1, <2>1, <2>3 DEF TxOK
  <2>5. tx' = [tx EXCEPT ![r] = rec]
    BY <2>1 DEF Goes
  <2> QED BY <1>1, <2>1, <2>2, <2>4, <2>5, TxStep
<1>5. CASE LogoutDelete(r)
  <2>1. x.pc = "deleting" /\ Issued(x.tok)
    BY <1>1, <1>5 DEF LogoutDelete, At, TxOK
  <2>2. DataOK' /\ token' = token /\ Ends(r, "ok")
    BY <1>5 DEF LogoutDelete, TypeInv, DataOK
  <2> QED BY <1>1, <2>1, <2>2, EndStep
<1> QED BY <1>2, <1>3, <1>4, <1>5

LEMMA WithdrawType ==
  ASSUME TypeInv, NEW r \in Requests,
         \/ WithdrawWrite(r) \/ \E s \in Tokens : WithdrawVisits(r, s)
         \/ WithdrawDelete(r) \/ WithdrawBlacklist(r) \/ WithdrawCommit(r)
  PROVE  TypeInv'
<1> DEFINE x == tx[r]
<1>1. /\ x.op = "withdraw" /\ x.pc # "done" /\ x.pc # "idle" /\ x.result = "none"
      /\ x \in TxRecord /\ TxOK(x) /\ token[r] = NULL
      /\ x.acc \in Tokens /\ x.user \in Users
  BY DEF WithdrawWrite, WithdrawVisits, WithdrawDelete, WithdrawBlacklist, WithdrawCommit,
         At, TypeInv, TxOK
<1>2. ASSUME NEW pc \in {"waiting", "blacklisting", "committing"}, DataOK', token' = token,
             Goes(r, pc)
      PROVE  TypeInv'
  <2> DEFINE rec == [x EXCEPT !.pc = pc]
  <2>1. rec \in TxRecord
    BY <1>1, RecordSteps
  <2>2. TxOK(rec)
    BY <1>1, <2>1 DEF TxOK
  <2>3. tx' = [tx EXCEPT ![r] = rec]
    BY <1>2 DEF Goes
  <2> QED BY <1>1, <1>2, <2>2, <2>3, TxStep
<1>3. CASE WithdrawWrite(r)
  <2>1. DataOK' /\ token' = token
    BY <1>3 DEF WithdrawWrite, TypeInv, DataOK
  <2>2. CASE Ends(r, "refused")
    BY <1>1, <2>1, <2>2, EndStep
  <2>3. CASE Goes(r, "waiting")
    BY <1>2, <2>1, <2>3
  <2>4. CASE tx' = [tx EXCEPT ![r].pc = "scanning", ![r].old = SessionsOf(x.user),
                              ![r].left = SessionsOf(x.user)]
    <3> DEFINE rec == [x EXCEPT !.pc = "scanning", !.old = SessionsOf(x.user),
                                !.left = SessionsOf(x.user)]
    <3>1. SessionsOf(x.user) \in SUBSET Tokens
      BY DEF SessionsOf
    <3>2. rec \in TxRecord
      BY <1>1, <3>1, ScanSteps
    <3>3. TxOK(rec)
      BY <1>1, <3>2 DEF TxOK
    <3>4. tx' = [tx EXCEPT ![r] = rec]
      BY <2>4
    <3> QED BY <1>1, <2>1, <3>3, <3>4, TxStep
  <2> QED BY <1>3, <2>2, <2>3, <2>4 DEF WithdrawWrite
<1>4. ASSUME NEW s \in Tokens, WithdrawVisits(r, s)
      PROVE  TypeInv'
  <2> DEFINE rec == [x EXCEPT !.left = @ \ {s},
                              !.keys = IF session[s] = NULL THEN @ ELSE @ \cup {s}]
  <2>1. x.left \in SUBSET Tokens /\ x.keys \in SUBSET Tokens
    BY <1>1 DEF TxRecord
  <2>2. rec \in TxRecord
    BY <1>1, <2>1, ScanSteps
  <2>3. TxOK(rec)
    BY <1>1, <2>2 DEF TxOK
  <2>4. tx' = [tx EXCEPT ![r] = rec]
    BY <1>4 DEF WithdrawVisits
  <2>5. DataOK' /\ token' = token
    BY <1>4 DEF WithdrawVisits, TypeInv, DataOK
  <2> QED BY <1>1, <2>3, <2>4, <2>5, TxStep
<1>5. CASE WithdrawDelete(r)
  <2>1. DataOK' /\ token' = token
    BY <1>5 DEF WithdrawDelete, TypeInv, DataOK
  <2> QED BY <1>2, <1>5, <2>1 DEF WithdrawDelete
<1>6. CASE WithdrawBlacklist(r)
  <2>1. token' = token /\ Goes(r, "committing")
        /\ Blacklists(x.acc) /\ UNCHANGED <<account, session, age, faults, ticks>>
    BY <1>6 DEF WithdrawBlacklist
  <2>2. DataOK'
    BY <1>1, <2>1, BlacklistsType DEF TypeInv, DataOK
  <2> QED BY <1>2, <2>1, <2>2
<1>7. CASE WithdrawCommit(r)
  <2>1. DataOK' /\ token' = token /\ Ends(r, "ok")
    BY <1>1, <1>7 DEF WithdrawCommit, Withdrawn, TypeInv, DataOK, Account
  <2> QED BY <1>1, <2>1, EndStep
<1> QED BY <1>3, <1>4, <1>5, <1>6, <1>7

LEMMA ContinueType ==
  ASSUME TypeInv, NEW r \in Requests, Continue(r)
  PROVE  TypeInv'
BY LoginSaveType, ReissueType, LogoutType, WithdrawType DEF Continue

LEMMA OneMore == \A n \in Nat : n + 1 \in Nat
OBVIOUS

LEMMA FailsType ==
  ASSUME TypeInv, NEW r \in Requests, Fails(r)
  PROVE  TypeInv'
<1>1. /\ faults' = faults + 1 /\ Ends(r, "failed") /\ tx[r].pc # "idle"
      /\ UNCHANGED <<account, token, session, blacklist, age, ticks>>
  BY DEF Fails
<1>2. faults' \in Nat
  BY <1>1, OneMore DEF TypeInv, DataOK
<1>3. DataOK'
  BY <1>1, <1>2 DEF TypeInv, DataOK
<1> QED BY <1>1, <1>3, EndStep

LEMMA RestartType ==
  ASSUME TypeInv, Restart
  PROVE  TypeInv'
<1>1. faults' \in Nat
  BY OneMore DEF Restart, TypeInv, DataOK
<1>2. DataOK' /\ token' = token
  BY <1>1 DEF Restart, TypeInv, DataOK
<1>3. \A r \in Requests : tx'[r] \in TxRecord /\ TxOK(tx[r])'
  <2> TAKE r \in Requests
  <2>1. CASE tx'[r] = tx[r]
    BY <1>2, <2>1 DEF TypeInv, TxOK, Issued
  <2>2. CASE tx[r].pc # "idle" /\ tx'[r] = [tx[r] EXCEPT !.pc = "done", !.result = "failed"]
    <3>1. tx[r] \in TxRecord
      BY DEF TypeInv
    <3>2. tx'[r] \in TxRecord
      BY <2>2, <3>1, RecordSteps
    <3> QED BY <1>2, <2>2, <3>2 DEF TypeInv, TxOK, Issued
  <2> QED BY <2>1, <2>2 DEF Restart
<1>4. tx' \in [Requests -> TxRecord]
  BY <1>3 DEF Restart
<1>5. \A r \in Requests : token'[r] # NULL => tx'[r].pc = "done"
  BY <1>2 DEF Restart, TypeInv
<1> QED BY <1>2, <1>3, <1>4, <1>5 DEF TypeInv

LEMMA TimeType ==
  ASSUME TypeInv, NEW t \in Tokens, AccessTokenAges(t) \/ SessionExpires(t)
  PROVE  TypeInv'
<1>1. /\ token' = token /\ tx' = tx /\ ticks' = ticks + 1
      /\ UNCHANGED <<account, faults>>
      /\ session' = session \/ session' = [session EXCEPT ![t] = NULL]
      /\ \/ age' = age /\ blacklist' = blacklist
         \/ /\ age' = [age EXCEPT ![t] = IF @ = "valid" THEN "last second" ELSE "expired"]
            /\ blacklist' = blacklist \ {t}
  BY DEF AccessTokenAges, SessionExpires
<1>2. ticks' \in Nat
  BY <1>1, OneMore DEF TypeInv, DataOK
<1>3. DataOK' /\ token' = token /\ tx' = tx
  BY <1>1, <1>2 DEF TypeInv, DataOK
<1> QED BY <1>3 DEF TypeInv, TxOK, Issued

LEMMA TypeInvStep == TypeInv /\ [Next]_vars => TypeInv'
<1> SUFFICES ASSUME TypeInv, [Next]_vars PROVE TypeInv'
  OBVIOUS
<1>1. CASE Next
  BY <1>1, ArriveType, ContinueType, FailsType, RestartType, TimeType DEF Next
<1>2. CASE UNCHANGED vars
  BY <1>2 DEF vars, TypeInv, DataOK, TxOK, Issued
<1> QED BY <1>1, <1>2

\* Accounts, tokens, sessions and coroutines keep their types, and the provider id
\* of an account is masked by its withdrawal and by nothing else.
THEOREM TypeCorrect == Spec => []TypeOK
<1>1. Spec => []TypeInv
  BY InitTypeInv, TypeInvStep, PTL DEF Spec
<1> QED BY <1>1, TypeInvImpliesTypeOK, PTL

-----------------------------------------------------------------------------
(* What a step may do to sessions                                          *)

Opens(r) ==
  /\ token[r] = NULL
  /\ \E u \in Users : /\ token' = [token EXCEPT ![r] = [user |-> u, sid |-> r]]
                      /\ session' = [session EXCEPT ![r] = [user |-> u, jti |-> r]]

Passes(r, s) ==
  /\ token[r] = NULL /\ session[s] # NULL
  /\ token' = [token EXCEPT ![r] = token[session[s].jti]]
  /\ token[session[s].jti] # NULL /\ token[session[s].jti].sid = s
  /\ session' = [session EXCEPT ![s] = [user |-> session[s].user, jti |-> r]]

Closes(ss) ==
  /\ token' = token
  /\ session' = [s \in Tokens |-> IF s \in ss THEN NULL ELSE session[s]]

SessionStep ==
  \/ \E r \in Requests : Opens(r) \/ \E s \in Tokens : Passes(r, s)
  \/ \E ss \in SUBSET Tokens : Closes(ss)

LEMMA ClosesNothing ==
  ASSUME TypeInv, UNCHANGED <<token, session>>
  PROVE  SessionStep
<1>1. Closes({})
  BY DEF TypeInv, DataOK, Closes
<1> QED BY <1>1 DEF SessionStep

LEMMA ClosesOne ==
  ASSUME TypeInv, NEW s \in Tokens, token' = token, session' = [session EXCEPT ![s] = NULL]
  PROVE  SessionStep
<1>1. Closes({s})
  BY DEF TypeInv, DataOK, Closes
<1> QED BY <1>1 DEF SessionStep

LEMMA ContinueOnSessions ==
  ASSUME TypeInv, NEW r \in Requests, Continue(r)
  PROVE  SessionStep
<1>1. TxOK(tx[r]) /\ tx[r] \in TxRecord /\ (tx[r].pc # "done" => token[r] = NULL)
  BY DEF TypeInv
<1>2. \A t \in Tokens : Issued(t) => token[t].sid \in Tokens
  BY DEF TypeInv, DataOK, Issued, TokenPair
<1>3. CASE LoginSave(r)
  <2>1. Opens(r)
    BY <1>1, <1>3 DEF LoginSave, CreateTokens, At, TxOK, Opens
  <2> QED BY <2>1 DEF SessionStep
<1>4. CASE ReissueDrop(r)
  <2>1. Issued(tx[r].tok)
    BY <1>1, <1>4 DEF ReissueDrop, At, TxOK
  <2> QED BY <1>2, <1>4, <2>1, ClosesOne DEF ReissueDrop, Issued
<1>5. CASE ReissueRotate(r)
  <2> DEFINE s == token[tx[r].tok].sid
  <2>1. tx[r].op = "reissue" /\ tx[r].pc # "done"
    BY <1>5 DEF ReissueRotate, At
  <2>2. Issued(tx[r].tok)
    BY <1>1, <2>1 DEF TxOK
  <2>3. Issued(tx[r].tok) /\ s \in Tokens
    BY <1>2, <2>2 DEF Issued
  <2>4. Passes(r, s)
    BY <1>1, <1>5, <2>3, <2>1 DEF ReissueRotate, MayRotate, RotateTokens, At, Passes, Issued
  <2> QED BY <2>3, <2>4 DEF SessionStep
<1>6. CASE LogoutDelete(r)
  <2>1. Issued(tx[r].tok)
    BY <1>1, <1>6 DEF LogoutDelete, At, TxOK
  <2> QED BY <1>2, <1>6, <2>1, ClosesOne DEF LogoutDelete, Issued
<1>7. CASE WithdrawDelete(r)
  <2>1. Closes(tx[r].keys) /\ tx[r].keys \in SUBSET Tokens
    BY <1>1, <1>7 DEF WithdrawDelete, Closes, TxRecord
  <2> QED BY <2>1 DEF SessionStep
<1>8. CASE UNCHANGED <<token, session>>
  BY <1>8, ClosesNothing
<1> QED BY <1>3, <1>4, <1>5, <1>6, <1>7, <1>8
        DEF Continue, ReissueRefused, LogoutCheck, LogoutLooks, LogoutBlacklist,
            WithdrawWrite, WithdrawVisits, WithdrawBlacklist, WithdrawCommit

LEMMA NextOnSessions == TypeInv /\ [Next]_vars => SessionStep
<1> SUFFICES ASSUME TypeInv, [Next]_vars PROVE SessionStep
  OBVIOUS
<1>1. ASSUME NEW r \in Requests, Continue(r) PROVE SessionStep
  BY <1>1, ContinueOnSessions
<1>2. ASSUME NEW s \in Tokens, SessionExpires(s) PROVE SessionStep
  BY <1>2, ClosesOne DEF SessionExpires
<1>3. CASE UNCHANGED <<token, session>>
  BY <1>3, ClosesNothing
<1>4. ASSUME NEW r \in Requests, Arrive(r) \/ Fails(r) PROVE UNCHANGED <<token, session>>
  BY <1>4 DEF Arrive, LoginCheck, LoginRefused, ReissueCheck, GetCurrentAccessPayload, Fails
<1>5. ASSUME NEW t \in Tokens, AccessTokenAges(t) PROVE UNCHANGED <<token, session>>
  BY <1>5 DEF AccessTokenAges
<1>6. Restart \/ UNCHANGED vars => UNCHANGED <<token, session>>
  BY DEF Restart, vars
<1> QED BY <1>1, <1>2, <1>3, <1>4, <1>5, <1>6 DEF Next

-----------------------------------------------------------------------------
(* Sessions and the tokens that hold them                                  *)

\* A session has been opened by the first of its tokens, whose id it has.
SessionInv ==
  /\ SessionMatchesItsToken
  /\ \A t \in Tokens : token[t] # NULL => token[token[t].sid] # NULL

LEMMA InitSessionInv == Init => SessionInv
<1> SUFFICES ASSUME Init PROVE SessionInv
  OBVIOUS
<1>1. PICK owner \in [OldSessions -> {u \in Users : account[u].state # "absent"}] :
        /\ token = [t \in Tokens |-> IF t \in OldSessions THEN [user |-> owner[t], sid |-> t]
                                     ELSE NULL]
        /\ session = [s \in Tokens |-> IF s \in OldSessions THEN [user |-> owner[s], jti |-> s]
                                       ELSE NULL]
  BY DEF Init
<1>2. \A t \in OldSessions :
        /\ token[t] = [user |-> owner[t], sid |-> t]
        /\ session[t] = [user |-> owner[t], jti |-> t]
        /\ token[t] # NULL
  <2> TAKE t \in OldSessions
  <2>1. [user |-> owner[t], sid |-> t] \in TokenPair
    BY DEF TokenPair, Tokens
  <2> QED BY <1>1, <2>1 DEF Tokens
<1>3. \A t \in Tokens \ OldSessions : token[t] = NULL /\ session[t] = NULL
  BY <1>1
<1>4. \A t \in OldSessions : /\ session[t].jti = t /\ session[t].user = owner[t]
                             /\ token[t].sid = t
  <2> TAKE t \in OldSessions
  <2>1. /\ token[t] = [user |-> owner[t], sid |-> t]
        /\ session[t] = [user |-> owner[t], jti |-> t]
    BY <1>2
  <2> QED BY <2>1
<1>5. SessionMatchesItsToken
  BY <1>2, <1>3, <1>4 DEF SessionMatchesItsToken
<1>6. \A t \in Tokens : token[t] # NULL => token[token[t].sid] # NULL
  BY <1>2, <1>3, <1>4
<1> QED BY <1>5, <1>6 DEF SessionInv

\* Tokens are issued once.
LEMMA IssuedForGood ==
  ASSUME TypeInv, SessionStep
  PROVE  \A t \in Tokens : token[t] # NULL => token'[t] = token[t] /\ token'[t] # NULL
<1> SUFFICES ASSUME NEW t \in Tokens, token[t] # NULL PROVE token'[t] = token[t]
  OBVIOUS
<1>1. ASSUME NEW r \in Requests, Opens(r) PROVE token'[t] = token[t]
  BY <1>1 DEF Opens, TypeInv, DataOK
<1>2. ASSUME NEW r \in Requests, NEW s \in Tokens, Passes(r, s) PROVE token'[t] = token[t]
  BY <1>2 DEF Passes, TypeInv, DataOK
<1> QED BY <1>1, <1>2 DEF SessionStep, Closes

\* What opening and passing leave in the two tables.
LEMMA OpensEffect ==
  ASSUME TypeInv, NEW r \in Requests, Opens(r)
  PROVE  /\ token[r] = NULL /\ token'[r] # NULL /\ session'[r] # NULL
         /\ token'[r] = [user |-> session'[r].user, sid |-> r] /\ session'[r].jti = r
         /\ \A t \in Tokens : t # r => token'[t] = token[t] /\ session'[t] = session[t]
<1>1. r \in Tokens
  BY DEF Tokens
<1>2. PICK u \in Users : /\ token' = [token EXCEPT ![r] = [user |-> u, sid |-> r]]
                         /\ session' = [session EXCEPT ![r] = [user |-> u, jti |-> r]]
  BY DEF Opens
<1>3. [user |-> u, sid |-> r] # NULL /\ [user |-> u, jti |-> r] # NULL
  BY <1>1 DEF TokenPair, Session
<1> QED BY <1>1, <1>2, <1>3 DEF Opens, TypeInv, DataOK

LEMMA PassesEffect ==
  ASSUME TypeInv, NEW r \in Requests, NEW s \in Tokens, Passes(r, s)
  PROVE  /\ token[r] = NULL /\ session[s] # NULL /\ session'[s] # NULL
         /\ token[session[s].jti] # NULL /\ session[s].jti \in Tokens
         /\ token'[r] = token[session[s].jti] /\ token'[r] # NULL /\ token'[r].sid = s
         /\ session'[s].user = session[s].user /\ session'[s].jti = r
         /\ \A t \in Tokens : t # r => token'[t] = token[t]
         /\ \A t \in Tokens : t # s => session'[t] = session[t]
<1>1. r \in Tokens /\ session[s] \in Session
  BY DEF Tokens, TypeInv, DataOK, Passes
<1>2. [user |-> session[s].user, jti |-> r] # NULL
  BY <1>1 DEF Session
<1> QED BY <1>1, <1>2 DEF Passes, TypeInv, DataOK, Session

LEMMA ClosesEffect ==
  ASSUME NEW ss \in SUBSET Tokens, Closes(ss)
  PROVE  token' = token /\ \A s \in Tokens : session'[s] = NULL \/ session'[s] = session[s]
BY DEF Closes

LEMMA SessionInvStep ==
  ASSUME TypeInv, SessionInv, SessionStep
  PROVE  SessionInv'
<1>1. \A t \in Tokens : token[t] # NULL => token'[t] = token[t] /\ token'[t] # NULL
  BY IssuedForGood
<1>2. \A s \in Tokens : session[s] # NULL => session[s].jti \in Tokens
  BY DEF TypeInv, DataOK, Session
<1>3. \A t \in Tokens : token[t] # NULL => token[t].sid \in Tokens /\ token[t] \in TokenPair
  BY DEF TypeInv, DataOK, TokenPair
<1>4. \A s \in Tokens : session[s] # NULL =>
        token[session[s].jti] = [user |-> session[s].user, sid |-> s]
        /\ token[session[s].jti] # NULL
  <2> SUFFICES ASSUME NEW s \in Tokens, session[s] # NULL
               PROVE  /\ token[session[s].jti] = [user |-> session[s].user, sid |-> s]
                      /\ token[session[s].jti] # NULL
    OBVIOUS
  <2>1. session[s].user \in Users
    BY DEF TypeInv, DataOK, Session
  <2>2. [user |-> session[s].user, sid |-> s] \in TokenPair
    BY <2>1 DEF TokenPair
  <2> QED BY <2>2 DEF SessionInv, SessionMatchesItsToken
<1>5. ASSUME NEW r \in Requests, Opens(r)
      PROVE  SessionInv'
  <2>1. SessionMatchesItsToken'
    <3> SUFFICES ASSUME NEW s \in Tokens, session'[s] # NULL
                 PROVE  token'[session'[s].jti] = [user |-> session'[s].user, sid |-> s]
      BY DEF SessionMatchesItsToken
    <3>1. CASE s = r
      BY <1>5, <3>1, OpensEffect
    <3>2. CASE s # r
      <4>1. session'[s] = session[s]
        BY <1>5, <3>2, OpensEffect
      <4> QED BY <1>1, <1>2, <1>4, <4>1
    <3> QED BY <3>1, <3>2
  <2>2. \A t \in Tokens : token'[t] # NULL => token'[token'[t].sid] # NULL
    <3> SUFFICES ASSUME NEW t \in Tokens, token'[t] # NULL PROVE token'[token'[t].sid] # NULL
      OBVIOUS
    <3>1. CASE t = r
      <4>1. token'[r] = [user |-> session'[r].user, sid |-> r] /\ token'[r] # NULL
        BY <1>5, OpensEffect
      <4> QED BY <3>1, <4>1
    <3>2. CASE t # r
      <4>1. token'[t] = token[t]
        BY <1>5, <3>2, OpensEffect
      <4>2. token[t].sid \in Tokens /\ token[token[t].sid] # NULL
        BY <1>3, <4>1 DEF SessionInv
      <4> QED BY <1>1, <4>1, <4>2
    <3> QED BY <3>1, <3>2
  <2> QED BY <2>1, <2>2 DEF SessionInv
<1>6. ASSUME NEW r \in Requests, NEW s \in Tokens, Passes(r, s)
      PROVE  SessionInv'
  <2>1. token'[r] = [user |-> session'[s].user, sid |-> s]
    BY <1>4, <1>6, PassesEffect
  <2>2. SessionMatchesItsToken'
    BY <1>1, <1>2, <1>4, <1>6, <2>1, PassesEffect DEF SessionMatchesItsToken
  <2>3. token[s] # NULL
    BY <1>4, <1>6, PassesEffect DEF SessionInv
  <2>4. \A t \in Tokens : token'[t] # NULL => token'[token'[t].sid] # NULL
    <3> SUFFICES ASSUME NEW t \in Tokens, token'[t] # NULL PROVE token'[token'[t].sid] # NULL
      OBVIOUS
    <3>1. CASE t = r
      BY <1>1, <1>6, <2>3, <3>1, PassesEffect
    <3>2. CASE t # r
      BY <1>1, <1>3, <1>6, <3>2, PassesEffect DEF SessionInv
    <3> QED BY <3>1, <3>2
  <2> QED BY <2>2, <2>4 DEF SessionInv
<1>7. ASSUME NEW ss \in SUBSET Tokens, Closes(ss)
      PROVE  SessionInv'
  BY <1>7, ClosesEffect DEF SessionInv, SessionMatchesItsToken
<1> QED BY <1>5, <1>6, <1>7 DEF SessionStep

LEMMA SessionInvAlways == Spec => [](TypeInv /\ SessionInv)
<1>1. TypeInv /\ SessionInv /\ [Next]_vars => TypeInv' /\ SessionInv'
  BY TypeInvStep, NextOnSessions, SessionInvStep
<1> QED BY <1>1, InitTypeInv, InitSessionInv, PTL DEF Spec

\* Whoever holds a session holds a token that was issued to its user for it.
THEOREM SessionsMatchTheirTokens == Spec => []SessionMatchesItsToken
<1>1. SessionInv => SessionMatchesItsToken
  BY DEF SessionInv
<1> QED BY <1>1, SessionInvAlways, PTL

\* A session that has ended.
Ended(s) == token[s] # NULL /\ session[s] = NULL

LEMMA EndedForGood ==
  ASSUME TypeInv, SessionStep, NEW s \in Tokens, Ended(s)
  PROVE  Ended(s)'
<1>1. token'[s] # NULL
  BY IssuedForGood DEF Ended
<1>2. ASSUME NEW r \in Requests, Opens(r) PROVE session'[s] = NULL
  BY <1>2, OpensEffect DEF Ended
<1>3. ASSUME NEW r \in Requests, NEW q \in Tokens, Passes(r, q) PROVE session'[s] = NULL
  BY <1>3, PassesEffect DEF Ended
<1>4. ASSUME NEW ss \in SUBSET Tokens, Closes(ss) PROVE session'[s] = NULL
  BY <1>4, ClosesEffect DEF Ended
<1> QED BY <1>1, <1>2, <1>3, <1>4 DEF Ended, SessionStep

\* A token that has been exchanged.
UsedUp(t) == Issued(t) /\ \A s \in Tokens : session[s] # NULL => session[s].jti # t

LEMMA UsedUpForGood ==
  ASSUME TypeInv, SessionStep, NEW t, UsedUp(t)
  PROVE  UsedUp(t)'
<1>1. t \in Tokens /\ token[t] # NULL
  BY DEF UsedUp, Issued
<1>2. Issued(t)'
  BY <1>1, IssuedForGood DEF Issued
<1>3. ASSUME NEW r \in Requests, Opens(r) PROVE UsedUp(t)'
  <2>1. \A s \in Tokens : session'[s] = session[s] \/ session'[s].jti = r
    BY <1>3, OpensEffect
  <2>2. t # r
    BY <1>1, <1>3, OpensEffect
  <2> QED BY <1>2, <2>1, <2>2 DEF UsedUp
<1>4. ASSUME NEW r \in Requests, NEW q \in Tokens, Passes(r, q) PROVE UsedUp(t)'
  BY <1>1, <1>2, <1>4, PassesEffect DEF UsedUp
<1>5. ASSUME NEW ss \in SUBSET Tokens, Closes(ss) PROVE UsedUp(t)'
  BY <1>1, <1>2, <1>5, ClosesEffect DEF UsedUp
<1> QED BY <1>3, <1>4, <1>5 DEF SessionStep

-----------------------------------------------------------------------------
(* What requests have done to sessions                                     *)

\* An access token that Authenticated refuses, but for its last second.
Refused(t) == t \in blacklist \/ age[t] # "valid"

\* What is so from some point of a request's program on.
RequestOK(r) ==
  /\ At(r, "reissue", "done") /\ tx[r].result = "ok" => UsedUp(tx[r].tok)
  /\ At(r, "logout", "deleting") => Refused(tx[r].acc)
  /\ At(r, "logout", "done") /\ tx[r].result = "ok" =>
       Refused(tx[r].acc) /\ Ended(token[tx[r].tok].sid)
  /\ At(r, "withdraw", "scanning") =>
       \A s \in tx[r].old : token[s] # NULL /\ (s \in tx[r].left \cup tx[r].keys \/ Ended(s))
  /\ tx[r].op = "withdraw" /\ tx[r].pc \in {"blacklisting", "committing"} =>
       \A s \in tx[r].old : Ended(s)
  /\ At(r, "withdraw", "done") /\ tx[r].result = "ok" => \A s \in tx[r].old : Ended(s)

RequestInv == ExchangedOnce /\ \A r \in Requests : RequestOK(r)

LEMMA RefusedForGood ==
  ASSUME TypeInv, [Next]_vars, NEW t \in Tokens, Refused(t)
  PROVE  Refused(t)'
<1>1. CASE UNCHANGED <<blacklist, age>>
  BY <1>1 DEF Refused
<1>2. ASSUME NEW a, Blacklists(a), age' = age
      PROVE  Refused(t)'
  BY <1>2 DEF Refused, Blacklists
<1>3. ASSUME NEW a \in Tokens, AccessTokenAges(a)
      PROVE  Refused(t)'
  <2>1. /\ age' = [age EXCEPT ![a] = IF @ = "valid" THEN "last second" ELSE "expired"]
        /\ blacklist' = blacklist \ {a} /\ age[a] \in {"valid", "last second", "expired"}
    BY <1>3 DEF AccessTokenAges, TypeInv, DataOK
  <2>2. CASE t = a
    BY <2>1, <2>2 DEF Refused, TypeInv, DataOK
  <2>3. CASE t # a
    BY <2>1, <2>3 DEF Refused, TypeInv, DataOK
  <2> QED BY <2>2, <2>3
<1>4. ASSUME NEW r \in Requests, Continue(r)
      PROVE  Refused(t)'
  <2>1. LogoutBlacklist(r) \/ WithdrawBlacklist(r) => Blacklists(tx[r].acc) /\ age' = age
    BY DEF LogoutBlacklist, WithdrawBlacklist
  <2>2. Continue(r) => LogoutBlacklist(r) \/ WithdrawBlacklist(r) \/ UNCHANGED <<blacklist, age>>
    BY DEF Continue, LoginSave, ReissueDrop, ReissueRotate, ReissueRefused, LogoutCheck,
           LogoutLooks, LogoutDelete, WithdrawWrite, WithdrawVisits, WithdrawDelete,
           WithdrawCommit
  <2> QED BY <1>1, <1>2, <1>4, <2>1, <2>2
<1>5. ASSUME NEW r \in Requests, Arrive(r) \/ Fails(r) PROVE UNCHANGED <<blacklist, age>>
  BY <1>5 DEF Arrive, LoginCheck, LoginRefused, ReissueCheck, GetCurrentAccessPayload, Fails
<1>6. (\E s \in Tokens : SessionExpires(s)) \/ Restart \/ UNCHANGED vars
        => UNCHANGED <<blacklist, age>>
  BY DEF SessionExpires, Restart, vars
<1> QED BY <1>1, <1>3, <1>4, <1>5, <1>6 DEF Next

\* A request that makes no step keeps what it has.
LEMMA Bystander ==
  ASSUME TypeInv, [Next]_vars, SessionStep, NEW r \in Requests, RequestOK(r),
         tx'[r] = tx[r]
  PROVE  RequestOK(r)'
<1>1. \A s \in Tokens : Ended(s) => Ended(s)'
  BY EndedForGood
<1>2. \A t : UsedUp(t) => UsedUp(t)'
  BY UsedUpForGood
<1>3. \A t \in Tokens : Refused(t) => Refused(t)'
  BY RefusedForGood
<1>4. \A t \in Tokens : token[t] # NULL => token'[t] = token[t] /\ token'[t] # NULL
  BY IssuedForGood
<1>5. /\ tx[r].old \subseteq Tokens
      /\ tx[r].op = "logout" => tx[r].acc \in Tokens
      /\ At(r, "logout", "done") /\ tx[r].result = "ok" => Issued(tx[r].tok)
  BY DEF TypeInv, TxOK, TxRecord, At
<1>6. \A t : Issued(t) => token'[t] = token[t] /\ token[t].sid \in Tokens
  BY <1>4 DEF TypeInv, DataOK, Issued, TokenPair
<1>7. At(r, "reissue", "done") /\ tx[r].result = "ok" => UsedUp(tx[r].tok)'
  BY <1>2 DEF RequestOK
<1>8. /\ At(r, "logout", "deleting") => Refused(tx[r].acc)'
      /\ At(r, "logout", "done") /\ tx[r].result = "ok" =>
           Refused(tx[r].acc)' /\ Ended(token[tx[r].tok].sid)'
  BY <1>1, <1>3, <1>5, <1>6 DEF RequestOK, At
<1>9. At(r, "withdraw", "scanning") =>
        \A s \in tx[r].old : token'[s] # NULL /\ (s \in tx[r].left \cup tx[r].keys \/ Ended(s)')
  BY <1>1, <1>4, <1>5 DEF RequestOK
<1>10. /\ tx[r].op = "withdraw" /\ tx[r].pc \in {"blacklisting", "committing"} =>
            \A s \in tx[r].old : Ended(s)'
       /\ At(r, "withdraw", "done") /\ tx[r].result = "ok" => \A s \in tx[r].old : Ended(s)'
  BY <1>1, <1>5 DEF RequestOK
<1> QED BY <1>7, <1>8, <1>9, <1>10 DEF RequestOK, At

LEMMA EndsRecord ==
  ASSUME TypeInv, NEW r \in Requests, NEW result, Ends(r, result)
  PROVE  /\ tx'[r].pc = "done" /\ tx'[r].result = result /\ tx'[r].op = tx[r].op
         /\ tx'[r].tok = tx[r].tok /\ tx'[r].acc = tx[r].acc /\ tx'[r].old = tx[r].old
         /\ \A q \in Requests : q # r => tx'[q] = tx[q]
BY DEF Ends, TypeInv, TxRecord

LEMMA GoesRecord ==
  ASSUME TypeInv, NEW r \in Requests, NEW pc, Goes(r, pc)
  PROVE  /\ tx'[r].pc = pc /\ tx'[r].op = tx[r].op
         /\ tx'[r].tok = tx[r].tok /\ tx'[r].acc = tx[r].acc /\ tx'[r].old = tx[r].old
         /\ \A q \in Requests : q # r => tx'[q] = tx[q]
BY DEF Goes, TypeInv, TxRecord

\* A request that has only begun, or has failed or been refused.
HasNothing(r) ==
  \/ tx[r].pc \in {"idle", "entering", "saving", "rotating", "dropping", "waiting", "looking"}
  \/ tx[r].pc = "done" /\ tx[r].result # "ok"
  \/ tx[r].op = "login"
  \/ tx[r].op = "logout" /\ tx[r].pc = "blacklisting"

LEMMA NothingToKeep ==
  ASSUME NEW r \in Requests, HasNothing(r)'
  PROVE  RequestOK(r)'
BY DEF RequestOK, At, HasNothing

\* The coroutine that goes on has what it then holds.
LEMMA ReissueKeeps ==
  ASSUME TypeInv, SessionInv, NEW r \in Requests, ReissueRotate(r)
  PROVE  RequestOK(r)' /\ token'[r] # NULL
<1> DEFINE t == tx[r].tok
           s == token[t].sid
<1>1. /\ tx[r].op = "reissue" /\ tx[r].pc = "rotating" /\ tx[r] \in TxRecord
      /\ Issued(t) /\ t \in Tokens /\ token[t] # NULL /\ token[r] = NULL
  BY DEF ReissueRotate, At, TypeInv, TxOK, Issued
<1>2. s \in Tokens
  BY <1>1 DEF TypeInv, DataOK, TokenPair
<1>3. Passes(r, s) /\ session[s].jti = t
  BY <1>1, <1>2 DEF ReissueRotate, MayRotate, RotateTokens, At, Passes
<1>4. t # r
  BY <1>1
<1>5. \A q \in Tokens : session[q] # NULL /\ session[q].jti = t => q = s
  <2> TAKE q \in Tokens
  <2> HAVE session[q] # NULL /\ session[q].jti = t
  <2>1. token[t] = [user |-> session[q].user, sid |-> q]
    BY DEF SessionInv, SessionMatchesItsToken
  <2> QED BY <2>1
<1>6. \A q \in Tokens : session'[q] # NULL => session'[q].jti # t
  <2> SUFFICES ASSUME NEW q \in Tokens, session'[q] # NULL PROVE session'[q].jti # t
    OBVIOUS
  <2>1. CASE q = s
    BY <1>2, <1>3, <1>4, <2>1, PassesEffect
  <2>2. CASE q # s
    <3>1. session'[q] = session[q]
      BY <1>2, <1>3, <2>2, PassesEffect
    <3> QED BY <1>5, <2>2, <3>1
  <2> QED BY <2>1, <2>2
<1>7. token'[t] = token[t] /\ token'[r] # NULL
  BY <1>1, <1>2, <1>3, <1>4, PassesEffect
<1>8. /\ tx'[r].pc = "done" /\ tx'[r].op = "reissue" /\ tx'[r].tok = t
  BY <1>1 DEF ReissueRotate, Ends, TypeInv
<1>9. UsedUp(tx[r].tok)'
  BY <1>1, <1>6, <1>7, <1>8 DEF UsedUp, Issued
<1> QED BY <1>7, <1>8, <1>9 DEF RequestOK, At

LEMMA LogoutKeeps ==
  ASSUME TypeInv, SessionInv, NEW r \in Requests, RequestOK(r),
         LogoutBlacklist(r) \/ LogoutDelete(r)
  PROVE  RequestOK(r)'
<1>1. /\ tx[r].op = "logout" /\ tx[r].pc \in {"blacklisting", "deleting"}
      /\ tx[r] \in TxRecord /\ tx[r].acc \in Tokens
      /\ Issued(tx[r].tok) /\ tx \in [Requests -> TxRecord]
  BY DEF LogoutBlacklist, LogoutDelete, At, TypeInv, TxOK
<1>2. CASE LogoutBlacklist(r)
  <2>1. /\ tx'[r].op = "logout" /\ tx'[r].pc = "deleting" /\ tx'[r].acc = tx[r].acc
        /\ Blacklists(tx[r].acc) /\ age' = age
    BY <1>1, <1>2 DEF LogoutBlacklist, Goes
  <2>2. Refused(tx[r].acc)'
    BY <2>1 DEF Blacklists, Refused
  <2> QED BY <2>1, <2>2 DEF RequestOK, At
<1>3. CASE LogoutDelete(r)
  <2> DEFINE s == token[tx[r].tok].sid
  <2>1. /\ tx'[r].op = "logout" /\ tx'[r].pc = "done" /\ tx'[r].acc = tx[r].acc
        /\ tx'[r].tok = tx[r].tok
        /\ session' = [session EXCEPT ![s] = NULL] /\ UNCHANGED <<token, blacklist, age>>
    BY <1>1, <1>3 DEF LogoutDelete, Ends
  <2>2. s \in Tokens /\ token[s] # NULL
    BY <1>1 DEF Issued, TypeInv, DataOK, TokenPair, SessionInv
  <2>3. Ended(token[tx[r].tok].sid)'
    BY <2>1, <2>2 DEF Ended, TypeInv, DataOK
  <2>4. Refused(tx[r].acc)'
    BY <1>1, <1>3, <2>1 DEF RequestOK, Refused, LogoutDelete
  <2> QED BY <2>1, <2>3, <2>4 DEF RequestOK, At
<1> QED BY <1>2, <1>3

LEMMA WithdrawKeeps ==
  ASSUME TypeInv, SessionInv, [Next]_vars, SessionStep, NEW r \in Requests, RequestOK(r),
         \/ WithdrawWrite(r) \/ \E s \in Tokens : WithdrawVisits(r, s)
         \/ WithdrawDelete(r) \/ WithdrawBlacklist(r) \/ WithdrawCommit(r)
  PROVE  RequestOK(r)'
<1> DEFINE x == tx[r]
<1>1. /\ x.op = "withdraw" /\ x \in TxRecord /\ tx \in [Requests -> TxRecord]
      /\ x.old \subseteq Tokens /\ x.left \subseteq Tokens /\ x.keys \subseteq Tokens
  BY DEF WithdrawWrite, WithdrawVisits, WithdrawDelete, WithdrawBlacklist, WithdrawCommit,
         At, TypeInv, TxRecord
<1>2. \A s \in Tokens : Ended(s) => Ended(s)'
  BY EndedForGood
<1>3. CASE WithdrawWrite(r)
  <2>1. CASE Ends(r, "refused") \/ Goes(r, "waiting")
    <3>1. \/ tx'[r].pc = "done" /\ tx'[r].result # "ok"
          \/ tx'[r].pc = "waiting"
      BY <2>1, EndsRecord, GoesRecord
    <3> QED BY <3>1, NothingToKeep DEF HasNothing
  <2>2. CASE tx' = [tx EXCEPT ![r].pc = "scanning", ![r].old = SessionsOf(x.user),
                              ![r].left = SessionsOf(x.user)]
    <3>1. /\ tx'[r].op = "withdraw" /\ tx'[r].pc = "scanning"
          /\ tx'[r].old = SessionsOf(x.user) /\ tx'[r].left = SessionsOf(x.user)
      BY <1>1, <2>2
    <3>2. \A s \in SessionsOf(x.user) : token[s] # NULL
      <4> SUFFICES ASSUME NEW s \in Tokens, session[s] # NULL PROVE token[s] # NULL
        BY DEF SessionsOf
      <4>1. session[s].jti \in Tokens /\ session[s].user \in Users
        BY DEF TypeInv, DataOK, Session
      <4>2. [user |-> session[s].user, sid |-> s] \in TokenPair
        BY <4>1 DEF TokenPair
      <4>3. token[session[s].jti] # NULL /\ token[session[s].jti].sid = s
        BY <4>2 DEF SessionInv, SessionMatchesItsToken
      <4> QED BY <4>1, <4>3 DEF SessionInv
    <3>3. token' = token
      BY <1>3 DEF WithdrawWrite
    <3> QED BY <3>1, <3>2, <3>3 DEF RequestOK, At
  <2> QED BY <1>3, <2>1, <2>2 DEF WithdrawWrite
<1>4. ASSUME NEW s \in Tokens, WithdrawVisits(r, s)
      PROVE  RequestOK(r)'
  <2>1. /\ tx'[r].op = "withdraw" /\ tx'[r].pc = "scanning" /\ x.pc = "scanning"
        /\ tx'[r].old = x.old /\ tx'[r].left = x.left \ {s}
        /\ tx'[r].keys = IF session[s] = NULL THEN x.keys ELSE x.keys \cup {s}
        /\ UNCHANGED <<token, session>>
    BY <1>1, <1>4 DEF WithdrawVisits, At, TxRecord
  <2>2. \A q \in x.old : token[q] # NULL /\ (q \in x.left \cup x.keys \/ Ended(q))
    BY <1>1, <2>1 DEF RequestOK, At
  <2>3. \A q \in x.old : token'[q] # NULL /\ (q \in tx'[r].left \cup tx'[r].keys \/ Ended(q)')
    BY <2>1, <2>2 DEF Ended
  <2> QED BY <2>1, <2>3 DEF RequestOK, At
<1>5. CASE WithdrawDelete(r)
  <2>1. /\ tx'[r].op = "withdraw" /\ tx'[r].pc = "blacklisting" /\ x.pc = "scanning"
        /\ tx'[r].old = x.old /\ x.left = {} /\ token' = token
        /\ session' = [s \in Tokens |-> IF s \in x.keys THEN NULL ELSE session[s]]
    BY <1>1, <1>5, GoesRecord DEF WithdrawDelete, At
  <2>2. \A q \in x.old : q \in Tokens /\ token[q] # NULL /\ (q \in x.keys \/ Ended(q))
    BY <1>1, <2>1 DEF RequestOK, At
  <2>3. \A q \in x.old : Ended(q)'
    BY <2>1, <2>2 DEF Ended
  <2> QED BY <2>1, <2>3 DEF RequestOK, At
<1>6. CASE WithdrawBlacklist(r) \/ WithdrawCommit(r)
  <2>1. /\ tx'[r].op = "withdraw" /\ tx'[r].pc \in {"committing", "done"}
        /\ x.pc \in {"blacklisting", "committing"} /\ tx'[r].old = x.old
    BY <1>1, <1>6, EndsRecord, GoesRecord DEF WithdrawBlacklist, WithdrawCommit, At
  <2>2. \A q \in x.old : Ended(q)'
    BY <1>1, <1>2, <2>1 DEF RequestOK
  <2> QED BY <2>1, <2>2 DEF RequestOK, At
<1> QED BY <1>3, <1>4, <1>5, <1>6

\* The steps after which a request has something to keep.
WithdrawSteps(r) ==
  \/ WithdrawWrite(r) \/ \E s \in Tokens : WithdrawVisits(r, s)
  \/ WithdrawDelete(r) \/ WithdrawBlacklist(r) \/ WithdrawCommit(r)

StepsToKeep(r) ==
  ReissueRotate(r) \/ LogoutBlacklist(r) \/ LogoutDelete(r) \/ WithdrawSteps(r)

LEMMA StepOfArrival ==
  ASSUME TypeInv, NEW r \in Requests, Arrive(r)
  PROVE  HasNothing(r)' /\ \A q \in Requests : q # r => tx'[q] = tx[q]
<1> USE DEF TypeInv
<1>1. ASSUME NEW id, LoginCheck(r, id)
      PROVE  tx'[r].op = "login" /\ \A q \in Requests : q # r => tx'[q] = tx[q]
  BY <1>1 DEF LoginCheck, Idle
<1>2. LoginRefused(r) =>
        tx'[r].op = "login" /\ \A q \in Requests : q # r => tx'[q] = tx[q]
  BY DEF LoginRefused, Idle
<1>3. ASSUME NEW t \in Tokens, ReissueCheck(r, t)
      PROVE  /\ tx'[r].pc \in {"rotating", "dropping"}
             /\ \A q \in Requests : q # r => tx'[q] = tx[q]
  BY <1>3 DEF ReissueCheck, Idle
<1>4. ASSUME NEW op, NEW a \in Tokens, GetCurrentAccessPayload(r, op, a)
      PROVE  tx'[r].pc = "entering" /\ \A q \in Requests : q # r => tx'[q] = tx[q]
  BY <1>4 DEF GetCurrentAccessPayload, Idle
<1> QED BY <1>1, <1>2, <1>3, <1>4 DEF Arrive, HasNothing

LEMMA StepOfCoroutine ==
  ASSUME TypeInv, NEW r \in Requests, Continue(r)
  PROVE  /\ HasNothing(r)' \/ StepsToKeep(r)
         /\ \A q \in Requests : q # r => tx'[q] = tx[q]
<1>1. ASSUME LoginSave(r) \/ ReissueDrop(r) \/ ReissueRefused(r)
      PROVE  HasNothing(r)' /\ \A q \in Requests : q # r => tx'[q] = tx[q]
  BY <1>1, EndsRecord DEF LoginSave, ReissueDrop, ReissueRefused, At, HasNothing
<1>2. ASSUME NEW t \in Tokens, LogoutCheck(r, t)
      PROVE  HasNothing(r)' /\ \A q \in Requests : q # r => tx'[q] = tx[q]
  <2>1. /\ tx'[r].pc = "looking" \/ (tx'[r].pc = "done" /\ tx'[r].result = "refused")
        /\ \A q \in Requests : q # r => tx'[q] = tx[q]
    <3>1. CASE Ends(r, "refused")
      BY <3>1, EndsRecord
    <3>2. CASE tx' = [tx EXCEPT ![r] = [tx[r] EXCEPT !.pc = "looking", !.tok = t]]
      BY <3>2 DEF TypeInv, TxRecord
    <3> QED BY <1>2, <3>1, <3>2 DEF LogoutCheck, Ends
  <2> QED BY <2>1 DEF HasNothing
<1>3. ASSUME LogoutLooks(r)
      PROVE  HasNothing(r)' /\ \A q \in Requests : q # r => tx'[q] = tx[q]
  BY <1>3, EndsRecord, GoesRecord DEF LogoutLooks, At, HasNothing
<1>4. ASSUME ReissueRotate(r) \/ LogoutBlacklist(r) \/ LogoutDelete(r)
      PROVE  StepsToKeep(r) /\ \A q \in Requests : q # r => tx'[q] = tx[q]
  BY <1>4, EndsRecord, GoesRecord
     DEF ReissueRotate, LogoutBlacklist, LogoutDelete, StepsToKeep
<1>5. ASSUME WithdrawSteps(r)
      PROVE  StepsToKeep(r) /\ \A q \in Requests : q # r => tx'[q] = tx[q]
  <2>1. WithdrawWrite(r) => \A q \in Requests : q # r => tx'[q] = tx[q]
    BY EndsRecord, GoesRecord DEF WithdrawWrite, TypeInv
  <2>2. ASSUME NEW s \in Tokens, WithdrawVisits(r, s)
        PROVE  \A q \in Requests : q # r => tx'[q] = tx[q]
    BY <2>2 DEF WithdrawVisits, TypeInv
  <2>3. WithdrawDelete(r) \/ WithdrawBlacklist(r) \/ WithdrawCommit(r)
          => \A q \in Requests : q # r => tx'[q] = tx[q]
    BY EndsRecord, GoesRecord DEF WithdrawDelete, WithdrawBlacklist, WithdrawCommit
  <2> QED BY <1>5, <2>1, <2>2, <2>3 DEF WithdrawSteps, StepsToKeep
<1> QED BY <1>1, <1>2, <1>3, <1>4, <1>5 DEF Continue, WithdrawSteps

LEMMA StepOf ==
  ASSUME TypeInv, [Next]_vars, NEW q \in Requests
  PROVE  tx'[q] = tx[q] \/ HasNothing(q)' \/ StepsToKeep(q)
<1>1. ASSUME NEW r \in Requests, Arrive(r)
      PROVE  tx'[q] = tx[q] \/ HasNothing(q)'
  BY <1>1, StepOfArrival
<1>2. ASSUME NEW r \in Requests, Continue(r)
      PROVE  tx'[q] = tx[q] \/ HasNothing(q)' \/ StepsToKeep(q)
  BY <1>2, StepOfCoroutine
<1>3. ASSUME NEW r \in Requests, Fails(r)
      PROVE  tx'[q] = tx[q] \/ HasNothing(q)'
  BY <1>3, EndsRecord DEF Fails, HasNothing
<1>4. Restart => tx'[q] = tx[q] \/ HasNothing(q)'
  <2> SUFFICES ASSUME Restart, tx'[q] # tx[q] PROVE HasNothing(q)'
    OBVIOUS
  <2>1. tx'[q] = [tx[q] EXCEPT !.pc = "done", !.result = "failed"]
    BY DEF Restart
  <2>2. tx'[q].pc = "done" /\ tx'[q].result = "failed"
    BY <2>1 DEF TypeInv, TxRecord
  <2> QED BY <2>2 DEF HasNothing
<1>5. ASSUME NEW t \in Tokens, AccessTokenAges(t) \/ SessionExpires(t)
      PROVE  tx'[q] = tx[q]
  BY <1>5 DEF AccessTokenAges, SessionExpires
<1> QED BY <1>1, <1>2, <1>3, <1>4, <1>5 DEF Next, vars

LEMMA OnlyRotating ==
  ASSUME TypeInv, NEW r \in Requests, StepsToKeep(r), tx'[r].op = "reissue"
  PROVE  ReissueRotate(r)
<1>1. LogoutBlacklist(r) \/ LogoutDelete(r) => tx'[r].op = "logout"
  BY EndsRecord, GoesRecord DEF LogoutBlacklist, LogoutDelete, At
<1>2. WithdrawDelete(r) \/ WithdrawBlacklist(r) \/ WithdrawCommit(r) => tx'[r].op = "withdraw"
  BY EndsRecord, GoesRecord DEF WithdrawDelete, WithdrawBlacklist, WithdrawCommit, At
<1>3. WithdrawWrite(r) => tx'[r].op = "withdraw"
  <2> SUFFICES ASSUME WithdrawWrite(r) PROVE tx'[r].op = "withdraw"
    OBVIOUS
  <2>1. tx[r].op = "withdraw"
    BY DEF WithdrawWrite, At
  <2>2. CASE Ends(r, "refused") \/ Goes(r, "waiting")
    BY <2>1, <2>2, EndsRecord, GoesRecord
  <2>3. CASE tx' = [tx EXCEPT ![r].pc = "scanning", ![r].old = SessionsOf(tx[r].user),
                              ![r].left = SessionsOf(tx[r].user)]
    BY <2>1, <2>3 DEF TypeInv, TxRecord
  <2> QED BY <2>2, <2>3 DEF WithdrawWrite
<1>4. ASSUME NEW s \in Tokens, WithdrawVisits(r, s)
      PROVE  tx'[r].op = "withdraw"
  BY <1>4 DEF WithdrawVisits, At, TypeInv, TxRecord
<1> QED BY <1>1, <1>2, <1>3, <1>4 DEF StepsToKeep, WithdrawSteps

LEMMA RotatesWhatIsHeld ==
  ASSUME TypeInv, NEW r \in Requests, ReissueRotate(r)
  PROVE  ~UsedUp(tx[r].tok)
<1>1. Issued(tx[r].tok)
  BY DEF ReissueRotate, At, TypeInv, TxOK
<1>2. token[tx[r].tok].sid \in Tokens
  BY <1>1 DEF Issued, TypeInv, DataOK, TokenPair
<1> QED BY <1>2 DEF ReissueRotate, MayRotate, UsedUp

LEMMA RequestInvStep ==
  ASSUME TypeInv, SessionInv, RequestInv, [Next]_vars
  PROVE  RequestInv'
<1>1. SessionStep
  BY NextOnSessions
<1>2. ASSUME NEW q \in Requests
      PROVE  RequestOK(q)'
  <2>1. RequestOK(q)
    BY DEF RequestInv
  <2> QED BY <1>1, <2>1, StepOf, Bystander, NothingToKeep, ReissueKeeps, LogoutKeeps,
             WithdrawKeeps DEF StepsToKeep, WithdrawSteps
<1>3. ExchangedOnce'
  <2> SUFFICES ASSUME NEW r \in Requests, NEW s \in Requests, r # s,
                      At(r, "reissue", "done")', At(s, "reissue", "done")',
                      tx'[r].result = "ok", tx'[s].result = "ok", tx'[r].tok = tx'[s].tok
               PROVE  FALSE
    BY DEF ExchangedOnce
  <2>1. ASSUME NEW q \in Requests, tx'[q].op = "reissue", tx'[q].pc = "done", tx'[q].result = "ok"
        PROVE  tx'[q] = tx[q] \/ ReissueRotate(q)
    <3>1. ~HasNothing(q)'
      BY <2>1 DEF HasNothing
    <3> QED BY <2>1, <3>1, StepOf, OnlyRotating
  <2>2. ASSUME NEW p \in Requests, NEW q \in Requests, p # q, ReissueRotate(p),
               tx'[q].op = "reissue", tx'[q].pc = "done", tx'[q].result = "ok",
               tx'[p].tok = tx'[q].tok
        PROVE  FALSE
    <3>1. tx'[q] = tx[q] /\ tx'[p].tok = tx[p].tok
      BY <2>2, EndsRecord DEF ReissueRotate
    <3>2. UsedUp(tx[q].tok)
      BY <2>2, <3>1 DEF RequestInv, RequestOK, At
    <3> QED BY <2>2, <3>1, <3>2, RotatesWhatIsHeld
  <2>3. CASE tx'[r] = tx[r] /\ tx'[s] = tx[s]
    BY <2>3 DEF RequestInv, ExchangedOnce, At
  <2> QED BY <2>1, <2>2, <2>3 DEF At
<1> QED BY <1>2, <1>3 DEF RequestInv

LEMMA InitRequestInv == Init => RequestInv
<1> SUFFICES ASSUME Init PROVE RequestInv
  OBVIOUS
<1>1. \A r \in Requests : tx[r].pc = "idle"
  BY DEF Init, Idle
<1> QED BY <1>1 DEF RequestInv, ExchangedOnce, RequestOK, At

LEMMA RequestInvAlways == Spec => [](TypeInv /\ SessionInv /\ RequestInv)
<1>1. TypeInv /\ SessionInv /\ RequestInv /\ [Next]_vars => TypeInv' /\ SessionInv' /\ RequestInv'
  BY TypeInvStep, NextOnSessions, SessionInvStep, RequestInvStep
<1> QED BY <1>1, InitTypeInv, InitSessionInv, InitRequestInv, PTL DEF Spec

\* At most one of all the reissues of a refresh token succeeds, whatever logins,
\* logouts, withdrawals and failures interleave with them.
THEOREM TokensAreExchangedOnce == Spec => []ExchangedOnce
<1>1. RequestInv => ExchangedOnce
  BY DEF RequestInv
<1> QED BY <1>1, RequestInvAlways, PTL

\* After a logout that succeeded the session is gone for good, and so is the access
\* token but for its last second.
THEOREM LoggedOutForGood == Spec => []LoggedOutStaysOut
<1>1. RequestInv => LoggedOutStaysOut
  BY DEF RequestInv, RequestOK, LoggedOutStaysOut, Refused, Ended
<1> QED BY <1>1, RequestInvAlways, PTL

\* A withdrawal that succeeded has ended every session that was there when it
\* began, whatever happened to it during the scan.
THEOREM WithdrawalEndsSessions == Spec => []OldSessionsEnd
<1>1. RequestInv => OldSessionsEnd
  BY DEF RequestInv, RequestOK, OldSessionsEnd, Ended
<1> QED BY <1>1, RequestInvAlways, PTL

-----------------------------------------------------------------------------
(* One account per identity                                                *)

LEMMA ArriveKeepsIdentities ==
  ASSUME TypeInv, IdentityHasOneAccount, NEW r \in Requests, Arrive(r)
  PROVE  IdentityHasOneAccount'
<1>1. ASSUME NEW id \in LoginIdentities, LoginCheck(r, id)
      PROVE  IdentityHasOneAccount'
  <2>1. PICK u \in Users :
          /\ id # NULL
          /\ IF UsersWith(id) = {} THEN account[u].state = "absent" ELSE u \in UsersWith(id)
          /\ account' = IF UsersWith(id) = {}
                          THEN [account EXCEPT ![u] = [state |-> "active", identity |-> id]]
                          ELSE account
    BY <1>1 DEF LoginCheck
  <2>2. CASE UsersWith(id) = {}
    <3>1. \A v \in Users : account[v].identity # id
      BY <2>1, <2>2 DEF UsersWith, TypeInv, DataOK
    <3>2. /\ account'[u].identity = id
          /\ \A v \in Users : v # u => account'[v] = account[v]
      BY <2>1, <2>2 DEF TypeInv, DataOK
    <3> QED BY <3>1, <3>2 DEF IdentityHasOneAccount
  <2>3. CASE account' = account
    BY <2>3 DEF IdentityHasOneAccount
  <2> QED BY <2>1, <2>2, <2>3
<1>2. CASE account' = account
  BY <1>2 DEF IdentityHasOneAccount
<1> QED BY <1>1, <1>2 DEF Arrive, LoginRefused, ReissueCheck, GetCurrentAccessPayload

LEMMA CommitKeepsIdentities ==
  ASSUME TypeInv, IdentityHasOneAccount, NEW r \in Requests, WithdrawCommit(r)
  PROVE  IdentityHasOneAccount'
<1>1. tx[r].user \in Users
  BY DEF WithdrawCommit, At, TypeInv, TxOK
<1>2. /\ account'[tx[r].user].identity = NULL
      /\ \A v \in Users : v # tx[r].user => account'[v] = account[v]
  BY <1>1 DEF WithdrawCommit, Withdrawn, TypeInv, DataOK
<1> QED BY <1>2 DEF IdentityHasOneAccount

\* One account per identity: a login never opens a second one, be the first one
\* blocked, and after a withdrawal the identity may open a new one.
THEOREM OneAccountPerIdentity == Spec => []IdentityHasOneAccount
<1>1. TypeInv /\ IdentityHasOneAccount /\ [Next]_vars => IdentityHasOneAccount'
  <2> SUFFICES ASSUME TypeInv, IdentityHasOneAccount, [Next]_vars PROVE IdentityHasOneAccount'
    OBVIOUS
  <2>1. ASSUME NEW r \in Requests, Arrive(r) PROVE IdentityHasOneAccount'
    BY <2>1, ArriveKeepsIdentities
  <2>2. ASSUME NEW r \in Requests, Continue(r) PROVE IdentityHasOneAccount'
    <3>1. Continue(r) => WithdrawCommit(r) \/ account' = account
      BY DEF Continue, LoginSave, ReissueDrop, ReissueRotate, ReissueRefused, LogoutCheck,
             LogoutLooks, LogoutBlacklist, LogoutDelete, WithdrawWrite, WithdrawVisits,
             WithdrawDelete, WithdrawBlacklist
    <3>2. CASE account' = account
      BY <3>2 DEF IdentityHasOneAccount
    <3> QED BY <2>2, <3>1, <3>2, CommitKeepsIdentities
  <2>3. CASE account' = account
    BY <2>3 DEF IdentityHasOneAccount
  <2> QED BY <2>1, <2>2, <2>3 DEF Next, Fails, Restart, AccessTokenAges, SessionExpires, vars
<1>2. Init => IdentityHasOneAccount
  BY DEF Init, IdentityHasOneAccount
<1>3. Spec => [](TypeInv /\ IdentityHasOneAccount)
  BY <1>1, <1>2, InitTypeInv, TypeInvStep, PTL DEF Spec
<1> QED BY <1>3, PTL

-----------------------------------------------------------------------------
(* Refinement                                                              *)

Holder == [s \in Tokens |-> IF session[s] = NULL THEN NULL ELSE session[s].jti]
Opened == {s \in Tokens : \E t \in Tokens : token[t] # NULL /\ token[t].sid = s}
Used == {t \in Tokens : token[t] # NULL}

LEMMA InitLifecycle == Init => Lifecycle!Init
<1> SUFFICES ASSUME Init PROVE Lifecycle!Init
  OBVIOUS
<1>1. TypeInv /\ SessionInv
  BY InitTypeInv, InitSessionInv
<1>2. ASSUME NEW s \in Tokens, session[s] # NULL
      PROVE  session[s].jti \in Used /\ s \in Opened
  <2>1. session[s].jti \in Tokens /\ session[s].user \in Users
    BY <1>1, <1>2 DEF TypeInv, DataOK, Session
  <2>2. [user |-> session[s].user, sid |-> s] \in TokenPair
    BY <2>1 DEF TokenPair
  <2>3. token[session[s].jti] # NULL /\ token[session[s].jti].sid = s
    BY <1>1, <1>2, <2>2 DEF SessionInv, SessionMatchesItsToken
  <2> QED BY <2>1, <2>3 DEF Used, Opened
<1>3. /\ Opened \in SUBSET Tokens /\ Used \in SUBSET Tokens
      /\ Holder \in [Tokens -> Used \cup {NULL}]
      /\ \A s \in Tokens : Holder[s] # NULL => s \in Opened
  BY <1>2 DEF Opened, Used, Holder
<1> QED BY <1>3 DEF Lifecycle!Init, Holder, Opened, Used

\* The same steps, of the abstract variables.
LEMMA OpensLifecycle ==
  ASSUME TypeInv, SessionInv, NEW r \in Requests, Opens(r)
  PROVE  Lifecycle!Open(r, r)
<1>1. /\ r \in Tokens /\ token[r] = NULL /\ token'[r] # NULL /\ token'[r].sid = r
      /\ session'[r] # NULL /\ session'[r].jti = r
      /\ \A t \in Tokens : t # r => token'[t] = token[t] /\ session'[t] = session[t]
  <2>1. token'[r] = [user |-> session'[r].user, sid |-> r]
    BY OpensEffect
  <2> QED BY <2>1, OpensEffect DEF Tokens
<1>2. r \notin Opened /\ r \notin Used
  BY <1>1 DEF Opened, Used, SessionInv
<1>3. Opened' = Opened \cup {r}
  BY <1>1 DEF Opened
<1>4. Used' = Used \cup {r}
  BY <1>1 DEF Used
<1>5. Holder' = [Holder EXCEPT ![r] = r]
  BY <1>1 DEF Holder
<1> QED BY <1>2, <1>3, <1>4, <1>5 DEF Lifecycle!Open, Holder, Opened, Used

LEMMA PassesLifecycle ==
  ASSUME TypeInv, SessionInv, NEW r \in Requests, NEW s \in Tokens, Passes(r, s)
  PROVE  Lifecycle!Pass(s, r)
<1>1. /\ r \in Tokens /\ token[r] = NULL /\ token'[r] # NULL /\ token'[r].sid = s
      /\ session[s] # NULL /\ session[s].jti \in Tokens /\ token[session[s].jti] # NULL
      /\ token[session[s].jti].sid = s
      /\ session'[s] # NULL /\ session'[s].jti = r
      /\ \A t \in Tokens : t # r => token'[t] = token[t]
      /\ \A t \in Tokens : t # s => session'[t] = session[t]
  <2>1. r \in Tokens /\ token[session[s].jti].sid = s
    BY DEF Tokens, Passes
  <2> QED BY <2>1, PassesEffect
<1>2. r \notin Used /\ Holder[s] # NULL
  BY <1>1 DEF Used, Holder, Tokens
<1>3. Opened' = Opened
  BY <1>1 DEF Opened
<1>4. Used' = Used \cup {r}
  BY <1>1 DEF Used
<1>5. Holder' = [Holder EXCEPT ![s] = r]
  BY <1>1 DEF Holder
<1> QED BY <1>2, <1>3, <1>4, <1>5 DEF Lifecycle!Pass, Holder, Opened, Used

LEMMA ClosesLifecycle ==
  ASSUME TypeInv, NEW ss \in SUBSET Tokens, Closes(ss)
  PROVE  Lifecycle!Close(ss)
<1>1. Holder' = [s \in Tokens |-> IF s \in ss THEN NULL ELSE Holder[s]]
  BY DEF Closes, Holder
<1>2. Opened' = Opened /\ Used' = Used
  BY DEF Closes, Opened, Used
<1> QED BY <1>1, <1>2 DEF Lifecycle!Close, Holder, Opened, Used

\* The sessions in Redis are what SessionLifecycle promises: opened once, held by one
\* token at a time and never by the same token again, and closed for good.
THEOREM SessionsImplementLifecycle == Spec => ImplementsLifecycle
<1>1. TypeInv /\ SessionInv /\ [Next]_vars => [Lifecycle!Next]_(Lifecycle!vars)
  <2> SUFFICES ASSUME TypeInv, SessionInv, [Next]_vars PROVE Lifecycle!Next
    OBVIOUS
  <2>1. SessionStep
    BY NextOnSessions
  <2>2. \A r \in Requests : r \in Tokens
    BY DEF Tokens
  <2> QED BY <2>1, <2>2, OpensLifecycle, PassesLifecycle, ClosesLifecycle
          DEF SessionStep, Lifecycle!Next
<1> QED BY <1>1, InitLifecycle, SessionInvAlways, PTL DEF Spec, ImplementsLifecycle, Lifecycle!Spec

=============================================================================
