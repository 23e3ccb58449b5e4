-------------------------- MODULE AccountSessions --------------------------
(***************************************************************************)
(* Login, token reissue, logout and account withdrawal (services/auth,     *)
(* core/security, services/user/withdrawal_service.py).                    *)
(*                                                                         *)
(* These endpoints are coroutines of one event loop: they interleave at    *)
(* their awaits (Redis, identity provider), and a database call blocks     *)
(* them all.  One action is what runs between two awaits.  Refresh         *)
(* sessions and the blacklist live in Redis, accounts in PostgreSQL.       *)
(*                                                                         *)
(* Every request creates at most one pair of tokens and at most one        *)
(* session, so that the request stands for both (uuid4 never repeats).     *)
(***************************************************************************)
EXTENDS Naturals, FiniteSets

CONSTANTS
  Users,        \* rows of users
  Identities,   \* (provider, provider_id) pairs
  OldSessions,  \* sessions, and their tokens, from before the behaviour
  Requests,     \* requests; each one runs a handler once
  NULL,
  Ops,          \* the endpoints clients call in this instance
  MaxFaults,    \* bound: Redis or database errors and process restarts
  MaxTicks      \* bound: access tokens that age, sessions that expire

ASSUME NullIsNothing == NULL \notin Users \cup Identities \cup OldSessions \cup Requests
ASSUME RequestsAreNew == OldSessions \cap Requests = {}
ASSUME BoundsAreNat == MaxFaults \in Nat /\ MaxTicks \in Nat

VARIABLES
  account,    \* users: status and (provider, provider_id)
  token,      \* token pairs that have been issued: user and session id
  session,    \* Redis refresh:session:<sid>: user_id and current_jti
  blacklist,  \* Redis blacklist:access:<jti>
  age,        \* how far an access token is from its exp
  tx,         \* per request: program counter and what the coroutine holds
  faults, ticks

vars == <<account, token, session, blacklist, age, tx, faults, ticks>>

-----------------------------------------------------------------------------
(* Tokens, sessions, coroutines                                            *)

AllOps == {"login", "reissue", "logout", "withdraw"}

Tokens == OldSessions \cup Requests

Account == [state : {"absent", "active", "blocked", "withdrawn"},
            identity : Identities \cup {NULL}]

TokenPair == [user : Users, sid : Tokens]

Session == [user : Users, jti : Tokens]

\* `tok` is the refresh token, `acc` the access token of the request; `old`,
\* `left` and `keys` are sessions: those a withdrawal started with, those its
\* scan has still to return, and session_keys.
TxRecord == [pc   : {"idle", "entering", "saving", "rotating", "dropping", "looking", "blacklisting",
                     "deleting", "scanning", "committing", "waiting", "done"},
             op   : AllOps \cup {"none"},
             result : {"none", "ok", "refused", "failed"},
             user : Users \cup {NULL},
             tok  : Tokens \cup {NULL},
             acc  : Tokens \cup {NULL},
             old  : SUBSET Tokens,
             left : SUBSET Tokens,
             keys : SUBSET Tokens]

Idle == [pc |-> "idle", op |-> "none", result |-> "none", user |-> NULL, tok |-> NULL,
         acc |-> NULL, old |-> {}, left |-> {}, keys |-> {}]

ASSUME NullIsNoRow == NULL \notin TokenPair \cup Session

At(r, op, pc) == tx[r].op = op /\ tx[r].pc = pc

Ends(r, result) ==
  tx' = [tx EXCEPT ![r] = [@ EXCEPT !.pc = "done", !.result = result]]

Goes(r, pc) == tx' = [tx EXCEPT ![r].pc = pc]

SessionsOf(u) == {s \in Tokens : session[s] # NULL /\ session[s].user = u}

\* withdraw_user holds the rows of its user from its flush to its end.
RowsHeldBy(u) ==
  {w \in Requests : /\ tx[w].op = "withdraw" /\ tx[w].user = u
                    /\ tx[w].pc \in {"scanning", "deleting", "blacklisting", "committing"}}

\* A coroutine that waits for a row lock in a synchronous call stops them all.
LoopRuns == \A r \in Requests : tx[r].pc # "waiting"

-----------------------------------------------------------------------------
(* Tokens (jwt.py, dependencies.py)                                        *)

\* decode_access_token and is_access_token_blacklisted.
Authenticated(t) == token[t] # NULL /\ age[t] # "expired" /\ t \notin blacklist

\* get_current_access_payload; the handler runs after another await (get_db).
GetCurrentAccessPayload(r, op, a) ==
  /\ op \in Ops /\ LoopRuns
  /\ tx[r].pc = "idle"
  /\ Authenticated(a)
  /\ tx' = [tx EXCEPT ![r] = [Idle EXCEPT !.op = op, !.pc = "entering",
                                          !.user = token[a].user, !.acc = a]]
  /\ UNCHANGED <<account, token, session, blacklist, age, faults, ticks>>

\* exp gets closer.  In the last second _seconds_until has rounded down to 0,
\* and a key that was set with the seconds that were left is gone.
AccessTokenAges(t) ==
  /\ ticks < MaxTicks
  /\ LoopRuns
  /\ token[t] # NULL /\ age[t] # "expired"
  /\ age' = [age EXCEPT ![t] = IF @ = "valid" THEN "last second" ELSE "expired"]
  /\ blacklist' = blacklist \ {t}
  /\ ticks' = ticks + 1
  /\ UNCHANGED <<account, token, session, tx, faults>>

\* EX refresh_token_ttl_seconds, renewed by every rotation: the tokens of the
\* session have expired by then as well.
SessionExpires(s) ==
  /\ ticks < MaxTicks
  /\ session[s] # NULL
  /\ session' = [session EXCEPT ![s] = NULL]
  /\ ticks' = ticks + 1
  /\ UNCHANGED <<account, token, blacklist, age, tx, faults>>

-----------------------------------------------------------------------------
(* social_login                                                            *)

\* What an identity provider may answer.
ProviderAnswer == [reachable : BOOLEAN, valid : BOOLEAN, sub : Identities \cup {NULL}]

\* The identity that the answer vouches for, or NULL.
Vouched(a) == IF a.reachable /\ a.valid THEN a.sub ELSE NULL

\* KakaoOAuthClient: one call to the user-info endpoint.
KakaoIdentity(a) == Vouched(a)

\* GoogleOAuthClient: signature, audience and issuer of one ID token.
GoogleIdentity(a) == Vouched(a)

\* AppleOAuthClient: the ID token of the app and the one that the code is
\* exchanged for must name the same user.
AppleIdentity(a, b) == IF Vouched(a) = Vouched(b) THEN Vouched(b) ELSE NULL

\* get_oauth_client and authenticate_token.
OAuthIdentity(provider, a, b) ==
  CASE provider = "KAKAO" -> KakaoIdentity(a)
    [] provider = "GOOGLE" -> GoogleIdentity(a)
    [] provider = "APPLE" -> AppleIdentity(a, b)

\* The identities that some provider may vouch for in answer to a login.
LoginIdentities ==
  {OAuthIdentity(p, a, b) : p \in {"KAKAO", "GOOGLE", "APPLE"},
                            a \in ProviderAnswer, b \in ProviderAnswer}

\* Mutant of UsersWith: only accounts that may log in are looked for.
ActiveUsersWith(id) ==
  {u \in Users : account[u].state = "active" /\ account[u].identity = id}

\* find_user_by_provider; at most one, by uq_users_provider_provider_id.
UsersWith(id) == {u \in Users : account[u].state # "absent" /\ account[u].identity = id}

\* Everything up to save_refresh_session, without an await: a new user is
\* inserted and committed, and the INSERT therefore never meets another one.
LoginCheck(r, id) ==
  /\ "login" \in Ops /\ LoopRuns
  /\ tx[r].pc = "idle"
  /\ \E u \in Users :
       /\ id # NULL
       /\ IF UsersWith(id) = {} THEN account[u].state = "absent" ELSE u \in UsersWith(id)
       /\ account' = IF UsersWith(id) = {}
                       THEN [account EXCEPT ![u] = [state |-> "active", identity |-> id]]
                       ELSE account
       /\ tx' = [tx EXCEPT ![r] =
                   [Idle EXCEPT !.op = "login", !.user = u,
                      !.pc = IF account'[u].state = "active" THEN "saving" ELSE "done",
                      !.result = IF account'[u].state = "active" THEN "none" ELSE "refused"]]
  /\ UNCHANGED <<token, session, blacklist, age, faults, ticks>>

LoginRefused(r) ==
  /\ "login" \in Ops /\ LoopRuns
  /\ tx[r].pc = "idle"
  /\ NULL \in LoginIdentities
  /\ tx' = [tx EXCEPT ![r] = [Idle EXCEPT !.op = "login", !.pc = "done", !.result = "refused"]]
  /\ UNCHANGED <<account, token, session, blacklist, age, faults, ticks>>

\* create_tokens: a new session id and a pair of tokens.
CreateTokens(r, u) == token' = [token EXCEPT ![r] = [user |-> u, sid |-> r]]

\* SET of a new session.  A token counts as issued from here on, whether or
\* not the answer reaches the client.
LoginSave(r) ==
  /\ LoopRuns /\ At(r, "login", "saving")
  /\ session' = [session EXCEPT ![r] = [user |-> tx[r].user, jti |-> r]]
  /\ CreateTokens(r, tx[r].user)
  /\ Ends(r, "ok")
  /\ UNCHANGED <<account, blacklist, age, faults, ticks>>

-----------------------------------------------------------------------------
(* reissue_tokens                                                          *)

\* The account is read before the session is touched.
ReissueCheck(r, t) ==
  /\ "reissue" \in Ops /\ LoopRuns
  /\ tx[r].pc = "idle" /\ token[t] # NULL
  /\ tx' = [tx EXCEPT ![r] =
              [Idle EXCEPT !.op = "reissue", !.tok = t, !.user = token[t].user,
                 !.pc = IF account[token[t].user].state = "active" THEN "rotating"
                                                                   ELSE "dropping"]]
  /\ UNCHANGED <<account, token, session, blacklist, age, faults, ticks>>

\* The account is not ACTIVE: the session is deleted, Forbidden.
ReissueDrop(r) ==
  /\ LoopRuns /\ At(r, "reissue", "dropping")
  /\ session' = [session EXCEPT ![token[tx[r].tok].sid] = NULL]
  /\ Ends(r, "refused")
  /\ UNCHANGED <<account, token, blacklist, age, faults, ticks>>

\* Mutant of RotateTokens: a new session id, as create_tokens makes one.
RotateTokensAnew(r, t) == token' = [token EXCEPT ![r] = [user |-> token[t].user, sid |-> r]]

\* rotate_tokens: new tokens for the same session.
RotateTokens(r, t) == token' = [token EXCEPT ![r] = token[t]]

\* Mutant of MayRotate: current_jti is not compared.
MayRotateAny(u, s, jti) == session[s] # NULL /\ session[s].user = u

\* Mutant of MayRotate: a missing session is written like any other.
MayRotateMissing(u, s, jti) ==
  session[s] # NULL => session[s].user = u /\ session[s].jti = jti

\* The checks of update_refresh_session_jti.lua: "missing", "invalid_user",
\* "reused".
MayRotate(u, s, jti) ==
  /\ session[s] # NULL
  /\ session[s].user = u
  /\ session[s].jti = jti

\* The script is atomic in Redis.
ReissueRotate(r) ==
  /\ LoopRuns /\ At(r, "reissue", "rotating")
  /\ LET t == tx[r].tok
         s == token[t].sid
     IN  /\ MayRotate(tx[r].user, s, t)
         /\ session' = [session EXCEPT ![s] = [user |-> tx[r].user, jti |-> r]]
         /\ RotateTokens(r, t)
  /\ Ends(r, "ok")
  /\ UNCHANGED <<account, blacklist, age, faults, ticks>>

ReissueRefused(r) ==
  /\ LoopRuns /\ At(r, "reissue", "rotating")
  /\ ~MayRotate(tx[r].user, token[tx[r].tok].sid, tx[r].tok)
  /\ Ends(r, "refused")
  /\ UNCHANGED <<account, token, session, blacklist, age, faults, ticks>>

-----------------------------------------------------------------------------
(* logout_token                                                            *)

\* Both tokens must name the same user.
LogoutCheck(r, t) ==
  /\ LoopRuns /\ At(r, "logout", "entering")
  /\ token[t] # NULL
  /\ tx' = IF token[t].user = tx[r].user
             THEN [tx EXCEPT ![r].pc = "looking", ![r].tok = t]
             ELSE [tx EXCEPT ![r].pc = "done", ![r].result = "refused"]
  /\ UNCHANGED <<account, token, session, blacklist, age, faults, ticks>>

\* get_refresh_session: no session, or one of somebody else.
LogoutLooks(r) ==
  /\ LoopRuns /\ At(r, "logout", "looking")
  /\ IF token[tx[r].tok].sid \in SessionsOf(tx[r].user)
       THEN Goes(r, "blacklisting") ELSE Ends(r, "refused")
  /\ UNCHANGED <<account, token, session, blacklist, age, faults, ticks>>

\* blacklist_access_token, also at the end of a withdrawal.  Nothing is set
\* when less than a second is left.
Blacklists(t) ==
  blacklist' = IF age[t] = "valid" THEN blacklist \cup {t} ELSE blacklist

LogoutBlacklist(r) ==
  /\ LoopRuns /\ At(r, "logout", "blacklisting")
  /\ Blacklists(tx[r].acc)
  /\ Goes(r, "deleting")
  /\ UNCHANGED <<account, token, session, age, faults, ticks>>

LogoutDelete(r) ==
  /\ LoopRuns /\ At(r, "logout", "deleting")
  /\ session' = [session EXCEPT ![token[tx[r].tok].sid] = NULL]
  /\ Ends(r, "ok")
  /\ UNCHANGED <<account, token, blacklist, age, faults, ticks>>

-----------------------------------------------------------------------------
(* withdraw_user                                                           *)

\* The checks, the writes and the flush run without an await (unlinking the
\* provider is a stub).  If another withdrawal has written the same rows, the
\* first UPDATE waits for it, on the event loop.
WithdrawWrite(r) ==
  /\ LoopRuns /\ At(r, "withdraw", "entering")
  /\ LET u == tx[r].user
     IN  CASE account[u].state = "withdrawn" -> Ends(r, "refused")
           [] account[u].state # "withdrawn" /\ RowsHeldBy(u) # {} -> Goes(r, "waiting")
           [] OTHER -> tx' = [tx EXCEPT ![r].pc = "scanning",
                                        ![r].old = SessionsOf(u), ![r].left = SessionsOf(u)]
  /\ UNCHANGED <<account, token, session, blacklist, age, faults, ticks>>

\* Mutant of WithdrawVisits: each key replaces the ones before.
WithdrawKeepsLast(r, s) ==
  /\ LoopRuns /\ At(r, "withdraw", "scanning")
  /\ s \in tx[r].left
  /\ tx' = [tx EXCEPT ![r].left = @ \ {s}, ![r].keys = {s}]
  /\ UNCHANGED <<account, token, session, blacklist, age, faults, ticks>>

\* One key of scan_iter and its GET.  SCAN returns what is there from its
\* start to its end, and may or may not return what a login adds meanwhile.
\* The keys of other users are skipped.
WithdrawVisits(r, s) ==
  /\ LoopRuns /\ At(r, "withdraw", "scanning")
  /\ s \in tx[r].left \cup (SessionsOf(tx[r].user) \ tx[r].keys)
  /\ tx' = [tx EXCEPT ![r].left = @ \ {s},
                      ![r].keys = IF session[s] = NULL THEN @ ELSE @ \cup {s}]
  /\ UNCHANGED <<account, token, session, blacklist, age, faults, ticks>>

WithdrawDelete(r) ==
  /\ LoopRuns /\ At(r, "withdraw", "scanning")
  /\ tx[r].left = {}
  /\ session' = [s \in Tokens |-> IF s \in tx[r].keys THEN NULL ELSE session[s]]
  /\ Goes(r, "blacklisting")
  /\ UNCHANGED <<account, token, blacklist, age, faults, ticks>>

WithdrawBlacklist(r) ==
  /\ LoopRuns /\ At(r, "withdraw", "blacklisting")
  /\ Blacklists(tx[r].acc)
  /\ Goes(r, "committing")
  /\ UNCHANGED <<account, token, session, age, faults, ticks>>

\* Mutant of Withdrawn: the provider id is kept.
WithdrawnWithIdentity(u) == [state |-> "withdrawn", identity |-> account[u].identity]

\* mark_user_as_withdrawn: the provider id is masked, so that the identity is
\* free again.
Withdrawn(u) == [state |-> "withdrawn", identity |-> NULL]

WithdrawCommit(r) ==
  /\ LoopRuns /\ At(r, "withdraw", "committing")
  /\ account' = [account EXCEPT ![tx[r].user] = Withdrawn(tx[r].user)]
  /\ Ends(r, "ok")
  /\ UNCHANGED <<token, session, blacklist, age, faults, ticks>>

-----------------------------------------------------------------------------
(* Failures                                                                *)

\* Redis or the database fails; withdraw_user rolls back, the others have
\* written nothing but Redis.
Fails(r) ==
  /\ faults < MaxFaults
  /\ LoopRuns /\ tx[r].pc \notin {"idle", "done"}
  /\ Ends(r, "failed")
  /\ faults' = faults + 1
  /\ UNCHANGED <<account, token, session, blacklist, age, ticks>>

\* The process goes down and comes up again: open transactions roll back,
\* Redis stays.
Restart ==
  /\ faults < MaxFaults
  /\ \E r \in Requests : tx[r].pc \notin {"idle", "done"}
  /\ tx' = [r \in Requests |->
              IF tx[r].pc \in {"idle", "done"} THEN tx[r]
              ELSE [tx[r] EXCEPT !.pc = "done", !.result = "failed"]]
  /\ faults' = faults + 1
  /\ UNCHANGED <<account, token, session, blacklist, age, ticks>>

-----------------------------------------------------------------------------
(* Specification                                                           *)

\* Old sessions belong to users that exist, some of them blocked by an
\* operator; each has its first tokens.
Init ==
  /\ account \in [Users -> Account]
  /\ \A u \in Users : account[u].state # "withdrawn"
                      /\ (account[u].identity = NULL <=> account[u].state = "absent")
  /\ \A u, v \in Users : account[u].identity = account[v].identity /\ u # v
                           => account[u].identity = NULL
  /\ \E owner \in [OldSessions -> {u \in Users : account[u].state # "absent"}] :
       /\ token = [t \in Tokens |-> IF t \in OldSessions THEN [user |-> owner[t], sid |-> t]
                                    ELSE NULL]
       /\ session = [s \in Tokens |-> IF s \in OldSessions THEN [user |-> owner[s], jti |-> s]
                                      ELSE NULL]
  /\ blacklist = {}
  /\ age = [t \in Tokens |-> "valid"]
  /\ tx = [r \in Requests |-> Idle]
  /\ faults = 0 /\ ticks = 0

Arrive(r) ==
  \/ \E id \in LoginIdentities : LoginCheck(r, id)
  \/ LoginRefused(r)
  \/ \E t \in Tokens : ReissueCheck(r, t)
  \/ \E op \in {"logout", "withdraw"}, a \in Tokens : GetCurrentAccessPayload(r, op, a)

Continue(r) ==
  \/ LoginSave(r)
  \/ ReissueDrop(r) \/ ReissueRotate(r) \/ ReissueRefused(r)
  \/ \E t \in Tokens : LogoutCheck(r, t)
  \/ LogoutLooks(r) \/ LogoutBlacklist(r) \/ LogoutDelete(r)
  \/ WithdrawWrite(r)
  \/ \E s \in Tokens : WithdrawVisits(r, s)
  \/ WithdrawDelete(r) \/ WithdrawBlacklist(r) \/ WithdrawCommit(r)

Next ==
  \/ \E r \in Requests : Arrive(r) \/ Continue(r) \/ Fails(r)
  \/ \E t \in Tokens : AccessTokenAges(t) \/ SessionExpires(t)
  \/ Restart

Spec == Init /\ [][Next]_vars

\* Redis answers, and the loop runs every coroutine that is ready.
Fairness == \A r \in Requests : WF_vars(Continue(r))

FairSpec == Spec /\ Fairness

-----------------------------------------------------------------------------
(* Properties                                                              *)

\* Every variable keeps the type of the rows, keys and locals it models, and
\* the provider id of an account is masked by its withdrawal and by nothing else.
TypeOK ==
  /\ account \in [Users -> Account]
  /\ \A u \in Users : account[u].identity = NULL <=> account[u].state \in {"absent", "withdrawn"}
  /\ token \in [Tokens -> TokenPair \cup {NULL}]
  /\ session \in [Tokens -> Session \cup {NULL}]
  /\ blacklist \subseteq Tokens
  /\ age \in [Tokens -> {"valid", "last second", "expired"}]
  /\ tx \in [Requests -> TxRecord]
  /\ faults \in Nat /\ ticks \in Nat

\* Two reissues of one refresh token, a stolen one among them, get at most one
\* new pair of tokens, whatever logins, logouts and withdrawals interleave.
ExchangedOnce ==
  \A r, s \in Requests :
    At(r, "reissue", "done") /\ At(s, "reissue", "done") /\ r # s
    /\ tx[r].result = "ok" /\ tx[s].result = "ok" => tx[r].tok # tx[s].tok

\* Who has logged out stays out: no reissue that was under way brings the
\* session back, and the access token is refused, but for the last second in
\* which the blacklist no longer keeps it.
LoggedOutStaysOut ==
  \A r \in Requests :
    At(r, "logout", "done") /\ tx[r].result = "ok" =>
      /\ session[token[tx[r].tok].sid] = NULL
      /\ tx[r].acc \in blacklist \/ age[tx[r].acc] # "valid"

\* A withdrawal ends every session that was there when it began, also those
\* that rotate or are logged out during its scan.
OldSessionsEnd ==
  \A r \in Requests :
    At(r, "withdraw", "done") /\ tx[r].result = "ok" =>
      \A s \in tx[r].old : session[s] = NULL

\* One account per identity, blocked ones included: a login never opens a second
\* one, and after a withdrawal the same person signs up as a new user.
IdentityHasOneAccount ==
  \A u, v \in Users :
    u # v /\ account[u].identity = account[v].identity => account[u].identity = NULL

\* A session is held by a token that was issued to its user for this session,
\* so that whoever may rotate it may also log it out.
SessionMatchesItsToken ==
  \A s \in Tokens : session[s] # NULL =>
    token[session[s].jti] = [user |-> session[s].user, sid |-> s]

\* The Redis sessions implement SessionLifecycle: one holder at a time, never
\* the same token twice, closed for good.
Lifecycle == INSTANCE SessionLifecycle WITH
  Sids <- Tokens,
  holder <- [s \in Tokens |-> IF session[s] = NULL THEN NULL ELSE session[s].jti],
  opened <- {s \in Tokens : \E t \in Tokens : token[t] # NULL /\ token[t].sid = s},
  used <- {t \in Tokens : token[t] # NULL}

ImplementsLifecycle == Lifecycle!Spec

-----------------------------------------------------------------------------
(* What the code says and the interleavings break                          *)

\* A request to withdraw an account is answered, the second one with
\* UserAlreadyWithdrawnException.
WithdrawalsAreAnswered ==
  \A r \in Requests : tx[r].op = "withdraw" ~> tx[r].pc = "done"

=============================================================================
