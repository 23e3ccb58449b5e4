---------------------------- MODULE PushDelivery ----------------------------
(***************************************************************************)
(* The devices of the users and the pushes sent to them: registering a     *)
(* device (services/user/fcm_token_service.py), the switches of            *)
(* services/user/notification_settings_service.py, sending and diagnosing  *)
(* pushes (services/notification/fcm_service.py).                          *)
(*                                                                         *)
(* Handlers run in threads, each in one READ COMMITTED transaction.  An    *)
(* action is one query, or the writes of a handler with its commit: nobody *)
(* sees them before.  NotificationInbox has the handlers that notify.      *)
(***************************************************************************)
EXTENDS Naturals, FiniteSets

CONSTANTS
  Users,
  Devices,      \* a device stands for the token FCM gave it
  OldTokens,    \* rows of user_fcm_tokens from before the behaviour
  OldRows,      \* their owner and device
  Requests,     \* requests; each one runs a handler once
  NULL,
  Types,        \* NotificationType
  Toggles,      \* those of them that a user can switch off
  PushEnabled   \* FIREBASE_PUSH_ENABLED

VARIABLES
  account,  \* rows of users: ACTIVE, and the types that are switched on
  token,    \* rows of user_fcm_tokens
  tx        \* per request: program counter and locals

-----------------------------------------------------------------------------
(* Rows and handlers                                                       *)

\* A registration makes at most one row and stands for its id.
Tokens == OldTokens \cup Requests

\* The device is NULL in a row that a withdrawal has masked, too.
NoToken == [owner |-> NULL, device |-> NULL, active |-> FALSE, deleted |-> FALSE]

Idle == [pc |-> "idle", op |-> "none", result |-> "none", before |-> {}, user |-> NULL,
         device |-> NULL, id |-> NULL, read |-> NULL, had |-> {}, patch |-> <<>>,
         type |-> NULL, users |-> {}, chosen |-> {}, todo |-> {}, invalid |-> {}, sent |-> 0, there |-> {},
         seen |-> {}, filtered |-> FALSE, page |-> 0, count |-> 0, torn |-> FALSE]

\* Why nothing is sent to a user: reasons of _type_level_skip_reason.
SkipReasons == {"USER_NOT_ACTIVE", "NOTIFICATION_DISABLED", "NO_FCM_TOKEN", "NO_ACTIVE_FCM_TOKEN",
                "FIREBASE_PUSH_DISABLED", "FIREBASE_MESSAGING_UNAVAILABLE"}

ASSUME NullIsNothing == NULL \notin Users \cup Devices \cup Tokens \cup SkipReasons
ASSUME RequestsAreNew == OldTokens \cap Requests = {}
ASSUME TogglesAreTypes == Toggles \subseteq Types /\ PushEnabled \in BOOLEAN

\* uq_user_fcm_tokens_fcm_token
ASSUME OldRowsAreRows ==
  /\ IsFiniteSet(OldTokens)
  /\ \A t \in OldTokens :
       /\ OldRows[t].owner \in Users /\ OldRows[t].device \in Devices
       /\ \A s \in OldTokens : OldRows[s].device = OldRows[t].device => s = t

At(r, op, pc) == tx[r].op = op /\ tx[r].pc = pc

Succeeded(r) == tx[r].pc = "done" /\ tx[r].result = "ok"

Finished == {r \in Requests : tx[r].pc = "done"}

\* The record of a request that begins now.
Fresh(op, u) == [Idle EXCEPT !.op = op, !.before = Finished, !.user = u]

\* What the properties do not look at is dropped.
Ends(r, result) ==
  tx' = [tx EXCEPT ![r] = [@ EXCEPT !.pc = "done", !.result = result, !.read = NULL, !.had = {},
                                    !.todo = {}, !.id = NULL]]

\* find_user_by_id: the account is missing or no longer ACTIVE.
IsRefused(r, u) ==
  /\ tx[r].pc = "idle" /\ ~account[u].active
  /\ tx' = [tx EXCEPT ![r] = [Fresh("refused", u) EXCEPT !.pc = "done"]]

-----------------------------------------------------------------------------
(* save_fcm_token                                                          *)

\* find_fcm_token_by_token
TokensOf(d) == {t \in Tokens : token[t].device = d}

RegisterCheck(r, u, d) ==
  /\ tx[r].pc = "idle" /\ account[u].active
  /\ tx' = [tx EXCEPT ![r] = [Fresh("register", u) EXCEPT !.pc = "checked", !.device = d]]
  /\ UNCHANGED <<account, token>>

RegisterFind(r) ==
  /\ At(r, "register", "checked")
  /\ IF TokensOf(tx[r].device) = {}
       THEN tx' = [tx EXCEPT ![r].pc = "found"]
       ELSE \E t \in TokensOf(tx[r].device) :
              tx' = [tx EXCEPT ![r] = [@ EXCEPT !.pc = "found", !.id = t, !.read = token[t]]]
  /\ UNCHANGED <<account, token>>

\* Mutant of Registered: the row stays with the user who had it.
RegisteredAgain(row, r) == [row EXCEPT !.active = TRUE]

\* The UPDATE sets the columns whose value differs from the one that was read.
Registered(row, r) ==
  [row EXCEPT !.owner = IF tx[r].user # tx[r].read.owner THEN tx[r].user ELSE @,
              !.active = IF tx[r].read.active THEN @ ELSE TRUE]

\* It finds the row by its id, masked or not.
RegisterUpdates(r) ==
  /\ At(r, "register", "found") /\ tx[r].id # NULL
  /\ token' = [token EXCEPT ![tx[r].id] = Registered(@, r)]
  /\ Ends(r, "ok")
  /\ UNCHANGED account

\* uq_user_fcm_tokens_fcm_token: an IntegrityError that nobody catches.
RegisterInserts(r) ==
  /\ At(r, "register", "found") /\ tx[r].id = NULL
  /\ IF TokensOf(tx[r].device) = {}
       THEN /\ token' = [token EXCEPT ![r] = [owner |-> tx[r].user, device |-> tx[r].device,
                                              active |-> TRUE, deleted |-> FALSE]]
            /\ Ends(r, "ok")
       ELSE Ends(r, "failed") /\ UNCHANGED token
  /\ UNCHANGED account

-----------------------------------------------------------------------------
(* update_notification_settings: a value for each switch that is set       *)

SettingsCheck(r, u, patch) ==
  /\ tx[r].pc = "idle" /\ account[u].active
  /\ tx' = [tx EXCEPT ![r] = [Fresh("settings", u) EXCEPT !.pc = "checked", !.patch = patch,
                                                          !.had = account[u].on]]
  /\ UNCHANGED <<account, token>>

\* Mutant of Switched: what the request does not name is switched off.
SwitchedTo(on, r) == {type \in DOMAIN tx[r].patch : tx[r].patch[type]}

\* Only switches that differ from what was read are in the UPDATE.
Switched(on, r) ==
  {type \in Toggles :
     IF type \in DOMAIN tx[r].patch /\ tx[r].patch[type] # (type \in tx[r].had)
       THEN tx[r].patch[type] ELSE type \in on}

SettingsCommit(r) ==
  /\ At(r, "settings", "checked")
  /\ account' = [account EXCEPT ![tx[r].user].on = Switched(@, r)]
  /\ Ends(r, "ok")
  /\ UNCHANGED token

-----------------------------------------------------------------------------
(* dispatch_fcm_push_notifications                                         *)

\* Mutant of FindActiveTokenRows: the settings of the users are not asked.
FindTokenRows(users, type) ==
  {<<token[t].owner, token[t].device>> :
     t \in {s \in Tokens : /\ token[s].owner \in users /\ token[s].active /\ ~token[s].deleted
                           /\ account[token[s].owner].active}}

\* find_active_fcm_token_rows
FindActiveTokenRows(users, type) ==
  {<<token[t].owner, token[t].device>> :
     t \in {s \in Tokens : /\ token[s].owner \in users /\ token[s].active /\ ~token[s].deleted
                           /\ account[token[s].owner].active
                           /\ type \in Toggles => type \in account[token[s].owner].on}}

\* push_status, and the status of the summaries of a diagnosis.
SummaryStatus(sent, failed) ==
  CASE sent > 0 /\ failed = 0 -> "REQUESTED"
    [] sent > 0 /\ failed > 0 -> "PARTIAL_FAILED"
    [] sent = 0 /\ failed > 0 -> "FAILED"
    [] OTHER -> "SKIPPED"

\* No rows, or push is disabled.
DispatchSkips(r) ==
  /\ At(r, "notify", "committed")
  /\ FindActiveTokenRows(tx[r].users, tx[r].type) = {} \/ ~PushEnabled
  /\ Ends(r, "SKIPPED")
  /\ UNCHANGED <<account, token>>

\* _get_messaging_module: Firebase may fail to initialize.
DispatchFails(r) ==
  /\ At(r, "notify", "committed") /\ PushEnabled
  /\ FindActiveTokenRows(tx[r].users, tx[r].type) # {}
  /\ Ends(r, "FAILED")
  /\ UNCHANGED <<account, token>>

DispatchSelects(r) ==
  /\ At(r, "notify", "committed") /\ PushEnabled
  /\ LET rows == FindActiveTokenRows(tx[r].users, tx[r].type)
     IN  /\ rows # {}
         /\ tx' = [tx EXCEPT ![r] = [@ EXCEPT !.pc = "sending", !.chosen = rows, !.todo = rows]]
  /\ UNCHANGED <<account, token>>

\* FCM takes the message, or says that there is no such token, or fails.
Send(r, target, answer) ==
  /\ At(r, "notify", "sending") /\ target \in tx[r].todo
  /\ tx' = [tx EXCEPT ![r].todo = @ \ {target},
                       ![r].sent = IF answer = "taken" THEN @ + 1 ELSE @,
                       ![r].invalid = IF answer = "unregistered" THEN @ \cup {target[2]} ELSE @]
  /\ UNCHANGED <<account, token>>

\* Mutant of Deactivated: the last row is kept.
DeactivatedButOne(tokens) ==
  IF Cardinality(tokens) > 1
    THEN [t \in Tokens |-> IF token[t].device \in tokens THEN [token[t] EXCEPT !.active = FALSE]
                           ELSE token[t]]
    ELSE token

\* deactivate_fcm_tokens: by token, whoever has it by now.
Deactivated(tokens) ==
  [t \in Tokens |-> IF token[t].device \in tokens THEN [token[t] EXCEPT !.active = FALSE]
                    ELSE token[t]]

DispatchEnds(r) ==
  /\ At(r, "notify", "sending") /\ tx[r].todo = {}
  /\ token' = Deactivated(tx[r].invalid)
  /\ tx' = [tx EXCEPT ![r] =
              [@ EXCEPT !.pc = "done",
                        !.result = SummaryStatus(tx[r].sent, Cardinality(tx[r].chosen) - tx[r].sent)]]
  /\ UNCHANGED account

-----------------------------------------------------------------------------
(* diagnose_fcm_push_for_user, for one type                                *)

\* _notification_setting_state
SettingEnabled(u, type) == type \in Toggles => type \in account[u].on

\* token_rows, and those of them that are active.
TokenRows(u) == {t \in Tokens : token[t].owner = u /\ ~token[t].deleted}
ActiveTokenRows(u) == {t \in TokenRows(u) : token[t].active}

\* _type_level_skip_reason
TypeLevelSkipReason(u, type, available) ==
  CASE ~account[u].active -> "USER_NOT_ACTIVE"
    [] account[u].active /\ ~SettingEnabled(u, type) -> "NOTIFICATION_DISABLED"
    [] OTHER -> IF TokenRows(u) = {} THEN "NO_FCM_TOKEN"
                ELSE IF ActiveTokenRows(u) = {} THEN "NO_ACTIVE_FCM_TOKEN"
                ELSE IF ~PushEnabled THEN "FIREBASE_PUSH_DISABLED"
                ELSE IF ~available THEN "FIREBASE_MESSAGING_UNAVAILABLE" ELSE NULL

\* Mutant of Attempted: the dry run's verdict is not waited for.
AttemptedAtOnce(u, type, available, valid) ==
  IF TypeLevelSkipReason(u, type, available) = NULL THEN ActiveTokenRows(u) ELSE {}

\* Who gets an actual test push: the dry run must have taken it.
Attempted(u, type, available, valid) ==
  IF TypeLevelSkipReason(u, type, available) = NULL
    THEN {t \in ActiveTokenRows(u) : token[t].device \in valid} ELSE {}

\* _diagnose_fcm_notification_type; FCM would take messages to the devices in
\* valid, and takes those to the devices in accepted.
Diagnose(u, type, available, valid, accepted) ==
  LET eligible == IF TypeLevelSkipReason(u, type, available) = NULL
                    THEN Cardinality(ActiveTokenRows(u)) ELSE 0
      validated == IF available THEN {t \in ActiveTokenRows(u) : token[t].device \in valid} ELSE {}
      attempted == Attempted(u, type, available, valid)
      taken == {t \in attempted : token[t].device \in accepted}
  IN  [eligible |-> eligible, attempted |-> attempted,
       dry_run |-> SummaryStatus(Cardinality(validated),
                                 Cardinality(ActiveTokenRows(u)) - Cardinality(validated)),
       actual |-> SummaryStatus(Cardinality(taken), Cardinality(attempted) - Cardinality(taken))]
=============================================================================
