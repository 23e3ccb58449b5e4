------------------------- MODULE NotificationInbox -------------------------
(***************************************************************************)
(* The notifications of the users of one room                              *)
(* (services/notification/notification_service.py) and who writes them: a  *)
(* plan handler commits a row for each user it notifies and then pushes it *)
(* to their devices (PushDelivery).  A withdrawal masks the devices of its *)
(* user and deletes the notifications.                                     *)
(***************************************************************************)
EXTENDS PushDelivery, Sequences

CONSTANTS
  OldNotes,  \* transactions that have notified before the behaviour
  OldBatch,  \* what they were: the type, the users, and the voter it is about or NULL
  OldOrder,  \* OldNotes, the newest first
  Patches,   \* bodies of update_notification_settings
  Occasions, \* what the plan handlers notify whom of, in this instance
  Readers,   \* users who open their inbox in this instance
  PageSize

VARIABLES
  note,  \* rows of notifications: per transaction that wrote them, per user
  order  \* transactions that notify, the newest created_at first

vars == <<account, token, tx, note, order>>

inbox == <<note, order>>

-----------------------------------------------------------------------------
(* Rows                                                                    *)

\* The plan handlers insert one notification for each user, in one transaction.
Batches == OldNotes \cup Requests

\* Who has voted, when the target of the notifications is a vote.
Voter(b) == IF b \in OldNotes THEN OldBatch[b].voter ELSE tx[b].device

ASSUME OldNotesAreNew == OldNotes \cap Requests = {} /\ PageSize \in Nat \ {0}
ASSUME OldNotesAreRows ==
  /\ IsFiniteSet(OldNotes)
  /\ \A b \in OldNotes : OldBatch[b].users \subseteq Users /\ OldBatch[b].voter \in Users \cup {NULL}
  /\ OldOrder \in Seq(OldNotes) /\ \A b \in OldNotes : \E i \in DOMAIN OldOrder : OldOrder[i] = b
ASSUME OccasionsNotify ==
  \A o \in Occasions : /\ o.type \in Types /\ o.users \subseteq Users
                        /\ o.voter \in (Users \cup {NULL}) \ o.users
ASSUME ReadersAreUsers == Readers \subseteq Users
ASSUME PatchesAreNotEmpty ==
  \A patch \in Patches : /\ patch \in [DOMAIN patch -> BOOLEAN]
                          /\ DOMAIN patch # {} /\ DOMAIN patch \subseteq Toggles

Unread(u) == {b \in Batches : note[b][u] = "unread"}

-----------------------------------------------------------------------------
(* The plan handlers; PlanVoting has the rest of them                      *)

\* created_at is the start of the transaction.  Members who are ACTIVE are notified.
NotifyBegin(r, type, users, voter) ==
  /\ tx[r].pc = "idle"
  /\ voter # NULL => account[voter].active
  /\ LET members == {u \in users : account[u].active}
     IN  /\ members # {}
         /\ tx' = [tx EXCEPT ![r] = [Fresh("notify", NULL) EXCEPT
                                       !.pc = "writing", !.users = members, !.type = type,
                                       !.device = voter]]
  /\ order' = <<r>> \o order
  /\ UNCHANGED <<account, token, note>>

NotifyCommit(r) ==
  /\ At(r, "notify", "writing")
  /\ note' = [note EXCEPT ![r] = [u \in Users |-> IF u \in tx[r].users THEN "unread" ELSE @[u]]]
  /\ tx' = [tx EXCEPT ![r].pc = "committed"]
  /\ UNCHANGED <<account, token, order>>

\* The database fails: rollback, and nothing is pushed.
NotifyFails(r) ==
  /\ At(r, "notify", "writing")
  /\ Ends(r, "failed")
  /\ UNCHANGED <<account, token, note, order>>

-----------------------------------------------------------------------------
(* withdraw_user; AccountSessions has the rest of it                       *)

\* mask_user_fcm_tokens reads the rows of the user, and the UPDATE of notifications
\* finds those that are committed by now.
WithdrawReads(r, u) ==
  /\ tx[r].pc = "idle" /\ account[u].active
  /\ tx' = [tx EXCEPT ![r] = [Fresh("withdraw", u) EXCEPT
                                !.pc = "checked",
                                !.had = {t \in Tokens : token[t].owner = u},
                                !.todo = {t \in Tokens : token[t].owner = u /\ token[t].active},
                                !.there = {b \in Batches : note[b][u] \in {"unread", "read"}}]]
  /\ UNCHANGED <<account, token, note, order>>

\* Mutant of Masked: the device stays in the row.
MarkedDeleted(t, r) == [token[t] EXCEPT !.active = FALSE, !.deleted = TRUE]

\* is_active is in the UPDATE if it was set when the row was read.
Masked(t, r) ==
  [token[t] EXCEPT !.device = NULL, !.deleted = TRUE,
                   !.active = IF t \in tx[r].todo THEN FALSE ELSE @]

\* soft_delete_user_related_records.  What is notified while the withdrawal is at
\* its awaits stays.
DeletedNotes(u, found) ==
  [b \in Batches |-> [note[b] EXCEPT ![u] = IF b \in found /\ @ \in {"unread", "read"}
                                              THEN "deleted" ELSE @]]

\* It finds the rows by their ids, whoever has registered them meanwhile.
WithdrawCommit(r) ==
  /\ At(r, "withdraw", "checked")
  /\ account' = [account EXCEPT ![tx[r].user].active = FALSE]
  /\ token' = [t \in Tokens |-> IF t \in tx[r].had THEN Masked(t, r) ELSE token[t]]
  /\ note' = DeletedNotes(tx[r].user, tx[r].there)
  /\ Ends(r, "ok")
  /\ UNCHANGED order

-----------------------------------------------------------------------------
(* get_notification_list: a client scrolls through all the pages           *)

\* _notification_room_filter: who withdraws takes the votes along, and with them
\* the notifications of others about them; only the list of one room tells.
InRoom(b) == Voter(b) # NULL => account[Voter(b)].active

Listed(u, filtered) ==
  {b \in Batches : note[b][u] \in {"unread", "read"} /\ (filtered => InRoom(b))}

\* count_notifications_for_user, of the first page or of the next one.
BrowseCount(r, u, filtered) ==
  /\ \/ tx[r].pc = "idle"
     \/ At(r, "browse", "between") /\ tx[r].user = u /\ tx[r].filtered = filtered
  /\ account[u].active
  /\ LET listed == Listed(u, filtered)
         begun == IF tx[r].pc = "idle"
                    THEN [Fresh("browse", u) EXCEPT !.filtered = filtered, !.there = listed]
                    ELSE tx[r]
     IN  tx' = [tx EXCEPT ![r] = [begun EXCEPT !.pc = "reading", !.count = Cardinality(listed)]]
  /\ UNCHANGED <<account, token, note, order>>

\* The rows of the list down to that of b, the newest first.
RowsDownTo(listed, b) ==
  {c \in listed : \E i, j \in DOMAIN order : i <= j /\ order[i] = c /\ order[j] = b}

\* OFFSET page * size LIMIT size
PageRows(listed, page) ==
  {b \in listed :
     Cardinality(RowsDownTo(listed, b)) \in page * PageSize + 1 .. (page + 1) * PageSize}

\* Mutant of HasNext: off by one.
HasNextPage(page, count) == page + 2 < (count + PageSize - 1) \div PageSize

\* page + 1 < ceil(count / size)
HasNext(page, count) == page + 1 < (count + PageSize - 1) \div PageSize

\* find_notifications_for_user: a second snapshot.
BrowseRows(r) ==
  /\ At(r, "browse", "reading")
  /\ LET listed == Listed(tx[r].user, tx[r].filtered)
         last == ~HasNext(tx[r].page, tx[r].count)
     IN  tx' = [tx EXCEPT ![r].pc = IF last THEN "done" ELSE "between",
                          ![r].result = IF last THEN "ok" ELSE "none",
                          ![r].seen = @ \cup PageRows(listed, tx[r].page),
                          ![r].page = IF last THEN 0 ELSE @ + 1,
                          ![r].torn = @ \/ Cardinality(listed) > tx[r].count,
                          ![r].count = 0]
  /\ UNCHANGED <<account, token, note, order>>

BrowseRefused(r) ==
  /\ At(r, "browse", "between") /\ ~account[tx[r].user].active
  /\ Ends(r, "refused")
  /\ UNCHANGED <<account, token, note, order>>

-----------------------------------------------------------------------------
(* read_notification, read_all_notifications                               *)

\* Another user's notification is refused, as is a deleted one.  Between the check
\* and the UPDATE only a deletion can come, which it leaves as it is.
ReadNotification(r, u, b) ==
  /\ tx[r].pc = "idle" /\ account[u].active
  /\ LET found == note[b][u] \in {"unread", "read"}
     IN  /\ tx' = [tx EXCEPT ![r] = [Fresh("read", u) EXCEPT
                                       !.op = IF found THEN "read" ELSE "refused", !.pc = "done"]]
         /\ note' = IF found THEN [note EXCEPT ![b][u] = "read"] ELSE note
  /\ UNCHANGED <<account, token, order>>

\* One UPDATE; the answer is how many rows it has changed.
ReadAll(r, u) ==
  /\ tx[r].pc = "idle" /\ account[u].active
  /\ tx' = [tx EXCEPT ![r] = [Fresh("read_all", u) EXCEPT
                                !.pc = "done", !.result = "ok", !.count = Cardinality(Unread(u))]]
  /\ note' = [b \in Batches |-> [note[b] EXCEPT ![u] = IF @ = "unread" THEN "read" ELSE @]]
  /\ UNCHANGED <<account, token, order>>

-----------------------------------------------------------------------------
(* Specification                                                           *)

Init ==
  /\ account = [u \in Users |-> [active |-> TRUE, on |-> Toggles]]
  /\ token = [t \in Tokens |->
                IF t \in OldTokens THEN [owner |-> OldRows[t].owner, device |-> OldRows[t].device,
                                         active |-> TRUE, deleted |-> FALSE]
                ELSE NoToken]
  /\ tx = [r \in Requests |-> Idle]
  /\ note = [b \in Batches |-> [u \in Users |->
               IF b \in OldNotes /\ u \in OldBatch[b].users THEN "unread" ELSE "none"]]
  /\ order = OldOrder

Registers(r) ==
  \/ \E u \in Users, d \in Devices : RegisterCheck(r, u, d)
  \/ RegisterFind(r) \/ RegisterUpdates(r) \/ RegisterInserts(r)

Switches(r) ==
  \/ \E u \in Users, patch \in Patches : SettingsCheck(r, u, patch)
  \/ SettingsCommit(r)

Dispatches(r) ==
  \/ DispatchSkips(r) \/ DispatchFails(r) \/ DispatchSelects(r) \/ DispatchEnds(r)
  \/ \E target \in tx[r].todo, answer \in {"taken", "unregistered", "error"} :
       Send(r, target, answer)

Notifies(r) ==
  \/ \E o \in Occasions : NotifyBegin(r, o.type, o.users, o.voter)
  \/ NotifyCommit(r) \/ NotifyFails(r)

Withdraws(r) ==
  \/ \E u \in Users : WithdrawReads(r, u)
  \/ WithdrawCommit(r)

Browses(r) ==
  \/ \E u \in Readers, filtered \in BOOLEAN : BrowseCount(r, u, filtered)
  \/ BrowseRows(r) \/ BrowseRefused(r)

Reads(r) ==
  \E u \in Readers : ReadAll(r, u) \/ \E b \in Batches : ReadNotification(r, u, b)

Refused(r) == \E u \in Users : IsRefused(r, u)

Next ==
  \E r \in Requests :
    \/ (Registers(r) \/ Switches(r) \/ Dispatches(r)) /\ UNCHANGED inbox
    \/ Refused(r) /\ UNCHANGED <<account, token, note, order>>
    \/ Notifies(r) \/ Withdraws(r) \/ Browses(r) \/ Reads(r)

Spec == Init /\ [][Next]_vars

-----------------------------------------------------------------------------
(* Properties                                                              *)

\* Every variable keeps the type of the rows and locals it models; a device has
\* one row, and a deleted row has no device.
TypeOK ==
  /\ account \in [Users -> [active : BOOLEAN, on : SUBSET Toggles]]
  /\ token \in [Tokens -> [owner : Users \cup {NULL}, device : Devices \cup {NULL},
                           active : BOOLEAN, deleted : BOOLEAN]]
  /\ \A d \in Devices : Cardinality(TokensOf(d)) <= 1
  /\ \A t \in Tokens : token[t].deleted => token[t].device = NULL
  /\ note \in [Batches -> [Users -> {"none", "unread", "read", "deleted"}]]
  /\ order \in Seq(Batches)
  /\ \A r \in Requests : tx[r].before \subseteq Finished /\ tx[r].chosen \subseteq Users \X Devices

Overlap(r, s) == r # s /\ r \notin tx[s].before /\ s \notin tx[r].before

\* Requests that have made their change, and are not known to have ended before r.
Since(r, op) == {s \in Requests \ {r} : tx[s].op = op /\ Succeeded(s) /\ s \notin tx[r].before}

\* A dispatch that has heard that d is unregistered.
Rejected(j, d) == tx[j].op = "notify" /\ d \in tx[j].invalid

\* What was answered before dispatch j began, and that the push to d of user u
\* would go against.
LastWordIsAgainst(j, u, d) ==
  \/ \E w \in tx[j].before : tx[w].op = "withdraw" /\ tx[w].user = u /\ Succeeded(w)
  \/ \E s \in tx[j].before :
       /\ tx[s].op = "settings" /\ tx[s].user = u /\ Succeeded(s)
       /\ tx[j].type \in DOMAIN tx[s].patch /\ ~tx[s].patch[tx[j].type]
       /\ \A s2 \in Since(s, "settings") :
            tx[s2].user = u /\ tx[j].type \in DOMAIN tx[s2].patch => ~tx[s2].patch[tx[j].type]
  \/ \E r \in tx[j].before :
       /\ tx[r].op = "register" /\ tx[r].device = d /\ tx[r].user # u /\ Succeeded(r)
       /\ \A r2 \in Since(r, "register") : tx[r2].device = d => tx[r2].user # u
  \/ \E k \in tx[j].before :
       /\ Rejected(k, d)
       /\ \A r \in Requests : tx[r].op = "register" /\ tx[r].device = d => r \in tx[k].before

\* What was answered before dispatch j began promises the push to d of user u.
LastWordIsFor(j, u, d) ==
  /\ u \in tx[j].users
  /\ \A s \in Requests :
       /\ tx[s].op = "settings" /\ tx[s].user = u /\ tx[j].type \in DOMAIN tx[s].patch
       => tx[s].patch[tx[j].type]
  /\ \E r \in tx[j].before :
       /\ tx[r].op = "register" /\ tx[r].device = d /\ tx[r].user = u /\ Succeeded(r)
       /\ \A s \in Requests \ tx[r].before :
            /\ tx[s].op = "register" /\ tx[s].device = d => tx[s].user = u
            /\ tx[s].op = "withdraw" => r \in tx[s].before /\ tx[s].user # u
            /\ ~Rejected(s, d)

\* A push goes to the devices that its user has registered last, of the users who
\* want it: a device that another user has taken over, one that FCM has refused,
\* a type that is switched off, an account that is withdrawn get none; a device
\* that is registered gets all.  Only requests that overlap are lost.
PushesFollowTheLastWord ==
  \A j \in Requests :
    /\ \A target \in tx[j].chosen : ~LastWordIsAgainst(j, target[1], target[2])
    /\ PushEnabled /\ (At(j, "notify", "sending") \/ At(j, "notify", "done"))
         /\ tx[j].result \notin {"failed", "FAILED"}
       => \A u \in Users, d \in Devices : LastWordIsFor(j, u, d) => <<u, d>> \in tx[j].chosen

\* The diagnosis of a user says what a dispatch would do: it counts the devices
\* that the dispatch would choose, it sends to no other, and when the dry run and
\* the send are both fine the dispatch would reach them all.
DiagnosisMatchesDispatch ==
  \A u \in {v \in Users : account[v].active}, type \in Types :
    LET chosen == FindActiveTokenRows({u}, type)
        devices == {token[t].device : t \in ActiveTokenRows(u)}
    IN  /\ Diagnose(u, type, FALSE, devices, devices).eligible = 0
        /\ \A valid \in SUBSET devices : \A accepted \in SUBSET valid :
             LET d == Diagnose(u, type, TRUE, valid, accepted)
             IN  /\ PushEnabled => d.eligible = Cardinality(chosen)
                 /\ \A t \in d.attempted :
                      <<u, token[t].device>> \in chosen /\ token[t].device \in valid
                 /\ d.dry_run = "REQUESTED" /\ d.actual = "REQUESTED"
                      => chosen # {} /\ \A target \in chosen : target[2] \in accepted

\* A client that scrolls to the last page has seen every notification that was
\* there all along, unless one arrived between the count of a page and its rows,
\* or, in the list of one room, someone withdrew meanwhile.
ScrollingMissesNothing ==
  \A r \in Requests :
    /\ At(r, "browse", "done") /\ tx[r].result = "ok" /\ ~tx[r].torn
    /\ ~\E w \in Requests : /\ tx[w].op = "withdraw" /\ Succeeded(w) /\ Overlap(r, w)
                            /\ tx[r].filtered \/ tx[w].user = tx[r].user
    => tx[r].there \subseteq tx[r].seen

=============================================================================
