------------------------- MODULE RecurringSchedules -------------------------
(***************************************************************************)
(* The recurring schedules of the members of a room                        *)
(* (services/user/recurring_schedule_service.py) and the draws that read   *)
(* them for the recommended time of a plan.                                *)
(*                                                                         *)
(* Handlers run in threads, each in one READ COMMITTED transaction.  The   *)
(* session does not flush on its own: besides the DELETE of day rows       *)
(* everything is written with the commit.  An action is what a handler     *)
(* reads, that DELETE, or what it writes.                                  *)
(***************************************************************************)
EXTENDS RecommendedTime, FiniteSets, Sequences

CONSTANTS
  Users,      \* members of the room
  OldGroups,  \* rows of recurring_schedule_groups from before the behaviour
  OldRows,    \* their owner, times and days
  Requests,   \* requests; each one runs a handler once
  Bodies,     \* bodies of create_recurring_schedule
  Patches,    \* bodies of update_recurring_schedule: the fields that are set
  Moments     \* when a draw may be made

VARIABLES
  group,  \* rows of recurring_schedule_groups
  days,   \* rows of recurring_schedule_day: the day, and the request that wrote it
  gone,   \* users who have withdrawn
  tx      \* per request: program counter and locals

vars == <<search, group, days, gone, tx>>

-----------------------------------------------------------------------------
(* Rows and handlers                                                       *)

AllOps == {"create", "update", "activate", "delete", "draw"}

\* A create request makes at most one group and stands for its id.
Groups == OldGroups \cup Requests

NoGroup == [state |-> "absent", enabled |-> FALSE, owner |-> NULL, start |-> NULL, end |-> NULL]

DayRow(day, r) == [day |-> day, by |-> r]

Idle == [pc |-> "idle", op |-> "none", result |-> "none", group |-> NULL, read |-> NoGroup,
         write |-> NULL, drop |-> {}, before |-> {}]

ASSUME NullIsNobody == NULL \notin Users \cup Groups
ASSUME RequestsAreNew == OldGroups \cap Requests = {}
ASSUME MomentsAreNat == Moments \subseteq Nat

At(r, op, pc) == tx[r].op = op /\ tx[r].pc = pc

Succeeded(r) == tx[r].pc = "done" /\ tx[r].result = "ok"

Finished == {r \in Requests : tx[r].pc = "done"}

\* The locals are dropped; op, group and before are kept for the properties.
Ends(r, result) ==
  tx' = [tx EXCEPT ![r] = [@ EXCEPT !.pc = "done", !.result = result, !.read = NoGroup,
                                    !.write = NULL, !.drop = {}]]

\* A request that begins now and has read what it needs.
Begins(r, op, g, write) ==
  tx' = [tx EXCEPT ![r] =
           [Idle EXCEPT !.pc = "checked", !.op = op, !.group = g, !.before = Finished,
                        !.read = IF g \in Groups THEN group[g] ELSE NoGroup,
                        !.write = write]]

IsRefused(r, op) ==
  tx' = [tx EXCEPT ![r] =
           [Idle EXCEPT !.pc = "done", !.op = op, !.result = "refused", !.before = Finished]]

\* find_recurring_schedule_group_by_id finds the caller's own, undeleted groups.
MayChange(u, g) == u \notin gone /\ group[g].state = "live" /\ group[g].owner = u

-----------------------------------------------------------------------------
(* Bodies; a time is NULL when it is missing or has another form.  A title *)
(* is validated, and not kept here.                                        *)

TitleIsValid(length) == length \in 1..12

\* Mutant of DaysAreValid: an empty list passes.
DaysAreDistinct(list) == \A i, j \in DOMAIN list : list[i] = list[j] => i = j

DaysAreValid(list) ==
  /\ list # <<>>
  /\ \A i, j \in DOMAIN list : list[i] = list[j] => i = j

TimeIsValid(time) == time \in 0..MinutesPerDay - 1

RangeIsValid(start, end) == start < end

DaysOf(body) == {body["days"][i] : i \in DOMAIN body["days"]}

\* A creation has all fields, a PATCH those it sets.  A list with a day that is none
\* is refused, like an empty one.
Fields == {"title", "days", "start", "end"}

ASSUME BodiesAreComplete ==
  \A body \in Bodies : DOMAIN body = Fields /\ body["days"] \in Seq(DayOfWeek)

ASSUME PatchesHaveFields ==
  \A body \in Patches : /\ DOMAIN body \subseteq Fields
                        /\ "days" \in DOMAIN body => body["days"] \in Seq(DayOfWeek)

ASSUME OldRowsAreValid ==
  \A g \in OldGroups :
    /\ OldRows[g].owner \in Users
    /\ TimeIsValid(OldRows[g].start) /\ TimeIsValid(OldRows[g].end)
    /\ RangeIsValid(OldRows[g].start, OldRows[g].end)
    /\ OldRows[g].days \subseteq DayOfWeek /\ OldRows[g].days # {}

\* Every field that is set is valid by itself.
FieldsAreValid(body) ==
  /\ "title" \in DOMAIN body => TitleIsValid(body["title"])
  /\ "days" \in DOMAIN body => DaysAreValid(body["days"])
  /\ "start" \in DOMAIN body => TimeIsValid(body["start"])
  /\ "end" \in DOMAIN body => TimeIsValid(body["end"])

-----------------------------------------------------------------------------
(* create_recurring_schedule                                               *)

CreateCheck(r, u, body) ==
  /\ tx[r].pc = "idle" /\ u \notin gone
  /\ IF FieldsAreValid(body) /\ RangeIsValid(body["start"], body["end"])
       THEN Begins(r, "create", NULL, [owner |-> u, body |-> body])
       ELSE IsRefused(r, "create")
  /\ UNCHANGED <<search, group, days, gone>>

CreateCommit(r) ==
  /\ At(r, "create", "checked")
  /\ LET body == tx[r].write.body
     IN  /\ group' = [group EXCEPT ![r] =
                        [state |-> "live", enabled |-> TRUE, owner |-> tx[r].write.owner,
                         start |-> body["start"], end |-> body["end"]]]
         /\ days' = [days EXCEPT ![r] = {DayRow(d, r) : d \in DaysOf(body)}]
  /\ Ends(r, "ok")
  /\ UNCHANGED <<search, gone>>

-----------------------------------------------------------------------------
(* update_recurring_schedule                                               *)

\* A field of the PATCH, or else what has been read.
FieldOrRead(body, read, field) == IF field \in DOMAIN body THEN body[field] ELSE read[field]

\* Mutant of PatchIsValid: a range is checked only when both ends are set.
PatchIsValidAlone(body, read) ==
  /\ FieldsAreValid(body)
  /\ {"start", "end"} \subseteq DOMAIN body => RangeIsValid(body["start"], body["end"])

PatchIsValid(body, read) ==
  /\ FieldsAreValid(body)
  /\ RangeIsValid(FieldOrRead(body, read, "start"), FieldOrRead(body, read, "end"))

UpdateCheck(r, u, g, body) ==
  /\ tx[r].pc = "idle" /\ MayChange(u, g)
  /\ IF PatchIsValid(body, group[g]) THEN Begins(r, "update", g, body)
                                     ELSE IsRefused(r, "update")
  /\ UNCHANGED <<search, group, days, gone>>

\* The DELETE of replace_recurring_schedule_days finds the rows that are there
\* when it begins.
UpdateScan(r) ==
  /\ At(r, "update", "checked") /\ "days" \in DOMAIN tx[r].write
  /\ tx' = [tx EXCEPT ![r].pc = "scanned", ![r].drop = days[tx[r].group]]
  /\ UNCHANGED <<search, group, days, gone>>

\* Day rows that a transaction has deleted and not yet committed.
DeletedBy(s, g) == IF tx[s].group = g /\ tx[s].pc = "deleted" THEN tx[s].drop ELSE {}

\* It waits for others that have deleted one of them, and passes over those
\* that are gone then.  What they have inserted it does not see.
UpdateDelete(r) ==
  /\ At(r, "update", "scanned")
  /\ \A s \in Requests \ {r} : DeletedBy(s, tx[r].group) \cap tx[r].drop = {}
  /\ tx' = [tx EXCEPT ![r].pc = "deleted", ![r].drop = @ \cap days[tx[r].group]]
  /\ UNCHANGED <<search, group, days, gone>>

\* The UPDATE sets the columns whose value differs from the one that was read.
Written(r, row) ==
  LET set(field) == field \in DOMAIN tx[r].write /\ tx[r].write[field] # tx[r].read[field]
  IN  [row EXCEPT !.start = IF set("start") THEN tx[r].write["start"] ELSE @,
                  !.end = IF set("end") THEN tx[r].write["end"] ELSE @]

\* Mutant of ReplacedDays: only the days of the new list are replaced.
MergedDays(r) ==
  {row \in days[tx[r].group] : row.day \notin DaysOf(tx[r].write)}
    \cup {DayRow(d, r) : d \in DaysOf(tx[r].write)}

\* The rows that are left, and the new ones.
ReplacedDays(r) ==
  (days[tx[r].group] \ tx[r].drop) \cup {DayRow(d, r) : d \in DaysOf(tx[r].write)}

\* uq_recurring_schedule_day_group_day
DaysAreUnique(rows) == \A a, b \in rows : a.day = b.day => a = b

ReadyToCommit(r) ==
  IF "days" \in DOMAIN tx[r].write THEN At(r, "update", "deleted") ELSE At(r, "update", "checked")

\* It finds the row by its id, deleted or not.
UpdateCommit(r) ==
  /\ tx[r].op = "update" /\ tx[r].pc \in {"checked", "deleted"} /\ ReadyToCommit(r)
  /\ "days" \in DOMAIN tx[r].write => DaysAreUnique(ReplacedDays(r))
  /\ group' = [group EXCEPT ![tx[r].group] = Written(r, @)]
  /\ days' = IF "days" \in DOMAIN tx[r].write
               THEN [days EXCEPT ![tx[r].group] = ReplacedDays(r)] ELSE days
  /\ Ends(r, "ok")
  /\ UNCHANGED <<search, gone>>

\* IntegrityError: everything is rolled back.
UpdateCollides(r) ==
  /\ At(r, "update", "deleted")
  /\ ~DaysAreUnique(ReplacedDays(r))
  /\ Ends(r, "failed")
  /\ UNCHANGED <<search, group, days, gone>>

-----------------------------------------------------------------------------
(* update_recurring_schedule_activation, delete_recurring_schedule         *)

ActivateCheck(r, u, g, active) ==
  /\ tx[r].pc = "idle" /\ MayChange(u, g)
  /\ Begins(r, "activate", g, active)
  /\ UNCHANGED <<search, group, days, gone>>

ActivateCommit(r) ==
  /\ At(r, "activate", "checked")
  /\ group' = [group EXCEPT ![tx[r].group].enabled =
                 IF tx[r].write # tx[r].read.enabled THEN tx[r].write ELSE @]
  /\ Ends(r, "ok")
  /\ UNCHANGED <<search, days, gone>>

DeleteCheck(r, u, g) ==
  /\ tx[r].pc = "idle" /\ MayChange(u, g)
  /\ Begins(r, "delete", g, NULL)
  /\ UNCHANGED <<search, group, days, gone>>

DeleteCommit(r) ==
  /\ At(r, "delete", "checked")
  /\ group' = [group EXCEPT ![tx[r].group].state = "deleted",
                            ![tx[r].group].enabled = IF tx[r].read.enabled THEN FALSE ELSE @]
  /\ Ends(r, "ok")
  /\ UNCHANGED <<search, days, gone>>

\* Somebody else's group, a deleted one, or an account that is withdrawn.
GroupIsMissing(r, op, u, g) ==
  /\ tx[r].pc = "idle" /\ ~MayChange(u, g)
  /\ IsRefused(r, op)
  /\ UNCHANGED <<search, group, days, gone>>

\* A withdrawal soft-deletes the groups of its user in one UPDATE.
Withdraw(u) ==
  /\ u \notin gone
  /\ gone' = gone \cup {u}
  /\ group' = [g \in Groups |-> IF group[g].state = "live" /\ group[g].owner = u
                                  THEN [group[g] EXCEPT !.state = "deleted", !.enabled = FALSE]
                                  ELSE group[g]]
  /\ UNCHANGED <<search, days, tx>>

-----------------------------------------------------------------------------
(* draw_place                                                              *)

\* find_active_recurring_schedule_rows_by_user_ids
FindActiveRows(members) ==
  UNION {{[user |-> group[g].owner, day |-> row.day, start |-> group[g].start,
           end |-> group[g].end] : row \in days[g]} :
         g \in {h \in Groups : /\ group[h].state = "live" /\ group[h].enabled
                               /\ group[h].owner \in members}}

\* The deadline is 24 hours after the draw.  The members are another query before
\* the rows; who withdraws in between has no rows left.  Bound: one draw.
DrawPlace(r, u, now) ==
  /\ search = NotSearching
  /\ tx[r].pc = "idle" /\ u \notin gone
  /\ Begins(r, "draw", NULL, u)
  /\ StartSearch(now + MinutesPerDay, u, Users \ gone, FindActiveRows(Users \ gone))
  /\ UNCHANGED <<group, days, gone>>

DrawAnswers(r) ==
  /\ At(r, "draw", "checked") /\ search.state = "done"
  /\ search' = Answered
  /\ Ends(r, "ok")
  /\ UNCHANGED <<group, days, gone>>

Fails(r) ==
  /\ tx[r].pc \in {"checked", "scanned", "deleted"} /\ tx[r].op # "draw"
  /\ Ends(r, "failed")
  /\ UNCHANGED <<search, group, days, gone>>

-----------------------------------------------------------------------------
(* Specification                                                           *)

Init ==
  /\ search = NotSearching
  /\ group = [g \in Groups |->
                IF g \in OldGroups
                  THEN [state |-> "live", enabled |-> TRUE, owner |-> OldRows[g].owner,
                        start |-> OldRows[g].start, end |-> OldRows[g].end]
                  ELSE NoGroup]
  /\ days = [g \in Groups |-> IF g \in OldGroups THEN {DayRow(d, NULL) : d \in OldRows[g].days}
                              ELSE {}]
  /\ gone = {}
  /\ tx = [r \in Requests |-> Idle]

\* What a draw does after its reads touches only its locals: it runs to its end
\* without the others.
Next ==
  \/ SearchStep /\ UNCHANGED <<group, days, gone, tx>>
  \/ \E r \in Requests : DrawAnswers(r)
  \/ /\ search \in {NotSearching, Answered}
     /\ \/ \E r \in Requests :
             \/ CreateCommit(r)
             \/ UpdateScan(r) \/ UpdateDelete(r) \/ UpdateCommit(r) \/ UpdateCollides(r)
             \/ ActivateCommit(r) \/ DeleteCommit(r) \/ Fails(r)
             \/ \E u \in Users :
                  \/ \E body \in Bodies : CreateCheck(r, u, body)
                  \/ \E now \in Moments : DrawPlace(r, u, now)
                  \/ \E g \in Groups :
                       \/ \E body \in Patches : UpdateCheck(r, u, g, body)
                       \/ \E active \in BOOLEAN : ActivateCheck(r, u, g, active)
                       \/ DeleteCheck(r, u, g)
                       \/ \E op \in AllOps \ {"create", "draw"} : GroupIsMissing(r, op, u, g)
        \/ \E u \in Users : Withdraw(u)

Spec == Init /\ [][Next]_vars

-----------------------------------------------------------------------------
(* Properties                                                              *)

\* Every variable keeps the type of the rows and locals it models; every stored
\* schedule has a day, whatever replacements race.
TypeOK ==
  /\ \A g \in Groups :
       /\ group[g] = NoGroup \/
            /\ group[g].state \in {"live", "deleted"}
            /\ group[g].enabled \in BOOLEAN
            /\ group[g].owner \in Users
            /\ TimeIsValid(group[g].start) /\ TimeIsValid(group[g].end)
       /\ group[g] = NoGroup <=> days[g] = {}
       /\ \A row \in days[g] : row.day \in DayOfWeek /\ row.by \in Requests \cup {NULL}
  /\ gone \subseteq Users
  /\ \A r \in Requests : tx[r].before \subseteq Finished

Overlap(r, s) == r # s /\ r \notin tx[s].before /\ s \notin tx[r].before

Updaters(g) == {r \in Requests : tx[r].op = "update" /\ tx[r].group = g /\ Succeeded(r)}

\* A schedule ends before it starts, and so keeps nobody from being booked, only
\* after two PATCHes of it that overlapped, each of which had validated the range.
RangesInvertOnlyByOverlap ==
  \A g \in Groups :
    group[g].state # "absent" /\ ~RangeIsValid(group[g].start, group[g].end)
      => \E r, s \in Updaters(g) : Overlap(r, s)

\* The days of a schedule are those of one request: what a PATCH replaces is gone.
\* Only PATCHes that overlap can leave days of both.
DaysAreOfOneRequest ==
  \A g \in Groups : \A a, b \in days[g] :
    /\ a.day = b.day => a = b
    /\ a.by # b.by => {a.by, b.by} \subseteq Requests /\ Overlap(a.by, b.by)

\* A member who has switched a schedule on before a draw, and has not touched it
\* since, is recommended a time within it only when the search has found no slot
\* for all.
BusyTimesAreAvoided ==
  \A r \in Requests, g \in Groups :
    /\ tx[r].op = "draw" /\ search.state = "done"
    /\ \A s \in Requests : tx[s].group = g \/ s = g => s \in tx[r].before \/ tx[s].pc = "idle"
    /\ group[g].state = "live" /\ group[g].enabled /\ group[g].owner \notin gone
    /\ \E row \in days[g] : row.day = Weekday(search.result)
    /\ group[g].start <= MinuteOfDay(search.result) /\ MinuteOfDay(search.result) < group[g].end
    => search.checked >= MaxSlots

=============================================================================
