---------------------- MODULE RecurringSchedulesProofs ----------------------
(***************************************************************************)
(* Proofs about RecurringSchedules, for any number of members, schedules,  *)
(* requests and bodies, and any slots and opening hours.                   *)
(***************************************************************************)
EXTENDS RecurringSchedules, TLAPS

USE NullIsNobody, RequestsAreNew, TimesAreNumbers

-----------------------------------------------------------------------------
(* Type correctness                                                        *)

Times == 0 .. MinutesPerDay - 1

\* A row that is there, deleted or not.
LiveRows == [state : {"live", "deleted"}, enabled : BOOLEAN, owner : Users,
             start : Times, end : Times]

DayRows == [day : DayOfWeek, by : Requests \cup {NULL}]

Drafts == [owner : Users, body : Bodies]

\* TypeOK without the handlers.
DataOK ==
  /\ group \in [Groups -> LiveRows \cup {NoGroup}]
  /\ days \in [Groups -> SUBSET DayRows]
  /\ \A g \in Groups : group[g] = NoGroup <=> days[g] = {}
  /\ gone \subseteq Users

TxRecord == [pc : {"idle", "checked", "scanned", "deleted", "done"},
             op : AllOps \cup {"none"},
             result : {"none", "ok", "refused", "failed"},
             group : Groups \cup {NULL},
             read : LiveRows \cup {NoGroup},
             write : {NULL} \cup BOOLEAN \cup Users \cup Patches \cup Drafts,
             drop : SUBSET DayRows,
             before : SUBSET Requests]

\* A schedule that a request may have found.
IsThere(g) == g \in Groups /\ group[g] \in LiveRows

\* What a handler holds at each point of its program.
TxOK(x) ==
  /\ x \in TxRecord
  /\ x.before \subseteq Finished
  /\ x.pc \in {"scanned", "deleted"} => x.op = "update" /\ "days" \in DOMAIN x.write
  /\ x.op = "create" /\ x.pc = "checked" =>
       /\ x.write \in Drafts
       /\ FieldsAreValid(x.write.body)
       /\ RangeIsValid(x.write.body["start"], x.write.body["end"])
  /\ x.op = "update" /\ x.pc # "done" =>
       /\ IsThere(x.group) /\ x.read \in LiveRows /\ x.write \in Patches
       /\ PatchIsValid(x.write, x.read)
  /\ x.op = "activate" /\ x.pc = "checked" => IsThere(x.group) /\ x.write \in BOOLEAN
  /\ x.op = "delete" /\ x.pc = "checked" => IsThere(x.group)

\* A row is inserted when its request ends.
TypeInv ==
  /\ DataOK
  /\ tx \in [Requests -> TxRecord]
  /\ \A r \in Requests : TxOK(tx[r])
  /\ \A r \in Requests : tx[r].pc # "done" => group[r] = NoGroup
  /\ \A r \in Requests : tx[r].pc = "idle" <=> tx[r].op = "none"

LEMMA RowFacts ==
  ASSUME NEW row \in LiveRows
  PROVE  /\ row # NoGroup /\ row.state # "absent" /\ row.state \in {"live", "deleted"}
         /\ row.enabled \in BOOLEAN /\ row.owner \in Users
         /\ TimeIsValid(row.start) /\ TimeIsValid(row.end)
BY DEF LiveRows, NoGroup, TimeIsValid, Times

LEMMA TypeInvImpliesTypeOK == TypeInv => TypeOK
<1> SUFFICES ASSUME TypeInv PROVE TypeOK
  OBVIOUS
<1>1. ASSUME NEW g \in Groups
      PROVE  /\ group[g] = NoGroup \/
                  /\ group[g].state \in {"live", "deleted"}
                  /\ group[g].enabled \in BOOLEAN
                  /\ group[g].owner \in Users
                  /\ TimeIsValid(group[g].start) /\ TimeIsValid(group[g].end)
             /\ group[g] = NoGroup <=> days[g] = {}
  BY RowFacts DEF TypeInv, DataOK
<1>2. ASSUME NEW g \in Groups, NEW row \in days[g]
      PROVE  row.day \in DayOfWeek /\ row.by \in Requests \cup {NULL}
  <2>1. row \in DayRows
    BY DEF TypeInv, DataOK
  <2> QED BY <2>1 DEF DayRows
<1>3. gone \subseteq Users /\ \A r \in Requests : tx[r].before \subseteq Finished
  BY DEF TypeInv, DataOK, TxOK
<1> QED BY <1>1, <1>2, <1>3 DEF TypeOK

LEMMA RestOK == TxOK(Idle)
BY DEF TxOK, Idle, TxRecord, AllOps

\* One request moves on; schedules stay in the table.
LEMMA TxStep ==
  ASSUME TypeInv, DataOK', NEW r \in Requests, tx[r].pc # "done",
         tx' \in [Requests -> TxRecord], \A q \in Requests : q # r => tx'[q] = tx[q],
         tx'[r].pc # "idle", tx'[r].op # "none", TxOK(tx[r])',
         \A g \in Groups : group[g] \in LiveRows => group'[g] \in LiveRows,
         \A q \in Requests :
           (q # r \/ tx'[r].pc # "done") /\ group[q] = NoGroup => group'[q] = NoGroup
  PROVE  TypeInv'
<1>1. Finished \subseteq Finished'
  BY DEF Finished
<1>2. ASSUME NEW q \in Requests, q # r
      PROVE  TxOK(tx[q])'
  <2>1. TxOK(tx[q]) /\ tx'[q] = tx[q]
    BY <1>2 DEF TypeInv
  <2> QED BY <2>1, <1>1 DEF TxOK, IsThere
<1>3. ASSUME NEW q \in Requests
      PROVE  /\ tx'[q].pc # "done" => group'[q] = NoGroup
             /\ tx'[q].pc = "idle" <=> tx'[q].op = "none"
  <2>1. CASE q = r
    BY <2>1 DEF TypeInv
  <2>2. CASE q # r
    BY <2>2 DEF TypeInv
  <2> QED BY <2>1, <2>2
<1> QED BY <1>2, <1>3 DEF TypeInv

\* A request ends.
LEMMA EndStep ==
  ASSUME TypeInv, DataOK', NEW r \in Requests, tx[r].pc \notin {"idle", "done"},
         NEW result \in {"ok", "refused", "failed"}, Ends(r, result),
         \A g \in Groups : group[g] \in LiveRows => group'[g] \in LiveRows,
         \A q \in Requests : q # r /\ group[q] = NoGroup => group'[q] = NoGroup
  PROVE  TypeInv'
<1> DEFINE rec == [tx[r] EXCEPT !.pc = "done", !.result = result, !.read = NoGroup,
                                !.write = NULL, !.drop = {}]
<1>1. tx[r] \in TxRecord /\ TxOK(tx[r]) /\ tx[r].op # "none"
  BY DEF TypeInv
<1>2. /\ rec \in TxRecord /\ rec.pc = "done" /\ rec.op = tx[r].op
      /\ rec.before = tx[r].before
  BY <1>1 DEF TxRecord
<1>3. /\ tx'[r] = rec /\ tx' \in [Requests -> TxRecord]
      /\ \A q \in Requests : q # r => tx'[q] = tx[q]
  BY <1>2 DEF Ends, TypeInv
<1> HIDE DEF rec
<1>4. Finished \subseteq Finished'
  <2>1. tx[r].pc # "done"
    OBVIOUS
  <2> QED BY <1>3, <2>1 DEF Finished
<1>5. tx'[r] \in TxRecord /\ tx'[r].pc = "done" /\ tx'[r].before \subseteq Finished'
  BY <1>1, <1>2, <1>3, <1>4 DEF TxOK
<1>6. TxOK(tx[r])'
  BY <1>5 DEF TxOK
<1> QED BY <1>1, <1>2, <1>3, <1>5, <1>6, TxStep

\* A request is refused when it begins.
LEMMA RefusedStep ==
  ASSUME TypeInv, NEW r \in Requests, tx[r].pc = "idle", NEW op \in AllOps,
         IsRefused(r, op), UNCHANGED <<search, group, days, gone>>
  PROVE  TypeInv'
<1> DEFINE rec == [Idle EXCEPT !.pc = "done", !.op = op, !.result = "refused",
                               !.before = Finished]
<1>1. /\ rec \in TxRecord /\ rec.pc = "done" /\ rec.op = op /\ rec.before = Finished
  BY DEF TxRecord, Idle, Finished
<1>2. /\ tx'[r] = rec /\ tx' \in [Requests -> TxRecord]
      /\ \A q \in Requests : q # r => tx'[q] = tx[q]
  BY <1>1 DEF IsRefused, TypeInv
<1> HIDE DEF rec
<1>3. Finished \subseteq Finished'
  BY <1>2 DEF Finished
<1>4. tx'[r] \in TxRecord /\ tx'[r].pc = "done" /\ tx'[r].before \subseteq Finished'
  BY <1>1, <1>2, <1>3
<1>5. TxOK(tx[r])'
  BY <1>4 DEF TxOK
<1>6. DataOK'
  BY DEF TypeInv, DataOK
<1>7. op # "none"
  BY DEF AllOps
<1> QED BY <1>1, <1>2, <1>4, <1>5, <1>6, <1>7, TxStep

\* A request begins; what it needs it has found.
LEMMA BeginStep ==
  ASSUME TypeInv, NEW r \in Requests, tx[r].pc = "idle", NEW op \in AllOps,
         NEW g \in Groups \cup {NULL},
         NEW write \in {NULL} \cup BOOLEAN \cup Users \cup Patches \cup Drafts,
         Begins(r, op, g, write), UNCHANGED <<group, days, gone>>,
         op = "create" => /\ write \in Drafts
                          /\ FieldsAreValid(write.body)
                          /\ RangeIsValid(write.body["start"], write.body["end"]),
         op \in {"update", "activate", "delete"} => IsThere(g),
         op = "update" => write \in Patches /\ PatchIsValid(write, group[g]),
         op = "activate" => write \in BOOLEAN
  PROVE  TypeInv'
<1> DEFINE read == IF g \in Groups THEN group[g] ELSE NoGroup
           rec == [Idle EXCEPT !.pc = "checked", !.op = op, !.group = g, !.before = Finished,
                               !.read = read, !.write = write]
<1>1. read \in LiveRows \cup {NoGroup} /\ (g \in Groups => read = group[g])
  BY DEF TypeInv, DataOK
<1> HIDE DEF read
<1>2. Finished \in SUBSET Requests
  BY DEF Finished
<1>3. /\ rec \in TxRecord /\ rec.pc = "checked" /\ rec.op = op /\ rec.before = Finished
      /\ rec.group = g /\ rec.read = read /\ rec.write = write
  BY <1>1, <1>2 DEF TxRecord, Idle
<1>4. /\ tx'[r] = rec /\ tx' \in [Requests -> TxRecord]
      /\ \A q \in Requests : q # r => tx'[q] = tx[q]
  BY <1>3 DEF Begins, TypeInv, read
<1> HIDE DEF rec
<1>5. Finished \subseteq Finished'
  BY <1>4 DEF Finished
<1>6. /\ tx'[r] \in TxRecord /\ tx'[r].pc = "checked" /\ tx'[r].op = op
      /\ tx'[r].before \subseteq Finished' /\ tx'[r].group = g /\ tx'[r].write = write
      /\ g \in Groups => tx'[r].read = group[g]
  BY <1>1, <1>3, <1>4, <1>5
<1>7. TxOK(tx[r])'
  BY <1>6 DEF TxOK, IsThere
<1>8. DataOK'
  BY DEF TypeInv, DataOK
<1>9. op # "none"
  BY DEF AllOps
<1> QED BY <1>4, <1>6, <1>7, <1>8, <1>9, TxStep

LEMMA FoundIsThere ==
  ASSUME TypeInv, NEW u \in Users, NEW g \in Groups, MayChange(u, g)
  PROVE  IsThere(g)
BY DEF MayChange, TypeInv, DataOK, IsThere, NoGroup

LEMMA DayList ==
  ASSUME NEW list \in Seq(DayOfWeek), list # <<>>
  PROVE  /\ \A i \in DOMAIN list : list[i] \in DayOfWeek
         /\ 1 \in DOMAIN list
<1>1. /\ Len(list) \in Nat /\ DOMAIN list = 1 .. Len(list)
      /\ \A i \in DOMAIN list : list[i] \in DayOfWeek
  OBVIOUS
<1>2. Len(list) # 0
  OBVIOUS
<1> QED BY <1>1, <1>2

\* The days of a body that has passed the check: one at least.
LEMMA BodyDays ==
  ASSUME NEW body, body["days"] \in Seq(DayOfWeek), DaysAreValid(body["days"]), NEW r \in Requests
  PROVE  /\ {DayRow(d, r) : d \in DaysOf(body)} \subseteq DayRows
         /\ {DayRow(d, r) : d \in DaysOf(body)} # {}
<1>1. body["days"] # <<>>
  BY DEF DaysAreValid
<1>2. /\ \A i \in DOMAIN body["days"] : body["days"][i] \in DayOfWeek
      /\ 1 \in DOMAIN body["days"]
  BY <1>1, DayList
<1>3. DaysOf(body) \subseteq DayOfWeek /\ body["days"][1] \in DaysOf(body)
  BY <1>2 DEF DaysOf
<1>4. \A d \in DayOfWeek : DayRow(d, r) \in DayRows
  BY DEF DayRow, DayRows
<1>5. DayRow(body["days"][1], r) \in {DayRow(d, r) : d \in DaysOf(body)}
  BY <1>3
<1> QED BY <1>3, <1>4, <1>5

\* One schedule is written, with the days it has then.
LEMMA RowStep ==
  ASSUME TypeInv, NEW g \in Groups, NEW row \in LiveRows, NEW rows \in SUBSET DayRows,
         rows # {}, group' = [group EXCEPT ![g] = row], days' = [days EXCEPT ![g] = rows],
         UNCHANGED gone
  PROVE  /\ DataOK'
         /\ \A h \in Groups : group[h] \in LiveRows => group'[h] \in LiveRows
         /\ \A h \in Groups : h # g => group'[h] = group[h]
<1>1. row # NoGroup
  BY RowFacts
<1> QED BY <1>1 DEF TypeInv, DataOK

LEMMA CreateType ==
  ASSUME TypeInv, NEW r \in Requests,
         \/ CreateCommit(r)
         \/ \E u \in Users, body \in Bodies : CreateCheck(r, u, body)
  PROVE  TypeInv'
<1>1. ASSUME NEW u \in Users, NEW body \in Bodies, CreateCheck(r, u, body)
      PROVE  TypeInv'
  <2>1. CASE FieldsAreValid(body) /\ RangeIsValid(body["start"], body["end"])
    <3> DEFINE write == [owner |-> u, body |-> body]
    <3>1. write \in Drafts /\ write.body = body
      BY DEF Drafts
    <3>2. /\ tx[r].pc = "idle" /\ Begins(r, "create", NULL, write)
          /\ UNCHANGED <<group, days, gone>> /\ "create" \in AllOps
      BY <1>1, <2>1 DEF CreateCheck, AllOps
    <3> HIDE DEF write
    <3>3. /\ write \in {NULL} \cup BOOLEAN \cup Users \cup Patches \cup Drafts
          /\ FieldsAreValid(write.body)
          /\ RangeIsValid(write.body["start"], write.body["end"])
      BY <3>1, <2>1
    <3> QED BY <3>1, <3>2, <3>3, BeginStep
  <2>2. CASE ~(FieldsAreValid(body) /\ RangeIsValid(body["start"], body["end"]))
    BY <1>1, <2>2, RefusedStep DEF CreateCheck, AllOps
  <2> QED BY <2>1, <2>2
<1>2. ASSUME CreateCommit(r)
      PROVE  TypeInv'
  <2> DEFINE write == tx[r].write
             body == write.body
             row == [state |-> "live", enabled |-> TRUE, owner |-> write.owner,
                     start |-> body["start"], end |-> body["end"]]
             rows == {DayRow(d, r) : d \in DaysOf(body)}
  <2>1. /\ tx[r].op = "create" /\ tx[r].pc = "checked" /\ Ends(r, "ok")
        /\ group' = [group EXCEPT ![r] = row] /\ days' = [days EXCEPT ![r] = rows]
        /\ gone' = gone
    BY <1>2 DEF CreateCommit, At
  <2>2. write \in Drafts /\ FieldsAreValid(body)
    BY <2>1 DEF TypeInv, TxOK
  <2>3. /\ write.owner \in Users /\ DOMAIN body = Fields /\ body["days"] \in Seq(DayOfWeek)
    BY <2>2, BodiesAreComplete DEF Drafts
  <2>4. TimeIsValid(body["start"]) /\ TimeIsValid(body["end"]) /\ DaysAreValid(body["days"])
    BY <2>2, <2>3 DEF FieldsAreValid, Fields
  <2>5. row \in LiveRows
    BY <2>3, <2>4 DEF LiveRows, TimeIsValid, Times
  <2>6. rows \in SUBSET DayRows /\ rows # {}
    BY <2>3, <2>4, BodyDays
  <2> HIDE DEF row, rows, body, write
  <2>7. r \in Groups /\ tx[r].pc \notin {"idle", "done"}
    BY <2>1 DEF Groups
  <2>8. /\ DataOK'
        /\ \A h \in Groups : group[h] \in LiveRows => group'[h] \in LiveRows
        /\ \A h \in Groups : h # r => group'[h] = group[h]
    BY <2>1, <2>5, <2>6, <2>7, RowStep
  <2> QED BY <2>1, <2>7, <2>8, EndStep DEF Groups
<1> QED BY <1>1, <1>2

\* What a PATCH writes keeps the times of a row times of a day.
LEMMA WrittenType ==
  ASSUME TypeInv, NEW r \in Requests, tx[r].op = "update", tx[r].pc # "done",
         NEW row \in LiveRows
  PROVE  Written(r, row) \in LiveRows
<1>1. tx[r].write \in Patches /\ FieldsAreValid(tx[r].write)
  BY DEF TypeInv, TxOK, PatchIsValid
<1>2. /\ "start" \in DOMAIN tx[r].write => tx[r].write["start"] \in Times
      /\ "end" \in DOMAIN tx[r].write => tx[r].write["end"] \in Times
  BY <1>1 DEF FieldsAreValid, TimeIsValid, Times
<1>3. ASSUME NEW a \in Times, NEW b \in Times
      PROVE  [row EXCEPT !.start = a, !.end = b] \in LiveRows
  BY DEF LiveRows
<1>4. row.start \in Times /\ row.end \in Times
  BY DEF LiveRows
<1> QED BY <1>2, <1>3, <1>4 DEF Written

LEMMA UpdateCheckType ==
  ASSUME TypeInv, NEW r \in Requests, NEW u \in Users, NEW g \in Groups, NEW body \in Patches,
         UpdateCheck(r, u, g, body)
  PROVE  TypeInv'
<1>1. tx[r].pc = "idle" /\ MayChange(u, g) /\ UNCHANGED <<search, group, days, gone>>
  BY DEF UpdateCheck
<1>2. IsThere(g)
  BY <1>1, FoundIsThere
<1>3. CASE PatchIsValid(body, group[g])
  <2>1. Begins(r, "update", g, body) /\ "update" \in AllOps
    BY <1>3 DEF UpdateCheck, AllOps
  <2> QED BY <1>1, <1>2, <1>3, <2>1, BeginStep
<1>4. CASE ~PatchIsValid(body, group[g])
  <2>1. IsRefused(r, "update") /\ "update" \in AllOps
    BY <1>4 DEF UpdateCheck, AllOps
  <2> QED BY <1>1, <2>1, RefusedStep
<1> QED BY <1>3, <1>4

\* The DELETE of a PATCH: the rows it has found, then those it has deleted.
LEMMA UpdateDropType ==
  ASSUME TypeInv, NEW r \in Requests, UpdateScan(r) \/ UpdateDelete(r)
  PROVE  TypeInv'
<1>1. /\ tx[r].op = "update" /\ tx[r].pc \in {"checked", "scanned"}
      /\ UNCHANGED <<group, days, gone>>
      /\ "days" \in DOMAIN tx[r].write
  BY DEF UpdateScan, UpdateDelete, At, TypeInv, TxOK
<1>2. /\ tx[r] \in TxRecord /\ TxOK(tx[r]) /\ tx[r].group \in Groups
      /\ days[tx[r].group] \subseteq DayRows
  BY <1>1 DEF TypeInv, TxOK, IsThere, DataOK
<1>3. PICK pc \in {"scanned", "deleted"}, drop \in SUBSET DayRows :
        tx' = [tx EXCEPT ![r].pc = pc, ![r].drop = drop]
  <2>1. CASE UpdateScan(r)
    BY <1>2, <2>1 DEF UpdateScan
  <2>2. CASE UpdateDelete(r)
    <3>1. tx' = [tx EXCEPT ![r].pc = "deleted",
                           ![r].drop = tx[r].drop \cap days[tx[r].group]]
      BY <2>2 DEF UpdateDelete, TypeInv
    <3> QED BY <1>2, <3>1
  <2> QED BY <2>1, <2>2
<1> DEFINE rec == [tx[r] EXCEPT !.pc = pc, !.drop = drop]
<1>4. /\ rec \in TxRecord /\ rec.pc = pc /\ rec.op = "update" /\ rec.before = tx[r].before
      /\ rec.group = tx[r].group /\ rec.read = tx[r].read /\ rec.write = tx[r].write
  BY <1>1, <1>2 DEF TxRecord
<1>5. /\ tx'[r] = rec /\ tx' \in [Requests -> TxRecord]
      /\ \A q \in Requests : q # r => tx'[q] = tx[q]
  BY <1>3, <1>4 DEF TypeInv
<1> HIDE DEF rec
<1>6. Finished \subseteq Finished'
  BY <1>1, <1>5 DEF Finished
<1>7. /\ tx'[r].before \subseteq Finished' /\ tx'[r].op = "update"
      /\ tx'[r].pc \in {"scanned", "deleted"} /\ tx'[r].pc # "done"
      /\ "days" \in DOMAIN tx'[r].write
  BY <1>1, <1>2, <1>4, <1>5, <1>6 DEF TxOK
<1>8. /\ IsThere(tx'[r].group) /\ tx'[r].read \in LiveRows /\ tx'[r].write \in Patches
      /\ PatchIsValid(tx'[r].write, tx'[r].read)
  BY <1>1, <1>2, <1>4, <1>5 DEF TxOK
<1>9. tx'[r] \in TxRecord
  BY <1>4, <1>5
<1>10. TxOK(tx[r])'
  BY <1>1, <1>7, <1>8, <1>9 DEF TxOK, IsThere
<1>11. DataOK'
  BY <1>1 DEF TypeInv, DataOK
<1> QED BY <1>1, <1>5, <1>7, <1>10, <1>11, TxStep

LEMMA UpdateCommitType ==
  ASSUME TypeInv, NEW r \in Requests, UpdateCommit(r)
  PROVE  TypeInv'
<1> DEFINE g == tx[r].group
           row == Written(r, group[g])
           replaces == "days" \in DOMAIN tx[r].write
           rows == IF replaces THEN ReplacedDays(r) ELSE days[g]
<1>1. /\ tx[r].op = "update" /\ tx[r].pc \in {"checked", "deleted"} /\ Ends(r, "ok")
      /\ gone' = gone
  BY DEF UpdateCommit
<1>2. /\ g \in Groups /\ group[g] \in LiveRows /\ group[g] # NoGroup
      /\ tx[r].write \in Patches /\ FieldsAreValid(tx[r].write)
  BY <1>1, RowFacts DEF TypeInv, TxOK, IsThere, PatchIsValid
<1>3. row \in LiveRows
  BY <1>1, <1>2, WrittenType
<1>4. days[g] \subseteq DayRows /\ days[g] # {}
  BY <1>2 DEF TypeInv, DataOK
<1>5. rows \subseteq DayRows /\ rows # {}
  <2>1. CASE replaces
    <3>1. /\ {DayRow(d, r) : d \in DaysOf(tx[r].write)} \subseteq DayRows
          /\ {DayRow(d, r) : d \in DaysOf(tx[r].write)} # {}
      BY <1>2, <2>1, PatchesHaveFields, BodyDays DEF FieldsAreValid
    <3> QED BY <1>4, <2>1, <3>1 DEF ReplacedDays
  <2>2. CASE ~replaces
    BY <1>4, <2>2
  <2> QED BY <2>1, <2>2
<1>6. /\ group' = [group EXCEPT ![g] = row]
      /\ days' = [days EXCEPT ![g] = rows]
  <2>1. group' = [group EXCEPT ![g] = row]
    BY <1>2 DEF UpdateCommit, TypeInv, DataOK
  <2>2. CASE replaces
    <3>1. days' = [days EXCEPT ![tx[r].group] = ReplacedDays(r)]
      BY <2>2 DEF UpdateCommit
    <3>2. rows = ReplacedDays(r)
      BY <2>2
    <3> HIDE DEF rows
    <3> QED BY <2>1, <3>1, <3>2
  <2>3. CASE ~replaces
    <3>1. days' = days /\ rows = days[g]
      BY <2>3 DEF UpdateCommit
    <3>2. days = [days EXCEPT ![g] = days[g]]
      BY <1>2 DEF TypeInv, DataOK
    <3> HIDE DEF rows
    <3> QED BY <2>1, <3>1, <3>2
  <2> QED BY <2>1, <2>2, <2>3
<1> HIDE DEF row, rows, replaces, g
<1>7. /\ DataOK'
      /\ \A h \in Groups : group[h] \in LiveRows => group'[h] \in LiveRows
      /\ \A h \in Groups : h # g => group'[h] = group[h]
  BY <1>1, <1>2, <1>3, <1>5, <1>6, RowStep
<1>8. \A q \in Requests : q # r /\ group[q] = NoGroup => group'[q] = NoGroup
  BY <1>2, <1>7 DEF Groups
<1> QED BY <1>1, <1>7, <1>8, EndStep

LEMMA ActivateType ==
  ASSUME TypeInv, NEW r \in Requests,
         \/ ActivateCommit(r)
         \/ \E u \in Users, g \in Groups, active \in BOOLEAN : ActivateCheck(r, u, g, active)
  PROVE  TypeInv'
<1>1. ASSUME NEW u \in Users, NEW g \in Groups, NEW active \in BOOLEAN,
             ActivateCheck(r, u, g, active)
      PROVE  TypeInv'
  <2>1. /\ tx[r].pc = "idle" /\ MayChange(u, g) /\ Begins(r, "activate", g, active)
        /\ UNCHANGED <<group, days, gone>> /\ "activate" \in AllOps
    BY <1>1 DEF ActivateCheck, AllOps
  <2>2. IsThere(g)
    BY <2>1, FoundIsThere
  <2> QED BY <2>1, <2>2, BeginStep
<1>2. ASSUME ActivateCommit(r)
      PROVE  TypeInv'
  <2> DEFINE g == tx[r].group
             row == [group[g] EXCEPT !.enabled = IF tx[r].write # tx[r].read.enabled
                                                   THEN tx[r].write ELSE @]
  <2>1. tx[r].op = "activate" /\ tx[r].pc = "checked" /\ Ends(r, "ok")
    BY <1>2 DEF ActivateCommit, At
  <2>2. g \in Groups /\ group[g] \in LiveRows /\ tx[r].write \in BOOLEAN
    BY <2>1 DEF TypeInv, TxOK, IsThere
  <2>3. row \in LiveRows
    BY <2>2 DEF LiveRows
  <2>4. days[g] \in SUBSET DayRows /\ days[g] # {} /\ days = [days EXCEPT ![g] = days[g]]
    BY <2>2, RowFacts DEF TypeInv, DataOK
  <2>5. /\ group' = [group EXCEPT ![g] = row]
        /\ days' = [days EXCEPT ![g] = days[g]] /\ gone' = gone
    BY <1>2, <2>2, <2>4 DEF ActivateCommit, TypeInv, DataOK
  <2> HIDE DEF row, g
  <2>6. /\ DataOK'
        /\ \A h \in Groups : group[h] \in LiveRows => group'[h] \in LiveRows
        /\ \A h \in Groups : h # g => group'[h] = group[h]
    BY <2>2, <2>3, <2>4, <2>5, RowStep
  <2>7. \A q \in Requests : q # r /\ group[q] = NoGroup => group'[q] = NoGroup
    BY <2>2, <2>6, RowFacts DEF Groups
  <2> QED BY <2>1, <2>6, <2>7, EndStep
<1> QED BY <1>1, <1>2

LEMMA DeleteType ==
  ASSUME TypeInv, NEW r \in Requests,
         \/ DeleteCommit(r)
         \/ \E u \in Users, g \in Groups : DeleteCheck(r, u, g)
  PROVE  TypeInv'
<1>1. ASSUME NEW u \in Users, NEW g \in Groups, DeleteCheck(r, u, g)
      PROVE  TypeInv'
  <2>1. /\ tx[r].pc = "idle" /\ MayChange(u, g) /\ Begins(r, "delete", g, NULL)
        /\ UNCHANGED <<group, days, gone>> /\ "delete" \in AllOps
    BY <1>1 DEF DeleteCheck, AllOps
  <2>2. IsThere(g)
    BY <2>1, FoundIsThere
  <2> QED BY <2>1, <2>2, BeginStep
<1>2. ASSUME DeleteCommit(r)
      PROVE  TypeInv'
  <2> DEFINE g == tx[r].group
             row == [group[g] EXCEPT !.state = "deleted",
                                     !.enabled = IF tx[r].read.enabled THEN FALSE ELSE @]
  <2>1. tx[r].op = "delete" /\ tx[r].pc = "checked" /\ Ends(r, "ok")
    BY <1>2 DEF DeleteCommit, At
  <2>2. g \in Groups /\ group[g] \in LiveRows
    BY <2>1 DEF TypeInv, TxOK, IsThere
  <2>3. row \in LiveRows
    BY <2>2 DEF LiveRows
  <2>4. days[g] \in SUBSET DayRows /\ days[g] # {} /\ days = [days EXCEPT ![g] = days[g]]
    BY <2>2, RowFacts DEF TypeInv, DataOK
  <2>5. group' = [group EXCEPT ![g] = row]
    BY <1>2, <2>2 DEF DeleteCommit, TypeInv, DataOK, LiveRows
  <2>6. days' = [days EXCEPT ![g] = days[g]] /\ gone' = gone
    BY <1>2, <2>4 DEF DeleteCommit
  <2> HIDE DEF row, g
  <2>7. /\ DataOK'
        /\ \A h \in Groups : group[h] \in LiveRows => group'[h] \in LiveRows
        /\ \A h \in Groups : h # g => group'[h] = group[h]
    BY <2>2, <2>3, <2>4, <2>5, <2>6, RowStep
  <2>8. \A q \in Requests : q # r /\ group[q] = NoGroup => group'[q] = NoGroup
    BY <2>2, <2>7, RowFacts DEF Groups
  <2> QED BY <2>1, <2>7, <2>8, EndStep
<1> QED BY <1>1, <1>2

\* A request that ends without having written.
LEMMA NothingWrittenType ==
  ASSUME TypeInv, NEW r \in Requests, UpdateCollides(r) \/ Fails(r) \/ DrawAnswers(r)
  PROVE  TypeInv'
<1>1. PICK result \in {"ok", "failed"} : Ends(r, result)
  BY DEF UpdateCollides, Fails, DrawAnswers
<1>2. tx[r].pc \notin {"idle", "done"} /\ UNCHANGED <<group, days, gone>>
  BY DEF UpdateCollides, Fails, DrawAnswers, At
<1>3. DataOK'
  BY <1>2 DEF TypeInv, DataOK
<1> QED BY <1>1, <1>2, <1>3, EndStep

LEMMA MissingType ==
  ASSUME TypeInv, NEW r \in Requests, NEW op \in AllOps, NEW u \in Users, NEW g \in Groups,
         GroupIsMissing(r, op, u, g)
  PROVE  TypeInv'
BY RefusedStep DEF GroupIsMissing

LEMMA WithdrawType ==
  ASSUME TypeInv, NEW u \in Users, Withdraw(u)
  PROVE  TypeInv'
<1>1. /\ gone' = gone \cup {u} /\ UNCHANGED <<search, days, tx>>
      /\ group' = [g \in Groups |-> IF group[g].state = "live" /\ group[g].owner = u
                                      THEN [group[g] EXCEPT !.state = "deleted", !.enabled = FALSE]
                                      ELSE group[g]]
  BY DEF Withdraw
<1>2. ASSUME NEW g \in Groups
      PROVE  /\ group[g] \in LiveRows => group'[g] \in LiveRows
             /\ group[g] = NoGroup => group'[g] = NoGroup
  <2>1. \A row \in LiveRows : [row EXCEPT !.state = "deleted", !.enabled = FALSE] \in LiveRows
    BY DEF LiveRows
  <2>2. NoGroup.state = "absent"
    BY DEF NoGroup
  <2>3. group'[g] = IF group[g].state = "live" /\ group[g].owner = u
                      THEN [group[g] EXCEPT !.state = "deleted", !.enabled = FALSE]
                      ELSE group[g]
    BY <1>1
  <2> QED BY <2>1, <2>2, <2>3
<1>3. \A g \in Groups : group[g] \in LiveRows \/ group[g] = NoGroup
  BY DEF TypeInv, DataOK
<1>4. group' \in [Groups -> LiveRows \cup {NoGroup}]
  BY <1>1, <1>2, <1>3
<1>5. \A g \in Groups : group'[g] = NoGroup <=> group[g] = NoGroup
  BY <1>2, <1>3, RowFacts
<1>6. DataOK'
  BY <1>1, <1>4, <1>5 DEF TypeInv, DataOK
<1>7. Finished' = Finished
  BY <1>1 DEF Finished
<1>8. ASSUME NEW r \in Requests
      PROVE  TxOK(tx[r])'
  <2>1. TxOK(tx[r]) /\ tx'[r] = tx[r]
    BY <1>1 DEF TypeInv
  <2> QED BY <2>1, <1>2, <1>7 DEF TxOK, IsThere
<1>9. ASSUME NEW r \in Requests
      PROVE  /\ tx'[r].pc # "done" => group'[r] = NoGroup
             /\ tx'[r].pc = "idle" <=> tx'[r].op = "none"
  BY <1>1, <1>2 DEF TypeInv, Groups
<1>10. tx' \in [Requests -> TxRecord]
  BY <1>1 DEF TypeInv
<1> QED BY <1>6, <1>8, <1>9, <1>10 DEF TypeInv

LEMMA DrawType ==
  ASSUME TypeInv, NEW r \in Requests, NEW u \in Users, NEW now \in Moments, DrawPlace(r, u, now)
  PROVE  TypeInv'
<1>1. /\ tx[r].pc = "idle" /\ Begins(r, "draw", NULL, u) /\ UNCHANGED <<group, days, gone>>
      /\ "draw" \in AllOps
  BY DEF DrawPlace, AllOps
<1> QED BY <1>1, BeginStep

LEMMA SearchType ==
  ASSUME TypeInv, UNCHANGED <<group, days, gone, tx>>
  PROVE  TypeInv'
<1>1. Finished' = Finished
  BY DEF Finished
<1>2. ASSUME NEW r \in Requests
      PROVE  TxOK(tx[r])'
  <2>1. TxOK(tx[r])
    BY DEF TypeInv
  <2> QED BY <2>1, <1>1 DEF TxOK, IsThere
<1>3. DataOK'
  BY DEF TypeInv, DataOK
<1> QED BY <1>2, <1>3 DEF TypeInv

LEMMA InitTypeInv == Init => TypeInv
<1> SUFFICES ASSUME Init PROVE TypeInv
  OBVIOUS
<1>1. \A r \in Requests : tx[r] = Idle
  BY DEF Init
<1>2. tx \in [Requests -> TxRecord] /\ \A r \in Requests : TxOK(tx[r])
  BY <1>1, RestOK DEF Init, TxOK
<1>3. ASSUME NEW g \in OldGroups
      PROVE  /\ g \in Groups /\ group[g] \in LiveRows /\ group[g] # NoGroup
             /\ days[g] \subseteq DayRows /\ days[g] # {}
  <2>1. /\ OldRows[g].owner \in Users
        /\ OldRows[g].start \in Times /\ OldRows[g].end \in Times
        /\ OldRows[g].days \subseteq DayOfWeek /\ OldRows[g].days # {}
    BY OldRowsAreValid DEF TimeIsValid, Times
  <2>2. /\ group[g] = [state |-> "live", enabled |-> TRUE, owner |-> OldRows[g].owner,
                       start |-> OldRows[g].start, end |-> OldRows[g].end]
        /\ days[g] = {DayRow(d, NULL) : d \in OldRows[g].days}
    BY DEF Init, Groups
  <2>3. group[g] \in LiveRows
    BY <2>1, <2>2 DEF LiveRows
  <2>4. \A d \in DayOfWeek : DayRow(d, NULL) \in DayRows
    BY DEF DayRow, DayRows
  <2>5. days[g] \subseteq DayRows /\ days[g] # {}
    BY <2>1, <2>2, <2>4
  <2> QED BY <2>3, <2>5, RowFacts DEF Groups
<1>4. \A g \in Groups \ OldGroups : group[g] = NoGroup /\ days[g] = {}
  BY DEF Init
<1>5. DataOK
  BY <1>3, <1>4 DEF DataOK, Init
<1>6. \A r \in Requests : group[r] = NoGroup
  BY <1>4 DEF Groups
<1>7. Idle.pc = "idle" /\ Idle.op = "none"
  BY DEF Idle
<1> QED BY <1>1, <1>2, <1>5, <1>6, <1>7 DEF TypeInv

\* A step of one request, of a withdrawal or of the search.
LEMMA StepOf ==
  ASSUME Next
  PROVE  \/ \E r \in Requests :
              \/ CreateCommit(r) \/ (\E u \in Users, body \in Bodies : CreateCheck(r, u, body))
              \/ UpdateScan(r) \/ UpdateDelete(r) \/ UpdateCommit(r)
              \/ (\E u \in Users, g \in Groups, body \in Patches : UpdateCheck(r, u, g, body))
              \/ ActivateCommit(r)
              \/ (\E u \in Users, g \in Groups, active \in BOOLEAN :
                    ActivateCheck(r, u, g, active))
              \/ DeleteCommit(r) \/ (\E u \in Users, g \in Groups : DeleteCheck(r, u, g))
              \/ UpdateCollides(r) \/ Fails(r) \/ DrawAnswers(r)
              \/ (\E op \in AllOps, u \in Users, g \in Groups : GroupIsMissing(r, op, u, g))
              \/ (\E u \in Users, now \in Moments : DrawPlace(r, u, now))
         \/ \E u \in Users : Withdraw(u)
         \/ SearchStep /\ UNCHANGED <<group, days, gone, tx>>
BY DEF Next

LEMMA TypeInvStep == TypeInv /\ [Next]_vars => TypeInv'
<1> SUFFICES ASSUME TypeInv, [Next]_vars PROVE TypeInv'
  OBVIOUS
<1>1. CASE Next
  BY <1>1, StepOf, CreateType, UpdateDropType, UpdateCommitType, UpdateCheckType, ActivateType,
     DeleteType, NothingWrittenType, MissingType, DrawType, WithdrawType, SearchType
<1>2. CASE UNCHANGED vars
  BY <1>2, SearchType DEF vars
<1> QED BY <1>1, <1>2

\* Rows and handlers keep their types, and a schedule that is stored has a day at
\* least, whatever PATCHes replace the days of one another.
THEOREM TypeCorrect == Spec => []TypeOK
<1>1. Spec => []TypeInv
  BY InitTypeInv, TypeInvStep, PTL DEF Spec
<1> QED BY <1>1, TypeInvImpliesTypeOK, PTL

-----------------------------------------------------------------------------
(* Ranges and days: what a PATCH read may be out of date when it writes,   *)
(* but only by a PATCH that ended after it began                           *)

SameTimes(row, other) == row.start = other.start /\ row.end = other.end

\* What holds of a schedule and its days.
RowOK(g) ==
  /\ group[g] \in LiveRows /\ ~RangeIsValid(group[g].start, group[g].end)
       => \E a, b \in Updaters(g) : Overlap(a, b)
  /\ \A a, b \in days[g] :
       /\ a.day = b.day => a = b
       /\ a.by # b.by => {a.by, b.by} \subseteq Requests /\ Overlap(a.by, b.by)
  /\ \A a \in days[g] : a.by \in Requests => a.by \in Finished

\* What an unfinished PATCH knows of the schedule it has read.
HandlerOK(r) ==
  tx[r].op = "update" /\ tx[r].pc # "done" =>
    /\ \/ SameTimes(group[tx[r].group], tx[r].read)
       \/ \E s \in Updaters(tx[r].group) : s \notin tx[r].before
    /\ tx[r].pc \in {"scanned", "deleted"} =>
         \A a \in days[tx[r].group] \ tx[r].drop : a.by \in Requests /\ a.by \notin tx[r].before

ScheduleInv ==
  /\ \A g \in Groups : RowOK(g)
  /\ \A r \in Requests : HandlerOK(r)

LEMMA InitScheduleInv == Init => ScheduleInv
<1> SUFFICES ASSUME Init PROVE ScheduleInv
  OBVIOUS
<1>1. \A r \in Requests : tx[r].op = "none"
  BY DEF Init, Idle
<1>2. ASSUME NEW g \in OldGroups
      PROVE  RowOK(g)
  <2>1. /\ group[g].start = OldRows[g].start /\ group[g].end = OldRows[g].end
        /\ days[g] = {DayRow(d, NULL) : d \in OldRows[g].days}
    BY DEF Init, Groups
  <2>2. RangeIsValid(OldRows[g].start, OldRows[g].end)
    BY OldRowsAreValid
  <2>3. \A a \in days[g] : a = DayRow(a.day, NULL) /\ a.by = NULL
    BY <2>1 DEF DayRow
  <2>4. NULL \notin Requests
    BY DEF Groups
  <2> QED BY <2>1, <2>2, <2>3, <2>4 DEF RowOK
<1>3. ASSUME NEW g \in Groups, g \notin OldGroups
      PROVE  RowOK(g)
  BY <1>3, RowFacts DEF Init, RowOK
<1> QED BY <1>1, <1>2, <1>3 DEF ScheduleInv, HandlerOK

\* What is done stays: every step leaves finished requests alone.
DoneStay == \A q \in Finished : tx'[q] = tx[q]

LEMMA DoneFacts ==
  ASSUME DoneStay
  PROVE  /\ Finished \subseteq Finished'
         /\ \A g \in Groups : Updaters(g) \subseteq Updaters(g)' /\ Updaters(g) \subseteq Finished
         /\ \A a, b \in Finished : Overlap(a, b) => Overlap(a, b)'
<1>1. Finished \subseteq Finished'
  BY DEF DoneStay, Finished
<1>2. \A g \in Groups : Updaters(g) \subseteq Updaters(g)' /\ Updaters(g) \subseteq Finished
  BY DEF DoneStay, Finished, Updaters, Succeeded
<1>3. \A a, b \in Finished : Overlap(a, b) => Overlap(a, b)'
  BY DEF DoneStay, Overlap
<1> QED BY <1>1, <1>2, <1>3

\* A schedule whose times and days a step leaves alone.
LEMMA RowFrame ==
  ASSUME TypeInv, DoneStay, NEW g \in Groups, RowOK(g), days'[g] = days[g],
         group[g] \in LiveRows => SameTimes(group'[g], group[g]),
         group'[g] \in LiveRows => group[g] \in LiveRows
  PROVE  RowOK(g)'
<1>1. ASSUME group'[g] \in LiveRows, ~RangeIsValid(group'[g].start, group'[g].end)
      PROVE  \E a, b \in Updaters(g)' : Overlap(a, b)'
  <2>1. \E a, b \in Updaters(g) : Overlap(a, b)
    BY <1>1 DEF RowOK, SameTimes
  <2> QED BY <2>1, DoneFacts
<1>2. ASSUME NEW a \in days[g], NEW b \in days[g]
      PROVE  /\ a.day = b.day => a = b
             /\ a.by # b.by => {a.by, b.by} \subseteq Requests /\ Overlap(a.by, b.by)'
  <2>1. a.by # b.by => {a.by, b.by} \subseteq Finished /\ Overlap(a.by, b.by)
    BY DEF RowOK
  <2> QED BY <2>1, DoneFacts DEF RowOK
<1>3. \A a \in days[g] : a.by \in Requests => a.by \in Finished'
  BY DoneFacts DEF RowOK
<1> QED BY <1>1, <1>2, <1>3 DEF RowOK

\* A PATCH that a step leaves alone, with the schedule it has read.
LEMMA HandlerFrame ==
  ASSUME TypeInv, DoneStay, NEW r \in Requests, HandlerOK(r), tx'[r] = tx[r],
         tx[r].op = "update" /\ tx[r].pc # "done" =>
           /\ SameTimes(group'[tx[r].group], group[tx[r].group])
           /\ days'[tx[r].group] = days[tx[r].group]
  PROVE  HandlerOK(r)'
<1> SUFFICES ASSUME tx[r].op = "update", tx[r].pc # "done" PROVE HandlerOK(r)'
  BY DEF HandlerOK
<1>1. tx[r].group \in Groups
  BY DEF TypeInv, TxOK, IsThere
<1>2. \/ SameTimes(group'[tx[r].group], tx[r].read)
      \/ \E s \in Updaters(tx[r].group)' : s \notin tx[r].before
  BY <1>1, DoneFacts DEF HandlerOK, SameTimes
<1> QED BY <1>2 DEF HandlerOK

\* Steps that leave all times and days alone, and but one request.
LEMMA QuietStep ==
  ASSUME TypeInv, ScheduleInv, NEW r \in Requests, tx[r].pc # "done",
         \A q \in Requests : q # r => tx'[q] = tx[q],
         days' = days,
         \A g \in Groups : /\ group[g] \in LiveRows => SameTimes(group'[g], group[g])
                           /\ group'[g] \in LiveRows => group[g] \in LiveRows,
         HandlerOK(r)'
  PROVE  ScheduleInv'
<1>1. DoneStay
  BY DEF DoneStay, Finished
<1>2. \A g \in Groups : RowOK(g)'
  BY <1>1, RowFrame DEF ScheduleInv
<1>3. ASSUME NEW q \in Requests, q # r
      PROVE  HandlerOK(q)'
  <2>1. HandlerOK(q) /\ tx'[q] = tx[q]
    BY <1>3 DEF ScheduleInv
  <2>2. tx[q].op = "update" /\ tx[q].pc # "done" =>
          /\ tx[q].group \in Groups
          /\ group[tx[q].group] \in LiveRows
    BY DEF TypeInv, TxOK, IsThere
  <2> QED BY <1>1, <2>1, <2>2, HandlerFrame
<1> QED BY <1>2, <1>3 DEF ScheduleInv

\* A request that begins: a PATCH knows the times it has just read.
LEMMA BeginKeeps ==
  ASSUME TypeInv, ScheduleInv, NEW r \in Requests, tx[r].pc = "idle",
         UNCHANGED <<group, days>>,
         \/ \E op \in AllOps : IsRefused(r, op)
         \/ \E op \in AllOps, g \in Groups : \E write : Begins(r, op, g, write)
         \/ \E op \in AllOps \ {"update"} : \E write : Begins(r, op, NULL, write)
  PROVE  ScheduleInv'
<1>1. \A q \in Requests : q # r => tx'[q] = tx[q]
  BY DEF IsRefused, Begins, TypeInv
<1>2. ASSUME NEW op \in AllOps, IsRefused(r, op)
      PROVE  HandlerOK(r)'
  <2>1. tx'[r].pc = "done"
    BY <1>2 DEF IsRefused, TypeInv, Idle
  <2> QED BY <2>1 DEF HandlerOK
<1>3. ASSUME NEW op \in AllOps, NEW g \in Groups, NEW write, Begins(r, op, g, write)
      PROVE  HandlerOK(r)'
  <2>1. /\ tx'[r].pc = "checked" /\ tx'[r].group = g /\ tx'[r].read = group[g]
    BY <1>3 DEF Begins, TypeInv, Idle
  <2> QED BY <2>1 DEF HandlerOK, SameTimes
<1>4. ASSUME NEW op \in AllOps \ {"update"}, NEW write, Begins(r, op, NULL, write)
      PROVE  HandlerOK(r)'
  <2>1. tx'[r].op = op
    BY <1>4 DEF Begins, TypeInv, Idle
  <2> QED BY <1>4, <2>1 DEF HandlerOK
<1>5. HandlerOK(r)'
  BY <1>2, <1>3, <1>4
<1>6. \A g \in Groups : /\ group[g] \in LiveRows => SameTimes(group'[g], group[g])
                        /\ group'[g] \in LiveRows => group[g] \in LiveRows
  BY DEF SameTimes
<1> QED BY <1>1, <1>5, <1>6, QuietStep

LEMMA ArrivalKeeps ==
  ASSUME TypeInv, ScheduleInv, NEW r \in Requests, NEW u \in Users,
         \/ \E body \in Bodies : CreateCheck(r, u, body)
         \/ \E now \in Moments : DrawPlace(r, u, now)
         \/ \E g \in Groups, body \in Patches : UpdateCheck(r, u, g, body)
         \/ \E g \in Groups, active \in BOOLEAN : ActivateCheck(r, u, g, active)
         \/ \E g \in Groups : DeleteCheck(r, u, g)
         \/ \E op \in AllOps, g \in Groups : GroupIsMissing(r, op, u, g)
  PROVE  ScheduleInv'
<1>1. /\ "create" \in AllOps \ {"update"} /\ "draw" \in AllOps \ {"update"}
      /\ "update" \in AllOps /\ "activate" \in AllOps /\ "delete" \in AllOps
  BY DEF AllOps
<1>2. tx[r].pc = "idle" /\ UNCHANGED <<group, days>>
  BY DEF CreateCheck, DrawPlace, UpdateCheck, ActivateCheck, DeleteCheck, GroupIsMissing
<1>3. \/ \E op \in AllOps : IsRefused(r, op)
      \/ \E op \in AllOps, g \in Groups : \E write : Begins(r, op, g, write)
      \/ \E op \in AllOps \ {"update"} : \E write : Begins(r, op, NULL, write)
  <2>1. ASSUME NEW body \in Bodies, CreateCheck(r, u, body)
        PROVE  IsRefused(r, "create") \/ \E write : Begins(r, "create", NULL, write)
    BY <2>1 DEF CreateCheck
  <2>2. ASSUME NEW now \in Moments, DrawPlace(r, u, now)
        PROVE  Begins(r, "draw", NULL, u)
    BY <2>2 DEF DrawPlace
  <2>3. ASSUME NEW g \in Groups, NEW body \in Patches, UpdateCheck(r, u, g, body)
        PROVE  IsRefused(r, "update") \/ Begins(r, "update", g, body)
    BY <2>3 DEF UpdateCheck
  <2>4. ASSUME NEW g \in Groups, NEW active \in BOOLEAN, ActivateCheck(r, u, g, active)
        PROVE  Begins(r, "activate", g, active)
    BY <2>4 DEF ActivateCheck
  <2>5. ASSUME NEW g \in Groups, DeleteCheck(r, u, g)
        PROVE  Begins(r, "delete", g, NULL)
    BY <2>5 DEF DeleteCheck
  <2>6. ASSUME NEW op \in AllOps, NEW g \in Groups, GroupIsMissing(r, op, u, g)
        PROVE  IsRefused(r, op)
    BY <2>6 DEF GroupIsMissing
  <2> QED BY <1>1, <2>1, <2>2, <2>3, <2>4, <2>5, <2>6
<1> QED BY <1>2, <1>3, BeginKeeps

LEMMA EndFacts ==
  ASSUME TypeInv, NEW r \in Requests, NEW result, Ends(r, result)
  PROVE  /\ \A q \in Requests : q # r => tx'[q] = tx[q]
         /\ tx'[r].pc = "done" /\ tx'[r].result = result
         /\ tx'[r].op = tx[r].op /\ tx'[r].group = tx[r].group /\ tx'[r].before = tx[r].before
         /\ HandlerOK(r)'
<1>1. tx[r] \in TxRecord
  BY DEF TypeInv
<1>2. /\ \A q \in Requests : q # r => tx'[q] = tx[q]
      /\ tx'[r] = [tx[r] EXCEPT !.pc = "done", !.result = result, !.read = NoGroup,
                                !.write = NULL, !.drop = {}]
  BY DEF Ends, TypeInv
<1>3. /\ tx'[r].pc = "done" /\ tx'[r].result = result
      /\ tx'[r].op = tx[r].op /\ tx'[r].group = tx[r].group /\ tx'[r].before = tx[r].before
  BY <1>1, <1>2 DEF TxRecord
<1> QED BY <1>2, <1>3 DEF HandlerOK

\* A request that ends and has not written times or days.
LEMMA EndKeeps ==
  ASSUME TypeInv, ScheduleInv, NEW r \in Requests,
         \/ UpdateCollides(r) \/ Fails(r) \/ DrawAnswers(r)
         \/ ActivateCommit(r) \/ DeleteCommit(r)
  PROVE  ScheduleInv'
<1>1. PICK result : Ends(r, result)
  BY DEF UpdateCollides, Fails, DrawAnswers, ActivateCommit, DeleteCommit
<1>2. tx[r].pc # "done" /\ days' = days
  BY DEF UpdateCollides, Fails, DrawAnswers, ActivateCommit, DeleteCommit, At
<1>3. ASSUME NEW g \in Groups
      PROVE  /\ group[g] \in LiveRows => SameTimes(group'[g], group[g])
             /\ group'[g] \in LiveRows => group[g] \in LiveRows
  <2>1. CASE ActivateCommit(r) \/ DeleteCommit(r)
    <3>1. tx[r].group \in Groups /\ group[tx[r].group] \in LiveRows
      BY <2>1 DEF ActivateCommit, DeleteCommit, At, TypeInv, TxOK, IsThere
    <3>2. g # tx[r].group => group'[g] = group[g]
      BY <2>1 DEF ActivateCommit, DeleteCommit, TypeInv, DataOK
    <3>3. SameTimes(group'[tx[r].group], group[tx[r].group])
      BY <2>1, <3>1 DEF ActivateCommit, DeleteCommit, TypeInv, DataOK, SameTimes, LiveRows
    <3> QED BY <3>1, <3>2, <3>3 DEF SameTimes
  <2>2. CASE group' = group
    BY <2>2 DEF SameTimes
  <2> QED BY <2>1, <2>2 DEF UpdateCollides, Fails, DrawAnswers
<1> QED BY <1>1, <1>2, <1>3, EndFacts, QuietStep

\* The DELETE of a PATCH takes every row that is there when it looks; what is left
\* in the end has been committed since.
LEMMA DropKeeps ==
  ASSUME TypeInv, ScheduleInv, NEW r \in Requests, UpdateScan(r) \/ UpdateDelete(r)
  PROVE  ScheduleInv'
<1> DEFINE g == tx[r].group
<1>1. /\ tx[r].op = "update" /\ tx[r].pc \in {"checked", "scanned"} /\ tx[r] \in TxRecord
      /\ g \in Groups /\ UNCHANGED <<group, days>>
  BY DEF UpdateScan, UpdateDelete, At, TypeInv, TxOK, IsThere
<1>2. \A q \in Requests : q # r => tx'[q] = tx[q]
  BY DEF UpdateScan, UpdateDelete, TypeInv
<1>3. /\ tx'[r].op = "update" /\ tx'[r].pc \in {"scanned", "deleted"} /\ tx'[r].group = g
      /\ tx'[r].read = tx[r].read /\ tx'[r].before = tx[r].before
      /\ days[g] \ tx'[r].drop = IF UpdateScan(r) THEN {} ELSE days[g] \ tx[r].drop
  <2>1. CASE UpdateScan(r)
    <3>1. tx'[r] = [tx[r] EXCEPT !.pc = "scanned", !.drop = days[g]]
      BY <2>1 DEF UpdateScan, TypeInv
    <3> QED BY <1>1, <2>1, <3>1 DEF TxRecord
  <2>2. CASE UpdateDelete(r) /\ ~UpdateScan(r)
    <3>1. tx'[r] = [tx[r] EXCEPT !.pc = "deleted", !.drop = tx[r].drop \cap days[g]]
      BY <2>2 DEF UpdateDelete, TypeInv
    <3> QED BY <1>1, <2>2, <3>1 DEF TxRecord
  <2> QED BY <2>1, <2>2
<1>4. \A a \in days[g] \ tx'[r].drop : a.by \in Requests /\ a.by \notin tx[r].before
  <2>1. UpdateScan(r) \/ tx[r].pc = "scanned"
    BY DEF UpdateDelete, At
  <2> QED BY <1>1, <1>3, <2>1 DEF ScheduleInv, HandlerOK
<1>5. \/ SameTimes(group[g], tx[r].read)
      \/ \E s \in Updaters(g) : s \notin tx[r].before
  BY <1>1 DEF ScheduleInv, HandlerOK
<1>6. \A h \in Groups : Updaters(h) \subseteq Updaters(h)'
  <2>1. DoneStay
    BY <1>1, <1>2 DEF DoneStay, Finished
  <2> QED BY <2>1, DoneFacts
<1>7. HandlerOK(r)'
  BY <1>1, <1>3, <1>4, <1>5, <1>6 DEF HandlerOK
<1>8. \A h \in Groups : /\ group[h] \in LiveRows => SameTimes(group'[h], group[h])
                        /\ group'[h] \in LiveRows => group[h] \in LiveRows
  BY <1>1 DEF SameTimes
<1> QED BY <1>1, <1>2, <1>7, <1>8, QuietStep

\* Withdrawals and the search leave requests, times and days alone.
LEMMA OthersKeep ==
  ASSUME TypeInv, ScheduleInv, UNCHANGED <<days, tx>>,
         \A g \in Groups : /\ group[g] \in LiveRows => SameTimes(group'[g], group[g])
                           /\ group'[g] \in LiveRows => group[g] \in LiveRows
  PROVE  ScheduleInv'
<1>1. DoneStay
  BY DEF DoneStay
<1>2. \A g \in Groups : RowOK(g)'
  BY <1>1, RowFrame DEF ScheduleInv
<1>3. ASSUME NEW q \in Requests
      PROVE  HandlerOK(q)'
  <2>1. tx[q].op = "update" /\ tx[q].pc # "done" =>
          /\ tx[q].group \in Groups
          /\ group[tx[q].group] \in LiveRows
    BY DEF TypeInv, TxOK, IsThere
  <2> QED BY <1>1, <2>1, HandlerFrame DEF ScheduleInv
<1> QED BY <1>2, <1>3 DEF ScheduleInv

LEMMA WithdrawKeeps ==
  ASSUME TypeInv, ScheduleInv, NEW u \in Users, Withdraw(u)
  PROVE  ScheduleInv'
<1>1. /\ UNCHANGED <<days, tx>>
      /\ \A g \in Groups : group'[g] = IF group[g].state = "live" /\ group[g].owner = u
                             THEN [group[g] EXCEPT !.state = "deleted", !.enabled = FALSE]
                             ELSE group[g]
  BY DEF Withdraw
<1>2. ASSUME NEW g \in Groups
      PROVE  /\ group[g] \in LiveRows => SameTimes(group'[g], group[g])
             /\ group'[g] \in LiveRows => group[g] \in LiveRows
  <2>1. \A row \in LiveRows :
          SameTimes([row EXCEPT !.state = "deleted", !.enabled = FALSE], row)
    BY DEF LiveRows, SameTimes
  <2>2. \A row \in LiveRows : SameTimes(row, row)
    BY DEF SameTimes
  <2>3. group[g] \in LiveRows \/ group[g] = NoGroup
    BY DEF TypeInv, DataOK
  <2>4. NoGroup.state = "absent"
    BY DEF NoGroup
  <2>5. group[g] = NoGroup => group'[g] = NoGroup
    BY <1>1, <2>4
  <2> QED BY <1>1, <2>1, <2>2, <2>3, <2>5, RowFacts
<1> QED BY <1>1, <1>2, OthersKeep

\* Schedules other than the one that a request writes when it ends.
LEMMA CommitFrame ==
  ASSUME TypeInv, ScheduleInv, NEW r \in Requests, tx[r].pc # "done",
         NEW result, Ends(r, result), NEW g \in Groups,
         \A h \in Groups : h # g => group'[h] = group[h] /\ days'[h] = days[h]
  PROVE  /\ DoneStay
         /\ \A h \in Groups : h # g => RowOK(h)'
         /\ \A q \in Requests : q # r /\ tx[q].group # g => HandlerOK(q)'
<1>1. \A q \in Requests : q # r => tx'[q] = tx[q]
  BY EndFacts
<1>2. DoneStay
  BY <1>1 DEF DoneStay, Finished
<1>3. ASSUME NEW h \in Groups, h # g
      PROVE  RowOK(h)'
  <2>1. group'[h] = group[h] /\ days'[h] = days[h] /\ RowOK(h)
    BY <1>3 DEF ScheduleInv
  <2>2. group[h] \in LiveRows => SameTimes(group'[h], group[h])
    BY <2>1 DEF SameTimes
  <2> QED BY <1>2, <2>1, <2>2, RowFrame
<1>4. ASSUME NEW q \in Requests, q # r, tx[q].group # g
      PROVE  HandlerOK(q)'
  <2>1. HandlerOK(q) /\ tx'[q] = tx[q]
    BY <1>1, <1>4 DEF ScheduleInv
  <2>2. tx[q].op = "update" /\ tx[q].pc # "done" => tx[q].group \in Groups
    BY DEF TypeInv, TxOK, IsThere
  <2>3. tx[q].op = "update" /\ tx[q].pc # "done" =>
          /\ SameTimes(group'[tx[q].group], group[tx[q].group])
          /\ days'[tx[q].group] = days[tx[q].group]
    BY <1>4, <2>2 DEF SameTimes
  <2> QED BY <1>2, <2>1, <2>3, HandlerFrame
<1> QED BY <1>2, <1>3, <1>4

LEMMA CreateKeeps ==
  ASSUME TypeInv, ScheduleInv, NEW r \in Requests, CreateCommit(r)
  PROVE  ScheduleInv'
<1> DEFINE body == tx[r].write.body
           rows == {DayRow(d, r) : d \in DaysOf(body)}
<1>1. /\ tx[r].op = "create" /\ tx[r].pc = "checked" /\ Ends(r, "ok")
      /\ group' = [group EXCEPT ![r] =
                     [state |-> "live", enabled |-> TRUE, owner |-> tx[r].write.owner,
                      start |-> body["start"], end |-> body["end"]]]
      /\ days' = [days EXCEPT ![r] = rows]
  BY DEF CreateCommit, At
<1>2. r \in Groups /\ group[r] = NoGroup
  BY <1>1 DEF Groups, TypeInv
<1>3. RangeIsValid(body["start"], body["end"])
  BY <1>1 DEF TypeInv, TxOK
<1>4. /\ \A h \in Groups : h # r => group'[h] = group[h] /\ days'[h] = days[h]
      /\ group'[r].start = body["start"] /\ group'[r].end = body["end"]
      /\ days'[r] = rows
  BY <1>1, <1>2 DEF TypeInv, DataOK
<1>5. \A a \in rows : a = DayRow(a.day, r) /\ a.by = r
  BY DEF DayRow
<1> HIDE DEF body, rows
<1>6. r \in Finished'
  BY <1>1, EndFacts DEF Finished
<1>7. /\ RangeIsValid(group'[r].start, group'[r].end)
      /\ \A a, b \in days'[r] : (a.day = b.day => a = b) /\ a.by = b.by
      /\ \A a \in days'[r] : a.by \in Finished'
  BY <1>3, <1>4, <1>5, <1>6
<1>8. RowOK(r)'
  BY <1>7 DEF RowOK
<1>9. /\ \A h \in Groups : h # r => RowOK(h)'
      /\ \A q \in Requests : q # r /\ tx[q].group # r => HandlerOK(q)'
  BY <1>1, <1>2, <1>4, CommitFrame
<1>10. ASSUME NEW q \in Requests, q # r, tx[q].group = r
       PROVE  HandlerOK(q)'
  <2>1. tx'[q] = tx[q]
    BY <1>1, <1>10, EndFacts
  <2>2. ~(tx[q].op = "update" /\ tx[q].pc # "done")
    BY <1>2, <1>10, RowFacts DEF TypeInv, TxOK, IsThere
  <2> QED BY <2>1, <2>2 DEF HandlerOK
<1> QED BY <1>1, <1>8, <1>9, <1>10, EndFacts DEF ScheduleInv

\* What a PATCH writes is valid when the times are still those it has read.
LEMMA WrittenTimes ==
  ASSUME TypeInv, NEW r \in Requests, tx[r].op = "update", tx[r].pc # "done",
         NEW row \in LiveRows, SameTimes(row, tx[r].read)
  PROVE  RangeIsValid(Written(r, row).start, Written(r, row).end)
<1>1. /\ RangeIsValid(FieldOrRead(tx[r].write, tx[r].read, "start"),
                      FieldOrRead(tx[r].write, tx[r].read, "end"))
  BY DEF TypeInv, TxOK, PatchIsValid
<1>2. /\ Written(r, row).start = FieldOrRead(tx[r].write, tx[r].read, "start")
      /\ Written(r, row).end = FieldOrRead(tx[r].write, tx[r].read, "end")
  BY DEF Written, FieldOrRead, SameTimes, LiveRows
<1> QED BY <1>1, <1>2

LEMMA UpdateKeeps ==
  ASSUME TypeInv, ScheduleInv, NEW r \in Requests, UpdateCommit(r)
  PROVE  ScheduleInv'
<1>1. PICK g \in Groups : g = tx[r].group
  BY DEF UpdateCommit, TypeInv, TxOK, IsThere
<1>2. /\ tx[r].op = "update" /\ tx[r].pc \in {"checked", "deleted"} /\ Ends(r, "ok")
      /\ group' = [group EXCEPT ![g] = Written(r, group[g])]
      /\ group[g] \in LiveRows
  BY <1>1 DEF UpdateCommit, TypeInv, TxOK, IsThere, DataOK
<1>3. /\ \A h \in Groups : h # g => group'[h] = group[h] /\ days'[h] = days[h]
      /\ group'[g] = Written(r, group[g])
  BY <1>1, <1>2 DEF UpdateCommit, TypeInv, DataOK
<1>4. DoneStay
  BY <1>2, <1>3, CommitFrame
<1>5. /\ r \in Updaters(g)' /\ r \in Finished' /\ r \notin Finished
      /\ tx'[r].before = tx[r].before
  BY <1>1, <1>2, EndFacts DEF Updaters, Succeeded, Finished
<1>6. \A q \in Requests : r \notin tx[q].before
  BY <1>5 DEF TypeInv, TxOK
<1>7. \A s \in Finished : s \notin tx[r].before => Overlap(s, r)' /\ Overlap(r, s)'
  <2> SUFFICES ASSUME NEW s \in Finished, s \notin tx[r].before
               PROVE  Overlap(s, r)' /\ Overlap(r, s)'
    OBVIOUS
  <2>1. tx'[s] = tx[s] /\ s # r /\ s \in Requests
    BY <1>4, <1>5 DEF DoneStay, Finished
  <2> QED BY <1>5, <1>6, <2>1 DEF Overlap
<1>8. \/ RangeIsValid(group'[g].start, group'[g].end)
      \/ \E a, b \in Updaters(g)' : Overlap(a, b)'
  <2>1. CASE SameTimes(group[g], tx[r].read)
    BY <1>2, <1>3, <2>1, WrittenTimes
  <2>2. ASSUME NEW s \in Updaters(g), s \notin tx[r].before
        PROVE  \E a, b \in Updaters(g)' : Overlap(a, b)'
    <3>1. s \in Finished /\ s \in Updaters(g)'
      BY <1>4, DoneFacts
    <3> QED BY <1>5, <1>7, <2>2, <3>1
  <2> QED BY <1>1, <1>2, <2>1, <2>2 DEF ScheduleInv, HandlerOK
<1>9. /\ \A a \in days'[g] : a.by \in Requests => a.by \in Finished'
      /\ \A a, b \in days'[g] :
           /\ a.day = b.day => a = b
           /\ a.by # b.by => {a.by, b.by} \subseteq Requests /\ Overlap(a.by, b.by)'
      /\ \A a \in days'[g] : a \in days[g] \/ a.by = r
  <2>1. CASE "days" \in DOMAIN tx[r].write
    <3>1. /\ tx[r].pc = "deleted" /\ DaysAreUnique(ReplacedDays(r))
          /\ days'[g] = ReplacedDays(r)
      BY <1>1, <2>1 DEF UpdateCommit, ReadyToCommit, At, TypeInv, DataOK
    <3>2. \A a \in days'[g] : a \in days[g] \ tx[r].drop \/ a.by = r
      BY <1>1, <3>1 DEF ReplacedDays, DayRow
    <3>3. \A a \in days[g] \ tx[r].drop : a.by \in Finished /\ a.by \notin tx[r].before
      BY <1>1, <1>2, <3>1 DEF ScheduleInv, HandlerOK, RowOK
    <3>4. \A a \in days'[g] : a.by \in Finished'
      BY <1>4, <1>5, <3>2, <3>3, DoneFacts
    <3>5. ASSUME NEW a \in days'[g], NEW b \in days'[g], a.by # b.by
          PROVE  {a.by, b.by} \subseteq Requests /\ Overlap(a.by, b.by)'
      <4>1. CASE a \in days[g] \ tx[r].drop /\ b \in days[g] \ tx[r].drop
        <5>1. Overlap(a.by, b.by) /\ {a.by, b.by} \subseteq Finished
          BY <3>3, <3>5, <4>1 DEF ScheduleInv, RowOK
        <5> QED BY <1>4, <5>1, DoneFacts DEF Finished
      <4>2. CASE a.by = r /\ b \in days[g] \ tx[r].drop
        BY <1>7, <3>3, <4>2 DEF Finished
      <4>3. CASE a \in days[g] \ tx[r].drop /\ b.by = r
        BY <1>7, <3>3, <4>3 DEF Finished
      <4> QED BY <3>2, <3>5, <4>1, <4>2, <4>3
    <3>6. \A a, b \in days'[g] : a.day = b.day => a = b
      BY <3>1 DEF DaysAreUnique
    <3> QED BY <3>2, <3>4, <3>5, <3>6
  <2>2. CASE "days" \notin DOMAIN tx[r].write
    <3>1. days' = days
      BY <2>2 DEF UpdateCommit
    <3>2. /\ \A a \in days[g] : a.by \in Requests => a.by \in Finished
          /\ \A a, b \in days[g] :
               /\ a.day = b.day => a = b
               /\ a.by # b.by => {a.by, b.by} \subseteq Requests /\ Overlap(a.by, b.by)
      BY DEF ScheduleInv, RowOK
    <3> QED BY <1>4, <3>1, <3>2, DoneFacts
  <2> QED BY <2>1, <2>2
<1>10. RowOK(g)'
  BY <1>8, <1>9 DEF RowOK
<1>11. ASSUME NEW q \in Requests, q # r, tx[q].group = g
       PROVE  HandlerOK(q)'
  <2>1. tx'[q] = tx[q] /\ HandlerOK(q)
    BY <1>2, <1>11, EndFacts DEF ScheduleInv
  <2>2. \E s \in Updaters(g)' : s \notin tx[q].before
    BY <1>5, <1>6
  <2>3. tx[q].op = "update" /\ tx[q].pc \in {"scanned", "deleted"} =>
          \A a \in days'[g] \ tx[q].drop : a.by \in Requests /\ a.by \notin tx[q].before
    <3> SUFFICES ASSUME tx[q].op = "update", tx[q].pc \in {"scanned", "deleted"},
                        NEW a \in days'[g] \ tx[q].drop
                 PROVE  a.by \in Requests /\ a.by \notin tx[q].before
      OBVIOUS
    <3>1. CASE a \in days[g]
      BY <1>11, <2>1, <3>1 DEF HandlerOK
    <3>2. CASE a.by = r
      BY <1>6, <3>2
    <3> QED BY <1>9, <3>1, <3>2
  <2> QED BY <1>11, <2>1, <2>2, <2>3 DEF HandlerOK
<1>12. /\ \A h \in Groups : h # g => RowOK(h)'
       /\ \A q \in Requests : q # r /\ tx[q].group # g => HandlerOK(q)'
  BY <1>2, <1>3, CommitFrame
<1> QED BY <1>2, <1>10, <1>11, <1>12, EndFacts DEF ScheduleInv

LEMMA ScheduleInvStep == TypeInv /\ ScheduleInv /\ [Next]_vars => ScheduleInv'
<1> SUFFICES ASSUME TypeInv, ScheduleInv, [Next]_vars PROVE ScheduleInv'
  OBVIOUS
<1>1. ASSUME UNCHANGED <<group, days, tx>>
      PROVE  ScheduleInv'
  BY <1>1, OthersKeep DEF SameTimes
<1>2. CASE Next
  BY <1>1, <1>2, StepOf, ArrivalKeeps, EndKeeps, DropKeeps, CreateKeeps, UpdateKeeps,
     WithdrawKeeps
<1>3. CASE UNCHANGED vars
  BY <1>1, <1>3 DEF vars
<1> QED BY <1>2, <1>3

LEMMA ScheduleInvAlways == Spec => [](TypeInv /\ ScheduleInv)
BY InitTypeInv, TypeInvStep, InitScheduleInv, ScheduleInvStep, PTL DEF Spec

\* Two PATCHes that overlapped wrote a range that ends before it starts; one alone
\* never does, whoever deletes, switches or withdraws meanwhile.
THEOREM InvertedOnlyByOverlap == Spec => []RangesInvertOnlyByOverlap
<1>1. TypeInv /\ ScheduleInv => RangesInvertOnlyByOverlap
  <2> SUFFICES ASSUME TypeInv, ScheduleInv, NEW g \in Groups, group[g].state # "absent",
                      ~RangeIsValid(group[g].start, group[g].end)
               PROVE  \E r, s \in Updaters(g) : Overlap(r, s)
    BY DEF RangesInvertOnlyByOverlap
  <2>1. group[g] \in LiveRows
    BY DEF TypeInv, DataOK, NoGroup
  <2> QED BY <2>1 DEF ScheduleInv, RowOK
<1> QED BY <1>1, ScheduleInvAlways, PTL

\* A PATCH replaces the days of a schedule: those of two requests are left only when
\* the two overlapped, and never one day twice.
THEOREM DaysAreReplaced == Spec => []DaysAreOfOneRequest
<1>1. ScheduleInv => DaysAreOfOneRequest
  BY DEF ScheduleInv, RowOK, DaysAreOfOneRequest
<1> QED BY <1>1, ScheduleInvAlways, PTL

-----------------------------------------------------------------------------
(* What a draw has read                                                    *)

\* While a search runs nothing else moves: its rows are those of the table.  A
\* result found before the slots have run out is free for all members.
SearchInv ==
  search.state \in {"running", "done"} =>
    /\ {"state", "members", "rows", "checked", "result"} \subseteq DOMAIN search
    /\ search.members = Users \ gone /\ search.rows = FindActiveRows(Users \ gone)
    /\ search.state = "done" => search.checked >= MaxSlots \/ GroupIsFree(search, search.result)

LEMMA SearchKeeps ==
  ASSUME SearchInv, SearchStep, UNCHANGED <<group, days, gone, tx>>
  PROVE  SearchInv'
<1>1. /\ search.state = "running"
      /\ {"state", "members", "rows", "checked", "result"} \subseteq DOMAIN search
      /\ search.members = Users \ gone /\ search.rows = FindActiveRows(Users \ gone)
  BY DEF SearchStep, SearchFinds, SearchGoesOn, SearchGivesUp, SearchInv
<1>2. FindActiveRows(Users \ gone)' = FindActiveRows(Users \ gone)
  BY DEF FindActiveRows
<1>3. /\ DOMAIN search' = DOMAIN search
      /\ search'.members = search.members /\ search'.rows = search.rows
  BY <1>1 DEF SearchStep, SearchFinds, SearchGoesOn, SearchGivesUp, Recommends
<1>4. search'.state = "done" =>
        search'.checked >= MaxSlots \/ GroupIsFree(search', search'.result)
  <2>1. ASSUME SearchFinds
        PROVE  GroupIsFree(search', search'.result)
    <3>1. PICK t : GroupIsFree(search, t) /\ Recommends(t)
      BY <2>1 DEF SearchFinds
    <3>2. search'.result = t
      BY <1>1, <3>1 DEF Recommends
    <3> QED BY <1>3, <3>1, <3>2 DEF GroupIsFree
  <2>2. ASSUME SearchGoesOn
        PROVE  search'.state = "running"
    BY <1>1, <2>2 DEF SearchGoesOn
  <2>3. ASSUME SearchGivesUp
        PROVE  search'.checked >= MaxSlots
    BY <1>1, <2>3 DEF SearchGivesUp, Recommends
  <2> QED BY <2>1, <2>2, <2>3 DEF SearchStep
<1> QED BY <1>1, <1>2, <1>3, <1>4 DEF SearchInv, GroupIsFree

\* Only a draw begins a search; only its own steps and the answer change it.
LEMMA SearchMoves ==
  ASSUME [Next]_vars
  PROVE  \/ SearchStep /\ UNCHANGED <<group, days, gone, tx>>
         \/ search' \in {NotSearching, Answered}
         \/ \E r \in Requests, u \in Users, now \in Moments : DrawPlace(r, u, now)
         \/ search' = search /\ (search \in {NotSearching, Answered} \/ UNCHANGED vars)
<1>1. ASSUME NEW r \in Requests, NEW u \in Users,
             \/ (\E body \in Bodies : CreateCheck(r, u, body))
             \/ \E g \in Groups :
                  \/ (\E body \in Patches : UpdateCheck(r, u, g, body))
                  \/ (\E active \in BOOLEAN : ActivateCheck(r, u, g, active))
                  \/ DeleteCheck(r, u, g)
                  \/ (\E op \in AllOps : GroupIsMissing(r, op, u, g))
      PROVE  search' = search
  BY <1>1 DEF CreateCheck, UpdateCheck, ActivateCheck, DeleteCheck, GroupIsMissing
<1>2. ASSUME NEW r \in Requests,
             \/ CreateCommit(r)
             \/ UpdateScan(r) \/ UpdateDelete(r) \/ UpdateCommit(r) \/ UpdateCollides(r)
             \/ ActivateCommit(r) \/ DeleteCommit(r) \/ Fails(r)
      PROVE  search' = search
  BY <1>2 DEF CreateCommit, UpdateScan, UpdateDelete, UpdateCommit, UpdateCollides,
              ActivateCommit, DeleteCommit, Fails
<1>3. ASSUME NEW u \in Users, Withdraw(u)
      PROVE  search' = search
  BY <1>3 DEF Withdraw
<1>4. ASSUME NEW r \in Requests, DrawAnswers(r)
      PROVE  search' = Answered
  BY <1>4 DEF DrawAnswers
<1>5. CASE UNCHANGED vars
  BY <1>5 DEF vars
<1>6. CASE Next /\ search \in {NotSearching, Answered} /\ search' # search
  BY <1>1, <1>2, <1>3, <1>4, <1>6 DEF Next
<1>7. CASE Next /\ search \notin {NotSearching, Answered}
  BY <1>4, <1>7 DEF Next
<1> QED BY <1>5, <1>6, <1>7

LEMMA SearchInvStep == SearchInv /\ [Next]_vars => SearchInv'
<1> SUFFICES ASSUME SearchInv, [Next]_vars PROVE SearchInv'
  OBVIOUS
<1>1. CASE SearchStep /\ UNCHANGED <<group, days, gone, tx>>
  BY <1>1, SearchKeeps
<1>2. CASE search' \in {NotSearching, Answered}
  BY <1>2 DEF SearchInv, NotSearching, Answered
<1>3. ASSUME NEW r \in Requests, NEW u \in Users, NEW now \in Moments, DrawPlace(r, u, now)
      PROVE  SearchInv'
  <2>1. /\ DOMAIN search' = {"state", "deadline", "creator", "members", "rows", "candidate",
                             "checked", "fallback", "result"}
        /\ search'.state = "running" /\ search'.members = Users \ gone
        /\ search'.rows = FindActiveRows(Users \ gone)
    BY <1>3 DEF DrawPlace, StartSearch
  <2>2. gone' = gone /\ FindActiveRows(Users \ gone)' = FindActiveRows(Users \ gone)
    BY <1>3 DEF DrawPlace, FindActiveRows
  <2> QED BY <2>1, <2>2 DEF SearchInv
<1>4. CASE search' = search /\ search \in {NotSearching, Answered}
  BY <1>4 DEF SearchInv, NotSearching, Answered
<1>5. CASE UNCHANGED vars
  BY <1>5 DEF vars, SearchInv, FindActiveRows, GroupIsFree
<1> QED BY <1>1, <1>2, <1>3, <1>4, <1>5, SearchMoves

\* Switched on and not touched since, a schedule keeps its times out of what a draw
\* recommends, unless the search has gone through all its slots.
THEOREM DrawsAvoidBusyTimes == Spec => []BusyTimesAreAvoided
<1>1. TypeInv /\ SearchInv => BusyTimesAreAvoided
  <2> SUFFICES ASSUME TypeInv, SearchInv, NEW g \in Groups, search.state = "done",
                      group[g].state = "live", group[g].enabled, group[g].owner \notin gone,
                      NEW row \in days[g], row.day = Weekday(search.result),
                      group[g].start <= MinuteOfDay(search.result),
                      MinuteOfDay(search.result) < group[g].end
               PROVE  search.checked >= MaxSlots
    BY DEF BusyTimesAreAvoided
  <2> DEFINE u == group[g].owner
             read == [user |-> u, day |-> row.day, start |-> group[g].start, end |-> group[g].end]
  <2>1. u \in Users \ gone
    BY DEF TypeInv, DataOK, LiveRows, NoGroup
  <2>2. read \in FindActiveRows(Users \ gone)
    BY <2>1 DEF FindActiveRows
  <2>3. read \in search.rows /\ u \in search.members
    BY <2>1, <2>2 DEF SearchInv
  <2>4. read.user = u /\ read.day = row.day /\ read.start = group[g].start
        /\ read.end = group[g].end
    OBVIOUS
  <2> HIDE DEF read, u
  <2>5. HasRecurringScheduleConflict(search.rows, u, search.result)
    BY <2>3, <2>4 DEF HasRecurringScheduleConflict, RangesOf
  <2> QED BY <2>3, <2>5 DEF SearchInv, GroupIsFree
<1>2. Init => SearchInv
  BY DEF Init, SearchInv, NotSearching
<1>3. Spec => [](TypeInv /\ SearchInv)
  BY <1>2, InitTypeInv, TypeInvStep, SearchInvStep, PTL DEF Spec
<1> QED BY <1>1, <1>3, PTL

-----------------------------------------------------------------------------
(* The slots of the recommended time                                       *)

\* Whole numbers that are divided have a quotient and a rest.
LEMMA Division ==
  ASSUME NEW x \in Int, NEW n \in Nat \ {0}
  PROVE  /\ x \div n \in Int /\ x % n \in 0 .. n - 1
         /\ x = (x \div n) * n + (x % n)
OBVIOUS

\* A multiple is divided without a rest.
LEMMA Quotient ==
  ASSUME NEW k \in Int, NEW n \in Nat \ {0}
  PROVE  k * n \in Int /\ (k * n) \div n = k
<1> DEFINE x == k * n
           q == x \div n
<1>1. x \in Int
  OBVIOUS
<1> HIDE DEF x
<1>2. q \in Int /\ x = q * n + (x % n) /\ x % n \in 0 .. n - 1
  BY <1>1, Division
<1> HIDE DEF q
<1>3. ~(q >= k + 1)
  <2> SUFFICES ASSUME q >= k + 1 PROVE FALSE
    OBVIOUS
  <2>1. q * n >= (k + 1) * n /\ (k + 1) * n = k * n + n
    BY <1>2
  <2> QED BY <1>2, <2>1 DEF x
<1>4. ~(q <= k - 1)
  <2> SUFFICES ASSUME q <= k - 1 PROVE FALSE
    OBVIOUS
  <2>1. q * n <= (k - 1) * n /\ (k - 1) * n = k * n - n
    BY <1>2
  <2> QED BY <1>2, <2>1 DEF x
<1>5. q = k
  BY <1>2, <1>3, <1>4
<1> QED BY <1>1, <1>5 DEF x, q

\* A slot is on the grid and in business hours.
OnGrid(t) == \E k \in Int : t = k * SlotMinutes

IsOpen(t) == BusinessStart <= MinuteOfDay(t) /\ MinuteOfDay(t) < BusinessEnd

IsSlot(t) == t \in Int /\ OnGrid(t) /\ IsOpen(t)

\* Days and the opening are on the grid of the slots.
LEMMA GridFacts ==
  /\ SlotMinutes \in Nat /\ SlotMinutes > 0
  /\ OnGrid(MinutesPerDay) /\ OnGrid(BusinessStart)
<1>1. SlotMinutes \in Nat \ {0} /\ MinutesPerDay \in Int /\ BusinessStart \in Int
  BY DEF MinutesPerDay
<1>2. MinutesPerDay = (MinutesPerDay \div SlotMinutes) * SlotMinutes
  BY <1>1, Division, SlotsFitTheDay
<1>3. BusinessStart = (BusinessStart \div SlotMinutes) * SlotMinutes
  BY <1>1, Division, SlotsFitTheDay
<1>4. MinutesPerDay \div SlotMinutes \in Int /\ BusinessStart \div SlotMinutes \in Int
  BY <1>1, Division
<1> QED BY <1>1, <1>2, <1>3, <1>4 DEF OnGrid

\* Sums and multiples of times on the grid are on the grid.
LEMMA GridSums ==
  ASSUME NEW s, NEW t, OnGrid(s), OnGrid(t), NEW d \in Int
  PROVE  s + t \in Int /\ OnGrid(s + t) /\ OnGrid(d * t)
<1>1. PICK k \in Int : s = k * SlotMinutes
  BY DEF OnGrid
<1>2. PICK l \in Int : t = l * SlotMinutes
  BY DEF OnGrid
<1>3. k + l \in Int /\ s + t = (k + l) * SlotMinutes
  BY <1>1, <1>2, GridFacts
<1>4. d * l \in Int /\ d * t = (d * l) * SlotMinutes
  BY <1>2, GridFacts
<1>5. s + t \in Int
  BY <1>1, <1>2, GridFacts
<1> QED BY <1>3, <1>4, <1>5 DEF OnGrid

\* Between a time on the grid and the next slot there is none.
LEMMA GridGap ==
  ASSUME NEW s, NEW t, OnGrid(s), OnGrid(t), s < t + SlotMinutes
  PROVE  s <= t
<1>1. PICK k \in Int : s = k * SlotMinutes
  BY DEF OnGrid
<1>2. PICK l \in Int : t = l * SlotMinutes
  BY DEF OnGrid
<1>3. CASE k >= l + 1
  <2>1. k * SlotMinutes >= (l + 1) * SlotMinutes /\ (l + 1) * SlotMinutes = l * SlotMinutes + SlotMinutes
    BY <1>3, GridFacts
  <2> QED BY <1>1, <1>2, <2>1, GridFacts
<1>4. CASE k <= l
  BY <1>1, <1>2, <1>4, GridFacts
<1> QED BY <1>3, <1>4

\* Every time is a day and a minute of that day, which tell its weekday.
LEMMA Clock ==
  ASSUME NEW d \in Int, NEW m \in 0 .. MinutesPerDay - 1
  PROVE  /\ d * MinutesPerDay + m \in Int
         /\ MinuteOfDay(d * MinutesPerDay + m) = m /\ Weekday(d * MinutesPerDay + m) = d % 7
<1>1. MinutesPerDay = 1440
  BY DEF MinutesPerDay
<1>2. /\ d * 1440 + m \in Int /\ (d * 1440 + m) % 1440 = m
      /\ (d * 1440 + m) \div 1440 = d
  BY <1>1
<1> QED BY <1>1, <1>2 DEF MinuteOfDay, Weekday

LEMMA ClockOf ==
  ASSUME NEW t \in Int
  PROVE  \E d \in Int : \E m \in 0 .. MinutesPerDay - 1 : t = d * MinutesPerDay + m
<1>1. t \div MinutesPerDay \in Int /\ t % MinutesPerDay \in 0 .. MinutesPerDay - 1
      /\ t = (t \div MinutesPerDay) * MinutesPerDay + (t % MinutesPerDay)
  BY Division DEF MinutesPerDay
<1> QED BY <1>1

\* A week before, the clock and the weekday are the same.
LEMMA WeekBefore ==
  ASSUME NEW t \in Int
  PROVE  /\ t - MinutesPerWeek \in Int
         /\ MinuteOfDay(t - MinutesPerWeek) = MinuteOfDay(t)
         /\ Weekday(t - MinutesPerWeek) = Weekday(t)
         /\ OnGrid(t) => OnGrid(t - MinutesPerWeek)
<1>1. PICK d \in Int, m \in 0 .. MinutesPerDay - 1 : t = d * MinutesPerDay + m
  BY ClockOf
<1>2. MinutesPerDay \in Int /\ MinutesPerWeek = 7 * MinutesPerDay
  BY DEF MinutesPerDay, MinutesPerWeek
<1>3. t - MinutesPerWeek = (d - 7) * MinutesPerDay + m /\ d - 7 \in Int
  BY <1>1, <1>2
<1>4. (d - 7) % 7 = d % 7
  OBVIOUS
<1>5. OnGrid(t) => OnGrid(t + (-7) * MinutesPerDay)
  BY GridFacts, GridSums
<1>6. t + (-7) * MinutesPerDay = t - MinutesPerWeek
  BY <1>2
<1>7. /\ MinuteOfDay(t) = m /\ Weekday(t) = d % 7
      /\ MinuteOfDay(t - MinutesPerWeek) = m /\ Weekday(t - MinutesPerWeek) = (d - 7) % 7
  BY <1>1, <1>3, Clock
<1>8. t - MinutesPerWeek \in Int
  BY DEF MinutesPerWeek, MinutesPerDay
<1> QED BY <1>4, <1>5, <1>6, <1>7, <1>8

\* Of the grid, the time that is adjusted to is the first one in business hours.
LEMMA AdjustIsNext ==
  ASSUME NEW c \in Int, OnGrid(c)
  PROVE  /\ IsSlot(AdjustToBusinessWindow(c)) /\ AdjustToBusinessWindow(c) >= c
         /\ \A s \in Int : IsOpen(s) /\ s >= c => s >= AdjustToBusinessWindow(c)
<1>1. PICK d \in Int, m \in 0 .. MinutesPerDay - 1 : c = d * MinutesPerDay + m
  BY ClockOf
<1>0. MinuteOfDay(c) = m
  BY <1>1, Clock
<1>2. /\ MinuteOfDay(c) = m /\ MinutesPerDay = 1440
      /\ BusinessStart \in Nat /\ BusinessEnd \in Nat /\ BusinessStart < BusinessEnd
      /\ BusinessEnd <= MinutesPerDay
  BY <1>0, SlotsFitTheDay DEF MinutesPerDay
<1>3. /\ BusinessStartForDay(c) = d * MinutesPerDay + BusinessStart
      /\ BusinessEndForDay(c) = d * MinutesPerDay + BusinessEnd
  BY <1>1, <1>2 DEF BusinessStartForDay, BusinessEndForDay
<1>4. BusinessStartForDay(c + MinutesPerDay) = (d + 1) * MinutesPerDay + BusinessStart
  <2>1. c + MinutesPerDay = (d + 1) * MinutesPerDay + m /\ d + 1 \in Int
    BY <1>1, <1>2
  <2>2. MinuteOfDay(c + MinutesPerDay) = m
    BY <2>1, Clock
  <2> QED BY <1>1, <1>2, <2>1, <2>2 DEF BusinessStartForDay
<1>5. /\ IsSlot(d * MinutesPerDay + BusinessStart)
      /\ IsSlot((d + 1) * MinutesPerDay + BusinessStart)
  <2>1. BusinessStart \in 0 .. MinutesPerDay - 1
    BY <1>2
  <2>2. ASSUME NEW e \in Int
        PROVE  IsSlot(e * MinutesPerDay + BusinessStart)
    <3>1. OnGrid(e * MinutesPerDay)
      BY GridFacts, GridSums
    <3>2. OnGrid(e * MinutesPerDay + BusinessStart)
      BY <3>1, GridFacts, GridSums
    <3>3. /\ e * MinutesPerDay + BusinessStart \in Int
          /\ MinuteOfDay(e * MinutesPerDay + BusinessStart) = BusinessStart
      BY <2>1, Clock
    <3> QED BY <1>2, <3>2, <3>3 DEF IsSlot, IsOpen
  <2> QED BY <2>2
<1>6. \A s \in Int : IsOpen(s) =>
        \E e \in Int : /\ s >= e * MinutesPerDay + BusinessStart
                       /\ s < e * MinutesPerDay + BusinessEnd
  <2> SUFFICES ASSUME NEW s \in Int, IsOpen(s)
               PROVE  \E e \in Int : /\ s >= e * MinutesPerDay + BusinessStart
                                     /\ s < e * MinutesPerDay + BusinessEnd
    OBVIOUS
  <2>1. PICK e \in Int, n \in 0 .. MinutesPerDay - 1 : s = e * MinutesPerDay + n
    BY ClockOf
  <2>2. MinuteOfDay(s) = n
    BY <2>1, Clock
  <2> QED BY <1>2, <2>1, <2>2 DEF IsOpen
<1>7. CASE m < BusinessStart
  <2>1. AdjustToBusinessWindow(c) = d * MinutesPerDay + BusinessStart
    BY <1>1, <1>2, <1>3, <1>7 DEF AdjustToBusinessWindow
  <2> QED BY <1>1, <1>2, <1>5, <1>6, <1>7, <2>1
<1>8. CASE m >= BusinessEnd
  <2>1. AdjustToBusinessWindow(c) = (d + 1) * MinutesPerDay + BusinessStart
    BY <1>1, <1>2, <1>3, <1>4, <1>8 DEF AdjustToBusinessWindow
  <2> QED BY <1>1, <1>2, <1>5, <1>6, <1>8, <2>1
<1>9. CASE BusinessStart <= m /\ m < BusinessEnd
  <2>1. AdjustToBusinessWindow(c) = c
    BY <1>1, <1>2, <1>3, <1>9 DEF AdjustToBusinessWindow
  <2> QED BY <1>2, <1>9, <2>1 DEF IsSlot, IsOpen
<1> QED BY <1>1, <1>2, <1>7, <1>8, <1>9

\* The next slot is later, and no other one is between.
LEMMA NextSlotIsNext ==
  ASSUME NEW t \in Int
  PROVE  /\ NextSlotAfter(t) \in Int /\ OnGrid(NextSlotAfter(t)) /\ NextSlotAfter(t) > t
         /\ \A s \in Int : OnGrid(s) /\ s > t => s >= NextSlotAfter(t)
<1> DEFINE q == t \div SlotMinutes
           rest == t % SlotMinutes
<1>1. q \in Int /\ rest \in 0 .. SlotMinutes - 1 /\ t = q * SlotMinutes + rest
  BY GridFacts, Division
<1>2. NextSlotAfter(t) = (q + 1) * SlotMinutes
  BY DEF NextSlotAfter
<1> HIDE DEF q, rest
<1>3. (q + 1) * SlotMinutes = q * SlotMinutes + SlotMinutes /\ q * SlotMinutes \in Int
  BY <1>1, GridFacts
<1>4. ASSUME NEW s \in Int, OnGrid(s), s > t
      PROVE  s >= NextSlotAfter(t)
  <2>1. CASE s < q * SlotMinutes + SlotMinutes
    <3>1. OnGrid(q * SlotMinutes)
      BY <1>1 DEF OnGrid
    <3>2. s <= q * SlotMinutes
      BY <1>4, <2>1, <3>1, GridGap
    <3> QED BY <1>1, <1>3, <1>4, <3>2, GridFacts
  <2> QED BY <1>2, <1>3, <1>4, <2>1, GridFacts
<1>5. OnGrid((q + 1) * SlotMinutes)
  BY <1>1 DEF OnGrid
<1> QED BY <1>1, <1>2, <1>3, <1>4, <1>5, GridFacts

\* A search begins with the first slot after its deadline.
LEMMA FirstCandidateIsFirst ==
  ASSUME NEW deadline \in Int
  PROVE  /\ IsSlot(FirstCandidate(deadline)) /\ FirstCandidate(deadline) > deadline
         /\ \A s \in Int : IsSlot(s) /\ s > deadline => s >= FirstCandidate(deadline)
<1> DEFINE n == NextSlotAfter(deadline)
<1>1. n \in Int /\ OnGrid(n) /\ n > deadline /\ \A s \in Int : OnGrid(s) /\ s > deadline => s >= n
  BY NextSlotIsNext
<1> HIDE DEF n
<1>2. /\ IsSlot(AdjustToBusinessWindow(n)) /\ AdjustToBusinessWindow(n) >= n
      /\ \A s \in Int : IsOpen(s) /\ s >= n => s >= AdjustToBusinessWindow(n)
  BY <1>1, AdjustIsNext
<1>3. FirstCandidate(deadline) = AdjustToBusinessWindow(n)
  BY DEF FirstCandidate, n
<1> QED BY <1>1, <1>2, <1>3 DEF IsSlot

\* SlotsAfter is the slots of the week after the deadline.
LEMMA SlotsAfterAre ==
  ASSUME NEW deadline \in Int, NEW t
  PROVE  t \in SlotsAfter(deadline) <=>
           IsSlot(t) /\ t > deadline /\ t <= deadline + MinutesPerWeek
<1> DEFINE first == deadline \div SlotMinutes
           last == (deadline + MinutesPerWeek) \div SlotMinutes
<1>1. MinutesPerWeek \in Int
  BY DEF MinutesPerWeek, MinutesPerDay
<1>2. /\ first \in Int /\ deadline % SlotMinutes \in 0 .. SlotMinutes - 1
      /\ deadline = first * SlotMinutes + (deadline % SlotMinutes)
  BY GridFacts, Division
<1>3. /\ last \in Int
      /\ (deadline + MinutesPerWeek) % SlotMinutes \in 0 .. SlotMinutes - 1
      /\ deadline + MinutesPerWeek = last * SlotMinutes + ((deadline + MinutesPerWeek) % SlotMinutes)
  BY <1>1, GridFacts, Division
<1>4. SlotsAfter(deadline) = {s \in {k * SlotMinutes : k \in first + 1 .. last} : IsOpen(s)}
  BY DEF SlotsAfter, IsOpen
<1> HIDE DEF first, last
<1>5. ASSUME NEW k \in Int
      PROVE  /\ k * SlotMinutes \in Int
             /\ k * SlotMinutes > deadline <=> k >= first + 1
             /\ k * SlotMinutes <= deadline + MinutesPerWeek <=> k <= last
  <2>1. k * SlotMinutes \in Int /\ first * SlotMinutes \in Int /\ last * SlotMinutes \in Int
    BY <1>2, <1>3, GridFacts
  <2>2. k >= first + 1 => k * SlotMinutes >= first * SlotMinutes + SlotMinutes
    <3> SUFFICES ASSUME k >= first + 1 PROVE k * SlotMinutes >= first * SlotMinutes + SlotMinutes
      OBVIOUS
    <3>1. k * SlotMinutes >= (first + 1) * SlotMinutes
      BY <1>2, GridFacts
    <3>2. (first + 1) * SlotMinutes = first * SlotMinutes + SlotMinutes
      BY <1>2, GridFacts
    <3> QED BY <3>1, <3>2
  <2>3. k <= first => k * SlotMinutes <= first * SlotMinutes
    BY <1>2, GridFacts
  <2>4. k <= last => k * SlotMinutes <= last * SlotMinutes
    BY <1>3, GridFacts
  <2>5. k >= last + 1 => k * SlotMinutes >= last * SlotMinutes + SlotMinutes
    <3> SUFFICES ASSUME k >= last + 1 PROVE k * SlotMinutes >= last * SlotMinutes + SlotMinutes
      OBVIOUS
    <3>1. k * SlotMinutes >= (last + 1) * SlotMinutes
      BY <1>3, GridFacts
    <3>2. (last + 1) * SlotMinutes = last * SlotMinutes + SlotMinutes
      BY <1>3, GridFacts
    <3> QED BY <3>1, <3>2
  <2>6. k * SlotMinutes > deadline <=> k >= first + 1
    BY <1>2, <2>1, <2>2, <2>3, GridFacts
  <2>7. k * SlotMinutes <= deadline + MinutesPerWeek <=> k <= last
    BY <1>1, <1>3, <2>1, <2>4, <2>5, GridFacts
  <2> QED BY <2>1, <2>6, <2>7
<1>6. ASSUME t \in SlotsAfter(deadline)
      PROVE  IsSlot(t) /\ t > deadline /\ t <= deadline + MinutesPerWeek
  <2>1. PICK k \in first + 1 .. last : t = k * SlotMinutes
    BY <1>4, <1>6
  <2>2. k \in Int /\ k >= first + 1 /\ k <= last
    BY <1>2, <1>3, <2>1
  <2>3. t \in Int /\ t > deadline /\ t <= deadline + MinutesPerWeek
    BY <1>5, <2>1, <2>2
  <2>4. IsOpen(t) /\ OnGrid(t)
    BY <1>4, <1>6, <2>1, <2>2 DEF OnGrid
  <2> QED BY <2>3, <2>4 DEF IsSlot
<1>7. ASSUME IsSlot(t), t > deadline, t <= deadline + MinutesPerWeek
      PROVE  t \in SlotsAfter(deadline)
  <2>1. PICK k \in Int : t = k * SlotMinutes
    BY <1>7 DEF IsSlot, OnGrid
  <2>2. k \in first + 1 .. last
    BY <1>2, <1>3, <1>5, <1>7, <2>1
  <2> QED BY <1>4, <1>7, <2>1, <2>2 DEF IsSlot
<1> QED BY <1>6, <1>7

\* The search is long enough for every slot of a week.
LEMMA SlotsOfTheSearch ==
  ASSUME NEW checked \in Int, checked >= MaxSlots
  PROVE  checked * SlotMinutes >= MinutesPerWeek
<1>1. PICK m \in Int : MinutesPerDay = m * SlotMinutes
  BY GridFacts DEF OnGrid
<1>2. MinutesPerDay = 1440 /\ MinutesPerWeek = 10080 /\ SearchDays \in Nat /\ SearchDays >= 6
  BY SlotsFitTheDay DEF MinutesPerDay, MinutesPerWeek
<1> DEFINE n == (SearchDays + 1) * m
<1>3. n \in Int /\ (SearchDays + 1) * 24 * 60 = n * SlotMinutes
  <2>1. (SearchDays + 1) * 24 * 60 = (SearchDays + 1) * (m * SlotMinutes)
    BY <1>1, <1>2
  <2>2. (SearchDays + 1) * (m * SlotMinutes) = n * SlotMinutes
    BY <1>2, GridFacts
  <2> QED BY <1>2, <2>1, <2>2
<1>4. n * SlotMinutes >= MinutesPerWeek
  BY <1>2, <1>3
<1> HIDE DEF n
<1>5. MaxSlots = n
  BY <1>3, Quotient, GridFacts DEF MaxSlots
<1>6. checked * SlotMinutes >= n * SlotMinutes
  BY <1>3, <1>5, GridFacts
<1> QED BY <1>2, <1>3, <1>4, <1>6, GridFacts

-----------------------------------------------------------------------------
(* The search                                                              *)

\* Recurring schedules and business hours are the same a week before.
LEMMA WeekBeforeIsAlike ==
  ASSUME NEW t \in Int, IsSlot(t)
  PROVE  /\ IsSlot(t - MinutesPerWeek) /\ t - MinutesPerWeek < t
         /\ \A s : CreatorIsFree(s, t - MinutesPerWeek) <=> CreatorIsFree(s, t)
         /\ \A s : GroupIsFree(s, t - MinutesPerWeek) <=> GroupIsFree(s, t)
<1>1. /\ t - MinutesPerWeek \in Int /\ OnGrid(t - MinutesPerWeek)
      /\ MinuteOfDay(t - MinutesPerWeek) = MinuteOfDay(t)
      /\ Weekday(t - MinutesPerWeek) = Weekday(t)
  BY WeekBefore DEF IsSlot
<1>2. IsSlot(t - MinutesPerWeek)
  BY <1>1 DEF IsSlot, IsOpen
<1>3. t - MinutesPerWeek < t
  BY DEF MinutesPerWeek, MinutesPerDay
<1>4. \A rows, u : HasRecurringScheduleConflict(rows, u, t - MinutesPerWeek)
                   <=> HasRecurringScheduleConflict(rows, u, t)
  BY <1>1 DEF HasRecurringScheduleConflict
<1> QED BY <1>2, <1>3, <1>4 DEF CreatorIsFree, GroupIsFree

\* A slot after the deadline of a search at which the creator is free.
FreeSlot(s, t) == IsSlot(t) /\ t > s.deadline /\ CreatorIsFree(s, t)

\* How far a search has come.  It moves on by a slot at least each time; of the slots
\* it has passed none is free for all; the first that is free for the creator is kept.
ProgressOK(s) ==
  /\ s.candidate \in Int /\ OnGrid(s.candidate) /\ s.checked \in Nat
  /\ s.candidate >= FirstCandidate(s.deadline) + s.checked * SlotMinutes
  /\ \A t : FreeSlot(s, t) /\ t < s.candidate => s.fallback # NULL /\ ~GroupIsFree(s, t)
  /\ s.fallback # NULL => /\ FreeSlot(s, s.fallback)
                          /\ \A t : FreeSlot(s, t) => s.fallback <= t

SearchFields == {"state", "deadline", "creator", "members", "rows", "candidate", "checked",
                 "fallback", "result"}

ProgressInv ==
  search.state \in {"running", "done"} =>
    /\ DOMAIN search = SearchFields /\ search.deadline \in Int
    /\ search.state = "running" => ProgressOK(search)

\* RecommendationIsBest of one search.
IsBest(s, result) ==
  LET slots == SlotsAfter(s.deadline)
      creators == {t \in slots : CreatorIsFree(s, t)}
      groups == {t \in creators : GroupIsFree(s, t)}
  IN  IsEarliest(result, IF groups # {} THEN groups
                         ELSE IF creators # {} THEN creators ELSE slots)

\* The earliest slot of a kind that recurs weekly is within a week.
LEMMA EarliestIsWithinAWeek ==
  ASSUME NEW s, s.deadline \in Int, NEW t, IsSlot(t), t > s.deadline
  PROVE  /\ t <= s.deadline + MinutesPerWeek
         \/ /\ IsSlot(t - MinutesPerWeek) /\ t - MinutesPerWeek > s.deadline
            /\ t - MinutesPerWeek < t
            /\ CreatorIsFree(s, t) => CreatorIsFree(s, t - MinutesPerWeek)
            /\ GroupIsFree(s, t) => GroupIsFree(s, t - MinutesPerWeek)
<1>1. t \in Int /\ MinutesPerWeek \in Int
  BY DEF IsSlot, MinutesPerWeek, MinutesPerDay
<1>2. /\ IsSlot(t - MinutesPerWeek) /\ t - MinutesPerWeek < t
      /\ CreatorIsFree(s, t) => CreatorIsFree(s, t - MinutesPerWeek)
      /\ GroupIsFree(s, t) => GroupIsFree(s, t - MinutesPerWeek)
  BY <1>1, WeekBeforeIsAlike
<1>3. t <= s.deadline + MinutesPerWeek \/ t - MinutesPerWeek > s.deadline
  BY <1>1
<1> QED BY <1>2, <1>3

\* The slot that a search finds is the best one.
LEMMA FoundIsBest ==
  ASSUME NEW s, s.deadline \in Int, ProgressOK(s),
         NEW t, t = AdjustToBusinessWindow(s.candidate), CreatorIsFree(s, t), GroupIsFree(s, t)
  PROVE  IsBest(s, t)
<1>1. /\ IsSlot(t) /\ t >= s.candidate
      /\ \A x \in Int : IsOpen(x) /\ x >= s.candidate => x >= t
  BY AdjustIsNext DEF ProgressOK
<1>2. t > s.deadline
  <2>1. FirstCandidate(s.deadline) \in Int /\ FirstCandidate(s.deadline) > s.deadline
    BY FirstCandidateIsFirst DEF IsSlot
  <2>2. s.checked * SlotMinutes \in Nat
    BY GridFacts DEF ProgressOK
  <2>3. s.candidate \in Int /\ s.candidate >= FirstCandidate(s.deadline) + s.checked * SlotMinutes
    BY DEF ProgressOK
  <2>4. t \in Int
    BY <1>1 DEF IsSlot
  <2> HIDE DEF ProgressOK
  <2> QED BY <1>1, <2>1, <2>2, <2>3, <2>4
<1>3. \A x : FreeSlot(s, x) /\ GroupIsFree(s, x) => t <= x
  <2> SUFFICES ASSUME NEW x, FreeSlot(s, x), GroupIsFree(s, x)
               PROVE  t <= x
    OBVIOUS
  <2>1. x \in Int /\ IsOpen(x) /\ t \in Int /\ s.candidate \in Int
    BY <1>1 DEF FreeSlot, IsSlot, ProgressOK
  <2>2. ~(x < s.candidate)
    BY DEF ProgressOK
  <2>3. x >= s.candidate
    BY <2>1, <2>2
  <2> QED BY <1>1, <2>1, <2>3
<1> DEFINE slots == SlotsAfter(s.deadline)
           creators == {x \in slots : CreatorIsFree(s, x)}
           groups == {x \in creators : GroupIsFree(s, x)}
<1>4. t <= s.deadline + MinutesPerWeek
  <2>1. t \in Int /\ t - MinutesPerWeek \in Int
    BY <1>1 DEF IsSlot, MinutesPerWeek, MinutesPerDay
  <2>2. CASE FreeSlot(s, t - MinutesPerWeek) /\ GroupIsFree(s, t - MinutesPerWeek)
    <3>1. t <= t - MinutesPerWeek
      BY <1>3, <2>2
    <3> QED BY <2>1, <3>1 DEF MinutesPerWeek, MinutesPerDay
  <2> QED BY <1>1, <1>2, <2>2, EarliestIsWithinAWeek DEF FreeSlot
<1>5. t \in groups
  BY <1>1, <1>2, <1>4, SlotsAfterAre
<1>6. \A x \in groups : t <= x
  BY <1>3, SlotsAfterAre DEF FreeSlot
<1> HIDE DEF groups
<1>7. IsEarliest(t, IF groups # {} THEN groups ELSE IF creators # {} THEN creators ELSE slots)
  BY <1>5, <1>6 DEF IsEarliest
<1> QED BY <1>7 DEF IsBest, groups

\* Out of slots, a search has passed a whole week: what it recommends then is the best.
LEMMA GivenUpIsBest ==
  ASSUME NEW s, s.deadline \in Int, ProgressOK(s), s.checked >= MaxSlots
  PROVE  IsBest(s, IF s.fallback # NULL THEN s.fallback ELSE FirstCandidate(s.deadline))
<1> DEFINE slots == SlotsAfter(s.deadline)
           creators == {x \in slots : CreatorIsFree(s, x)}
           groups == {x \in creators : GroupIsFree(s, x)}
           first == FirstCandidate(s.deadline)
<1>1. /\ IsSlot(first) /\ first \in Int /\ first > s.deadline
      /\ \A x \in Int : IsSlot(x) /\ x > s.deadline => x >= first
  BY FirstCandidateIsFirst DEF IsSlot
<1> HIDE DEF first
<1>2. s.candidate \in Int /\ s.candidate > s.deadline + MinutesPerWeek
  <2>1. s.checked * SlotMinutes \in Int /\ s.checked * SlotMinutes >= MinutesPerWeek
    BY SlotsOfTheSearch, GridFacts DEF ProgressOK
  <2>2. s.candidate \in Int /\ s.candidate >= first + s.checked * SlotMinutes
    BY DEF ProgressOK, first
  <2>3. MinutesPerWeek \in Int
    BY DEF MinutesPerWeek, MinutesPerDay
  <2> HIDE DEF ProgressOK
  <2> QED BY <1>1, <2>1, <2>2, <2>3
<1>3. \A x \in slots : x \in Int /\ IsSlot(x) /\ x > s.deadline /\ x < s.candidate
  <2> SUFFICES ASSUME NEW x \in slots
               PROVE  x \in Int /\ IsSlot(x) /\ x > s.deadline /\ x < s.candidate
    OBVIOUS
  <2>1. IsSlot(x) /\ x > s.deadline /\ x <= s.deadline + MinutesPerWeek
    BY SlotsAfterAre
  <2>2. x \in Int /\ MinutesPerWeek \in Int
    BY <2>1 DEF IsSlot, MinutesPerWeek, MinutesPerDay
  <2> QED BY <1>2, <2>1, <2>2
<1>4. groups = {}
  BY <1>3 DEF ProgressOK, FreeSlot
<1>5. CASE s.fallback # NULL
  <2> DEFINE f == s.fallback
  <2>1. FreeSlot(s, f) /\ \A x : FreeSlot(s, x) => f <= x
    BY <1>5 DEF ProgressOK
  <2>2. f \in Int /\ f - MinutesPerWeek \in Int
    BY <2>1 DEF FreeSlot, IsSlot, MinutesPerWeek, MinutesPerDay
  <2> HIDE DEF f
  <2>3. f <= s.deadline + MinutesPerWeek
    <3>1. CASE FreeSlot(s, f - MinutesPerWeek)
      <4>1. f <= f - MinutesPerWeek
        BY <2>1, <3>1
      <4> QED BY <2>2, <4>1 DEF MinutesPerWeek, MinutesPerDay
    <3> QED BY <2>1, <3>1, EarliestIsWithinAWeek DEF FreeSlot
  <2>4. f \in creators
    BY <2>1, <2>3, SlotsAfterAre DEF FreeSlot
  <2>5. \A x \in creators : f <= x
    BY <1>3, <2>1 DEF FreeSlot
  <2> HIDE DEF creators, groups, slots
  <2>6. IsEarliest(f, IF groups # {} THEN groups ELSE IF creators # {} THEN creators ELSE slots)
    BY <1>4, <2>4, <2>5 DEF IsEarliest
  <2> QED BY <1>5, <2>6 DEF IsBest, f, creators, groups, slots
<1>6. CASE s.fallback = NULL
  <2>1. creators = {}
    BY <1>3, <1>6 DEF ProgressOK, FreeSlot
  <2>2. first <= s.deadline + MinutesPerWeek
    <3>1. first - MinutesPerWeek \in Int
      BY <1>1 DEF MinutesPerWeek, MinutesPerDay
    <3>2. CASE IsSlot(first - MinutesPerWeek) /\ first - MinutesPerWeek > s.deadline
      <4>1. first - MinutesPerWeek >= first
        BY <1>1, <3>1, <3>2
      <4> QED BY <1>1, <4>1 DEF MinutesPerWeek, MinutesPerDay
    <3> QED BY <1>1, <3>2, EarliestIsWithinAWeek
  <2>3. first \in slots
    BY <1>1, <2>2, SlotsAfterAre
  <2>4. \A x \in slots : first <= x
    <3> SUFFICES ASSUME NEW x \in slots PROVE first <= x
      OBVIOUS
    <3>1. x \in Int /\ x >= first
      BY <1>1, <1>3
    <3> QED BY <1>1, <3>1
  <2> HIDE DEF creators, groups, slots
  <2>5. IsEarliest(first, IF groups # {} THEN groups ELSE IF creators # {} THEN creators ELSE slots)
    BY <1>4, <2>1, <2>3, <2>4 DEF IsEarliest
  <2> QED BY <1>6, <2>5 DEF IsBest, first, creators, groups, slots
<1> QED BY <1>5, <1>6

\* A search that goes on passes one slot, and that one is not free for all.
LEMMA ProgressGoesOn ==
  ASSUME NEW s, s.deadline \in Int, DOMAIN s = SearchFields, ProgressOK(s),
         NEW t, t = AdjustToBusinessWindow(s.candidate),
         ~(CreatorIsFree(s, t) /\ GroupIsFree(s, t)),
         NEW next, next = [s EXCEPT !.candidate = t + SlotMinutes, !.checked = @ + 1,
                                    !.fallback = IF @ = NULL /\ CreatorIsFree(s, t) THEN t ELSE @]
  PROVE  ProgressOK(next)
<1>1. /\ IsSlot(t) /\ t >= s.candidate
      /\ \A x \in Int : IsOpen(x) /\ x >= s.candidate => x >= t
  BY AdjustIsNext DEF ProgressOK
<1>2. /\ s.candidate \in Int /\ s.checked \in Nat /\ t \in Int /\ OnGrid(t)
      /\ SlotMinutes \in Nat /\ SlotMinutes > 0
  BY <1>1, GridFacts DEF ProgressOK, IsSlot
<1>3. /\ next.candidate = t + SlotMinutes /\ next.checked = s.checked + 1
      /\ next.fallback = IF s.fallback = NULL /\ CreatorIsFree(s, t) THEN t ELSE s.fallback
      /\ next.deadline = s.deadline /\ next.creator = s.creator
      /\ next.members = s.members /\ next.rows = s.rows
  BY DEF SearchFields
<1>4. /\ \A x : FreeSlot(next, x) <=> FreeSlot(s, x)
      /\ \A x : GroupIsFree(next, x) <=> GroupIsFree(s, x)
  BY <1>3 DEF FreeSlot, CreatorIsFree, GroupIsFree
<1>5. next.candidate \in Int /\ OnGrid(next.candidate) /\ next.checked \in Nat
  <2>1. OnGrid(SlotMinutes)
    <3>1. 1 \in Int /\ SlotMinutes = 1 * SlotMinutes
      BY <1>2
    <3> QED BY <3>1 DEF OnGrid
  <2>2. OnGrid(t + SlotMinutes) /\ t + SlotMinutes \in Int
    BY <1>2, <2>1, GridSums
  <2> QED BY <1>2, <1>3, <2>2
<1>6. next.candidate >= FirstCandidate(next.deadline) + next.checked * SlotMinutes
  <2>1. FirstCandidate(s.deadline) \in Int
    BY FirstCandidateIsFirst DEF IsSlot
  <2>2. s.checked * SlotMinutes \in Int
        /\ (s.checked + 1) * SlotMinutes = s.checked * SlotMinutes + SlotMinutes
    BY <1>2
  <2>3. s.candidate >= FirstCandidate(s.deadline) + s.checked * SlotMinutes
    BY DEF ProgressOK
  <2> HIDE DEF ProgressOK
  <2> QED BY <1>1, <1>2, <1>3, <2>1, <2>2, <2>3
<1>7. t > s.deadline
  <2>1. FirstCandidate(s.deadline) \in Int /\ FirstCandidate(s.deadline) > s.deadline
    BY FirstCandidateIsFirst DEF IsSlot
  <2>2. s.checked * SlotMinutes \in Nat
    BY <1>2
  <2>3. s.candidate >= FirstCandidate(s.deadline) + s.checked * SlotMinutes
    BY DEF ProgressOK
  <2> QED BY <1>1, <1>2, <2>1, <2>2, <2>3
<1>8. ASSUME NEW x, FreeSlot(s, x), x < t + SlotMinutes
      PROVE  x < s.candidate \/ x = t
  <2>1. x \in Int /\ OnGrid(x) /\ IsOpen(x)
    BY <1>8 DEF FreeSlot, IsSlot
  <2>2. x <= t
    BY <1>2, <1>8, <2>1, GridGap
  <2>3. x >= s.candidate => x >= t
    BY <1>1, <2>1
  <2> QED BY <1>2, <2>1, <2>2, <2>3
<1>9. \A x : FreeSlot(s, x) /\ x < t + SlotMinutes => next.fallback # NULL /\ ~GroupIsFree(s, x)
  <2> SUFFICES ASSUME NEW x, FreeSlot(s, x), x < t + SlotMinutes
               PROVE  next.fallback # NULL /\ ~GroupIsFree(s, x)
    OBVIOUS
  <2>1. CASE x < s.candidate
    BY <1>3, <2>1 DEF ProgressOK
  <2>2. CASE x = t
    BY <1>2, <1>3, <2>2 DEF FreeSlot
  <2> QED BY <1>8, <2>1, <2>2
<1>10. next.fallback # NULL => /\ FreeSlot(s, next.fallback)
                               /\ \A x : FreeSlot(s, x) => next.fallback <= x
  <2>1. CASE s.fallback = NULL /\ CreatorIsFree(s, t)
    <3>1. next.fallback = t /\ FreeSlot(s, t)
      BY <1>1, <1>3, <1>7, <2>1 DEF FreeSlot
    <3>2. ASSUME NEW x, FreeSlot(s, x) PROVE t <= x
      <4>1. ~(x < s.candidate)
        BY <2>1, <3>2 DEF ProgressOK
      <4>2. x \in Int /\ IsOpen(x)
        BY <3>2 DEF FreeSlot, IsSlot
      <4> QED BY <1>1, <1>2, <4>1, <4>2
    <3> QED BY <3>1, <3>2
  <2>2. CASE ~(s.fallback = NULL /\ CreatorIsFree(s, t))
    BY <1>3, <2>2 DEF ProgressOK
  <2> QED BY <2>1, <2>2
<1> QED BY <1>3, <1>4, <1>5, <1>6, <1>9, <1>10 DEF ProgressOK

BestInv == search.state = "done" => IsBest(search, search.result)

\* A step of a search keeps both.
LEMMA ProgressKeeps ==
  ASSUME ProgressInv, BestInv, SearchStep
  PROVE  ProgressInv' /\ BestInv'
<1>1. /\ search.state = "running" /\ DOMAIN search = SearchFields
      /\ search.deadline \in Int /\ ProgressOK(search)
  BY DEF SearchStep, SearchFinds, SearchGoesOn, SearchGivesUp, ProgressInv
<1>2. ASSUME NEW t, Recommends(t), IsBest(search, t)
      PROVE  ProgressInv' /\ BestInv'
  <2>1. /\ DOMAIN search' = SearchFields /\ search'.state = "done" /\ search'.result = t
        /\ search'.deadline = search.deadline /\ search'.creator = search.creator
        /\ search'.members = search.members /\ search'.rows = search.rows
    BY <1>1, <1>2 DEF Recommends, SearchFields
  <2>2. IsBest(search', t)
    BY <1>2, <2>1 DEF IsBest, CreatorIsFree, GroupIsFree
  <2> QED BY <1>1, <2>1, <2>2 DEF ProgressInv, BestInv
<1>3. CASE SearchFinds
  <2> DEFINE t == AdjustToBusinessWindow(search.candidate)
  <2>1. CreatorIsFree(search, t) /\ GroupIsFree(search, t) /\ Recommends(t)
    BY <1>3 DEF SearchFinds
  <2> HIDE DEF t
  <2>2. IsBest(search, t)
    BY <1>1, <2>1, FoundIsBest DEF t
  <2> QED BY <1>2, <2>1, <2>2
<1>4. CASE SearchGoesOn
  <2> DEFINE t == AdjustToBusinessWindow(search.candidate)
  <2>1. /\ ~(CreatorIsFree(search, t) /\ GroupIsFree(search, t))
        /\ search' = [search EXCEPT !.candidate = t + SlotMinutes, !.checked = @ + 1,
                        !.fallback = IF @ = NULL /\ CreatorIsFree(search, t) THEN t ELSE @]
    BY <1>4 DEF SearchGoesOn
  <2> HIDE DEF t
  <2>2. ProgressOK(search')
    BY <1>1, <2>1, ProgressGoesOn DEF t
  <2>3. /\ DOMAIN search' = SearchFields /\ search'.state = "running"
        /\ search'.deadline = search.deadline
    BY <1>1, <2>1 DEF SearchFields
  <2> QED BY <1>1, <2>2, <2>3 DEF ProgressInv, BestInv
<1>5. CASE SearchGivesUp
  <2> DEFINE t == IF search.fallback # NULL THEN search.fallback ELSE FirstCandidate(search.deadline)
  <2>1. search.checked >= MaxSlots /\ Recommends(t)
    BY <1>5 DEF SearchGivesUp
  <2>2. IsBest(search, t)
    BY <1>1, <2>1, GivenUpIsBest
  <2> QED BY <1>2, <2>1, <2>2
<1> QED BY <1>3, <1>4, <1>5 DEF SearchStep

LEMMA ProgressInvStep == ProgressInv /\ BestInv /\ [Next]_vars => ProgressInv' /\ BestInv'
<1> SUFFICES ASSUME ProgressInv, BestInv, [Next]_vars PROVE ProgressInv' /\ BestInv'
  OBVIOUS
<1>1. CASE SearchStep
  BY <1>1, ProgressKeeps
<1>2. CASE search' \in {NotSearching, Answered}
  BY <1>2 DEF ProgressInv, BestInv, NotSearching, Answered
<1>3. ASSUME NEW r \in Requests, NEW u \in Users, NEW now \in Moments, DrawPlace(r, u, now)
      PROVE  ProgressInv' /\ BestInv'
  <2> DEFINE deadline == now + MinutesPerDay
  <2>1. deadline \in Int
    BY MomentsAreNat DEF MinutesPerDay
  <2>2. StartSearch(deadline, u, Users \ gone, FindActiveRows(Users \ gone))
    BY <1>3 DEF DrawPlace
  <2> HIDE DEF deadline
  <2>3. /\ DOMAIN search' = SearchFields /\ search'.state = "running"
        /\ search'.deadline = deadline /\ search'.candidate = FirstCandidate(deadline)
        /\ search'.checked = 0 /\ search'.fallback = NULL
    BY <2>2 DEF StartSearch, SearchFields
  <2>4. /\ IsSlot(FirstCandidate(deadline))
        /\ \A t \in Int : IsSlot(t) /\ t > deadline => t >= FirstCandidate(deadline)
    BY <2>1, FirstCandidateIsFirst
  <2>5. FirstCandidate(deadline) \in Int /\ OnGrid(FirstCandidate(deadline))
    BY <2>4 DEF IsSlot
  <2>6. FirstCandidate(deadline) >= FirstCandidate(deadline) + 0 * SlotMinutes
    BY <2>5, GridFacts
  <2>7. ASSUME NEW t, FreeSlot(search', t)
        PROVE  ~(t < search'.candidate)
    <3>1. t \in Int /\ IsSlot(t) /\ t > deadline
      BY <2>3, <2>7 DEF FreeSlot, IsSlot
    <3> QED BY <2>3, <2>4, <2>5, <3>1
  <2>8. ProgressOK(search')
    BY <2>3, <2>5, <2>6, <2>7 DEF ProgressOK
  <2> QED BY <2>1, <2>3, <2>8 DEF ProgressInv, BestInv
<1>4. CASE search' = search
  BY <1>4 DEF ProgressInv, BestInv
<1> QED BY <1>1, <1>2, <1>3, <1>4, SearchMoves

\* Whatever the schedules, the recommended time is the earliest slot after the deadline
\* at which all are free; if there is none, the earliest for the creator, or the first.
THEOREM DrawsRecommendTheBestTime == Spec => []RecommendationIsBest
<1>1. Init => ProgressInv /\ BestInv
  BY DEF Init, ProgressInv, BestInv, NotSearching
<1>2. BestInv => RecommendationIsBest
  BY DEF BestInv, IsBest, RecommendationIsBest
<1> QED BY <1>1, <1>2, ProgressInvStep, PTL DEF Spec

=============================================================================
