----------------------- MODULE PlaceCandidatesProofs -----------------------
(***************************************************************************)
(* Proofs about PlaceCandidates, for any number of places, requests and    *)
(* bodies, any page size and any limit of excluded ids.                    *)
(***************************************************************************)
EXTENDS PlaceCandidates, FiniteSetTheorems, TLAPS

USE NullIsNothing, RequestsAreNew

-----------------------------------------------------------------------------
(* Rows                                                                    *)

Values ==
  {NULL}
  \cup (UNION {{b[c] : c \in Columns} : b \in Bodies})
  \cup (UNION {{patch[c] : c \in DOMAIN patch} : patch \in Patches})
  \cup (UNION {{OldRows[p][c] : c \in Columns} : p \in OldPlaces})

Rows == [Columns -> Values]

\* What the table takes.
CheckedRows == {row \in Rows : row["latitude"] \in Latitudes /\ row["longitude"] \in Longitudes}

\* A row that is there, deleted or not.
LiveRows == [state : {"live", "deleted"}, row : CheckedRows]

PlanRows == [status : {"none", "VOTING", "CONFIRMED"}, place : Places \cup {NULL}]

TxRecord == [pc : {"idle", "writing", "reading", "between", "counting", "done"},
             op : AllOps \cup {"none"},
             result : {"none", "ok", "refused", "invalid", "failed"},
             place : Places \cup {NULL},
             read : Rows \cup {NULL},
             write : Rows \cup {NULL},
             before : SUBSET Requests,
             there : SUBSET Places,
             seen : SUBSET Places,
             page : Nat,
             count : Nat,
             torn : BOOLEAN]

LEMMA BodiesAreRows ==
  ASSUME NEW body \in Bodies
  PROVE  body \in Rows
<1>1. body = [c \in Columns |-> body[c]]
  <2>1. CASE body \in OtherBodies
    BY <2>1, RowsHaveColumns DEF IsRow
  <2>2. CASE body \in SearchedBodies
    <3>1. PICK found : body = BodyOf(found)
      BY <2>2 DEF SearchedBodies
    <3> QED BY <3>1 DEF BodyOf
  <2> QED BY <2>1, <2>2 DEF Bodies
<1>2. ASSUME NEW c \in Columns PROVE body[c] \in Values
  <2>1. body[c] \in {body[d] : d \in Columns}
    OBVIOUS
  <2> QED BY <2>1 DEF Values
<1> QED BY <1>1, <1>2 DEF Rows

LEMMA OldRowsAreRows ==
  ASSUME NEW p \in OldPlaces
  PROVE  OldRows[p] \in CheckedRows
<1> DEFINE row == OldRows[p]
<1>1. row = [c \in Columns |-> row[c]]
  BY OldRowsAreChecked DEF IsRow
<1>2. ASSUME NEW c \in Columns PROVE row[c] \in Values
  <2>1. row[c] \in {row[d] : d \in Columns}
    OBVIOUS
  <2> QED BY <2>1 DEF Values
<1>3. row \in Rows
  BY <1>1, <1>2 DEF Rows
<1> QED BY <1>3, OldRowsAreChecked DEF CheckedRows, CoordinatesAreValid, Latitudes, Longitudes

LEMMA PatchedIsRow ==
  ASSUME NEW row \in Rows, NEW patch \in Patches
  PROVE  Patched(row, patch) \in Rows
<1>1. ASSUME NEW c \in DOMAIN patch PROVE patch[c] \in Values
  <2>1. patch[c] \in {patch[d] : d \in DOMAIN patch}
    OBVIOUS
  <2> QED BY <2>1 DEF Values
<1> QED BY <1>1 DEF Patched, Rows

\* A PATCH that passes leaves a valid pair, or both coordinates as they were.
LEMMA PatchedCoordinates ==
  ASSUME NEW row \in CheckedRows, NEW patch \in Patches, PatchIsValid(row, patch)
  PROVE  /\ Patched(row, patch) \in CheckedRows
         /\ \/ CoordinatesAreValid(Patched(row, patch))
            \/ /\ Patched(row, patch)["latitude"] = row["latitude"]
               /\ Patched(row, patch)["longitude"] = row["longitude"]
<1> DEFINE new == Patched(row, patch)
<1>1. new \in Rows
  BY PatchedIsRow DEF CheckedRows
<1>2. CASE CoordinatesAreValid(new)
  BY <1>1, <1>2 DEF CheckedRows, CoordinatesAreValid, Latitudes, Longitudes
<1>3. CASE ~CoordinatesAreValid(new)
  <2>1. "latitude" \notin DOMAIN patch /\ "longitude" \notin DOMAIN patch
    BY <1>3 DEF PatchIsValid
  <2>2. new["latitude"] = row["latitude"] /\ new["longitude"] = row["longitude"]
    BY <2>1 DEF Patched, Columns
  <2> QED BY <1>1, <2>2 DEF CheckedRows
<1> QED BY <1>2, <1>3

\* The columns of a merged row come from the one or the other.
LEMMA MergedIsChecked ==
  ASSUME NEW r, tx[r].write \in CheckedRows, NEW row \in CheckedRows
  PROVE  Merged(r, row) \in CheckedRows
<1>1. /\ \A c \in Columns : tx[r].write[c] \in Values /\ row[c] \in Values
      /\ tx[r].write["latitude"] \in Latitudes /\ tx[r].write["longitude"] \in Longitudes
      /\ row["latitude"] \in Latitudes /\ row["longitude"] \in Longitudes
  BY DEF CheckedRows, Rows
<1>2. Merged(r, row) \in Rows
  BY <1>1 DEF Merged, Rows
<1>3. Merged(r, row)["latitude"] \in Latitudes /\ Merged(r, row)["longitude"] \in Longitudes
  BY <1>1 DEF Merged, Columns
<1> QED BY <1>2, <1>3 DEF CheckedRows

\* Without a change since the check the UPDATE stores the checked row.
LEMMA MergedIsWritten ==
  ASSUME NEW r, tx[r].write \in Rows
  PROVE  Merged(r, tx[r].read) = tx[r].write
BY DEF Merged, Rows

-----------------------------------------------------------------------------
(* Type correctness                                                        *)

\* A place that a request may have found.
IsThere(p) == p \in Places /\ place[p] \in LiveRows

DataOK ==
  /\ place \in [Places -> LiveRows \cup {NoPlace}]
  /\ order \in Seq(Places)
  /\ plan \in [Requests -> PlanRows]
  /\ IsFiniteSet(LivePlaces)

\* What a handler holds between its checks and its writes.
HeldOK(x, r) ==
  /\ x.op \in {"create", "update", "delete", "plan"}
  /\ x.place \in Places
  /\ x.op = "create" => /\ x.place = r
                        /\ x.write \in CheckedRows /\ CoordinatesAreValid(x.write)
  /\ x.op = "update" => /\ x.read \in CheckedRows /\ x.write \in CheckedRows
                        /\ \/ CoordinatesAreValid(x.write)
                           \/ /\ x.write["latitude"] = x.read["latitude"]
                              /\ x.write["longitude"] = x.read["longitude"]

TxOK(r) ==
  /\ tx[r].before \subseteq Finished
  /\ tx[r].pc = "idle" => tx[r] = Idle
  /\ tx[r].pc = "writing" => HeldOK(tx[r], r) /\ (tx[r].op # "create" => IsThere(tx[r].place))
  /\ \A p \in tx[r].there : IsThere(p)
  /\ tx[r].op = "draw" => IsFiniteSet(tx[r].seen)

\* A row is inserted when its request ends.
TypeInv ==
  /\ DataOK
  /\ tx \in [Requests -> TxRecord]
  /\ \A r \in Requests : TxOK(r)
  /\ \A r \in Requests : tx[r].pc # "done" => place[r] = NoPlace /\ plan[r] = NoPlan

LEMMA RowFacts ==
  ASSUME NEW x \in LiveRows
  PROVE  /\ x # NoPlace /\ x.state # "absent" /\ x.state \in {"live", "deleted"}
         /\ x.row \in CheckedRows /\ x.row \in Rows /\ DOMAIN x.row = Columns
         /\ x.row["latitude"] \in Latitudes /\ x.row["longitude"] \in Longitudes
BY DEF LiveRows, NoPlace, CheckedRows, Rows

LEMMA TypeInvImpliesTypeOK == TypeInv => TypeOK
<1> SUFFICES ASSUME TypeInv PROVE TypeOK
  OBVIOUS
<1>1. \A p \in Places :
        \/ place[p] = NoPlace
        \/ /\ place[p].state \in {"live", "deleted"}
           /\ DOMAIN place[p].row = Columns
           /\ place[p].row["latitude"] \in Latitudes
           /\ place[p].row["longitude"] \in Longitudes
  BY RowFacts DEF TypeInv, DataOK
<1>2. order \in Seq(Places)
  BY DEF TypeInv, DataOK
<1>3. plan \in [Requests -> [status : {"none", "VOTING", "CONFIRMED"}, place : Places \cup {NULL}]]
  BY DEF TypeInv, DataOK, PlanRows
<1>4. \A r \in Requests : tx[r].page \in Nat /\ tx[r].before \subseteq Finished
  BY DEF TypeInv, TxOK, TxRecord
<1> QED BY <1>1, <1>2, <1>3, <1>4 DEF TypeOK

LEMMA LiveIsThere ==
  ASSUME TypeInv, NEW p \in Places, place[p].state = "live"
  PROVE  IsThere(p) /\ place[p].row \in CheckedRows /\ place[p].row \in Rows
<1>1. place[p] # NoPlace
  BY DEF NoPlace
<1>2. place[p] \in LiveRows
  BY <1>1 DEF TypeInv, DataOK
<1> QED BY <1>2, RowFacts DEF IsThere

\* Only the record of r moves.
TxMoves(r) ==
  /\ tx' \in [Requests -> TxRecord]
  /\ \A q \in Requests : q # r => tx'[q] = tx[q]

\* A request is refused or goes on to write.
Checks(r, op, passes, p, read, write) ==
  /\ tx[r].pc = "idle" /\ TxMoves(r)
  /\ tx'[r].op = op /\ tx'[r].before = Finished /\ tx'[r].there = {} /\ tx'[r].seen = {}
  /\ tx'[r].place = p /\ tx'[r].read = read /\ tx'[r].write = write
  /\ IF passes THEN tx'[r].pc = "writing" /\ tx'[r].result = "none"
     ELSE tx'[r].pc = "done" /\ tx'[r].result \in {"refused", "invalid"}
  /\ UNCHANGED <<place, plan>>

\* A request goes on or ends with what it holds.
GoesOn(r) ==
  /\ tx[r].pc # "done" /\ TxMoves(r)
  /\ tx'[r].op = tx[r].op /\ tx'[r].place = tx[r].place /\ tx'[r].before = tx[r].before
  /\ tx'[r].read = tx[r].read /\ tx'[r].write = tx[r].write /\ tx'[r].there = tx[r].there

EndsWith(r, result) ==
  /\ GoesOn(r) /\ tx'[r].seen = tx[r].seen
  /\ tx'[r].pc = "done" /\ tx'[r].result = result

LEMMA FreshRecord ==
  ASSUME NEW op \in AllOps
  PROVE  /\ Fresh(op) \in TxRecord
         /\ Fresh(op).op = op /\ Fresh(op).before = Finished
         /\ Fresh(op).place = NULL /\ Fresh(op).read = NULL /\ Fresh(op).write = NULL
         /\ Fresh(op).there = {} /\ Fresh(op).seen = {} /\ Fresh(op).page = 0
         /\ Fresh(op).torn = FALSE
<1>1. Finished \in SUBSET Requests
  BY DEF Finished
<1>2. Idle \in TxRecord
  BY DEF Idle, TxRecord
<1>3. Fresh(op) \in TxRecord
  BY <1>1, <1>2 DEF Fresh, TxRecord
<1>4. /\ Fresh(op).op = op /\ Fresh(op).before = Finished
      /\ Fresh(op).place = NULL /\ Fresh(op).read = NULL /\ Fresh(op).write = NULL
      /\ Fresh(op).there = {} /\ Fresh(op).seen = {} /\ Fresh(op).page = 0
      /\ Fresh(op).torn = FALSE
  BY DEF Fresh, Idle
<1> QED BY <1>3, <1>4

LEMMA RecordFrame ==
  ASSUME TypeInv, NEW r \in Requests, NEW rec \in TxRecord, tx' = [tx EXCEPT ![r] = rec]
  PROVE  tx'[r] = rec /\ TxMoves(r)
BY DEF TypeInv, TxMoves

LEMMA CreateCheckFrame ==
  ASSUME TypeInv, NEW r \in Requests, NEW body \in Bodies, CreateCheck(r, body)
  PROVE  /\ Checks(r, "create",
                   CoordinatesAreValid(body) /\ ~ExistsDuplicatePlace(body, NULL),
                   r, NULL, body)
         /\ order' = order \/ order' = <<r>> \o order
         /\ tx'[r].pc = "writing" => order' = <<r>> \o order
         /\ tx'[r].result = "invalid" => ~CoordinatesAreValid(body)
<1> DEFINE refused == ~CoordinatesAreValid(body) \/ ExistsDuplicatePlace(body, NULL)
           pc == IF refused THEN "done" ELSE "writing"
           result == CASE ~CoordinatesAreValid(body) -> "invalid"
                       [] CoordinatesAreValid(body) /\ refused -> "refused"
                       [] OTHER -> "none"
           rec == [Fresh("create") EXCEPT !.pc = pc, !.result = result, !.place = r,
                                          !.write = body]
<1>1. /\ pc \in {"done", "writing"} /\ result \in {"none", "refused", "invalid"}
      /\ r \in Places /\ "create" \in AllOps
  BY DEF Places, AllOps
<1>2. body \in Rows
  BY BodiesAreRows
<1>3. tx[r].pc = "idle" /\ tx' = [tx EXCEPT ![r] = rec] /\ UNCHANGED <<place, plan>>
  BY DEF CreateCheck
<1>4. order' = IF refused THEN order ELSE <<r>> \o order
  BY DEF CreateCheck
<1>5. IF refused THEN pc = "done" /\ result \in {"refused", "invalid"}
      ELSE pc = "writing" /\ result = "none"
  OBVIOUS
<1>6. result = "invalid" => ~CoordinatesAreValid(body)
  OBVIOUS
<1> HIDE DEF pc, result
<1>7. /\ rec \in TxRecord
      /\ rec.pc = pc /\ rec.result = result /\ rec.place = r
      /\ rec.op = "create" /\ rec.before = Finished /\ rec.there = {} /\ rec.seen = {}
      /\ rec.read = NULL /\ rec.write = body
  <2> DEFINE f == Fresh("create")
  <2>1. /\ f \in TxRecord /\ f.op = "create" /\ f.before = Finished /\ f.there = {} /\ f.seen = {}
        /\ f.read = NULL /\ f.write = NULL
    BY <1>1, FreshRecord
  <2>2. rec = [f EXCEPT !.pc = pc, !.result = result, !.place = r, !.write = body]
    OBVIOUS
  <2> HIDE DEF f, rec
  <2>3. rec \in TxRecord
    BY <1>1, <1>2, <2>1, <2>2 DEF TxRecord
  <2>4. /\ rec.pc = pc /\ rec.result = result /\ rec.place = r
        /\ rec.read = NULL /\ rec.write = body
    BY <2>1, <2>2 DEF TxRecord
  <2>5. rec.op = "create" /\ rec.before = Finished /\ rec.there = {} /\ rec.seen = {}
    BY <2>1, <2>2 DEF TxRecord
  <2> QED BY <2>3, <2>4, <2>5
<1> HIDE DEF rec
<1>8. tx'[r] = rec /\ TxMoves(r)
  BY <1>3, <1>7, RecordFrame
<1> QED BY <1>3, <1>4, <1>5, <1>6, <1>7, <1>8 DEF Checks

LEMMA UpdateCheckFrame ==
  ASSUME TypeInv, NEW r \in Requests, NEW p \in Places, NEW patch \in Patches,
         UpdateCheck(r, p, patch)
  PROVE  /\ Checks(r, "update",
                   /\ PatchIsValid(place[p].row, patch)
                   /\ ~PlaceHasActivePlan(p)
                   /\ ~ExistsDuplicatePlace(Patched(place[p].row, patch), p),
                   p, place[p].row, Patched(place[p].row, patch))
         /\ IsThere(p) /\ place[p].state = "live" /\ place[p].row \in CheckedRows
         /\ order' = order
<1> DEFINE read == place[p].row
           write == Patched(read, patch)
           invalid == ~PatchIsValid(read, patch)
           refused == PlaceHasActivePlan(p) \/ ExistsDuplicatePlace(write, p)
           pc == IF invalid \/ refused THEN "done" ELSE "writing"
           result == IF PlaceHasActivePlan(p) THEN "refused" ELSE IF invalid THEN "invalid"
                     ELSE IF refused THEN "refused" ELSE "none"
           rec == [Fresh("update") EXCEPT !.pc = pc, !.result = result, !.place = p,
                                          !.read = read, !.write = write]
<1>1. /\ pc \in {"done", "writing"} /\ result \in {"none", "refused", "invalid"}
      /\ "update" \in AllOps
  BY DEF AllOps
<1>2. /\ place[p].state = "live" /\ tx[r].pc = "idle" /\ order' = order
      /\ UNCHANGED <<place, plan>>
  BY DEF UpdateCheck
<1>3. tx' = [tx EXCEPT ![r] = rec]
  BY DEF UpdateCheck
<1>4. IsThere(p) /\ read \in CheckedRows /\ read \in Rows
  BY <1>2, LiveIsThere
<1>5. write \in Rows
  BY <1>4, PatchedIsRow
<1>6. IF invalid \/ refused THEN pc = "done" /\ result \in {"refused", "invalid"}
      ELSE pc = "writing" /\ result = "none"
  OBVIOUS
<1> HIDE DEF pc, result, read, write
<1>7. /\ rec \in TxRecord
      /\ rec.pc = pc /\ rec.result = result /\ rec.place = p
      /\ rec.op = "update" /\ rec.before = Finished /\ rec.there = {} /\ rec.seen = {}
      /\ rec.read = read /\ rec.write = write
  <2> DEFINE f == Fresh("update")
  <2>1. /\ f \in TxRecord /\ f.op = "update" /\ f.before = Finished /\ f.there = {} /\ f.seen = {}
        /\ f.read = NULL /\ f.write = NULL
    BY <1>1, FreshRecord
  <2>2. rec = [f EXCEPT !.pc = pc, !.result = result, !.place = p, !.read = read,
                   !.write = write]
    OBVIOUS
  <2> HIDE DEF f, rec
  <2>3. rec \in TxRecord
    BY <1>1, <1>4, <1>5, <2>1, <2>2 DEF TxRecord
  <2>4. /\ rec.pc = pc /\ rec.result = result /\ rec.place = p
        /\ rec.read = read /\ rec.write = write
    BY <2>1, <2>2 DEF TxRecord
  <2>5. rec.op = "update" /\ rec.before = Finished /\ rec.there = {} /\ rec.seen = {}
    BY <2>1, <2>2 DEF TxRecord
  <2> QED BY <2>3, <2>4, <2>5
<1> HIDE DEF rec
<1>8. tx'[r] = rec /\ TxMoves(r)
  BY <1>3, <1>7, RecordFrame
<1>9. Checks(r, "update", ~(invalid \/ refused), p, read, write)
  BY <1>2, <1>6, <1>7, <1>8 DEF Checks
<1> HIDE DEF invalid, refused
<1>10. Checks(r, "update", ~invalid /\ ~refused, p, read, write)
  BY <1>9 DEF Checks
<1> QED BY <1>2, <1>4, <1>10 DEF read, write, invalid, refused, Checks

\* A handler that takes a place as it is; when it is not there it is refused.
LEMMA TakeFrame ==
  ASSUME TypeInv, NEW r \in Requests, NEW p \in Places, NEW op \in AllOps,
         NEW passes \in BOOLEAN,
         tx[r].pc = "idle", UNCHANGED <<place, plan>>,
         tx' = [tx EXCEPT ![r] =
                  [Fresh(op) EXCEPT !.pc = IF passes THEN "writing" ELSE "done",
                                    !.result = IF passes THEN "none" ELSE "refused",
                                    !.place = p]]
  PROVE  Checks(r, op, passes, p, NULL, NULL)
<1> DEFINE pc == IF passes THEN "writing" ELSE "done"
           result == IF passes THEN "none" ELSE "refused"
           rec == [Fresh(op) EXCEPT !.pc = pc, !.result = result, !.place = p]
<1>1. /\ pc \in {"done", "writing"} /\ result \in {"none", "refused", "invalid"}
      /\ IF passes THEN pc = "writing" /\ result = "none"
         ELSE pc = "done" /\ result = "refused"
  OBVIOUS
<1>2. tx' = [tx EXCEPT ![r] = rec]
  OBVIOUS
<1> HIDE DEF pc, result
<1>4. /\ rec \in TxRecord
      /\ rec.pc = pc /\ rec.result = result /\ rec.place = p
      /\ rec.op = op /\ rec.before = Finished /\ rec.there = {} /\ rec.seen = {}
      /\ rec.read = NULL /\ rec.write = NULL
  <2> DEFINE f == Fresh(op)
  <2>1. /\ f \in TxRecord /\ f.op = op /\ f.before = Finished /\ f.there = {} /\ f.seen = {}
        /\ f.read = NULL /\ f.write = NULL
    BY <1>1, FreshRecord
  <2>2. rec = [f EXCEPT !.pc = pc, !.result = result, !.place = p]
    OBVIOUS
  <2> HIDE DEF f, rec
  <2>3. rec \in TxRecord
    BY <1>1, <2>1, <2>2 DEF TxRecord
  <2>4. /\ rec.pc = pc /\ rec.result = result /\ rec.place = p
        /\ rec.read = NULL /\ rec.write = NULL
    BY <2>1, <2>2 DEF TxRecord
  <2>5. rec.op = op /\ rec.before = Finished /\ rec.there = {} /\ rec.seen = {}
    BY <2>1, <2>2 DEF TxRecord
  <2> QED BY <2>3, <2>4, <2>5
<1> HIDE DEF rec
<1>5. tx'[r] = rec /\ TxMoves(r)
  BY <1>2, <1>4, RecordFrame
<1> QED BY <1>1, <1>4, <1>5 DEF Checks

LEMMA DeleteCheckFrame ==
  ASSUME TypeInv, NEW r \in Requests, NEW p \in Places, DeleteCheck(r, p)
  PROVE  /\ Checks(r, "delete", ~PlaceHasActivePlan(p), p, NULL, NULL)
         /\ IsThere(p) /\ place[p].state = "live" /\ order' = order
<1> DEFINE passes == ~PlaceHasActivePlan(p)
<1>1. passes \in BOOLEAN
  OBVIOUS
<1>2. /\ place[p].state = "live" /\ tx[r].pc = "idle" /\ order' = order
      /\ UNCHANGED <<place, plan>> /\ "delete" \in AllOps
  BY DEF DeleteCheck, AllOps
<1>3. tx' = [tx EXCEPT ![r] =
               [Fresh("delete") EXCEPT !.pc = IF passes THEN "writing" ELSE "done",
                                       !.result = IF passes THEN "none" ELSE "refused",
                                       !.place = p]]
  BY DEF DeleteCheck
<1> HIDE DEF passes
<1>4. Checks(r, "delete", passes, p, NULL, NULL)
  BY <1>1, <1>2, <1>3, TakeFrame
<1> QED BY <1>2, <1>4, LiveIsThere DEF passes

LEMMA PlanCheckFrame ==
  ASSUME TypeInv, NEW r \in Requests, NEW p \in Places, PlanCheck(r, p)
  PROVE  /\ Checks(r, "plan", ~PlaceHasActivePlan(p), p, NULL, NULL)
         /\ IsThere(p) /\ place[p].state = "live" /\ order' = order
<1> DEFINE passes == ~PlaceHasActivePlan(p)
<1>1. passes \in BOOLEAN
  OBVIOUS
<1>2. /\ place[p].state = "live" /\ tx[r].pc = "idle" /\ order' = order
      /\ UNCHANGED <<place, plan>> /\ "plan" \in AllOps
  BY DEF PlanCheck, AllOps
<1>3. tx' = [tx EXCEPT ![r] =
               [Fresh("plan") EXCEPT !.pc = IF passes THEN "writing" ELSE "done",
                                     !.result = IF passes THEN "none" ELSE "refused",
                                     !.place = p]]
  BY DEF PlanCheck
<1> HIDE DEF passes
<1>4. Checks(r, "plan", passes, p, NULL, NULL)
  BY <1>1, <1>2, <1>3, TakeFrame
<1> QED BY <1>2, <1>4, LiveIsThere DEF passes

LEMMA MissingFrame ==
  ASSUME TypeInv, NEW r \in Requests, NEW p \in Places, NEW op \in Ops,
         PlaceIsMissing(r, op, p)
  PROVE  /\ Checks(r, op, FALSE, p, NULL, NULL)
         /\ op \in {"update", "delete", "plan"} /\ order' = order
<1>1. /\ tx[r].pc = "idle" /\ order' = order /\ UNCHANGED <<place, plan>>
      /\ op \in AllOps /\ op \in {"update", "delete", "plan"}
  BY DEF PlaceIsMissing, AllOps
<1>2. tx' = [tx EXCEPT ![r] =
               [Fresh(op) EXCEPT !.pc = IF FALSE THEN "writing" ELSE "done",
                                 !.result = IF FALSE THEN "none" ELSE "refused",
                                 !.place = p]]
  BY DEF PlaceIsMissing
<1> QED BY <1>1, <1>2, TakeFrame

LEMMA EndFrame ==
  ASSUME TypeInv, NEW r \in Requests, NEW result \in {"ok", "failed"},
         tx[r].pc # "done", Ends(r, result)
  PROVE  EndsWith(r, result)
<1> DEFINE rec == [tx[r] EXCEPT !.pc = "done", !.result = result]
<1>1. tx[r] \in TxRecord
  BY DEF TypeInv
<1>2. /\ rec \in TxRecord /\ rec.pc = "done" /\ rec.result = result /\ rec.op = tx[r].op
      /\ rec.before = tx[r].before /\ rec.place = tx[r].place /\ rec.read = tx[r].read
      /\ rec.write = tx[r].write /\ rec.there = tx[r].there /\ rec.seen = tx[r].seen
  BY <1>1 DEF TxRecord
<1>3. /\ tx'[r] = rec /\ tx' \in [Requests -> TxRecord]
      /\ \A q \in Requests : q # r => tx'[q] = tx[q]
  BY <1>2 DEF Ends, TypeInv
<1> HIDE DEF rec
<1> QED BY <1>2, <1>3 DEF EndsWith, GoesOn, TxMoves

\* Requests do not become unfinished.
LEMMA FinishedStays ==
  ASSUME NEW r \in Requests, tx[r].pc # "done", TxMoves(r)
  PROVE  /\ Finished \subseteq Finished'
         /\ r \notin Finished
         /\ Finished' = IF tx'[r].pc = "done" THEN Finished \cup {r} ELSE Finished
<1>1. r \notin Finished
  BY DEF Finished
<1>2. \A q \in Requests : q # r => tx'[q] = tx[q]
  BY DEF TxMoves
<1>3. Finished' = {q \in Requests : tx'[q].pc = "done"}
  BY DEF Finished
<1>4. Finished \subseteq Finished'
  BY <1>1, <1>2, <1>3 DEF Finished
<1> QED BY <1>1, <1>2, <1>3, <1>4 DEF Finished

\* One request moves on; places stay in the table.
LEMMA TxStep ==
  ASSUME TypeInv, DataOK', NEW r \in Requests, tx[r].pc # "done", TxMoves(r), TxOK(r)',
         \A p \in Places : place[p] \in LiveRows => place'[p] \in LiveRows,
         \A q \in Requests :
           (q # r \/ tx'[r].pc # "done") /\ place[q] = NoPlace /\ plan[q] = NoPlan
             => place'[q] = NoPlace /\ plan'[q] = NoPlan
  PROVE  TypeInv'
<1>1. Finished \subseteq Finished'
  BY FinishedStays
<1>2. ASSUME NEW q \in Requests, q # r
      PROVE  TxOK(q)'
  <2>1. TxOK(q) /\ tx'[q] = tx[q]
    BY <1>2 DEF TypeInv, TxMoves
  <2> QED BY <2>1, <1>1 DEF TxOK, IsThere
<1>3. \A q \in Requests : tx'[q].pc # "done" => place'[q] = NoPlace /\ plan'[q] = NoPlan
  BY DEF TypeInv, TxMoves
<1> QED BY <1>2, <1>3 DEF TypeInv, TxMoves

-----------------------------------------------------------------------------
(* The endpoints that read                                                 *)

\* The record that the next request of a client starts from.
Client(r, op, there) ==
  IF tx[r].pc = "idle" THEN [Fresh(op) EXCEPT !.there = there] ELSE tx[r]

\* The query of a client that begins, or of one that is under way.
Queries(r, op, there) ==
  /\ tx[r].pc = "idle" \/ (tx[r].op = op /\ tx[r].pc # "done")
  /\ TxMoves(r) /\ UNCHANGED <<place, order, plan>>
  /\ tx'[r].op = op
  /\ tx[r].pc = "idle" => tx'[r].before = Finished /\ tx'[r].there = there
  /\ tx[r].pc # "idle" => GoesOn(r)

LEMMA ClientRecord ==
  ASSUME TypeInv, NEW r \in Requests, NEW op \in {"list", "draw"}, NEW there \in SUBSET Places,
         tx[r].pc = "idle" \/ tx[r].op = op
  PROVE  /\ Client(r, op, there) \in TxRecord /\ Client(r, op, there).op = op
         /\ tx[r].pc = "idle" => /\ Client(r, op, there).before = Finished
                                 /\ Client(r, op, there).there = there
                                 /\ Client(r, op, there).seen = {}
                                 /\ Client(r, op, there).page = 0
                                 /\ ~Client(r, op, there).torn
         /\ tx[r].pc # "idle" => Client(r, op, there) = tx[r]
<1> DEFINE f == Fresh(op)
<1>1. /\ f \in TxRecord /\ f.op = op /\ f.before = Finished /\ f.seen = {} /\ f.page = 0
      /\ f.torn = FALSE
  BY FreshRecord DEF AllOps
<1>2. CASE tx[r].pc = "idle"
  <2> DEFINE c == Client(r, op, there)
  <2>1. c = [f EXCEPT !.there = there]
    BY <1>2 DEF Client
  <2> HIDE DEF f, c
  <2>2. c \in TxRecord
    BY <1>1, <2>1 DEF TxRecord
  <2>3. c.op = op /\ c.before = Finished /\ c.there = there /\ c.seen = {} /\ c.page = 0
    BY <1>1, <2>1 DEF TxRecord
  <2>4. ~c.torn
    BY <1>1, <2>1 DEF TxRecord
  <2> QED BY <1>2, <2>2, <2>3, <2>4 DEF c
<1>3. CASE tx[r].pc # "idle"
  BY <1>3 DEF Client, TypeInv
<1> QED BY <1>2, <1>3

LEMMA LiveArePlaces == LivePlaces \in SUBSET Places /\ DrawablePlaces({}) \in SUBSET Places
BY DEF LivePlaces, DrawablePlaces

LEMMA ListCountFrame ==
  ASSUME TypeInv, NEW r \in Requests, ListCount(r)
  PROVE  /\ Queries(r, "list", LivePlaces)
         /\ tx'[r].pc = "reading" /\ tx'[r].count = Cardinality(LivePlaces)
         /\ tx[r].pc = "idle" => /\ tx'[r].seen = {} /\ tx'[r].page = 0
                                 /\ ~tx'[r].torn
         /\ tx[r].pc # "idle" => /\ tx'[r].seen = tx[r].seen /\ tx'[r].page = tx[r].page
                                 /\ tx'[r].torn = tx[r].torn /\ tx[r].pc = "between"
<1> DEFINE c == Client(r, "list", LivePlaces)
           n == Cardinality(LivePlaces)
           rec == [c EXCEPT !.pc = "reading", !.count = n]
<1>1. /\ tx[r].pc = "idle" \/ (tx[r].op = "list" /\ tx[r].pc = "between")
      /\ UNCHANGED <<place, order, plan>>
  BY DEF ListCount, At
<1>2. tx' = [tx EXCEPT ![r] = rec]
  <2>1. CASE tx[r].pc = "idle"
    BY <2>1 DEF ListCount, Client, TypeInv
  <2>2. CASE tx[r].pc # "idle"
    BY <2>2 DEF ListCount, Client, TypeInv
  <2> QED BY <2>1, <2>2
<1>3. /\ c \in TxRecord /\ c.op = "list"
      /\ tx[r].pc = "idle" => /\ c.before = Finished /\ c.there = LivePlaces
                              /\ c.seen = {} /\ c.page = 0 /\ ~c.torn
      /\ tx[r].pc # "idle" => c = tx[r]
  BY <1>1, ClientRecord, LiveArePlaces
<1>4. n \in Nat
  BY FS_CardinalityType DEF TypeInv, DataOK
<1> HIDE DEF c, n
<1>5. rec \in TxRecord
  BY <1>3, <1>4 DEF TxRecord
<1>6. /\ rec.pc = "reading" /\ rec.count = n /\ rec.op = c.op /\ rec.before = c.before
      /\ rec.place = c.place /\ rec.read = c.read /\ rec.write = c.write
      /\ rec.there = c.there /\ rec.seen = c.seen /\ rec.page = c.page
  BY <1>3 DEF TxRecord
<1>7. rec.torn = c.torn
  BY <1>3 DEF TxRecord
<1> HIDE DEF rec
<1>8. tx'[r] = rec /\ TxMoves(r)
  BY <1>2, <1>5, RecordFrame
<1> QED BY <1>1, <1>3, <1>6, <1>7, <1>8 DEF Queries, GoesOn, n

LEMMA ListRowsFrame ==
  ASSUME TypeInv, NEW r \in Requests, ListRows(r)
  PROVE  /\ Queries(r, "list", LivePlaces) /\ tx[r].pc = "reading"
         /\ tx'[r].pc = IF HasNext(tx[r].page, tx[r].count) THEN "between" ELSE "done"
         /\ tx'[r].seen = tx[r].seen \cup PageRows(tx[r].page)
         /\ tx'[r].page = tx[r].page + 1
         /\ ~tx'[r].torn => ~tx[r].torn /\ Cardinality(LivePlaces) = tx[r].count
<1> DEFINE x == tx[r]
           last == ~HasNext(x.page, x.count)
           pc == IF last THEN "done" ELSE "between"
           result == IF last THEN "ok" ELSE "none"
           seen == x.seen \cup PageRows(x.page)
           page == x.page + 1
           torn == x.torn \/ Cardinality(LivePlaces) # x.count
           rec == [x EXCEPT !.pc = pc, !.result = result, !.seen = seen, !.page = page,
                            !.torn = torn]
<1>1. /\ x.op = "list" /\ x.pc = "reading" /\ UNCHANGED <<place, order, plan>>
      /\ x \in TxRecord
  BY DEF ListRows, At, TypeInv
<1>2. tx' = [tx EXCEPT ![r] = rec]
  BY DEF ListRows, TypeInv
<1>3. /\ pc \in {"done", "between"} /\ result \in {"ok", "none"} /\ torn \in BOOLEAN
  OBVIOUS
<1>4. page \in Nat
  <2>1. x.page \in Nat
    BY <1>1 DEF TxRecord
  <2> QED BY <2>1
<1>5. seen \in SUBSET Places
  BY <1>1 DEF TxRecord, PageRows, LivePlaces
<1> HIDE DEF x, pc, result, seen, page, torn
<1>6. rec \in TxRecord
  BY <1>1, <1>3, <1>4, <1>5 DEF TxRecord
<1>7. /\ rec.pc = pc /\ rec.op = x.op /\ rec.before = x.before
      /\ rec.place = x.place /\ rec.read = x.read /\ rec.write = x.write
      /\ rec.there = x.there /\ rec.seen = seen /\ rec.page = page
  BY <1>1 DEF TxRecord
<1>8. rec.torn = torn
  BY <1>1, <1>3 DEF TxRecord
<1> HIDE DEF rec
<1>9. tx'[r] = rec /\ TxMoves(r)
  BY <1>2, <1>6, RecordFrame
<1>10. Queries(r, "list", LivePlaces)
  BY <1>1, <1>7, <1>9 DEF Queries, GoesOn, x
<1>11. ~torn => ~x.torn /\ Cardinality(LivePlaces) = x.count
  BY DEF torn
<1>12. pc = IF HasNext(x.page, x.count) THEN "between" ELSE "done"
  BY DEF pc
<1> QED BY <1>1, <1>7, <1>8, <1>9, <1>10, <1>11, <1>12 DEF x, seen, page

LEMMA DrawRefusedFrame ==
  ASSUME TypeInv, NEW r \in Requests, DrawRefused(r)
  PROVE  /\ Queries(r, "draw", DrawablePlaces({})) /\ tx'[r].pc = "done"
         /\ tx'[r].seen = tx[r].seen
         /\ Cardinality(tx[r].seen) > MaxExcluded \/ DrawablePlaces(tx[r].seen) = {}
<1> DEFINE c == Client(r, "draw", DrawablePlaces({}))
           rec == [c EXCEPT !.pc = "done", !.result = "refused"]
<1>1. /\ tx[r].pc = "idle" \/ (tx[r].op = "draw" /\ tx[r].pc = "between")
      /\ UNCHANGED <<place, order, plan>>
      /\ Cardinality(tx[r].seen) > MaxExcluded \/ DrawablePlaces(tx[r].seen) = {}
  BY DEF DrawRefused, At
<1>2. tx' = [tx EXCEPT ![r] = rec]
  <2>1. CASE tx[r].pc = "idle"
    BY <2>1 DEF DrawRefused, Client, TypeInv
  <2>2. CASE tx[r].pc # "idle"
    BY <2>2 DEF DrawRefused, Client, TypeInv
  <2> QED BY <2>1, <2>2
<1>3. /\ c \in TxRecord /\ c.op = "draw"
      /\ tx[r].pc = "idle" => /\ c.before = Finished /\ c.there = DrawablePlaces({})
                              /\ c.seen = {}
      /\ tx[r].pc # "idle" => c = tx[r]
  BY <1>1, ClientRecord, LiveArePlaces
<1>4. tx[r].pc = "idle" => tx[r].seen = {}
  BY DEF TypeInv, TxOK, Idle
<1> HIDE DEF c
<1>5. rec \in TxRecord
  BY <1>3 DEF TxRecord
<1>6. /\ rec.pc = "done" /\ rec.op = c.op /\ rec.before = c.before
      /\ rec.place = c.place /\ rec.read = c.read /\ rec.write = c.write
      /\ rec.there = c.there /\ rec.seen = c.seen
  BY <1>3 DEF TxRecord
<1> HIDE DEF rec
<1>7. tx'[r] = rec /\ TxMoves(r)
  BY <1>2, <1>5, RecordFrame
<1> QED BY <1>1, <1>3, <1>4, <1>6, <1>7 DEF Queries, GoesOn

LEMMA DrawPickFrame ==
  ASSUME TypeInv, NEW r \in Requests, NEW p \in Places, DrawPick(r, p)
  PROVE  /\ Queries(r, "draw", DrawablePlaces({})) /\ tx'[r].pc = "counting"
         /\ tx'[r].seen = tx[r].seen \cup {p}
<1> DEFINE c == Client(r, "draw", DrawablePlaces({}))
           seen == tx[r].seen \cup {p}
           rec == [c EXCEPT !.pc = "counting", !.seen = seen]
<1>1. /\ tx[r].pc = "idle" \/ (tx[r].op = "draw" /\ tx[r].pc = "between")
      /\ UNCHANGED <<place, order, plan>>
  BY DEF DrawPick, At
<1>2. tx' = [tx EXCEPT ![r] = rec]
  <2>1. CASE tx[r].pc = "idle"
    BY <2>1 DEF DrawPick, Client, TypeInv
  <2>2. CASE tx[r].pc # "idle"
    BY <2>2 DEF DrawPick, Client, TypeInv
  <2> QED BY <2>1, <2>2
<1>3. /\ c \in TxRecord /\ c.op = "draw"
      /\ tx[r].pc = "idle" => c.before = Finished /\ c.there = DrawablePlaces({})
      /\ tx[r].pc # "idle" => c = tx[r]
  BY <1>1, ClientRecord, LiveArePlaces
<1>4. seen \in SUBSET Places
  BY DEF TypeInv, TxRecord
<1> HIDE DEF c, seen
<1>5. rec \in TxRecord
  BY <1>3, <1>4 DEF TxRecord
<1>6. /\ rec.pc = "counting" /\ rec.op = c.op /\ rec.before = c.before
      /\ rec.place = c.place /\ rec.read = c.read /\ rec.write = c.write
      /\ rec.there = c.there /\ rec.seen = seen
  BY <1>3 DEF TxRecord
<1> HIDE DEF rec
<1>7. tx'[r] = rec /\ TxMoves(r)
  BY <1>2, <1>5, RecordFrame
<1> QED BY <1>1, <1>3, <1>6, <1>7 DEF Queries, GoesOn, seen

LEMMA DrawRemainingFrame ==
  ASSUME TypeInv, NEW r \in Requests, DrawRemaining(r)
  PROVE  /\ Queries(r, "draw", DrawablePlaces({})) /\ tx'[r].seen = tx[r].seen
         /\ IF Cardinality(DrawablePlaces(tx[r].seen)) > 0 THEN tx'[r].pc = "between"
            ELSE tx'[r].pc = "done"
<1> DEFINE x == tx[r]
           more == CanRedraw(Cardinality(DrawablePlaces(x.seen)))
           pc == IF more THEN "between" ELSE "done"
           result == IF more THEN "none" ELSE "ok"
           rec == [x EXCEPT !.pc = pc, !.result = result]
<1>1. /\ x.op = "draw" /\ x.pc = "counting" /\ UNCHANGED <<place, order, plan>>
      /\ x \in TxRecord
  BY DEF DrawRemaining, At, TypeInv
<1>2. tx' = [tx EXCEPT ![r] = rec]
  BY DEF DrawRemaining, TypeInv
<1>3. /\ pc \in {"between", "done"} /\ result \in {"none", "ok"}
      /\ IF Cardinality(DrawablePlaces(x.seen)) > 0 THEN pc = "between" ELSE pc = "done"
  BY DEF CanRedraw
<1> HIDE DEF x, pc, result
<1>4. rec \in TxRecord
  BY <1>1, <1>3 DEF TxRecord
<1>5. /\ rec.pc = pc /\ rec.op = x.op /\ rec.before = x.before
      /\ rec.place = x.place /\ rec.read = x.read /\ rec.write = x.write
      /\ rec.there = x.there /\ rec.seen = x.seen
  BY <1>1 DEF TxRecord
<1> HIDE DEF rec
<1>6. tx'[r] = rec /\ TxMoves(r)
  BY <1>2, <1>4, RecordFrame
<1> QED BY <1>1, <1>3, <1>5, <1>6 DEF Queries, GoesOn, x

-----------------------------------------------------------------------------
(* Every step keeps the types                                              *)

\* The tables are as they were, but for the order of the list.
LEMMA QuietStep ==
  ASSUME TypeInv, NEW r \in Requests, tx[r].pc # "done", TxMoves(r), TxOK(r)',
         UNCHANGED <<place, plan>>, order' \in Seq(Places)
  PROVE  TypeInv'
<1>1. LivePlaces' = LivePlaces
  BY DEF LivePlaces
<1>2. DataOK'
  BY <1>1 DEF TypeInv, DataOK
<1> QED BY <1>2, TxStep

LEMMA CheckType ==
  ASSUME TypeInv, NEW r \in Requests, NEW op \in {"create", "update", "delete", "plan"},
         NEW passes \in BOOLEAN,
         NEW p \in Places, NEW read, NEW write, Checks(r, op, passes, p, read, write),
         order' \in Seq(Places), op # "create" /\ passes => IsThere(p),
         op = "create" /\ passes =>
           p = r /\ write \in CheckedRows /\ CoordinatesAreValid(write),
         op = "update" /\ passes =>
           /\ read \in CheckedRows /\ write \in CheckedRows
           /\ \/ CoordinatesAreValid(write)
              \/ /\ write["latitude"] = read["latitude"]
                 /\ write["longitude"] = read["longitude"]
  PROVE  TypeInv'
<1>1. /\ tx[r].pc = "idle" /\ TxMoves(r) /\ UNCHANGED <<place, plan>>
      /\ tx'[r].op = op /\ tx'[r].before = Finished /\ tx'[r].there = {}
      /\ tx'[r].place = p /\ tx'[r].read = read /\ tx'[r].write = write
      /\ tx'[r].pc = IF passes THEN "writing" ELSE "done"
  BY DEF Checks
<1>2. tx'[r].before \subseteq Finished'
  BY <1>1, FinishedStays
<1>3. tx'[r].pc = "writing" => HeldOK(tx'[r], r)
  BY <1>1 DEF HeldOK
<1>4. tx'[r].pc = "writing" /\ tx'[r].op # "create" => tx'[r].place \in Places /\ place'[tx'[r].place] \in LiveRows
  BY <1>1 DEF IsThere
<1>5. TxOK(r)'
  BY <1>1, <1>2, <1>3, <1>4 DEF TxOK, IsThere
<1> QED BY <1>1, <1>5, QuietStep

LEMMA QueryType ==
  ASSUME TypeInv, NEW r \in Requests, NEW op \in {"list", "draw"}, NEW there \in SUBSET Places,
         \A p \in there : IsThere(p), Queries(r, op, there), tx[r].pc # "done",
         tx'[r].pc \notin {"idle", "writing"},
         op = "draw" => IsFiniteSet(tx'[r].seen)
  PROVE  TypeInv'
<1>1. /\ TxMoves(r) /\ UNCHANGED <<place, order, plan>> /\ tx'[r].op = op
      /\ TxOK(r)
  BY DEF Queries, TypeInv
<1>2. Finished \subseteq Finished'
  BY <1>1, FinishedStays
<1>3. tx'[r].before \subseteq Finished' /\ \A p \in tx'[r].there : IsThere(p)
  <2>1. CASE tx[r].pc = "idle"
    BY <1>2, <2>1 DEF Queries
  <2>2. CASE tx[r].pc # "idle"
    BY <1>1, <1>2, <2>2 DEF Queries, GoesOn, TxOK
  <2> QED BY <2>1, <2>2
<1>4. TxOK(r)'
  BY <1>1, <1>3 DEF TxOK, IsThere
<1>5. order' \in Seq(Places)
  BY <1>1 DEF TypeInv, DataOK
<1> QED BY <1>1, <1>4, <1>5, QuietStep

LEMMA EndType ==
  ASSUME TypeInv, DataOK', NEW r \in Requests, tx[r].pc = "writing",
         NEW result \in {"ok", "failed"}, EndsWith(r, result),
         \A p \in Places : place[p] \in LiveRows => place'[p] \in LiveRows,
         \A q \in Requests : q # r /\ place[q] = NoPlace /\ plan[q] = NoPlan
                               => place'[q] = NoPlace /\ plan'[q] = NoPlan
  PROVE  TypeInv'
<1>1. /\ TxMoves(r) /\ tx'[r].pc = "done" /\ tx'[r].op = tx[r].op
      /\ tx'[r].before = tx[r].before /\ tx'[r].there = tx[r].there
      /\ tx'[r].seen = tx[r].seen /\ TxOK(r)
  BY DEF EndsWith, GoesOn, TypeInv
<1>2. Finished \subseteq Finished'
  BY <1>1, FinishedStays
<1>3. TxOK(r)'
  BY <1>1, <1>2 DEF TxOK, IsThere
<1> QED BY <1>1, <1>3, TxStep

LEMMA OnePlaceStep ==
  ASSUME TypeInv, NEW p \in Places, NEW x \in LiveRows, place' = [place EXCEPT ![p] = x],
         UNCHANGED <<order, plan>>
  PROVE  /\ DataOK'
         /\ \A q \in Places : place[q] \in LiveRows => place'[q] \in LiveRows
         /\ \A q \in Places : q # p => place'[q] = place[q]
         /\ place'[p] = x
<1>1. /\ place' \in [Places -> LiveRows \cup {NoPlace}] /\ place'[p] = x
      /\ \A q \in Places : q # p => place'[q] = place[q]
  BY DEF TypeInv, DataOK
<1>2. LivePlaces' \in SUBSET (LivePlaces \cup {p})
  BY <1>1 DEF LivePlaces
<1>3. IsFiniteSet(LivePlaces \cup {p})
  BY FS_AddElement DEF TypeInv, DataOK
<1>4. IsFiniteSet(LivePlaces')
  BY <1>2, <1>3, FS_Subset
<1> QED BY <1>1, <1>4 DEF TypeInv, DataOK

LEMMA CreateCommitFrame ==
  ASSUME TypeInv, NEW r \in Requests, CreateCommit(r)
  PROVE  /\ tx[r].op = "create" /\ tx[r].pc = "writing" /\ tx[r].place = r /\ r \in Places
         /\ tx[r].write \in CheckedRows /\ CoordinatesAreValid(tx[r].write)
         /\ EndsWith(r, "ok") /\ UNCHANGED <<order, plan>>
         /\ place' = [place EXCEPT ![r] = [state |-> "live", row |-> tx[r].write]]
         /\ place'[r].state = "live" /\ place'[r].row = tx[r].write
         /\ \A q \in Places : q # r => place'[q] = place[q]
<1>1. /\ tx[r].op = "create" /\ tx[r].pc = "writing" /\ UNCHANGED <<order, plan>>
      /\ place' = [place EXCEPT ![r] = [state |-> "live", row |-> tx[r].write]]
      /\ Ends(r, "ok")
  BY DEF CreateCommit, At
<1>2. EndsWith(r, "ok")
  BY <1>1, EndFrame
<1>3. /\ tx[r].place = r /\ r \in Places
      /\ tx[r].write \in CheckedRows /\ CoordinatesAreValid(tx[r].write)
  BY <1>1 DEF TypeInv, TxOK, HeldOK
<1>4. /\ place'[r] = [state |-> "live", row |-> tx[r].write]
      /\ \A q \in Places : q # r => place'[q] = place[q]
  BY <1>1, <1>3 DEF TypeInv, DataOK
<1> QED BY <1>1, <1>2, <1>3, <1>4

LEMMA UpdateCommitFrame ==
  ASSUME TypeInv, NEW r \in Requests, UpdateCommit(r)
  PROVE  /\ tx[r].op = "update" /\ tx[r].pc = "writing" /\ IsThere(tx[r].place)
         /\ HeldOK(tx[r], r)
         /\ Merged(r, place[tx[r].place].row) \in CheckedRows
         /\ EndsWith(r, "ok") /\ UNCHANGED <<order, plan>>
         /\ \E x \in LiveRows : /\ place' = [place EXCEPT ![tx[r].place] = x]
                                /\ x.state = place[tx[r].place].state
                                /\ x.row = Merged(r, place[tx[r].place].row)
<1> DEFINE p == tx[r].place
           row == Merged(r, place[p].row)
           x == [place[p] EXCEPT !.row = row]
<1>1. /\ tx[r].op = "update" /\ tx[r].pc = "writing" /\ UNCHANGED <<order, plan>>
      /\ Ends(r, "ok")
  BY DEF UpdateCommit, At
<1>2. EndsWith(r, "ok")
  BY <1>1, EndFrame
<1>3. IsThere(p) /\ HeldOK(tx[r], r)
  BY <1>1 DEF TypeInv, TxOK
<1>4. p \in Places /\ place[p] \in LiveRows /\ place[p].row \in CheckedRows
  BY <1>3, RowFacts DEF IsThere
<1>5. row \in CheckedRows
  BY <1>1, <1>3, <1>4, MergedIsChecked DEF HeldOK
<1>6. place' = [place EXCEPT ![p] = x]
  BY DEF UpdateCommit, TypeInv
<1> HIDE DEF p, row
<1>7. x \in LiveRows /\ x.state = place[p].state /\ x.row = row
  BY <1>4, <1>5 DEF LiveRows
<1> QED BY <1>1, <1>2, <1>3, <1>5, <1>6, <1>7 DEF p, row

LEMMA DeleteCommitFrame ==
  ASSUME TypeInv, NEW r \in Requests, DeleteCommit(r)
  PROVE  /\ tx[r].op = "delete" /\ tx[r].pc = "writing" /\ IsThere(tx[r].place)
         /\ EndsWith(r, "ok") /\ UNCHANGED <<order, plan>>
         /\ \E x \in LiveRows : /\ place' = [place EXCEPT ![tx[r].place] = x]
                                /\ x.state = "deleted"
                                /\ x.row = place[tx[r].place].row
<1> DEFINE p == tx[r].place
           x == [place[p] EXCEPT !.state = "deleted"]
<1>1. /\ tx[r].op = "delete" /\ tx[r].pc = "writing" /\ UNCHANGED <<order, plan>>
      /\ Ends(r, "ok")
  BY DEF DeleteCommit, At
<1>2. EndsWith(r, "ok")
  BY <1>1, EndFrame
<1>3. IsThere(p)
  BY <1>1 DEF TypeInv, TxOK
<1>4. place' = [place EXCEPT ![p] = x]
  BY DEF DeleteCommit, TypeInv
<1> HIDE DEF p
<1>5. x \in LiveRows /\ x.state = "deleted" /\ x.row = place[p].row
  BY <1>3 DEF IsThere, LiveRows
<1> QED BY <1>1, <1>2, <1>3, <1>4, <1>5 DEF p

LEMMA PlanCommitFrame ==
  ASSUME TypeInv, NEW r \in Requests, PlanCommit(r)
  PROVE  /\ tx[r].op = "plan" /\ tx[r].pc = "writing" /\ IsThere(tx[r].place)
         /\ EndsWith(r, "ok") /\ UNCHANGED <<place, order>>
         /\ plan' \in [Requests -> PlanRows]
         /\ plan'[r].status = "VOTING" /\ plan'[r].place = tx[r].place
         /\ \A q \in Requests : q # r => plan'[q] = plan[q]
<1>1. /\ tx[r].op = "plan" /\ tx[r].pc = "writing" /\ UNCHANGED <<place, order>>
      /\ Ends(r, "ok")
      /\ plan' = [plan EXCEPT ![r] = [status |-> "VOTING", place |-> tx[r].place]]
  BY DEF PlanCommit, At
<1>2. EndsWith(r, "ok")
  BY <1>1, EndFrame
<1>3. IsThere(tx[r].place) /\ tx[r].place \in Places
  BY <1>1 DEF TypeInv, TxOK, IsThere
<1>4. /\ plan' \in [Requests -> PlanRows]
      /\ plan'[r].status = "VOTING" /\ plan'[r].place = tx[r].place
      /\ \A q \in Requests : q # r => plan'[q] = plan[q]
  BY <1>1, <1>3 DEF TypeInv, DataOK, PlanRows
<1> QED BY <1>1, <1>2, <1>3, <1>4

LEMMA PlanConfirmsFrame ==
  ASSUME TypeInv, NEW r \in Requests, PlanConfirms(r)
  PROVE  /\ UNCHANGED <<place, order, tx>> /\ plan' \in [Requests -> PlanRows]
         /\ tx[r].pc = "done"
         /\ plan[r].status = "VOTING" /\ plan'[r].status = "CONFIRMED"
         /\ \A q \in Requests : plan'[q].place = plan[q].place
         /\ \A q \in Requests : q # r => plan'[q] = plan[q]
<1>1. /\ plan[r].status = "VOTING" /\ UNCHANGED <<place, order, tx>>
      /\ plan' = [plan EXCEPT ![r].status = "CONFIRMED"]
  BY DEF PlanConfirms
<1>2. plan[r] # NoPlan
  BY <1>1 DEF NoPlan
<1> QED BY <1>1, <1>2 DEF TypeInv, DataOK, PlanRows

LEMMA PrependOne ==
  ASSUME NEW S, NEW s \in Seq(S), NEW x \in S
  PROVE  <<x>> \o s \in Seq(S)
<1>1. <<x>> \in Seq(S)
  OBVIOUS
<1> QED BY <1>1

LEMMA ChecksKeepType ==
  ASSUME TypeInv, NEW r \in Requests, NEW p \in Places,
         \/ \E body \in Bodies : CreateCheck(r, body)
         \/ \E patch \in Patches : UpdateCheck(r, p, patch)
         \/ DeleteCheck(r, p) \/ PlanCheck(r, p)
         \/ \E op \in Ops : PlaceIsMissing(r, op, p)
  PROVE  TypeInv'
<1>0. order \in Seq(Places) /\ r \in Places
  BY DEF TypeInv, DataOK, Places
<1>1. ASSUME NEW body \in Bodies, CreateCheck(r, body)
      PROVE  TypeInv'
  <2> DEFINE passes == CoordinatesAreValid(body) /\ ~ExistsDuplicatePlace(body, NULL)
  <2>1. /\ Checks(r, "create", passes, r, NULL, body)
        /\ order' = order \/ order' = <<r>> \o order
    BY <1>1, CreateCheckFrame
  <2>2. order' \in Seq(Places)
    BY <2>1, <1>0, PrependOne
  <2>3. passes => body \in CheckedRows /\ CoordinatesAreValid(body)
    BY BodiesAreRows DEF CheckedRows, CoordinatesAreValid, Latitudes, Longitudes
  <2>4. passes \in BOOLEAN
    OBVIOUS
  <2> HIDE DEF passes
  <2> QED BY <1>0, <2>1, <2>2, <2>3, <2>4, CheckType
<1>2. ASSUME NEW patch \in Patches, UpdateCheck(r, p, patch)
      PROVE  TypeInv'
  <2> DEFINE read == place[p].row
             write == Patched(read, patch)
             passes == /\ PatchIsValid(read, patch) /\ ~PlaceHasActivePlan(p)
                       /\ ~ExistsDuplicatePlace(write, p)
  <2>1. /\ Checks(r, "update", passes, p, read, write) /\ IsThere(p) /\ read \in CheckedRows
        /\ order' = order
    BY <1>2, UpdateCheckFrame
  <2>2. passes => /\ write \in CheckedRows
                  /\ \/ CoordinatesAreValid(write)
                     \/ /\ write["latitude"] = read["latitude"]
                        /\ write["longitude"] = read["longitude"]
    BY <2>1, PatchedCoordinates
  <2>3. passes \in BOOLEAN
    OBVIOUS
  <2> HIDE DEF passes, read, write
  <2> QED BY <1>0, <2>1, <2>2, <2>3, CheckType
<1>3. ASSUME DeleteCheck(r, p) PROVE TypeInv'
  <2> DEFINE passes == ~PlaceHasActivePlan(p)
  <2>1. Checks(r, "delete", passes, p, NULL, NULL) /\ IsThere(p) /\ order' = order
    BY <1>3, DeleteCheckFrame
  <2>2. passes \in BOOLEAN
    OBVIOUS
  <2> HIDE DEF passes
  <2> QED BY <1>0, <2>1, <2>2, CheckType
<1>4. ASSUME PlanCheck(r, p) PROVE TypeInv'
  <2> DEFINE passes == ~PlaceHasActivePlan(p)
  <2>1. Checks(r, "plan", passes, p, NULL, NULL) /\ IsThere(p) /\ order' = order
    BY <1>4, PlanCheckFrame
  <2>2. passes \in BOOLEAN
    OBVIOUS
  <2> HIDE DEF passes
  <2> QED BY <1>0, <2>1, <2>2, CheckType
<1>5. ASSUME NEW op \in Ops, PlaceIsMissing(r, op, p) PROVE TypeInv'
  <2>1. /\ Checks(r, op, FALSE, p, NULL, NULL) /\ op \in {"update", "delete", "plan"}
        /\ order' = order
    BY <1>5, MissingFrame
  <2> DEFINE passes == FALSE
  <2>2. Checks(r, op, passes, p, NULL, NULL) /\ passes \in BOOLEAN /\ ~passes
    BY <2>1
  <2> HIDE DEF passes
  <2> QED BY <1>0, <2>1, <2>2, CheckType
<1> QED BY <1>1, <1>2, <1>3, <1>4, <1>5

LEMMA CommitsKeepType ==
  ASSUME TypeInv, NEW r \in Requests,
         \/ CreateCommit(r) \/ UpdateCommit(r) \/ DeleteCommit(r) \/ PlanCommit(r)
         \/ Fails(r) \/ PlanConfirms(r)
  PROVE  TypeInv'
<1>1. ASSUME CreateCommit(r) PROVE TypeInv'
  <2> DEFINE x == [state |-> "live", row |-> tx[r].write]
  <2>1. /\ tx[r].pc = "writing" /\ EndsWith(r, "ok") /\ tx[r].write \in CheckedRows
        /\ r \in Places /\ place' = [place EXCEPT ![r] = x] /\ UNCHANGED <<order, plan>>
    BY <1>1, CreateCommitFrame
  <2>2. x \in LiveRows
    BY <2>1 DEF LiveRows
  <2> HIDE DEF x
  <2>3. /\ DataOK'
        /\ \A q \in Places : place[q] \in LiveRows => place'[q] \in LiveRows
        /\ \A q \in Places : q # r => place'[q] = place[q]
    BY <2>1, <2>2, OnePlaceStep
  <2> QED BY <2>1, <2>3, EndType DEF Places
<1>2. ASSUME UpdateCommit(r) PROVE TypeInv'
  <2>1. /\ tx[r].pc = "writing" /\ EndsWith(r, "ok") /\ IsThere(tx[r].place)
        /\ UNCHANGED <<order, plan>>
    BY <1>2, UpdateCommitFrame
  <2>2. PICK x \in LiveRows : place' = [place EXCEPT ![tx[r].place] = x]
    BY <1>2, UpdateCommitFrame
  <2>3. /\ DataOK'
        /\ \A q \in Places : place[q] \in LiveRows => place'[q] \in LiveRows
        /\ \A q \in Places : q # tx[r].place => place'[q] = place[q]
    BY <2>1, <2>2, OnePlaceStep DEF IsThere
  <2>4. place[tx[r].place] # NoPlace
    BY <2>1, RowFacts DEF IsThere
  <2> QED BY <2>1, <2>3, <2>4, EndType DEF Places
<1>3. ASSUME DeleteCommit(r) PROVE TypeInv'
  <2>1. /\ tx[r].pc = "writing" /\ EndsWith(r, "ok") /\ IsThere(tx[r].place)
        /\ UNCHANGED <<order, plan>>
    BY <1>3, DeleteCommitFrame
  <2>2. PICK x \in LiveRows : place' = [place EXCEPT ![tx[r].place] = x]
    BY <1>3, DeleteCommitFrame
  <2>3. /\ DataOK'
        /\ \A q \in Places : place[q] \in LiveRows => place'[q] \in LiveRows
        /\ \A q \in Places : q # tx[r].place => place'[q] = place[q]
    BY <2>1, <2>2, OnePlaceStep DEF IsThere
  <2>4. place[tx[r].place] # NoPlace
    BY <2>1, RowFacts DEF IsThere
  <2> QED BY <2>1, <2>3, <2>4, EndType DEF Places
<1>4. ASSUME PlanCommit(r) PROVE TypeInv'
  <2>1. /\ tx[r].pc = "writing" /\ EndsWith(r, "ok") /\ UNCHANGED <<place, order>>
        /\ plan' \in [Requests -> PlanRows]
        /\ \A q \in Requests : q # r => plan'[q] = plan[q]
    BY <1>4, PlanCommitFrame
  <2>2. LivePlaces' = LivePlaces
    BY <2>1 DEF LivePlaces
  <2>3. DataOK'
    BY <2>1, <2>2 DEF TypeInv, DataOK
  <2> QED BY <2>1, <2>3, EndType
<1>5. ASSUME Fails(r) PROVE TypeInv'
  <2>1. tx[r].pc = "writing" /\ EndsWith(r, "failed") /\ UNCHANGED <<place, order, plan>>
    BY <1>5, EndFrame DEF Fails
  <2>2. LivePlaces' = LivePlaces
    BY <2>1 DEF LivePlaces
  <2>3. DataOK'
    BY <2>1, <2>2 DEF TypeInv, DataOK
  <2> QED BY <2>1, <2>3, EndType
<1>6. ASSUME PlanConfirms(r) PROVE TypeInv'
  <2>1. /\ UNCHANGED <<place, order, tx>> /\ plan' \in [Requests -> PlanRows]
        /\ tx[r].pc = "done"
        /\ \A q \in Requests : q # r => plan'[q] = plan[q]
    BY <1>6, PlanConfirmsFrame
  <2>2. LivePlaces' = LivePlaces /\ Finished' = Finished
    BY <2>1 DEF LivePlaces, Finished
  <2>3. DataOK'
    BY <2>1, <2>2 DEF TypeInv, DataOK
  <2>4. \A q \in Requests : TxOK(q)'
    BY <2>1, <2>2 DEF TypeInv, TxOK, IsThere
  <2>5. \A q \in Requests : tx'[q].pc # "done" => place'[q] = NoPlace /\ plan'[q] = NoPlan
    BY <2>1 DEF TypeInv
  <2> QED BY <2>1, <2>3, <2>4, <2>5 DEF TypeInv
<1> QED BY <1>1, <1>2, <1>3, <1>4, <1>5, <1>6

LEMMA WhatIsThere ==
  ASSUME TypeInv
  PROVE  /\ \A p \in LivePlaces : IsThere(p)
         /\ \A p \in DrawablePlaces({}) : IsThere(p)
BY LiveIsThere DEF LivePlaces, DrawablePlaces

LEMMA ReadsKeepType ==
  ASSUME TypeInv, NEW r \in Requests, Reads(r)
  PROVE  TypeInv'
<1>0. /\ LivePlaces \in SUBSET Places /\ \A p \in LivePlaces : IsThere(p)
      /\ DrawablePlaces({}) \in SUBSET Places /\ \A p \in DrawablePlaces({}) : IsThere(p)
  BY WhatIsThere, LiveArePlaces
<1>1. ASSUME ListCount(r) PROVE TypeInv'
  BY <1>0, <1>1, ListCountFrame, QueryType DEF Queries
<1>2. ASSUME ListRows(r) PROVE TypeInv'
  BY <1>0, <1>2, ListRowsFrame, QueryType DEF Queries
<1>3. tx[r].op = "draw" \/ tx[r].pc = "idle" => IsFiniteSet(tx[r].seen)
  <2>1. IsFiniteSet({})
    BY FS_EmptySet
  <2>2. tx[r].pc = "idle" => tx[r].seen = {}
    BY DEF TypeInv, TxOK, Idle
  <2>3. tx[r].op = "draw" => IsFiniteSet(tx[r].seen)
    BY DEF TypeInv, TxOK
  <2> QED BY <2>1, <2>2, <2>3
<1>4. ASSUME DrawRefused(r) PROVE TypeInv'
  BY <1>0, <1>3, <1>4, DrawRefusedFrame, QueryType DEF Queries
<1>5. ASSUME DrawRemaining(r) PROVE TypeInv'
  BY <1>0, <1>3, <1>5, DrawRemainingFrame, QueryType DEF Queries
<1>6. ASSUME NEW p \in Places, DrawPick(r, p) PROVE TypeInv'
  <2>1. /\ Queries(r, "draw", DrawablePlaces({})) /\ tx'[r].pc = "counting"
        /\ tx'[r].seen = tx[r].seen \cup {p}
    BY <1>6, DrawPickFrame
  <2>2. IsFiniteSet(tx'[r].seen)
    BY <1>3, <2>1, FS_AddElement DEF Queries
  <2> QED BY <1>0, <2>1, <2>2, QueryType DEF Queries
<1> QED BY <1>1, <1>2, <1>4, <1>5, <1>6 DEF Reads

LEMMA TypeInvStutters ==
  ASSUME TypeInv, UNCHANGED vars
  PROVE  TypeInv'
<1>1. LivePlaces' = LivePlaces /\ Finished' = Finished
  BY DEF vars, LivePlaces, Finished
<1>2. DataOK'
  BY <1>1 DEF vars, TypeInv, DataOK
<1>3. \A q \in Requests : TxOK(q)'
  BY <1>1 DEF vars, TypeInv, TxOK, IsThere
<1> QED BY <1>2, <1>3 DEF vars, TypeInv

LEMMA InitType == Init => TypeInv
<1> SUFFICES ASSUME Init PROVE TypeInv
  OBVIOUS
<1>1. \A p \in OldPlaces : [state |-> "live", row |-> OldRows[p]] \in LiveRows
  BY OldRowsAreRows DEF LiveRows
<1>2. \A p \in Places : place[p] \in LiveRows \cup {NoPlace}
  BY <1>1 DEF Init
<1>3. LivePlaces = OldPlaces
  BY DEF Init, LivePlaces, NoPlace, Places
<1>4. order \in Seq(Places)
  <2>1. Cardinality(OldPlaces) \in Nat
    BY OldPlacesAreFinite, FS_CardinalityType
  <2>2. order \in [1 .. Cardinality(OldPlaces) -> Places]
    BY DEF Init, Places
  <2> QED BY <2>1, <2>2
<1>5. plan \in [Requests -> PlanRows]
  <2>1. NoPlan \in PlanRows
    BY DEF NoPlan, PlanRows
  <2> QED BY <2>1 DEF Init
<1>6. DataOK
  BY <1>2, <1>3, <1>4, <1>5, OldPlacesAreFinite DEF Init, DataOK
<1>7. Idle \in TxRecord
  BY DEF Idle, TxRecord
<1>8. tx \in [Requests -> TxRecord] /\ \A r \in Requests : tx[r] = Idle
  BY <1>7 DEF Init
<1>9. \A r \in Requests : TxOK(r)
  BY <1>8 DEF TxOK, Idle
<1>10. \A r \in Requests : place[r] = NoPlace /\ plan[r] = NoPlan
  BY DEF Init, Places
<1> QED BY <1>6, <1>8, <1>9, <1>10 DEF TypeInv

LEMMA TypeInvStep == TypeInv /\ [Next]_vars => TypeInv'
<1> SUFFICES ASSUME TypeInv, [Next]_vars PROVE TypeInv'
  OBVIOUS
<1>1. CASE UNCHANGED vars
  BY <1>1, TypeInvStutters
<1>2. ASSUME NEW r \in Requests, Writes(r) \/ Reads(r) \/ PlanConfirms(r)
      PROVE  TypeInv'
  <2>1. r \in Places
    BY DEF Places
  <2>2. CASE Writes(r)
    BY <2>1, <2>2, ChecksKeepType, CommitsKeepType DEF Writes
  <2> QED BY <1>2, <2>2, ReadsKeepType, CommitsKeepType
<1> QED BY <1>1, <1>2 DEF Next

\* The tables and the locals of the handlers keep their types: no order of
\* overlapping creates, PATCHes and deletes stores a coordinate that is out of
\* range, and nobody finds a place that is not in the table.
THEOREM TypeCorrectness == Spec => []TypeOK
<1>1. Spec => []TypeInv
  BY InitType, TypeInvStep, PTL DEF Spec
<1> QED BY <1>1, TypeInvImpliesTypeOK, PTL

-----------------------------------------------------------------------------
(* What a step changes                                                     *)

WriteOps == {"create", "update", "delete", "plan"}

\* What a handler that goes on to write has made sure of.
HasChecked(r) ==
  LET x == tx'[r]
  IN  /\ x.op = "create" => x.place = r /\ ~ExistsDuplicatePlace(x.write, NULL)
      /\ x.op = "update" => /\ x.read = place[x.place].row
                            /\ ~ExistsDuplicatePlace(x.write, x.place)
      /\ x.op # "create" => /\ x.place \in Places /\ place[x.place].state = "live"
                            /\ ~PlaceHasActivePlan(x.place)

\* What a handler writes.
HasWritten(r) ==
  LET x == tx[r]
  IN  /\ \A q \in Places : q # x.place => place'[q] = place[q]
      /\ \A q \in Requests : q # r => plan'[q] = plan[q]
      /\ x.op = "create" => /\ x.place = r /\ place[r] = NoPlace
                            /\ place'[r].state = "live" /\ place'[r].row = x.write
      /\ x.op = "update" => /\ place'[x.place].state = place[x.place].state
                            /\ place'[x.place].row = Merged(r, place[x.place].row)
      /\ x.op = "delete" => /\ place'[x.place].state = "deleted"
                            /\ place'[x.place].row = place[x.place].row
      /\ IF x.op = "plan"
         THEN /\ plan[r] = NoPlan /\ plan'[r].place = x.place
              /\ plan'[r].status = "VOTING" /\ place' = place
         ELSE plan' = plan

StepOf(r) ==
  /\ \A s \in Requests : s # r => tx'[s] = tx[s]
  /\ \A p \in Places : IsThere(p) => place'[p] \in LiveRows
  /\ \/ \* its checks, or a query
        /\ tx[r].pc = "idle" /\ tx'[r].pc # "idle" /\ tx'[r].before = Finished
        /\ UNCHANGED <<place, plan>>
        /\ Succeeded(r)' => tx'[r].op \notin WriteOps
        /\ tx'[r].pc = "writing" => HasChecked(r)
     \/ \* a query
        /\ tx[r].pc \notin {"idle", "writing", "done"} /\ GoesOn(r)
        /\ tx'[r].pc \notin {"idle", "writing"}
        /\ tx[r].op \notin WriteOps
        /\ UNCHANGED <<place, plan>>
     \/ \* its writes
        /\ tx[r].pc = "writing" /\ tx[r].op \in WriteOps /\ tx[r].place \in Places
        /\ EndsWith(r, "ok") /\ HasWritten(r)
     \/ \* its rollback
        /\ tx[r].pc = "writing" /\ EndsWith(r, "failed") /\ UNCHANGED <<place, plan>>
     \/ \* the plan it has made
        /\ UNCHANGED <<place, tx>>
        /\ plan[r].status = "VOTING" /\ plan'[r].status = "CONFIRMED"
        /\ plan'[r].place = plan[r].place
        /\ \A q \in Requests : q # r => plan'[q] = plan[q]

LEMMA ChecksAreSteps ==
  ASSUME TypeInv, NEW r \in Requests, NEW p \in Places,
         \/ \E body \in Bodies : CreateCheck(r, body)
         \/ \E patch \in Patches : UpdateCheck(r, p, patch)
         \/ DeleteCheck(r, p) \/ PlanCheck(r, p)
         \/ \E op \in Ops : PlaceIsMissing(r, op, p)
  PROVE  StepOf(r)
<1>1. ASSUME NEW op, NEW passes \in BOOLEAN, NEW q, NEW read, NEW write,
             Checks(r, op, passes, q, read, write), passes => HasChecked(r)
      PROVE  StepOf(r)
  <2>1. /\ tx[r].pc = "idle" /\ tx'[r].pc # "idle" /\ tx'[r].before = Finished
        /\ UNCHANGED <<place, plan>>
        /\ \A s \in Requests : s # r => tx'[s] = tx[s]
    BY <1>1 DEF Checks, TxMoves
  <2>2. ~Succeeded(r)' /\ (tx'[r].pc = "writing" => HasChecked(r))
    BY <1>1 DEF Checks, Succeeded
  <2>3. \A s \in Places : IsThere(s) => place'[s] \in LiveRows
    BY <2>1 DEF IsThere
  <2> QED BY <2>1, <2>2, <2>3 DEF StepOf
<1>2. ASSUME NEW body \in Bodies, CreateCheck(r, body)
      PROVE  StepOf(r)
  <2> DEFINE passes == CoordinatesAreValid(body) /\ ~ExistsDuplicatePlace(body, NULL)
  <2>1. Checks(r, "create", passes, r, NULL, body)
    BY <1>2, CreateCheckFrame
  <2>2. passes => HasChecked(r)
    BY <2>1 DEF Checks, HasChecked
  <2> HIDE DEF passes
  <2>3. passes \in BOOLEAN
    BY DEF passes
  <2> QED BY <1>1, <2>1, <2>2, <2>3
<1>3. ASSUME NEW patch \in Patches, UpdateCheck(r, p, patch)
      PROVE  StepOf(r)
  <2> DEFINE read == place[p].row
             write == Patched(read, patch)
             passes == /\ PatchIsValid(read, patch) /\ ~PlaceHasActivePlan(p)
                       /\ ~ExistsDuplicatePlace(write, p)
  <2>1. Checks(r, "update", passes, p, read, write) /\ place[p].state = "live"
    BY <1>3, UpdateCheckFrame
  <2>2. passes => HasChecked(r)
    BY <2>1 DEF Checks, HasChecked
  <2> HIDE DEF passes, read, write
  <2>3. passes \in BOOLEAN
    BY DEF passes
  <2> QED BY <1>1, <2>1, <2>2, <2>3
<1>4. ASSUME NEW op \in {"delete", "plan"},
             Checks(r, op, ~PlaceHasActivePlan(p), p, NULL, NULL), place[p].state = "live"
      PROVE  StepOf(r)
  <2> DEFINE passes == ~PlaceHasActivePlan(p)
  <2>1. passes => HasChecked(r)
    BY <1>4 DEF Checks, HasChecked
  <2>2. Checks(r, op, passes, p, NULL, NULL) /\ passes \in BOOLEAN
    BY <1>4
  <2> HIDE DEF passes
  <2> QED BY <1>1, <2>1, <2>2
<1>5. ASSUME NEW op \in Ops, PlaceIsMissing(r, op, p) PROVE StepOf(r)
  <2> DEFINE passes == FALSE
  <2>1. Checks(r, op, passes, p, NULL, NULL) /\ passes \in BOOLEAN /\ ~passes
    BY <1>5, MissingFrame
  <2> HIDE DEF passes
  <2> QED BY <1>1, <2>1
<1> QED BY <1>2, <1>3, <1>4, <1>5, DeleteCheckFrame, PlanCheckFrame

LEMMA CommitsAreSteps ==
  ASSUME TypeInv, TypeInv', NEW r \in Requests,
         \/ CreateCommit(r) \/ UpdateCommit(r) \/ DeleteCommit(r) \/ PlanCommit(r)
         \/ Fails(r) \/ PlanConfirms(r)
  PROVE  StepOf(r)
<1>0. tx[r].pc = "writing" => place[r] = NoPlace /\ plan[r] = NoPlan
  BY DEF TypeInv
<1>1. ASSUME CreateCommit(r) PROVE StepOf(r)
  <2>1. /\ tx[r].pc = "writing" /\ tx[r].op = "create" /\ tx[r].place = r /\ r \in Places
        /\ EndsWith(r, "ok") /\ UNCHANGED plan
        /\ place'[r].state = "live" /\ place'[r].row = tx[r].write
        /\ \A q \in Places : q # r => place'[q] = place[q]
    BY <1>1, CreateCommitFrame
  <2>2. \A s \in Requests : s # r => tx'[s] = tx[s]
    BY <2>1 DEF EndsWith, GoesOn, TxMoves
  <2>3. \A p \in Places : IsThere(p) => place'[p] \in LiveRows
    BY <1>0, <2>1, RowFacts DEF IsThere
  <2>4. HasWritten(r)
    BY <1>0, <2>1 DEF HasWritten
  <2> QED BY <2>1, <2>2, <2>3, <2>4 DEF StepOf, WriteOps
<1>2. ASSUME UpdateCommit(r) PROVE StepOf(r)
  <2>1. /\ tx[r].pc = "writing" /\ tx[r].op = "update" /\ IsThere(tx[r].place)
        /\ EndsWith(r, "ok") /\ UNCHANGED plan
    BY <1>2, UpdateCommitFrame
  <2>2. PICK x \in LiveRows : /\ place' = [place EXCEPT ![tx[r].place] = x]
                              /\ x.state = place[tx[r].place].state
                              /\ x.row = Merged(r, place[tx[r].place].row)
    BY <1>2, UpdateCommitFrame
  <2>3. /\ \A p \in Places : place[p] \in LiveRows => place'[p] \in LiveRows
        /\ \A p \in Places : p # tx[r].place => place'[p] = place[p]
        /\ place'[tx[r].place] = x
    BY <2>1, <2>2, OnePlaceStep DEF UpdateCommit, IsThere, TypeInv, DataOK
  <2>4. HasWritten(r)
    BY <2>1, <2>2, <2>3 DEF HasWritten
  <2>5. \A s \in Requests : s # r => tx'[s] = tx[s]
    BY <2>1 DEF EndsWith, GoesOn, TxMoves
  <2> QED BY <2>1, <2>3, <2>4, <2>5 DEF StepOf, WriteOps, IsThere
<1>3. ASSUME DeleteCommit(r) PROVE StepOf(r)
  <2>1. /\ tx[r].pc = "writing" /\ tx[r].op = "delete" /\ IsThere(tx[r].place)
        /\ EndsWith(r, "ok") /\ UNCHANGED plan
    BY <1>3, DeleteCommitFrame
  <2>2. PICK x \in LiveRows : /\ place' = [place EXCEPT ![tx[r].place] = x]
                              /\ x.state = "deleted"
                              /\ x.row = place[tx[r].place].row
    BY <1>3, DeleteCommitFrame
  <2>3. /\ \A p \in Places : place[p] \in LiveRows => place'[p] \in LiveRows
        /\ \A p \in Places : p # tx[r].place => place'[p] = place[p]
        /\ place'[tx[r].place] = x
    BY <2>1, <2>2, OnePlaceStep DEF DeleteCommit, IsThere, TypeInv, DataOK
  <2>4. HasWritten(r)
    BY <2>1, <2>2, <2>3 DEF HasWritten
  <2>5. \A s \in Requests : s # r => tx'[s] = tx[s]
    BY <2>1 DEF EndsWith, GoesOn, TxMoves
  <2> QED BY <2>1, <2>3, <2>4, <2>5 DEF StepOf, WriteOps, IsThere
<1>4. ASSUME PlanCommit(r) PROVE StepOf(r)
  <2>1. /\ tx[r].pc = "writing" /\ tx[r].op = "plan" /\ IsThere(tx[r].place)
        /\ EndsWith(r, "ok") /\ UNCHANGED place
        /\ plan'[r].status = "VOTING" /\ plan'[r].place = tx[r].place
        /\ \A q \in Requests : q # r => plan'[q] = plan[q]
    BY <1>4, PlanCommitFrame
  <2>2. HasWritten(r)
    BY <1>0, <2>1 DEF HasWritten
  <2>3. \A s \in Requests : s # r => tx'[s] = tx[s]
    BY <2>1 DEF EndsWith, GoesOn, TxMoves
  <2> QED BY <2>1, <2>2, <2>3 DEF StepOf, WriteOps, IsThere
<1>5. ASSUME Fails(r) PROVE StepOf(r)
  <2>1. tx[r].pc = "writing" /\ EndsWith(r, "failed") /\ UNCHANGED <<place, plan>>
    BY <1>5, EndFrame DEF Fails
  <2>2. \A s \in Requests : s # r => tx'[s] = tx[s]
    BY <2>1 DEF EndsWith, GoesOn, TxMoves
  <2> QED BY <2>1, <2>2 DEF StepOf, IsThere
<1>6. ASSUME PlanConfirms(r) PROVE StepOf(r)
  <2>1. /\ UNCHANGED <<place, tx>>
        /\ plan[r].status = "VOTING" /\ plan'[r].status = "CONFIRMED"
        /\ plan'[r].place = plan[r].place
        /\ \A q \in Requests : q # r => plan'[q] = plan[q]
    BY <1>6, PlanConfirmsFrame
  <2> QED BY <2>1 DEF StepOf, IsThere
<1> QED BY <1>1, <1>2, <1>3, <1>4, <1>5, <1>6

LEMMA ReadsAreSteps ==
  ASSUME TypeInv, NEW r \in Requests, Reads(r)
  PROVE  StepOf(r)
<1>1. ASSUME NEW op \in {"list", "draw"}, NEW there, Queries(r, op, there), tx[r].pc # "done",
             tx'[r].pc \notin {"idle", "writing"}
      PROVE  StepOf(r)
  <2>1. /\ UNCHANGED <<place, plan>> /\ tx'[r].op = op /\ op \notin WriteOps
        /\ \A s \in Requests : s # r => tx'[s] = tx[s]
    BY <1>1 DEF Queries, TxMoves, WriteOps
  <2>2. CASE tx[r].pc = "idle"
    BY <1>1, <2>1, <2>2 DEF StepOf, IsThere, Queries
  <2>3. CASE tx[r].pc # "idle"
    <3>1. tx[r].op = op /\ GoesOn(r)
      BY <1>1, <2>3 DEF Queries
    <3>2. tx[r].pc # "writing"
      BY <3>1, <2>1 DEF TypeInv, TxOK, HeldOK, WriteOps
    <3> QED BY <1>1, <2>1, <2>3, <3>1, <3>2 DEF StepOf, IsThere
  <2> QED BY <2>2, <2>3
<1>2. ASSUME ListCount(r) PROVE StepOf(r)
  BY <1>1, <1>2, ListCountFrame DEF Queries
<1>3. ASSUME ListRows(r) PROVE StepOf(r)
  BY <1>1, <1>3, ListRowsFrame DEF Queries
<1>4. ASSUME DrawRefused(r) PROVE StepOf(r)
  BY <1>1, <1>4, DrawRefusedFrame DEF Queries
<1>5. ASSUME DrawRemaining(r) PROVE StepOf(r)
  BY <1>1, <1>5, DrawRemainingFrame DEF Queries
<1>6. ASSUME NEW p \in Places, DrawPick(r, p) PROVE StepOf(r)
  BY <1>1, <1>6, DrawPickFrame DEF Queries
<1> QED BY <1>2, <1>3, <1>4, <1>5, <1>6 DEF Reads

LEMMA StepOfRequest ==
  ASSUME TypeInv, TypeInv', NEW r \in Requests, Writes(r) \/ Reads(r) \/ PlanConfirms(r)
  PROVE  StepOf(r)
<1>1. r \in Places
  BY DEF Places
<1>2. CASE Writes(r)
  BY <1>1, <1>2, ChecksAreSteps, CommitsAreSteps DEF Writes
<1> QED BY <1>2, ReadsAreSteps, CommitsAreSteps

LEMMA NextIsStep ==
  ASSUME TypeInv, TypeInv', [Next]_vars
  PROVE  UNCHANGED vars \/ \E r \in Requests : StepOf(r)
BY StepOfRequest DEF Next

-----------------------------------------------------------------------------
(* One request after the other                                             *)

\* A delete and a plan are for good, and a handler that comes later has seen
\* them in its checks.
SerialInv ==
  /\ \A r \in Requests : Succeeded(r) /\ tx[r].op \in {"delete", "plan"} =>
       /\ tx[r].place \in Places
       /\ tx[r].op = "delete" => place[tx[r].place].state = "deleted"
       /\ tx[r].op = "plan" => /\ plan[r].place = tx[r].place
                               /\ plan[r].status \in {"VOTING", "CONFIRMED"}
  /\ \A s \in Requests :
       /\ tx[s].pc = "writing" \/ Succeeded(s)
       /\ tx[s].op \in {"update", "delete", "plan"}
       => \A r \in tx[s].before :
            Succeeded(r) /\ tx[r].place = tx[s].place => tx[r].op \notin {"delete", "plan"}

LEMMA SerialInvImplies == SerialInv => SerialRequestsRespectPlans
BY DEF SerialInv, SerialRequestsRespectPlans

\* What a step leaves of the past.
LEMMA PastStays ==
  ASSUME TypeInv, NEW r \in Requests, StepOf(r), NEW s \in Requests
  PROVE  /\ tx[s].pc = "done" => tx'[s] = tx[s] /\ (Succeeded(s) <=> Succeeded(s)')
         /\ tx[s].pc # "idle" => /\ tx'[s].op = tx[s].op /\ tx'[s].place = tx[s].place
                                 /\ tx'[s].before = tx[s].before
                                 /\ tx'[s].read = tx[s].read /\ tx'[s].write = tx[s].write
                                 /\ tx'[s].there = tx[s].there
         /\ tx[s].pc = "idle" => tx'[s] = tx[s] \/ (s = r /\ tx'[s].before = Finished)
<1>1. CASE s # r
  BY <1>1 DEF StepOf, Succeeded
<1>2. CASE s = r
  BY <1>2 DEF StepOf, GoesOn, EndsWith, Succeeded
<1> QED BY <1>1, <1>2

LEMMA SerialInvStep ==
  ASSUME TypeInv, TypeInv', SerialInv, NEW r \in Requests, StepOf(r)
  PROVE  SerialInv'
<1>1. ASSUME NEW q \in Requests, Succeeded(q)', tx'[q].op \in {"delete", "plan"}
      PROVE  /\ tx'[q].place \in Places
             /\ tx'[q].op = "delete" => place'[tx'[q].place].state = "deleted"
             /\ tx'[q].op = "plan" => /\ plan'[q].place = tx'[q].place
                                      /\ plan'[q].status \in {"VOTING", "CONFIRMED"}
  <2>1. CASE Succeeded(q)
    <3>1. tx'[q] = tx[q]
      BY <2>1, PastStays DEF Succeeded
    <3>2. /\ tx[q].place \in Places
          /\ tx[q].op = "delete" => place[tx[q].place].state = "deleted"
          /\ tx[q].op = "plan" => /\ plan[q].place = tx[q].place
                                  /\ plan[q].status \in {"VOTING", "CONFIRMED"}
      BY <1>1, <2>1, <3>1 DEF SerialInv
    <3>3. tx[q].op = "delete" => place'[tx[q].place].state = "deleted"
      <4>1. ASSUME NEW p \in Places, place[p].state = "deleted"
            PROVE  place'[p].state = "deleted"
        <5>1. place[p] # NoPlace
          BY <4>1 DEF NoPlace
        <5>2. CASE place' = place
          BY <4>1, <5>2
        <5>3. CASE HasWritten(r) /\ tx[r].op \in WriteOps
          BY <4>1, <5>1, <5>3 DEF HasWritten, WriteOps
        <5> QED BY <5>2, <5>3 DEF StepOf
      <4> QED BY <3>2, <4>1
    <3>4. tx[q].op = "plan" => /\ plan'[q].place = tx[q].place
                               /\ plan'[q].status \in {"VOTING", "CONFIRMED"}
      <4>1. CASE plan' = plan
        BY <3>2, <4>1
      <4>2. CASE plan[r].status = "VOTING" /\ plan'[r].status = "CONFIRMED"
                   /\ plan'[r].place = plan[r].place
                   /\ \A z \in Requests : z # r => plan'[z] = plan[z]
        BY <3>2, <4>2
      <4>3. CASE HasWritten(r) /\ tx[r].pc = "writing"
        <5>1. q # r
          BY <2>1, <4>3 DEF Succeeded
        <5> QED BY <3>2, <4>3, <5>1 DEF HasWritten
      <4> QED BY <4>1, <4>2, <4>3 DEF StepOf
    <3> QED BY <3>1, <3>2, <3>3, <3>4
  <2>2. CASE ~Succeeded(q)
    <3>1. q = r
      BY <1>1, <2>2 DEF StepOf, Succeeded
    <3>2. /\ tx[r].pc = "writing" /\ tx[r].op \in WriteOps /\ tx[r].place \in Places
          /\ EndsWith(r, "ok") /\ HasWritten(r)
      BY <1>1, <2>2, <3>1 DEF StepOf, Succeeded, EndsWith, GoesOn, WriteOps
    <3>3. tx'[r].op = tx[r].op /\ tx'[r].place = tx[r].place
      BY <3>2 DEF EndsWith, GoesOn
    <3> QED BY <1>1, <3>1, <3>2, <3>3 DEF HasWritten
  <2> QED BY <2>1, <2>2
<1>2. ASSUME NEW s \in Requests,
             tx'[s].pc = "writing" \/ Succeeded(s)',
             tx'[s].op \in {"update", "delete", "plan"},
             NEW q \in tx'[s].before,
             Succeeded(q)', tx'[q].place = tx'[s].place
      PROVE  tx'[q].op \notin {"delete", "plan"}
  <2>1. CASE tx[s].pc = "idle"
    <3>1. s = r /\ tx'[s].before = Finished /\ tx'[r].pc = "writing" /\ HasChecked(r)
      <4>1. tx[s].pc # tx'[s].pc
        BY <1>2, <2>1 DEF Succeeded
      <4>2. s = r
        BY <4>1 DEF StepOf
      <4> QED BY <1>2, <2>1, <4>1, <4>2 DEF StepOf, WriteOps, GoesOn, EndsWith
    <3>2. q \in Requests /\ tx[q].pc = "done" /\ tx'[q] = tx[q] /\ Succeeded(q)
      BY <1>2, <3>1, PastStays DEF Finished
    <3>3. /\ tx'[r].place \in Places /\ place[tx'[r].place].state = "live"
          /\ ~PlaceHasActivePlan(tx'[r].place)
      BY <1>2, <3>1 DEF HasChecked
    <3>4. tx[q].place = tx'[r].place
      BY <1>2, <3>1, <3>2
    <3>5. tx[q].op # "delete"
      BY <3>2, <3>3, <3>4 DEF SerialInv
    <3>6. tx[q].op # "plan"
      BY <3>2, <3>3, <3>4 DEF SerialInv, PlaceHasActivePlan
    <3> QED BY <3>2, <3>5, <3>6
  <2>2. CASE tx[s].pc # "idle"
    <3>1. /\ tx'[s].op = tx[s].op /\ tx'[s].place = tx[s].place
          /\ tx'[s].before = tx[s].before
      BY <2>2, PastStays
    <3>2. tx[s].pc = "writing" \/ Succeeded(s)
      <4>1. CASE s = r
        BY <1>2, <2>2, <3>1, <4>1 DEF StepOf, WriteOps, Succeeded
      <4>2. CASE s # r
        BY <1>2, <4>2 DEF StepOf, Succeeded
      <4> QED BY <4>1, <4>2
    <3>3. q \in Requests /\ tx[q].pc = "done"
      BY <3>1, <1>2 DEF TypeInv, TxOK, Finished
    <3>4. tx'[q] = tx[q] /\ Succeeded(q)
      BY <1>2, <3>3, PastStays
    <3> QED BY <1>2, <3>1, <3>2, <3>4 DEF SerialInv
  <2> QED BY <2>1, <2>2
<1> QED BY <1>1, <1>2 DEF SerialInv

LEMMA SerialInvInit == Init => SerialInv
BY DEF Init, SerialInv, Succeeded, Idle

\* Nothing later edits, deletes or plans a place that is deleted or planned.
THEOREM PlansAreRespected == Spec => []SerialRequestsRespectPlans
<1>1. TypeInv /\ TypeInv' /\ SerialInv /\ [Next]_vars => SerialInv'
  <2>1. UNCHANGED vars /\ SerialInv => SerialInv'
    BY DEF vars, SerialInv, Succeeded
  <2> QED BY <2>1, NextIsStep, SerialInvStep
<1>2. Spec => []TypeInv
  BY InitType, TypeInvStep, PTL DEF Spec
<1>3. Spec => []SerialInv
  BY <1>1, <1>2, SerialInvInit, PTL DEF Spec
<1> QED BY <1>3, SerialInvImplies, PTL

-----------------------------------------------------------------------------
(* Two requests at a time                                                  *)

WritesFields(r) == tx[r].pc = "writing" /\ tx[r].op \in {"create", "update"}

\* Somebody has written p since r began.
WrittenSince(r, p) == \E s \in Writers(p) : s \notin tx[r].before

\* What a handler has checked is still so, or somebody else was faster.
ChecksHold ==
  /\ \A r \in Requests : WritesFields(r) /\ tx[r].op = "update" =>
       place[tx[r].place].row = tx[r].read \/ WrittenSince(r, tx[r].place)
  /\ \A r \in Requests : WritesFields(r) =>
       \A q \in LivePlaces \ {tx[r].place} :
         ~SamePlace(tx[r].write, place[q].row) \/ WrittenSince(r, q)

OverlapInv == ChecksHold /\ CoordinatesComeInPairs /\ DuplicatesOnlyByOverlap

LEMMA SamePlaceIsSymmetric ==
  ASSUME NEW a, NEW b, SamePlace(a, b)
  PROVE  SamePlace(b, a) /\ IsDuplicate(a, b)
BY DEF SamePlace, IsDuplicate, HasValidCoordinates

LEMMA ValidCoordinatesArePairs ==
  ASSUME NEW row, CoordinatesAreValid(row)
  PROVE  (row["latitude"] = NULL) <=> (row["longitude"] = NULL)
BY DEF CoordinatesAreValid

LEMMA WritersStay ==
  ASSUME TypeInv, NEW r \in Requests, StepOf(r), NEW p
  PROVE  /\ Writers(p) \subseteq Writers(p)'
         /\ \A s \in Writers(p) : tx[s].pc = "done" /\ tx'[s] = tx[s] /\ s \in Requests
<1>1. \A s \in Writers(p) : tx[s].pc = "done" /\ tx'[s] = tx[s] /\ s \in Requests
  BY PastStays DEF Writers, Succeeded
<1> QED BY <1>1 DEF Writers, Succeeded

LEMMA ConflictStays ==
  ASSUME TypeInv, NEW r \in Requests, StepOf(r), NEW p, NEW q,
         Conflict(Writers(p) \cup Writers(q))
  PROVE  Conflict(Writers(p) \cup Writers(q))'
<1>1. PICK s, t \in Writers(p) \cup Writers(q) : Overlap(s, t)
  BY DEF Conflict
<1>2. tx'[s] = tx[s] /\ tx'[t] = tx[t]
  BY WritersStay
<1>3. Overlap(s, t)'
  BY <1>1, <1>2 DEF Overlap
<1>4. s \in (Writers(p) \cup Writers(q))' /\ t \in (Writers(p) \cup Writers(q))'
  BY WritersStay
<1> QED BY <1>3, <1>4 DEF Conflict

\* A handler that ends although somebody was faster makes a conflict.
LEMMA LateWriteConflicts ==
  ASSUME TypeInv, NEW r \in Requests, StepOf(r), WritesFields(r), EndsWith(r, "ok"),
         NEW p, p = tx[r].place, NEW q, WrittenSince(r, q)
  PROVE  /\ r \in Writers(p)'
         /\ Conflict(Writers(p) \cup Writers(q))'
<1>1. PICK s \in Writers(q) : s \notin tx[r].before
  BY DEF WrittenSince
<1>2. s \in Requests /\ tx[s].pc = "done" /\ tx'[s] = tx[s] /\ s \in Writers(q)'
  BY WritersStay
<1>3. r # s /\ r \notin tx[s].before /\ tx'[r].before = tx[r].before
  BY <1>2 DEF WritesFields, TypeInv, TxOK, Finished, EndsWith, GoesOn
<1>4. Overlap(r, s)'
  BY <1>1, <1>2, <1>3 DEF Overlap
<1>5. r \in Writers(p)'
  BY DEF Writers, Succeeded, EndsWith, GoesOn, WritesFields
<1>6. Conflict(Writers(p) \cup Writers(q))'
  BY <1>2, <1>4, <1>5 DEF Conflict
<1> QED BY <1>5, <1>6

\* How a row may have changed.
LEMMA RowStep ==
  ASSUME TypeInv, NEW r \in Requests, StepOf(r), NEW p \in Places
  PROVE  \/ place'[p] = place[p]
         \/ /\ place[p] # NoPlace /\ place'[p].row = place[p].row
            /\ place'[p].state = "deleted"
         \/ /\ p = tx[r].place /\ WritesFields(r) /\ EndsWith(r, "ok")
            /\ IF tx[r].op = "create" THEN place'[p].row = tx[r].write
               ELSE /\ place[p] # NoPlace /\ place'[p].state = place[p].state
                    /\ place'[p].row = Merged(r, place[p].row)
<1>1. CASE place' = place
  BY <1>1
<1>2. CASE tx[r].pc = "writing" /\ tx[r].op \in WriteOps /\ EndsWith(r, "ok") /\ HasWritten(r)
  <2>1. CASE p # tx[r].place
    BY <1>2, <2>1 DEF HasWritten
  <2>2. CASE p = tx[r].place
    <3>1. tx[r].op \in {"update", "delete"} => place[p] # NoPlace
      BY <1>2, <2>2, RowFacts DEF TypeInv, TxOK, IsThere
    <3> QED BY <1>2, <2>2, <3>1 DEF HasWritten, WritesFields, WriteOps
  <2> QED BY <2>1, <2>2
<1> QED BY <1>1, <1>2 DEF StepOf

LEMMA NewWriterIsLate ==
  ASSUME TypeInv, NEW r \in Requests, StepOf(r), WritesFields(r), EndsWith(r, "ok"),
         NEW s \in Requests, s # r, tx[s].pc = "writing", NEW p, p = tx[r].place
  PROVE  WrittenSince(s, p)'
<1>1. r \in Writers(p)'
  BY DEF Writers, Succeeded, EndsWith, GoesOn, WritesFields
<1>2. r \notin tx'[s].before
  <2>1. tx'[s] = tx[s] /\ r \notin Finished /\ tx[s].before \subseteq Finished
    BY DEF StepOf, WritesFields, Finished, TypeInv, TxOK
  <2> QED BY <2>1
<1> QED BY <1>1, <1>2 DEF WrittenSince

LEMMA WrittenSinceStays ==
  ASSUME TypeInv, NEW r \in Requests, StepOf(r), NEW s \in Requests, tx[s].pc # "idle",
         NEW p, WrittenSince(s, p)
  PROVE  WrittenSince(s, p)'
<1>1. PICK t \in Writers(p) : t \notin tx[s].before
  BY DEF WrittenSince
<1>2. t \in Writers(p)'
  BY WritersStay
<1>3. t \notin tx'[s].before
  BY <1>1, PastStays
<1> QED BY <1>2, <1>3 DEF WrittenSince

LEMMA LiveWas ==
  ASSUME TypeInv, NEW r \in Requests, StepOf(r), NEW q \in LivePlaces'
  PROVE  /\ q \in Places
         /\ \/ q \in LivePlaces /\ place'[q].row = place[q].row
            \/ /\ q = tx[r].place /\ WritesFields(r) /\ EndsWith(r, "ok")
               /\ \/ tx[r].op = "create" /\ place'[q].row = tx[r].write
                  \/ /\ tx[r].op = "update" /\ q \in LivePlaces
                     /\ place'[q].row = Merged(r, place[q].row)
<1>1. q \in Places /\ place'[q].state = "live"
  BY DEF LivePlaces
<1> QED BY <1>1, RowStep DEF LivePlaces, WritesFields

LEMMA ChecksHoldStep ==
  ASSUME TypeInv, TypeInv', ChecksHold, NEW r \in Requests, StepOf(r)
  PROVE  ChecksHold'
<1>1. ASSUME NEW s \in Requests, WritesFields(s)', NEW p, p = tx'[s].place
      PROVE  /\ tx'[s].op = "update" =>
                  place'[p].row = tx'[s].read \/ WrittenSince(s, p)'
             /\ \A q \in LivePlaces' \ {p} :
                  ~SamePlace(tx'[s].write, place'[q].row) \/ WrittenSince(s, q)'
  <2>0. p \in Places /\ (tx'[s].op = "update" => place'[p] \in LiveRows)
    BY <1>1 DEF WritesFields, TypeInv, TxOK, HeldOK, IsThere
  <2>1. CASE tx[s].pc = "idle"
    <3>1. s = r /\ tx'[r].pc = "writing" /\ HasChecked(r) /\ place' = place
      BY <1>1, <2>1 DEF WritesFields, StepOf
    <3>2. LivePlaces' = LivePlaces
      BY <3>1 DEF LivePlaces
    <3>3. tx'[s].op = "update" => place'[p].row = tx'[s].read
      BY <1>1, <3>1 DEF HasChecked
    <3>4. ASSUME NEW q \in LivePlaces' \ {p}, SamePlace(tx'[s].write, place'[q].row)
          PROVE  FALSE
      <4>1. IsDuplicate(tx'[s].write, place[q].row)
        BY <3>1, <3>4, SamePlaceIsSymmetric
      <4>2. CASE tx'[s].op = "create"
        <5>1. ~ExistsDuplicatePlace(tx'[s].write, NULL)
          BY <3>1, <4>2 DEF HasChecked
        <5>2. q # NULL /\ q \in LivePlaces
          BY <3>2 DEF LivePlaces
        <5> QED BY <4>1, <5>1, <5>2 DEF ExistsDuplicatePlace
      <4>3. CASE tx'[s].op = "update"
        <5>1. ~ExistsDuplicatePlace(tx'[s].write, p)
          BY <1>1, <3>1, <4>3 DEF HasChecked
        <5> QED BY <3>2, <4>1, <5>1 DEF ExistsDuplicatePlace
      <4> QED BY <1>1, <4>2, <4>3 DEF WritesFields
    <3> QED BY <3>3, <3>4
  <2>2. CASE tx[s].pc # "idle"
    <3>1. WritesFields(s) /\ (s # r \/ UNCHANGED <<place, tx>>)
      BY <1>1, <2>2 DEF WritesFields, StepOf, EndsWith
    <3>2. /\ tx'[s].write = tx[s].write /\ tx'[s].read = tx[s].read
          /\ tx'[s].op = tx[s].op /\ p = tx[s].place
      BY <1>1, <2>2, PastStays
    <3>3. tx[s].pc = "writing"
      BY <3>1 DEF WritesFields
    <3>4. ASSUME NEW q \in Places, place'[q] # NoPlace, place'[q].state = "live" \/ place[q] # NoPlace
          PROVE  place'[q].row = place[q].row \/ WrittenSince(s, q)'
      <4>1. CASE UNCHANGED <<place, tx>>
        BY <4>1
      <4>2. CASE s # r
        BY <3>3, <4>2, RowStep, NewWriterIsLate
      <4> QED BY <3>1, <4>1, <4>2
    <3>5. tx'[s].op = "update" => place'[p].row = tx'[s].read \/ WrittenSince(s, p)'
      <4>1. SUFFICES ASSUME tx'[s].op = "update"
                     PROVE  place'[p].row = tx'[s].read \/ WrittenSince(s, p)'
        OBVIOUS
      <4>2. place[p].row = tx[s].read \/ WrittenSince(s, p)
        BY <3>1, <3>2, <4>1 DEF ChecksHold
      <4>3. place[p] # NoPlace /\ place'[p] # NoPlace
        BY <2>0, <3>1, <3>2, <3>3, <4>1, RowFacts DEF TypeInv, TxOK, IsThere
      <4> QED BY <2>0, <3>2, <3>3, <3>4, <4>2, <4>3, WrittenSinceStays
    <3>6. ASSUME NEW q \in LivePlaces' \ {p}
          PROVE  ~SamePlace(tx'[s].write, place'[q].row) \/ WrittenSince(s, q)'
      <4>1. q \in Places /\ place'[q].state = "live"
        BY DEF LivePlaces
      <4>2. CASE UNCHANGED <<place, tx>>
        <5>1. q \in LivePlaces \ {tx[s].place}
          BY <3>2, <4>2 DEF LivePlaces
        <5>2. ~SamePlace(tx[s].write, place[q].row) \/ WrittenSince(s, q)
          BY <3>1, <5>1 DEF ChecksHold
        <5> QED BY <3>2, <3>3, <4>2, <5>2, WrittenSinceStays
      <4>3. CASE s # r
        <5>1. CASE q \in LivePlaces /\ place'[q].row = place[q].row
          <6>1. ~SamePlace(tx[s].write, place[q].row) \/ WrittenSince(s, q)
            BY <3>1, <3>2, <5>1 DEF ChecksHold
          <6> QED BY <3>2, <3>3, <5>1, <6>1, WrittenSinceStays
        <5>2. CASE q = tx[r].place /\ WritesFields(r) /\ EndsWith(r, "ok")
          BY <3>3, <4>3, <5>2, NewWriterIsLate
        <5> QED BY <5>1, <5>2, LiveWas
      <4> QED BY <3>1, <4>2, <4>3
    <3> QED BY <3>5, <3>6
  <2> QED BY <2>1, <2>2
<1>2. ASSUME NEW s \in Requests, WritesFields(s)'
      PROVE  /\ tx'[s].op = "update" =>
                  place'[tx'[s].place].row = tx'[s].read \/ WrittenSince(s, tx[s].place)'
             /\ \A q \in LivePlaces' \ {tx'[s].place} :
                  ~SamePlace(tx'[s].write, place'[q].row) \/ WrittenSince(s, q)'
  <2>1. PICK p : p = tx'[s].place
    OBVIOUS
  <2>2. WrittenSince(s, p)' => WrittenSince(s, tx[s].place)'
    BY <2>1 DEF WrittenSince
  <2> QED BY <1>1, <1>2, <2>1, <2>2
<1> QED BY <1>2 DEF ChecksHold

\* What an update stores is what it has checked, unless somebody was faster.
LEMMA StoredRow ==
  ASSUME TypeInv, ChecksHold, NEW r \in Requests, WritesFields(r), tx[r].op = "update",
         ~WrittenSince(r, tx[r].place)
  PROVE  /\ place[tx[r].place].row = tx[r].read
         /\ Merged(r, place[tx[r].place].row) = tx[r].write
<1>1. place[tx[r].place].row = tx[r].read
  BY DEF ChecksHold
<1>2. tx[r].write \in Rows
  BY DEF WritesFields, TypeInv, TxOK, HeldOK, CheckedRows
<1> QED BY <1>1, <1>2, MergedIsWritten

LEMMA CoordinatesStep ==
  ASSUME TypeInv, TypeInv', OverlapInv, NEW r \in Requests, StepOf(r)
  PROVE  CoordinatesComeInPairs'
<1> SUFFICES ASSUME NEW p \in Places, place'[p].state # "absent",
                    (place'[p].row["latitude"] = NULL) # (place'[p].row["longitude"] = NULL)
             PROVE  Conflict(Writers(p))'
  BY DEF CoordinatesComeInPairs
<1>1. ASSUME place[p].state # "absent", NEW row, row = place[p].row,
             (row["latitude"] = NULL) # (row["longitude"] = NULL)
      PROVE  Conflict(Writers(p))'
  <2>1. Conflict(Writers(p) \cup Writers(p))
    BY <1>1 DEF OverlapInv, CoordinatesComeInPairs
  <2>2. Conflict(Writers(p) \cup Writers(p))'
    BY <2>1, ConflictStays
  <2>3. (Writers(p) \cup Writers(p))' = Writers(p)'
    OBVIOUS
  <2> QED BY <2>2, <2>3 DEF Conflict
<1>2. CASE place'[p] = place[p]
  BY <1>1, <1>2
<1>3. CASE /\ place[p] # NoPlace /\ place'[p].row = place[p].row
  <2>1. place[p].state # "absent"
    BY <1>3, RowFacts DEF TypeInv, DataOK
  <2> QED BY <1>1, <1>3, <2>1
<1>4. CASE p = tx[r].place /\ WritesFields(r) /\ EndsWith(r, "ok")
  <2>0. HeldOK(tx[r], r)
    BY <1>4 DEF WritesFields, TypeInv, TxOK
  <2>1. CASE tx[r].op = "create" /\ place'[p].row = tx[r].write
    BY <2>0, <2>1, ValidCoordinatesArePairs DEF HeldOK
  <2>2. CASE /\ tx[r].op = "update" /\ place[p] # NoPlace
             /\ place'[p].row = Merged(r, place[p].row)
    <3>1. CASE WrittenSince(r, p)
      <4>1. Conflict(Writers(p) \cup Writers(p))'
        BY <1>4, <3>1, LateWriteConflicts
      <4>2. (Writers(p) \cup Writers(p))' = Writers(p)'
        OBVIOUS
      <4> QED BY <4>1, <4>2 DEF Conflict
    <3>2. CASE ~WrittenSince(r, p)
      <4>1. place[p].row = tx[r].read /\ place'[p].row = tx[r].write
        BY <1>4, <2>2, <3>2, StoredRow DEF OverlapInv
      <4>2. CASE CoordinatesAreValid(tx[r].write)
        BY <4>1, <4>2, ValidCoordinatesArePairs
      <4>3. CASE /\ tx[r].write["latitude"] = tx[r].read["latitude"]
                 /\ tx[r].write["longitude"] = tx[r].read["longitude"]
        <5>1. place[p].state # "absent"
          BY <2>2, RowFacts DEF TypeInv, DataOK
        <5> QED BY <1>1, <4>1, <4>3, <5>1
      <4> QED BY <2>0, <2>2, <4>2, <4>3 DEF HeldOK
    <3> QED BY <3>1, <3>2
  <2>3. tx[r].op \in {"create", "update"}
    BY <1>4 DEF WritesFields
  <2>4. CASE place'[p] # place[p] /\ place'[p].row # place[p].row
    BY <1>4, <2>1, <2>2, <2>3, <2>4, RowStep
  <2>5. CASE place'[p] # place[p] /\ place'[p].row = place[p].row
    BY <1>3, <1>4, <2>1, <2>2, <2>5, RowStep, <2>3
  <2> QED BY <1>2, <2>4, <2>5
<1> QED BY <1>2, <1>3, <1>4, RowStep

\* The row that a handler stores is at no other place, unless somebody was faster.
LEMMA StoredDiffers ==
  ASSUME TypeInv, TypeInv', OverlapInv, NEW r \in Requests, StepOf(r),
         WritesFields(r), EndsWith(r, "ok"), NEW p \in Places, p = tx[r].place,
         \/ tx[r].op = "create" /\ place'[p].row = tx[r].write
         \/ tx[r].op = "update" /\ place'[p].row = Merged(r, place[p].row),
         NEW q \in LivePlaces, q # p, SamePlace(place'[p].row, place[q].row)
  PROVE  Conflict(Writers(p) \cup Writers(q))'
<1>1. CASE WrittenSince(r, q)
  BY <1>1, LateWriteConflicts
<1>2. CASE tx[r].op = "update" /\ WrittenSince(r, p)
  <2>1. Conflict(Writers(p) \cup Writers(p))'
    BY <1>2, LateWriteConflicts
  <2> QED BY <2>1 DEF Conflict
<1>3. CASE ~WrittenSince(r, q) /\ (tx[r].op = "update" => ~WrittenSince(r, p))
  <2>1. place'[p].row = tx[r].write
    BY <1>3, StoredRow DEF OverlapInv
  <2>2. ~SamePlace(tx[r].write, place[q].row)
    BY <1>3 DEF OverlapInv, ChecksHold
  <2> QED BY <2>1, <2>2
<1> QED BY <1>1, <1>2, <1>3

LEMMA DuplicatesStep ==
  ASSUME TypeInv, TypeInv', OverlapInv, NEW r \in Requests, StepOf(r)
  PROVE  DuplicatesOnlyByOverlap'
<1> SUFFICES ASSUME NEW p \in LivePlaces', NEW q \in LivePlaces',
                    p # q, SamePlace(place'[p].row, place'[q].row)
             PROVE  Conflict(Writers(p) \cup Writers(q))'
  BY DEF DuplicatesOnlyByOverlap
<1>1. p \in Places /\ q \in Places
  BY DEF LivePlaces
<1>2. CASE /\ p \in LivePlaces /\ place'[p].row = place[p].row
           /\ q \in LivePlaces /\ place'[q].row = place[q].row
  <2>1. Conflict(Writers(p) \cup Writers(q))
    BY <1>2 DEF OverlapInv, DuplicatesOnlyByOverlap
  <2> QED BY <2>1, ConflictStays
<1>3. CASE /\ p = tx[r].place /\ WritesFields(r) /\ EndsWith(r, "ok")
           /\ \/ tx[r].op = "create" /\ place'[p].row = tx[r].write
              \/ tx[r].op = "update" /\ place'[p].row = Merged(r, place[p].row)
  <2>1. q \in LivePlaces /\ place'[q].row = place[q].row
    BY <1>3, LiveWas
  <2> QED BY <1>1, <1>3, <2>1, StoredDiffers
<1>4. CASE /\ q = tx[r].place /\ WritesFields(r) /\ EndsWith(r, "ok")
           /\ \/ tx[r].op = "create" /\ place'[q].row = tx[r].write
              \/ tx[r].op = "update" /\ place'[q].row = Merged(r, place[q].row)
  <2>1. p \in LivePlaces /\ place'[p].row = place[p].row
    BY <1>4, LiveWas
  <2>2. SamePlace(place'[q].row, place[p].row)
    BY <2>1, SamePlaceIsSymmetric
  <2>3. Conflict(Writers(q) \cup Writers(p))'
    BY <1>1, <1>4, <2>1, <2>2, StoredDiffers
  <2> QED BY <2>3 DEF Conflict
<1> QED BY <1>2, <1>3, <1>4, LiveWas

LEMMA OverlapInvInit == Init => OverlapInv
<1> SUFFICES ASSUME Init PROVE OverlapInv
  OBVIOUS
<1>1. ChecksHold
  BY DEF Init, ChecksHold, WritesFields, Idle
<1>2. ASSUME NEW p \in Places, place[p].state # "absent"
      PROVE  p \in OldPlaces /\ place[p].row = OldRows[p]
  BY <1>2 DEF Init, NoPlace
<1>3. CoordinatesComeInPairs
  BY <1>2, OldRowsAreChecked, ValidCoordinatesArePairs DEF CoordinatesComeInPairs
<1>4. ASSUME NEW p \in LivePlaces
      PROVE  p \in OldPlaces /\ place[p].row = OldRows[p]
  BY <1>2 DEF LivePlaces
<1>5. DuplicatesOnlyByOverlap
  BY <1>4, OldRowsDiffer DEF DuplicatesOnlyByOverlap
<1> QED BY <1>1, <1>3, <1>5 DEF OverlapInv

LEMMA OverlapInvStep ==
  ASSUME TypeInv, TypeInv', OverlapInv, [Next]_vars
  PROVE  OverlapInv'
<1>1. CASE UNCHANGED vars
  <2>1. /\ LivePlaces' = LivePlaces /\ \A p : Writers(p)' = Writers(p)
        /\ place' = place /\ tx' = tx
    BY <1>1 DEF vars, LivePlaces, Writers, Succeeded
  <2>2. ChecksHold'
    BY <2>1 DEF OverlapInv, ChecksHold, WritesFields, WrittenSince
  <2>3. \A rs : Conflict(rs)' <=> Conflict(rs)
    BY <2>1 DEF Conflict, Overlap
  <2>4. CoordinatesComeInPairs'
    <3>1. ASSUME NEW p PROVE Conflict(Writers(p)) => Conflict(Writers(p))'
      BY <2>1 DEF Conflict, Overlap
    <3> QED BY <2>1, <3>1 DEF OverlapInv, CoordinatesComeInPairs
  <2>5. DuplicatesOnlyByOverlap'
    <3>1. ASSUME NEW p, NEW q
          PROVE  Conflict(Writers(p) \cup Writers(q)) => Conflict(Writers(p) \cup Writers(q))'
      BY <2>1 DEF Conflict, Overlap
    <3> QED BY <2>1, <3>1 DEF OverlapInv, DuplicatesOnlyByOverlap
  <2> QED BY <2>2, <2>4, <2>5 DEF OverlapInv
<1>2. ASSUME NEW r \in Requests, StepOf(r)
      PROVE  OverlapInv'
  BY <1>2, ChecksHoldStep, CoordinatesStep, DuplicatesStep DEF OverlapInv
<1> QED BY <1>1, <1>2, NextIsStep

LEMMA OverlapInvHolds == Spec => []OverlapInv
<1>1. Spec => []TypeInv
  BY InitType, TypeInvStep, PTL DEF Spec
<1>2. TypeInv /\ TypeInv' /\ OverlapInv /\ [Next]_vars => OverlapInv'
  BY OverlapInvStep
<1> QED BY <1>1, <1>2, OverlapInvInit, PTL DEF Spec

\* The same place is in a room twice only after two overlapping writes: what one
\* handler checks and stores, without a lock, nobody before it or after it breaks.
THEOREM DuplicatesNeedOverlap == Spec => []DuplicatesOnlyByOverlap
<1>1. OverlapInv => DuplicatesOnlyByOverlap
  BY DEF OverlapInv
<1> QED BY <1>1, OverlapInvHolds, PTL

\* A coordinate loses its other half only by two overlapping writes.
THEOREM CoordinatesStayPaired == Spec => []CoordinatesComeInPairs
<1>1. OverlapInv => CoordinatesComeInPairs
  BY DEF OverlapInv
<1> QED BY <1>1, OverlapInvHolds, PTL

-----------------------------------------------------------------------------
(* Clients that draw                                                       *)

LEMMA WritesHaveOps ==
  ASSUME TypeInv, NEW r \in Requests, Writes(r)
  PROVE  tx'[r].op \in WriteOps
<1>1. ASSUME NEW body \in Bodies, CreateCheck(r, body) PROVE tx'[r].op \in WriteOps
  BY <1>1, CreateCheckFrame DEF Checks, WriteOps
<1>2. ASSUME NEW p \in Places, NEW patch \in Patches, UpdateCheck(r, p, patch)
      PROVE  tx'[r].op \in WriteOps
  BY <1>2, UpdateCheckFrame DEF Checks, WriteOps
<1>3. ASSUME NEW p \in Places, DeleteCheck(r, p) PROVE tx'[r].op \in WriteOps
  BY <1>3, DeleteCheckFrame DEF Checks, WriteOps
<1>4. ASSUME NEW p \in Places, PlanCheck(r, p) PROVE tx'[r].op \in WriteOps
  BY <1>4, PlanCheckFrame DEF Checks, WriteOps
<1>5. ASSUME NEW p \in Places, NEW op \in Ops, PlaceIsMissing(r, op, p)
      PROVE  tx'[r].op \in WriteOps
  BY <1>5, MissingFrame DEF Checks, WriteOps
<1>6. ASSUME tx[r].pc = "writing", NEW result, EndsWith(r, result)
      PROVE  tx'[r].op \in WriteOps
  BY <1>6 DEF EndsWith, GoesOn, TypeInv, TxOK, HeldOK, WriteOps
<1>7. ASSUME Fails(r) PROVE tx'[r].op \in WriteOps
  BY <1>6, <1>7, EndFrame DEF Fails
<1>8. ASSUME CreateCommit(r) \/ UpdateCommit(r) \/ DeleteCommit(r) \/ PlanCommit(r)
      PROVE  tx'[r].op \in WriteOps
  BY <1>6, <1>8, CreateCommitFrame, UpdateCommitFrame, DeleteCommitFrame, PlanCommitFrame
<1> QED BY <1>1, <1>2, <1>3, <1>4, <1>5, <1>7, <1>8 DEF Writes

\* A client that lists or draws moves by its own queries only.
LEMMA ClientSteps ==
  ASSUME TypeInv, NEW r \in Requests, Writes(r) \/ Reads(r) \/ PlanConfirms(r)
  PROVE  /\ tx'[r].op = "draw" =>
              \/ tx' = tx
              \/ DrawRefused(r) \/ DrawRemaining(r) \/ \E p \in Places : DrawPick(r, p)
         /\ tx'[r].op = "list" => tx' = tx \/ ListCount(r) \/ ListRows(r)
<1>1. CASE Writes(r)
  BY <1>1, WritesHaveOps DEF WriteOps
<1>2. CASE PlanConfirms(r)
  BY <1>2 DEF PlanConfirms
<1>3. CASE Reads(r)
  <2>1. ListCount(r) \/ ListRows(r) => tx'[r].op = "list"
    BY ListCountFrame, ListRowsFrame DEF Queries
  <2>2. DrawRefused(r) \/ DrawRemaining(r) \/ (\E p \in Places : DrawPick(r, p))
          => tx'[r].op = "draw"
    BY DrawRefusedFrame, DrawRemainingFrame, DrawPickFrame DEF Queries
  <2> QED BY <1>3, <2>1, <2>2 DEF Reads
<1> QED BY <1>1, <1>2, <1>3

\* A place that can be drawn no more can never be drawn again.
LEMMA DrawableShrinks ==
  ASSUME TypeInv, NEW r \in Requests, StepOf(r), NEW p, IsThere(p), p \in DrawablePlaces({})'
  PROVE  p \in DrawablePlaces({})
<1>1. /\ p \in Places /\ place[p] \in LiveRows /\ place'[p].state = "live"
      /\ \A q \in Requests : plan'[q].place # p
  BY DEF IsThere, DrawablePlaces, LivePlaces
<1>2. place[p].state = "live"
  <2>1. CASE place' = place
    BY <1>1, <2>1
  <2>2. CASE HasWritten(r) /\ tx[r].op \in WriteOps
    BY <1>1, <2>2, RowFacts DEF HasWritten, WriteOps
  <2> QED BY <2>1, <2>2 DEF StepOf
<1>3. ASSUME NEW q \in Requests PROVE plan[q].place # p
  <2>1. CASE plan' = plan
    BY <1>1, <2>1
  <2>2. CASE q # r /\ plan'[q] = plan[q]
    BY <1>1, <2>2
  <2>3. CASE q = r /\ plan'[q].place = plan[q].place
    BY <1>1, <2>3
  <2>4. CASE q = r /\ plan[q] = NoPlan
    BY <1>1, <2>4 DEF NoPlan
  <2>5. plan' = plan \/ HasWritten(r) \/ (plan'[r].place = plan[r].place
                                          /\ \A s \in Requests : s # r => plan'[s] = plan[s])
    BY DEF StepOf
  <2> QED BY <2>1, <2>2, <2>3, <2>4, <2>5 DEF HasWritten
<1> QED BY <1>1, <1>2, <1>3 DEF DrawablePlaces, LivePlaces

LEMMA NothingLeft ==
  ASSUME NEW seen, DrawablePlaces(seen) = {}
  PROVE  DrawablePlaces({}) \subseteq seen
BY DEF DrawablePlaces

LEMMA DrawsStep ==
  ASSUME TypeInv, TypeInv', DrawsGoThroughAll, NEW r \in Requests,
         Writes(r) \/ Reads(r) \/ PlanConfirms(r), StepOf(r)
  PROVE  DrawsGoThroughAll'
<1> SUFFICES ASSUME NEW s \in Requests, tx'[s].op = "draw", tx'[s].pc = "done",
                    Cardinality(tx'[s].seen) <= MaxExcluded,
                    NEW p \in tx'[s].there, p \in DrawablePlaces({})'
             PROVE  p \in tx'[s].seen
  BY DEF DrawsGoThroughAll, At
<1>1. CASE tx'[s] = tx[s]
  <2>1. IsThere(p)
    BY <1>1 DEF TypeInv, TxOK
  <2>2. p \in DrawablePlaces({})
    BY <2>1, DrawableShrinks
  <2> QED BY <1>1, <2>2 DEF DrawsGoThroughAll, At
<1>2. CASE tx'[s] # tx[s]
  <2>1. s = r /\ tx' # tx
    BY <1>2 DEF StepOf
  <2>2. DrawRefused(r) \/ DrawRemaining(r)
    <3>1. ASSUME NEW q \in Places, DrawPick(r, q) PROVE FALSE
      BY <2>1, <3>1, DrawPickFrame
    <3> QED BY <2>1, <3>1, ClientSteps
  <2>3. DrawablePlaces(tx'[s].seen) = {} /\ UNCHANGED <<place, plan>>
    <3>1. CASE DrawRefused(r)
      <4>1. IsFiniteSet(tx'[s].seen)
        BY DEF TypeInv, TxOK
      <4>2. Cardinality(tx'[s].seen) \in Nat /\ MaxExcluded \in Nat
        BY <4>1, FS_CardinalityType, SizesAreNat
      <4>3. /\ tx'[s].seen = tx[r].seen /\ UNCHANGED <<place, plan>>
            /\ Cardinality(tx[r].seen) > MaxExcluded \/ DrawablePlaces(tx[r].seen) = {}
        BY <2>1, <3>1, DrawRefusedFrame DEF Queries
      <4> QED BY <4>2, <4>3
    <3>2. CASE DrawRemaining(r)
      <4>1. /\ tx'[s].seen = tx[r].seen /\ UNCHANGED <<place, plan>>
            /\ ~(Cardinality(DrawablePlaces(tx[r].seen)) > 0)
        BY <2>1, <3>2, DrawRemainingFrame DEF Queries
      <4>2. DrawablePlaces(tx[r].seen) \in SUBSET LivePlaces /\ IsFiniteSet(LivePlaces)
        BY DEF DrawablePlaces, TypeInv, DataOK
      <4>3. /\ IsFiniteSet(DrawablePlaces(tx[r].seen))
            /\ Cardinality(DrawablePlaces(tx[r].seen)) \in Nat
        BY <4>2, FS_Subset, FS_CardinalityType
      <4>4. Cardinality(DrawablePlaces(tx[r].seen)) = 0
        BY <4>1, <4>3
      <4> QED BY <4>1, <4>3, <4>4, FS_EmptySet
    <3> QED BY <2>2, <3>1, <3>2
  <2>4. DrawablePlaces({})' = DrawablePlaces({})
    BY <2>3 DEF DrawablePlaces, LivePlaces
  <2> QED BY <2>3, <2>4, NothingLeft
<1> QED BY <1>1, <1>2

LEMMA DrawsInit == Init => DrawsGoThroughAll
BY DEF Init, DrawsGoThroughAll, At, Idle

LEMMA DrawsNext ==
  ASSUME TypeInv, TypeInv', DrawsGoThroughAll, [Next]_vars
  PROVE  DrawsGoThroughAll'
<1>1. CASE UNCHANGED vars
  <2>1. tx' = tx /\ DrawablePlaces({})' = DrawablePlaces({})
    BY <1>1 DEF vars, DrawablePlaces, LivePlaces
  <2> QED BY <2>1 DEF DrawsGoThroughAll, At
<1>2. ASSUME NEW r \in Requests, Writes(r) \/ Reads(r) \/ PlanConfirms(r)
      PROVE  DrawsGoThroughAll'
  BY <1>2, DrawsStep, StepOfRequest
<1> QED BY <1>1, <1>2 DEF Next

\* Drawing again until it is over shows everything that could be drawn all along,
\* whatever is added, deleted or planned between two draws.
THEOREM DrawsAreComplete == Spec => []DrawsGoThroughAll
<1>1. TypeInv /\ TypeInv' /\ DrawsGoThroughAll /\ [Next]_vars => DrawsGoThroughAll'
  BY DrawsNext
<1>2. Spec => []TypeInv
  BY InitType, TypeInvStep, PTL DEF Spec
<1> QED BY <1>1, <1>2, DrawsInit, PTL DEF Spec

-----------------------------------------------------------------------------
(* Clients that scroll                                                     *)

\* ceil(n / size) pages of that size hold n rows.
LEMMA LastPage ==
  ASSUME NEW n \in Nat, NEW page \in Nat, ~HasNext(page, n)
  PROVE  n <= (page + 1) * PageSize
<1> DEFINE a == n + PageSize - 1
           k == a \div PageSize
<1>1. PageSize \in Nat /\ PageSize > 0
  BY SizesAreNat
<1>2. a \in Nat
  BY <1>1
<1> HIDE DEF a
<1>3. k \in Int /\ a < (k + 1) * PageSize
  BY <1>1, <1>2
<1>4. ~(page + 1 < k)
  BY DEF HasNext, a
<1> HIDE DEF k
<1>5. k + 1 <= page + 2
  BY <1>3, <1>4
<1>6. (k + 1) * PageSize <= (page + 2) * PageSize
  BY <1>1, <1>3, <1>5
<1>7. (page + 2) * PageSize = (page + 1) * PageSize + PageSize
  BY <1>1
<1>8. /\ (k + 1) * PageSize \in Int /\ (page + 2) * PageSize \in Int
      /\ (page + 1) * PageSize \in Int
  BY <1>1, <1>3
<1> QED BY <1>1, <1>3, <1>6, <1>7, <1>8 DEF a

\* Every row has its place in the list, and one that is about to be inserted too.
IsListed(p) == \E i \in DOMAIN order : order[i] = p

OrderInv ==
  /\ \A p \in LivePlaces : IsListed(p)
  /\ \A r \in Requests : tx[r].op = "create" /\ tx[r].pc = "writing" => IsListed(r)

\* No place was deleted and no count was of another moment than its rows.
Undisturbed(r) ==
  /\ ~tx[r].torn
  /\ ~\E s \in Requests : Succeeded(s) /\ tx[s].op = "delete" /\ Overlap(r, s)

\* What was there is on a page that has been read, or on one that is to come:
\* rows only come in before it.
ScrollInv ==
  \A r \in Requests : tx[r].op = "list" /\ Undisturbed(r) =>
    /\ tx[r].pc = "done" => tx[r].there \subseteq tx[r].seen
    /\ tx[r].pc \in {"reading", "between"} =>
         \A p \in tx[r].there :
           /\ p \in LivePlaces
           /\ p \in tx[r].seen \/ Cardinality(RowsDownTo(p)) > tx[r].page * PageSize

LEMMA ScrollInvImplies == ScrollInv => BrowsingMissesNothing
BY DEF ScrollInv, Undisturbed, BrowsingMissesNothing, At

LEMMA RowsDownToFacts ==
  ASSUME TypeInv, NEW p
  PROVE  /\ RowsDownTo(p) \in SUBSET LivePlaces
         /\ IsFiniteSet(RowsDownTo(p)) /\ Cardinality(RowsDownTo(p)) \in Nat
         /\ Cardinality(RowsDownTo(p)) <= Cardinality(LivePlaces)
         /\ Cardinality(LivePlaces) \in Nat
<1>1. RowsDownTo(p) \in SUBSET LivePlaces /\ IsFiniteSet(LivePlaces)
  BY DEF RowsDownTo, TypeInv, DataOK
<1>2. /\ IsFiniteSet(RowsDownTo(p))
      /\ Cardinality(RowsDownTo(p)) <= Cardinality(LivePlaces)
  BY <1>1, FS_Subset
<1> QED BY <1>1, <1>2, FS_CardinalityType

\* The first row is the first.
LEMMA ListedRowCounts ==
  ASSUME TypeInv, OrderInv, NEW p \in LivePlaces
  PROVE  Cardinality(RowsDownTo(p)) > 0
<1>1. PICK i \in DOMAIN order : order[i] = p
  BY DEF OrderInv, IsListed
<1>2. order \in Seq(Places)
  BY DEF TypeInv, DataOK
<1>3. DOMAIN order = 1 .. Len(order) /\ Len(order) \in Nat
  BY <1>2
<1>4. i <= i
  BY <1>1, <1>3
<1>5. p \in RowsDownTo(p)
  BY <1>1, <1>4 DEF RowsDownTo
<1>6. RowsDownTo(p) # {}
  BY <1>5
<1>7. Cardinality(RowsDownTo(p)) # 0
  BY <1>6, RowsDownToFacts, FS_EmptySet
<1> QED BY <1>7, RowsDownToFacts

\* The list only grows at its head.
ListGrows == order' = order \/ \E r \in Places : order' = <<r>> \o order

LEMMA GrownList ==
  ASSUME NEW S, NEW s \in Seq(S), NEW x \in S
  PROVE  /\ \A i \in DOMAIN s : i + 1 \in DOMAIN (<<x>> \o s) /\ (<<x>> \o s)[i + 1] = s[i]
         /\ 1 \in DOMAIN (<<x>> \o s) /\ (<<x>> \o s)[1] = x
<1>1. <<x>> \in Seq(S) /\ Len(<<x>>) = 1 /\ <<x>>[1] = x
  OBVIOUS
<1>2. Len(s) \in Nat /\ DOMAIN s = 1 .. Len(s)
  OBVIOUS
<1>3. /\ DOMAIN (<<x>> \o s) = 1 .. 1 + Len(s)
      /\ \A i \in 1 .. 1 + Len(s) :
           (<<x>> \o s)[i] = IF i <= 1 THEN <<x>>[i] ELSE s[i - 1]
  BY <1>1, <1>2
<1>4. ASSUME NEW i \in DOMAIN s
      PROVE  i + 1 \in DOMAIN (<<x>> \o s) /\ (<<x>> \o s)[i + 1] = s[i]
  <2>1. i \in Int /\ i >= 1 /\ i <= Len(s)
    BY <1>2
  <2>2. i + 1 \in 1 .. 1 + Len(s) /\ ~(i + 1 <= 1) /\ (i + 1) - 1 = i
    BY <1>2, <2>1
  <2> QED BY <1>3, <2>2
<1>5. 1 \in 1 .. 1 + Len(s) /\ 1 <= 1
  BY <1>2
<1> QED BY <1>1, <1>3, <1>4, <1>5

LEMMA OrderStep ==
  ASSUME TypeInv, NEW r \in Requests, Writes(r) \/ Reads(r) \/ PlanConfirms(r)
  PROVE  /\ ListGrows
         /\ tx[r].pc = "idle" /\ tx'[r].op = "create" /\ tx'[r].pc = "writing"
              => r \in Places /\ order' = <<r>> \o order
<1>0. r \in Places
  BY DEF Places
<1>1. ASSUME NEW body \in Bodies, CreateCheck(r, body)
      PROVE  ListGrows /\ (tx'[r].pc = "writing" => order' = <<r>> \o order)
  BY <1>0, <1>1, CreateCheckFrame DEF ListGrows
<1>2. ASSUME NEW op \in {"update", "delete", "plan"}, NEW passes, NEW p, NEW read, NEW write,
             Checks(r, op, passes, p, read, write)
      PROVE  tx'[r].op # "create"
  BY <1>2 DEF Checks
<1>3. ASSUME NEW p \in Places,
             \/ \E patch \in Patches : UpdateCheck(r, p, patch)
             \/ DeleteCheck(r, p) \/ PlanCheck(r, p)
             \/ \E op \in Ops : PlaceIsMissing(r, op, p)
      PROVE  order' = order /\ tx'[r].op # "create"
  <2>1. ASSUME NEW patch \in Patches, UpdateCheck(r, p, patch)
        PROVE  order' = order /\ tx'[r].op # "create"
    BY <2>1, UpdateCheckFrame DEF Checks
  <2>2. ASSUME DeleteCheck(r, p) PROVE order' = order /\ tx'[r].op # "create"
    BY <2>2, DeleteCheckFrame DEF Checks
  <2>3. ASSUME PlanCheck(r, p) PROVE order' = order /\ tx'[r].op # "create"
    BY <2>3, PlanCheckFrame DEF Checks
  <2>4. ASSUME NEW op \in Ops, PlaceIsMissing(r, op, p)
        PROVE  order' = order /\ tx'[r].op # "create"
    BY <2>4, MissingFrame DEF Checks
  <2> QED BY <1>3, <2>1, <2>2, <2>3, <2>4
<1>4. ASSUME \/ CreateCommit(r) \/ UpdateCommit(r) \/ DeleteCommit(r) \/ PlanCommit(r)
             \/ Fails(r) \/ PlanConfirms(r)
      PROVE  order' = order /\ tx[r].pc # "idle"
  <2>1. CASE PlanConfirms(r)
    BY <2>1, PlanConfirmsFrame
  <2>2. CASE Fails(r)
    BY <2>2 DEF Fails
  <2> QED BY <1>4, <2>1, <2>2, CreateCommitFrame, UpdateCommitFrame, DeleteCommitFrame,
             PlanCommitFrame
<1>5. ASSUME Reads(r)
      PROVE  order' = order /\ tx'[r].op # "create"
  <2>1. ASSUME NEW op \in {"list", "draw"}, NEW there, Queries(r, op, there)
        PROVE  order' = order /\ tx'[r].op # "create"
    BY <2>1 DEF Queries
  <2>2. ASSUME NEW p \in Places, DrawPick(r, p)
        PROVE  order' = order /\ tx'[r].op # "create"
    BY <2>1, <2>2, DrawPickFrame
  <2>3. ASSUME ListCount(r) \/ ListRows(r) \/ DrawRefused(r) \/ DrawRemaining(r)
        PROVE  order' = order /\ tx'[r].op # "create"
    BY <2>1, <2>3, ListCountFrame, ListRowsFrame, DrawRefusedFrame, DrawRemainingFrame
  <2> QED BY <1>5, <2>2, <2>3 DEF Reads
<1> QED BY <1>0, <1>1, <1>3, <1>4, <1>5 DEF Writes, ListGrows

LEMMA ListedStays ==
  ASSUME TypeInv, ListGrows, NEW p
  PROVE  /\ IsListed(p) => IsListed(p)'
         /\ \A q : (\E i, j \in DOMAIN order : i <= j /\ order[i] = q /\ order[j] = p)
                     => \E i, j \in DOMAIN order' : i <= j /\ order'[i] = q /\ order'[j] = p
<1>1. order \in Seq(Places) /\ \A i \in DOMAIN order : i \in Int
  BY DEF TypeInv, DataOK
<1>2. CASE order' = order
  BY <1>2 DEF IsListed
<1>3. ASSUME NEW r \in Places, order' = <<r>> \o order
      PROVE  /\ IsListed(p) => IsListed(p)'
             /\ \A q : (\E i, j \in DOMAIN order : i <= j /\ order[i] = q /\ order[j] = p)
                         => \E i, j \in DOMAIN order' : i <= j /\ order'[i] = q /\ order'[j] = p
  <2>1. \A i \in DOMAIN order : i + 1 \in DOMAIN order' /\ order'[i + 1] = order[i]
    BY <1>1, <1>3, GrownList
  <2>2. IsListed(p) => IsListed(p)'
    BY <2>1 DEF IsListed
  <2>3. ASSUME NEW q, NEW i \in DOMAIN order, NEW j \in DOMAIN order,
               i <= j, order[i] = q, order[j] = p
        PROVE  \E k, l \in DOMAIN order' : k <= l /\ order'[k] = q /\ order'[l] = p
    <3>1. i + 1 <= j + 1
      BY <1>1, <2>3
    <3> QED BY <2>1, <2>3, <3>1
  <2> QED BY <2>2, <2>3
<1> QED BY <1>2, <1>3 DEF ListGrows

LEMMA OrderInvStep ==
  ASSUME TypeInv, TypeInv', OrderInv, NEW r \in Requests,
         Writes(r) \/ Reads(r) \/ PlanConfirms(r), StepOf(r)
  PROVE  OrderInv'
<1>0. ListGrows
  BY OrderStep
<1>1. ASSUME NEW p \in LivePlaces'
      PROVE  IsListed(p)'
  <2>1. IsListed(p)
    <3>1. CASE p \in LivePlaces
      BY <3>1 DEF OrderInv
    <3>2. CASE p = tx[r].place /\ WritesFields(r) /\ tx[r].op = "create"
      <4>1. p = r
        BY <3>2 DEF WritesFields, TypeInv, TxOK, HeldOK
      <4> QED BY <3>2, <4>1 DEF OrderInv, WritesFields
    <3> QED BY <3>1, <3>2, LiveWas
  <2> QED BY <1>0, <2>1, ListedStays
<1>2. ASSUME NEW s \in Requests, tx'[s].op = "create", tx'[s].pc = "writing"
      PROVE  IsListed(s)'
  <2>1. CASE tx[s].pc = "writing"
    <3>1. IsListed(s)
      BY <1>2, <2>1, PastStays DEF OrderInv
    <3> QED BY <1>0, <3>1, ListedStays
  <2>2. CASE tx[s].pc # "writing"
    <3>1. s = r /\ tx[s].pc = "idle"
      BY <1>2, <2>2 DEF StepOf, EndsWith
    <3>2. s \in Places /\ order' = <<s>> \o order /\ order \in Seq(Places)
      BY <1>2, <3>1, OrderStep DEF TypeInv, DataOK
    <3>3. 1 \in DOMAIN order' /\ order'[1] = s
      BY <3>2, GrownList
    <3> QED BY <3>3 DEF IsListed
  <2> QED BY <2>1, <2>2
<1> QED BY <1>1, <1>2 DEF OrderInv

LEMMA OrderInvInit == Init => OrderInv
<1> SUFFICES ASSUME Init PROVE OrderInv
  OBVIOUS
<1>1. LivePlaces = OldPlaces
  BY DEF Init, LivePlaces, NoPlace, Places
<1>2. \A r \in Requests : tx[r].pc # "writing"
  BY DEF Init, Idle
<1>3. ASSUME NEW p \in OldPlaces, ~IsListed(p)
      PROVE  FALSE
  <2> DEFINE n == Cardinality(OldPlaces)
  <2>1. n \in Nat /\ IsFiniteSet(OldPlaces)
    BY OldPlacesAreFinite, FS_CardinalityType
  <2>2. /\ order \in [1 .. n -> OldPlaces]
        /\ \A i, j \in DOMAIN order : order[i] = order[j] => i = j
    BY DEF Init
  <2>3. order \in [1 .. n -> OldPlaces \ {p}]
    BY <1>3, <2>2 DEF IsListed
  <2>4. /\ IsFiniteSet(OldPlaces \ {p})
        /\ Cardinality(OldPlaces \ {p}) = n - 1
    BY <2>1, FS_RemoveElement
  <2>5. IsFiniteSet(1 .. n) /\ Cardinality(1 .. n) = n
    BY <2>1, FS_Interval
  <2>6. Cardinality(OldPlaces \ {p}) < Cardinality(1 .. n)
    BY <2>1, <2>4, <2>5
  <2> DEFINE S == 1 .. n
             T == OldPlaces \ {p}
  <2>7. /\ IsFiniteSet(S) /\ IsFiniteSet(T) /\ Cardinality(T) < Cardinality(S)
        /\ order \in [S -> T]
    BY <2>3, <2>4, <2>5, <2>6
  <2> HIDE DEF n, S, T
  <2>8. \E i, j \in S : i # j /\ order[i] = order[j]
    BY <2>7, FS_PigeonHole
  <2> QED BY <2>2, <2>7, <2>8 DEF S
<1> QED BY <1>1, <1>2, <1>3 DEF OrderInv

\* As long as a client is undisturbed, every place stays.
LEMMA UndisturbedStep ==
  ASSUME TypeInv, NEW r \in Requests, StepOf(r), NEW s \in Requests,
         tx[s].op = "list", tx[s].pc # "idle", ~tx[s].torn, Undisturbed(s)'
  PROVE  /\ Undisturbed(s)
         /\ tx[s].pc # "done" => LivePlaces \subseteq LivePlaces'
<1>1. tx'[s].before = tx[s].before
  BY PastStays
<1>2. ASSUME NEW d \in Requests, Succeeded(d), tx[d].op = "delete", Overlap(s, d)
      PROVE  FALSE
  <2>1. tx'[d] = tx[d] /\ Succeeded(d)'
    BY <1>2, PastStays DEF Succeeded
  <2>2. Overlap(s, d)'
    BY <1>1, <1>2, <2>1 DEF Overlap
  <2> QED BY <1>2, <2>1, <2>2 DEF Undisturbed
<1>3. ASSUME tx[s].pc # "done", NEW p \in LivePlaces
      PROVE  p \in LivePlaces'
  <2>1. p \in Places /\ place[p].state = "live"
    BY DEF LivePlaces
  <2>2. CASE place' = place
    BY <2>1, <2>2 DEF LivePlaces
  <2>3. CASE /\ tx[r].pc = "writing" /\ EndsWith(r, "ok") /\ HasWritten(r)
             /\ tx[r].op = "delete"
    <3>1. Succeeded(r)' /\ tx'[r].op = "delete" /\ tx'[r].before = tx[r].before
      BY <2>3 DEF Succeeded, EndsWith, GoesOn
    <3>2. s # r /\ s \notin tx[r].before /\ r \notin tx[s].before
      BY <1>3, <2>3 DEF TypeInv, TxOK, Finished
    <3>3. Overlap(s, r)'
      BY <1>1, <3>1, <3>2 DEF Overlap
    <3> QED BY <3>1, <3>3 DEF Undisturbed
  <2>4. CASE HasWritten(r) /\ tx[r].op \in {"create", "update", "plan"}
    <3>1. place'[p].state = "live"
      BY <2>1, <2>4 DEF HasWritten, NoPlace
    <3> QED BY <2>1, <3>1 DEF LivePlaces
  <2> QED BY <2>2, <2>3, <2>4 DEF StepOf, WriteOps
<1> QED BY <1>2, <1>3 DEF Undisturbed

LEMMA RowsDownToGrow ==
  ASSUME TypeInv, TypeInv', ListGrows, LivePlaces \subseteq LivePlaces', NEW p
  PROVE  /\ Cardinality(RowsDownTo(p)) \in Nat /\ Cardinality(RowsDownTo(p)') \in Nat
         /\ Cardinality(RowsDownTo(p)) <= Cardinality(RowsDownTo(p)')
<1>1. RowsDownTo(p) \in SUBSET RowsDownTo(p)'
  BY ListedStays DEF RowsDownTo
<1>2. RowsDownTo(p)' \in SUBSET LivePlaces' /\ IsFiniteSet(LivePlaces')
  BY DEF RowsDownTo, TypeInv, DataOK
<1>3. IsFiniteSet(RowsDownTo(p)')
  BY <1>2, FS_Subset
<1>4. /\ IsFiniteSet(RowsDownTo(p))
      /\ Cardinality(RowsDownTo(p)) <= Cardinality(RowsDownTo(p)')
  BY <1>1, <1>3, FS_Subset
<1> QED BY <1>3, <1>4, FS_CardinalityType

LEMMA OthersScrollOn ==
  ASSUME TypeInv, TypeInv', ScrollInv, NEW r \in Requests, StepOf(r), ListGrows,
         NEW s \in Requests, tx'[s] = tx[s], tx[s].op = "list", Undisturbed(s)'
  PROVE  /\ tx'[s].pc = "done" => tx'[s].there \subseteq tx'[s].seen
         /\ tx'[s].pc \in {"reading", "between"} =>
              \A p \in tx'[s].there :
                /\ p \in LivePlaces'
                /\ p \in tx'[s].seen \/ Cardinality(RowsDownTo(p)') > tx'[s].page * PageSize
<1>1. tx[s].pc # "idle" /\ ~tx[s].torn
  BY DEF TypeInv, TxOK, Idle, Undisturbed
<1>2. Undisturbed(s) /\ (tx[s].pc # "done" => LivePlaces \subseteq LivePlaces')
  BY <1>1, UndisturbedStep
<1>3. ASSUME tx[s].pc \in {"reading", "between"}, NEW p \in tx[s].there
      PROVE  /\ p \in LivePlaces'
             /\ p \in tx[s].seen \/ Cardinality(RowsDownTo(p)') > tx[s].page * PageSize
  <2>1. /\ p \in LivePlaces
        /\ p \in tx[s].seen \/ Cardinality(RowsDownTo(p)) > tx[s].page * PageSize
    BY <1>2, <1>3 DEF ScrollInv
  <2>2. /\ Cardinality(RowsDownTo(p)) \in Nat /\ Cardinality(RowsDownTo(p)') \in Nat
        /\ Cardinality(RowsDownTo(p)) <= Cardinality(RowsDownTo(p)')
    BY <1>2, <1>3, RowsDownToGrow
  <2>3. tx[s].page \in Nat /\ PageSize \in Nat
    BY SizesAreNat DEF TypeInv, TxRecord
  <2>4. tx[s].page * PageSize \in Nat
    BY <2>3
  <2> QED BY <1>2, <1>3, <2>1, <2>2, <2>4
<1> QED BY <1>2, <1>3 DEF ScrollInv

LEMMA ListCountScrolls ==
  ASSUME TypeInv, TypeInv', OrderInv, ScrollInv, NEW r \in Requests, StepOf(r), ListCount(r),
         Undisturbed(r)'
  PROVE  /\ tx'[r].pc = "reading"
         /\ \A p \in tx'[r].there :
              /\ p \in LivePlaces'
              /\ p \in tx'[r].seen \/ Cardinality(RowsDownTo(p)') > tx'[r].page * PageSize
<1>1. /\ Queries(r, "list", LivePlaces) /\ tx'[r].pc = "reading"
      /\ tx[r].pc = "idle" => tx'[r].seen = {} /\ tx'[r].page = 0
      /\ tx[r].pc # "idle" => /\ tx'[r].seen = tx[r].seen /\ tx'[r].page = tx[r].page
                              /\ tx'[r].torn = tx[r].torn /\ tx[r].pc = "between"
  BY ListCountFrame
<1>2. LivePlaces' = LivePlaces /\ \A p : RowsDownTo(p)' = RowsDownTo(p)
  BY <1>1 DEF Queries, LivePlaces, RowsDownTo
<1>3. CASE tx[r].pc = "idle"
  <2>1. tx'[r].there = LivePlaces /\ tx'[r].page * PageSize = 0
    BY <1>1, <1>3, SizesAreNat DEF Queries
  <2> QED BY <1>1, <1>2, <2>1, ListedRowCounts
<1>4. CASE tx[r].pc # "idle"
  <2>1. tx[r].op = "list" /\ tx[r].pc = "between" /\ tx'[r].there = tx[r].there
    BY <1>1, <1>4 DEF Queries, GoesOn
  <2>2. ~tx[r].torn
    BY <1>1, <1>4 DEF Undisturbed
  <2>3. Undisturbed(r)
    BY <1>4, <2>1, <2>2, UndisturbedStep
  <2>4. \A p \in tx[r].there :
          /\ p \in LivePlaces
          /\ p \in tx[r].seen \/ Cardinality(RowsDownTo(p)) > tx[r].page * PageSize
    BY <2>1, <2>3 DEF ScrollInv
  <2> QED BY <1>1, <1>2, <1>4, <2>1, <2>4
<1> QED BY <1>3, <1>4

LEMMA ListRowsScrolls ==
  ASSUME TypeInv, TypeInv', ScrollInv, NEW r \in Requests, StepOf(r), ListRows(r),
         Undisturbed(r)'
  PROVE  /\ tx'[r].pc = "done" => tx'[r].there \subseteq tx'[r].seen
         /\ \A p \in tx'[r].there :
              /\ p \in LivePlaces'
              /\ p \in tx'[r].seen \/ Cardinality(RowsDownTo(p)') > tx'[r].page * PageSize
<1> DEFINE page == tx[r].page
<1>1. /\ Queries(r, "list", LivePlaces) /\ tx[r].pc = "reading"
      /\ tx'[r].pc = IF HasNext(page, tx[r].count) THEN "between" ELSE "done"
      /\ tx'[r].seen = tx[r].seen \cup PageRows(page)
      /\ tx'[r].page = page + 1
      /\ ~tx'[r].torn => ~tx[r].torn /\ Cardinality(LivePlaces) = tx[r].count
  BY ListRowsFrame
<1>2. LivePlaces' = LivePlaces /\ \A p : RowsDownTo(p)' = RowsDownTo(p)
  BY <1>1 DEF Queries, LivePlaces, RowsDownTo
<1>3. /\ tx[r].op = "list" /\ tx'[r].there = tx[r].there
      /\ ~tx[r].torn /\ Cardinality(LivePlaces) = tx[r].count
  BY <1>1 DEF Queries, GoesOn, Undisturbed
<1>4. Undisturbed(r)
  BY <1>1, <1>3, UndisturbedStep
<1>5. page \in Nat /\ tx[r].count \in Nat /\ PageSize \in Nat
  BY SizesAreNat DEF TypeInv, TxRecord
<1>6. page * PageSize \in Nat /\ (page + 1) * PageSize \in Nat
  BY <1>5
<1>7. ASSUME NEW p \in tx[r].there
      PROVE  /\ p \in LivePlaces
             /\ p \in tx'[r].seen \/ Cardinality(RowsDownTo(p)) > (page + 1) * PageSize
  <2>1. /\ p \in LivePlaces
        /\ p \in tx[r].seen \/ Cardinality(RowsDownTo(p)) > page * PageSize
    BY <1>1, <1>3, <1>4 DEF ScrollInv
  <2>2. Cardinality(RowsDownTo(p)) \in Nat
    BY RowsDownToFacts
  <2>3. CASE Cardinality(RowsDownTo(p)) \in page * PageSize + 1 .. (page + 1) * PageSize
    BY <1>1, <2>1, <2>3 DEF PageRows
  <2>4. CASE Cardinality(RowsDownTo(p)) \notin page * PageSize + 1 .. (page + 1) * PageSize
    BY <1>1, <1>6, <2>1, <2>2, <2>4
  <2> QED BY <2>1, <2>3, <2>4
<1>8. ASSUME tx'[r].pc = "done", NEW p \in tx[r].there
      PROVE  p \in tx'[r].seen
  <2>1. tx[r].count <= (page + 1) * PageSize
    BY <1>1, <1>5, <1>8, LastPage
  <2>2. /\ Cardinality(RowsDownTo(p)) \in Nat
        /\ Cardinality(RowsDownTo(p)) <= tx[r].count
    BY <1>3, RowsDownToFacts
  <2> QED BY <1>5, <1>6, <1>7, <2>1, <2>2
<1> QED BY <1>1, <1>2, <1>3, <1>7, <1>8

LEMMA ScrollInvStep ==
  ASSUME TypeInv, TypeInv', OrderInv, ScrollInv, NEW r \in Requests,
         Writes(r) \/ Reads(r) \/ PlanConfirms(r), StepOf(r)
  PROVE  ScrollInv'
<1> SUFFICES ASSUME NEW s \in Requests, tx'[s].op = "list", Undisturbed(s)'
             PROVE  /\ tx'[s].pc = "done" => tx'[s].there \subseteq tx'[s].seen
                    /\ tx'[s].pc \in {"reading", "between"} =>
                         \A p \in tx'[s].there :
                           /\ p \in LivePlaces'
                           /\ \/ p \in tx'[s].seen
                              \/ Cardinality(RowsDownTo(p)') > tx'[s].page * PageSize
  BY DEF ScrollInv
<1>1. CASE tx'[s] = tx[s]
  BY <1>1, OthersScrollOn, OrderStep
<1>2. CASE tx'[s] # tx[s]
  <2>1. s = r
    BY <1>2 DEF StepOf
  <2>2. ListCount(r) \/ ListRows(r)
    BY <1>2, <2>1, ClientSteps
  <2>3. CASE ListCount(r)
    BY <2>1, <2>3, ListCountScrolls
  <2>4. CASE ListRows(r)
    BY <2>1, <2>4, ListRowsScrolls
  <2> QED BY <2>2, <2>3, <2>4
<1> QED BY <1>1, <1>2

LEMMA ScrollInvNext ==
  ASSUME TypeInv, TypeInv', OrderInv, ScrollInv, [Next]_vars
  PROVE  OrderInv' /\ ScrollInv'
<1>1. CASE UNCHANGED vars
  <2>1. /\ tx' = tx /\ LivePlaces' = LivePlaces /\ order' = order
        /\ \A p : RowsDownTo(p)' = RowsDownTo(p)
    BY <1>1 DEF vars, LivePlaces, RowsDownTo
  <2>2. OrderInv'
    BY <2>1 DEF OrderInv, IsListed
  <2>3. \A s \in Requests : Undisturbed(s)' <=> Undisturbed(s)
    BY <2>1 DEF Undisturbed, Succeeded, Overlap
  <2> QED BY <2>1, <2>2, <2>3 DEF ScrollInv
<1>2. ASSUME NEW r \in Requests, Writes(r) \/ Reads(r) \/ PlanConfirms(r)
      PROVE  OrderInv' /\ ScrollInv'
  BY <1>2, OrderInvStep, ScrollInvStep, StepOfRequest
<1> QED BY <1>1, <1>2 DEF Next

LEMMA ScrollInvInit == Init => ScrollInv
BY DEF Init, ScrollInv, Idle

\* Scrolling shows every place that was there all along, for any page size and
\* any number of places, while others add to the list and edit it.
THEOREM BrowsingIsComplete == Spec => []BrowsingMissesNothing
<1>1. TypeInv /\ TypeInv' /\ OrderInv /\ ScrollInv /\ [Next]_vars => OrderInv' /\ ScrollInv'
  BY ScrollInvNext
<1>2. Spec => []TypeInv
  BY InitType, TypeInvStep, PTL DEF Spec
<1>3. Spec => [](OrderInv /\ ScrollInv)
  BY <1>1, <1>2, OrderInvInit, ScrollInvInit, PTL DEF Spec
<1>4. OrderInv /\ ScrollInv => BrowsingMissesNothing
  BY ScrollInvImplies
<1> QED BY <1>3, <1>4, PTL
-----------------------------------------------------------------------------
(* What a search has found is accepted                                     *)

\* A provider's item becomes a result only with coordinates in range.
LEMMA ResultIsChecked ==
  ASSUME NEW name, NEW address, NEW lat, NEW lon,
         BuildPlaceSearchResult(name, address, lat, lon) # NULL
  PROVE  /\ BuildPlaceSearchResult(name, address, lat, lon).latitude \in -90..90
         /\ BuildPlaceSearchResult(name, address, lat, lon).longitude \in -180..180
BY DEF BuildPlaceSearchResult, Place, IsValidLatitude, IsValidLongitude

\* Whatever the request, the settings and the answer are.
LEMMA SearchResultsAreInRange ==
  ASSUME NEW request, NEW configured, NEW answer,
         NEW found \in SearchPlaces(request, configured, answer).places
  PROVE  found.latitude \in -90..90 /\ found.longitude \in -180..180
<1>1. ASSUME NEW error PROVE Failed(error).places = {}
  BY DEF Failed
<1>2. CASE found \in SearchPlacesByKakao(configured, answer).places
  <2> DEFINE d(i) == answer.items[i]
             Result(i) == BuildPlaceSearchResult(d(i).name, OneOf(d(i).road_address, d(i).address),
                                                 ParseFloat(d(i).y),
                                                 ParseFloat(d(i).x))
  <2>1. \/ SearchPlacesByKakao(configured, answer).places = {}
        \/ SearchPlacesByKakao(configured, answer).places
             = Present([i \in DOMAIN answer.items |-> Result(i)])
    BY DEF SearchPlacesByKakao, Failed, Found
  <2> HIDE DEF Result
  <2>2. PICK i : found = Result(i) /\ found # NULL
    BY <1>2, <2>1 DEF Present
  <2>3. PICK name, address, lat, lon : Result(i) = BuildPlaceSearchResult(name, address, lat, lon)
    BY DEF Result
  <2> QED BY <2>2, <2>3, ResultIsChecked
<1>3. CASE found \in SearchPlacesByNaver(configured, answer).places
  <2> DEFINE d(i) == answer.items[i]
             Result(i) == BuildPlaceSearchResult(d(i).name, OneOf(d(i).road_address, d(i).address),
                                                 NormalizeNaverCoordinate(d(i).y, KoreaLatitudes),
                                                 NormalizeNaverCoordinate(d(i).x, KoreaLongitudes))
  <2>1. \/ SearchPlacesByNaver(configured, answer).places = {}
        \/ SearchPlacesByNaver(configured, answer).places
             = Present([i \in DOMAIN answer.items |-> Result(i)])
    BY DEF SearchPlacesByNaver, Failed, Found
  <2> HIDE DEF Result
  <2>2. PICK i : found = Result(i) /\ found # NULL
    BY <1>3, <2>1 DEF Present
  <2>3. PICK name, address, lat, lon : Result(i) = BuildPlaceSearchResult(name, address, lat, lon)
    BY DEF Result
  <2> QED BY <2>2, <2>3, ResultIsChecked
<1> QED BY <1>1, <1>2, <1>3 DEF SearchPlaces

LEMMA SearchedBodiesAreValid ==
  ASSUME NEW body \in SearchedBodies
  PROVE  CoordinatesAreValid(body)
<1>1. PICK s \in Searches :
        \E p \in SearchPlaces(s.request, s.configured, s.answer).places : body = BodyOf(p)
  BY DEF SearchedBodies
<1>2. PICK found \in SearchPlaces(s.request, s.configured, s.answer).places :
        body = BodyOf(found)
  BY <1>1
<1>3. found.latitude \in -90..90 /\ found.longitude \in -180..180
  BY <1>2, SearchResultsAreInRange
<1>4. body["latitude"] = found["latitude"] /\ body["longitude"] = found["longitude"]
  BY <1>2 DEF BodyOf, Columns
<1> QED BY <1>3, <1>4 DEF CoordinatesAreValid

\* A body is invalid for its coordinates only, also after its request has ended.
InvalidInv ==
  \A r \in Requests :
    tx[r].op = "create" /\ tx[r].result = "invalid" => ~CoordinatesAreValid(tx[r].write)

LEMMA InvalidInvImplies == InvalidInv => SearchedPlacesAreAccepted
BY SearchedBodiesAreValid DEF InvalidInv, SearchedPlacesAreAccepted

LEMMA InvalidInvStep ==
  ASSUME TypeInv, InvalidInv, NEW r \in Requests, Writes(r) \/ Reads(r) \/ PlanConfirms(r)
  PROVE  InvalidInv'
<1> DEFINE Invalid(x) == x.op = "create" /\ x.result = "invalid"
           Good(x) == Invalid(x) => ~CoordinatesAreValid(x.write)
<1>0. (\A q \in Requests : Good(tx'[q])) => InvalidInv'
  BY DEF InvalidInv, CoordinatesAreValid
<1>1. ASSUME TxMoves(r), Good(tx'[r]) PROVE InvalidInv'
  BY <1>0, <1>1 DEF TxMoves, InvalidInv
<1>2. ASSUME NEW body \in Bodies, CreateCheck(r, body) PROVE InvalidInv'
  <2> DEFINE passes == CoordinatesAreValid(body) /\ ~ExistsDuplicatePlace(body, NULL)
  <2>0. Checks(r, "create", passes, r, NULL, body)
    BY <1>2, CreateCheckFrame
  <2> HIDE DEF passes
  <2>1. TxMoves(r) /\ tx'[r].write = body
    BY <2>0 DEF Checks
  <2>2. tx'[r].result = "invalid" => ~CoordinatesAreValid(body)
    BY <1>2, CreateCheckFrame
  <2> QED BY <1>1, <2>1, <2>2
<1>3. ASSUME NEW op, NEW passes, NEW p, NEW read, NEW write,
             Checks(r, op, passes, p, read, write), op # "create"
      PROVE  InvalidInv'
  BY <1>1, <1>3 DEF Checks
<1>4. ASSUME NEW result \in {"ok", "failed"}, EndsWith(r, result) PROVE InvalidInv'
  BY <1>1, <1>4 DEF EndsWith, GoesOn
<1>5. ASSUME NEW op \in {"list", "draw"}, NEW there, Queries(r, op, there) PROVE InvalidInv'
  BY <1>1, <1>5 DEF Queries
<1>6. CASE Writes(r)
  <2>1. ASSUME NEW p \in Places, NEW patch \in Patches, UpdateCheck(r, p, patch)
        PROVE  InvalidInv'
    BY <1>3, <2>1, UpdateCheckFrame
  <2>2. ASSUME NEW p \in Places, DeleteCheck(r, p) PROVE InvalidInv'
    BY <1>3, <2>2, DeleteCheckFrame
  <2>3. ASSUME NEW p \in Places, PlanCheck(r, p) PROVE InvalidInv'
    BY <1>3, <2>3, PlanCheckFrame
  <2>4. ASSUME NEW p \in Places, NEW op \in Ops, PlaceIsMissing(r, op, p) PROVE InvalidInv'
    BY <1>3, <2>4, MissingFrame
  <2>5. ASSUME CreateCommit(r) \/ UpdateCommit(r) \/ DeleteCommit(r) \/ PlanCommit(r)
        PROVE  InvalidInv'
    BY <1>4, <2>5, CreateCommitFrame, UpdateCommitFrame, DeleteCommitFrame, PlanCommitFrame
  <2>6. ASSUME Fails(r) PROVE InvalidInv'
    BY <1>4, <2>6, EndFrame DEF Fails
  <2> QED BY <1>2, <1>6, <2>1, <2>2, <2>3, <2>4, <2>5, <2>6 DEF Writes
<1>7. CASE Reads(r)
  BY <1>5, <1>7, ListCountFrame, ListRowsFrame, DrawRefusedFrame, DrawPickFrame,
     DrawRemainingFrame DEF Reads
<1>8. CASE PlanConfirms(r)
  BY <1>8 DEF PlanConfirms, InvalidInv, CoordinatesAreValid
<1> QED BY <1>6, <1>7, <1>8

LEMMA InvalidInvNext == TypeInv /\ InvalidInv /\ [Next]_vars => InvalidInv'
<1>1. InvalidInv /\ UNCHANGED vars => InvalidInv'
  BY DEF vars, InvalidInv, CoordinatesAreValid
<1> QED BY <1>1, InvalidInvStep DEF Next

LEMMA InvalidInvInit == Init => InvalidInv
BY DEF Init, InvalidInv, Idle

\* Whatever a provider answers to whatever request, create_place does not reject
\* a search result for its coordinates: the search lets through only what
\* create_place accepts.
THEOREM SearchResultsAreAccepted == Spec => []SearchedPlacesAreAccepted
<1>1. Spec => []TypeInv
  BY InitType, TypeInvStep, PTL DEF Spec
<1>2. Spec => []InvalidInv
  BY <1>1, InvalidInvInit, InvalidInvNext, PTL DEF Spec
<1> QED BY <1>2, InvalidInvImplies, PTL
=============================================================================
