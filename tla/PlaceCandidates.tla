--------------------------- MODULE PlaceCandidates ---------------------------
(***************************************************************************)
(* The candidate places of one room: adding, editing, deleting, listing    *)
(* and drawing them (services/place/place_service.py, draw_place), and the *)
(* plans made of them (create_plan).  All callers are members of the room. *)
(*                                                                         *)
(* A handler runs in a thread and in one READ COMMITTED transaction.  Its  *)
(* checks take no lock and no constraint backs them: what it decides from  *)
(* them may be stale when it writes.  An action is the checks of a handler *)
(* or its writes with the commit; in the handlers that only read it is one *)
(* query.  What PlaceSearch finds is among the bodies of create_place.      *)
(***************************************************************************)
EXTENDS PlaceSearch, FiniteSets, Sequences

CONSTANTS
  OldPlaces,      \* places of the room from before the behaviour
  OldRows,        \* what they hold
  Requests,       \* requests; each one runs a handler once
  Searches,       \* searches for places: request, configured, answer
  OtherBodies,    \* bodies of create_place that come from elsewhere
  Patches,        \* bodies of update_place: a value for each field that is set
  Ops,            \* the endpoints clients call in this instance
  PageSize,
  MaxExcluded     \* MAX_DRAW_EXCLUDED_PLACE_IDS

VARIABLES
  place,  \* rows of places
  order,  \* ids of the rows, the newest created_at first
  plan,   \* the plan that a create_plan request has made
  tx      \* per request: program counter and locals

vars == <<place, order, plan, tx>>

-----------------------------------------------------------------------------
(* Rows and handlers                                                       *)

AllOps == {"create", "update", "delete", "plan", "list", "draw"}

\* A create_place request makes at most one place and stands for its id.
Places == OldPlaces \cup Requests

\* The columns that the checks look at.
Columns == {"name", "address", "latitude", "longitude"}

IsRow(f) == f = [c \in Columns |-> f[c]]

\* What a client fills in from a place that a search has found.
BodyOf(found) == [c \in Columns |-> found[c]]

SearchedBodies ==
  UNION {{BodyOf(p) : p \in SearchPlaces(s.request, s.configured, s.answer).places} :
           s \in Searches}

\* The bodies of create_place.
Bodies == SearchedBodies \cup OtherBodies

Latitudes == -90..90 \cup {NULL}
Longitudes == -180..180 \cup {NULL}

NoPlace == [state |-> "absent", row |-> NULL]
NoPlan == [status |-> "none", place |-> NULL]

Idle == [pc |-> "idle", op |-> "none", result |-> "none", place |-> NULL, read |-> NULL,
         write |-> NULL, before |-> {}, there |-> {}, seen |-> {}, page |-> 0, count |-> 0,
         torn |-> FALSE]

ASSUME NullIsNothing == NULL \notin Places \cup Int
ASSUME RequestsAreNew == OldPlaces \cap Requests = {}
ASSUME SizesAreNat == PageSize \in Nat \ {0} /\ MaxExcluded \in Nat
ASSUME OldPlacesAreFinite == IsFiniteSet(OldPlaces)
ASSUME RowsHaveColumns ==
  /\ \A b \in OtherBodies : IsRow(b)
  /\ \A patch \in Patches : DOMAIN patch \subseteq Columns

At(r, op, pc) == tx[r].op = op /\ tx[r].pc = pc

Succeeded(r) == tx[r].pc = "done" /\ tx[r].result = "ok"

Finished == {r \in Requests : tx[r].pc = "done"}

LivePlaces == {p \in Places : place[p].state = "live"}

\* The record of a request that begins now.
Fresh(op) == [Idle EXCEPT !.op = op, !.before = Finished]

Ends(r, result) == tx' = [tx EXCEPT ![r].pc = "done", ![r].result = result]

-----------------------------------------------------------------------------
(* What the handlers look up                                               *)

\* Mutant of CoordinatesAreValid: any pair of values will do.
CoordinatesAreGiven(row) == (row["latitude"] = NULL) = (row["longitude"] = NULL)

\* _normalize_coordinates
CoordinatesAreValid(row) ==
  \/ row["latitude"] = NULL /\ row["longitude"] = NULL
  \/ row["latitude"] \in -90..90 /\ row["longitude"] \in -180..180

ASSUME OldRowsAreChecked ==
  \A p \in OldPlaces : IsRow(OldRows[p]) /\ CoordinatesAreValid(OldRows[p])

\* Both are there, and they are not (0, 0).
HasValidCoordinates(row) ==
  /\ row["latitude"] # NULL /\ row["longitude"] # NULL
  /\ ~(row["latitude"] = 0 /\ row["longitude"] = 0)

\* Mutant of IsDuplicate: an address is not enough, it takes coordinates.
IsDuplicateSpot(row, other) ==
  /\ row["name"] # NULL /\ row["name"] = other["name"]
  /\ HasValidCoordinates(row)
  /\ row["latitude"] = other["latitude"] /\ row["longitude"] = other["longitude"]

\* Same name and address; without an address same name and spot.
IsDuplicate(row, other) ==
  /\ row["name"] # NULL /\ row["name"] = other["name"]
  /\ \/ row["address"] # NULL /\ row["address"] = other["address"]
     \/ /\ row["address"] = NULL /\ HasValidCoordinates(row)
        /\ row["latitude"] = other["latitude"] /\ row["longitude"] = other["longitude"]

\* exists_duplicate_place
ExistsDuplicatePlace(row, excluded) ==
  \E p \in LivePlaces \ {excluded} : IsDuplicate(row, place[p].row)

\* Mutant of PlaceHasActivePlan: a confirmed plan does not count.
PlaceHasVotingPlan(p) == \E r \in Requests : plan[r] = [status |-> "VOTING", place |-> p]

\* place_has_active_plan, find_active_plan_for_place; no plan is ever COMPLETED.
PlaceHasActivePlan(p) ==
  \E r \in Requests : plan[r].place = p /\ plan[r].status \in {"VOTING", "CONFIRMED"}

\* _drawable_place_conditions: no plan of any status, not excluded.
DrawablePlaces(excluded) ==
  {p \in LivePlaces : \A r \in Requests : plan[r].place # p} \ excluded

-----------------------------------------------------------------------------
(* create_place, update_place, delete_place                                *)

\* created_at is the start of the transaction.
CreateCheck(r, body) ==
  /\ "create" \in Ops /\ tx[r].pc = "idle"
  /\ LET refused == ~CoordinatesAreValid(body) \/ ExistsDuplicatePlace(body, NULL)
     IN  /\ tx' = [tx EXCEPT ![r] =
                     [Fresh("create") EXCEPT
                        !.pc = IF refused THEN "done" ELSE "writing",
                        !.result = CASE ~CoordinatesAreValid(body) -> "invalid"
                                     [] CoordinatesAreValid(body) /\ refused -> "refused"
                                     [] OTHER -> "none",
                        !.place = r, !.write = body]]
         /\ order' = IF refused THEN order ELSE <<r>> \o order
  /\ UNCHANGED <<place, plan>>

CreateCommit(r) ==
  /\ At(r, "create", "writing")
  /\ place' = [place EXCEPT ![r] = [state |-> "live", row |-> tx[r].write]]
  /\ Ends(r, "ok")
  /\ UNCHANGED <<order, plan>>

\* The row with the fields of a PATCH in it.
Patched(row, patch) == [c \in Columns |-> IF c \in DOMAIN patch THEN patch[c] ELSE row[c]]

\* Mutant of PatchIsValid: only what is set is validated.
PatchAloneIsValid(row, patch) ==
  /\ "latitude" \in DOMAIN patch => patch["latitude"] \in Latitudes
  /\ "longitude" \in DOMAIN patch => patch["longitude"] \in Longitudes

\* The coordinates are validated, as a pair, when one of them is set.
PatchIsValid(row, patch) ==
  {"latitude", "longitude"} \cap DOMAIN patch # {} => CoordinatesAreValid(Patched(row, patch))

UpdateCheck(r, p, patch) ==
  /\ "update" \in Ops /\ tx[r].pc = "idle"
  /\ place[p].state = "live"
  /\ LET row == Patched(place[p].row, patch)
         invalid == ~PatchIsValid(place[p].row, patch)
         refused == PlaceHasActivePlan(p) \/ ExistsDuplicatePlace(row, p)
     IN  tx' = [tx EXCEPT ![r] =
                  [Fresh("update") EXCEPT
                     !.pc = IF invalid \/ refused THEN "done" ELSE "writing",
                     !.result = IF PlaceHasActivePlan(p) THEN "refused"
                                ELSE IF invalid THEN "invalid"
                                ELSE IF refused THEN "refused" ELSE "none",
                     !.place = p, !.read = place[p].row, !.write = row]]
  /\ UNCHANGED <<place, order, plan>>

\* The UPDATE sets the columns whose value differs from the one that was read.
Merged(r, row) ==
  [c \in Columns |-> IF tx[r].write[c] # tx[r].read[c] THEN tx[r].write[c] ELSE row[c]]

\* It finds the row by its id, deleted or not.
UpdateCommit(r) ==
  /\ At(r, "update", "writing")
  /\ place' = [place EXCEPT ![tx[r].place].row = Merged(r, @)]
  /\ Ends(r, "ok")
  /\ UNCHANGED <<order, plan>>

DeleteCheck(r, p) ==
  /\ "delete" \in Ops /\ tx[r].pc = "idle"
  /\ place[p].state = "live"
  /\ tx' = [tx EXCEPT ![r] =
              [Fresh("delete") EXCEPT
                 !.pc = IF PlaceHasActivePlan(p) THEN "done" ELSE "writing",
                 !.result = IF PlaceHasActivePlan(p) THEN "refused" ELSE "none",
                 !.place = p]]
  /\ UNCHANGED <<place, order, plan>>

DeleteCommit(r) ==
  /\ At(r, "delete", "writing")
  /\ place' = [place EXCEPT ![tx[r].place].state = "deleted"]
  /\ Ends(r, "ok")
  /\ UNCHANGED <<order, plan>>

\* Update, delete and create_plan of a place that is not there (any more).
PlaceIsMissing(r, op, p) ==
  /\ op \in Ops \cap {"update", "delete", "plan"} /\ tx[r].pc = "idle"
  /\ place[p].state # "live"
  /\ tx' = [tx EXCEPT ![r] =
              [Fresh(op) EXCEPT !.pc = "done", !.result = "refused", !.place = p]]
  /\ UNCHANGED <<place, order, plan>>

-----------------------------------------------------------------------------
(* create_plan; PlanVoting has the rest of it                              *)

PlanCheck(r, p) ==
  /\ "plan" \in Ops /\ tx[r].pc = "idle"
  /\ place[p].state = "live"
  /\ tx' = [tx EXCEPT ![r] =
              [Fresh("plan") EXCEPT
                 !.pc = IF PlaceHasActivePlan(p) THEN "done" ELSE "writing",
                 !.result = IF PlaceHasActivePlan(p) THEN "refused" ELSE "none",
                 !.place = p]]
  /\ UNCHANGED <<place, order, plan>>

PlanCommit(r) ==
  /\ At(r, "plan", "writing")
  /\ plan' = [plan EXCEPT ![r] = [status |-> "VOTING", place |-> tx[r].place]]
  /\ Ends(r, "ok")
  /\ UNCHANGED <<place, order>>

PlanConfirms(r) ==
  /\ plan[r].status = "VOTING"
  /\ plan' = [plan EXCEPT ![r].status = "CONFIRMED"]
  /\ UNCHANGED <<place, order, tx>>

-----------------------------------------------------------------------------
(* get_places: a client scrolls through all the pages                      *)

\* count_active_places, of the first page or of the next one.
ListCount(r) ==
  /\ "list" \in Ops
  /\ tx[r].pc = "idle" \/ At(r, "list", "between")
  /\ tx' = [tx EXCEPT ![r] =
              [(IF @.pc = "idle" THEN [Fresh("list") EXCEPT !.there = LivePlaces] ELSE @)
                 EXCEPT !.pc = "reading", !.count = Cardinality(LivePlaces)]]
  /\ UNCHANGED <<place, order, plan>>

\* The rows of the list down to that of p, the newest first.
RowsDownTo(p) ==
  {q \in LivePlaces : \E i, j \in DOMAIN order : i <= j /\ order[i] = q /\ order[j] = p}

\* find_place_list_rows
PageRows(page) ==
  {p \in LivePlaces :
     Cardinality(RowsDownTo(p)) \in page * PageSize + 1 .. (page + 1) * PageSize}

\* Mutant of HasNext: a last page that is not full is forgotten.
HasFullNext(page, count) == page + 1 < count \div PageSize

\* page + 1 < ceil(count / size)
HasNext(page, count) == page + 1 < (count + PageSize - 1) \div PageSize

\* The rows are a second snapshot.
ListRows(r) ==
  /\ At(r, "list", "reading")
  /\ LET last == ~HasNext(tx[r].page, tx[r].count)
     IN  tx' = [tx EXCEPT ![r].pc = IF last THEN "done" ELSE "between",
                          ![r].result = IF last THEN "ok" ELSE "none",
                          ![r].seen = @ \cup PageRows(tx[r].page),
                          ![r].page = @ + 1,
                          ![r].torn = @ \/ Cardinality(LivePlaces) # tx[r].count]
  /\ UNCHANGED <<place, order, plan>>

-----------------------------------------------------------------------------
(* draw_place: a client draws again as long as it may                      *)

\* More ids than MAX_DRAW_EXCLUDED_PLACE_IDS are invalid; find_random_drawable_place
\* finds nothing when count_drawable_places does not.
DrawRefused(r) ==
  /\ "draw" \in Ops
  /\ tx[r].pc = "idle" \/ At(r, "draw", "between")
  /\ \/ Cardinality(tx[r].seen) > MaxExcluded
     \/ DrawablePlaces(tx[r].seen) = {}
  /\ tx' = [tx EXCEPT ![r] =
              [(IF @.pc = "idle" THEN [Fresh("draw") EXCEPT !.there = DrawablePlaces({})] ELSE @)
                 EXCEPT !.pc = "done", !.result = "refused"]]
  /\ UNCHANGED <<place, order, plan>>

\* The drawn place joins the excluded ones (_append_unique_place_id).
DrawPick(r, p) ==
  /\ "draw" \in Ops
  /\ tx[r].pc = "idle" \/ At(r, "draw", "between")
  /\ Cardinality(tx[r].seen) <= MaxExcluded
  /\ p \in DrawablePlaces(tx[r].seen)
  /\ tx' = [tx EXCEPT ![r] =
              [(IF @.pc = "idle" THEN [Fresh("draw") EXCEPT !.there = DrawablePlaces({})] ELSE @)
                 EXCEPT !.pc = "counting", !.seen = tx[r].seen \cup {p}]]
  /\ UNCHANGED <<place, order, plan>>

\* Mutant of CanRedraw: off by one.
CanRedrawTwo(remaining) == remaining > 1

CanRedraw(remaining) == remaining > 0

\* remaining_drawable_place_count, and the client's next request or its end.
DrawRemaining(r) ==
  /\ At(r, "draw", "counting")
  /\ LET more == CanRedraw(Cardinality(DrawablePlaces(tx[r].seen)))
     IN  tx' = [tx EXCEPT ![r].pc = IF more THEN "between" ELSE "done",
                          ![r].result = IF more THEN "none" ELSE "ok"]
  /\ UNCHANGED <<place, order, plan>>

-----------------------------------------------------------------------------
(* Specification                                                           *)

\* The database fails: rollback.
Fails(r) ==
  /\ tx[r].pc = "writing"
  /\ Ends(r, "failed")
  /\ UNCHANGED <<place, order, plan>>

Init ==
  /\ place = [p \in Places |-> IF p \in OldPlaces THEN [state |-> "live", row |-> OldRows[p]]
                               ELSE NoPlace]
  /\ order \in {s \in [1..Cardinality(OldPlaces) -> OldPlaces] :
                  \A i, j \in DOMAIN s : s[i] = s[j] => i = j}
  /\ plan = [r \in Requests |-> NoPlan]
  /\ tx = [r \in Requests |-> Idle]

Writes(r) ==
  \/ \E body \in Bodies : CreateCheck(r, body)
  \/ CreateCommit(r)
  \/ \E p \in Places :
       \/ \E patch \in Patches : UpdateCheck(r, p, patch)
       \/ DeleteCheck(r, p) \/ PlanCheck(r, p)
       \/ \E op \in Ops : PlaceIsMissing(r, op, p)
  \/ UpdateCommit(r) \/ DeleteCommit(r) \/ PlanCommit(r)
  \/ Fails(r)

Reads(r) ==
  \/ ListCount(r) \/ ListRows(r)
  \/ DrawRefused(r) \/ DrawRemaining(r)
  \/ \E p \in Places : DrawPick(r, p)

Next == \E r \in Requests : Writes(r) \/ Reads(r) \/ PlanConfirms(r)

Spec == Init /\ [][Next]_vars

-----------------------------------------------------------------------------
(* Properties                                                              *)

\* Every variable keeps the type of the rows and locals it models; stored
\* coordinates are in range, however PATCHes mix.
TypeOK ==
  /\ \A p \in Places :
       \/ place[p] = NoPlace
       \/ /\ place[p].state \in {"live", "deleted"}
          /\ DOMAIN place[p].row = Columns
          /\ place[p].row["latitude"] \in Latitudes
          /\ place[p].row["longitude"] \in Longitudes
  /\ order \in Seq(Places)
  /\ plan \in [Requests -> [status : {"none", "VOTING", "CONFIRMED"}, place : Places \cup {NULL}]]
  /\ \A r \in Requests : tx[r].page \in Nat /\ tx[r].before \subseteq Finished

Overlap(r, s) == r # s /\ r \notin tx[s].before /\ s \notin tx[r].before

\* The requests that have written the fields of a place.
Writers(p) == {r \in Requests : /\ Succeeded(r) /\ tx[r].place = p
                                /\ tx[r].op \in {"create", "update"}}

Conflict(rs) == \E r, s \in rs : Overlap(r, s)

SamePlace(a, b) ==
  /\ a["name"] # NULL /\ a["name"] = b["name"]
  /\ \/ a["address"] # NULL /\ a["address"] = b["address"]
     \/ /\ a["address"] = NULL /\ b["address"] = NULL /\ HasValidCoordinates(a)
        /\ a["latitude"] = b["latitude"] /\ a["longitude"] = b["longitude"]

\* Requests are all that adds or edits a place.
ASSUME OldRowsDiffer ==
  \A p, q \in OldPlaces : p # q => ~SamePlace(OldRows[p], OldRows[q])

\* The same place is in the room twice only if two requests that wrote one of
\* the two overlapped: adding, editing and deleting one after the other never
\* gets there.
DuplicatesOnlyByOverlap ==
  \A p, q \in LivePlaces :
    p # q /\ SamePlace(place[p].row, place[q].row) => Conflict(Writers(p) \cup Writers(q))

\* A place has one coordinate without the other only after two PATCHes of it
\* that overlapped, each of which had validated the pair.
CoordinatesComeInPairs ==
  \A p \in Places :
    /\ place[p].state # "absent"
    /\ (place[p].row["latitude"] = NULL) # (place[p].row["longitude"] = NULL)
    => Conflict(Writers(p))

\* Once a place is deleted, no later request edits, deletes or plans it; once it
\* has a plan, voting or confirmed, no later request edits it, deletes it or
\* makes a second plan of it.  Only requests that overlap get past each other.
SerialRequestsRespectPlans ==
  \A r, s \in Requests :
    /\ Succeeded(r) /\ Succeeded(s)
    /\ r \in tx[s].before /\ tx[r].place = tx[s].place
    /\ tx[s].op \in {"update", "delete", "plan"}
    => tx[r].op \notin {"delete", "plan"}

\* A client that scrolls to the last page has seen every place that was there
\* all along, unless a place was deleted meanwhile or the count of a page is
\* from another moment than its rows.
BrowsingMissesNothing ==
  \A r \in Requests :
    /\ At(r, "list", "done") /\ ~tx[r].torn
    /\ ~\E s \in Requests : Succeeded(s) /\ tx[s].op = "delete" /\ Overlap(r, s)
    => tx[r].there \subseteq tx[r].seen

\* A client that draws until it may not draw again has been shown every place
\* that could be drawn all along, unless it has come to the limit of excluded
\* ids.
DrawsGoThroughAll ==
  \A r \in Requests :
    At(r, "draw", "done") /\ Cardinality(tx[r].seen) <= MaxExcluded
      => tx[r].there \cap DrawablePlaces({}) \subseteq tx[r].seen

\* What a client fills in from a search result is never rejected for its
\* coordinates.
SearchedPlacesAreAccepted ==
  \A r \in Requests :
    tx[r].op = "create" /\ tx[r].write \in SearchedBodies => tx[r].result # "invalid"

=============================================================================
