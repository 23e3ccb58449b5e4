--------------------------- MODULE RecommendedTime ---------------------------
(***************************************************************************)
(* The time that draw_place recommends for a plan                          *)
(* (_find_recommended_scheduled_at in services/plan/plan_service.py): the  *)
(* first slot after the response deadline, in business hours, at which no  *)
(* member of the room has a recurring schedule.                            *)
(*                                                                         *)
(* Times are minutes since the midnight of a Monday in KST, which has no   *)
(* daylight saving.  The search is a loop; a step is one iteration of it.  *)
(***************************************************************************)
EXTENDS Integers

CONSTANTS
  NULL,
  SlotMinutes,    \* RECOMMEND_TIME_SLOT_MINUTES, 10
  SearchDays,     \* RECOMMEND_SEARCH_DAYS, 30
  BusinessStart,  \* RECOMMEND_BUSINESS_START, 11 * 60
  BusinessEnd     \* RECOMMEND_BUSINESS_END, 20 * 60

MinutesPerDay == 24 * 60
MinutesPerWeek == 7 * MinutesPerDay

ASSUME TimesAreNumbers ==
  /\ NULL \notin Int
  /\ SlotMinutes \in Nat \ {0} /\ SearchDays \in Nat
  /\ BusinessStart \in Nat /\ BusinessEnd \in Nat

\* Days and the opening are on the grid of the slots, there is one before the
\* closing, and a search goes through a week at least.
ASSUME SlotsFitTheDay ==
  /\ MinutesPerDay % SlotMinutes = 0 /\ BusinessStart % SlotMinutes = 0
  /\ BusinessStart < BusinessEnd /\ BusinessEnd <= MinutesPerDay
  /\ SearchDays >= 6

VARIABLE search  \* the loop's parameters and locals

NotSearching == [state |-> "none"]
Answered == [state |-> "answered"]

-----------------------------------------------------------------------------
(* Times                                                                   *)

\* PYTHON_WEEKDAY_TO_DAY_OF_WEEK
DayOfWeek == 0..6

MinuteOfDay(t) == t % MinutesPerDay
Weekday(t) == (t \div MinutesPerDay) % 7

\* Seconds only count as "later than this minute".
NextSlotAfter(t) == (t \div SlotMinutes + 1) * SlotMinutes

BusinessStartForDay(t) == (t - MinuteOfDay(t)) + BusinessStart
BusinessEndForDay(t) == (t - MinuteOfDay(t)) + BusinessEnd

\* Mutant of AdjustToBusinessWindow: the closing time counts as open.
AdjustToClosingTime(t) ==
  IF t < BusinessStartForDay(t) THEN BusinessStartForDay(t)
  ELSE IF t > BusinessEndForDay(t) THEN BusinessStartForDay(t + MinutesPerDay)
  ELSE t

AdjustToBusinessWindow(t) ==
  IF t < BusinessStartForDay(t) THEN BusinessStartForDay(t)
  ELSE IF t >= BusinessEndForDay(t) THEN BusinessStartForDay(t + MinutesPerDay)
  ELSE t

-----------------------------------------------------------------------------
(* The search; `rows` is what the database has returned of the members'    *)
(* recurring schedules.                                                    *)

RangesOf(rows, u, day) == {row \in rows : row.user = u /\ row.day = day}

\* Mutant of HasRecurringScheduleConflict: one may start when another starts.
HasConflictAfterStart(rows, u, t) ==
  \E row \in RangesOf(rows, u, Weekday(t)) :
    row.start < MinuteOfDay(t) /\ MinuteOfDay(t) < row.end

HasRecurringScheduleConflict(rows, u, t) ==
  \E row \in RangesOf(rows, u, Weekday(t)) :
    row.start <= MinuteOfDay(t) /\ MinuteOfDay(t) < row.end

CreatorIsFree(s, t) == ~HasRecurringScheduleConflict(s.rows, s.creator, t)

GroupIsFree(s, t) == \A u \in s.members : ~HasRecurringScheduleConflict(s.rows, u, t)

FirstCandidate(deadline) == AdjustToBusinessWindow(NextSlotAfter(deadline))

MaxSlots == ((SearchDays + 1) * 24 * 60) \div SlotMinutes

StartSearch(deadline, creator, members, rows) ==
  search' = [state |-> "running", deadline |-> deadline, creator |-> creator,
             members |-> members, rows |-> rows, candidate |-> FirstCandidate(deadline),
             checked |-> 0, fallback |-> NULL, result |-> NULL]

Recommends(t) == search' = [search EXCEPT !.state = "done", !.result = t]

SearchFinds ==
  /\ search.state = "running" /\ search.checked < MaxSlots
  /\ LET t == AdjustToBusinessWindow(search.candidate)
     IN  /\ CreatorIsFree(search, t) /\ GroupIsFree(search, t)
         /\ Recommends(t)

\* Only the first slot at which the creator is free is kept.
SearchGoesOn ==
  /\ search.state = "running" /\ search.checked < MaxSlots
  /\ LET t == AdjustToBusinessWindow(search.candidate)
     IN  /\ ~(CreatorIsFree(search, t) /\ GroupIsFree(search, t))
         /\ search' = [search EXCEPT
              !.candidate = t + SlotMinutes,
              !.checked = @ + 1,
              !.fallback = IF @ = NULL /\ CreatorIsFree(search, t) THEN t ELSE @]

SearchGivesUp ==
  /\ search.state = "running" /\ search.checked >= MaxSlots
  /\ Recommends(IF search.fallback # NULL THEN search.fallback
                ELSE FirstCandidate(search.deadline))

SearchStep == SearchFinds \/ SearchGoesOn \/ SearchGivesUp

-----------------------------------------------------------------------------
(* Properties                                                              *)

\* Slots within a week after the deadline.  Schedules recur weekly: what is
\* not free in one week is not free in any.
SlotsAfter(deadline) ==
  {t \in {k * SlotMinutes : k \in deadline \div SlotMinutes + 1 ..
                                  (deadline + MinutesPerWeek) \div SlotMinutes} :
     BusinessStart <= MinuteOfDay(t) /\ MinuteOfDay(t) < BusinessEnd}

IsEarliest(t, slots) == t \in slots /\ \A other \in slots : t <= other

\* draw_place recommends the earliest slot at which everybody is free; when
\* there is none, the earliest one at which the creator is, and else the first
\* one.  It is later than the response deadline, so that create_plan accepts it,
\* and within business hours, at every hour and day of the week.
RecommendationIsBest ==
  search.state = "done" =>
    LET slots == SlotsAfter(search.deadline)
        creators == {t \in slots : CreatorIsFree(search, t)}
        groups == {t \in creators : GroupIsFree(search, t)}
    IN  IsEarliest(search.result, IF groups # {} THEN groups
                                  ELSE IF creators # {} THEN creators ELSE slots)

=============================================================================
