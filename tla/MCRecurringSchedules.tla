------------------------ MODULE MCRecurringSchedules ------------------------
(* Instances of RecurringSchedules for TLC.                                *)
EXTENDS RecurringSchedules, TLC

CONSTANTS u1, u2, g1, g2

\* u1 is busy at noon of Sundays and Mondays, u2 all day but on Sundays.
MCOldRows ==
  g1 :> [owner |-> u1, start |-> 12 * 60, end |-> 14 * 60, days |-> {0, 6}]
  @@ g2 :> [owner |-> u2, start |-> 0, end |-> MinutesPerDay - 1, days |-> DayOfWeek \ {6}]

MCBodies ==
  {[title |-> 12, days |-> <<0, 6>>, start |-> 540, end |-> 1080],
   [title |-> 12, days |-> <<>>, start |-> 540, end |-> 1080],
   [title |-> 13, days |-> <<0>>, start |-> 540, end |-> 1080],
   [title |-> 12, days |-> <<0, 0>>, start |-> NULL, end |-> 1080],
   [title |-> 12, days |-> <<1>>, start |-> 540, end |-> 540]}

MCPatches ==
  {[f \in {"start"} |-> 830], [f \in {"end"} |-> 730], [f \in {"days"} |-> <<6>>],
   [f \in {"days"} |-> <<0, 5>>], [f \in {"start", "end"} |-> 720]}

\* On a Friday, so that the next slot is Saturday's closing time, and on a Sunday
\* night, at the end of the week.
MCMoments == {4 * MinutesPerDay + 17 * 60 + 59, 6 * MinutesPerDay + 23 * 60 + 55}

Symmetry == Permutations(Requests)
=============================================================================
