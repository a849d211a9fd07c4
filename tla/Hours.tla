------------------------------- MODULE Hours --------------------------------
(***************************************************************************)
(* Windows of hours of a day                                               *)
(* (apps/api/src/scenario/scenario-match.util.ts), as scenarios and the    *)
(* off-hours trigger of automations use them.                              *)
(***************************************************************************)
EXTENDS Integers

Hour == 0..23
NoHour == 99

\* Mutant: a window that passes midnight is taken for an empty one.
WithinADay(hour, start, end) ==
  \/ start = NoHour \/ end = NoHour \/ start = end
  \/ start <= hour /\ hour <= end

\* Both ends belong to the window; one that begins later than it ends passes midnight.
Within(hour, start, end) ==
  \/ start = NoHour \/ end = NoHour \/ start = end
  \/ start < end /\ start <= hour /\ hour <= end
  \/ start > end /\ (hour >= start \/ hour <= end)

\* A window by the clock: the hours passed from its start on, of a whole day if it starts
\* and ends at the same hour or is not given.
ClockWindow(start, end) ==
  IF NoHour \in {start, end} \/ start = end THEN Hour
  ELSE {(start + k) % 24 : k \in 0..((end - start) % 24)}
=============================================================================
