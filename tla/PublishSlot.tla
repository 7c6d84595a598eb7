----------------------------- MODULE PublishSlot -----------------------------
(***************************************************************************)
(* When a post may go out: compute_next_publish_slot, a pure function of   *)
(* an agency's automation rules and of the present instant.                *)
(*                                                                         *)
(* The clock is the agency's local time.  An instant is a day, counted     *)
(* from a Monday, and a time of that day; a day has DayLength times.       *)
(***************************************************************************)
EXTENDS Integers

CONSTANT DayLength

ASSUME DayLengthAssumption == DayLength \in Nat \ {0}

Times    == 0 .. DayLength - 1
Weekdays == 0 .. 6
Weekend  == {5, 6}
NoTime   == -1      \* what a malformed HH:MM parses to

Instants == [day : Nat, time : Times]

\* hold in units of time; start and end may be malformed.
Rules == [hold_window_seconds : Int, quiet_hours_enabled : BOOLEAN,
          skip_weekends : BOOLEAN, publish_window_start : Times \cup {NoTime},
          publish_window_end : Times \cup {NoTime}, publish_days : SUBSET Weekdays]

\* The answer None: publish at once.
Immediately == [day |-> -1, time |-> 0]

Weekday(t) == t.day % 7

Before(s, t) == s.day < t.day \/ (s.day = t.day /\ s.time < t.time)

-----------------------------------------------------------------------------

\* The hold, clamped to one day.
Hold(r) ==
  IF r.hold_window_seconds < 0 THEN 0
  ELSE IF r.hold_window_seconds > DayLength THEN DayLength
  ELSE r.hold_window_seconds

\* The instant h later, for an h of at most one day.
Later(t, h) ==
  IF t.time + h < DayLength THEN [t EXCEPT !.time = @ + h]
  ELSE [day |-> t.day + 1, time |-> t.time + h - DayLength]

HasStart(r)  == r.publish_window_start # NoTime /\ r.publish_days # {}
HasWindow(r) == HasStart(r) /\ r.publish_window_end # NoTime

\* The window includes its end, and may wrap around midnight.
InsideWindow(time, r) ==
  IF r.publish_window_start =< r.publish_window_end
  THEN r.publish_window_start =< time /\ time =< r.publish_window_end
  ELSE r.publish_window_start =< time \/ time =< r.publish_window_end

\* The first of the next seven days that is a publish day.
NextAllowedDay(day, r) ==
  CHOOSE d \in day + 1 .. day + 7 :
    /\ d % 7 \in r.publish_days
    /\ \A e \in day + 1 .. d - 1 : e % 7 \notin r.publish_days

NextAllowedStart(t, r) ==
  [day |-> NextAllowedDay(t.day, r), time |-> r.publish_window_start]

AfterWeekend(t, r) ==
  IF r.skip_weekends /\ Weekday(t) \in Weekend THEN NextAllowedStart(t, r) ELSE t

OnPublishDay(t, r) ==
  IF r.quiet_hours_enabled /\ Weekday(t) \notin r.publish_days
  THEN NextAllowedStart(t, r) ELSE t

\* Only ever applied to an instant of a publish day.
InsideQuietHours(t, r) ==
  IF ~r.quiet_hours_enabled \/ InsideWindow(t.time, r) THEN t
  ELSE IF r.publish_window_start > t.time THEN [t EXCEPT !.time = r.publish_window_start]
  ELSE NextAllowedStart(t, r)

NoToggle(r) == Hold(r) = 0 /\ ~r.quiet_hours_enabled /\ ~r.skip_weekends

\* Rules that need a window, or a day to shift to, and have none.
Unanchored(t, r) ==
  \/ r.skip_weekends /\ Weekday(t) \in Weekend /\ ~HasStart(r)
  \/ r.quiet_hours_enabled /\ ~HasWindow(r)

\* Mutant of NextSlot: the hold does not move a post out of the window.
NextSlotInWindow(now, r) ==
  LET target == IF HasWindow(r) /\ InsideWindow(now.time, r) THEN now ELSE Later(now, Hold(r))
      slot   == InsideQuietHours(OnPublishDay(AfterWeekend(target, r), r), r)
  IN IF NoToggle(r) \/ Unanchored(target, r) \/ slot = now THEN Immediately ELSE slot

NextSlot(now, r) ==
  LET target == Later(now, Hold(r))
      slot   == InsideQuietHours(OnPublishDay(AfterWeekend(target, r), r), r)
  IN IF NoToggle(r) \/ Unanchored(target, r) \/ slot = now THEN Immediately ELSE slot

=============================================================================
