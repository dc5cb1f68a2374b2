---------------------------- MODULE BusinessTime ----------------------------
(***************************************************************************)
(* Business hours (api/src/modules/working-calendar): adding hours to an   *)
(* instant and counting them between two, on a calendar with working days, *)
(* holidays, working hours and a break.                                    *)
(*                                                                         *)
(* An instant is a number of half minutes since midnight of day 0, a       *)
(* Sunday: the half minute stands for the seconds, which the code drops    *)
(* where it reads hours and minutes and keeps where it adds milliseconds.  *)
(***************************************************************************)
EXTENDS Integers, FiniteSetsExt

CONSTANTS
  WorkDays,    \* working days of the week, of 0 .. 6
  Holidays,    \* days that are holidays
  LastHoliday, \* none of them is later
  DayLength,   \* minutes in a day, 1440 in the code
  WorkStart,   \* minutes of the day; without a break, BreakStart and
  WorkEnd,     \* BreakEnd are WorkEnd, as the code takes them to be
  BreakStart,
  BreakEnd

ASSUME CalendarAssumption ==
  /\ WorkDays \subseteq 0 .. 6 /\ WorkDays # {}
  /\ LastHoliday \in Nat /\ Holidays \subseteq 0 .. LastHoliday
  /\ {WorkStart, BreakStart, BreakEnd, WorkEnd, DayLength} \subseteq Nat
  /\ WorkStart < BreakStart /\ BreakStart <= BreakEnd
  /\ BreakEnd <= WorkEnd /\ WorkEnd < DayLength

At(d, m) == 2 * (d * DayLength + m)
DayOf(t) == t \div At(1, 0)

\* getHours and getMinutes.
MinuteOf(t) == (t % At(1, 0)) \div 2

IsWorkingDay(d) == d % 7 \in WorkDays /\ d \notin Holidays

\* Day by day, until a working day; there is one in the week after the last holiday.
FirstWorkingDay(d) ==
  CHOOSE e \in d .. (d + LastHoliday + 7) :
    IsWorkingDay(e) /\ \A x \in d .. (e - 1) : ~IsWorkingDay(x)

-----------------------------------------------------------------------------
(* workingMinutesBetween, in half minutes.                                  *)

Overlap(a, b, c, d) == LET n == Min({b, d}) - Max({a, c}) IN Max({0, n})

\* Variant with a bug: the break is counted as work.
WorkedWithBreak(s, e, d) == Overlap(s, e, At(d, WorkStart), At(d, WorkEnd))

\* What day d has of the time from s to e.
Worked(s, e, d) ==
  Overlap(s, e, At(d, WorkStart), At(d, WorkEnd)) - Overlap(s, e, At(d, BreakStart), At(d, BreakEnd))

TimeBetween(s, e) ==
  IF e <= s THEN 0
  ELSE MapThenSumSet(LAMBDA d : Worked(s, e, d),
                     {d \in DayOf(s) .. DayOf(e) : IsWorkingDay(d)})

-----------------------------------------------------------------------------
(* normalizeToWorkingTime and addBusinessHours.                             *)

InBreak(m) == BreakStart <= m /\ m < BreakEnd

Opening(d) == At(FirstWorkingDay(d), WorkStart)

Normalized(t) ==
  LET m == MinuteOf(t) IN
  IF ~IsWorkingDay(DayOf(t)) \/ m < WorkStart THEN Opening(DayOf(t))
  ELSE IF m >= WorkEnd THEN Opening(DayOf(t) + 1)
  ELSE IF InBreak(m) THEN At(DayOf(t), BreakEnd)
  ELSE t

\* The working time that minute m leaves of its day.
Available(m) ==
  2 * Max({0, IF m >= BreakEnd THEN WorkEnd - m ELSE BreakStart - m + WorkEnd - BreakEnd})

\* Variant with a bug: what ends at the break is put off to its end.
MeetsBreak(m, left) == m < BreakStart /\ 2 * m + left >= 2 * BreakStart

\* What begins before the break and ends after its start goes on after it.
CrossesBreak(m, left) == m < BreakStart /\ 2 * m + left > 2 * BreakStart

\* The loop: from the instant c[1], a break or a day at a time, until the
\* time c[2] is used up.
Advance[c \in Nat \X Nat] ==
  LET t == c[1]
      left == c[2]
      m == MinuteOf(t)
  IN
  IF left = 0 THEN t
  ELSE IF ~IsWorkingDay(DayOf(t)) THEN Advance[<<At(DayOf(t) + 1, WorkStart), left>>]
  ELSE IF InBreak(m) THEN Advance[<<At(DayOf(t), BreakEnd), left>>]
  ELSE IF left > Available(m) THEN Advance[<<Opening(DayOf(t) + 1), left - Available(m)>>]
  ELSE IF CrossesBreak(m, left) THEN t + left + 2 * (BreakEnd - BreakStart)
  ELSE t + left

AddTime(t, left) == Advance[<<Normalized(t), left>>]

=============================================================================
