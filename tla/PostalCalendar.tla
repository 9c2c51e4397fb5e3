----------------------------- MODULE PostalCalendar -----------------------------
(***************************************************************************)
(* The days and hours of the post (routing/calendar.go).  Time is counted  *)
(* in half hours from the midnight UTC that begins a year; the code counts *)
(* minutes, but its limits are full hours and its shortest leg takes half  *)
(* an hour.  A city's clock differs from UTC by a fixed zone.  Of the year *)
(* only the weekday of its first day and whether it is a leap year matter: *)
(* [jan1, leap].  The day after its last is the next year's January 1.     *)
(* What the code draws at random is a set of times here.                   *)
(***************************************************************************)
EXTENDS Integers, FiniteSets

Day == 48
At(n, hour) == n * Day + 2 * hour       \* an hour of day n, on the local clock

Sunday == 0
Monday == 1
Thursday == 4
Friday == 5
Saturday == 6

YearTypes == [jan1 : Sunday .. Saturday, leap : BOOLEAN]
Length(y) == IF y.leap THEN 366 ELSE 365

(* Days are numbered on into the next January: day 0 is January 1. *)
Weekday(y, n) == (y.jan1 + n) % 7
MonthStarts == <<0, 31, 59, 90, 120, 151, 181, 212, 243, 273, 304, 334>>
First(y, m) == MonthStarts[m] + (IF y.leap /\ m > 2 THEN 1 ELSE 0)

NewYear(y, n) == IF n < Length(y) THEN 0 ELSE Length(y)
MonthOf(y, n) ==
    LET d == n - NewYear(y, n)
    IN CHOOSE m \in 1 .. 12 : First(y, m) <= d /\ (m = 12 \/ d < First(y, m + 1))
Number(y, n, m, d) == NewYear(y, n) + First(y, m) + d - 1     \* day m/d of n's year
DayOf(y, n) == n - Number(y, n, MonthOf(y, n), 1) + 1
-----------------------------------------------------------------------------
(* The day of the month of its kth such weekday. *)
NthWeekday(y, n, m, wd, k) ==
    1 + ((wd - Weekday(y, Number(y, n, m, 1)) + 7) % 7) + (k - 1) * 7

LastMondayOfMay(y, n) == CHOOSE d \in 25 .. 31 : Weekday(y, Number(y, n, 5, d)) = Monday

(* isObservedFixed: Saturday's holiday is Friday's, Sunday's is Monday's. *)
IsObservedFixed(y, n, m, d) ==
    LET wd == Weekday(y, Number(y, n, m, d)) IN
    /\ MonthOf(y, n) = m
    /\ DayOf(y, n) = d + (CASE wd = Saturday -> -1 [] wd = Sunday -> 1 [] OTHER -> 0)

(* The holidays that are the nth of a weekday: month, weekday, which one. *)
Nths == {<<1, Monday, 3>>, <<2, Monday, 3>>, <<9, Monday, 1>>, <<10, Monday, 2>>, <<11, Thursday, 4>>}
Fixed == {<<1, 1>>, <<6, 19>>, <<7, 4>>, <<11, 11>>, <<12, 25>>}

(* Faulty: a New Year's Day on a Saturday is not observed at all. *)
IsFederalHolidayOfMonth(y, n) ==
    LET m == MonthOf(y, n)
        d == DayOf(y, n)
    IN \/ \E f \in Fixed : IsObservedFixed(y, n, f[1], f[2])
       \/ \E h \in Nths : h[1] = m /\ d = NthWeekday(y, n, m, h[2], h[3])
       \/ m = 5 /\ d = LastMondayOfMay(y, n)

(* The next year's January 1 may be observed in December. *)
IsFederalHoliday(y, n) ==
    LET m == MonthOf(y, n)
        d == DayOf(y, n)
    IN \/ \E f \in Fixed : IsObservedFixed(y, n, f[1], f[2])
       \/ \E h \in Nths : h[1] = m /\ d = NthWeekday(y, n, m, h[2], h[3])
       \/ m = 5 /\ d = LastMondayOfMay(y, n)
       \/ m = 12 /\ d = 31 /\ Weekday(y, n) = Friday /\ Weekday(y, n + 1) = Saturday

(* Computed once, in advance of all letters. *)
Days == {d \in YearTypes \X (0 .. 400) : d[2] <= Length(d[1]) + 30}
FederalHolidays == UNION {IF IsFederalHoliday(d[1], d[2]) THEN {d} ELSE {} : d \in Days}
XmasAndNewYear ==
    UNION {IF <<MonthOf(d[1], d[2]), DayOf(d[1], d[2])>> \in {<<12, 25>>, <<1, 1>>} THEN {d} ELSE {} : d \in Days}

(* IsBusinessDay: express mail rests on two days of the year only. *)
IsBusinessDay(y, n, express) ==
    IF express THEN <<y, n>> \notin XmasAndNewYear
    ELSE Weekday(y, n) # Sunday /\ <<y, n>> \notin FederalHolidays

AdvanceToBusinessDay(y, n, express) ==
    CHOOSE d \in n .. n + 5 :
        IsBusinessDay(y, d, express) /\ \A e \in n .. d - 1 : ~IsBusinessDay(y, e, express)
-----------------------------------------------------------------------------
(* Opening hours; t is a time on the local clock from here on. *)

DayAt(t) == t \div Day
Hour(t) == (t % Day) \div 2

OpenHr(express) == IF express THEN 5 ELSE 6
CloseHr(express) == IF express THEN 23 ELSE 22
DeliveryStart == 9
DeliveryEnd(express) == IF express THEN 19 ELSE 17
PostOfficeCutoff == 17
EveningDispatchCutoff == 18
ProcessingStart == 6

IsOpenDay(y, t, express) == IsBusinessDay(y, DayAt(t), express)

(* The carrier comes between 11 and 3 of a day without saying when. *)
CarrierTimes == 22 .. 29

NextCarrierPickup(y, t) ==
    LET today == {c \in CarrierTimes : IsOpenDay(y, t, FALSE) /\ t % Day < c}
        next == AdvanceToBusinessDay(y, DayAt(t) + 1, FALSE)
    IN {DayAt(t) * Day + c : c \in today}
         \cup (IF today = CarrierTimes THEN {} ELSE {next * Day + c : c \in CarrierTimes})

(* Mail brought in before five on a business day is taken at once. *)
NextProcessingStart(y, t, express) ==
    IF Hour(t) < PostOfficeCutoff /\ IsOpenDay(y, t, express) THEN t
    ELSE LET next == IF Hour(t) >= PostOfficeCutoff THEN DayAt(t) + 1 ELSE DayAt(t)
         IN At(AdvanceToBusinessDay(y, next, express), ProcessingStart)

NextBusinessOpen(y, t, express) ==
    At(AdvanceToBusinessDay(y, DayAt(t) + 1, express), OpenHr(express))

SnapToFacilityHours(y, t, express) ==
    IF Hour(t) >= CloseHr(express) \/ ~IsOpenDay(y, t, express) THEN NextBusinessOpen(y, t, express)
    ELSE IF Hour(t) < OpenHr(express) THEN At(DayAt(t), OpenHr(express))
    ELSE t

LeftToday(t, express) == At(DayAt(t), CloseHr(express)) - t

(* One turn of AddFacilityHours' loop: what does not fit goes on tomorrow. *)
FacilityTurn(y, t, left, express) ==
    IF left <= LeftToday(t, express) THEN [time |-> t + left, left |-> 0]
    ELSE [time |-> NextBusinessOpen(y, t, express), left |-> left - LeftToday(t, express)]

(* Today while the window is open, else in the next window. *)
NextDeliverySlot(y, t, express) ==
    LET end == At(DayAt(t), DeliveryEnd(express))
        day == AdvanceToBusinessDay(y,
            IF Hour(t) >= DeliveryEnd(express) \/ ~IsOpenDay(y, t, express) THEN DayAt(t) + 1
            ELSE DayAt(t), express)
    IN IF Hour(t) >= DeliveryStart /\ t < end /\ IsOpenDay(y, t, express) THEN t .. end - 1
       ELSE At(day, DeliveryStart) .. At(day, DeliveryEnd(express)) - 1
=============================================================================
