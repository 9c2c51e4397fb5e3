--------------------------------- MODULE Route ---------------------------------
(***************************************************************************)
(* The schedule of a letter's route (routing/dijkstra.go, Route and        *)
(* scheduleHops): from the mailbox or the counter through the sorting      *)
(* facilities to the door, on the calendar of PostalCalendar.  What the    *)
(* code computes in one call is one step for each of its turns here.  The  *)
(* shortest path is given by the number of its cities; legs, dwell times   *)
(* and carriers take any of a few times, where the code computes distances *)
(* and draws at random.                                                    *)
(***************************************************************************)
EXTENDS PostalCalendar

CONSTANTS
    Years,      \* year types looked at
    Dates,      \* local times at which letters are sent; no clock is before the year
    Lengths,    \* numbers of cities on a shortest path
    Legs,       \* times between two cities
    Dwells,     \* times in a sorting facility
    Zones       \* what local clocks are off UTC

ASSUME RouteAssumption ==
    /\ Years \subseteq YearTypes /\ Dates \subseteq {t \in Nat : t >= 2 * Day}
    /\ Lengths \subseteq Nat \ {0} /\ Legs \subseteq Nat \ {0} /\ Dwells \subseteq Nat \ {0}
    /\ Zones \subseteq -Day .. Day

VARIABLES
    year,       \* the year's type
    tier, intl, \* of the letter; intl: the two cities' countries differ
    cities,     \* on its path, sampled
    hop,        \* the last of them that was scheduled
    zone,       \* that city's
    cursor,     \* the time the schedule has reached, in UTC
    left,       \* the rest of a dwell time
    customs,    \* the letter has been through customs
    pc

letter == <<year, tier, intl, cities>>
route == <<letter, hop, zone, cursor, left, customs, pc>>

Tiers == {"standard", "priority", "express"}
Express == tier = "express"
Local == cursor + zone
-----------------------------------------------------------------------------
MaxHops == 10

(* samplePath: the first and the last city, and one of each of eight buckets. *)
Sampled(n) == IF n <= MaxHops THEN n ELSE MaxHops

MaxFacilityHops(t) == CASE t = "standard" -> 5 [] t = "priority" -> 4 [] t = "express" -> 3
(* CustomsDays, of 24 hours each; they are spent in opening hours. *)
CustomsTime(t) == CASE t = "standard" -> 480 [] t = "priority" -> 192 [] t = "express" -> 72

Within(i, n) == IF i < 1 THEN 1 ELSE IF i >= n - 1 THEN n - 2 ELSE i

(* selectFacilityHops: the stops between are spread evenly, each rounded to   *)
(* the nearest city.                                                         *)
SelectFacilityHops(n, max) ==
    IF n <= 2 THEN {0, n - 1}
    ELSE IF max - 2 >= n - 2 THEN 0 .. n - 1
    ELSE {0, n - 1} \cup
         {Within((2 * i * (n - 2) + max - 1) \div (2 * (max - 1)), n) : i \in 1 .. max - 2}
-----------------------------------------------------------------------------
RouteInit ==
    /\ year \in Years /\ tier \in Tiers /\ intl \in BOOLEAN
    /\ cities \in {Sampled(n) : n \in Lengths} /\ (intl => cities > 1)
    /\ \E t \in Dates : \E z \in Zones : zone = z /\ cursor = t - z
    /\ hop = 0 /\ left = 0 /\ customs = FALSE
    /\ pc = IF tier = "standard" THEN "mailbox" ELSE "counter"

(* The carrier comes back one to three hours after the pickup, sorting takes  *)
(* thirty to ninety minutes more.  What misses the dispatch at six is put at  *)
(* five of the same day, past the hour at which NextProcessingStart takes it. *)
PickUp ==
    /\ pc = "mailbox"
    /\ \E pickup \in NextCarrierPickup(year, Local), round \in 3 .. 8 :
         LET sorted == pickup + round
             after == IF Hour(sorted) < EveningDispatchCutoff THEN sorted
                      ELSE At(DayAt(pickup), PostOfficeCutoff)
         IN cursor' = after - zone
    /\ pc' = "counter"
    /\ UNCHANGED <<letter, hop, zone, left, customs>>

(* Within one city a letter dwells there once. *)
Depart ==
    /\ pc = "counter"
    /\ LET start == NextProcessingStart(year, Local, Express) IN
       IF cities = 1
       THEN /\ cursor' = SnapToFacilityHours(year, start, Express) - zone
            /\ left' \in Dwells /\ pc' = "facility"
       ELSE cursor' = start - zone /\ pc' = "road" /\ UNCHANGED left
    /\ UNCHANGED <<letter, hop, zone, customs>>

(* Customs belong to the first hop, if it is a facility and not the last. *)
Enter(next) ==
    LET held == intl /\ next = 1 IN
    /\ customs' = (customs \/ held)
    /\ \E dwell \in Dwells : left' = dwell + (IF held THEN CustomsTime(tier) ELSE 0)

Travel ==
    /\ pc = "road"
    /\ hop' = hop + 1
    /\ \E leg \in Legs, z \in Zones :
         LET arrival == cursor + leg IN
         /\ zone' = z
         /\ IF hop + 1 = cities - 1
            THEN cursor' = arrival /\ pc' = "door" /\ UNCHANGED <<left, customs>>
            ELSE IF hop + 1 \in SelectFacilityHops(cities, MaxFacilityHops(tier))
            THEN /\ cursor' = SnapToFacilityHours(year, arrival + z, Express) - z
                 /\ pc' = "facility" /\ Enter(hop + 1)
            ELSE cursor' = arrival /\ UNCHANGED <<pc, left, customs>>
    /\ UNCHANGED letter

(* A turn of AddFacilityHours. *)
Dwell ==
    /\ pc = "facility"
    /\ LET turn == FacilityTurn(year, Local, left, Express) IN
       /\ cursor' = turn.time - zone
       /\ left' = turn.left
       /\ pc' = IF turn.left > 0 THEN "facility" ELSE IF cities = 1 THEN "door" ELSE "road"
    /\ UNCHANGED <<letter, hop, zone, customs>>

Deliver ==
    /\ pc = "door"
    /\ \E slot \in NextDeliverySlot(year, Local, Express) : cursor' = slot - zone
    /\ pc' = "delivered"
    /\ UNCHANGED <<letter, hop, zone, left, customs>>

RouteNext == PickUp \/ Depart \/ Travel \/ Dwell \/ Deliver

RouteSpec == RouteInit /\ [][RouteNext]_route
-----------------------------------------------------------------------------
(* The holidays as they are meant: of a date, of a weekday of a month, moved  *)
(* to the nearest weekday.                                                   *)
MonthDays(y, m) == {d \in 0 .. Length(y) - 1 : MonthOf(y, d) = m}
Are(y, m, wd) == {d \in MonthDays(y, m) : Weekday(y, d) = wd}
KthOf(set, k) == {d \in set : Cardinality({e \in set : e <= d}) = k}
LastOf(set) == {d \in set : \A e \in set : e <= d}

Nearest(y, d) == CASE Weekday(y, d) = Saturday -> d - 1 [] Weekday(y, d) = Sunday -> d + 1 [] OTHER -> d

HolidaysOf(y) ==
    {Nearest(y, First(y, f[1]) + f[2] - 1) : f \in Fixed} \cup {Nearest(y, Length(y))}
    \cup (UNION {KthOf(Are(y, h[1], h[2]), h[3]) : h \in Nths})
    \cup LastOf(Are(y, 5, Monday))
    \cup KthOf({d \in Length(y) .. Length(y) + 30 : Weekday(y, d) = Monday}, 3)

Holidays == UNION {{<<y, n>> : n \in HolidaysOf(y)} : y \in YearTypes}

Works(n) ==
    IF Express THEN n \notin {0, First(year, 12) + 24, Length(year)}
    ELSE Weekday(year, n) # Sunday /\ <<year, n>> \notin Holidays

(* A letter moves forward in time; facilities work on it, and it is brought   *)
(* to the door, only in their hours of days that are neither Sundays nor      *)
(* observed holidays where it is (AddFacilityHours, NextDeliverySlot), and    *)
(* never later than on the first such day whose window it can make.           *)
Moved ==
    /\ cursor' >= cursor
    /\ pc' = "facility" => LET t == cursor' + zone' IN
         Works(DayAt(t)) /\ Hour(t) >= OpenHr(Express) /\ t < At(DayAt(t), CloseHr(Express))
    /\ pc' = "delivered" => LET t == cursor' + zone' IN
         /\ Works(DayAt(t))
         /\ Hour(t) >= DeliveryStart /\ Hour(t) < DeliveryEnd(Express)
         /\ \A n \in DayAt(Local) .. DayAt(t) - 1 :
              Works(n) => Local >= At(n, DeliveryEnd(Express))

LettersMoveInOpeningHours == [][Moved]_route

(* What Route's comment promises: "When international is true, customs delays *)
(* are added to the transit time", as TransitDays adds them to the estimate.  *)
(* scheduleHops adds them to one stop only, and that stop may be missing.     *)
CustomsWhenInternational == pc = "delivered" /\ intl => customs

(* What scheduleHops does: an international letter passes customs just when   *)
(* its path is short, since no stop is the first hop of a path of 8 cities, of *)
(* 7 for priority, of 5 for express, or of more, and paths of two cities have *)
(* no stop at all.                                                           *)
CustomsOnShortPaths ==
    pc = "delivered" =>
        (customs <=> intl /\ cities > 2 /\ 2 * (cities - 2) < 3 * (MaxFacilityHops(tier) - 1))
=============================================================================
