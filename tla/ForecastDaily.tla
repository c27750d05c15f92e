----------------------------- MODULE ForecastDaily -----------------------------
(* The daily curve of an imported monthly forecast                             *)
(* (scripts/import_ai_forecast.py: fetch_daily_weights, _build_daily_-         *)
(* allocations): a store's forecast is spread over the days of the month by    *)
(* the store's daily profile of a reference month, aligned on the ordinal of   *)
(* the weekday, rounded to units, with the rest on the last day.               *)
EXTENDS Integers, FiniteSets, FiniteSetsExt, Functions, SequencesExt

CONSTANTS
  Week,    \* days of a week
  Inputs,  \* [first, days, refFirst, ref, total]: the calendar, profile and forecast
  Scale    \* common multiple of the number of days a weekday has in a month

VARIABLES
  in,      \* the store and month at hand
  out      \* day -> units, or << >> before the curve is built

vars == <<in, out>>

Init == in \in Inputs /\ out = << >>

-----------------------------------------------------------------------------
Weekday(first, d) == (first + d - 1) % Week

\* weekday_occurrence: how many days with this weekday there were up to d.
Occurrence(d) == ((d - 1) \div Week) + 1

\* Days of the reference month that have sales rows, and their values.
RefDays(i) == DOMAIN i.ref

RefTotal(i) == SumFunction(i.ref)

\* The reference day with d's weekday and ordinal.
Aligned(i, d) ==
  {r \in RefDays(i) : /\ Weekday(i.refFirst, r) = Weekday(i.first, d)
                      /\ Occurrence(r) = Occurrence(d)}

SameWeekday(i, d) == {r \in RefDays(i) : Weekday(i.refFirst, r) = Weekday(i.first, d)}

\* In Scale-ths: the aligned day, else the weekday's average, else nothing.
Projected(i, d) ==
  LET same == SameWeekday(i, d)
  IN CASE Aligned(i, d) # {} -> Scale * i.ref[CHOOSE r \in Aligned(i, d) : TRUE]
       [] Aligned(i, d) = {} /\ same # {} ->
            (Scale * SumFunctionOnSet(i.ref, same)) \div Cardinality(same)
       [] OTHER -> 0

ProjectedTotal(i) == SumFunction([d \in 1..i.days |-> Projected(i, d)])

\* No sales to speak of: every day weighs the same.
Uniform(i) == RefTotal(i) <= 0 \/ ProjectedTotal(i) <= 0

Weight(i, d) == IF Uniform(i) THEN 1 ELSE Projected(i, d)

Weights(i) == IF Uniform(i) THEN i.days ELSE ProjectedTotal(i)

\* ROUND_HALF_UP of num / den: a tie goes away from zero.
RoundHalfUp(num, den) ==
  IF num >= 0 THEN (2 * num + den) \div (2 * den) ELSE -((den - (2 * num)) \div (2 * den))

\* _build_daily_allocations: the last day takes what the others leave.
Allocate(i) ==
  LET part == [d \in 1..(i.days - 1) |-> RoundHalfUp(i.total * Weight(i, d), Weights(i))]
  IN [d \in 1..i.days |-> IF d < i.days THEN part[d] ELSE i.total - SumFunction(part)]

Build ==
  /\ out = << >>
  /\ out' = Allocate(in)
  /\ UNCHANGED in

Next == Build

Spec == Init /\ [][Next]_vars

-----------------------------------------------------------------------------
TypeOK == out = << >> \/ (DOMAIN out = 1..in.days /\ \A d \in DOMAIN out : out[d] \in Int)

\* Nothing is lost or made up: the days of a month add up to its forecast,
\* whatever the profile, its gaps and its negative days.
DaysSumToMonth == out # << >> => SumFunction(out) = in.total

\* "prima sambata la prima sambata": a day with the calendar position of a
\* reference day gets that day's share of the curve, so two forecast days
\* aligned with equal reference days differ by at most the rounding of each,
\* the last day apart.
CalendarFollowed ==
  out # << >> /\ ~Uniform(in) =>
    \A d, e \in 1..(in.days - 1), r, q \in RefDays(in) :
      /\ Weekday(in.refFirst, r) = Weekday(in.first, d) /\ Occurrence(r) = Occurrence(d)
      /\ Weekday(in.refFirst, q) = Weekday(in.first, e) /\ Occurrence(q) = Occurrence(e)
      => /\ in.ref[r] = in.ref[q] => out[d] = out[e]
         /\ in.ref[r] < in.ref[q] => out[d] <= out[e]

\* The rest that falls on the last day is rounding only: it is off the day's own
\* share by at most half a unit for every other day of the month.
RestIsRounding ==
  out # << >> =>
    LET gap == Weights(in) * out[in.days] - in.total * Weight(in, in.days)
        room == (in.days - 1) * Weights(in)
    IN 2 * gap <= room /\ -2 * gap <= room

=============================================================================
