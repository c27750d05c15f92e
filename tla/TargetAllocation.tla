-------------------------- MODULE TargetAllocation --------------------------
(***************************************************************************)
(* The allocator of the target calculator: a budget is divided between     *)
(* stores in proportion to their weights, inside a floor and a cap for     *)
(* each, to the cent (services/target_calculator/calculations.py).         *)
(*                                                                         *)
(* Budgets, floors and caps are whole cents.  In between, the code uses    *)
(* Decimal numbers of 60 digits: here a number of that kind is a number of *)
(* units, Scale of which make a cent, and a division is rounded to a unit. *)
(***************************************************************************)
EXTENDS Integers, Sequences, FiniteSets, FiniteSetsExt, SequencesExt

CONSTANTS Scale,    \* units in a cent: the precision of a Decimal
          Dust,     \* the tolerance of _decimal_breakpoint_equal, in units
          Stores,   \* number of stores
          Weights,  \* the weights a store may have
          Bounds    \* the pairs <<floor, cap>> a store may have

VARIABLES rows,      \* the stores to allocate to: [site, weight, floor, cap]
          budget,    \* the total to divide, in cents
          proposed,  \* allocate_with_bounds(rows, budget)
          floored    \* allocate_with_floors(rows, budget)

vars == <<rows, budget, proposed, floored>>

Indices(table) == 1 .. Len(table)

\* An allocation is a function on indices; the empty one stands for the exception
\* TargetBudgetInfeasibleError.
Infeasible == <<>>

Quotient(a, b) == (2 * a + b) \div (2 * b)

SumOver(S, value(_)) == FoldSet(LAMBDA i, acc : acc + value(i), 0, S)

FloorTotal(table, S) == SumOver(S, LAMBDA i : table[i].floor)
CapTotal(table, S) == SumOver(S, LAMBDA i : table[i].cap)

Total(allocation) == SumOver(DOMAIN allocation, LAMBDA i : allocation[i])

-----------------------------------------------------------------------------
(* The weighted solution in units *)

\* _stable_indices: by site code, then by position.
StableIndices(table, S) ==
    SetToSortSeq(S, LAMBDA i, j :
        table[i].site < table[j].site \/ (table[i].site = table[j].site /\ i < j))

ClipBoxValue(row, value) ==
    IF value < row.floor * Scale THEN row.floor * Scale
    ELSE IF value > row.cap * Scale THEN row.cap * Scale
    ELSE value

BoxAllocationsAt(table, S, weight, multiplier) ==
    [i \in S |-> ClipBoxValue(table[i], multiplier * weight[i])]

DecimalBreakpointEqual(left, right) == left - right \in -Dust .. Dust

\* _reconcile_box_residual: the dust of the division goes to the first active store that
\* can take it.
ReconcileBoxResidual(table, allocation, active, target) ==
    LET residual == target - Total(allocation)
        able == SelectSeq(StableIndices(table, active), LAMBDA i :
                    allocation[i] + residual
                        \in table[i].floor * Scale .. table[i].cap * Scale)
    IN CASE residual = 0 -> allocation
         [] residual # 0 /\ able # <<>> -> [allocation EXCEPT ![able[1]] = @ + residual]
         [] OTHER -> Infeasible

\* Fault: the stores outside the active set all count with their floors.
FixedAtFloors(table, S, weight, twice, active) == FloorTotal(table, S \ active)

\* What the stores that are at a bound in the middle of the interval take.
FixedTotal(table, S, weight, twice, active) ==
    SumOver(S \ active, LAMBDA i :
        IF twice * weight[i] <= 2 * table[i].floor * Scale THEN table[i].floor ELSE table[i].cap)

SolveBoxInterval(table, S, weight, target, previous, point) ==
    LET twice == previous + point
        active == {i \in S : /\ 2 * table[i].floor * Scale < twice * weight[i]
                             /\ twice * weight[i] < 2 * table[i].cap * Scale}
        fixed == FixedTotal(table, S, weight, twice, active) * Scale
        multiplier == Quotient(target - fixed, SumOver(active, LAMBDA i : weight[i]))
    IN IF active = {} THEN Infeasible
       ELSE ReconcileBoxResidual(table, BoxAllocationsAt(table, S, weight, multiplier),
                                 active, target)

PrepareBreakpoints(table, S, weight) ==
    SetToSortSeq({Quotient(bound * Scale, weight[i]) : <<i, bound>> \in
                      {<<i, table[i].floor>> : i \in S} \union {<<i, table[i].cap>> : i \in S}},
                 LAMBDA a, b : a < b)

AllocationsTotal(table, S, weight, point) == Total(BoxAllocationsAt(table, S, weight, point))

\* The interval of breakpoints whose totals enclose the target.
RECURSIVE BinarySearch(_, _, _, _, _, _, _)
BinarySearch(table, S, weight, points, target, lower, upper) ==
    LET middle == (lower + upper) \div 2
        here == AllocationsTotal(table, S, weight, points[middle])
    IN IF upper - lower <= 1 THEN lower
       ELSE IF DecimalBreakpointEqual(target, here) THEN middle
       ELSE IF target > here
       THEN BinarySearch(table, S, weight, points, target, middle, upper)
       ELSE BinarySearch(table, S, weight, points, target, lower, middle)

ResolveTwoBreakpointPair(table, S, weight, points, lower, target) ==
    LET previousTotal == AllocationsTotal(table, S, weight, points[lower])
        pointTotal == AllocationsTotal(table, S, weight, points[lower + 1])
    IN IF DecimalBreakpointEqual(target, previousTotal)
       THEN BoxAllocationsAt(table, S, weight, points[lower])
       ELSE IF DecimalBreakpointEqual(target, pointTotal)
       THEN BoxAllocationsAt(table, S, weight, points[lower + 1])
       ELSE IF DecimalBreakpointEqual(pointTotal, previousTotal) THEN Infeasible
       ELSE SolveBoxInterval(table, S, weight, target, points[lower], points[lower + 1])

AtFloors(table, S) == [i \in S |-> table[i].floor * Scale]
AtCaps(table, S) == [i \in S |-> table[i].cap * Scale]

\* The multiplier at which the clipped products add up to the target.
SolvePositiveBox(table, S, target, weight) ==
    LET points == PrepareBreakpoints(table, S, weight)
        lowest == AllocationsTotal(table, S, weight, points[1])
    IN IF target = FloorTotal(table, S) * Scale THEN AtFloors(table, S)
       ELSE IF target = CapTotal(table, S) * Scale THEN AtCaps(table, S)
       ELSE IF target < FloorTotal(table, S) * Scale \/ target > CapTotal(table, S) * Scale
       THEN Infeasible
       ELSE IF DecimalBreakpointEqual(target, lowest)
       THEN BoxAllocationsAt(table, S, weight, points[1])
       ELSE IF target < lowest THEN AtFloors(table, S)
       ELSE ResolveTwoBreakpointPair(table, S, weight, points,
                BinarySearch(table, S, weight, points, target, 1, Len(points)), target)

Joined(f, g) ==
    IF f = Infeasible \/ g = Infeasible THEN Infeasible
    ELSE [i \in DOMAIN f \union DOMAIN g |-> IF i \in DOMAIN f THEN f[i] ELSE g[i]]

\* _solve_box_allocations: stores without a weight keep their floors until the weighted
\* ones are at their caps.
SolveBoxAllocations(table, total) ==
    LET positive == {i \in Indices(table) : table[i].weight > 0}
        zero == Indices(table) \ positive
        weight == [i \in positive |-> table[i].weight]
        even == [i \in zero |-> 1]
        limit == CapTotal(table, positive) + FloorTotal(table, zero)
    IN IF positive = {} THEN SolvePositiveBox(table, zero, total * Scale, even)
       ELSE IF zero = {} THEN SolvePositiveBox(table, positive, total * Scale, weight)
       ELSE IF total <= limit
       THEN Joined(AtFloors(table, zero),
                   SolvePositiveBox(table, positive, (total - FloorTotal(table, zero)) * Scale, weight))
       ELSE Joined(AtCaps(table, positive),
                   SolvePositiveBox(table, zero, (total - CapTotal(table, positive)) * Scale, even))

-----------------------------------------------------------------------------
(* To the cent *)

CanTakeCent(row, base) == row.cap - base >= 1

\* Fault: the row number decides between equal remainders.
RoundByPosition(table, assigned, total) ==
    LET base == [i \in DOMAIN assigned |-> assigned[i] \div Scale]
        fraction == [i \in DOMAIN assigned |-> assigned[i] % Scale]
        residual == total - Total(base)
        candidates == SetToSortSeq({i \in DOMAIN base : CanTakeCent(table[i], base[i])},
            LAMBDA i, j : fraction[i] > fraction[j] \/ (fraction[i] = fraction[j] /\ i < j))
    IN [i \in DOMAIN base |->
            IF \E k \in 1 .. residual : candidates[k] = i THEN base[i] + 1 ELSE base[i]]

\* _round_bounded_allocations: every share is rounded down, and the cents that remain go
\* to the largest remainders, by site code among equal ones.
RoundBoundedAllocations(table, assigned, total) ==
    LET base == [i \in DOMAIN assigned |-> assigned[i] \div Scale]
        fraction == [i \in DOMAIN assigned |-> assigned[i] % Scale]
        residual == total - Total(base)
        candidates == SetToSortSeq({i \in DOMAIN base : CanTakeCent(table[i], base[i])},
            LAMBDA i, j : \/ fraction[i] > fraction[j]
                          \/ fraction[i] = fraction[j] /\ table[i].site < table[j].site
                          \/ fraction[i] = fraction[j] /\ table[i].site = table[j].site /\ i < j)
    IN IF residual < 0 \/ residual > Len(candidates) THEN Infeasible
       ELSE [i \in DOMAIN base |->
                IF \E k \in 1 .. residual : candidates[k] = i THEN base[i] + 1 ELSE base[i]]

\* allocate_with_bounds
AllocateWithBounds(table, total) ==
    LET all == Indices(table)
        assigned == SolveBoxAllocations(table, total)
        cents == RoundBoundedAllocations(table, assigned, total)
    IN IF total < FloorTotal(table, all) \/ total > CapTotal(table, all) THEN Infeasible
       ELSE IF assigned = Infeasible \/ cents = Infeasible THEN Infeasible
       ELSE IF /\ Total(cents) = total
               /\ \A i \in all : cents[i] \in table[i].floor .. table[i].cap
       THEN cents
       ELSE Infeasible

-----------------------------------------------------------------------------
(* The allocator without caps *)

\* money(): half a cent is rounded up.
Money(units) == Quotient(units, Scale)

BudgetLeft(table, total, below) == total - FloorTotal(table, below) * Scale

\* The loop of allocate_with_floors: stores below their floor are fixed there and the rest
\* is divided again.
RECURSIVE FixFloors(_, _, _)
FixFloors(table, remaining, total) ==
    LET weights == SumOver(remaining, LAMBDA i : table[i].weight)
        share == [i \in remaining |->
                    IF weights > 0 THEN Quotient(total * table[i].weight, weights)
                    ELSE Quotient(total, Cardinality(remaining))]
        below == {i \in remaining : share[i] < table[i].floor * Scale}
    IN IF below = {} THEN share
       ELSE IF below = remaining THEN AtFloors(table, below)
       ELSE Joined(AtFloors(table, below),
                   FixFloors(table, remaining \ below, BudgetLeft(table, total, below)))

\* The capacity of a store for the difference.
Capacity(row, cents, difference) == IF difference > 0 THEN difference ELSE cents - row.floor

\* _apply_rounding_difference without caps: cents to add go to the first store, cents to
\* take come from the stores with the most room above their floors.
RECURSIVE ApplyRoundingDifference(_, _, _)
ApplyRoundingDifference(table, cents, difference) ==
    LET room == [i \in DOMAIN cents |-> Capacity(table[i], cents[i], difference)]
        candidates == SetToSortSeq({i \in DOMAIN cents : room[i] > 0},
            LAMBDA i, j : \/ room[i] > room[j]
                          \/ room[i] = room[j] /\ table[i].site < table[j].site
                          \/ room[i] = room[j] /\ table[i].site = table[j].site /\ i < j)
        first == candidates[1]
        step == IF difference > 0 THEN difference
                ELSE -(IF room[first] < -difference THEN room[first] ELSE -difference)
    IN IF difference = 0 THEN cents
       ELSE IF candidates = <<>> THEN Infeasible
       ELSE ApplyRoundingDifference(table, [cents EXCEPT ![first] = @ + step], difference - step)

AllocateWithFloors(table, total) ==
    LET all == Indices(table)
        assigned == FixFloors(table, all, total * Scale)
        rounded == [i \in all |-> Money(assigned[i])]
    IN IF total < FloorTotal(table, all) THEN Infeasible
       ELSE ApplyRoundingDifference(table, rounded, total - Total(rounded))

-----------------------------------------------------------------------------
(* Budgets, one cent after the other, and rows in any order *)

Compute ==
    /\ proposed' = AllocateWithBounds(rows', budget')
    /\ floored' = AllocateWithFloors(rows', budget')

Init ==
    /\ rows \in {[i \in 1 .. Stores |-> [site |-> i, weight |-> w[i],
                                       floor |-> b[i][1], cap |-> b[i][2]]] :
                     w \in [1 .. Stores -> Weights], b \in [1 .. Stores -> Bounds]}
    /\ budget = FloorTotal(rows, Indices(rows))
    /\ proposed = AllocateWithBounds(rows, budget)
    /\ floored = AllocateWithFloors(rows, budget)

RaiseBudget ==
    /\ budget < CapTotal(rows, Indices(rows))
    /\ budget' = budget + 1
    /\ rows' = rows

Reorder ==
    /\ \E i \in 1 .. Stores - 1 : rows' = [rows EXCEPT ![i] = rows[i + 1], ![i + 1] = rows[i]]
    /\ budget' = budget

Next == (RaiseBudget \/ Reorder) /\ Compute

Spec == Init /\ [][Next]_vars

-----------------------------------------------------------------------------
(* Properties *)

\* allocate_with_bounds never refuses a budget between the sum of the floors and the sum
\* of the caps, and meets it to the cent inside every floor and cap, whatever the
\* divisions round off.
FeasibleBudgetIsMet ==
    /\ proposed # Infeasible
    /\ Total(proposed) = budget
    /\ \A i \in Indices(rows) : proposed[i] \in rows[i].floor .. rows[i].cap

\* The allocation is proportional: a weighted store that could have had more never has a
\* smaller share per weight than one that could have had less, up to the rounded cent; a
\* store without a weight gets more than its floor only when every weighted store is at
\* its cap.
Proportional ==
    \A i, j \in Indices(rows) :
        /\ rows[i].weight > 0 /\ rows[j].weight > 0
           /\ proposed[i] < rows[i].cap /\ proposed[j] > rows[j].floor
           => (proposed[i] + 1) * rows[j].weight >= (proposed[j] - 1) * rows[i].weight
        /\ rows[i].weight > 0 /\ rows[j].weight = 0 /\ proposed[j] > rows[j].floor
           => proposed[i] = rows[i].cap

\* allocate_with_floors meets every budget that covers the floors, to the cent and with no
\* store below its floor: the rounding never has to take from a store that is at it.
FlooredBudgetIsMet ==
    /\ floored # Infeasible
    /\ Total(floored) = budget
    /\ \A i \in Indices(rows) : floored[i] >= rows[i].floor

BySite(table, allocation) ==
    {<<table[i].site, allocation[i]>> : i \in DOMAIN allocation}

\* The order of the rows decides nothing: the cohort query may return the stores in any.
OrderDecidesNothing ==
    budget' = budget => /\ BySite(rows', proposed') = BySite(rows, proposed)
                        /\ BySite(rows', floored') = BySite(rows, floored)
=============================================================================
