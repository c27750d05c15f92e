---------------------------- MODULE PnlEstimator ----------------------------
(***************************************************************************)
(* The estimator of missing store-months of the P&L                        *)
(* (scripts/estimate_store_pnl.py), for one company: ratios to sales or to *)
(* payroll from the months nearest to the target, of the store itself or,  *)
(* when it has too few, of the company; revenue rows scaled to the sales   *)
(* of the month; everything rounded to a cent.  Two callers use it: the    *)
(* review, which writes candidates, and the publication, which rebuilds    *)
(* them from inputs it reads again and compares.                           *)
(*                                                                         *)
(* Amounts are cents, a quotient is a pair <<numerator, denominator>> with *)
(* a positive denominator.  Sequences keep the order in which PostgreSQL   *)
(* returned the rows, which no ORDER BY fixes.                             *)
(***************************************************************************)
EXTENDS Integers, Sequences, FiniteSets, SequencesExt, FiniteSetsExt

CONSTANTS
    Revenue,        \* categories that follow sales and are scaled to them
    Variable,       \* other categories that follow sales
    Fixed,          \* categories with the amount of a nearby month
    Salary,         \* the salary category
    Sites,
    Limit,          \* months of history that count (12 in the code)
    Inputs          \* what the database can hold

VARIABLES
    actual,         \* the Finance rows, as fetched
    sales,          \* net sales of every site and month
    payroll,        \* recorded salaries by site and month
    archive,        \* what the HR archive says of the payroll
    cutoff,         \* months before it may be estimated
    candidates,     \* what the review wrote
    baseline,       \* what it computed from the recorded payroll, to compare
    phase           \* "inputs", "reviewed", "refused", "reproduced" or "differs"

vars == <<actual, sales, payroll, archive, cutoff, candidates, baseline, phase>>

Codes == Revenue \union Variable \union Fixed \union {Salary}

-----------------------------------------------------------------------------
(* Quotients.                                                              *)

At(f, k) == IF k \in DOMAIN f THEN f[k] ELSE 0

Whole(n) == <<n, 1>>
Lt(x, y) == x[1] * y[2] < y[1] * x[2]
Plus(x, y) == <<x[1] * y[2] + y[1] * x[2], x[2] * y[2]>>
Half(x) == <<x[1], 2 * x[2]>>
Scaled(x, n) == <<x[1] * n, x[2]>>
None == <<0, 0>>

\* money: never negative, half up.
Money(x) == IF x[1] <= 0 THEN 0 ELSE (2 * x[1] + x[2]) \div (2 * x[2])

\* median of a sequence of quotients, None when it is empty.
Median(s) ==
    IF s = << >> THEN None
    ELSE LET order == SetToSortSeq(DOMAIN s, LAMBDA i, j : Lt(s[i], s[j])
                                                \/ (~Lt(s[j], s[i]) /\ i < j))
             middle == Len(s) \div 2
         IN  IF Len(s) % 2 = 1 THEN s[order[middle + 1]]
             ELSE Half(Plus(s[order[middle]], s[order[middle + 1]]))

-----------------------------------------------------------------------------
(* History.  An entry is a record of a month and a quotient.               *)

\* The first day of a month as a day number, in years of 365 days.
DayOf(m) ==
    365 * ((m - 1) \div 12)
      + <<0, 31, 59, 90, 120, 151, 181, 212, 243, 273, 304, 334>>[((m - 1) % 12) + 1]

Distance(m, target) ==
    IF m < target THEN DayOf(target) - DayOf(m) ELSE DayOf(m) - DayOf(target)

\* relevant_history: a stable sort by distance in days, cut at the limit.
Relevant(history, target, causal) ==
    LET eligible == SelectSeq(history, LAMBDA e : causal => e.month < target)
        order == SetToSortSeq(DOMAIN eligible,
                   LAMBDA i, j : \/ Distance(eligible[i].month, target) < Distance(eligible[j].month, target)
                                 \/ /\ Distance(eligible[i].month, target) = Distance(eligible[j].month, target)
                                    /\ i < j)
    IN  SubSeq([i \in DOMAIN order |-> eligible[order[i]]], 1,
               Min({Limit, Len(eligible)}))

Values(history) == [i \in DOMAIN history |-> history[i].value]

\* aggregate_ratios: the median of every month, in order of appearance.
Aggregated(history) ==
    LET first == SelectSeq([i \in DOMAIN history |-> i],
                   LAMBDA i : \A j \in 1..(i - 1) : history[j].month # history[i].month)
    IN  [k \in DOMAIN first |->
           [month |-> history[first[k]].month,
            value |-> Median(Values(SelectSeq(history,
                        LAMBDA e : e.month = history[first[k]].month)))]]

\* _estimation_context: the amounts of a category divided by the base of the
\* same site and month, where there is one.
Entries(rows, category, base, sites) ==
    LET own == SelectSeq(rows, LAMBDA r : r.category = category /\ r.site \in sites
                                           /\ At(base, <<r.site, r.month>>) > 0)
    IN  [i \in DOMAIN own |-> [month |-> own[i].month,
                               value |-> <<own[i].amount, base[<<own[i].site, own[i].month>>]>>]]

One == [k \in {<<actual[i].site, actual[i].month>> : i \in DOMAIN actual} |-> 1]

\* choose_ratio: the store's own months when there are at least two.
ChooseRatio(rows, category, base, site, target, causal) ==
    LET own == Relevant(Entries(rows, category, base, {site}), target, causal)
    IN  IF Len(own) >= 2 THEN own
        ELSE Relevant(Aggregated(Entries(rows, category, base, Sites)), target, causal)

\* What a category follows: payroll where there is one, sales, or nothing.
BaseOf(pay, site, category, target) ==
    IF category = Salary /\ At(pay, <<site, target>>) > 0 THEN pay
    ELSE IF category \in Fixed THEN One ELSE sales

\* _category_estimate: the median ratio times the base of the month; a fixed
\* category takes the same calendar month of other years, or the nearest three.
Picked(chosen, category, target) ==
    LET same == SelectSeq(chosen, LAMBDA e : (e.month - target) % 12 = 0)
    IN  IF category \notin Fixed THEN chosen
        ELSE IF same # << >> THEN same
        ELSE SubSeq(chosen, 1, Min({3, Len(chosen)}))

CategoryEstimate(rows, pay, site, category, target, causal) ==
    LET base == BaseOf(pay, site, category, target)
    IN  Scaled(Median(Values(Picked(ChooseRatio(rows, category, base, site, target, causal),
                                    category, target))),
               IF category \in Fixed THEN 1 ELSE base[<<site, target>>])

\* _target_estimates of a store-month with sales: cents by category, the
\* revenue rows scaled to the sales.
ToSales(raw, net) ==
    LET known == {c \in Codes : raw[c][2] # 0}
        revenue == FoldSet(LAMBDA c, sum : Plus(raw[c], sum), Whole(0), known \intersect Revenue)
    IN  [c \in known |->
           IF c \in Revenue /\ revenue[1] > 0
           THEN Money(<<raw[c][1] * net * revenue[2], raw[c][2] * revenue[1]>>)
           ELSE Money(raw[c])]

TargetEstimates(rows, pay, site, target, causal) ==
    IF sales[<<site, target>>] <= 0 THEN << >>
    ELSE ToSales([c \in Codes |-> CategoryEstimate(rows, pay, site, c, target, causal)],
                 sales[<<site, target>>])

\* all_missing_targets: store-months with sales and no Finance row at all.
Missing(rows) ==
    {k \in DOMAIN sales : /\ k[2] < cutoff /\ sales[k] > 0
                          /\ ~ \E i \in DOMAIN rows :
                               rows[i].site = k[1] /\ rows[i].month = k[2]}

\* build_estimates.
BuildEstimates(rows, pay) ==
    [k \in Missing(rows) |-> TargetEstimates(rows, pay, k[1], k[2], FALSE)]

-----------------------------------------------------------------------------
(* The payroll the ratios use.                                             *)

SumOf(f, S) == MapThenSumSet(LAMBDA k : f[k], S)

\* Fault: an archive with the same number of rows is trusted.
TrustedByCount(m) ==
    archive.sources[m] = 1 /\ archive.rows[m] = archive.recordedRows[m]

\* The HR archive is used for a month when it has one source, as many rows and
\* the same total as the recorded payroll, unplaced amounts included.
Trusted(m) ==
    /\ archive.sources[m] = 1
    /\ archive.rows[m] = archive.recordedRows[m]
    /\ SumOf(archive.placed, {k \in DOMAIN archive.placed : k[2] = m}) + archive.unplaced[m]
         = SumOf(payroll, {k \in DOMAIN payroll : k[2] = m}) + archive.recordedUnplaced[m]

\* prefer_reconciled_hr_allocations: the recorded placement, or that of the
\* archive in a month it can be trusted for.
Reconciled ==
    [k \in {j \in DOMAIN payroll : ~Trusted(j[2])}
             \union {j \in DOMAIN archive.placed : Trusted(j[2])} |->
        IF Trusted(k[2]) THEN archive.placed[k] ELSE payroll[k]]

\* Older months that HR alone knows must not meet a recorded one.
Overlap == DOMAIN archive.older \intersect DOMAIN Reconciled # {}

\* _load_historical_salary_inputs.
SalaryInputs ==
    [k \in DOMAIN Reconciled \union DOMAIN archive.older |->
        IF k \in DOMAIN Reconciled THEN Reconciled[k] ELSE archive.older[k]]

-----------------------------------------------------------------------------
Init ==
    /\ \E i \in Inputs :
         /\ actual = i.actual /\ sales = i.sales /\ payroll = i.payroll
         /\ archive = i.archive /\ cutoff = i.cutoff
    /\ candidates = << >> /\ baseline = << >>
    /\ phase = "inputs"

\* review_store_pnl_salary_history: the estimates are computed from both
\* payrolls; those of the reconciled one are written.
Review ==
    /\ phase = "inputs"
    /\ IF Overlap THEN phase' = "refused" /\ UNCHANGED <<candidates, baseline>>
       ELSE \E built \in {[p \in {SalaryInputs, payroll} |-> BuildEstimates(actual, p)]} :
              /\ candidates' = built[SalaryInputs] /\ baseline' = built[payroll]
              /\ phase' = "reviewed"
    /\ UNCHANGED <<actual, sales, payroll, archive, cutoff>>

\* The publication reads the same rows again, in whatever order they come,
\* and compares what it rebuilds with the reviewed candidates.
Rebuild(order) ==
    /\ phase = "reviewed"
    /\ actual' = [i \in DOMAIN actual |-> actual[order[i]]]
    /\ phase' = IF BuildEstimates(actual', SalaryInputs) = candidates
                THEN "reproduced" ELSE "differs"
    /\ UNCHANGED <<sales, payroll, archive, cutoff, candidates, baseline>>

Done == phase \in {"reproduced", "differs", "refused"} /\ UNCHANGED vars

Next ==
    \/ Review
    \/ \E order \in Permutations(DOMAIN actual) : Rebuild(order)
    \/ Done

Spec == Init /\ [][Next]_vars

-----------------------------------------------------------------------------
(* Type invariant: an estimate is a number of cents, never negative.       *)
TypeOK ==
    /\ phase \in {"inputs", "reviewed", "reproduced", "differs", "refused"}
    /\ phase # "inputs" =>
         \A k \in DOMAIN candidates : \A c \in DOMAIN candidates[k] :
            c \in Codes /\ candidates[k][c] >= 0

(* "Un magazin-luna care exista in Finance ramane exclusiv Finance": no     *)
(* candidate is for a store-month with a Finance row, of any category.     *)
FinanceStaysFinance ==
    phase # "inputs" =>
        \A k \in DOMAIN candidates : \A i \in DOMAIN actual :
            ~(actual[i].site = k[1] /\ actual[i].month = k[2])

(* The estimated revenue of a store-month is its sales, up to half a cent  *)
(* for every revenue row, whatever the ratios were, when every row it is   *)
(* made from is positive.                                                  *)
RevenueIsSales ==
    phase # "inputs" =>
        \A k \in DOMAIN candidates :
          LET shown == DOMAIN candidates[k] \intersect Revenue
              gap == SumOf(candidates[k], shown) - sales[k]
          IN  (\E c \in shown : candidates[k][c] > 0)
                 => 2 * gap <= Cardinality(shown) /\ -2 * gap <= Cardinality(shown)

(* The backtest is causal: an estimate for a month never depends on Finance *)
(* rows of that month or a later one.                                      *)
BacktestIsCausal ==
    phase = "inputs" =>
        \A k \in DOMAIN sales :
          LET earlier == SelectSeq(actual, LAMBDA r : r.month < k[2])
          IN  Cardinality({TargetEstimates(rows, payroll, k[1], k[2], TRUE) :
                             rows \in {actual, earlier}}) = 1

(* The review asserts that the salary inputs decide the salary estimates   *)
(* and nothing else.                                                       *)
SalaryInputsDecideSalary ==
    phase \in {"reviewed", "reproduced"} =>
        /\ DOMAIN baseline = DOMAIN candidates
        /\ \A k \in DOMAIN candidates : \A c \in Codes \ {Salary} :
             (c \in DOMAIN candidates[k] \/ c \in DOMAIN baseline[k]) =>
               /\ c \in DOMAIN candidates[k] /\ c \in DOMAIN baseline[k]
               /\ candidates[k][c] = baseline[k][c]

(* The HR archive "changes the estimation location breakdown, never the    *)
(* official payroll total": placed and unplaced amounts of a month add up  *)
(* to the recorded payroll whichever source is used.                       *)
PayrollTotalKept ==
    \A m \in {k[2] : k \in DOMAIN payroll} :
        LET In(f) == SumOf(f, {k \in DOMAIN f : k[2] = m}) IN
        In(Reconciled) + (IF Trusted(m) THEN archive.unplaced[m] ELSE archive.recordedUnplaced[m])
          = In(payroll) + archive.recordedUnplaced[m]

=============================================================================
