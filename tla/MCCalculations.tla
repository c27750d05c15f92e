--------------------------- MODULE MCCalculations ---------------------------
(* The components that compute from bounded inputs, for TLC: the P&L         *)
(* workbook and estimator, the target allocation and its scenarios, and the  *)
(* forecast's cohort, daily split and run. A behaviour is one of a single    *)
(* component, chosen in the initial state; the variables of the others are   *)
(* off.                                                                      *)
EXTENDS Integers, Sequences, FiniteSets, SequencesExt

VARIABLES
  part,  \* the component this behaviour belongs to
  files, manifest, outcome, actual, sales, payroll, archive, cutoff, candidates,
  baseline, phase, rows, budget, proposed, floored, scenario, published, view, op,
  now, reporting, targets, events, org, writes, call, resolved, in, out, args, pc,
  left, answer

allVars == <<part, files, manifest, outcome, actual, sales, payroll, archive, cutoff, candidates,
    baseline, phase, rows, budget, proposed, floored, scenario, published, view, op,
    now, reporting, targets, events, org, writes, call, resolved, in, out, args, pc,
    left, answer>>

Off == "off"

-----------------------------------------------------------------------------
\* Workbooks: two lines of a store, with blank, zero, negative and half-cent
\* cells, and a consolidated sheet; the manifest is right or has one slip.
OneBook == INSTANCE PnlWorkbook WITH
  Companies <- {"A", "B"}, Periods <- {1, 2}, Revenue <- {"v"}, Costs <- {"c"}, Sites <- {"a", "b"}, Inputs <- {}

Line(c, x, s, cells) == [code |-> c, composite |-> x, site |-> s, cells |-> cells]

Cells == {[m \in {} |-> 0], [m \in {1, 2} |-> 5]} \cup {[m \in {1} |-> v] : v \in {-3, 0, 1}}

FirstLines ==
  {Line(c, "v", "a", cells) : c \in {"v", OneBook!Other}, cells \in Cells}
    \cup {Line("c", OneBook!Other, "a", cells) : cells \in Cells}

SecondLines ==
  {Line("v", OneBook!Other, s, cells) : s \in {"a", "b", OneBook!Blank},
     cells \in {[m \in {} |-> 0], [m \in {1} |-> -3], [m \in {1, 2} |-> 5]}}

Sums == {[m \in {1} |-> v] : v \in {-3, 4, 11}} \cup {[m \in {1, 2} |-> 4]}

Summaries ==
  {<< >>}
    \cup {<<[code |-> c, label |-> "v", cells |-> x]>> : c \in {"v", OneBook!Blank, OneBook!Other}, x \in Sums}
    \cup {<<[code |-> c, label |-> "c", cells |-> [m \in {1} |-> 3]],
             [code |-> "v", label |-> "c", cells |-> y]>> : c \in {"v", OneBook!Blank}, y \in Sums}

SecondFile == [company |-> "B", detail |-> <<Line("v", OneBook!Other, "b", [m \in {1} |-> 6])>>,
               summary |-> <<[code |-> "v", label |-> "v", cells |-> [m \in {1} |-> 10]]>>]

Books == {[company |-> "A", detail |-> <<l1, l2>>, summary |-> s] :
            l1 \in FirstLines, l2 \in SecondLines, s \in Summaries}

\* What Finance would declare for a file.
Scope(path, book, m) ==
  [company |-> book.company, period |-> m, cutoff |-> m, complete |-> TRUE,
   path |-> path, content |-> book, count |-> OneBook!Count(book, m),
   total |-> OneBook!TotalAmount(book, m), coverage |-> OneBook!Keys(book, m)]

Right(book) ==
  LET months == SetToSortSeq(OneBook!MonthsWithValues(book), <)
  IN  Append([i \in DOMAIN months |-> Scope("x", book, months[i])], Scope("y", SecondFile, 1))

Slips(book) ==
  LET r == Right(book)
  IN  {Tail(r), <<r[1]>> \o r, <<r[1]>>,
       [r EXCEPT ![1].count = @ + 1], [r EXCEPT ![1].total = @ + 1],
       [r EXCEPT ![1].coverage = {}], [r EXCEPT ![1].complete = FALSE],
       [r EXCEPT ![1].cutoff = 0], [r EXCEPT ![1].company = "B"],
       [r EXCEPT ![1].content = SecondFile]}

Sample == {b \in Books : /\ b.summary # << >> => b.summary[1].cells = [m \in {1} |-> 4]
                         /\ b.detail[2].site = "b"}

BookInputs ==
  {[files |-> [p \in {"x", "y"} |-> IF p = "x" THEN b ELSE SecondFile], manifest |-> Right(b)] : b \in Books}
    \cup UNION {{[files |-> [p \in {"x", "y"} |-> IF p = "x" THEN b ELSE SecondFile], manifest |-> s] :
                   s \in Slips(b)} : b \in Sample}
    \cup {[files |-> [p \in {"x", "y", "z"} |-> IF p = "y" THEN SecondFile ELSE b], manifest |-> Right(b)] : b \in Sample}
    \cup {[files |-> [p \in {} |-> SecondFile], manifest |-> << >>]}

-----------------------------------------------------------------------------
\* Histories of the estimator: up to two Finance rows of two stores, sales, and a
\* payroll archive that is missing, trusted or inconsistent.
Places == {<<1, 8>>, <<1, 19>>, <<1, 20>>, <<2, 19>>, <<2, 21>>}

FinanceRow(p, c, a) == [site |-> p[1], month |-> p[2], category |-> c, amount |-> a]

FinanceRows ==
  {FinanceRow(p, "v1", a) : p \in Places, a \in {1, 5}}
    \cup {FinanceRow(p, "v2", 4) : p \in Places}
    \cup {FinanceRow(p, "c3", 3) : p \in Places \ {<<1, 20>>}}
    \cup {FinanceRow(p, "c4", IF p[1] = 1 THEN 2 ELSE -2) : p \in Places \ {<<1, 20>>}}

Key(r) == <<r.site, r.month, r.category>>

Histories == {R \in {{}} \cup {{a, b} : a \in FinanceRows, b \in FinanceRows} :
                Cardinality({Key(r) : r \in R}) = Cardinality(R)}

SoldThen == {[p \in Places |-> IF p = <<1, 20>> THEN 7 ELSE 3],
             [p \in Places |-> IF p = <<1, 20>> THEN 1 ELSE IF p[1] = 2 THEN 0 ELSE 2]}

Recorded == [p \in {<<1, 20>>, <<1, 19>>, <<2, 19>>} |-> IF p[1] = 1 THEN 3 ELSE 1]

Nobody == [p \in {} |-> 0]

Archive(sources, n, placed, unplaced, older) ==
  [sources |-> [m \in 1..24 |-> sources], rows |-> [m \in 1..24 |-> n],
   recordedRows |-> [m \in 1..24 |-> 2], placed |-> placed,
   unplaced |-> [m \in 1..24 |-> unplaced],
   recordedUnplaced |-> [m \in 1..24 |-> 0], older |-> older]

Moved == [p \in {<<1, 19>>, <<2, 19>>} |-> IF p[1] = 1 THEN 2 ELSE 1]

Archives ==
  {Archive(0, 0, Nobody, 0, Nobody), Archive(1, 2, Moved, 1, [p \in {<<1, 8>>} |-> 2]),
   Archive(1, 2, Moved, 0, Nobody), Archive(2, 2, Moved, 1, Nobody),
   Archive(1, 2, Moved, 1, [p \in {<<1, 19>>} |-> 2])}

EstimatorInputs ==
  {[actual |-> SetToSeq(R), sales |-> s, payroll |-> Recorded, archive |-> a, cutoff |-> 21] :
     R \in Histories, s \in SoldThen, a \in Archives}

-----------------------------------------------------------------------------
\* Weeks of two days; months of three and four days with missing and negative days.
DailyInputs ==
  [first : {0, 1}, days : {3, 4}, refFirst : {0, 1}, total : {0, 1, 2, 3, 6},
   ref : UNION {[days -> {-1, 0, 2}] : days \in SUBSET (1..4)}]

Sold(S) == [m \in 1..9 |-> IF m \in S THEN 1 ELSE 0]

\* An old store, a store opened in month 5, one that closed after month 3 (and
\* one that reopened in month 7), one opened in month 6 and one with a month of returns.
SalesOfAStore ==
  {Sold(1..9), Sold(5..9), Sold(1..3), Sold(6..8), Sold({1, 2, 3, 7, 8, 9}), [Sold(1..9) EXCEPT ![5] = -1]}

CohortOfBoth == [m \in 1..9 |-> {"a", "b"}]

RunArguments ==
  [operational : {TRUE}, mode : {"fail_closed", "seasonal_fallback"}, source : {6}, start : {7}, end : {8, 9},
   cohort : {CohortOfBoth}]
  \cup [operational : {FALSE}, mode : {"fail_closed", "seasonal_fallback"}, source : {6}, start : {7}, end : {8},
        cohort : {CohortOfBoth, [m \in 1..9 |-> IF m > 7 THEN {"a", "b"} ELSE {"a"}]}]

Book == INSTANCE PnlWorkbook WITH
  Companies <- {"A", "B"},
  Periods <- {1, 2},
  Revenue <- {"v"},
  Costs <- {"c"},
  Sites <- {"a", "b"},
  Inputs <- BookInputs

Estimator == INSTANCE PnlEstimator WITH
  Revenue <- {"v1", "v2"},
  Variable <- {"c1"},
  Fixed <- {"c4"},
  Salary <- "c3",
  Sites <- {1, 2},
  Limit <- 2,
  Inputs <- EstimatorInputs

Allocation == INSTANCE TargetAllocation WITH
  Scale <- 1000,
  Dust <- 20,
  Stores <- 3,
  Weights <- {0, 1, 3},
  Bounds <- {<<0, 2>>, <<1, 1>>, <<2, 5>>}

Scenario == INSTANCE TargetScenarios WITH
  Clients <- {"c1", "c2"},
  Sites <- {"s1", "s2"},
  Inputs <- {5},
  Totals <- {2},
  Unit <- 4,
  MaxRevision <- 2

Cohort == INSTANCE ForecastCohort WITH
  Sites <- {"s1"},
  Excluded <- {},
  Firms <- {"A", "B"},
  Labels <- {"x", "y"},
  MaxMonth <- 3,
  MaxWrites <- 3,
  MaxReads <- 2

Cohorts == INSTANCE ForecastCohort WITH
  Sites <- {"s1", "s2"},
  Excluded <- {},
  Firms <- {"A", "B"},
  Labels <- {"x", "y"},
  MaxMonth <- 2,
  MaxWrites <- 3,
  MaxReads <- 1

Daily == INSTANCE ForecastDaily WITH
  Week <- 2,
  Scale <- 2,
  Inputs <- DailyInputs

Run == INSTANCE ForecastRun WITH
  Sites <- {"a", "b"},
  History <- 1,
  Year <- 4,
  MinContext <- 3,
  MaxHorizon <- 2,
  Sales <- [{"a", "b"} -> SalesOfAStore],
  Runs <- RunArguments

BookOff ==
  /\ actual = Off /\ sales = Off /\ payroll = Off /\ archive = Off /\ cutoff = Off
  /\ candidates = Off /\ baseline = Off /\ phase = Off /\ rows = Off /\ budget = Off
  /\ proposed = Off /\ floored = Off /\ scenario = Off /\ published = Off /\ view = Off
  /\ op = Off /\ now = Off /\ reporting = Off /\ targets = Off /\ events = Off
  /\ org = Off /\ writes = Off /\ call = Off /\ resolved = Off /\ in = Off /\ out = Off
  /\ args = Off /\ pc = Off /\ left = Off /\ answer = Off

EstimatorOff ==
  /\ files = Off /\ manifest = Off /\ outcome = Off /\ rows = Off /\ budget = Off
  /\ proposed = Off /\ floored = Off /\ scenario = Off /\ published = Off /\ view = Off
  /\ op = Off /\ now = Off /\ reporting = Off /\ targets = Off /\ events = Off
  /\ org = Off /\ writes = Off /\ call = Off /\ resolved = Off /\ in = Off /\ out = Off
  /\ args = Off /\ pc = Off /\ left = Off /\ answer = Off

AllocationOff ==
  /\ files = Off /\ manifest = Off /\ outcome = Off /\ actual = Off /\ sales = Off
  /\ payroll = Off /\ archive = Off /\ cutoff = Off /\ candidates = Off
  /\ baseline = Off /\ phase = Off /\ scenario = Off /\ published = Off /\ view = Off
  /\ op = Off /\ now = Off /\ reporting = Off /\ targets = Off /\ events = Off
  /\ org = Off /\ writes = Off /\ call = Off /\ resolved = Off /\ in = Off /\ out = Off
  /\ args = Off /\ pc = Off /\ left = Off /\ answer = Off

ScenarioOff ==
  /\ files = Off /\ manifest = Off /\ outcome = Off /\ actual = Off /\ sales = Off
  /\ payroll = Off /\ archive = Off /\ cutoff = Off /\ candidates = Off
  /\ baseline = Off /\ phase = Off /\ budget = Off /\ proposed = Off /\ floored = Off
  /\ now = Off /\ reporting = Off /\ targets = Off /\ events = Off /\ org = Off
  /\ writes = Off /\ call = Off /\ resolved = Off /\ in = Off /\ out = Off /\ args = Off
  /\ pc = Off /\ left = Off /\ answer = Off

CohortOff ==
  /\ files = Off /\ manifest = Off /\ outcome = Off /\ actual = Off /\ sales = Off
  /\ payroll = Off /\ archive = Off /\ cutoff = Off /\ candidates = Off
  /\ baseline = Off /\ phase = Off /\ rows = Off /\ budget = Off /\ proposed = Off
  /\ floored = Off /\ scenario = Off /\ published = Off /\ view = Off /\ op = Off
  /\ in = Off /\ out = Off /\ args = Off /\ pc = Off /\ left = Off /\ answer = Off

DailyOff ==
  /\ files = Off /\ manifest = Off /\ outcome = Off /\ actual = Off /\ sales = Off
  /\ payroll = Off /\ archive = Off /\ cutoff = Off /\ candidates = Off
  /\ baseline = Off /\ phase = Off /\ rows = Off /\ budget = Off /\ proposed = Off
  /\ floored = Off /\ scenario = Off /\ published = Off /\ view = Off /\ op = Off
  /\ now = Off /\ reporting = Off /\ targets = Off /\ events = Off /\ org = Off
  /\ writes = Off /\ call = Off /\ resolved = Off /\ args = Off /\ pc = Off
  /\ left = Off /\ answer = Off

RunOff ==
  /\ files = Off /\ manifest = Off /\ outcome = Off /\ actual = Off /\ payroll = Off
  /\ archive = Off /\ cutoff = Off /\ candidates = Off /\ baseline = Off /\ phase = Off
  /\ budget = Off /\ proposed = Off /\ floored = Off /\ scenario = Off
  /\ published = Off /\ view = Off /\ op = Off /\ now = Off /\ reporting = Off
  /\ targets = Off /\ events = Off /\ org = Off /\ writes = Off /\ call = Off
  /\ resolved = Off /\ in = Off

BookStill == UNCHANGED <<actual, sales, payroll, archive, cutoff, candidates, baseline, phase, rows, budget,
    proposed, floored, scenario, published, view, op, now, reporting, targets,
    events, org, writes, call, resolved, in, out, args, pc, left, answer>>

EstimatorStill == UNCHANGED <<files, manifest, outcome, rows, budget, proposed, floored, scenario, published,
    view, op, now, reporting, targets, events, org, writes, call, resolved, in, out,
    args, pc, left, answer>>

AllocationStill == UNCHANGED <<files, manifest, outcome, actual, sales, payroll, archive, cutoff, candidates,
    baseline, phase, scenario, published, view, op, now, reporting, targets, events,
    org, writes, call, resolved, in, out, args, pc, left, answer>>

ScenarioStill == UNCHANGED <<files, manifest, outcome, actual, sales, payroll, archive, cutoff, candidates,
    baseline, phase, budget, proposed, floored, now, reporting, targets, events,
    org, writes, call, resolved, in, out, args, pc, left, answer>>

CohortStill == UNCHANGED <<files, manifest, outcome, actual, sales, payroll, archive, cutoff, candidates,
    baseline, phase, rows, budget, proposed, floored, scenario, published, view, op,
    in, out, args, pc, left, answer>>

DailyStill == UNCHANGED <<files, manifest, outcome, actual, sales, payroll, archive, cutoff, candidates,
    baseline, phase, rows, budget, proposed, floored, scenario, published, view, op,
    now, reporting, targets, events, org, writes, call, resolved, args, pc, left,
    answer>>

RunStill == UNCHANGED <<files, manifest, outcome, actual, payroll, archive, cutoff, candidates, baseline,
    phase, budget, proposed, floored, scenario, published, view, op, now, reporting,
    targets, events, org, writes, call, resolved, in>>

AreaInit ==
  \/ part = "workbook" /\ Book!Init /\ BookOff
  \/ part = "estimator" /\ Estimator!Init /\ EstimatorOff
  \/ part = "allocation" /\ Allocation!Init /\ AllocationOff
  \/ part = "scenarios" /\ Scenario!Init /\ ScenarioOff
  \/ part = "cohort" /\ Cohort!Init /\ CohortOff
  \/ part = "cohort of two" /\ Cohorts!Init /\ CohortOff
  \/ part = "daily forecast" /\ Daily!Init /\ DailyOff
  \/ part = "forecast run" /\ Run!Init /\ RunOff

AreaNext ==
  \/ part = "workbook" /\ Book!Next /\ UNCHANGED part /\ BookStill
  \/ part = "estimator" /\ Estimator!Next /\ UNCHANGED part /\ EstimatorStill
  \/ part = "allocation" /\ Allocation!Next /\ UNCHANGED part /\ AllocationStill
  \/ part = "scenarios" /\ Scenario!Next /\ UNCHANGED part /\ ScenarioStill
  \/ part = "cohort" /\ Cohort!Next /\ UNCHANGED part /\ CohortStill
  \/ part = "cohort of two" /\ Cohorts!Next /\ UNCHANGED part /\ CohortStill
  \/ part = "daily forecast" /\ Daily!Next /\ UNCHANGED part /\ DailyStill
  \/ part = "forecast run" /\ Run!Next /\ UNCHANGED part /\ RunStill

AreaSpec == AreaInit /\ [][AreaNext]_allVars

-----------------------------------------------------------------------------
\* The figures are Finance's: an import loses no cell, agrees with the consolidated
\* sheet and is staged as declared; an estimate leaves Finance months alone, its
\* revenue is the sales, its backtest uses the past only and its salaries add up to
\* the trusted payroll.
FiguresAreFinance ==
  /\ part = "workbook" =>
       /\ Book!NoCellLost
       /\ Book!AgreesWithConsolidated
       /\ Book!RevenueWithinConsolidated
       /\ Book!StagedAsDeclared
  /\ part = "estimator" =>
       /\ Estimator!FinanceStaysFinance
       /\ Estimator!RevenueIsSales
       /\ Estimator!BacktestIsCausal
       /\ Estimator!SalaryInputsDecideSalary
       /\ Estimator!PayrollTotalKept

\* Targets are what was budgeted and agreed: a feasible budget is met to the cent, in
\* proportion to the weights and within floors and caps; every difference from the
\* proposal has its reason, and what is published is what was agreed.
TargetsAgree ==
  /\ part = "allocation" =>
       /\ Allocation!FeasibleBudgetIsMet
       /\ Allocation!Proportional
       /\ Allocation!FlooredBudgetIsMet
  /\ part = "scenarios" => Scenario!DifferencesHaveReasons /\ Scenario!PublishedIsAgreed

\* A forecast rests on what was settled before it: later events do not change a past
\* cohort, no store that sold is forgotten, no month reads ahead of its source and
\* every store of the cohort has one row; the days of a month add up to it and follow
\* its calendar.
ForecastIsSettled ==
  /\ part = "cohort" => Cohort!PastIsSettled
  /\ part = "cohort of two" => Cohorts!NobodyForgotten /\ Cohorts!ForecastStoresAreSettled
  /\ part = "daily forecast" =>
       /\ Daily!DaysSumToMonth
       /\ Daily!CalendarFollowed
       /\ Daily!RestIsRounding
  /\ part = "forecast run" => Run!NoLookahead /\ Run!CoverageIsExact /\ Run!ZeroStaysZero

\* Two users of the target calculator lose no edit: a change builds on the revision
\* its author saw, a finalized scenario is final, publishing replaces the whole month;
\* and the order of the rows decides nothing in an allocation.
ChangesBuildOnWhatWasSeen ==
  [][
     /\ part = "allocation" => Allocation!OrderDecidesNothing
     /\ part = "scenarios" =>
          /\ Scenario!ChangesBuildOnWhatWasSeen
          /\ Scenario!PublishingReplacesAll
          /\ Scenario!FinalizedIsFinal
    ]_allVars

=============================================================================
