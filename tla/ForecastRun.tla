------------------------------ MODULE ForecastRun ------------------------------
(* A forecast run (scripts/run_ai_forecast_xreg.py) against the external       *)
(* TimesFM service, with the request/response contract of                      *)
(* services/ai_forecast_contract.py: one multi-step request (operational) or   *)
(* one request per target month (backtest), and the seasonal fallback for the  *)
(* stores the model leaves out.                                                *)
(*                                                                             *)
(* A month is a number.  What a forecast is worth is left out; what it was     *)
(* computed from is kept: every row carries the months of sales it read.       *)
EXTENDS Integers, FiniteSets, FiniteSetsExt

CONSTANTS
  Sites,       \* store codes
  History,     \* first month of sales
  Year,        \* months of a year
  MinContext,  \* months of history the model needs
  MaxHorizon,  \* longest horizon a request may ask for (12 in the code)
  Sales,       \* the sales tables a run may find: site -> month -> amount
  Runs         \* the arguments it may be given: [operational, mode, source, start, end, cohort]

VARIABLES
  args,     \* the arguments
  sales,    \* fetch_monthly_sales: site -> month -> amount, up to the end month
  pc,       \* "load", "post", "parse", "written", "failed"
  left,     \* target months without rows
  answer,   \* the service's answer to the current request
  rows,     \* all_rows
  out       \* the rows of the CSV on disk

vars == <<args, sales, pc, left, answer, rows, out>>

NoAnswer == [kind |-> "none", series |-> {}]

Init ==
  /\ args \in Runs
  /\ sales \in Sales
  /\ pc = "load" /\ left = {} /\ answer = NoAnswer /\ rows = {} /\ out = {}

Targets == args.start..args.end

\* The months of the current request, and the month it may look back from.
Batch == IF args.operational THEN Targets ELSE {Min(left)}

Source == IF args.operational THEN args.source ELSE Min(left) - 1

Stores == args.cohort[Min(left)]

\* sales.get: amounts before the history and after the end month are zero.
Amount(s, m) == IF m \in History..args.end THEN sales[s][m] ELSE 0

-----------------------------------------------------------------------------
(* The request.                                                               *)

\* From the first month with sales up to the source month.
Context(s) ==
  {m \in History..Source : \E k \in History..m : Amount(s, k) > 0}

\* build_payload: the others are recorded as skipped.
Eligible == {s \in Stores : Context(s) # {} /\ Cardinality(Context(s)) >= MinContext}

\* validate_forecast_request, called when the answer is parsed.
RequestValid ==
  /\ Cardinality(Batch) \in 1..MaxHorizon
  /\ \A s \in Eligible : \A m \in Context(s) : Amount(s, m) >= 0

Load ==
  /\ pc = "load"
  /\ pc' = IF \A m \in Targets : args.cohort[m] = {} THEN "failed" ELSE "post"
  /\ left' = Targets
  /\ UNCHANGED <<args, sales, answer, rows, out>>

\* External: the service answers with some of the series, breaks the contract
\* (an unknown or repeated series, a wrong length, a bad number) or times out.
Answers ==
  {[kind |-> "series", series |-> got] : got \in SUBSET Eligible}
  \cup {[kind |-> "broken", series |-> {}], [kind |-> "timeout", series |-> {}]}

\* A timeout stands for an empty answer only where a fallback may fill it.
Post ==
  /\ pc = "post"
  /\ \E a \in Answers :
       IF Eligible = {} \/ (a.kind = "timeout" /\ args.mode = "fail_closed")
         THEN pc' = "failed" /\ answer' = NoAnswer
         ELSE pc' = "parse" /\ answer' = IF a.kind = "timeout" THEN [kind |-> "series", series |-> {}] ELSE a
  /\ UNCHANGED <<args, sales, left, rows, out>>

-----------------------------------------------------------------------------
(* The answer, and the fallback.                                              *)

\* validate_forecast_response: whole series only; all of them in fail_closed.
Accepted ==
  /\ RequestValid
  /\ answer.kind = "series"
  /\ args.mode = "fail_closed" => answer.series = Eligible

ModelRows ==
  {[site |-> s, month |-> m, source |-> Source, method |-> "model", zero |-> FALSE, used |-> Context(s)] :
     s \in answer.series, m \in Batch}

\* The same month of the last year that is known at the source month.
Reference(m, limit) ==
  Max({m - k * Year : k \in {k \in 1..m : m - k * Year <= limit}} \cup {-(Year * m)})

\* known_values of the store, oldest first, then the sales table.
KnownIn(known, s, m) == {r \in known : r.site = s /\ r.month = m}

Positive(known, s, m) ==
  IF KnownIn(known, s, m) # {} THEN \A r \in KnownIn(known, s, m) : ~r.zero ELSE Amount(s, m) > 0

Reads(known, s, m) ==
  IF KnownIn(known, s, m) # {} THEN UNION {r.used : r \in KnownIn(known, s, m)}
  ELSE {m} \cap (History..args.end)

\* seasonal_last3_fallback: the last three months, scaled by a reference year.
\* A positive value may be rounded to zero.
FallbackRow(known, s, m, zero) ==
  LET last3 == (m - 3)..(m - 1)
      ref == Reference(m, Source)
      some == \E k \in last3 : Positive(known, s, k)
  IN [site |-> s, month |-> m, source |-> Source,
      method |-> IF some THEN "fallback_seasonal_last3" ELSE "fallback_zero_history",
      zero |-> ~some \/ zero,
      used |-> UNION {Reads(known, s, k) : k \in last3}
               \cup (IF some THEN ((ref - 3)..ref) \cap (History..args.end) ELSE {})]

FallbackRowsOf(known, m, zero) == {FallbackRow(known, s, m, zero) : s \in Stores \ answer.series}

\* Month after month: a month's fallbacks are the next month's known values.
RECURSIVE FallbackRows(_, _, _)
FallbackRows(known, months, zero) ==
  IF months = {} THEN known
  ELSE LET m == Min(months)
       IN FallbackRows(known \cup FallbackRowsOf(known, m, zero), months \ {m}, zero)

Fallback(zero) == FallbackRows({}, Batch, zero)

\* run: the files are written once, after the last request.
WriteCsvs(all) == pc' = "written" /\ out' = all

Parse ==
  /\ pc = "parse"
  /\ answer' = NoAnswer
  /\ IF ~Accepted THEN pc' = "failed" /\ UNCHANGED <<left, rows, out>>
     ELSE \E zero \in BOOLEAN :
            LET new == ModelRows \cup (IF args.mode = "seasonal_fallback" THEN Fallback(zero) ELSE {})
            IN /\ rows' = rows \cup new
               /\ left' = left \ Batch
               /\ \/ left = Batch /\ WriteCsvs(rows \cup new)
                  \/ left # Batch /\ pc' = "post" /\ UNCHANGED out
  /\ UNCHANGED <<args, sales>>

Next == Load \/ Post \/ Parse

Spec == Init /\ [][Next]_vars

-----------------------------------------------------------------------------
TypeOK ==
  /\ pc \in {"load", "post", "parse", "written", "failed"}
  /\ left \subseteq Targets
  /\ answer.series \subseteq Sites
  /\ \A r \in rows : r.site \in Sites /\ r.month \in Targets
  /\ out \subseteq rows

\* "Ultima luna istorica folosita": a forecast is made from what was known in
\* its source month.  No row reads sales of a later month, through the context,
\* the last three months, the reference year or a fallback it builds on, also
\* when the sales of the target months are in the table (a backtest).
NoLookahead == \A r \in rows : \A m \in r.used : m <= r.source

\* A CSV is written only when every request was answered in full, and covers
\* the cohort: in seasonal_fallback every store has exactly one row for every
\* target month, by the model or by a fallback; in fail_closed every store with
\* enough history does, by the model, and no other row appears.
CoverageIsExact ==
  out # {} =>
    \A m \in Targets, s \in Sites :
      LET mine == {r \in out : r.site = s /\ r.month = m}
          from == IF args.operational THEN args.source ELSE m - 1
          long == Cardinality({k \in History..from : \E j \in History..k : sales[s][j] > 0}) >= MinContext
      IN CASE args.mode = "seasonal_fallback" -> Cardinality(mine) = IF s \in args.cohort[m] THEN 1 ELSE 0
           [] OTHER -> /\ Cardinality(mine) = IF s \in args.cohort[m] /\ long THEN 1 ELSE 0
                       /\ \A r \in mine : r.method = "model"

\* A store that stopped selling is not forecast from its past for ever: once a
\* store's fallback is zero in a multi-step run with nothing sold in the last
\* three months, every later month of the run is zero as well.
ZeroStaysZero ==
  \A r \in out : r.method = "fallback_zero_history" /\ args.operational =>
    \A q \in out : q.site = r.site /\ q.month >= r.month /\ q.method # "model" => q.zero

=============================================================================
