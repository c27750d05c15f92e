---------------------------- MODULE ForecastImport ----------------------------
(* The import of AI forecasts (scripts/import_ai_forecast.py) over the sealed *)
(* cohort snapshots (persist_asof_cohort_snapshot and migration 069), and the *)
(* runs the Hub reads back (repositories/ai_forecast.py).                     *)
(*                                                                            *)
(* An import is one transaction over the months of its file; each statement   *)
(* of it sees what other imports and snapshot builders have committed.        *)
EXTENDS Naturals, Sequences, FiniteSets, FiniteSetsExt, SequencesExt

CONSTANTS
  Importers,   \* processes running the script
  Files,       \* the CSV + lineage manifest pairs they may be given
  Snapshots,   \* snapshot ids
  Cohort,      \* snapshot -> [source, target, rows]: what its builder resolved
  Months,      \* forecast months
  MaxImports,  \* bound: imports started
  MaxFaults    \* bound: imports that break off

VARIABLES
  snap,    \* snapshot -> [state, rows]
  runs,    \* committed ai_forecast_runs with their store rows
  imp,     \* importer -> where it is, its file, the months left, its uncommitted runs
  nextId,  \* sequence of run ids (generated_at follows it)
  started, \* imports started
  faults   \* imports broken off

vars == <<snap, runs, imp, nextId, started, faults>>

Resting(how) == [pc |-> how, file |-> 0, todo |-> {}, mine |-> {}]

Init ==
  /\ snap = [s \in Snapshots |-> [state |-> "absent", rows |-> {}]]
  /\ runs = {}
  /\ imp = [p \in Importers |-> Resting("idle")]
  /\ nextId = 1 /\ started = 0 /\ faults = 0

-----------------------------------------------------------------------------
(* The cohort snapshots: declared with their counts, filled, sealed once.    *)

OperatingSites(rows) == {r.site : r \in {r \in rows : r.confidence = "confirmed" /\ r.operating}}

ExpectedPairs(s) == Cardinality(OperatingSites(Cohort[s].rows))

DeclareSnapshot(s) ==
  /\ snap[s].state = "absent"
  /\ snap' = [snap EXCEPT ![s].state = "building"]
  /\ UNCHANGED <<runs, imp, nextId, started, faults>>

InsertRows(s) ==
  /\ snap[s].state = "building" /\ snap[s].rows = {}
  /\ snap' = [snap EXCEPT ![s].rows = Cohort[s].rows]
  /\ UNCHANGED <<runs, imp, nextId, started, faults>>

Seal(s) ==
  /\ snap[s].state = "building"
  /\ Cardinality(snap[s].rows) = Cardinality(Cohort[s].rows)     \* the declared row_count
  /\ snap' = [snap EXCEPT ![s].state = "sealed"]
  /\ UNCHANGED <<runs, imp, nextId, started, faults>>

-----------------------------------------------------------------------------
(* What the script checks before it opens a connection.                       *)

ValidLineage(l) ==
  /\ l.expected > 0
  /\ l.model + l.fallback = l.expected
  /\ l.mode \in {"fail_closed", "seasonal_fallback"}
  /\ l.mode = "fail_closed" => l.fallback = 0

RowsOf(f, m) == {i \in DOMAIN f.rows : f.rows[i].month = m}

FileMonths(f) == {f.rows[i].month : i \in DOMAIN f.rows}

ValidRows(f) ==
  /\ f.rows # <<>>
  /\ \A i, j \in DOMAIN f.rows :
       f.rows[i].month = f.rows[j].month =>
         f.rows[i].source = f.rows[j].source /\ (f.rows[i].site = f.rows[j].site => i = j)
  /\ \A i \in DOMAIN f.rows : f.rows[i].value >= 0
  /\ f.horizon = "rolling_12m" => f.anchor # 0

\* The months of the CSV and of the manifest are the same.
Acceptable(f) ==
  ValidRows(f) /\ FileMonths(f) = DOMAIN f.lineage /\ \A m \in FileMonths(f) : ValidLineage(f.lineage[m])

Start(p) ==
  /\ imp[p].pc \in {"idle", "imported", "refused"} /\ started < MaxImports
  /\ started' = started + 1
  /\ \E f \in Files :
       imp' = [imp EXCEPT ![p] =
                 IF Acceptable(f) THEN [pc |-> "snapshot", file |-> f, todo |-> FileMonths(f), mine |-> {}]
                 ELSE Resting("refused")]
  /\ UNCHANGED <<snap, runs, nextId, faults>>

-----------------------------------------------------------------------------
(* One month of the transaction.                                              *)

Month(p) == Min(imp[p].todo)

Line(p) == imp[p].file.lineage[Month(p)]

Sites(p) == {imp[p].file.rows[i].site : i \in RowsOf(imp[p].file, Month(p))}

To(p, pc) == imp' = [imp EXCEPT ![p].pc = pc] /\ UNCHANGED <<snap, runs, nextId, started, faults>>

\* Any error ends the transaction: nothing of the file is kept.
Refuse(p) == imp' = [imp EXCEPT ![p] = Resting("refused")] /\ UNCHANGED <<snap, runs, nextId, started, faults>>

CountsMatch(p) ==
  LET is == RowsOf(imp[p].file, Month(p))
      how(k) == Cardinality({i \in is : imp[p].file.rows[i].method = k})
  IN Cardinality(is) = Line(p).expected /\ how("model") = Line(p).model /\ how("fallback") = Line(p).fallback

SnapshotFits(p) ==
  LET s == Line(p).snapshot
  IN /\ snap[s].state = "sealed"
     /\ Cohort[s].target = Month(p)
     /\ \A i \in RowsOf(imp[p].file, Month(p)) : imp[p].file.rows[i].source = Cohort[s].source
     /\ ExpectedPairs(s) = Line(p).expected

CheckSnapshot(p) ==
  /\ imp[p].pc = "snapshot"
  /\ IF CountsMatch(p) /\ SnapshotFits(p) THEN To(p, "rows") ELSE Refuse(p)

CoversExactly(p) ==
  LET rows == snap[Line(p).snapshot].rows
  IN /\ \A r \in rows : r.confidence = "confirmed"
     /\ Sites(p) = {r.site : r \in {r \in rows : r.operating}}

CheckRows(p) ==
  /\ imp[p].pc = "rows"
  /\ IF CoversExactly(p) THEN To(p, "existing") ELSE Refuse(p)

SameForecast(r, f, m) == r.month = m /\ r.variant = f.variant /\ r.horizon = f.horizon

\* _fetch_existing_forecast_run: the newest one this transaction can see.
Existing(p) ==
  LET seen == {r \in runs \cup imp[p].mine : SameForecast(r, imp[p].file, Month(p))}
  IN {r \in seen : \A q \in seen : q.id <= r.id}

MonthDone(p, new) ==
  imp' = [imp EXCEPT ![p].todo = @ \ {Month(p)}, ![p].mine = @ \cup new,
                     ![p].pc = IF imp[p].todo = {Month(p)} THEN "commit" ELSE "snapshot"]

\* An identical run is reused, another lineage is refused.
ReuseOrRefuse(p) ==
  /\ imp[p].pc = "existing"
  /\ IF Existing(p) = {} THEN To(p, "insert")
     ELSE IF \A r \in Existing(p) : r.lineage = Line(p)
       THEN MonthDone(p, {}) /\ UNCHANGED <<snap, runs, nextId, started, faults>>
       ELSE Refuse(p)

\* Fault: every month is a transaction of its own.
InsertRunCommitting(p) ==
  /\ imp[p].pc = "insert"
  /\ runs' = runs \cup {[id |-> nextId, month |-> Month(p), source |-> Cohort[Line(p).snapshot].source,
                         variant |-> imp[p].file.variant, horizon |-> imp[p].file.horizon,
                         anchor |-> imp[p].file.anchor, lineage |-> Line(p), sites |-> Sites(p),
                         of |-> imp[p].file]}
  /\ MonthDone(p, {})
  /\ nextId' = nextId + 1
  /\ UNCHANGED <<snap, started, faults>>

\* The run, its store rows and (for current_month) its days; the trigger asks
\* again for a sealed snapshot and its pair count.
InsertRun(p) ==
  /\ imp[p].pc = "insert"
  /\ snap[Line(p).snapshot].state = "sealed"
  /\ MonthDone(p, {[id |-> nextId, month |-> Month(p), source |-> Cohort[Line(p).snapshot].source,
                    variant |-> imp[p].file.variant, horizon |-> imp[p].file.horizon,
                    anchor |-> imp[p].file.anchor, lineage |-> Line(p), sites |-> Sites(p),
                    of |-> imp[p].file]})
  /\ nextId' = nextId + 1
  /\ UNCHANGED <<snap, runs, started, faults>>

Commit(p) ==
  /\ imp[p].pc = "commit"
  /\ runs' = runs \cup imp[p].mine
  /\ imp' = [imp EXCEPT ![p] = Resting("imported")]
  /\ UNCHANGED <<snap, nextId, started, faults>>

BreakOff(p) ==
  /\ imp[p].pc \notin {"idle", "imported", "refused"} /\ faults < MaxFaults
  /\ faults' = faults + 1
  /\ imp' = [imp EXCEPT ![p] = Resting("refused")]
  /\ UNCHANGED <<snap, runs, nextId, started>>

-----------------------------------------------------------------------------
(* What the Hub reads.                                                        *)

Newest(set) == IF set = {} THEN 0 ELSE (CHOOSE r \in set : \A q \in set : q.id <= r.id).id

\* /ai-forecast/current: the newest run for the month, else the newest made from it.
CurrentRun(m) ==
  LET own == {r \in runs : r.horizon = "current_month" /\ r.month = m}
      next == {r \in runs : r.horizon = "current_month" /\ r.source = m}
  IN IF own # {} THEN Newest(own) ELSE Newest(next)

\* /ai-forecast/rolling-12 anchored at a; a run without anchor stands in for none.
RollingRun(a, m) ==
  LET of(x) == {r \in runs : r.horizon = "rolling_12m" /\ r.month = m /\ r.anchor = x}
  IN IF of(a) # {} THEN Newest(of(a)) ELSE Newest(of(0))

Forecast(m) == \E r \in runs : r.horizon = "current_month" /\ r.month = m

Anchors == {f.anchor : f \in Files} \ {0}

Next ==
  \/ \E s \in Snapshots : DeclareSnapshot(s) \/ InsertRows(s) \/ Seal(s)
  \/ \E p \in Importers : \/ Start(p) \/ CheckSnapshot(p) \/ CheckRows(p) \/ ReuseOrRefuse(p)
                          \/ InsertRun(p) \/ Commit(p) \/ BreakOff(p)

Spec == Init /\ [][Next]_vars

-----------------------------------------------------------------------------
TypeOK ==
  /\ \A s \in Snapshots : /\ snap[s].state \in {"absent", "building", "sealed"}
                          /\ snap[s].state = "sealed" => snap[s].rows = Cohort[s].rows
  /\ \A r \in runs : r.id < nextId /\ r.month \in Months
  /\ \A p \in Importers :
       /\ imp[p].pc \in {"idle", "snapshot", "rows", "existing", "insert", "commit", "imported", "refused"}
       /\ imp[p].todo \subseteq Months /\ imp[p].mine \cap runs = {}

\* A run that can be read covers its cohort: its stores are exactly the
\* confirmed operating stores of a snapshot sealed for that target and source
\* month, none of the snapshot's stores is in doubt, and the model and fallback
\* counts add up to them, also when the snapshot is built while the import runs.
RunsCoverTheirCohort ==
  \A r \in runs :
    LET c == Cohort[r.lineage.snapshot]
    IN /\ snap[r.lineage.snapshot].state = "sealed"
       /\ c.target = r.month /\ c.source = r.source
       /\ \A x \in c.rows : x.confidence = "confirmed"
       /\ r.sites = {x.site : x \in {x \in c.rows : x.operating}}
       /\ r.lineage.model + r.lineage.fallback = Cardinality(r.sites)

\* A file is imported as a whole: if one of its months can be read, every month
\* of it has a run with the file's lineage, whenever the import broke off.
WholeFiles ==
  \A r \in runs : \A m \in FileMonths(r.of) :
    \E q \in runs : SameForecast(q, r.of, m) /\ q.lineage = r.of.lineage[m]

\* "Forecast existent cu lineage diferit; reimportul este interzis": the
\* completed runs of one month, variant and horizon have one lineage.
OneLineage ==
  \A r, q \in runs :
    r.month = q.month /\ r.variant = q.variant /\ r.horizon = q.horizon => r.lineage = q.lineage

\* What the Hub shows for a month only moves forward: from nothing, or from a
\* forecast made from the month, to a forecast of the month, and from there only
\* to a newer one, in whichever order the imports commit.
ShownMovesForward ==
  \A m \in Months :
    (CurrentRun(m)' # CurrentRun(m) /\ Forecast(m))
      => CurrentRun(m)' > CurrentRun(m) /\ (\E r \in runs' : r.id = CurrentRun(m)' /\ r.month = m)

\* The twelve months shown for an anchor are that anchor's: the import of another
\* anchor never changes them.
AnchorKept ==
  \A m \in Months, a \in Anchors :
    RollingRun(a, m)' # RollingRun(a, m) =>
      \E r \in runs' : r.id = RollingRun(a, m)' /\ r.month = m /\ r.anchor = a

=============================================================================
