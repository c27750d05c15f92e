---------------------------- MODULE ForecastCohort ----------------------------
(* The as-of cohort of the AI forecast (services/ai_forecast_cohort.py and   *)
(* fetch_asof_stores in scripts/run_ai_forecast_xreg.py): which stores a      *)
(* forecast made from a source month covers, decided from the records that    *)
(* bear on that month and never from today's store master.                    *)
(*                                                                            *)
(* Business goes on in month `now` while one resolver reads the four          *)
(* authorities of an earlier month, one statement at a time.                  *)
EXTENDS Naturals, FiniteSets, FiniteSetsExt

CONSTANTS
  Sites,      \* store codes
  Excluded,   \* store codes left out by --exclude-site
  Firms,      \* companies a reporting row may name
  Labels,     \* regional/asm pairs of an assignment
  MaxMonth,   \* bound: months of the calendar
  MaxWrites,  \* bound: records written while the model runs
  MaxReads    \* bound: resolutions made

None == "none"
Open == MaxMonth + 2        \* valid_to_month IS NULL
Months == 1..MaxMonth

VARIABLES
  now,        \* the current business month
  reporting,  \* reporting_agent_month: site, month, firma, and whether it is a TR location
  targets,    \* store_targets: site, month
  events,     \* store_activity_events: site, seq (created_at order), month, active
  org,        \* store_org_assignments: site, label, from, to
  writes,     \* records written so far
  call,       \* the resolution in progress: its source month and what it has read
  resolved    \* what every finished resolution returned

data == <<now, reporting, targets, events, org, writes>>
vars == <<data, call, resolved>>

Idle == [step |-> "idle", source |-> 0, reporting |-> {}, targets |-> {}, events |-> {}]

Init ==
  /\ now = 1
  /\ reporting = {} /\ targets = {} /\ events = {} /\ org = {}
  /\ writes = 0
  /\ call = Idle
  /\ resolved = {}

-----------------------------------------------------------------------------
(* Business: every record bears on the current month (a target may also be   *)
(* set for the next one).                                                     *)

Written == writes < MaxWrites /\ writes' = writes + 1 /\ UNCHANGED <<now, call, resolved>>

Sell(s) ==
  /\ Written
  /\ \E f \in Firms, tr \in BOOLEAN :
       reporting' = reporting \cup {[site |-> s, month |-> now, firma |-> f, tr |-> tr]}
  /\ UNCHANGED <<targets, events, org>>

SetTarget(s) ==
  /\ Written
  /\ \E m \in {now, now + 1} : targets' = targets \cup {[site |-> s, month |-> m]}
  /\ UNCHANGED <<reporting, events, org>>

EventsOf(s, es) == {e \in es : e.site = s}

LastEvent(s, es) == CHOOSE e \in EventsOf(s, es) : \A g \in EventsOf(s, es) : g.seq <= e.seq

\* The stores row is locked and the event is written only when the flag changes.
Toggle(s) ==
  /\ Written
  /\ LET active == EventsOf(s, events) = {} \/ LastEvent(s, events).active
     IN events' = events \cup {[site |-> s, seq |-> Cardinality(events) + 1,
                                month |-> now, active |-> ~active]}
  /\ UNCHANGED <<reporting, targets, org>>

\* A reorganisation: the open assignment ends with the last month, a new one starts.
Reassign(s) ==
  /\ Written
  /\ \E l \in Labels :
       org' = {IF a.site = s /\ a.to = Open /\ a.from < now THEN [a EXCEPT !.to = now - 1] ELSE a :
                 a \in org}
              \cup {[site |-> s, label |-> l, from |-> now, to |-> Open]}
  /\ UNCHANGED <<reporting, targets, events>>

NextMonth ==
  /\ now < MaxMonth
  /\ now' = now + 1
  /\ UNCHANGED <<reporting, targets, events, org, writes, call, resolved>>

-----------------------------------------------------------------------------
(* Resolution of the cohort of month m from evidence ev.                      *)

Covers(a, m) == a.from <= m /\ m <= a.to

Eligible(ev, m) == {e \in ev.events : e.month <= m}

EvidenceMonths(s, ev, m) ==
  {k \in {r.month : r \in {r \in ev.reporting : r.site = s}}
         \cup {t.month : t \in {t \in ev.targets : t.site = s}}
         \cup {e.month : e \in EventsOf(s, Eligible(ev, m))}
         \cup {a.from : a \in {a \in ev.org : a.site = s}}
         \cup {m : a \in {a \in ev.org : a.site = s /\ Covers(a, m)}} : k <= m}

SourceReporting(s, ev, m) == {r \in ev.reporting : r.site = s /\ r.month = m}

HasTarget(s, ev, m) == [site |-> s, month |-> m] \in ev.targets

\* is_operating: the last activity event, else an official target, else sales.
Operating(s, ev, m) ==
  CASE EventsOf(s, Eligible(ev, m)) # {} ->
         IF LastEvent(s, Eligible(ev, m)).active THEN "yes" ELSE "no"
    [] EventsOf(s, Eligible(ev, m)) = {} /\ (HasTarget(s, ev, m) \/ SourceReporting(s, ev, m) # {}) -> "yes"
    [] OTHER -> None

FirmsOf(s, ev, m) == {r.firma : r \in SourceReporting(s, ev, m)}

CoveringOrg(s, ev, m) == {a \in ev.org : a.site = s /\ Covers(a, m)}

Only(set) == IF Cardinality(set) = 1 THEN CHOOSE x \in set : TRUE ELSE None

Confidence(s, ev, m) ==
  CASE Cardinality(FirmsOf(s, ev, m)) > 1 \/ Cardinality(CoveringOrg(s, ev, m)) > 1 -> "ambiguous"
    [] Operating(s, ev, m) # None /\ Cardinality(FirmsOf(s, ev, m)) = 1
         /\ Cardinality(CoveringOrg(s, ev, m)) = 1 -> "confirmed"
    [] OTHER -> "unknown"

\* Fault: the first month of a store does not count yet.
InWindowSeenBefore(s, ev, m) ==
  LET seen == EvidenceMonths(s, ev, m)
  IN seen # {} /\ Min(seen) < m /\ m <= Max(seen)

\* A store is in the cohort when first_seen <= m <= last_seen.
InWindow(s, ev, m) ==
  LET seen == EvidenceMonths(s, ev, m)
  IN seen # {} /\ Min(seen) <= m /\ m <= Max(seen)

CohortRow(s, ev, m) ==
  [site |-> s, operating |-> Operating(s, ev, m), firma |-> Only(FirmsOf(s, ev, m)),
   label |-> Only({a.label : a \in CoveringOrg(s, ev, m)}),
   confidence |-> Confidence(s, ev, m),
   first |-> Min(EvidenceMonths(s, ev, m)), last |-> Max(EvidenceMonths(s, ev, m))]

CohortRows(ev, m) == {CohortRow(s, ev, m) : s \in {s \in Sites : InWindow(s, ev, m)}}

Decision(rows) == IF \E r \in rows : r.confidence # "confirmed" THEN "BLOCKED" ELSE "READY"

ExcludedAfterCutoff(ev, m) ==
  {e.site : e \in {e \in ev.events : e.month > m}} \ {r.site : r \in CohortRows(ev, m)}

\* authority_generation hashes the evidence it is given: as content, that evidence.
AuthorityGeneration(ev) == <<ev.reporting, ev.targets, ev.events, ev.org>>

\* Left out on request, or a transfer location in the source month.
LeftOut(ev, m) == Excluded \cup {r.site : r \in {r \in ev.reporting : r.month = m /\ r.tr}}

Kept(ev, m) ==
  [reporting |-> {r \in ev.reporting : r.site \notin LeftOut(ev, m)},
   targets |-> {t \in ev.targets : t.site \notin LeftOut(ev, m)},
   events |-> {e \in ev.events : e.site \notin LeftOut(ev, m)},
   org |-> {a \in ev.org : a.site \notin LeftOut(ev, m)}]

\* The stores of a READY cohort; a BLOCKED one is an error and forecasts nothing.
Stores(rows) ==
  IF Decision(rows) = "READY" THEN {r.site : r \in {r \in rows : r.operating = "yes"}} ELSE {}

-----------------------------------------------------------------------------
(* fetch_asof_evidence: four statements, each seeing what is committed then. *)

Begin(m) ==
  /\ call.step = "idle" /\ m < now /\ Cardinality(resolved) < MaxReads
  /\ call' = [Idle EXCEPT !.step = "targets", !.source = m,
                          !.reporting = {r \in reporting : r.month <= m}]
  /\ UNCHANGED <<data, resolved>>

ReadTargets ==
  /\ call.step = "targets"
  /\ call' = [call EXCEPT !.step = "events", !.targets = {t \in targets : t.month <= call.source}]
  /\ UNCHANGED <<data, resolved>>

ReadEvents ==
  /\ call.step = "events"
  /\ call' = [call EXCEPT !.step = "org", !.events = events]
  /\ UNCHANGED <<data, resolved>>

Resolve ==
  /\ call.step = "org"
  /\ LET m == call.source
         read == [reporting |-> call.reporting, targets |-> call.targets, events |-> call.events,
                  org |-> {a \in org : a.from <= m}]
         ev == Kept(read, m)
         rows == CohortRows(ev, m)
     IN resolved' = resolved \cup
          {[source |-> m, rows |-> rows, decision |-> Decision(rows), stores |-> Stores(rows),
            generation |-> AuthorityGeneration(ev), after |-> ExcludedAfterCutoff(ev, m)]}
  /\ call' = Idle
  /\ UNCHANGED data

Next ==
  \/ \E s \in Sites : Sell(s) \/ SetTarget(s) \/ Toggle(s) \/ Reassign(s)
  \/ NextMonth
  \/ \E m \in Months : Begin(m)
  \/ ReadTargets \/ ReadEvents \/ Resolve

Spec == Init /\ [][Next]_vars

-----------------------------------------------------------------------------
TypeOK ==
  /\ now \in Months /\ writes \in 0..MaxWrites
  /\ \A r \in reporting : r.site \in Sites /\ r.month \in 1..now
  /\ \A a \in org : a.from \in Months /\ a.to \in a.from..Open
  /\ call.step \in {"idle", "targets", "events", "org"} /\ call.source < now
  /\ \A x \in resolved : x.source < now /\ x.decision \in {"READY", "BLOCKED"}

\* What was decided for a past month stays decided: however much business is
\* recorded later, and wherever between the four statements it commits, two
\* resolutions of one source month give the same rows and the same decision
\* (resolve_asof_cohort filters what is after the cutoff, and the closing of
\* an assignment after the month does not uncover the month).
PastIsSettled ==
  \A x, y \in resolved :
    x.source = y.source => x.rows = y.rows /\ x.decision = y.decision /\ x.stores = y.stores

\* No store is forgotten: when a cohort is READY, a store with sales or with an
\* official target in the source month, not left out on purpose, is forecast
\* unless its last activity event up to the cutoff closed it.
NobodyForgotten ==
  \A x \in resolved : \A s \in Sites :
    LET closed == {e \in events : e.site = s /\ e.month <= x.source}
    IN /\ x.decision = "READY" /\ s \notin Excluded
       /\ ~\E r \in reporting : r.site = s /\ r.month = x.source /\ r.tr
       /\ \/ \E r \in reporting : r.site = s /\ r.month = x.source
          \/ [site |-> s, month |-> x.source] \in targets
       => \/ s \in x.stores
          \/ closed # {} /\ ~(CHOOSE e \in closed : \A g \in closed : g.seq <= e.seq).active

\* A store is forecast only from settled authority: it was not closed at the
\* cutoff, one company reported it in the source month and one assignment of
\* its history covers that month.
ForecastStoresAreSettled ==
  \A x \in resolved : \A s \in x.stores :
    /\ ~\E e \in events : /\ e.site = s /\ e.month <= x.source /\ ~e.active
                          /\ \A g \in events : g.site = s /\ g.month <= x.source => g.seq <= e.seq
    /\ Cardinality({r.firma : r \in {r \in reporting : r.site = s /\ r.month = x.source}}) = 1
    /\ Cardinality({a \in org : a.site = s /\ a.from <= x.source /\ x.source <= a.to}) = 1

=============================================================================
