------------------------------ MODULE GrileRuns ------------------------------
(***************************************************************************)
(* The read-only monitoring of the grile (the stores' Google sheets) for   *)
(* one month: full runs over every store, refreshes of one store, and the  *)
(* projection the screen shows.                                            *)
(*                                                                         *)
(*   services/grile.py                    the two jobs and their heartbeat *)
(*   services/grile_jobs.py               reservation and publication      *)
(*   repositories/grile_runs.py           the table grile_runs             *)
(*   repositories/grile_store_refreshes.py, grile_refresh_reservations.py  *)
(*                                        grile_store_refreshes, the fence *)
(*   repositories/grile_persistence.py    observations and projection      *)
(*                                                                         *)
(* A sheet is a version number that its editors raise; an observation is   *)
(* an error or the version that was read.  Time is the age of a row's      *)
(* heartbeat: 0, 1 (older than the 5 minutes of a running lease) or 2      *)
(* (older than the 2 hours of a queued one).                               *)
(***************************************************************************)
EXTENDS Integers, FiniteSets

CONSTANTS Sites,         \* stores with an active sheet
          NoSite,        \* the store of an unused row
          MaxRuns,       \* rows of grile_runs
          MaxRefreshes,  \* rows of grile_store_refreshes
          MaxEdits,      \* edits of each sheet
          MaxLapses,     \* heartbeats a live worker misses for a whole lease
          MaxCancels,    \* jobs cancelled by a timeout or a shutdown
          MaxCrashes     \* deaths of the worker process

VARIABLES runs,       \* grile_runs: status, heartbeat age, fences by site
          rtasks,     \* the request and the job working on each run
          refreshes,  \* grile_store_refreshes
          ftasks,     \* the request and the job working on each refresh
          queue,      \* the ARQ queue of the grile worker
          next,       \* grile_store_projection_generations
          current,    \* grile_store_current_status
          seen,       \* grile_store_observations
          sheet,      \* the version of each sheet
          budget      \* faults still allowed

vars == <<runs, rtasks, refreshes, ftasks, queue, next, current, seen, sheet,
          budget>>

Runs == 1 .. MaxRuns
Refreshes == 1 .. MaxRefreshes
Active == {"queued", "running"}
Versions == 0 .. MaxEdits
Rows == [ok : BOOLEAN, ver : Versions]
Fences == 0 .. MaxRuns + MaxRefreshes

NoRun == [status |-> "none", age |-> 0, gen |-> [s \in Sites |-> 0]]
NoRow == [ok |-> FALSE, ver |-> 0]
NoTask == [pc |-> "idle", at |-> [s \in Sites |-> "fetch"],
           row |-> [s \in Sites |-> NoRow], lost |-> FALSE]
NoRefresh == [status |-> "none", age |-> 0, site |-> NoSite, gen |-> 0,
              applied |-> FALSE, asked |-> 0, expired |-> FALSE,
              published |-> "none"]
NoFetch == [pc |-> "idle", at |-> "fetch", row |-> NoRow, lost |-> FALSE]
NoStatus == [gen |-> 0, shows |-> FALSE, ver |-> 0, err |-> 0]

TypeOK ==
    /\ runs \in [Runs -> [status : Active \cup {"none", "completed", "failed"},
                          age : 0 .. 2, gen : [Sites -> Fences]]]
    /\ rtasks \in [Runs ->
           [pc : {"idle", "publishing", "live", "failing"},
            at : [Sites -> {"fetch", "read", "saved", "done"}],
            row : [Sites -> Rows], lost : BOOLEAN]]
    /\ refreshes \in [Refreshes ->
           [status : Active \cup {"none", "completed", "failed", "cancelled"},
            age : 0 .. 2, site : Sites \cup {NoSite}, gen : Fences,
            applied : BOOLEAN, asked : Versions, expired : BOOLEAN,
            published : {"none", "accepted", "raised"}]]
    /\ ftasks \in [Refreshes ->
           [pc : {"idle", "publishing", "live", "failing", "cancelled"},
            at : {"fetch", "read"}, row : Rows, lost : BOOLEAN]]
    /\ queue \subseteq ({"run"} \X Runs) \cup ({"refresh"} \X Refreshes)
    /\ next \in [Sites -> Fences]
    /\ current \in [Sites -> [gen : Fences, shows : BOOLEAN, ver : Versions,
                              err : Fences]]
    /\ seen \subseteq [site : Sites, gen : Fences, row : Rows,
                       owner : {"run", "refresh"} \X (Runs \cup Refreshes)]
    /\ sheet \in [Sites -> Versions]
    /\ budget \in [lapses : 0 .. MaxLapses, cancels : 0 .. MaxCancels,
                   crashes : 0 .. MaxCrashes]

Init ==
    /\ runs = [r \in Runs |-> NoRun]
    /\ rtasks = [r \in Runs |-> NoTask]
    /\ refreshes = [f \in Refreshes |-> NoRefresh]
    /\ ftasks = [f \in Refreshes |-> NoFetch]
    /\ queue = {}
    /\ next = [s \in Sites |-> 0]
    /\ current = [s \in Sites |-> NoStatus]
    /\ seen = {}
    /\ sheet = [s \in Sites |-> 0]
    /\ budget = [lapses |-> MaxLapses, cancels |-> MaxCancels,
                 crashes |-> MaxCrashes]

Spend(what) == /\ budget[what] > 0
               /\ budget' = [budget EXCEPT ![what] = @ - 1]

IsActive(op) == op.status \in Active

Unused(table, none) == {i \in DOMAIN table : table[i] = none}
First(S) == CHOOSE i \in S : \A j \in S : i <= j

-----------------------------------------------------------------------------
(* Leases *)

\* 2 hours for a row no worker has claimed, 5 minutes for a running one.
Lapsed(op) == \/ op.status = "queued" /\ op.age = 2
              \/ op.status = "running" /\ op.age >= 1

ReconciledRuns ==
    [r \in Runs |-> IF Lapsed(runs[r])
                    THEN [runs[r] EXCEPT !.status = "failed", !.age = 0]
                    ELSE runs[r]]

ReconciledRefreshes(S) ==
    [f \in Refreshes |->
        IF Lapsed(refreshes[f]) /\ refreshes[f].site \in S
        THEN [refreshes[f] EXCEPT !.status = "failed", !.age = 0,
                                  !.applied = FALSE, !.expired = TRUE]
        ELSE refreshes[f]]

-----------------------------------------------------------------------------
(* Observations and the projection *)

\* Fault: the last writer wins, whatever its generation.
SuccessUnfenced(now, gen, row) ==
    [now EXCEPT !.gen = gen, !.shows = TRUE, !.ver = row.ver]

\* _apply_success_projection.  Equal generations do not meet: a generation
\* belongs to one operation, which observes a store once.
SuccessProjection(now, gen, row) ==
    IF gen > now.gen
    THEN [now EXCEPT !.gen = gen, !.shows = TRUE, !.ver = row.ver]
    ELSE now

\* _apply_error_projection: the first row of a store may be an error.
ErrorProjection(now, gen) ==
    CASE now.gen = 0 -> [gen |-> gen, shows |-> FALSE, ver |-> 0, err |-> gen]
      [] now.gen > 0 /\ gen >= now.gen /\ gen > now.err ->
             [now EXCEPT !.err = gen]
      [] OTHER -> now

Projected(now, gen, row) ==
    IF row.ok THEN SuccessProjection(now, gen, row)
    ELSE ErrorProjection(now, gen)

\* The row is immutable evidence first, then the projection's compare-and-set.
RecordObservation(site, gen, row, owner) ==
    /\ seen' = seen \cup {[site |-> site, gen |-> gen, row |-> row,
                           owner |-> owner]}
    /\ current' = [current EXCEPT ![site] = Projected(@, gen, row)]

\* What a read of the sheet of a site can give.
Readings(site) == {[ok |-> TRUE, ver |-> sheet[site]],
                   [ok |-> FALSE, ver |-> 0]}

-----------------------------------------------------------------------------
(* Full runs *)

ReserveWith(table) ==
    LET r == First(Unused(runs, NoRun)) IN
    /\ Unused(runs, NoRun) # {}
    /\ IF \E q \in Runs : IsActive(table[q])
       THEN /\ runs' = table
            /\ UNCHANGED rtasks
       ELSE /\ runs' = [table EXCEPT ![r].status = "queued"]
            /\ rtasks' = [rtasks EXCEPT ![r].pc = "publishing"]
    /\ UNCHANGED <<refreshes, ftasks, queue, next, current, seen, sheet, budget>>

ReserveRun == ReserveWith(ReconciledRuns)

\* reserve_sales_import_grile_run: two hours for a running row as well.
ReserveSalesImportRun ==
    ReserveWith([r \in Runs |->
        IF IsActive(runs[r]) /\ runs[r].age = 2
        THEN [runs[r] EXCEPT !.status = "failed", !.age = 0] ELSE runs[r]])

\* The job is accepted (with or without a reply), lost on the way, or refused
\* because there is no queue connection; only the refusal closes the row.
PublishRun(r) ==
    /\ rtasks[r].pc = "publishing"
    /\ rtasks' = [rtasks EXCEPT ![r] = NoTask]
    /\ \/ /\ queue' = queue \cup {<<"run", r>>}
          /\ UNCHANGED runs
       \/ UNCHANGED <<queue, runs>>
       \/ /\ runs' = IF IsActive(runs[r])
                     THEN [runs EXCEPT ![r].status = "failed", ![r].age = 0]
                     ELSE runs
          /\ UNCHANGED queue
    /\ UNCHANGED <<refreshes, ftasks, next, current, seen, sheet, budget>>

\* claim_run: queued -> running and every store's generation, in one
\* transaction, before any Google read.
ClaimRun(r) ==
    /\ <<"run", r>> \in queue
    /\ queue' = queue \ {<<"run", r>>}
    /\ IF runs[r].status = "queued"
       THEN /\ next' = [s \in Sites |-> next[s] + 1]
            /\ runs' = [runs EXCEPT ![r] = [status |-> "running", age |-> 0,
                                            gen |-> next']]
            /\ rtasks' = [rtasks EXCEPT ![r] = [NoTask EXCEPT !.pc = "live"]]
       ELSE UNCHANGED <<next, runs, rtasks>>
    /\ UNCHANGED <<refreshes, ftasks, current, seen, sheet, budget>>

LiveRun(r) == rtasks[r].pc = "live" /\ ~rtasks[r].lost

FetchForRun(r, s) ==
    /\ LiveRun(r)
    /\ rtasks[r].at[s] = "fetch"
    /\ \E row \in Readings(s) :
          rtasks' = [rtasks EXCEPT ![r].at[s] = "read", ![r].row[s] = row]
    /\ UNCHANGED <<runs, refreshes, ftasks, queue, next, current, seen, sheet,
                   budget>>

\* record_full_observation does not look at the run's status: a run whose
\* lease was taken is stopped by the generations alone.
RecordForRun(r, s) ==
    /\ LiveRun(r)
    /\ rtasks[r].at[s] = "read"
    /\ RecordObservation(s, runs[r].gen[s], rtasks[r].row[s], <<"run", r>>)
    /\ rtasks' = [rtasks EXCEPT ![r].at[s] = "saved", ![r].row[s] = NoRow]
    /\ UNCHANGED <<runs, refreshes, ftasks, queue, next, sheet, budget>>

\* set_run_progress, which is also a heartbeat; a lost lease ends the job, and
\* the other stores' tasks with it.
ProgressOfRun(r, s) ==
    /\ rtasks[r].pc = "live"
    /\ rtasks[r].at[s] = "saved"
    /\ IF runs[r].status = "running"
       THEN /\ runs' = [runs EXCEPT ![r].age = 0]
            /\ rtasks' = [rtasks EXCEPT ![r].at[s] = "done"]
       ELSE /\ rtasks' = [rtasks EXCEPT ![r] = [NoTask EXCEPT !.pc = "failing"]]
            /\ UNCHANGED runs
    /\ UNCHANGED <<refreshes, ftasks, queue, next, current, seen, sheet, budget>>

AbortRun(r) ==
    /\ rtasks[r].pc = "live"
    /\ rtasks[r].lost
    /\ rtasks' = [rtasks EXCEPT ![r] = [NoTask EXCEPT !.pc = "failing"]]
    /\ UNCHANGED <<runs, refreshes, ftasks, queue, next, current, seen, sheet,
                   budget>>

\* asyncio.gather over the stores returned.
AllDone(task) == \A s \in Sites : task.at[s] = "done"

FinalizeRun(r) ==
    /\ LiveRun(r)
    /\ AllDone(rtasks[r])
    /\ IF IsActive(runs[r])
       THEN /\ runs' = [runs EXCEPT ![r].status = "completed", ![r].age = 0]
            /\ rtasks' = [rtasks EXCEPT ![r] = NoTask]
       ELSE /\ rtasks' = [rtasks EXCEPT ![r] = [NoTask EXCEPT !.pc = "failing"]]
            /\ UNCHANGED runs
    /\ UNCHANGED <<refreshes, ftasks, queue, next, current, seen, sheet, budget>>

\* fail_run, from _terminalize_grile_run_after_worker_exit.
FailRun(r) ==
    /\ rtasks[r].pc = "failing"
    /\ runs' = IF IsActive(runs[r])
               THEN [runs EXCEPT ![r].status = "failed", ![r].age = 0]
               ELSE runs
    /\ rtasks' = [rtasks EXCEPT ![r] = NoTask]
    /\ UNCHANGED <<refreshes, ftasks, queue, next, current, seen, sheet, budget>>

CancelRunJob(r) ==
    /\ rtasks[r].pc = "live"
    /\ Spend("cancels")
    /\ rtasks' = [rtasks EXCEPT ![r] = [NoTask EXCEPT !.pc = "failing"]]
    /\ UNCHANGED <<runs, refreshes, ftasks, queue, next, current, seen, sheet>>

HeartbeatOfRun(r) ==
    /\ LiveRun(r)
    /\ IF runs[r].status = "running"
       THEN /\ runs[r].age > 0
            /\ runs' = [runs EXCEPT ![r].age = 0]
            /\ UNCHANGED rtasks
       ELSE /\ rtasks' = [rtasks EXCEPT ![r].lost = TRUE]
            /\ UNCHANGED runs
    /\ UNCHANGED <<refreshes, ftasks, queue, next, current, seen, sheet, budget>>

-----------------------------------------------------------------------------
(* Refreshes of one store *)

\* allocate_generation
Allocated(s) == [next EXCEPT ![s] = @ + 1]

ReserveRefresh(s) ==
    LET table == ReconciledRefreshes({s})
        f == First(Unused(refreshes, NoRefresh)) IN
    /\ Unused(refreshes, NoRefresh) # {}
    /\ IF \E q \in Refreshes : IsActive(table[q]) /\ table[q].site = s
       THEN /\ refreshes' = table
            /\ UNCHANGED <<next, ftasks>>
       ELSE /\ next' = Allocated(s)
            /\ refreshes' = [table EXCEPT ![f] =
                   [NoRefresh EXCEPT !.status = "queued", !.site = s,
                                     !.gen = next'[s], !.asked = sheet[s]]]
            /\ ftasks' = [ftasks EXCEPT ![f].pc = "publishing"]
    /\ UNCHANGED <<runs, rtasks, queue, current, seen, sheet, budget>>

PublishRefresh(f) ==
    /\ ftasks[f].pc = "publishing"
    /\ ftasks' = [ftasks EXCEPT ![f] = NoFetch]
    /\ \/ /\ queue' = queue \cup {<<"refresh", f>>}
          /\ refreshes' = [refreshes EXCEPT ![f].published = "accepted"]
       \/ /\ queue' \in {queue, queue \cup {<<"refresh", f>>}}
          /\ refreshes' = [refreshes EXCEPT ![f].published = "raised"]
       \/ /\ refreshes' =
                 [refreshes EXCEPT ![f].published = "raised",
                     ![f].status = IF @ = "queued" THEN "failed" ELSE @]
          /\ UNCHANGED queue
    /\ UNCHANGED <<runs, rtasks, next, current, seen, sheet, budget>>

ClaimRefresh(f) ==
    /\ <<"refresh", f>> \in queue
    /\ queue' = queue \ {<<"refresh", f>>}
    /\ IF refreshes[f].status = "queued"
       THEN /\ refreshes' = [refreshes EXCEPT ![f].status = "running",
                                              ![f].age = 0]
            /\ ftasks' = [ftasks EXCEPT ![f] = [NoFetch EXCEPT !.pc = "live"]]
       ELSE /\ refreshes' =
                   IF Lapsed(refreshes[f])
                   THEN [refreshes EXCEPT ![f].status = "failed", ![f].age = 0,
                                          ![f].expired = TRUE]
                   ELSE refreshes
            /\ UNCHANGED ftasks
    /\ UNCHANGED <<runs, rtasks, next, current, seen, sheet, budget>>

LiveRefresh(f) == ftasks[f].pc = "live" /\ ~ftasks[f].lost

FetchForRefresh(f) ==
    /\ LiveRefresh(f)
    /\ ftasks[f].at = "fetch"
    /\ \E row \in Readings(refreshes[f].site) :
          ftasks' = [ftasks EXCEPT ![f].at = "read", ![f].row = row]
    /\ UNCHANGED <<runs, rtasks, refreshes, queue, next, current, seen, sheet,
                   budget>>

\* SELECT ... WHERE id = $1 AND status = 'running' FOR UPDATE
HoldsRow(op) == op.status = "running"

\* complete_store_refresh: observation, projection and terminal status in one
\* transaction, or nothing at all.
CompleteRefresh(f) ==
    LET op == refreshes[f]
        row == ftasks[f].row IN
    /\ LiveRefresh(f)
    /\ ftasks[f].at = "read"
    /\ IF HoldsRow(op)
       THEN /\ RecordObservation(op.site, op.gen, row, <<"refresh", f>>)
            /\ refreshes' = [refreshes EXCEPT
                   ![f].status = IF row.ok THEN "completed" ELSE "failed",
                   ![f].age = 0,
                   ![f].applied = current'[op.site] # current[op.site]]
            /\ ftasks' = [ftasks EXCEPT ![f] = NoFetch]
       ELSE /\ ftasks' = [ftasks EXCEPT ![f] = [NoFetch EXCEPT !.pc = "failing"]]
            /\ UNCHANGED <<refreshes, current, seen>>
    /\ UNCHANGED <<runs, rtasks, queue, next, sheet, budget>>

AbortRefresh(f) ==
    /\ ftasks[f].pc = "live"
    /\ ftasks[f].lost
    /\ ftasks' = [ftasks EXCEPT ![f] = [NoFetch EXCEPT !.pc = "failing"]]
    /\ UNCHANGED <<runs, rtasks, refreshes, queue, next, current, seen, sheet,
                   budget>>

CancelRefreshJob(f) ==
    /\ ftasks[f].pc = "live"
    /\ Spend("cancels")
    /\ ftasks' = [ftasks EXCEPT ![f] = [NoFetch EXCEPT !.pc = "cancelled"]]
    /\ UNCHANGED <<runs, rtasks, refreshes, queue, next, current, seen, sheet>>

\* finish_store_refresh: only a row that is still running.
FinishRefresh(f) ==
    /\ ftasks[f].pc \in {"failing", "cancelled"}
    /\ refreshes' =
           IF refreshes[f].status = "running"
           THEN [refreshes EXCEPT ![f].age = 0, ![f].status =
                    IF ftasks[f].pc = "failing" THEN "failed" ELSE "cancelled"]
           ELSE refreshes
    /\ ftasks' = [ftasks EXCEPT ![f] = NoFetch]
    /\ UNCHANGED <<runs, rtasks, queue, next, current, seen, sheet, budget>>

HeartbeatOfRefresh(f) ==
    /\ LiveRefresh(f)
    /\ IF refreshes[f].status = "running"
       THEN /\ refreshes[f].age > 0
            /\ refreshes' = [refreshes EXCEPT ![f].age = 0]
            /\ UNCHANGED ftasks
       ELSE /\ ftasks' = [ftasks EXCEPT ![f].lost = TRUE]
            /\ UNCHANGED refreshes
    /\ UNCHANGED <<runs, rtasks, queue, next, current, seen, sheet, budget>>

-----------------------------------------------------------------------------
(* Reconciliation, time, faults *)

\* run_stale_run_reconciliation_loop, first statement.
ReconcileRuns ==
    /\ ReconciledRuns # runs
    /\ runs' = ReconciledRuns
    /\ UNCHANGED <<rtasks, refreshes, ftasks, queue, next, current, seen, sheet,
                   budget>>

\* Its second statement, and every read of a refresh by the screen.
ReconcileRefreshes(S) ==
    /\ ReconciledRefreshes(S) # refreshes
    /\ refreshes' = ReconciledRefreshes(S)
    /\ UNCHANGED <<runs, rtasks, ftasks, queue, next, current, seen, sheet,
                   budget>>

\* A heartbeat grows old.  A worker that lives through a whole lease without
\* one (a stalled loop, an unreachable database) is a fault.
AgeRun(r) ==
    /\ IsActive(runs[r])
    /\ runs[r].age < 2
    /\ runs' = [runs EXCEPT ![r].age = @ + 1]
    /\ IF rtasks[r].pc = "idle" THEN UNCHANGED budget ELSE Spend("lapses")
    /\ UNCHANGED <<rtasks, refreshes, ftasks, queue, next, current, seen, sheet>>

AgeRefresh(f) ==
    /\ IsActive(refreshes[f])
    /\ refreshes[f].age < 2
    /\ refreshes' = [refreshes EXCEPT ![f].age = @ + 1]
    /\ IF ftasks[f].pc = "idle" THEN UNCHANGED budget ELSE Spend("lapses")
    /\ UNCHANGED <<runs, rtasks, ftasks, queue, next, current, seen, sheet>>

\* The worker process dies: its tasks are gone, rows and queue stay.  ARQ
\* hands an interrupted job out again, where the claim finds it taken.
Crash ==
    /\ Spend("crashes")
    /\ rtasks' = [r \in Runs |-> IF rtasks[r].pc = "publishing"
                                 THEN rtasks[r] ELSE NoTask]
    /\ ftasks' = [f \in Refreshes |-> IF ftasks[f].pc = "publishing"
                                      THEN ftasks[f] ELSE NoFetch]
    /\ UNCHANGED <<runs, refreshes, queue, next, current, seen, sheet>>

EditSheet(s) ==
    /\ sheet[s] < MaxEdits
    /\ sheet' = [sheet EXCEPT ![s] = @ + 1]
    /\ UNCHANGED <<runs, rtasks, refreshes, ftasks, queue, next, current, seen,
                   budget>>

RunStep(r) ==
    \/ PublishRun(r)
    \/ ClaimRun(r)
    \/ \E s \in Sites : \/ FetchForRun(r, s)
                        \/ RecordForRun(r, s)
                        \/ ProgressOfRun(r, s)
    \/ AbortRun(r)
    \/ FinalizeRun(r)
    \/ FailRun(r)

RefreshStep(f) ==
    \/ PublishRefresh(f)
    \/ ClaimRefresh(f)
    \/ FetchForRefresh(f)
    \/ CompleteRefresh(f)
    \/ AbortRefresh(f)
    \/ FinishRefresh(f)

Next ==
    \/ ReserveRun
    \/ ReserveSalesImportRun
    \/ \E s \in Sites : ReserveRefresh(s) \/ EditSheet(s)
    \/ \E r \in Runs : \/ RunStep(r)
                       \/ CancelRunJob(r)
                       \/ HeartbeatOfRun(r)
                       \/ AgeRun(r)
    \/ \E f \in Refreshes : \/ RefreshStep(f)
                            \/ CancelRefreshJob(f)
                            \/ HeartbeatOfRefresh(f)
                            \/ AgeRefresh(f)
    \/ ReconcileRuns
    \/ \E S \in {Sites} \cup {{s} : s \in Sites} : ReconcileRefreshes(S)
    \/ Crash

Spec == Init /\ [][Next]_vars

-----------------------------------------------------------------------------
(* Properties *)

Successes(s) == {o \in seen : o.site = s /\ o.row.ok}

\* The projection is never behind the evidence: no stored success of a store
\* has a later generation than the row the screen shows, however the workers
\* that read it were delayed, retried or expired.
ShownNotSuperseded ==
    \A s \in Sites : \A o \in Successes(s) : current[s].gen >= o.gen

\* A refresh that reports "completed" leaves the screen with a value read
\* after the refresh was asked for: its own, or a later operation's.  (A store
\* whose first row is an error shows no value.)
FreshAfterRefresh ==
    \A f \in Refreshes :
        LET op == refreshes[f] IN
        op.status = "completed" /\ current[op.site].shows
            => current[op.site].ver >= op.asked

\* A refresh whose lease was taken leaves no trace: neither an observation nor
\* a projection, whatever its worker still does.
ExpiredRefreshInert ==
    \A f \in Refreshes :
        refreshes[f].expired =>
            /\ \A o \in seen : o.owner # <<"refresh", f>>
            /\ ~refreshes[f].applied

\* A completed run observed every store with an active sheet, under the
\* generation it was given when it was claimed.
CompletedRunIsWhole ==
    \A r \in Runs :
        runs[r].status = "completed" =>
            \A s \in Sites : \E o \in seen :
                o.site = s /\ o.owner = <<"run", r>> /\ o.gen = runs[r].gen[s]

\* An error never costs the screen its last good value: without a new success
\* the shown value stays, and the generation of the last error only grows.
ErrorKeepsSuccess ==
    \A s \in Sites :
       /\ current'[s].err >= current[s].err
       /\ current[s].shows => current'[s].shows
       /\ current[s].shows /\ Successes(s)' = Successes(s)
             => current'[s].ver = current[s].ver

=============================================================================
