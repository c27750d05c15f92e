---------------------------- MODULE GrileTargets ----------------------------
(***************************************************************************)
(* The agent targets of one month and the operations that compare them     *)
(* with the grile or copy them from the grile: the read-only diff          *)
(* ("dry_run"), the privileged synchronisation ("sync"), and the check,    *)
(* which proves by hash that it left the targets alone.                    *)
(*                                                                         *)
(*   services/grile_worker_jobs.py         grile_agent_targets_background, *)
(*                                         grile_check_background          *)
(*   services/grile_agent_targets.py       diff, applicability, apply      *)
(*   services/grile_agent_target_rules.py  candidates and their resolution *)
(*   repositories/grile_agent_target_sync.py  the table of operations      *)
(*   services/grile_jobs.py                enqueue_grile_target_sync       *)
(*                                                                         *)
(* A target row is the source that manages it and the stamp of its last    *)
(* write; created_at and updated_at are part of the state's hash, so two   *)
(* states have the same hash exactly when no write lies between them.      *)
(***************************************************************************)
EXTENDS Integers, FiniteSets

CONSTANTS Agents,      \* (site, agent) keys
          Sites,       \* sites whose sheet the operation considers
          SiteOf,      \* the site of every key
          MaxOps,      \* rows of grile_agent_target_sync_runs
          MaxForeign,  \* writes of other sources to agent_targets
          MaxLapses,   \* jobs suspended for more than two hours
          MaxFaults    \* failed queries, cancellations and crashes

VARIABLES targets,  \* agent_targets
          stamp,    \* the clock of its writes
          ops,      \* grile_agent_target_sync_runs
          jobs,     \* the worker's job for each operation
          queue,    \* operations whose job is in the queue
          locked,   \* holders of the advisory transaction lock
          check,    \* the grile check job
          budget

vars == <<targets, stamp, ops, jobs, queue, locked, check, budget>>

Ops == 1 .. MaxOps
Modes == {"dry_run", "sync"}
Active == {"queued", "running"}
Absent == [src |-> "none", stamp |-> 0]
Stamps == 0 .. MaxForeign + MaxOps
Table == [Agents -> [src : {"none", "grile", "other"}, stamp : Stamps]]

NoOp == [mode |-> "none", status |-> "none", old |-> FALSE, expired |-> FALSE]
NoTable == [a \in Agents |-> Absent]
NoJob == [pc |-> "idle", before |-> NoTable, plan |-> {}, fit |-> FALSE]
NoCheck == [pc |-> "idle", before |-> NoTable, same |-> TRUE]

TypeOK ==
    /\ targets \in Table
    /\ stamp \in Stamps
    /\ ops \in [Ops -> [mode : Modes \cup {"none"},
                        status : Active \cup {"none", "completed", "failed"},
                        old : BOOLEAN, expired : BOOLEAN]]
    /\ jobs \in [Ops ->
           [pc : {"idle", "publishing", "before", "diff", "decide", "write",
                  "failing"},
            before : Table, plan : SUBSET Agents, fit : BOOLEAN]]
    /\ queue \subseteq Ops
    /\ locked \subseteq Ops /\ Cardinality(locked) <= 1
    /\ check \in [pc : {"idle", "running", "done"}, before : Table,
                  same : BOOLEAN]
    /\ budget \in [foreign : 0 .. MaxForeign, lapses : 0 .. MaxLapses,
                   faults : 0 .. MaxFaults]

Init ==
    /\ targets \in [Agents -> {Absent, [src |-> "grile", stamp |-> 0],
                               [src |-> "other", stamp |-> 0]}]
    /\ stamp = 0
    /\ ops = [o \in Ops |-> NoOp]
    /\ jobs = [o \in Ops |-> NoJob]
    /\ queue = {}
    /\ locked = {}
    /\ check = NoCheck
    /\ budget = [foreign |-> MaxForeign, lapses |-> MaxLapses,
                 faults |-> MaxFaults]

Spend(what) == /\ budget[what] > 0
               /\ budget' = [budget EXCEPT ![what] = @ - 1]

IsActive(op) == op.status \in Active
Foreign(table) == {a \in Agents : table[a].src = "other"}

-----------------------------------------------------------------------------
(* Reservation and publication *)

\* The first statement of reserve: active rows older than two hours, of either
\* mode.  Nothing else gives up an abandoned row.
Expired == [o \in Ops |-> IF IsActive(ops[o]) /\ ops[o].old
                          THEN [ops[o] EXCEPT !.status = "failed", !.old = FALSE,
                                              !.expired = TRUE]
                          ELSE ops[o]]

Reserve(mode) ==
    LET table == Expired
        free == {o \in Ops : ops[o] = NoOp}
        taken == \E o \in Ops : IsActive(table[o]) /\ table[o].mode = mode
        row == CHOOSE o \in free : \A p \in free : o <= p
    IN  /\ IF taken \/ free = {}
           THEN ops' = table /\ UNCHANGED jobs
           ELSE /\ ops' = [table EXCEPT ![row] = [NoOp EXCEPT !.mode = mode,
                                                             !.status = "queued"]]
                /\ jobs' = [jobs EXCEPT ![row].pc = "publishing"]
        /\ UNCHANGED <<targets, stamp, queue, locked, check, budget>>

\* attach_job, then publish: accepted, lost with the row left queued, or
\* refused, which fails a row no worker has claimed.
Publish(o) ==
    /\ jobs[o].pc = "publishing"
    /\ jobs' = [jobs EXCEPT ![o] = NoJob]
    /\ \/ /\ ops[o].status = "queued"
          /\ queue' = queue \cup {o}
          /\ UNCHANGED <<ops, budget>>
       \/ /\ Spend("faults")
          /\ \/ UNCHANGED ops
             \/ ops' = [ops EXCEPT ![o].status = IF @ = "queued" THEN "failed"
                                                 ELSE @]
          /\ UNCHANGED queue
       \/ /\ ops[o].status # "queued"
          /\ UNCHANGED <<ops, queue, budget>>
    /\ UNCHANGED <<targets, stamp, locked, check>>

-----------------------------------------------------------------------------
(* The job *)

Start(o) ==
    /\ o \in queue
    /\ queue' = queue \ {o}
    /\ IF ops[o].status = "queued"
       THEN /\ ops' = [ops EXCEPT ![o].status = "running", ![o].old = FALSE]
            /\ jobs' = [jobs EXCEPT ![o].pc = "before"]
       ELSE UNCHANGED <<ops, jobs>>
    /\ UNCHANGED <<targets, stamp, locked, check, budget>>

ReadBefore(o) ==
    /\ jobs[o].pc = "before"
    /\ jobs' = [jobs EXCEPT ![o].pc = "diff", ![o].before = targets]
    /\ UNCHANGED <<targets, stamp, ops, queue, locked, check, budget>>

\* A sheet may fail to be read, and a candidate may stay unresolved or resolve
\* to an agent that another slot already has.
Readings == [Sites -> {"read", "failed", "doubtful"}]

\* require_applicable_agent_target_sync over the diff: every considered site
\* read, nothing unresolved or duplicate, no site empty, no foreign key.
Applies(reading, plan) ==
    /\ Sites # {}
    /\ \A s \in Sites : /\ reading[s] = "read"
                        /\ \E a \in plan : SiteOf[a] = s
    /\ Foreign(targets) \cap plan = {}

\* sync_agent_targets_from_grile
Diff(o) ==
    /\ jobs[o].pc = "diff"
    /\ \E reading \in Readings, plan \in SUBSET Agents :
          /\ \A a \in plan : reading[SiteOf[a]] # "failed"
          /\ jobs' = [jobs EXCEPT ![o].pc = "decide",
                 ![o].plan = IF Applies(reading, plan) THEN plan ELSE {},
                 ![o].fit = Applies(reading, plan)]
    /\ UNCHANGED <<targets, stamp, ops, queue, locked, check, budget>>

Finished(o) == [ops EXCEPT ![o].status = "completed", ![o].old = FALSE]

\* The read-only diff: the targets are unchanged and the row is still held.
FinishDryRun(o) ==
    /\ jobs[o].pc = "decide"
    /\ ops[o].mode = "dry_run"
    /\ IF targets = jobs[o].before /\ ops[o].status = "running"
       THEN /\ ops' = Finished(o)
            /\ jobs' = [jobs EXCEPT ![o] = NoJob]
       ELSE /\ jobs' = [jobs EXCEPT ![o] = [NoJob EXCEPT !.pc = "failing"]]
            /\ UNCHANGED ops
    /\ UNCHANGED <<targets, stamp, queue, locked, check, budget>>

\* locked_before = before
UnchangedSince(o) == targets = jobs[o].before

\* pg_advisory_xact_lock on the month.
LockFree(o) == locked = {}

\* The advisory lock, the second reading of the state and the second search
\* for keys another source manages.
LockTargets(o) ==
    /\ jobs[o].pc = "decide"
    /\ ops[o].mode = "sync"
    /\ LockFree(o) \/ ~jobs[o].fit
    /\ IF jobs[o].fit /\ UnchangedSince(o) /\ Foreign(targets) \cap jobs[o].plan = {}
       THEN /\ locked' = locked \cup {o}
            /\ jobs' = [jobs EXCEPT ![o].pc = "write"]
       ELSE /\ jobs' = [jobs EXCEPT ![o] = [NoJob EXCEPT !.pc = "failing"]]
            /\ UNCHANGED locked
    /\ UNCHANGED <<targets, stamp, ops, queue, check, budget>>

\* The upsert's WHERE leaves a row of another source alone.
Written(o, now) ==
    [a \in Agents |-> IF targets[a].src = "other" THEN targets[a]
                      ELSE IF a \in jobs[o].plan
                      THEN [src |-> "grile", stamp |-> now]
                      ELSE Absent]

\* Fault: the rows are not read back.
AppliedAssumed(o, table) == TRUE

\* applied = proposed
AppliedExactly(o, table) == \A a \in jobs[o].plan : table[a].src = "grile"

\* finish_on_connection: WHERE id = $1 AND status = 'running'
StillHeld(op) == op.status = "running"

\* The writes, their verification and the audit row: one transaction, which
\* a failed verification or a lost row rolls back.
WriteTargets(o) ==
    LET table == Written(o, stamp + 1) IN
    /\ jobs[o].pc = "write"
    /\ locked' = locked \ {o}
    /\ IF AppliedExactly(o, table) /\ StillHeld(ops[o])
       THEN /\ targets' = table
            /\ stamp' = stamp + 1
            /\ ops' = Finished(o)
            /\ jobs' = [jobs EXCEPT ![o] = NoJob]
       ELSE /\ jobs' = [jobs EXCEPT ![o] = [NoJob EXCEPT !.pc = "failing"]]
            /\ UNCHANGED <<targets, stamp, ops>>
    /\ UNCHANGED <<queue, check, budget>>

Fail(o) ==
    /\ jobs[o].pc = "failing"
    /\ ops' = IF IsActive(ops[o])
              THEN [ops EXCEPT ![o].status = "failed", ![o].old = FALSE]
              ELSE ops
    /\ jobs' = [jobs EXCEPT ![o] = NoJob]
    /\ UNCHANGED <<targets, stamp, queue, locked, check, budget>>

Working(o) == jobs[o].pc \notin {"idle", "publishing"}

\* A query fails: the handler closes the row.
JobFault(o) ==
    /\ Working(o)
    /\ jobs[o].pc # "failing"
    /\ Spend("faults")
    /\ jobs' = [jobs EXCEPT ![o] = [NoJob EXCEPT !.pc = "failing"]]
    /\ locked' = locked \ {o}
    /\ UNCHANGED <<targets, stamp, ops, queue, check>>

\* A cancellation is not an Exception, and a crash is no exception at all: the
\* row stays as it is.
JobLost(o) ==
    /\ Working(o)
    /\ Spend("faults")
    /\ jobs' = [jobs EXCEPT ![o] = NoJob]
    /\ locked' = locked \ {o}
    /\ UNCHANGED <<targets, stamp, ops, queue, check>>

-----------------------------------------------------------------------------
(* The check, other sources, time *)

StartCheck ==
    /\ check.pc = "idle"
    /\ check' = [NoCheck EXCEPT !.pc = "running", !.before = targets]
    /\ UNCHANGED <<targets, stamp, ops, jobs, queue, locked, budget>>

\* The check and the diff read only; the state is compared whatever happened.
EndCheck ==
    /\ check.pc = "running"
    /\ check' = [NoCheck EXCEPT !.pc = "done", !.same = (targets = check.before)]
    /\ UNCHANGED <<targets, stamp, ops, jobs, queue, locked, budget>>

\* Targets kept by another source are inserted, replace the row of the grile,
\* or are removed.
WriteForeign(a) ==
    /\ Spend("foreign")
    /\ stamp' = stamp + 1
    /\ \/ targets' = [targets EXCEPT ![a] = [src |-> "other", stamp |-> stamp']]
       \/ targets[a].src = "other" /\ targets' = [targets EXCEPT ![a] = Absent]
    /\ UNCHANGED <<ops, jobs, queue, locked, check>>

\* Two hours without a heartbeat; jobs last less (ARQ_JOB_TIMEOUT_SECONDS is
\* at most two hours) unless the worker was suspended.
GrowOld(o) ==
    /\ IsActive(ops[o]) /\ ~ops[o].old
    /\ ops' = [ops EXCEPT ![o].old = TRUE]
    /\ IF Working(o) THEN Spend("lapses") ELSE UNCHANGED budget
    /\ UNCHANGED <<targets, stamp, jobs, queue, locked, check>>

JobStep(o) ==
    \/ Publish(o)
    \/ Start(o)
    \/ ReadBefore(o)
    \/ Diff(o)
    \/ FinishDryRun(o)
    \/ LockTargets(o)
    \/ WriteTargets(o)
    \/ Fail(o)

Next ==
    \/ \E mode \in Modes : Reserve(mode)
    \/ \E o \in Ops : JobStep(o) \/ JobFault(o) \/ JobLost(o) \/ GrowOld(o)
    \/ StartCheck
    \/ EndCheck
    \/ \E a \in Agents : WriteForeign(a)

Spec == Init /\ [][Next]_vars

-----------------------------------------------------------------------------
(* Properties *)

Completes(o) == ops[o].status # "completed" /\ ops'[o].status = "completed"

\* A target that another source manages is never changed, taken over or
\* removed by a synchronisation, also when it appears while the
\* synchronisation is between its last look and its writes.
OtherSourcesKept ==
    \A o \in Ops : Completes(o) =>
       \A a \in Foreign(targets) : targets'[a] = targets[a]

\* A completed synchronisation leaves exactly the agents it verified under the
\* management of the grile, and every considered site has one.
SyncIsExact ==
    \A o \in Ops : Completes(o) /\ ops[o].mode = "sync" =>
       /\ {a \in Agents : targets'[a].src = "grile"} = jobs[o].plan
       /\ \A s \in Sites : \E a \in jobs[o].plan : SiteOf[a] = s

\* An operation given up for its age changes no target afterwards: its worker
\* may still run, but the audit row it must close in the same transaction is
\* no longer its own.
ExpiredIsInert ==
    \A o \in Ops : ops[o].expired => ops'[o].status = "failed"

=============================================================================
