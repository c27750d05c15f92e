----------------------------- MODULE GrileMonthly -----------------------------
(***************************************************************************)
(* The live reset that closes a Grile month: an operation is reserved and  *)
(* queued, a worker backs up every store's Google sheet, clears it, reads  *)
(* it back and commits; on any failure it restores the sheets it touched.  *)
(* Every checkpoint is a row guarded by the operation's owner, epoch and   *)
(* lease.  A reconciler in the same process takes over operations whose    *)
(* lease lapsed and items whose outcome is unknown.                        *)
(*                                                                         *)
(* Sources: backend/repositories/grile_monthly_reservations.py,            *)
(* grile_monthly_lifecycle.py, grile_monthly_reset_items.py,               *)
(* grile_monthly_reconciliation.py, backend/services/grile_jobs.py,        *)
(* grile_worker_jobs.py, grile_monthly_orchestration.py,                   *)
(* grile_monthly_lease.py, grile_monthly_reset_preflight.py,               *)
(* grile_monthly_reset_execution.py, grile_monthly_reset_rollback.py,      *)
(* grile_monthly_reset_google.py, grile_monthly_google.py and              *)
(* grile_monthly_reconciler.py.                                            *)
(*                                                                         *)
(* One month and its live resets are modelled.  Every claim of an          *)
(* operation uses a fresh owner and raises the epoch, so the epoch stands  *)
(* for both; epochs and item fences are only compared for equality, so an  *)
(* increment is a value nobody holds.  Google requests run one at a time,  *)
(* in submission order, in the process's single adapter thread: a request  *)
(* takes effect when it is submitted.                                      *)
(***************************************************************************)
EXTENDS Integers, FiniteSets

CONSTANTS
  NumSites,    \* stores of the month's registry
  MaxOps,      \* bound: operations reserved
  MaxFaults,   \* bound: failed or unanswered database and Google requests
  MaxCancels,  \* bound: job cancellations
  MaxLapses,   \* bound: leases that lapse although their holder is at work
  MaxCrashes   \* bound: restarts of the worker process

VARIABLES
  op,         \* grile_monthly_operations
  item,       \* grile_monthly_reset_items, by operation and store
  archive,    \* the approved archive manifest of the month
  job,        \* operations whose job is in the queue
  sheet,      \* what the editable ranges of each store's sheet hold
  main,       \* per operation: the worker's job
  task,       \* per operation: the reset coroutine it runs
  rec,        \* the reconciler
  failClosed, \* the adapter refuses destructive requests
  budget      \* what is left of the bounded failures

vars == <<op, item, archive, job, sheet, main, task, rec, failClosed, budget>>

Ops == 1 .. MaxOps

Sites == 1 .. NumSites

Contents == {"data", "empty"}

Phases == {"legacy_unknown", "snapshot_persisted", "clear_intent",
           "clear_verified", "rollback_intent", "rollback_verified",
           "recovery_required"}

Classes == {"none", "safe_retry", "rolled_back", "recovery_required"}

OpRow == [status : {"none", "queued", "running", "completed", "failed"},
          epoch : 0 .. 3, lease : {"null", "live", "lapsed"},
          class : Classes]

Fences == 0 .. 3

ItemRow == [status : {"none", "pending", "running", "completed", "error",
                      "uncertain"},
            phase : Phases, fence : Fences, backup : Contents \cup {"none"},
            rollback : {"none", "restored", "failed"}, recovery : BOOLEAN]

NoItem == [status |-> "none", phase |-> "legacy_unknown", fence |-> 0,
           backup |-> "none", rollback |-> "none", recovery |-> FALSE]

NoTask == [pc |-> "none", site |-> 1, epoch |-> 0, fence |-> 0, ok |-> TRUE,
           seen |-> [s \in Sites |-> "none"]]

NoRec == [pc |-> "idle", todo |-> {}, epoch |-> [o \in Ops |-> 0],
          rows |-> [s \in Sites |-> NoItem], sites |-> {}, fence |-> 0,
          ok |-> FALSE, class |-> "safe_retry"]

Init ==
  /\ op = [o \in Ops |-> [status |-> "none", epoch |-> 0, lease |-> "null",
                          class |-> "none"]]
  /\ item = [o \in Ops |-> [s \in Sites |-> NoItem]]
  /\ archive = "approved"
  /\ job = {}
  /\ sheet = [s \in Sites |-> "data"]
  /\ main = [o \in Ops |-> "none"]
  /\ task = [o \in Ops |-> NoTask]
  /\ rec = NoRec
  /\ failClosed = FALSE
  /\ budget = [faults |-> MaxFaults, cancels |-> MaxCancels,
               lapses |-> MaxLapses, crashes |-> MaxCrashes]

\* The worker's coroutine and the reconciler are all that can hold a value.
Fresh(held) == CHOOSE n \in 1 .. 3 : n \notin held

NewEpoch(o) == Fresh({task[o].epoch, rec.epoch[o]})

NewFence(o) == Fresh({task[o].fence, rec.fence})

Spend(kind) ==
  /\ budget[kind] > 0
  /\ budget' = [budget EXCEPT ![kind] = @ - 1]

-----------------------------------------------------------------------------
(* The predicates every guarded UPDATE repeats: the caller's owner and     *)
(* epoch under an unexpired lease, with or without the running status.     *)

Leased(o, e) == op[o].epoch = e /\ op[o].lease = "live"

Holds(o, e) == Leased(o, e) /\ op[o].status = "running"

\* An item the claim and the listing take for reconciliation.
Unsettled(o, r) ==
  \/ r.status = "uncertain"
  \/ r.phase \in {"legacy_unknown", "clear_intent", "rollback_intent"}
  \/ r.recovery
  \/ r.phase = "clear_verified"
     /\ (r.status /= "completed" \/ op[o].status = "running")

Stored(o, s) == item[o][s].status /= "none"

-----------------------------------------------------------------------------
(* Reservation and queue.                                                  *)

\* reserve fences a running operation whose lease lapsed, or that has none
\* and has not been heard of for two hours, before it looks at the month.
Stale(o) == op[o].status = "running" /\ op[o].lease = "lapsed"

Silent(o) == op[o].status = "running" /\ op[o].lease = "null"

FenceItem(r) ==
  IF r.status \in {"running", "completed", "uncertain"}
     /\ r.rollback /= "restored"
  THEN [r EXCEPT !.status = "uncertain", !.phase = "recovery_required",
                 !.recovery = TRUE, !.rollback = "failed"]
  ELSE r

FencedItems(old) ==
  [o \in Ops |-> IF o \in old THEN [s \in Sites |-> FenceItem(item[o][s])]
                 ELSE item[o]]

FencedOps(old) ==
  [o \in Ops |-> IF o \in old
                 THEN [op[o] EXCEPT !.status = "failed", !.lease = "null",
                                    !.class = "recovery_required"]
                 ELSE op[o]]

\* _live_reset_gate, over the rows the fencing leaves.
ResetGate(ops, items) ==
  /\ \A o \in Ops : ops[o].status /= "completed"
  /\ archive = "approved"
  /\ \A o \in Ops, s \in Sites :
       LET r == items[o][s] IN
       r.status /= "none" =>
         /\ r.status \notin {"uncertain", "completed"}
         /\ r.rollback /= "failed"
         /\ r.phase /= "legacy_unknown"
         /\ ~ r.recovery

Reserve ==
  /\ \E old \in SUBSET {o \in Ops : Stale(o) \/ Silent(o)} :
       /\ \A o \in Ops : Stale(o) => o \in old
       /\ LET ops == FencedOps(old) items == FencedItems(old) IN
          /\ item' = items
          /\ \/ /\ \A o \in Ops : ops[o].status \notin {"queued", "running"}
                /\ ResetGate(ops, items)
                /\ \E o \in Ops :
                     /\ ops[o].status = "none"
                     /\ \A p \in Ops : p < o => ops[p].status /= "none"
                     /\ op' = [ops EXCEPT ![o].status = "queued"]
             \/ /\ old /= {}
                /\ \/ \E o \in Ops : ops[o].status \in {"queued", "running"}
                   \/ ~ ResetGate(ops, items)
                /\ op' = ops
  /\ UNCHANGED <<archive, job, sheet, main, task, rec, failClosed, budget>>

\* The job is published under an identifier stored beforehand.  A refused
\* publication fails the queued row; an unanswered one is left as it is,
\* with or without the job in the queue.
Publish(o) ==
  /\ op[o].status = "queued" /\ o \notin job /\ main[o] = "none"
  /\ \/ job' = job \cup {o} /\ UNCHANGED <<op, main, budget>>
     \/ /\ Spend("faults")
        /\ op' = [op EXCEPT ![o].status = "failed"]
        /\ job' \in {job, job \cup {o}}
        /\ UNCHANGED main
     \/ /\ Spend("faults")
        /\ main' = [main EXCEPT ![o] = "unpublished"]
        /\ UNCHANGED <<op, job>>
  /\ UNCHANGED <<item, archive, sheet, task, rec, failClosed>>

-----------------------------------------------------------------------------
(* The worker's job.                                                       *)

Start(o) ==
  /\ o \in job /\ main[o] = "none"
  /\ job' = job \ {o}
  /\ \/ /\ op[o].status = "queued"
        /\ op' = [op EXCEPT ![o].status = "running", ![o].lease = "live",
                            ![o].epoch = NewEpoch(o), ![o].class = "none"]
        /\ main' = [main EXCEPT ![o] = "run"]
        /\ task' = [task EXCEPT ![o] = [NoTask EXCEPT !.pc = "ensure",
                                                      !.epoch = NewEpoch(o)]]
     \/ /\ op[o].status /= "queued"
        /\ main' = [main EXCEPT ![o] = "done"]
        /\ UNCHANGED <<op, task>>
  /\ UNCHANGED <<item, archive, sheet, rec, failClosed, budget>>

\* heartbeat renews the lease for as long as the monitor of run_with_lease
\* keeps up, and a reconciliation pass is short: a lease that lapses under
\* its holder is a fault.  A lease nobody attends to lapses.
Lapse(o) ==
  /\ op[o].lease = "live"
  /\ op' = [op EXCEPT ![o].lease = "lapsed"]
  /\ \/ /\ main[o] = "run" \/ o \in rec.todo
        /\ Spend("lapses")
     \/ /\ main[o] /= "run" /\ o \notin rec.todo
        /\ op[o].status = "running" \/ task[o].pc /= "none"
        /\ UNCHANGED budget
  /\ UNCHANGED <<item, archive, job, sheet, main, task, rec, failClosed>>

RollingBack == {"rbPrepare", "rbRestore", "rbConfirm"}

Working == {"ensure", "read", "record", "claim", "prepare", "clear", "verify",
            "confirm", "report"}

\* The monitor of run_with_lease finds the lease gone and cancels the reset.
\* A rollback it was in goes on, shielded; one it starts now finds every
\* checkpoint fenced and restores nothing.
MonitorCancels(o) ==
  /\ main[o] = "run" /\ task[o].pc \in Working
  /\ ~ Holds(o, task[o].epoch)
  /\ task' = [task EXCEPT ![o].pc = "ended"]
  /\ UNCHANGED <<op, item, archive, job, sheet, main, rec, failClosed, budget>>

\* The job is cancelled while it waits in run_with_lease: the monitor is
\* stopped, the reset coroutine is not and runs on by itself.
Cancel(o) ==
  /\ main[o] \in {"run", "rollback"}
  /\ Spend("cancels")
  /\ main' = [main EXCEPT ![o] = IF @ = "run" THEN "cancelled" ELSE "finishing"]
  /\ UNCHANGED <<op, item, archive, job, sheet, task, rec, failClosed>>

\* The job is over; so is its coroutine if it had ended.
Over(o) ==
  /\ main' = [main EXCEPT ![o] = "done"]
  /\ task' = [task EXCEPT ![o] = IF @.pc = "ended" THEN NoTask ELSE @]

\* The handler of the cancellation stores an uncertain manifest and finishes
\* the operation, unless it is cancelled in its turn.
CancelFinish(o) ==
  /\ main[o] = "cancelled"
  /\ \/ /\ op' = IF Holds(o, task[o].epoch)
                 THEN [op EXCEPT ![o].status = "failed"] ELSE op
        /\ Over(o)
        /\ UNCHANGED budget
     \/ /\ Spend("cancels")
        /\ main' = [main EXCEPT ![o] = "uncertain"]
        /\ UNCHANGED <<op, task>>
  /\ UNCHANGED <<item, archive, job, sheet, rec, failClosed>>

CancelledItem(r) ==
  IF r.status \in {"running", "completed"} /\ r.rollback /= "restored"
  THEN [r EXCEPT !.status = "uncertain", !.recovery = TRUE,
                 !.rollback = "failed",
                 !.phase = IF @ \in {"clear_intent", "clear_verified",
                                     "rollback_intent"}
                           THEN "recovery_required" ELSE @]
  ELSE r

\* get_execution_lease, then mark_cancelled_uncertain under the same lease.
MarkCancelledUncertain(o) ==
  /\ main[o] = "uncertain"
  /\ Over(o)
  /\ IF Holds(o, task[o].epoch)
     THEN /\ item' = [item EXCEPT ![o] = [s \in Sites |-> CancelledItem(@[s])]]
          /\ op' = [op EXCEPT ![o].status = "failed"]
     ELSE UNCHANGED <<item, op>>
  /\ UNCHANGED <<archive, job, sheet, rec, failClosed, budget>>

\* The reset ended without success: its manifest is stored and the operation
\* finished, both under the lease; the fault stands for a database outage.
FinishFailed(o) ==
  /\ \/ main[o] \in {"run", "rollback"} /\ task[o].pc = "ended"
     \/ main[o] = "finishing"
  /\ Over(o)
  /\ \/ /\ op' = IF Holds(o, task[o].epoch)
                 THEN [op EXCEPT ![o].status = "failed"] ELSE op
        /\ UNCHANGED budget
     \/ Spend("faults") /\ UNCHANGED op
  /\ UNCHANGED <<item, archive, job, sheet, rec, failClosed>>

\* finish_reset_success: the reset's manifest, the operation and the
\* archive's consumption in one transaction.  Any exception, one that hides
\* a commit included, starts the rollback of every store.
FinishResetSuccess(o) ==
  /\ main[o] = "run" /\ task[o].pc = "success"
  /\ LET guard == Holds(o, task[o].epoch) /\ archive = "approved"
         commit == /\ op' = [op EXCEPT ![o].status = "completed"]
                   /\ archive' = "consumed"
         rollback == /\ main' = [main EXCEPT ![o] = "rollback"]
                     /\ task' = [task EXCEPT ![o].pc = "rbPrepare",
                                             ![o].site = NumSites]
     IN \/ /\ guard /\ commit
           /\ main' = [main EXCEPT ![o] = "done"]
           /\ task' = [task EXCEPT ![o] = NoTask]
           /\ UNCHANGED budget
        \/ guard /\ Spend("faults") /\ commit /\ rollback
        \/ /\ \/ ~ guard /\ UNCHANGED budget
              \/ Spend("faults")
           /\ rollback
           /\ UNCHANGED <<op, archive>>
  /\ UNCHANGED <<item, job, sheet, rec, failClosed>>

-----------------------------------------------------------------------------
(* The reset coroutine: back up every store, then clear them one by one.   *)

\* A guarded UPDATE of one item: applied and answered; applied, the answer
\* lost; or not applied, because the guard is false or the request failed.
Stores(o, s, guard, row, good, fenced, error) ==
  /\ \/ guard /\ item' = [item EXCEPT ![o][s] = row] /\ good /\ UNCHANGED budget
     \/ guard /\ item' = [item EXCEPT ![o][s] = row] /\ error /\ Spend("faults")
     \/ ~ guard /\ UNCHANGED <<item, budget>> /\ fenced
     \/ UNCHANGED item /\ Spend("faults") /\ error

\* A coroutine that ended with nobody waiting for it is forgotten.
Goes(o, pc) ==
  task' = [task EXCEPT ![o] = IF pc = "ended" /\ main[o] = "done" THEN NoTask
                              ELSE [@ EXCEPT !.pc = pc]]

OthersOfTask == <<op, archive, job, sheet, main, rec, failClosed>>

EnsureResetItems(o) ==
  /\ task[o].pc = "ensure"
  /\ item' = IF Holds(o, task[o].epoch)
             THEN [item EXCEPT ![o] = [s \in Sites |->
                                         [NoItem EXCEPT !.status = "pending"]]]
             ELSE item
  /\ Goes(o, "read")
  /\ UNCHANGED <<OthersOfTask, budget>>

ReadSnapshot(o) ==
  /\ task[o].pc = "read"
  /\ \/ /\ task' = [task EXCEPT ![o].pc = "record",
                                ![o].seen[task[o].site] = sheet[task[o].site]]
        /\ UNCHANGED budget
     \/ Spend("faults") /\ Goes(o, "ended")
  /\ UNCHANGED <<OthersOfTask, item>>

RecordBackup(o) ==
  /\ task[o].pc = "record"
  /\ LET s == task[o].site
         r == item[o][s]
     IN Stores(o, s,
               /\ Holds(o, task[o].epoch)
               /\ r.status = "pending" /\ r.backup = "none",
               [r EXCEPT !.backup = task[o].seen[s],
                         !.phase = "snapshot_persisted", !.recovery = FALSE],
               task' = [task EXCEPT ![o].pc = IF s = NumSites THEN "claim"
                                              ELSE "read",
                                    ![o].site = IF s = NumSites THEN 1
                                                ELSE s + 1],
               Goes(o, "ended"), Goes(o, "ended"))
  /\ UNCHANGED OthersOfTask

ClaimResetItem(o) ==
  /\ task[o].pc = "claim"
  /\ LET s == task[o].site
         r == item[o][s]
     IN Stores(o, s, Holds(o, task[o].epoch) /\ r.status = "pending",
               [r EXCEPT !.status = "running", !.fence = NewFence(o)],
               Goes(o, "prepare"), Goes(o, "rbPrepare"), Goes(o, "rbPrepare"))
  /\ UNCHANGED OthersOfTask

PrepareResetClear(o) ==
  /\ task[o].pc = "prepare"
  /\ LET s == task[o].site
         r == item[o][s]
     IN Stores(o, s,
               /\ Holds(o, task[o].epoch) /\ r.status = "running"
               /\ r.phase = "snapshot_persisted" /\ r.backup /= "none",
               [r EXCEPT !.phase = "clear_intent", !.fence = NewFence(o)],
               task' = [task EXCEPT ![o].pc = "clear",
                                    ![o].fence = NewFence(o)],
               Goes(o, "rbPrepare"), Goes(o, "rbPrepare"))
  /\ UNCHANGED OthersOfTask

\* A destructive request runs once; a timeout closes the adapter to others.
GoogleClear(o) ==
  /\ task[o].pc = "clear"
  /\ \/ /\ ~ failClosed
        /\ sheet' = [sheet EXCEPT ![task[o].site] = "empty"]
        /\ Goes(o, "verify")
        /\ UNCHANGED <<failClosed, budget>>
     \/ /\ ~ failClosed /\ Spend("faults")
        /\ sheet' \in {sheet, [sheet EXCEPT ![task[o].site] = "empty"]}
        /\ failClosed' \in BOOLEAN
        /\ Goes(o, "rbPrepare")
     \/ /\ failClosed
        /\ Goes(o, "rbPrepare")
        /\ UNCHANGED <<sheet, failClosed, budget>>
  /\ UNCHANGED <<op, item, archive, job, main, rec>>

VerifyCleared(o) ==
  /\ task[o].pc = "verify"
  /\ \/ /\ Goes(o, IF sheet[task[o].site] = "empty" THEN "confirm"
                   ELSE "rbPrepare")
        /\ UNCHANGED budget
     \/ Spend("faults") /\ Goes(o, "rbPrepare")
  /\ UNCHANGED <<OthersOfTask, item>>

ConfirmResetClear(o) ==
  /\ task[o].pc = "confirm"
  /\ LET s == task[o].site
         r == item[o][s]
     IN Stores(o, s,
               /\ Holds(o, task[o].epoch)
               /\ r.fence = task[o].fence /\ r.phase = "clear_intent",
               [r EXCEPT !.phase = "clear_verified", !.status = "completed",
                         !.recovery = FALSE],
               task' = [task EXCEPT ![o].pc = IF s = NumSites THEN "report"
                                              ELSE "claim",
                                    ![o].site = IF s = NumSites THEN s
                                                ELSE s + 1],
               Goes(o, "rbPrepare"), Goes(o, "rbPrepare"))
  /\ UNCHANGED OthersOfTask

\* _build_live_execution writes and verifies the report.
ResetReport(o) ==
  /\ task[o].pc = "report"
  /\ \/ Goes(o, "success") /\ UNCHANGED budget
     \/ Spend("faults") /\ Goes(o, "rbPrepare")
  /\ UNCHANGED <<OthersOfTask, item>>

-----------------------------------------------------------------------------
(* The rollback, from the last store touched to the first.                 *)

RollbackGuard(o, e, r) ==
  /\ Leased(o, e)
  /\ r.phase \in {"clear_intent", "clear_verified", "recovery_required"}
  /\ r.status \in {"running", "completed", "uncertain"}
  /\ r.backup /= "none"

RollbackIntent(o, r) ==
  [r EXCEPT !.phase = "rollback_intent", !.fence = NewFence(o)]

Restored(r, restored) ==
  IF restored
  THEN [r EXCEPT !.phase = "rollback_verified", !.status = "error",
                 !.rollback = "restored", !.recovery = FALSE]
  ELSE [r EXCEPT !.phase = "recovery_required", !.status = "uncertain",
                 !.rollback = "failed", !.recovery = TRUE]

\* The next store of the rollback, or its end.
NextStore(o) ==
  IF task[o].site = 1 THEN Goes(o, "ended")
  ELSE task' = [task EXCEPT ![o].pc = "rbPrepare", ![o].site = @ - 1]

PrepareResetRollback(o) ==
  /\ task[o].pc = "rbPrepare"
  /\ LET s == task[o].site
         r == item[o][s]
     IN Stores(o, s, RollbackGuard(o, task[o].epoch, r), RollbackIntent(o, r),
               task' = [task EXCEPT ![o].pc = "rbRestore",
                                    ![o].fence = NewFence(o)],
               NextStore(o), Goes(o, "ended"))
  /\ UNCHANGED OthersOfTask

\* restore_snapshot_async writes the values of a snapshot that has some and
\* reads the sheet back.
Restores(s, snapshot, restored) ==
  \/ /\ snapshot = "data" /\ ~ failClosed /\ restored
     /\ sheet' = [sheet EXCEPT ![s] = "data"]
     /\ UNCHANGED <<failClosed, budget>>
  \/ /\ snapshot = "empty" /\ restored = (sheet[s] = "empty")
     /\ UNCHANGED <<sheet, failClosed, budget>>
  \/ /\ ~ restored /\ Spend("faults") /\ ~ failClosed
     /\ sheet' \in {sheet, [sheet EXCEPT ![s] = IF snapshot = "data" THEN "data"
                                                ELSE @]}
     /\ failClosed' \in BOOLEAN
  \/ /\ ~ restored /\ failClosed /\ snapshot = "data"
     /\ UNCHANGED <<sheet, failClosed, budget>>

RestoreEntry(o) ==
  /\ task[o].pc = "rbRestore"
  /\ \E restored \in BOOLEAN :
       /\ Restores(task[o].site, task[o].seen[task[o].site], restored)
       /\ task' = [task EXCEPT ![o].pc = "rbConfirm", ![o].ok = restored]
  /\ UNCHANGED <<op, item, archive, job, main, rec>>

ConfirmResetRollback(o) ==
  /\ task[o].pc = "rbConfirm"
  /\ LET s == task[o].site
         r == item[o][s]
     IN Stores(o, s,
               /\ Leased(o, task[o].epoch)
               /\ r.fence = task[o].fence /\ r.phase = "rollback_intent",
               Restored(r, task[o].ok),
               NextStore(o), NextStore(o), Goes(o, "ended"))
  /\ UNCHANGED OthersOfTask

-----------------------------------------------------------------------------
(* The reconciler.  A pass claims every candidate at once, under a new     *)
(* owner and epoch, and then treats them one by one: it reads the rows of  *)
(* an operation once and works through them in order.                      *)

Candidate(o) ==
  \/ op[o].status = "running" /\ op[o].lease /= "live"
  \/ /\ op[o].status \notin {"none", "running"}
     /\ \E s \in Sites : Stored(o, s) /\ Unsettled(o, item[o][s])

Least(S) == CHOOSE x \in S : \A y \in S : x <= y

RecOp == Least(rec.todo)

RecEpoch == rec.epoch[RecOp]

RecSite == Least(rec.sites)

OthersOfRec == <<archive, job, main, task>>

ClaimCandidates ==
  /\ rec.pc = "idle"
  /\ LET taken == {o \in Ops : Candidate(o)} IN
     /\ taken /= {}
     /\ op' = [o \in Ops |-> IF o \in taken
                             THEN [op[o] EXCEPT !.epoch = NewEpoch(o),
                                                !.lease = "live"]
                             ELSE op[o]]
     /\ rec' = [NoRec EXCEPT !.pc = "list", !.todo = taken,
                             !.epoch = [o \in Ops |-> IF o \in taken
                                                      THEN NewEpoch(o)
                                                      ELSE 0]]
  /\ UNCHANGED <<OthersOfRec, item, sheet, failClosed, budget>>

ListItems ==
  /\ rec.pc = "list"
  /\ LET listed == {s \in Sites : /\ Stored(RecOp, s)
                                  /\ Unsettled(RecOp, item[RecOp][s])} IN
     rec' = [rec EXCEPT !.pc = "item", !.sites = listed,
                        !.class = "safe_retry",
                        !.rows = [s \in Sites |-> IF s \in listed
                                                  THEN item[RecOp][s]
                                                  ELSE NoItem]]
  /\ UNCHANGED <<OthersOfRec, op, item, sheet, failClosed, budget>>

RecGoes(pc) == rec' = [rec EXCEPT !.pc = pc]

\* _operation_classification: the worst of the items' classes.
Worst(class) ==
  IF "recovery_required" \in {rec.class, class} THEN "recovery_required"
  ELSE IF "rolled_back" \in {rec.class, class} THEN "rolled_back"
  ELSE "safe_retry"

ItemDone(class) ==
  rec' = [rec EXCEPT !.pc = "item", !.sites = @ \ {RecSite},
                     !.rows[RecSite] = NoItem, !.class = Worst(class),
                     !.fence = 0, !.ok = FALSE]

\* _classify_snapshot: the backup against what the sheet holds now.
ClassifyItem ==
  /\ rec.pc = "item" /\ rec.sites /= {}
  /\ LET r == rec.rows[RecSite] IN
     \/ /\ RecGoes(IF r.phase = "legacy_unknown" \/ r.backup = "none"
                   THEN "recover"
                   ELSE IF sheet[RecSite] = r.backup
                   THEN IF r.phase = "snapshot_persisted" THEN "safe"
                        ELSE "restored"
                   ELSE IF sheet[RecSite] = "empty" THEN "cleared"
                   ELSE "recover")
        /\ UNCHANGED budget
     \/ Spend("faults") /\ RecGoes("recover")
  /\ UNCHANGED <<OthersOfRec, op, item, sheet, failClosed>>

MarkItemSafeRetry ==
  /\ rec.pc = "safe"
  /\ LET r == item[RecOp][RecSite] IN
     Stores(RecOp, RecSite,
            Leased(RecOp, RecEpoch) /\ r.phase = "snapshot_persisted",
            [r EXCEPT !.status = "error", !.recovery = FALSE],
            ItemDone("safe_retry"), RecGoes("recover"), RecGoes("recover"))
  /\ UNCHANGED <<OthersOfRec, op, sheet, failClosed>>

\* _already_restored and _restore_cleared begin with the same intent; only
\* the second leaves the item as it is when the intent is refused.
ReconcilePrepare ==
  /\ rec.pc \in {"restored", "cleared"}
  /\ LET r == item[RecOp][RecSite] IN
     Stores(RecOp, RecSite, RollbackGuard(RecOp, RecEpoch, r),
            RollbackIntent(RecOp, r),
            rec' = [rec EXCEPT !.pc = IF @ = "cleared" THEN "restore"
                                      ELSE "confirm",
                               !.ok = rec.pc = "restored",
                               !.fence = NewFence(RecOp)],
            IF rec.pc = "cleared" THEN ItemDone("recovery_required")
            ELSE RecGoes("recover"),
            RecGoes("recover"))
  /\ UNCHANGED <<OthersOfRec, op, sheet, failClosed>>

ReconcileRestore ==
  /\ rec.pc = "restore"
  /\ \E restored \in BOOLEAN :
       /\ Restores(RecSite, rec.rows[RecSite].backup, restored)
       /\ rec' = [rec EXCEPT !.pc = "confirm", !.ok = restored]
  /\ UNCHANGED <<OthersOfRec, op, item>>

ReconcileConfirm ==
  /\ rec.pc = "confirm"
  /\ LET r == item[RecOp][RecSite] IN
     Stores(RecOp, RecSite,
            /\ Leased(RecOp, RecEpoch)
            /\ r.fence = rec.fence /\ r.phase = "rollback_intent",
            Restored(r, rec.ok),
            IF rec.ok THEN ItemDone("rolled_back") ELSE RecGoes("recover"),
            RecGoes("recover"), RecGoes("recover"))
  /\ UNCHANGED <<OthersOfRec, op, sheet, failClosed>>

\* mark_item_recovery_required; an exception ends the pass.
MarkItemRecovery ==
  /\ rec.pc = "recover"
  /\ LET r == item[RecOp][RecSite] IN
     Stores(RecOp, RecSite,
            Leased(RecOp, RecEpoch) /\ r.phase /= "rollback_verified",
            [r EXCEPT !.status = "uncertain", !.phase = "recovery_required",
                      !.recovery = TRUE],
            ItemDone("recovery_required"), ItemDone("recovery_required"),
            rec' = NoRec)
  /\ UNCHANGED <<OthersOfRec, op, sheet, failClosed>>

OpDone ==
  rec' = IF rec.todo = {RecOp} THEN NoRec
         ELSE [rec EXCEPT !.pc = "list", !.todo = @ \ {RecOp},
                          !.epoch[RecOp] = 0]

MarkReconciliationResult ==
  /\ rec.pc = "item" /\ rec.sites = {}
  /\ op' = IF Leased(RecOp, RecEpoch)
           THEN [op EXCEPT ![RecOp].class = rec.class, ![RecOp].lease = "null",
                           ![RecOp].status =
                             IF @ = "running"
                                /\ rec.class /= "recovery_required"
                             THEN "failed" ELSE @]
           ELSE op
  /\ OpDone
  /\ UNCHANGED <<OthersOfRec, item, sheet, failClosed, budget>>

\* The worker process dies and is started again.
Restart ==
  /\ Spend("crashes")
  /\ main' = [o \in Ops |-> IF main[o] \in {"none", "unpublished"} THEN main[o]
                            ELSE "done"]
  /\ task' = [o \in Ops |-> NoTask]
  /\ rec' = NoRec
  /\ failClosed' = FALSE
  /\ UNCHANGED <<op, item, archive, job, sheet>>

-----------------------------------------------------------------------------

MainStep(o) ==
  \/ Start(o) \/ MonitorCancels(o) \/ CancelFinish(o)
  \/ MarkCancelledUncertain(o) \/ FinishFailed(o) \/ FinishResetSuccess(o)

TaskStep(o) ==
  \/ EnsureResetItems(o) \/ ReadSnapshot(o) \/ RecordBackup(o)
  \/ ClaimResetItem(o) \/ PrepareResetClear(o) \/ GoogleClear(o)
  \/ VerifyCleared(o) \/ ConfirmResetClear(o) \/ ResetReport(o)
  \/ PrepareResetRollback(o) \/ RestoreEntry(o) \/ ConfirmResetRollback(o)

Reconcile ==
  \/ ClaimCandidates \/ ListItems \/ ClassifyItem \/ MarkItemSafeRetry
  \/ ReconcilePrepare \/ ReconcileRestore \/ ReconcileConfirm
  \/ MarkItemRecovery \/ MarkReconciliationResult

Next ==
  \/ Reserve
  \/ \E o \in Ops : Publish(o) \/ Lapse(o) \/ Cancel(o)
  \/ \E o \in Ops : MainStep(o) \/ TaskStep(o)
  \/ Reconcile
  \/ Restart

Spec == Init /\ [][Next]_vars

-----------------------------------------------------------------------------

Pcs == Working \cup RollingBack \cup {"none", "success", "ended"}

TypeOK ==
  /\ op \in [Ops -> OpRow]
  /\ item \in [Ops -> [Sites -> ItemRow]]
  /\ archive \in {"approved", "consumed"}
  /\ job \subseteq Ops
  /\ sheet \in [Sites -> Contents]
  /\ \A o \in Ops :
       /\ main[o] \in {"none", "unpublished", "run", "rollback", "cancelled",
                       "finishing", "uncertain", "done"}
       /\ task[o].pc \in Pcs /\ task[o].site \in Sites
       /\ task[o].fence \in Fences
  /\ rec.todo \subseteq Ops /\ rec.sites \subseteq Sites
  /\ (rec.pc = "idle") = (rec.todo = {})
  /\ failClosed \in BOOLEAN

\* What a cleared sheet held can be restored: some operation's item of the
\* store has a persisted backup of the data.
DataRecoverable ==
  \A s \in Sites : sheet[s] = "empty" =>
    \E o \in Ops : item[o][s].backup = "data"

\* An operation completes only with every store's clear verified, whatever
\* the reconciler did to its items in the meantime, and consumes the
\* approval it ran under.
CommitsWhatWasVerified ==
  \A o \in Ops :
    op[o].status /= "completed" /\ op'[o].status = "completed" =>
      /\ \A s \in Sites : /\ item[o][s].phase = "clear_verified"
                          /\ item[o][s].status = "completed"
      /\ archive = "approved" /\ archive' = "consumed"

\* A store recorded as restored stays recorded so: no late worker, stale
\* reconciliation pass or reservation reopens it.
RestoredIsFinal ==
  \A o \in Ops, s \in Sites :
    item[o][s].rollback = "restored" => item'[o][s] = item[o][s]

\* A store recorded as restored by the last reset of the month holds its
\* backup.  Checked while no lease lapses under its holder: a clear is sent
\* after its intent is stored, without a second look at the lease.
RestoredHoldsBackup ==
  \A o \in Ops, s \in Sites :
    /\ item[o][s].rollback = "restored"
    /\ \A p \in Ops : p > o => op[p].status = "none"
    => sheet[s] = item[o][s].backup

=============================================================================
