-------------------------- MODULE ExportOperations --------------------------
(***************************************************************************)
(* Durable XLSX exports: the web process reserves an operation and         *)
(* publishes an ARQ job, the export worker claims it under a lease, builds *)
(* and stores a private artifact and completes the row, the requester      *)
(* cancels or downloads, and a cleanup loop reconciles, expires and sweeps.*)
(*                                                                         *)
(* Sources: backend/repositories/export_operations.py,                     *)
(* backend/services/export_operations.py, backend/services/                *)
(* export_worker.py, backend/services/job_publication.py, backend/         *)
(* worker.py and migrations 055 and 065.                                   *)
(*                                                                         *)
(* Time is abstracted to what the statements compare: whether the lease    *)
(* has lapsed, the queued row is stale, the TTL has passed and the file is *)
(* older than the orphan grace period.  An operation has at most one       *)
(* artifact key (a fresh uuid), so a file is named by its operation.       *)
(***************************************************************************)
EXTENDS Integers, FiniteSets

CONSTANTS
  Ops,           \* operation ids
  Requesters,    \* OIDC subjects
  RequesterOf,   \* requested_by_sub of each operation
  MaxActive,     \* MAX_ACTIVE_EXPORT_OPERATIONS, 3 in the code
  MaxCrashes     \* bound: worker crashes

ASSUME ExportConstants ==
  /\ RequesterOf \in [Ops -> Requesters]
  /\ "loop" \notin Ops
  /\ MaxActive \in Nat \ {0}
  /\ MaxCrashes \in Nat

VARIABLES
  op,         \* export_operations
  reserving,  \* operations whose reserve transaction is open
  web,        \* per operation: the request handler between commit and reply
  download,   \* per operation: a download between its read and its verdict
  queue,      \* ARQ jobs not yet started
  run,        \* per operation: run_durable_export_job
  ghost,      \* persist threads whose awaiting job has been cancelled
  file,       \* per operation: its artifact in the private directory
  snap,       \* per sweep: the active keys it has read
  loop,       \* where startup or _export_cleanup_loop stands
  due,        \* expired artifacts the loop still has to remove
  worker,     \* "down", "boot" or "up"
  crashes

vars == <<op, reserving, web, download, queue, run, ghost, file, snap, loop,
          due, worker, crashes>>

Active == {"queued", "running"}
Terminal == {"failed", "cancelled", "expired"}
Statuses == {"absent", "completed"} \cup Active \cup Terminal

Row == [status : Statuses, epoch : 0 .. 1, leased : BOOLEAN, stale : BOOLEAN,
        over : BOOLEAN, claimed : BOOLEAN, integrity : BOOLEAN]

NoRow == [status |-> "absent", epoch |-> 0, leased |-> FALSE, stale |-> FALSE,
          over |-> FALSE, claimed |-> FALSE, integrity |-> FALSE]

(* The body of a job, up to its except and finally clauses.                *)
Body == {"build", "persist", "complete", "discard"}
Points == {"idle"} \cup Body \cup {"abort", "fail", "read", "unlink", "done"}

Run == [pc : Points, epoch : 0 .. 1, hb : BOOLEAN, stored : BOOLEAN,
        aborted : BOOLEAN]

NoRun == [pc |-> "idle", epoch |-> 0, hb |-> FALSE, stored |-> FALSE,
          aborted |-> FALSE]

(* A job that has returned; only how it went is remembered.                *)
Returned(r) == [NoRun EXCEPT !.pc = "done", !.aborted = r.aborted]

TypeOK ==
  /\ op \in [Ops -> Row]
  /\ reserving \subseteq Ops
  /\ web \in [Ops -> {"idle", "publish", "fail"}]
  /\ download \in [Ops -> {"idle", "open", "corrupt"}]
  /\ queue \subseteq Ops
  /\ run \in [Ops -> Run]
  /\ ghost \subseteq Ops
  /\ file \in [Ops -> {"none", "young", "old"}]
  /\ snap \in [Ops \cup {"loop"} -> SUBSET Ops]
  /\ loop \in {"reconcile", "expire", "remove", "read", "unlink"}
  /\ due \subseteq Ops
  /\ worker \in {"down", "boot", "up"}
  /\ crashes \in 0 .. MaxCrashes

Init ==
  /\ op = [o \in Ops |-> NoRow]
  /\ reserving = {}
  /\ web = [o \in Ops |-> "idle"]
  /\ download = [o \in Ops |-> "idle"]
  /\ queue = {}
  /\ run = [o \in Ops |-> NoRun]
  /\ ghost = {}
  /\ file = [o \in Ops |-> "none"]
  /\ snap = [a \in Ops \cup {"loop"} |-> {}]
  /\ loop = "reconcile"
  /\ due = {}
  /\ worker = "down"
  /\ crashes = 0

ActiveOps == {o \in Ops : op[o].status \in Active}

jobVars == <<queue, run, ghost, file, snap>>
loopVars == <<loop, due, worker, crashes>>

-----------------------------------------------------------------------------
(* The web process.                                                        *)

(* Fault: the capacity is counted without the advisory lock.               *)
BeginReserveUnlocked(o) ==
  /\ op[o].status = "absent"
  /\ o \notin reserving
  /\ Cardinality(ActiveOps) < MaxActive
  /\ \A p \in ActiveOps : RequesterOf[p] # RequesterOf[o]
  /\ reserving' = reserving \cup {o}
  /\ UNCHANGED <<op, web, download, jobVars, loopVars>>

(* reserve: pg_advisory_xact_lock, the two counts, the INSERT.             *)
BeginReserve(o) ==
  /\ op[o].status = "absent"
  /\ reserving = {}
  /\ Cardinality(ActiveOps) < MaxActive
  /\ \A p \in ActiveOps : RequesterOf[p] # RequesterOf[o]
  /\ reserving' = {o}
  /\ UNCHANGED <<op, web, download, jobVars, loopVars>>

(* uq_export_operations_owner_active would refuse a second active row.     *)
CommitReserve(o) ==
  /\ o \in reserving
  /\ \A p \in ActiveOps : RequesterOf[p] # RequesterOf[o]
  /\ reserving' = reserving \ {o}
  /\ op' = [op EXCEPT ![o].status = "queued"]
  /\ web' = [web EXCEPT ![o] = "publish"]
  /\ UNCHANGED <<download, jobVars, loopVars>>

RollbackReserve(o) ==
  /\ o \in reserving
  /\ reserving' = reserving \ {o}
  /\ UNCHANGED <<op, web, download, jobVars, loopVars>>

(* _reserve_validated after the commit: the job is published (whatever the *)
(* reply), or the outcome is uncertain or the handler gone and nothing was *)
(* published, or publication is known to have failed.                      *)
Publish(o) ==
  /\ web[o] = "publish"
  /\ \/ queue' = queue \cup {o} /\ web' = [web EXCEPT ![o] = "idle"]
     \/ queue' = queue /\ web' = [web EXCEPT ![o] = "idle"]
     \/ queue' = queue /\ web' = [web EXCEPT ![o] = "fail"]
  /\ UNCHANGED <<op, reserving, download, run, ghost, file, snap, loopVars>>

(* Leaving the queue or the worker without an artifact.                    *)
Settled(o, s) == [op EXCEPT ![o].status = s, ![o].leased = FALSE,
                            ![o].stale = FALSE]

(* fail_queued, or the web process dies first.                             *)
FailQueued(o) ==
  /\ web[o] = "fail"
  /\ web' = [web EXCEPT ![o] = "idle"]
  /\ \/ op[o].status = "queued" /\ op' = Settled(o, "failed")
     \/ UNCHANGED op
  /\ UNCHANGED <<reserving, download, jobVars, loopVars>>

CancelOwned(o) ==
  /\ op[o].status \in Active
  /\ op' = Settled(o, "cancelled")
  /\ UNCHANGED <<reserving, web, download, jobVars, loopVars>>

(* download: claim_download_owned, or the read of a row already claimed.   *)
ClaimDownload(o) ==
  /\ download[o] = "idle"
  /\ op[o].status = "completed"
  /\ ~op[o].over
  /\ op' = [op EXCEPT ![o].claimed = TRUE]
  /\ download' = [download EXCEPT ![o] = "open"]
  /\ UNCHANGED <<reserving, web, jobVars, loopVars>>

(* Fault: a file past the orphan grace period is taken for a foreign one.  *)
OpenArtifactYoung(o) ==
  /\ download[o] = "open"
  /\ download' = [download EXCEPT ![o] = IF file[o] = "young" THEN "idle"
                                         ELSE "corrupt"]
  /\ UNCHANGED <<op, reserving, web, jobVars, loopVars>>

(* open_verified_export_artifact, in a thread.                             *)
OpenArtifact(o) ==
  /\ download[o] = "open"
  /\ download' = [download EXCEPT ![o] = IF file[o] = "none" THEN "corrupt"
                                         ELSE "idle"]
  /\ UNCHANGED <<op, reserving, web, jobVars, loopVars>>

(* Fault: the UPDATE of mark_corrupt matches the id only.                  *)
MarkCorruptAny(o) ==
  /\ download[o] = "corrupt"
  /\ download' = [download EXCEPT ![o] = "idle"]
  /\ op' = [op EXCEPT ![o].status = "failed", ![o].integrity = TRUE]
  /\ UNCHANGED <<reserving, web, jobVars, loopVars>>

(* mark_corrupt.  The removal job it publishes finds the file gone.        *)
MarkCorrupt(o) ==
  /\ download[o] = "corrupt"
  /\ download' = [download EXCEPT ![o] = "idle"]
  /\ \/ /\ op[o].status = "completed"
        /\ op' = [op EXCEPT ![o].status = "failed", ![o].integrity = TRUE]
     \/ UNCHANGED op
  /\ UNCHANGED <<reserving, web, jobVars, loopVars>>

Web(o) ==
  \/ BeginReserve(o) \/ CommitReserve(o) \/ RollbackReserve(o)
  \/ Publish(o) \/ FailQueued(o) \/ CancelOwned(o)
  \/ ClaimDownload(o) \/ OpenArtifact(o) \/ MarkCorrupt(o)

-----------------------------------------------------------------------------
(* run_durable_export_job.                                                 *)

webVars == <<reserving, web, download>>

(* The fence of heartbeat, complete and fail_running.                      *)
Fence(o) == op[o].status = "running" /\ op[o].epoch = run[o].epoch

(* ARQ starts the job, once (max_tries = 1), and it claims the row.  The   *)
(* reply may be lost; a row that is no longer queued is left alone.        *)
Claim(o) ==
  /\ worker = "up"
  /\ o \in queue
  /\ queue' = queue \ {o}
  /\ \/ /\ op[o].status = "queued"
        /\ op' = [op EXCEPT ![o].status = "running", ![o].epoch = @ + 1,
                            ![o].leased = TRUE, ![o].stale = FALSE]
        /\ \/ run' = [run EXCEPT ![o].pc = "build", ![o].hb = TRUE,
                                 ![o].epoch = op[o].epoch + 1]
           \/ UNCHANGED run
     \/ UNCHANGED <<op, run>>
  /\ UNCHANGED <<webVars, ghost, file, snap, loopVars>>

(* Entering the except clauses: an exception, the job timeout, a shutdown  *)
(* or the heartbeat.  A persist thread runs on.                            *)
Interrupted(o) ==
  /\ run' = [run EXCEPT ![o].pc = "abort", ![o].aborted = TRUE]
  /\ ghost' = IF run[o].pc = "persist" THEN ghost \cup {o} ELSE ghost

Interrupt(o) ==
  /\ run[o].pc \in Body
  /\ Interrupted(o)
  /\ UNCHANGED <<op, webVars, queue, file, snap, loopVars>>

(* Fault: a renewal counts as another claim.                               *)
HeartbeatReclaiming(o) ==
  /\ run[o].hb
  /\ Fence(o)
  /\ ~op[o].leased
  /\ op' = [op EXCEPT ![o].leased = TRUE, ![o].epoch = @ + 1]
  /\ UNCHANGED <<run, ghost, webVars, queue, file, snap, loopVars>>

(* export_heartbeat_loop: renew, be refused and cancel the job, or die of  *)
(* a database error without telling anyone.                                *)
Heartbeat(o) ==
  /\ run[o].hb
  /\ run[o].pc \in Body \cup {"abort", "fail"}
  /\ \/ /\ Fence(o)
        /\ ~op[o].leased
        /\ op' = [op EXCEPT ![o].leased = TRUE]
        /\ UNCHANGED <<run, ghost>>
     \/ /\ UNCHANGED <<op, ghost>>
        /\ run' = [run EXCEPT ![o].hb = FALSE]
     \/ /\ ~Fence(o)
        /\ run[o].pc \in Body
        /\ Interrupted(o)
        /\ UNCHANGED op
  /\ UNCHANGED <<webVars, queue, file, snap, loopVars>>

Build(o) ==
  /\ run[o].pc = "build"
  /\ run' = [run EXCEPT ![o].pc = "persist"]
  /\ UNCHANGED <<op, webVars, queue, ghost, file, snap, loopVars>>

(* persist_export_artifact: the rename, then execution.stored.             *)
Persist(o) ==
  /\ run[o].pc = "persist"
  /\ file' = [file EXCEPT ![o] = "young"]
  /\ run' = [run EXCEPT ![o].pc = "complete", ![o].stored = TRUE]
  /\ UNCHANGED <<op, webVars, queue, ghost, snap, loopVars>>

(* The thread of a cancelled job renames its file, or fails and unlinks.   *)
GhostPersist(o) ==
  /\ o \in ghost
  /\ ghost' = ghost \ {o}
  /\ \/ file' = [file EXCEPT ![o] = "young"]
     \/ UNCHANGED file
  /\ UNCHANGED <<op, webVars, queue, run, snap, loopVars>>

(* complete under the fence and a live lease.  Its reply may be lost.      *)
Complete(o) ==
  /\ run[o].pc = "complete"
  /\ IF Fence(o) /\ op[o].leased
     THEN /\ op' = [op EXCEPT ![o].status = "completed", ![o].leased = FALSE]
          /\ \/ run' = [run EXCEPT ![o].pc = "read"]
             \/ run' = [run EXCEPT ![o].pc = "abort", ![o].aborted = TRUE]
     ELSE /\ UNCHANGED op
          /\ run' = [run EXCEPT ![o].pc = "discard"]
  /\ UNCHANGED <<webVars, queue, ghost, file, snap, loopVars>>

(* Not completed: remove_export_artifact.                                  *)
Discard(o) ==
  /\ run[o].pc = "discard"
  /\ file' = [file EXCEPT ![o] = "none"]
  /\ run' = [run EXCEPT ![o].pc = "read"]
  /\ UNCHANGED <<op, webVars, queue, ghost, snap, loopVars>>

(* _fail_execution: first the stored file, then the row.  Either await may *)
(* raise.                                                                  *)
AbortRemove(o) ==
  /\ run[o].pc = "abort"
  /\ \/ /\ file' = IF run[o].stored THEN [file EXCEPT ![o] = "none"] ELSE file
        /\ run' = [run EXCEPT ![o].pc = "fail"]
     \/ UNCHANGED file /\ run' = [run EXCEPT ![o].pc = "read"]
  /\ UNCHANGED <<op, webVars, queue, ghost, snap, loopVars>>

FailRunning(o) ==
  /\ run[o].pc = "fail"
  /\ run' = [run EXCEPT ![o].pc = "read"]
  /\ \/ /\ Fence(o)
        /\ \E s \in {"failed", "cancelled"} :
             op' = Settled(o, s)
     \/ UNCHANGED op
  /\ UNCHANGED <<webVars, queue, ghost, file, snap, loopVars>>

(* Fault: the sweep keeps only artifacts nobody has downloaded yet.        *)
ActiveKeysUnclaimed ==
  {o \in Ops : op[o].status = "completed" /\ ~op[o].over /\ ~op[o].claimed}

(* active_artifact_keys.                                                   *)
ActiveKeys == {o \in Ops : op[o].status = "completed" /\ ~op[o].over}

(* Fault: the sweep forgets files whose row is already terminal.           *)
SweptCompletedOnly(keep) ==
  [o \in Ops |-> IF file[o] = "old" /\ o \notin keep
                    /\ op[o].status \notin {"failed", "cancelled"}
                 THEN "none" ELSE file[o]]

(* The rest of sweep_orphan_export_artifacts does not await.               *)
Swept(keep) == [o \in Ops |-> IF file[o] = "old" /\ o \notin keep THEN "none"
                              ELSE file[o]]

(* _finish_execution: the heartbeat is cancelled, the namespace swept.     *)
FinishRead(o) ==
  /\ run[o].pc = "read"
  /\ \/ /\ snap' = [snap EXCEPT ![o] = ActiveKeys]
        /\ run' = [run EXCEPT ![o].pc = "unlink", ![o].hb = FALSE]
     \/ UNCHANGED snap /\ run' = [run EXCEPT ![o] = Returned(@)]
  /\ UNCHANGED <<op, webVars, queue, ghost, file, loopVars>>

FinishUnlink(o) ==
  /\ run[o].pc = "unlink"
  /\ file' = Swept(snap[o])
  /\ snap' = [snap EXCEPT ![o] = {}]
  /\ run' = [run EXCEPT ![o] = Returned(@)]
  /\ UNCHANGED <<op, webVars, queue, ghost, loopVars>>

Job(o) ==
  \/ Build(o) \/ Persist(o) \/ Complete(o) \/ Discard(o)
  \/ AbortRemove(o) \/ FailRunning(o) \/ FinishRead(o) \/ FinishUnlink(o)

-----------------------------------------------------------------------------
(* startup and _export_cleanup_loop: cleanup_export_operations, then       *)
(* sweep_orphan_export_artifacts.                                          *)

(* Fault: a running row whose lease lapsed is not reconciled.              *)
StaleQueuedOnly(r) == r.status = "queued" /\ r.stale

Stale(r) == \/ r.status = "queued" /\ r.stale
            \/ r.status = "running" /\ ~r.leased

Start ==
  /\ worker = "down"
  /\ worker' = "boot"
  /\ UNCHANGED <<op, webVars, jobVars, loop, due, crashes>>

Reconcile ==
  /\ worker # "down"
  /\ loop = "reconcile"
  /\ op' = [o \in Ops |-> IF Stale(op[o])
                          THEN [op[o] EXCEPT !.status = "failed",
                                             !.leased = FALSE,
                                             !.stale = FALSE]
                          ELSE op[o]]
  /\ loop' = "expire"
  /\ UNCHANGED <<webVars, jobVars, due, worker, crashes>>

ClaimExpired ==
  /\ worker # "down"
  /\ loop = "expire"
  /\ due' = {o \in Ops : op[o].status = "completed" /\ op[o].over}
  /\ op' = [o \in Ops |-> IF o \in due' THEN [op[o] EXCEPT !.status = "expired"]
                          ELSE op[o]]
  /\ loop' = "remove"
  /\ UNCHANGED <<webVars, jobVars, worker, crashes>>

RemoveExpired ==
  /\ worker # "down"
  /\ loop = "remove"
  /\ IF due = {}
     THEN loop' = "read" /\ UNCHANGED <<file, due>>
     ELSE \E o \in due : /\ file' = [file EXCEPT ![o] = "none"]
                         /\ due' = due \ {o}
                         /\ UNCHANGED loop
  /\ UNCHANGED <<op, webVars, queue, run, ghost, snap, worker, crashes>>

SweepRead ==
  /\ worker # "down"
  /\ loop = "read"
  /\ snap' = [snap EXCEPT !["loop"] = ActiveKeys]
  /\ loop' = "unlink"
  /\ UNCHANGED <<op, webVars, queue, run, ghost, file, due, worker, crashes>>

(* The first round is part of startup; jobs start after it.                *)
SweepUnlink ==
  /\ worker # "down"
  /\ loop = "unlink"
  /\ file' = Swept(snap["loop"])
  /\ snap' = [snap EXCEPT !["loop"] = {}]
  /\ loop' = "reconcile"
  /\ worker' = "up"
  /\ UNCHANGED <<op, webVars, queue, run, ghost, due, crashes>>

(* A round that raises: the loop logs it and goes on to the next half, but *)
(* startup fails and takes the process down.                               *)
LoopError ==
  /\ worker # "down"
  /\ loop # "unlink"
  /\ loop' = IF worker = "up" /\ loop # "read" THEN "read" ELSE "reconcile"
  /\ worker' = IF worker = "up" THEN "up" ELSE "down"
  /\ due' = {}
  /\ UNCHANGED <<op, webVars, jobVars, crashes>>

(* The worker process dies: jobs, threads and the loop are gone.           *)
Crash ==
  /\ worker # "down"
  /\ crashes < MaxCrashes
  /\ crashes' = crashes + 1
  /\ worker' = "down"
  /\ loop' = "reconcile"
  /\ due' = {}
  /\ ghost' = {}
  /\ snap' = [a \in Ops \cup {"loop"} |-> {}]
  /\ run' = [o \in Ops |-> IF run[o].pc = "idle" THEN run[o]
                           ELSE Returned(run[o])]
  /\ UNCHANGED <<op, webVars, queue, file>>

-----------------------------------------------------------------------------
(* Time.                                                                   *)

LapseLease(o) ==
  /\ op[o].status = "running" /\ op[o].leased
  /\ op' = [op EXCEPT ![o].leased = FALSE]
  /\ UNCHANGED <<webVars, jobVars, loopVars>>

AgeQueued(o) ==
  /\ op[o].status = "queued" /\ ~op[o].stale
  /\ op' = [op EXCEPT ![o].stale = TRUE]
  /\ UNCHANGED <<webVars, jobVars, loopVars>>

PassTTL(o) ==
  /\ op[o].status = "completed" /\ ~op[o].over
  /\ op' = [op EXCEPT ![o].over = TRUE]
  /\ UNCHANGED <<webVars, jobVars, loopVars>>

(* The grace period is at least an hour, the command timeout two minutes:  *)
(* an hour does not pass while complete or the read of a sweep is under    *)
(* way, and the rest of a sweep does not await.                            *)
AgeFile(o) ==
  /\ file[o] = "young"
  /\ run[o].pc # "complete"
  /\ loop # "unlink"
  /\ \A x \in Ops : run[x].pc # "unlink"
  /\ file' = [file EXCEPT ![o] = "old"]
  /\ UNCHANGED <<op, webVars, queue, run, ghost, snap, loopVars>>

Time(o) == LapseLease(o) \/ AgeQueued(o) \/ PassTTL(o) \/ AgeFile(o)

Loop ==
  \/ Start \/ Reconcile \/ ClaimExpired \/ RemoveExpired \/ SweepRead
  \/ SweepUnlink \/ LoopError \/ Crash

Next ==
  \/ \E o \in Ops : \/ Web(o) \/ Claim(o) \/ Interrupt(o) \/ Heartbeat(o)
                    \/ GhostPersist(o) \/ Job(o) \/ Time(o)
  \/ Loop

Spec == Init /\ [][Next]_vars

(* What the platform guarantees: a reserve transaction ends (statement     *)
(* timeout); a started job runs on, at the latest by its job timeout; time *)
(* passes, and a lease nobody renews lapses; systemd restarts the worker;  *)
(* the cleanup round, retried every five minutes, does not fail forever.   *)
(* Nothing is assumed of the web process or of ARQ after the reservation.  *)
Fairness ==
  /\ \A o \in Ops :
       /\ WF_vars(CommitReserve(o) \/ RollbackReserve(o))
       /\ WF_vars(Job(o) \/ Interrupt(o))
       /\ WF_vars(GhostPersist(o))
       /\ WF_vars(LapseLease(o) /\ ~run[o].hb)
       /\ WF_vars(AgeQueued(o))
       /\ WF_vars(PassTTL(o))
       /\ SF_vars(AgeFile(o))
  /\ WF_vars(Start)
  /\ SF_vars(Reconcile) /\ SF_vars(ClaimExpired) /\ SF_vars(RemoveExpired)
  /\ SF_vars(SweepRead) /\ SF_vars(SweepUnlink)

FairSpec == Spec /\ Fairness

-----------------------------------------------------------------------------
(* Properties.                                                             *)

(* The global cap and the one-per-requester rule hold at all times, though *)
(* handlers reserve concurrently and operations become terminal under      *)
(* them (reserve's advisory lock).                                         *)
Capacity ==
  /\ Cardinality(ActiveOps) <= MaxActive
  /\ \A o, p \in ActiveOps : RequesterOf[o] = RequesterOf[p] => o = p

(* What guard_export_operation_transition lets an UPDATE do to a row.      *)
GuardStep ==
  \A o \in Ops :
    LET old == op[o].status
        new == op'[o].status
    IN  op'[o] # op[o] =>
          /\ old \notin Terminal
          /\ old = "completed" => new \in {"completed", "expired", "failed"}
          /\ old = "completed" /\ new = "completed" /\ ~PassTTL(o) =>
               op'[o].claimed /\ ~op[o].claimed
          /\ old = "completed" /\ new = "failed" => op'[o].integrity
          /\ old = "queued" => new \in {"queued", "running", "failed",
                                        "cancelled"}
          /\ old = "running" => new \in {"running", "completed", "failed",
                                         "cancelled"}
          /\ old = "running" /\ new = "running" =>
               op'[o].epoch = op[o].epoch

(* Every UPDATE the repository issues, whatever it races with, is one that *)
(* guard_export_operation_transition accepts: the WHERE clauses never rely *)
(* on the trigger to raise.                                                *)
GuardAccepts == [][GuardStep]_vars

(* A completed operation whose job was not interrupted keeps its artifact  *)
(* until the TTL has passed, whatever sweeps, expiry rounds, restarts and  *)
(* other jobs do in the meantime.                                          *)
ArtifactKept ==
  \A o \in Ops :
    op[o].status = "completed" /\ ~op[o].over /\ ~run[o].aborted =>
      file[o] # "none"

(* A healthy, unexpired artifact is never condemned: mark_corrupt records  *)
(* artifact_integrity_failed only after the job was interrupted or once    *)
(* the TTL has passed, however long a download waits between its database  *)
(* read and its file open.                                                 *)
IntegrityFailureJustified ==
  \A o \in Ops : op[o].integrity => run[o].aborted \/ op[o].over

(* Every artifact is eventually removed: expired, discarded, left by a     *)
(* crash between rename and completion, or written by a thread whose job   *)
(* was already cancelled.                                                  *)
NoArtifactLeak ==
  \A o \in Ops : [](file[o] # "none" => <>(file[o] = "none"))

(* Every reserved operation ends, so its requester is not locked out: also *)
(* when the job was never published, was lost, or its worker died.         *)
EveryOperationEnds ==
  \A o \in Ops : (op[o].status \in Active) ~> (op[o].status \notin Active)

(* An export that merely expired is not recorded as an integrity failure:  *)
(* "La un hash/size invalid, web-ul marcheaza operatia failed" and "expiry *)
(* is claimed in DB first".                                                *)
IntegrityFailureIsReal ==
  \A o \in Ops : op[o].integrity => run[o].aborted

(* "Artefactele completate pot fi descarcate repetat pana la TTL": a       *)
(* completed operation has its artifact until the TTL.                     *)
CompletedDownloadable ==
  \A o \in Ops :
    op[o].status = "completed" /\ ~op[o].over => file[o] # "none"
=============================================================================
