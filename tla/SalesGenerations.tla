--------------------------- MODULE SalesGenerations ---------------------------
(***************************************************************************)
(* The monthly sales import: an uploaded file is spooled and queued, the   *)
(* import worker reserves a snapshot, stages and validates its rows and    *)
(* retains the source file; a promotion job claims the validated snapshot  *)
(* and replaces the live rows by moving the month's head; a rollback       *)
(* clones the predecessor; the worker's startup repairs what a crash left. *)
(*                                                                         *)
(* Sources: backend/services/importer.py, sales_import_worker.py,          *)
(* sales_import_storage.py, sales_generation_flow.py,                      *)
(* sales_generation_artifacts.py, sales_generation_rollback.py,            *)
(* sales_import_recovery.py, sales_import_reupload.py, sales_artifacts.py, *)
(* jobs.py, backend/worker.py and migrations 011, 040 and 043.             *)
(*                                                                         *)
(* One month is modelled: the head, the live rows and the unique index on  *)
(* 'processing' are per month.  A source is named by its digest, which     *)
(* names its files, its job and the content of the rows staged from it.    *)
(***************************************************************************)
EXTENDS Integers, Sequences, FiniteSets

CONSTANTS
  Srcs,        \* digests of uploaded files
  MaxSnaps,    \* bound: rows of import_snapshots
  MaxJobs,     \* ARQ_MAX_JOBS of the import worker, 1 by default
  MaxCrashes,  \* bound: worker crashes
  MaxTimeouts, \* bound: jobs cancelled by arq_job_timeout_seconds
  MaxIOErrors  \* bound: transient OSErrors while a startup retains a file

VARIABLES
  snap,      \* import_snapshots, by id
  head,      \* sales_generation_heads: snapshot and revision
  live,      \* the source whose rows sales_transactions holds
  ledger,    \* sales_generation_promotions
  spool,     \* sources with an .upload file
  retained,  \* sources with a retained/<digest>.source file
  imp,       \* per source: its import job
  pro,       \* per snapshot: its promotion job
  web,       \* per source: a re-upload that recovers a validated snapshot
  boot,      \* the worker: down, starting up (and where), or up
  budget     \* what is left of the bounded failures

vars == <<snap, head, live, ledger, spool, retained, imp, pro, web, boot,
          budget>>

Snaps == 1 .. MaxSnaps

Owners == {"import", "promote", "recovered"}

Row == [status : {"absent", "processing", "completed", "failed"},
        gen : {"none", "validated", "promoting", "promoted"},
        owner : Owners, leased : BOOLEAN,
        exp : 0 .. MaxSnaps, prev : 0 .. MaxSnaps,
        src : Srcs \cup {"none"},
        art : {"none", "retaining", "retained", "recovery_required"}]

NoRow == [status |-> "absent", gen |-> "none", owner |-> "import",
          leased |-> FALSE, exp |-> 0, prev |-> 0, src |-> "none",
          art |-> "none"]

JobStates == {"none", "queued", "running", "ok", "failed"}
ImpPoints == {"idle", "resolve", "recover", "read", "insert", "stage",
              "fail", "retain", "mark"}
ImpJob == [st : JobStates, pc : ImpPoints, snap : 0 .. MaxSnaps,
           owner : Owners, rev : 0 .. MaxSnaps, prev : 0 .. MaxSnaps]
ProJob == [st : JobStates, pc : {"idle", "claim", "promote", "restore"},
           by : Owners]
NoImp == [st |-> "none", pc |-> "idle", snap |-> 0, owner |-> "import",
          rev |-> 0, prev |-> 0]
NoPro == [st |-> "none", pc |-> "idle", by |-> "import"]

WebPoints == {"idle", "attach", "retain", "mark"}
NoWeb == [pc |-> "idle", snap |-> 0, owner |-> "import"]

BootPoints == {"down", "candidates", "repair", "sweep", "close", "up"}

TypeOK ==
  /\ snap \in [Snaps -> Row]
  /\ head \in [snap : 0 .. MaxSnaps, rev : 0 .. MaxSnaps]
  /\ live \in Srcs \cup {"none"}
  /\ ledger \in Seq([from : 0 .. MaxSnaps, to : Snaps, rev : Snaps])
  /\ spool \subseteq Srcs /\ retained \subseteq Srcs
  /\ imp \in [Srcs -> ImpJob]
  /\ pro \in [Snaps -> ProJob]
  /\ web \in [Srcs -> [pc : WebPoints, snap : 0 .. MaxSnaps,
                       owner : Owners]]
  /\ boot \in [pc : BootPoints, todo : SUBSET (Snaps \X Owners),
               keep : SUBSET Srcs]
  /\ budget \in [crash : 0 .. MaxCrashes, timeout : 0 .. MaxTimeouts,
                 io : 0 .. MaxIOErrors]

Idle(pc) == [pc |-> pc, todo |-> {}, keep |-> {}]

Init ==
  /\ snap = [n \in Snaps |-> NoRow]
  /\ head = [snap |-> 0, rev |-> 0]
  /\ live = "none"
  /\ ledger = <<>>
  /\ spool = {} /\ retained = {}
  /\ imp = [s \in Srcs |-> NoImp]
  /\ pro = [n \in Snaps |-> NoPro]
  /\ web = [s \in Srcs |-> NoWeb]
  /\ boot = Idle("up")
  /\ budget = [crash |-> MaxCrashes, timeout |-> MaxTimeouts,
               io |-> MaxIOErrors]

published == <<head, live, ledger>>
files == <<spool, retained>>

Processing == {n \in Snaps : snap[n].status = "processing"}
Unused == {n \in Snaps : snap[n].status = "absent"}
Running == {s \in Srcs : imp[s].st = "running"}
           \cup {n \in Snaps : pro[n].st = "running"}

(* Statements are fenced by the owner the caller knows.                    *)
Owned(n, owner) == n \in Processing /\ snap[n].owner = owner

-----------------------------------------------------------------------------
(* The web process: upload, re-upload and promotion requests.              *)

(* get_validated_sales_generation for the exact bytes and cutoff.          *)
Recoverable(s) ==
  {n \in Processing : snap[n].src = s /\ snap[n].gen = "validated"}

(* enqueue_sales_import: spool the bytes, then publish one job per digest; *)
(* a finished job is replaced unless it succeeded.  When the publication   *)
(* is known to have failed the spooled file is removed again.              *)
Upload(s) ==
  /\ Recoverable(s) = {}
  /\ web[s].pc = "idle"
  /\ \/ /\ spool' = spool \cup {s}
        /\ imp' = IF imp[s].st \in {"none", "failed"}
                  THEN [imp EXCEPT ![s] = [NoImp EXCEPT !.st = "queued"]]
                  ELSE imp
     \/ /\ imp[s].st \notin {"queued", "running"}
        /\ spool' = spool \ {s}
        /\ UNCHANGED imp
  /\ UNCHANGED <<snap, published, retained, pro, web, boot, budget>>

(* arq_keep_result_seconds after a job has finished.                       *)
ResultExpires(s) ==
  /\ imp[s].st = "ok"
  /\ imp' = [imp EXCEPT ![s] = NoImp]
  /\ UNCHANGED <<snap, published, files, pro, web, boot, budget>>

(* recover_validated_sales_import: nothing to do once retained; otherwise  *)
(* spool the bytes again, attach them, retain the file and mark the row.   *)
ReUpload(s) ==
  /\ web[s].pc = "idle"
  /\ \E n \in Recoverable(s) :
       /\ snap[n].art # "retained"
       /\ web' = [web EXCEPT ![s] = [pc |-> "attach", snap |-> n,
                                     owner |-> snap[n].owner]]
       /\ spool' = spool \cup {s}
  /\ UNCHANGED <<snap, published, retained, imp, pro, boot, budget>>

(* attach_sales_generation_source; the trigger keeps a retained artifact.  *)
AttachSource(s) ==
  LET n == web[s].snap IN
  /\ web[s].pc = "attach"
  /\ \/ /\ Owned(n, web[s].owner) /\ snap[n].gen = "validated"
        /\ snap[n].art # "retained"
        /\ snap' = [snap EXCEPT ![n].art = "retaining"]
        /\ web' = [web EXCEPT ![s].pc = "retain"]
     \/ /\ ~(Owned(n, web[s].owner) /\ snap[n].gen = "validated"
             /\ snap[n].art # "retained")
        /\ web' = [web EXCEPT ![s] = NoWeb]
        /\ UNCHANGED snap
  /\ UNCHANGED <<published, files, imp, pro, boot, budget>>

(* retain_sales_import_spool_file: move, or drop the duplicate upload.     *)
HasSource(s) == s \in spool \cup retained
Retain(s) ==
  /\ retained' = retained \cup {s}
  /\ spool' = spool \ {s}

(* mark_sales_generation_artifact_retained.                                *)
Markable(n, owner) ==
  Owned(n, owner) /\ snap[n].art \in {"retaining", "retained"}
Marked(n) == snap' = [snap EXCEPT ![n].art = "retained"]

RetainReUpload(s) ==
  /\ web[s].pc = "retain"
  /\ IF HasSource(s)
     THEN Retain(s) /\ web' = [web EXCEPT ![s].pc = "mark"]
     ELSE UNCHANGED files /\ web' = [web EXCEPT ![s] = NoWeb]
  /\ UNCHANGED <<snap, published, imp, pro, boot, budget>>

MarkReUpload(s) ==
  /\ web[s].pc = "mark"
  /\ web' = [web EXCEPT ![s] = NoWeb]
  /\ IF Markable(web[s].snap, web[s].owner)
     THEN Marked(web[s].snap) ELSE UNCHANGED snap
  /\ UNCHANGED <<published, files, imp, pro, boot, budget>>

(* enqueue_sales_promotion: one job per snapshot and manifest.  A request  *)
(* for a snapshot that is no longer pending is a job Claim refuses.        *)
RequestPromotion(n) ==
  /\ n \in Processing /\ snap[n].gen # "none"
  /\ pro[n].st \in {"none", "failed"}
  /\ pro' = [pro EXCEPT ![n] = [NoPro EXCEPT !.st = "queued"]]
  /\ UNCHANGED <<snap, published, files, imp, web, boot, budget>>

-----------------------------------------------------------------------------
(* run_sales_import_job.                                                   *)

Free == boot.pc = "up" /\ Cardinality(Running) < MaxJobs

At(s, pc) == boot.pc = "up" /\ imp[s].st = "running" /\ imp[s].pc = pc
Go(s, pc) == imp' = [imp EXCEPT ![s].pc = pc]
End(s, st) == imp' = [imp EXCEPT ![s] = [NoImp EXCEPT !.st = st]]

StartImport(s) ==
  /\ Free
  /\ imp[s].st = "queued"
  /\ imp' = [imp EXCEPT ![s].st = "running", ![s].pc = "resolve"]
  /\ UNCHANGED <<snap, published, files, pro, web, boot, budget>>

(* resolve_sales_import_artifact: the upload or its retained successor.    *)
ResolveSource(s) ==
  /\ At(s, "resolve")
  /\ IF HasSource(s) THEN Go(s, "recover") ELSE End(s, "failed")
  /\ UNCHANGED <<snap, published, files, pro, web, boot, budget>>

(* find_recoverable_sales_generation_for_artifact_retain.                  *)
Adoptable(s) ==
  {n \in Recoverable(s) : snap[n].art \in {"retaining", "retained"}}

RecoverValidated(s) ==
  /\ At(s, "recover")
  /\ \/ \E n \in Adoptable(s) :
          imp' = [imp EXCEPT ![s].pc = "retain", ![s].snap = n,
                             ![s].owner = snap[n].owner]
     \/ Adoptable(s) = {} /\ Go(s, "read")
  /\ UNCHANGED <<snap, published, files, pro, web, boot, budget>>

(* reserve_snapshot, up to its read of the head: abandoned reservations of *)
(* the month are closed first.                                             *)
Abandoned(n) ==
  n \in Processing /\ snap[n].gen = "none" /\ ~snap[n].leased

ReadHead(s) ==
  /\ At(s, "read")
  /\ snap' = [n \in Snaps |-> IF Abandoned(n)
                              THEN [snap[n] EXCEPT !.status = "failed"]
                              ELSE snap[n]]
  /\ imp' = [imp EXCEPT ![s].pc = "insert", ![s].rev = head.rev,
                        ![s].prev = head.snap]
  /\ UNCHANGED <<published, files, pro, web, boot, budget>>

NewRow(s, rev, prev) ==
  [NoRow EXCEPT !.status = "processing", !.leased = TRUE, !.src = s,
                !.exp = rev, !.prev = prev, !.art = "retaining"]

(* INSERT ... ON CONFLICT DO NOTHING on                                    *)
(* uq_import_snapshots_month_processing; a conflict, like any error up to  *)
(* here, ends the job.                                                     *)
InsertSnapshot(s) ==
  /\ At(s, "insert")
  /\ \/ /\ Processing = {} /\ Unused # {}
        /\ LET n == CHOOSE m \in Unused : \A k \in Unused : m <= k IN
             /\ snap' = [snap EXCEPT ![n] = NewRow(s, imp[s].rev, imp[s].prev)]
             /\ imp' = [imp EXCEPT ![s] =
                  [NoImp EXCEPT !.st = "running", !.pc = "stage", !.snap = n]]
     \/ End(s, "failed") /\ UNCHANGED snap
  /\ UNCHANGED <<published, files, pro, web, boot, budget>>

(* _validate_and_stage_generation: one transaction under the lease.        *)
StageAndValidate(s) ==
  LET n == imp[s].snap IN
  /\ At(s, "stage")
  /\ \/ /\ Owned(n, "import") /\ snap[n].leased
        /\ snap' = [snap EXCEPT ![n].gen = "validated", ![n].leased = TRUE]
        /\ Go(s, "retain")
     \/ Go(s, "fail") /\ UNCHANGED snap
  /\ UNCHANGED <<published, files, pro, web, boot, budget>>

(* fail_sales_generation, which raises when the lease has gone.            *)
FailGeneration(s) ==
  LET n == imp[s].snap IN
  /\ At(s, "fail")
  /\ snap' = IF Owned(n, "import") /\ snap[n].leased
             THEN [snap EXCEPT ![n].status = "failed", ![n].leased = FALSE]
             ELSE snap
  /\ End(s, "failed")
  /\ UNCHANGED <<published, files, pro, web, boot, budget>>

RetainSource(s) ==
  /\ At(s, "retain")
  /\ IF HasSource(s) THEN Retain(s) /\ Go(s, "mark")
                     ELSE UNCHANGED files /\ End(s, "failed")
  /\ UNCHANGED <<snap, published, pro, web, boot, budget>>

(* The owner is the one returned by the reservation or the adoption.       *)
MarkRetained(s) ==
  LET n == imp[s].snap IN
  /\ At(s, "mark")
  /\ IF Markable(n, imp[s].owner)
     THEN Marked(n) /\ End(s, "ok")
     ELSE UNCHANGED snap /\ End(s, "failed")
  /\ UNCHANGED <<published, files, pro, web, boot, budget>>

-----------------------------------------------------------------------------
(* promote_sales_background.                                               *)

PromoteAt(n, pc) == boot.pc = "up" /\ pro[n].st = "running" /\ pro[n].pc = pc
EndPromote(n, st) == pro' = [pro EXCEPT ![n] = [NoPro EXCEPT !.st = st]]

StartPromotion(n) ==
  /\ Free
  /\ pro[n].st = "queued"
  /\ pro' = [pro EXCEPT ![n].st = "running", ![n].pc = "claim"]
  /\ UNCHANGED <<snap, published, files, imp, web, boot, budget>>

(* claim_validated_sales_generation.                                       *)
Claim(n) ==
  /\ PromoteAt(n, "claim")
  /\ \/ /\ n \in Processing /\ snap[n].gen = "validated"
        /\ snap[n].art = "retained"
        /\ snap' = [snap EXCEPT ![n].gen = "promoting", ![n].owner = "promote",
                                ![n].leased = TRUE]
        /\ pro' = [pro EXCEPT ![n].pc = "promote", ![n].by = snap[n].owner]
     \/ /\ ~(n \in Processing /\ snap[n].gen = "validated"
             /\ snap[n].art = "retained")
        /\ EndPromote(n, "failed")
        /\ UNCHANGED snap
  /\ UNCHANGED <<published, files, imp, web, boot, budget>>

(* Fault: the head is moved whatever its revision is.                      *)
HeadAcceptsAny(n) == TRUE

(* advance_sales_generation_head: the compare-and-swap on the revision.    *)
HeadAccepts(n) == snap[n].exp = head.rev

(* Fault: the ledger entry names the replaced snapshot.                    *)
PublishSwapped(n, row) ==
  /\ head' = [snap |-> n, rev |-> head.rev + 1]
  /\ live' = row.src
  /\ ledger' = Append(ledger, [from |-> n, to |-> head.snap,
                               rev |-> head.rev + 1])
  /\ snap' = [snap EXCEPT ![n] =
       [row EXCEPT !.status = "completed", !.gen = "promoted",
                   !.leased = FALSE, !.prev = head.snap]]

(* The head, the live rows, the reporting tables and the ledger change in  *)
(* one transaction.                                                        *)
Publish(n, row) ==
  /\ head' = [snap |-> n, rev |-> head.rev + 1]
  /\ live' = row.src
  /\ ledger' = Append(ledger, [from |-> head.snap, to |-> n,
                               rev |-> head.rev + 1])
  /\ snap' = [snap EXCEPT ![n] =
       [row EXCEPT !.status = "completed", !.gen = "promoted",
                   !.leased = FALSE, !.prev = head.snap]]

(* What promote_sales_generation verifies before it moves the head; the    *)
(* staged rows' controls may also be refused.                              *)
Promotable(n) ==
  /\ Owned(n, "promote") /\ snap[n].leased
  /\ snap[n].art = "retained" /\ snap[n].src \in retained
  /\ HeadAccepts(n)

(* After the commit the job may still fail, in its readback or metrics.    *)
Promote(n) ==
  /\ PromoteAt(n, "promote")
  /\ \/ /\ Promotable(n)
        /\ Publish(n, snap[n])
        /\ \E st \in {"ok", "failed"} : EndPromote(n, st)
     \/ /\ pro' = [pro EXCEPT ![n].pc = "restore"]
        /\ UNCHANGED <<snap, published>>
  /\ UNCHANGED <<files, imp, web, boot, budget>>

(* Fault: a failed promotion keeps its claim.                              *)
RestoreForgotten(n) ==
  /\ PromoteAt(n, "restore")
  /\ EndPromote(n, "failed")
  /\ UNCHANGED <<snap, published, files, imp, web, boot, budget>>

(* restore_sales_generation_claim.                                         *)
Restore(n) ==
  /\ PromoteAt(n, "restore")
  /\ snap' = IF Owned(n, "promote") /\ snap[n].gen = "promoting"
             THEN [snap EXCEPT ![n].gen = "validated", ![n].owner = pro[n].by]
             ELSE snap
  /\ EndPromote(n, "failed")
  /\ UNCHANGED <<published, files, imp, web, boot, budget>>

(* The job timeout cancels the coroutine; except Exception does not see a  *)
(* CancelledError, so nothing restores the claim.                          *)
PromotionTimeout(n) ==
  /\ PromoteAt(n, "promote") \/ PromoteAt(n, "restore")
  /\ budget.timeout > 0
  /\ budget' = [budget EXCEPT !.timeout = @ - 1]
  /\ EndPromote(n, "failed")
  /\ UNCHANGED <<snap, published, files, imp, web, boot>>

(* rollback_sales_generation: the predecessor is cloned as a new snapshot  *)
(* and promoted in the same transaction.  The clone is first inserted as   *)
(* 'processing', so a pending reservation of the month excludes it.        *)
Rollback ==
  /\ head.snap # 0 /\ Processing = {} /\ Unused # {}
  /\ LET prior == snap[head.snap].prev
         n == CHOOSE m \in Unused : \A k \in Unused : m <= k IN
       /\ prior # 0
       /\ snap[prior].status = "completed"
       /\ snap[prior].src \in retained
       /\ Publish(n, [NewRow(snap[prior].src, head.rev, head.snap)
                        EXCEPT !.art = snap[prior].art])
  /\ UNCHANGED <<files, imp, pro, web, boot, budget>>

-----------------------------------------------------------------------------
(* The worker's startup: _reconcile_sales_artifacts, then the leases.      *)

Booting(pc) == boot.pc = pc

(* The worker starts; upload files older than a day may be removed: it is  *)
(* assumed that no queued job or re-upload is that old.  The candidates    *)
(* are read without a lock.                                                *)
BootCandidates ==
  /\ Booting("candidates")
  /\ boot' = [pc |-> "repair", keep |-> {},
              todo |-> {<<n, snap[n].owner>> : n \in
                          {m \in Processing : snap[m].art \in
                                                {"retaining", "retained"}}}]
  /\ \E old \in SUBSET {s \in spool : imp[s].st # "queued"
                                      /\ web[s].pc = "idle"} :
       spool' = spool \ old
  /\ UNCHANGED <<snap, published, retained, imp, pro, web, budget>>

(* The file is retained and verified; the row is then repaired, under the  *)
(* owner that was read: validated or promoting goes back to validated with *)
(* a new lease, anything earlier fails.                                    *)
Repaired(row) ==
  IF row.gen \in {"validated", "promoting"}
  THEN [row EXCEPT !.art = "retained", !.gen = "validated", !.leased = TRUE]
  ELSE [row EXCEPT !.art = "retained", !.status = "failed", !.leased = FALSE]

RepairArtifact ==
  /\ Booting("repair")
  /\ \E c \in boot.todo :
       LET n == c[1] s == snap[n].src IN
       /\ boot' = [boot EXCEPT !.todo = @ \ {c}]
       /\ \/ /\ HasSource(s)
             /\ Retain(s)
             /\ snap' = IF Markable(n, c[2])
                        THEN [snap EXCEPT ![n] = Repaired(snap[n])] ELSE snap
             /\ UNCHANGED budget
          \/ /\ ~HasSource(s)                 \* SalesImportArtifactError
             /\ snap' = IF Owned(n, c[2])
                        THEN [snap EXCEPT ![n].status = "failed",
                                ![n].leased = FALSE,
                                ![n].art = "recovery_required"] ELSE snap
             /\ UNCHANGED <<files, budget>>
          \/ /\ budget.io > 0                 \* OSError: retry by re-upload
             /\ budget' = [budget EXCEPT !.io = @ - 1]
             /\ snap' = IF Owned(n, c[2])
                        THEN [snap EXCEPT
                                ![n].art = IF @ = "retained" THEN @ ELSE "none",
                                ![n].gen = IF @ = "promoting" THEN "validated"
                                                              ELSE @,
                                ![n].leased = FALSE] ELSE snap
             /\ UNCHANGED files
  /\ UNCHANGED <<published, imp, pro, web>>

(* The files to keep: of heads, of the ledger, of pending snapshots whose  *)
(* artifact is retained.                                                   *)
Roots ==
  {snap[n].src : n \in {m \in Snaps :
     \/ m = head.snap
     \/ \E i \in DOMAIN ledger : m \in {ledger[i].from, ledger[i].to}
     \/ m \in Processing /\ snap[m].art = "retained"}}

BootRoots ==
  /\ Booting("repair") /\ boot.todo = {}
  /\ boot' = [pc |-> "sweep", todo |-> {}, keep |-> Roots]
  /\ UNCHANGED <<snap, published, files, imp, pro, web, budget>>

(* cleanup_sales_import_retained_artifacts.                                *)
BootSweep ==
  /\ Booting("sweep")
  /\ retained' = retained \cap boot.keep
  /\ boot' = Idle("close")
  /\ UNCHANGED <<snap, published, spool, imp, pro, web, budget>>

(* The two closing statements of reconcile_interrupted_imports.            *)
Closed(row) ==
  IF row.status # "processing" \/ row.leased THEN row
  ELSE IF row.gen = "promoting" /\ row.art = "none"
       THEN [row EXCEPT !.gen = "validated", !.owner = "recovered",
                        !.leased = TRUE]
  ELSE IF row.gen = "none" /\ row.art \notin {"retaining", "retained"}
       THEN [row EXCEPT !.status = "failed"] ELSE row

BootClose ==
  /\ Booting("close")
  /\ snap' = [n \in Snaps |-> Closed(snap[n])]
  /\ boot' = Idle("up")
  /\ UNCHANGED <<published, files, imp, pro, web, budget>>

(* The worker dies; ARQ runs its jobs again after the restart.             *)
Requeued(job, none) ==
  IF job.st = "running" THEN [none EXCEPT !.st = "queued"] ELSE job

Crash ==
  /\ boot.pc # "down"
  /\ budget.crash > 0
  /\ budget' = [budget EXCEPT !.crash = @ - 1]
  /\ boot' = Idle("down")
  /\ imp' = [s \in Srcs |-> Requeued(imp[s], NoImp)]
  /\ pro' = [n \in Snaps |-> Requeued(pro[n], NoPro)]
  /\ UNCHANGED <<snap, published, files, web>>

BootStart ==
  /\ boot.pc = "down"
  /\ boot' = Idle("candidates")
  /\ UNCHANGED <<snap, published, files, imp, pro, web, budget>>

(* lease_until passes: two hours after the last renewal.                   *)
LeaseLapses(n) ==
  /\ n \in Processing /\ snap[n].leased
  /\ snap' = [snap EXCEPT ![n].leased = FALSE]
  /\ UNCHANGED <<published, files, imp, pro, web, boot, budget>>

-----------------------------------------------------------------------------
ReUploadSteps(s) == AttachSource(s) \/ RetainReUpload(s) \/ MarkReUpload(s)

ImportSteps(s) ==
  \/ StartImport(s) \/ ResolveSource(s) \/ RecoverValidated(s) \/ ReadHead(s)
  \/ InsertSnapshot(s) \/ StageAndValidate(s) \/ FailGeneration(s)
  \/ RetainSource(s) \/ MarkRetained(s)

PromotionSteps(n) ==
  StartPromotion(n) \/ Claim(n) \/ Promote(n) \/ Restore(n)

Boot == BootStart \/ BootCandidates \/ RepairArtifact \/ BootRoots
        \/ BootSweep \/ BootClose

Next ==
  \/ \E s \in Srcs : Upload(s) \/ ResultExpires(s) \/ ReUpload(s)
                     \/ ReUploadSteps(s) \/ ImportSteps(s)
  \/ \E n \in Snaps : RequestPromotion(n) \/ PromotionSteps(n)
                      \/ PromotionTimeout(n) \/ LeaseLapses(n)
  \/ Rollback \/ Boot \/ Crash

Spec == Init /\ [][Next]_vars

-----------------------------------------------------------------------------
(* The live rows are always those of the head, and the head is the end of  *)
(* an unbroken ledger: every promotion and rollback replaces exactly the   *)
(* generation that was live when it was reserved, so none is overwritten   *)
(* unseen (reserve_snapshot, advance_sales_generation_head).               *)
HeadFollowsLedger ==
  /\ Len(ledger) = head.rev
  /\ head.rev > 0 => /\ ledger[head.rev].to = head.snap
                     /\ snap[head.snap].status = "completed"
                     /\ live = snap[head.snap].src
  /\ \A i \in DOMAIN ledger :
       /\ ledger[i].rev = i
       /\ ledger[i].from = IF i = 1 THEN 0 ELSE ledger[i - 1].to
       /\ snap[ledger[i].to].exp = i - 1

(* The exact source file of every generation that was ever live is kept,   *)
(* whatever the startup's cleanup and re-uploads do: the promotion         *)
(* verifies the file and the ledger roots it.                              *)
PublishedSourceKept ==
  \A i \in DOMAIN ledger : snap[ledger[i].to].src \in retained

=============================================================================
