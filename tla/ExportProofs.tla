---------------------------- MODULE ExportProofs ----------------------------
(***************************************************************************)
(* Proofs about the durable exports, for every set of operations and       *)
(* requesters, every cap and any number of worker crashes.                 *)
(***************************************************************************)
EXTENDS ExportOperations, FiniteSetTheorems, TLAPS

(* A download can be served: completed in time by a job that was not       *)
(* interrupted.                                                            *)
Promised(o) ==
  op[o].status = "completed" /\ ~op[o].over /\ ~run[o].aborted

(* What holds of an operation on its own: its row, its job, its file and   *)
(* its download.  A job in its body has not completed the row, so whatever *)
(* removes the file meanwhile removes one nobody was promised; between the *)
(* rename and complete the file is too young to be swept.                  *)
OperationOK(o) ==
  /\ op[o].status \in {"absent", "queued"} => op[o].epoch = 0
  /\ o \in reserving => op[o].status = "absent"
  /\ run[o].pc \in Body => op[o].status \notin {"completed", "expired"}
  /\ run[o].pc = "complete" => file[o] = "young"
  /\ run[o].pc \in {"abort", "fail"} => run[o].aborted
  /\ o \in due => op[o].status = "expired"
  /\ Promised(o) => file[o] # "none"
  /\ download[o] # "idle" => op[o].status \in {"completed", "expired", "failed"}
  /\ download[o] = "corrupt" /\ op[o].status = "completed" =>
       run[o].aborted \/ op[o].over
  /\ op[o].integrity => run[o].aborted \/ op[o].over

OperationsOK == \A o \in Ops : OperationOK(o)

(* A sweep about to unlink has read the key of every promised file that is *)
(* old enough for it.                                                      *)
Spares(keep) == \A o \in Ops : Promised(o) /\ file[o] = "old" => o \in keep

SweepsOK ==
  /\ loop = "unlink" => Spares(snap["loop"])
  /\ \A a \in Ops : run[a].pc = "unlink" => Spares(snap[a])

(* One reserve transaction at a time holds the advisory lock, and it has   *)
(* counted room for its row.                                               *)
ReserveOK ==
  /\ IsFiniteSet(ActiveOps)
  /\ \A o, p \in reserving : o = p
  /\ reserving # {} => Cardinality(ActiveOps) < MaxActive

IndInv == TypeOK /\ OperationsOK /\ SweepsOK /\ ReserveOK /\ Capacity

-----------------------------------------------------------------------------
(* Frames: what a step that leaves these parts alone preserves.            *)

(* An operation whose row, job, file and download a step leaves alone.     *)
LEMMA OperationFrame ==
  ASSUME NEW x \in Ops, OperationOK(x),
         op'[x] = op[x], run'[x] = run[x], file'[x] = file[x],
         download'[x] = download[x],
         x \in reserving' => x \in reserving,
         x \in due' => x \in due
  PROVE  OperationOK(x)'
BY DEF OperationOK, Promised

(* No file becomes both promised and old, and no sweep reads.              *)
LEMMA SweepFrame ==
  ASSUME SweepsOK,
         \A x \in Ops : Promised(x)' /\ file'[x] = "old"
                          => Promised(x) /\ file[x] = "old",
         loop' = "unlink" => loop = "unlink" /\ snap'["loop"] = snap["loop"],
         \A a \in Ops : run'[a].pc = "unlink"
                          => run[a].pc = "unlink" /\ snap'[a] = snap[a]
  PROVE  SweepsOK'
BY DEF SweepsOK, Spares

(* No operation becomes active and no reservation begins.                  *)
LEMMA CapacityFrame ==
  ASSUME TypeOK, ReserveOK, Capacity,
         \A x \in Ops : op'[x].status \in Active => op[x].status \in Active,
         reserving' \subseteq reserving
  PROVE  ReserveOK' /\ Capacity'
<1>1. ActiveOps' \subseteq ActiveOps
  BY DEF ActiveOps
<1>2. /\ IsFiniteSet(ActiveOps')
      /\ Cardinality(ActiveOps') <= Cardinality(ActiveOps)
      /\ Cardinality(ActiveOps') \in Nat /\ Cardinality(ActiveOps) \in Nat
  BY <1>1, FS_Subset, FS_CardinalityType DEF ReserveOK
<1>3. MaxActive \in Nat
  BY ExportConstants
<1>4. ReserveOK'
  BY <1>2, <1>3 DEF ReserveOK
<1>5. Capacity'
  BY <1>1, <1>2, <1>3 DEF Capacity
<1> QED
  BY <1>4, <1>5

(* A step of operation o that touches no other one, reads no key and lets  *)
(* no operation become active.                                             *)
Typed(o) ==
  /\ op'[o] \in Row /\ run'[o] \in Run
  /\ web'[o] \in {"idle", "publish", "fail"}
  /\ download'[o] \in {"idle", "open", "corrupt"}
  /\ file'[o] \in {"none", "young", "old"}

Others(o) ==
  /\ op' = [op EXCEPT ![o] = op'[o]] /\ run' = [run EXCEPT ![o] = run'[o]]
  /\ web' = [web EXCEPT ![o] = web'[o]] /\ file' = [file EXCEPT ![o] = file'[o]]
  /\ download' = [download EXCEPT ![o] = download'[o]]
  /\ queue' \subseteq queue \cup {o} /\ ghost' \subseteq ghost \cup {o}
  /\ reserving' \subseteq reserving
  /\ UNCHANGED <<snap, loop, due, worker, crashes>>

Quiet(o) ==
  /\ op'[o].status \in Active => op[o].status \in Active
  /\ Promised(o)' /\ file'[o] = "old" => Promised(o) /\ file[o] = "old"
  /\ run'[o].pc = "unlink" => run[o].pc = "unlink"

(* Such a step keeps the invariant when it keeps the operation right.      *)
LEMMA LocalStep ==
  ASSUME IndInv, NEW o \in Ops, Typed(o), OperationOK(o)', Others(o), Quiet(o)
  PROVE  IndInv'
<1>1. TypeOK /\ \A x \in Ops : OperationOK(x)
  BY DEF IndInv, OperationsOK
<1>2. TypeOK'
  BY <1>1 DEF TypeOK, Typed, Others
<1>3. \A x \in Ops : x # o => /\ op'[x] = op[x] /\ run'[x] = run[x]
                              /\ file'[x] = file[x] /\ download'[x] = download[x]
  BY <1>1 DEF Others, TypeOK
<1>4. OperationsOK'
  <2>1. ASSUME NEW x \in Ops, x # o PROVE OperationOK(x)'
    BY <1>1, <1>3, <2>1, OperationFrame, SMTT(60) DEF Others
  <2> QED
    BY <2>1 DEF OperationsOK
<1>5. SweepsOK'
  <2>1. \A x \in Ops : Promised(x)' /\ file'[x] = "old"
                         => Promised(x) /\ file[x] = "old"
    BY <1>3, SMTT(60) DEF Promised, Quiet
  <2>2. \A a \in Ops : run'[a].pc = "unlink"
                         => run[a].pc = "unlink" /\ snap'[a] = snap[a]
    BY <1>3 DEF Others, Quiet
  <2> QED
    BY <2>1, <2>2, SweepFrame, SMTT(60) DEF IndInv, Others
<1>6. ReserveOK' /\ Capacity'
  <2>1. \A x \in Ops : op'[x].status \in Active => op[x].status \in Active
    BY <1>3 DEF Quiet
  <2> QED
    BY <2>1, CapacityFrame DEF IndInv, Others
<1> QED
  BY <1>2, <1>4, <1>5, <1>6 DEF IndInv

(* Every edit a statement makes to a row leaves a row.                     *)
LEMMA RowEdits ==
  ASSUME NEW r \in Row
  PROVE  /\ [r EXCEPT !.status = "failed", !.leased = FALSE,
                      !.stale = FALSE] \in Row
         /\ [r EXCEPT !.status = "cancelled", !.leased = FALSE,
                      !.stale = FALSE] \in Row
         /\ [r EXCEPT !.claimed = TRUE] \in Row
         /\ [r EXCEPT !.status = "failed", !.integrity = TRUE] \in Row
         /\ [r EXCEPT !.status = "running", !.epoch = 1, !.leased = TRUE,
                      !.stale = FALSE] \in Row
         /\ [r EXCEPT !.leased = TRUE] \in Row
         /\ [r EXCEPT !.status = "completed", !.leased = FALSE] \in Row
         /\ [r EXCEPT !.leased = FALSE] \in Row
         /\ [r EXCEPT !.stale = TRUE] \in Row
         /\ [r EXCEPT !.over = TRUE] \in Row
         /\ [r EXCEPT !.status = "queued"] \in Row
         /\ [r EXCEPT !.status = "expired"] \in Row
<1>0. 0 \in 0 .. 1 /\ 1 \in 0 .. 1
  OBVIOUS
<1>1. [r EXCEPT !.status = "failed", !.leased = FALSE, !.stale = FALSE] \in Row
  BY <1>0, Zenon DEF Row, Statuses, Active, Terminal
<1>2. [r EXCEPT !.status = "cancelled", !.leased = FALSE,
                !.stale = FALSE] \in Row
  BY <1>0, Zenon DEF Row, Statuses, Active, Terminal
<1>3. [r EXCEPT !.claimed = TRUE] \in Row
  BY <1>0, Zenon DEF Row, Statuses, Active, Terminal
<1>4. [r EXCEPT !.status = "failed", !.integrity = TRUE] \in Row
  BY <1>0, Zenon DEF Row, Statuses, Active, Terminal
<1>5. [r EXCEPT !.status = "running", !.epoch = 1, !.leased = TRUE,
                !.stale = FALSE] \in Row
  BY <1>0, Zenon DEF Row, Statuses, Active, Terminal
<1>6. [r EXCEPT !.leased = TRUE] \in Row
  BY <1>0, Zenon DEF Row, Statuses, Active, Terminal
<1>7. [r EXCEPT !.status = "completed", !.leased = FALSE] \in Row
  BY <1>0, Zenon DEF Row, Statuses, Active, Terminal
<1>8. [r EXCEPT !.leased = FALSE] \in Row
  BY <1>0, Zenon DEF Row, Statuses, Active, Terminal
<1>9. [r EXCEPT !.stale = TRUE] \in Row
  BY <1>0, Zenon DEF Row, Statuses, Active, Terminal
<1>10. [r EXCEPT !.over = TRUE] \in Row
  BY <1>0, Zenon DEF Row, Statuses, Active, Terminal
<1>11. [r EXCEPT !.status = "queued"] \in Row
  BY <1>0, Zenon DEF Row, Statuses, Active, Terminal
<1>12. [r EXCEPT !.status = "expired"] \in Row
  BY <1>0, Zenon DEF Row, Statuses, Active, Terminal
<1> QED
  BY SMTT(60), <1>1, <1>2, <1>3, <1>4, <1>5, <1>6, <1>7, <1>8, <1>9, <1>10,
     <1>11,
     <1>12

(* Every move of a job leaves a job.                                       *)
LEMMA RunEdits ==
  ASSUME NEW r \in Run
  PROVE  /\ [r EXCEPT !.pc = "build", !.hb = TRUE, !.epoch = 1] \in Run
         /\ [r EXCEPT !.pc = "abort", !.aborted = TRUE] \in Run
         /\ [r EXCEPT !.hb = FALSE] \in Run
         /\ [r EXCEPT !.pc = "persist"] \in Run
         /\ [r EXCEPT !.pc = "complete", !.stored = TRUE] \in Run
         /\ [r EXCEPT !.pc = "read"] \in Run
         /\ [r EXCEPT !.pc = "discard"] \in Run
         /\ [r EXCEPT !.pc = "fail"] \in Run
         /\ [r EXCEPT !.pc = "unlink", !.hb = FALSE] \in Run
         /\ Returned(r) \in Run
<1>0. 0 \in 0 .. 1 /\ 1 \in 0 .. 1
  OBVIOUS
<1>1. [r EXCEPT !.pc = "build", !.hb = TRUE, !.epoch = 1] \in Run
  BY <1>0, Zenon DEF Run, Points, Body, Returned, NoRun
<1>2. [r EXCEPT !.pc = "abort", !.aborted = TRUE] \in Run
  BY <1>0, Zenon DEF Run, Points, Body, Returned, NoRun
<1>3. [r EXCEPT !.hb = FALSE] \in Run
  BY <1>0, Zenon DEF Run, Points, Body, Returned, NoRun
<1>4. [r EXCEPT !.pc = "persist"] \in Run
  BY <1>0, Zenon DEF Run, Points, Body, Returned, NoRun
<1>5. [r EXCEPT !.pc = "complete", !.stored = TRUE] \in Run
  BY <1>0, Zenon DEF Run, Points, Body, Returned, NoRun
<1>6. [r EXCEPT !.pc = "read"] \in Run
  BY <1>0, Zenon DEF Run, Points, Body, Returned, NoRun
<1>7. [r EXCEPT !.pc = "discard"] \in Run
  BY <1>0, Zenon DEF Run, Points, Body, Returned, NoRun
<1>8. [r EXCEPT !.pc = "fail"] \in Run
  BY <1>0, Zenon DEF Run, Points, Body, Returned, NoRun
<1>9. [r EXCEPT !.pc = "unlink", !.hb = FALSE] \in Run
  BY <1>0, Zenon DEF Run, Points, Body, Returned, NoRun
<1>10. Returned(r) \in Run
  BY <1>0, Zenon DEF Run, Points, Body, Returned, NoRun
<1> QED
  BY SMTT(60), <1>1, <1>2, <1>3, <1>4, <1>5, <1>6, <1>7, <1>8, <1>9, <1>10

(* A job that has returned remembers only whether it was interrupted.      *)
LEMMA ReturnedFields ==
  ASSUME NEW r
  PROVE  Returned(r).pc = "done" /\ Returned(r).aborted = r.aborted
BY DEF Returned, NoRun

-----------------------------------------------------------------------------
(* The steps of one operation.                                             *)

(* Rolling back a reservation: the transaction of reserve ends without a   *)
(* row.                                                                    *)
LEMMA RollbackReserveStep ==
  ASSUME IndInv, NEW o \in Ops, RollbackReserve(o)
  PROVE  IndInv'
<1>1. TypeOK /\ OperationOK(o) /\ op[o] \in Row /\ run[o] \in Run
  BY DEF IndInv, OperationsOK, TypeOK
<1>2. /\ op'[o] = op[o]
      /\ run'[o] = run[o]
  BY <1>1, Zenon DEF TypeOK, RollbackReserve, webVars, jobVars, loopVars
<1>3. op'[o] \in Row /\ run'[o] \in Run
  BY <1>1, <1>2, RowEdits, RunEdits, ZenonT(60)
<1>4. Typed(o) /\ Others(o)
  BY <1>1, <1>3, SMTT(60) DEF Typed, Others, TypeOK, RollbackReserve, webVars,
     jobVars, loopVars
<1>5. OperationOK(o)' /\ Quiet(o)
  BY <1>1, <1>2, <1>3, SMTT(60) DEF Quiet, OperationOK, Promised, TypeOK, Row,
     Run, Active, Body, RollbackReserve, webVars, jobVars, loopVars
<1> QED
  BY <1>4, <1>5, LocalStep

(* Publishing the job: _reserve_validated after the commit.                *)
LEMMA PublishStep ==
  ASSUME IndInv, NEW o \in Ops, Publish(o)
  PROVE  IndInv'
<1>1. TypeOK /\ OperationOK(o) /\ op[o] \in Row /\ run[o] \in Run
  BY DEF IndInv, OperationsOK, TypeOK
<1>2. /\ op'[o] = op[o]
      /\ run'[o] = run[o]
  BY <1>1, ZenonT(60) DEF TypeOK, Publish, webVars, jobVars, loopVars
<1>3. op'[o] \in Row /\ run'[o] \in Run
  BY <1>1, <1>2, RowEdits, RunEdits, Zenon
<1>4. Typed(o) /\ Others(o)
  BY <1>1, <1>3, SMTT(60) DEF Typed, Others, TypeOK, Publish, webVars, jobVars,
     loopVars
<1>5. OperationOK(o)' /\ Quiet(o)
  BY <1>1, <1>2, <1>3, SMTT(60) DEF Quiet, OperationOK, Promised, TypeOK, Row,
     Run, Active, Body, Publish, webVars, jobVars, loopVars
<1> QED
  BY <1>4, <1>5, LocalStep

(* fail_queued changes a queued row only.                                  *)
LEMMA FailQueuedStep ==
  ASSUME IndInv, NEW o \in Ops, FailQueued(o)
  PROVE  IndInv'
<1>1. TypeOK /\ OperationOK(o) /\ op[o] \in Row /\ run[o] \in Run
  BY DEF IndInv, OperationsOK, TypeOK
<1>2. /\ \/ op'[o] = op[o]
         \/ op'[o] = [op[o] EXCEPT !.status = "failed", !.leased = FALSE,
                                   !.stale = FALSE]
      /\ run'[o] = run[o]
  BY <1>1, Zenon DEF TypeOK, FailQueued, Settled, webVars, jobVars, loopVars
<1>3. op'[o] \in Row /\ run'[o] \in Run
  BY <1>1, <1>2, RowEdits, RunEdits, ZenonT(60)
<1>4. Typed(o) /\ Others(o)
  BY <1>1, <1>3, SMTT(60) DEF Typed, Others, TypeOK, FailQueued, Settled,
     webVars, jobVars, loopVars
<1>5. OperationOK(o)' /\ Quiet(o)
  BY <1>1, <1>2, <1>3, SMTT(60) DEF Quiet, OperationOK, Promised, TypeOK, Row,
     Run, Active, Body, FailQueued, Settled, webVars, jobVars, loopVars
<1> QED
  BY <1>4, <1>5, LocalStep

(* cancel_owned changes an active row only.                                *)
LEMMA CancelOwnedStep ==
  ASSUME IndInv, NEW o \in Ops, CancelOwned(o)
  PROVE  IndInv'
<1>1. TypeOK /\ OperationOK(o) /\ op[o] \in Row /\ run[o] \in Run
  BY DEF IndInv, OperationsOK, TypeOK
<1>2. /\ \/ op'[o] = op[o]
         \/ op'[o] = [op[o] EXCEPT !.status = "cancelled", !.leased = FALSE,
                                   !.stale = FALSE]
      /\ run'[o] = run[o]
  BY <1>1, Zenon DEF TypeOK, CancelOwned, Settled, webVars, jobVars, loopVars
<1>3. op'[o] \in Row /\ run'[o] \in Run
  BY <1>1, <1>2, RowEdits, RunEdits, Zenon
<1>4. Typed(o) /\ Others(o)
  BY <1>1, <1>3, ZenonT(60) DEF Typed, Others, TypeOK, CancelOwned, Settled,
     webVars, jobVars, loopVars
<1>5. OperationOK(o)' /\ Quiet(o)
  BY <1>1, <1>2, <1>3, SMTT(60) DEF Quiet, OperationOK, Promised, TypeOK, Row,
     Run, Active, Body, CancelOwned, Settled, webVars, jobVars, loopVars
<1> QED
  BY <1>4, <1>5, LocalStep

(* claim_download_owned marks a completed row.                             *)
LEMMA ClaimDownloadStep ==
  ASSUME IndInv, NEW o \in Ops, ClaimDownload(o)
  PROVE  IndInv'
<1>1. TypeOK /\ OperationOK(o) /\ op[o] \in Row /\ run[o] \in Run
  BY DEF IndInv, OperationsOK, TypeOK
<1>2. /\ \/ op'[o] = op[o]
         \/ op'[o] = [op[o] EXCEPT !.claimed = TRUE]
      /\ run'[o] = run[o]
  BY <1>1 DEF TypeOK, ClaimDownload, webVars, jobVars, loopVars
<1>3. op'[o] \in Row /\ run'[o] \in Run
  BY <1>1, <1>2, RowEdits, RunEdits, ZenonT(60)
<1>4. Typed(o) /\ Others(o)
  BY <1>1, <1>3, SMTT(60) DEF Typed, Others, TypeOK, ClaimDownload, webVars,
     jobVars, loopVars
<1>5. OperationOK(o)' /\ Quiet(o)
  BY <1>1, <1>2, <1>3, SMTT(60) DEF Quiet, OperationOK, Promised, TypeOK, Row,
     Run, Active, Body, ClaimDownload, webVars, jobVars, loopVars
<1> QED
  BY <1>4, <1>5, LocalStep

(* open_verified_export_artifact finds a promised file: a download ends    *)
(* corrupt only when the operation was interrupted, expired or gone.       *)
LEMMA OpenArtifactStep ==
  ASSUME IndInv, NEW o \in Ops, OpenArtifact(o)
  PROVE  IndInv'
<1>1. TypeOK /\ OperationOK(o) /\ op[o] \in Row /\ run[o] \in Run
  BY DEF IndInv, OperationsOK, TypeOK
<1>2. /\ op'[o] = op[o]
      /\ run'[o] = run[o]
  BY <1>1, ZenonT(60) DEF TypeOK, OpenArtifact, webVars, jobVars, loopVars
<1>3. op'[o] \in Row /\ run'[o] \in Run
  BY <1>1, <1>2, RowEdits, RunEdits, Zenon
<1>4. Typed(o) /\ Others(o)
  BY <1>1, <1>3, SMTT(60) DEF Typed, Others, TypeOK, OpenArtifact, webVars,
     jobVars, loopVars
<1>5. OperationOK(o)' /\ Quiet(o)
  BY <1>1, <1>2, <1>3, SMTT(60) DEF Quiet, OperationOK, Promised, TypeOK, Row,
     Run, Active, Body, OpenArtifact, webVars, jobVars, loopVars
<1> QED
  BY <1>4, <1>5, LocalStep

(* mark_corrupt condemns a row only when the promise is void.              *)
LEMMA MarkCorruptStep ==
  ASSUME IndInv, NEW o \in Ops, MarkCorrupt(o)
  PROVE  IndInv'
<1>1. TypeOK /\ OperationOK(o) /\ op[o] \in Row /\ run[o] \in Run
  BY DEF IndInv, OperationsOK, TypeOK
<1>2. /\ \/ op'[o] = op[o]
         \/ op'[o] = [op[o] EXCEPT !.status = "failed", !.integrity = TRUE]
      /\ run'[o] = run[o]
  BY <1>1, Zenon DEF TypeOK, MarkCorrupt, webVars, jobVars, loopVars
<1>3. op'[o] \in Row /\ run'[o] \in Run
  BY <1>1, <1>2, RowEdits, RunEdits, ZenonT(60)
<1>4. Typed(o) /\ Others(o)
  BY <1>1, <1>3, SMTT(60) DEF Typed, Others, TypeOK, MarkCorrupt, webVars,
     jobVars, loopVars
<1>5. OperationOK(o)' /\ Quiet(o)
  BY <1>1, <1>2, <1>3, SMTT(60) DEF Quiet, OperationOK, Promised, TypeOK, Row,
     Run, Active, Body, MarkCorrupt, webVars, jobVars, loopVars
<1> QED
  BY <1>4, <1>5, LocalStep

(* The claim of a queued row: its first epoch, so the job's own.           *)
LEMMA ClaimStep ==
  ASSUME IndInv, NEW o \in Ops, Claim(o)
  PROVE  IndInv'
<1>1. TypeOK /\ OperationOK(o) /\ op[o] \in Row /\ run[o] \in Run
  BY DEF IndInv, OperationsOK, TypeOK
<1>2. /\ \/ op'[o] = op[o]
         \/ op'[o] = [op[o] EXCEPT !.status = "running", !.epoch = 1,
                                   !.leased = TRUE, !.stale = FALSE]
      /\ \/ run'[o] = run[o]
         \/ run'[o] = [run[o] EXCEPT !.pc = "build", !.hb = TRUE, !.epoch = 1]
  BY <1>1 DEF TypeOK, OperationOK, Row, Run, Claim, webVars, jobVars,
     loopVars
<1>3. op'[o] \in Row /\ run'[o] \in Run
  BY <1>1, <1>2, RowEdits, RunEdits, ZenonT(60)
<1>4. Typed(o) /\ Others(o)
  BY <1>1, <1>3, SMTT(60) DEF Typed, Others, TypeOK, Claim, webVars, jobVars,
     loopVars
<1>5. OperationOK(o)' /\ Quiet(o)
  BY <1>1, <1>2, <1>3, SMTT(60) DEF Quiet, OperationOK, Promised, TypeOK, Row,
     Run, Active, Body, Claim, webVars, jobVars, loopVars
<1> QED
  BY <1>4, <1>5, LocalStep

(* An interrupted job gives up the promise.                                *)
LEMMA InterruptStep ==
  ASSUME IndInv, NEW o \in Ops, Interrupt(o)
  PROVE  IndInv'
<1>1. TypeOK /\ OperationOK(o) /\ op[o] \in Row /\ run[o] \in Run
  BY DEF IndInv, OperationsOK, TypeOK
<1>2. /\ op'[o] = op[o]
      /\ \/ run'[o] = run[o]
         \/ run'[o] = [run[o] EXCEPT !.pc = "abort", !.aborted = TRUE]
  BY <1>1, Zenon DEF TypeOK, Interrupt, Interrupted, webVars, jobVars, loopVars
<1>3. op'[o] \in Row /\ run'[o] \in Run
  BY <1>1, <1>2, RowEdits, RunEdits, Zenon
<1>4. Typed(o) /\ Others(o)
  BY <1>1, <1>3, ZenonT(60) DEF Typed, Others, TypeOK, Interrupt, Interrupted,
     webVars, jobVars, loopVars
<1>5. OperationOK(o)' /\ Quiet(o)
  BY <1>1, <1>2, <1>3, SMTT(60) DEF Quiet, OperationOK, Promised, TypeOK, Row,
     Run, Active, Body, Interrupt, Interrupted, webVars, jobVars, loopVars
<1> QED
  BY <1>4, <1>5, LocalStep

(* The heartbeat renews, dies, or cancels the job.                         *)
LEMMA HeartbeatStep ==
  ASSUME IndInv, NEW o \in Ops, Heartbeat(o)
  PROVE  IndInv'
<1>1. TypeOK /\ OperationOK(o) /\ op[o] \in Row /\ run[o] \in Run
  BY DEF IndInv, OperationsOK, TypeOK
<1>2. /\ \/ op'[o] = op[o]
         \/ op'[o] = [op[o] EXCEPT !.leased = TRUE]
      /\ \/ run'[o] = run[o]
         \/ run'[o] = [run[o] EXCEPT !.hb = FALSE]
         \/ run'[o] = [run[o] EXCEPT !.pc = "abort", !.aborted = TRUE]
  BY <1>1, ZenonT(60) DEF TypeOK, Heartbeat, Interrupted, Fence, webVars,
     jobVars, loopVars
<1>3. op'[o] \in Row /\ run'[o] \in Run
  BY <1>1, <1>2, RowEdits, RunEdits, ZenonT(60)
<1>4. Typed(o) /\ Others(o)
  BY <1>1, <1>3, SMTT(60) DEF Typed, Others, TypeOK, Heartbeat, Interrupted,
     Fence, webVars, jobVars, loopVars
<1>5. OperationOK(o)' /\ Quiet(o)
  BY <1>1, <1>2, <1>3, SMTT(60) DEF Quiet, OperationOK, Promised, TypeOK, Row,
     Run, Active, Body, Heartbeat, Interrupted, Fence, webVars, jobVars,
     loopVars
<1> QED
  BY <1>4, <1>5, LocalStep

(* The build.                                                              *)
LEMMA BuildStep ==
  ASSUME IndInv, NEW o \in Ops, Build(o)
  PROVE  IndInv'
<1>1. TypeOK /\ OperationOK(o) /\ op[o] \in Row /\ run[o] \in Run
  BY DEF IndInv, OperationsOK, TypeOK
<1>2. /\ op'[o] = op[o]
      /\ \/ run'[o] = run[o]
         \/ run'[o] = [run[o] EXCEPT !.pc = "persist"]
  BY <1>1, Zenon DEF TypeOK, Build, webVars, jobVars, loopVars
<1>3. op'[o] \in Row /\ run'[o] \in Run
  BY <1>1, <1>2, RowEdits, RunEdits, ZenonT(60)
<1>4. Typed(o) /\ Others(o)
  BY <1>1, <1>3, SMTT(60) DEF Typed, Others, TypeOK, Build, webVars, jobVars,
     loopVars
<1>5. OperationOK(o)' /\ Quiet(o)
  BY <1>1, <1>2, <1>3, SMTT(60) DEF Quiet, OperationOK, Promised, TypeOK, Row,
     Run, Active, Body, Build, webVars, jobVars, loopVars
<1> QED
  BY <1>4, <1>5, LocalStep

(* The rename makes the file young.                                        *)
LEMMA PersistStep ==
  ASSUME IndInv, NEW o \in Ops, Persist(o)
  PROVE  IndInv'
<1>1. TypeOK /\ OperationOK(o) /\ op[o] \in Row /\ run[o] \in Run
  BY DEF IndInv, OperationsOK, TypeOK
<1>2. /\ op'[o] = op[o]
      /\ \/ run'[o] = run[o]
         \/ run'[o] = [run[o] EXCEPT !.pc = "complete", !.stored = TRUE]
  BY <1>1, Zenon DEF TypeOK, Persist, webVars, jobVars, loopVars
<1>3. op'[o] \in Row /\ run'[o] \in Run
  BY <1>1, <1>2, RowEdits, RunEdits, Zenon
<1>4. Typed(o) /\ Others(o)
  BY <1>1, <1>3, ZenonT(60) DEF Typed, Others, TypeOK, Persist, webVars,
     jobVars, loopVars
<1>5. OperationOK(o)' /\ Quiet(o)
  BY <1>1, <1>2, <1>3, SMTT(60) DEF Quiet, OperationOK, Promised, TypeOK, Row,
     Run, Active, Body, Persist, webVars, jobVars, loopVars
<1> QED
  BY <1>4, <1>5, LocalStep

(* The rename of a thread whose job is gone.                               *)
LEMMA GhostPersistStep ==
  ASSUME IndInv, NEW o \in Ops, GhostPersist(o)
  PROVE  IndInv'
<1>1. TypeOK /\ OperationOK(o) /\ op[o] \in Row /\ run[o] \in Run
  BY DEF IndInv, OperationsOK, TypeOK
<1>2. /\ op'[o] = op[o]
      /\ run'[o] = run[o]
  BY <1>1, SMTT(60) DEF TypeOK, GhostPersist, webVars, jobVars, loopVars
<1>3. op'[o] \in Row /\ run'[o] \in Run
  BY <1>1, <1>2, RowEdits, RunEdits, Zenon
<1>4. Typed(o) /\ Others(o)
  BY <1>1, <1>3, SMTT(60) DEF Typed, Others, TypeOK, GhostPersist, webVars,
     jobVars, loopVars
<1>5. OperationOK(o)' /\ Quiet(o)
  BY <1>1, <1>2, <1>3, SMTT(60) DEF Quiet, OperationOK, Promised, TypeOK, Row,
     Run, Active, Body, GhostPersist, webVars, jobVars, loopVars
<1> QED
  BY <1>4, <1>5, LocalStep

(* complete: the file of the row it completes is the young one just        *)
(* renamed.                                                                *)
LEMMA CompleteStep ==
  ASSUME IndInv, NEW o \in Ops, Complete(o)
  PROVE  IndInv'
<1>1. TypeOK /\ OperationOK(o) /\ op[o] \in Row /\ run[o] \in Run
  BY DEF IndInv, OperationsOK, TypeOK
<1>2. /\ \/ op'[o] = op[o]
         \/ op'[o] = [op[o] EXCEPT !.status = "completed", !.leased = FALSE]
      /\ \/ run'[o] = run[o]
         \/ run'[o] = [run[o] EXCEPT !.pc = "read"]
         \/ run'[o] = [run[o] EXCEPT !.pc = "abort", !.aborted = TRUE]
         \/ run'[o] = [run[o] EXCEPT !.pc = "discard"]
  BY <1>1, ZenonT(60) DEF TypeOK, Complete, Fence, webVars, jobVars, loopVars
<1>3. op'[o] \in Row /\ run'[o] \in Run
  BY <1>1, <1>2, RowEdits, RunEdits, ZenonT(60)
<1>4. Typed(o) /\ Others(o)
  BY <1>1, <1>3 DEF Typed, Others, TypeOK, Complete, Fence, webVars, jobVars,
     loopVars
<1>5. OperationOK(o)' /\ Quiet(o)
  BY <1>1, <1>2, <1>3 DEF Quiet, OperationOK, Promised, TypeOK, Row, Run,
     Active, Body, Complete, Fence, webVars, jobVars, loopVars
<1> QED
  BY <1>4, <1>5, LocalStep

(* Discarding the file of a row that was not completed.                    *)
LEMMA DiscardStep ==
  ASSUME IndInv, NEW o \in Ops, Discard(o)
  PROVE  IndInv'
<1>1. TypeOK /\ OperationOK(o) /\ op[o] \in Row /\ run[o] \in Run
  BY DEF IndInv, OperationsOK, TypeOK
<1>2. /\ op'[o] = op[o]
      /\ \/ run'[o] = run[o]
         \/ run'[o] = [run[o] EXCEPT !.pc = "read"]
  BY <1>1 DEF TypeOK, Discard, webVars, jobVars, loopVars
<1>3. op'[o] \in Row /\ run'[o] \in Run
  BY <1>1, <1>2, RowEdits, RunEdits, ZenonT(60)
<1>4. Typed(o) /\ Others(o)
  BY <1>1, <1>3, SMTT(60) DEF Typed, Others, TypeOK, Discard, webVars, jobVars,
     loopVars
<1>5. OperationOK(o)' /\ Quiet(o)
  BY <1>1, <1>2, <1>3, SMTT(60) DEF Quiet, OperationOK, Promised, TypeOK, Row,
     Run, Active, Body, Discard, webVars, jobVars, loopVars
<1> QED
  BY <1>4, <1>5, LocalStep

(* _fail_execution removes the file of an interrupted job.                 *)
LEMMA AbortRemoveStep ==
  ASSUME IndInv, NEW o \in Ops, AbortRemove(o)
  PROVE  IndInv'
<1>1. TypeOK /\ OperationOK(o) /\ op[o] \in Row /\ run[o] \in Run
  BY DEF IndInv, OperationsOK, TypeOK
<1>2. /\ op'[o] = op[o]
      /\ \/ run'[o] = run[o]
         \/ run'[o] = [run[o] EXCEPT !.pc = "fail"]
         \/ run'[o] = [run[o] EXCEPT !.pc = "read"]
  BY <1>1, Zenon DEF TypeOK, AbortRemove, webVars, jobVars, loopVars
<1>3. op'[o] \in Row /\ run'[o] \in Run
  BY <1>1, <1>2, RowEdits, RunEdits, ZenonT(60)
<1>4. Typed(o) /\ Others(o)
  BY <1>1, <1>3, SMTT(60) DEF Typed, Others, TypeOK, AbortRemove, webVars,
     jobVars, loopVars
<1>5. OperationOK(o)' /\ Quiet(o)
  BY <1>1, <1>2, <1>3, SMTT(60) DEF Quiet, OperationOK, Promised, TypeOK, Row,
     Run, Active, Body, AbortRemove, webVars, jobVars, loopVars
<1> QED
  BY <1>4, <1>5, LocalStep

(* fail_running.                                                           *)
LEMMA FailRunningStep ==
  ASSUME IndInv, NEW o \in Ops, FailRunning(o)
  PROVE  IndInv'
<1>1. TypeOK /\ OperationOK(o) /\ op[o] \in Row /\ run[o] \in Run
  BY DEF IndInv, OperationsOK, TypeOK
<1>2. /\ \/ op'[o] = op[o]
         \/ op'[o] = [op[o] EXCEPT !.status = "failed", !.leased = FALSE,
                                   !.stale = FALSE]
         \/ op'[o] = [op[o] EXCEPT !.status = "cancelled", !.leased = FALSE,
                                   !.stale = FALSE]
      /\ run'[o] = [run[o] EXCEPT !.pc = "read"]
  <2>1. /\ UNCHANGED op \/ \E s \in {"failed", "cancelled"} : op' = Settled(o, s)
        /\ run' = [run EXCEPT ![o].pc = "read"]
    BY DEF FailRunning
  <2> QED
    BY <1>1, <2>1, ZenonT(60) DEF TypeOK, Settled
<1>3. op'[o] \in Row /\ run'[o] \in Run
  BY <1>1, <1>2, RowEdits, RunEdits, ZenonT(60)
<1>4. Typed(o) /\ Others(o)
  BY <1>1, <1>3 DEF Typed, Others, TypeOK, FailRunning, Fence, Settled,
     webVars, jobVars, loopVars
<1>5. OperationOK(o)' /\ Quiet(o)
  BY <1>1, <1>2, <1>3 DEF Quiet, OperationOK, Promised, TypeOK, Row, Run,
     Active, Body, FailRunning, Fence, Settled, webVars, jobVars, loopVars
<1> QED
  BY <1>4, <1>5, LocalStep

(* A lease lapses.                                                         *)
LEMMA LapseLeaseStep ==
  ASSUME IndInv, NEW o \in Ops, LapseLease(o)
  PROVE  IndInv'
<1>1. TypeOK /\ OperationOK(o) /\ op[o] \in Row /\ run[o] \in Run
  BY DEF IndInv, OperationsOK, TypeOK
<1>2. /\ \/ op'[o] = op[o]
         \/ op'[o] = [op[o] EXCEPT !.leased = FALSE]
      /\ run'[o] = run[o]
  BY <1>1, Zenon DEF TypeOK, LapseLease, webVars, jobVars, loopVars
<1>3. op'[o] \in Row /\ run'[o] \in Run
  BY <1>1, <1>2, RowEdits, RunEdits, ZenonT(60)
<1>4. Typed(o) /\ Others(o)
  BY <1>1, <1>3, SMTT(60) DEF Typed, Others, TypeOK, LapseLease, webVars,
     jobVars, loopVars
<1>5. OperationOK(o)' /\ Quiet(o)
  BY <1>1, <1>2, <1>3, SMTT(60) DEF Quiet, OperationOK, Promised, TypeOK, Row,
     Run, Active, Body, LapseLease, webVars, jobVars, loopVars
<1> QED
  BY <1>4, <1>5, LocalStep

(* A queued row becomes stale.                                             *)
LEMMA AgeQueuedStep ==
  ASSUME IndInv, NEW o \in Ops, AgeQueued(o)
  PROVE  IndInv'
<1>1. TypeOK /\ OperationOK(o) /\ op[o] \in Row /\ run[o] \in Run
  BY DEF IndInv, OperationsOK, TypeOK
<1>2. /\ \/ op'[o] = op[o]
         \/ op'[o] = [op[o] EXCEPT !.stale = TRUE]
      /\ run'[o] = run[o]
  BY <1>1, Zenon DEF TypeOK, AgeQueued, webVars, jobVars, loopVars
<1>3. op'[o] \in Row /\ run'[o] \in Run
  BY <1>1, <1>2, RowEdits, RunEdits, ZenonT(60)
<1>4. Typed(o) /\ Others(o)
  BY <1>1, <1>3 DEF Typed, Others, TypeOK, AgeQueued, webVars, jobVars,
     loopVars
<1>5. OperationOK(o)' /\ Quiet(o)
  BY <1>1, <1>2, <1>3, SMTT(60) DEF Quiet, OperationOK, Promised, TypeOK, Row,
     Run, Active, Body, AgeQueued, webVars, jobVars, loopVars
<1> QED
  BY <1>4, <1>5, LocalStep

(* The TTL passes.                                                         *)
LEMMA PassTTLStep ==
  ASSUME IndInv, NEW o \in Ops, PassTTL(o)
  PROVE  IndInv'
<1>1. TypeOK /\ OperationOK(o) /\ op[o] \in Row /\ run[o] \in Run
  BY DEF IndInv, OperationsOK, TypeOK
<1>2. /\ \/ op'[o] = op[o]
         \/ op'[o] = [op[o] EXCEPT !.over = TRUE]
      /\ run'[o] = run[o]
  BY <1>1, Zenon DEF TypeOK, PassTTL, webVars, jobVars, loopVars
<1>3. op'[o] \in Row /\ run'[o] \in Run
  BY <1>1, <1>2, RowEdits, RunEdits, ZenonT(60)
<1>4. Typed(o) /\ Others(o)
  BY <1>1, <1>3, SMTT(60) DEF Typed, Others, TypeOK, PassTTL, webVars, jobVars,
     loopVars
<1>5. OperationOK(o)' /\ Quiet(o)
  BY <1>1, <1>2, <1>3, SMTT(60) DEF Quiet, OperationOK, Promised, TypeOK, Row,
     Run, Active, Body, PassTTL, webVars, jobVars, loopVars
<1> QED
  BY <1>4, <1>5, LocalStep

-----------------------------------------------------------------------------
(* The other steps.                                                        *)

(* reserve begins under the advisory lock, having counted room for one.    *)
LEMMA BeginReserveStep ==
  ASSUME IndInv, NEW o \in Ops, BeginReserve(o)
  PROVE  IndInv'
<1>1. /\ UNCHANGED <<op, web, download, queue, run, ghost, file, snap, loop, due,
                     worker, crashes>>
      /\ reserving' = {o} /\ op[o].status = "absent"
      /\ Cardinality(ActiveOps) < MaxActive
  BY DEF BeginReserve, jobVars, loopVars
<1>2. TypeOK'
  BY <1>1, SMTT(60) DEF IndInv, TypeOK
<1>3. OperationsOK'
  BY <1>1, SMTT(60) DEF IndInv, OperationsOK, OperationOK, Promised
<1>4. SweepsOK'
  BY <1>1, SMTT(60) DEF IndInv, SweepsOK, Spares, Promised
<1>5. ReserveOK' /\ Capacity'
  BY <1>1, SMTT(60) DEF IndInv, ReserveOK, Capacity, ActiveOps
<1> QED
  BY <1>2, <1>3, <1>4, <1>5, SMTT(60) DEF IndInv

(* The INSERT takes the room that was counted.                             *)
LEMMA CommitReserveStep ==
  ASSUME IndInv, NEW o \in Ops, CommitReserve(o)
  PROVE  IndInv'
<1>1. /\ UNCHANGED <<download, queue, run, ghost, file, snap, loop, due,
                     worker, crashes>>
      /\ o \in reserving /\ reserving' = reserving \ {o}
      /\ op' = [op EXCEPT ![o].status = "queued"]
      /\ web' = [web EXCEPT ![o] = "publish"]
      /\ \A p \in ActiveOps : RequesterOf[p] # RequesterOf[o]
  BY DEF CommitReserve, jobVars, loopVars
<1>2. op[o].status = "absent" /\ reserving' = {}
  BY <1>1 DEF IndInv, OperationsOK, OperationOK, ReserveOK
<1>3. TypeOK'
  <2>1. op[o] \in Row /\ op' = [op EXCEPT ![o] = [op[o] EXCEPT !.status = "queued"]]
    BY <1>1, ZenonT(60) DEF IndInv, TypeOK
  <2>2. op' \in [Ops -> Row]
    BY <2>1, RowEdits, ZenonT(60) DEF IndInv, TypeOK
  <2> QED
    BY <1>1, <2>2 DEF IndInv, TypeOK
<1>4. /\ op'[o] = [op[o] EXCEPT !.status = "queued"]
      /\ \A x \in Ops : x # o => op'[x] = op[x]
  BY <1>1 DEF IndInv, TypeOK
<1>5. OperationsOK'
  <2>1. OperationOK(o)'
    BY <1>1, <1>2, <1>4, SMTT(60) DEF IndInv, OperationsOK, OperationOK,
       Promised, TypeOK, Row
  <2> QED
    BY <1>1, <1>4, <2>1, OperationFrame, SMTT(60) DEF IndInv, OperationsOK
<1>6. SweepsOK'
  <2>1. \A x \in Ops : Promised(x)' => Promised(x)
    BY <1>1, <1>4, SMTT(60) DEF Promised, IndInv, TypeOK, Row
  <2> QED
    BY <1>1, <2>1, SweepFrame DEF IndInv
<1>7. ActiveOps' = ActiveOps \cup {o} /\ o \notin ActiveOps
  BY <1>2, <1>4, SMTT(60) DEF ActiveOps, Active, IndInv, TypeOK, Row
<1>8. /\ IsFiniteSet(ActiveOps) /\ Cardinality(ActiveOps) < MaxActive
      /\ Cardinality(ActiveOps) \in Nat /\ MaxActive \in Nat
  BY <1>1, FS_CardinalityType, ExportConstants, SMTT(60) DEF IndInv, ReserveOK
<1>9. /\ IsFiniteSet(ActiveOps')
      /\ Cardinality(ActiveOps') = Cardinality(ActiveOps) + 1
  BY SMTT(60), <1>7, <1>8, FS_AddElement
<1>10. ReserveOK' /\ Capacity'
  BY <1>1, <1>2, <1>7, <1>8, <1>9, SMTT(60) DEF IndInv, ReserveOK, Capacity
<1> QED
  BY <1>3, <1>5, <1>6, <1>10 DEF IndInv

(* The keys a sweep reads include every promised file.                     *)
LEMMA KeysRead ==
  ASSUME NEW o \in Ops, Promised(o)
  PROVE  o \in ActiveKeys
BY SMTT(60) DEF Promised, ActiveKeys

(* The sweep at the end of a job reads the keys, or the job ends.          *)
LEMMA FinishReadStep ==
  ASSUME IndInv, NEW o \in Ops, FinishRead(o)
  PROVE  IndInv'
<1>1. TypeOK /\ run[o] \in Run /\ "loop" \notin Ops
  BY ExportConstants DEF IndInv, TypeOK
<1>2. /\ UNCHANGED <<op, reserving, web, download, queue, ghost, file, loop, due,
                     worker, crashes>>
      /\ run[o].pc = "read"
      /\ \/ /\ snap' = [snap EXCEPT ![o] = ActiveKeys]
            /\ run' = [run EXCEPT ![o] =
                         [run[o] EXCEPT !.pc = "unlink", !.hb = FALSE]]
         \/ snap' = snap /\ run' = [run EXCEPT ![o] = Returned(run[o])]
  BY <1>1, ZenonT(60) DEF FinishRead, webVars, loopVars, TypeOK
<1>3. /\ UNCHANGED <<op, reserving, web, download, queue, ghost, file, loop, due,
                     worker, crashes>>
      /\ \A x \in Ops : x # o => run'[x] = run[x] /\ snap'[x] = snap[x]
      /\ run[o].pc = "read" /\ run'[o].aborted = run[o].aborted
      /\ run'[o].pc \in {"unlink", "done"}
      /\ run'[o].pc = "unlink" => snap'[o] = ActiveKeys
      /\ snap'["loop"] = snap["loop"]
  <2>1. CASE /\ snap' = [snap EXCEPT ![o] = ActiveKeys]
             /\ run' = [run EXCEPT ![o] =
                          [run[o] EXCEPT !.pc = "unlink", !.hb = FALSE]]
    BY <1>1, <1>2, <2>1, SMTT(60) DEF TypeOK, Run
  <2>2. CASE snap' = snap /\ run' = [run EXCEPT ![o] = Returned(run[o])]
    BY <1>1, <1>2, <2>2, ReturnedFields, SMTT(60) DEF TypeOK
  <2> QED
    BY <1>2, <2>1, <2>2
<1>4. TypeOK'
  <2>1. run' \in [Ops -> Run]
    BY <1>1, <1>2, RunEdits, ZenonT(60) DEF TypeOK
  <2>2. snap' \in [Ops \cup {"loop"} -> SUBSET Ops]
    BY <1>1, <1>2 DEF TypeOK, ActiveKeys
  <2> QED
    BY <1>1, <1>2, <2>1, <2>2, SMTT(60) DEF TypeOK
<1>5. OperationsOK'
  <2>1. OperationOK(o)'
    BY <1>3 DEF IndInv, OperationsOK, OperationOK, Promised, Body
  <2> QED
    BY <1>3, <2>1, OperationFrame DEF IndInv, OperationsOK
<1>6. SweepsOK'
  <2>1. \A x \in Ops : (Promised(x)' <=> Promised(x)) /\ file'[x] = file[x]
    BY <1>3 DEF Promised
  <2>2. loop' = "unlink" => Spares(snap["loop"])'
    BY <1>3, <2>1, SMTT(60) DEF IndInv, SweepsOK, Spares
  <2>3. ASSUME NEW a \in Ops, a # o, run'[a].pc = "unlink"
        PROVE  Spares(snap[a])'
    BY <1>3, <2>1, <2>3, SMTT(60) DEF IndInv, SweepsOK, Spares
  <2>4. ASSUME run'[o].pc = "unlink"
        PROVE  Spares(snap[o])'
    BY <1>3, <2>1, <2>4, KeysRead, SMTT(60) DEF Spares
  <2> QED
    BY <2>2, <2>3, <2>4, SMTT(60) DEF SweepsOK
<1>7. ReserveOK' /\ Capacity'
  BY <1>3, CapacityFrame, SMTT(60) DEF IndInv
<1> QED
  BY <1>4, <1>5, <1>6, <1>7 DEF IndInv

(* A sweep that spares the promised files keeps every operation right:     *)
(* what it removes is old, and the file of a job about to complete is not. *)
LEMMA SweptOK ==
  ASSUME IndInv, NEW keep, Spares(keep), file' = Swept(keep),
         UNCHANGED <<op, reserving, download, due>>,
         \A x \in Ops : /\ run'[x].aborted = run[x].aborted
                        /\ run'[x].pc = run[x].pc \/ run'[x].pc = "done"
  PROVE  /\ OperationsOK'
         /\ \A x \in Ops : Promised(x)' /\ file'[x] = "old"
                            => Promised(x) /\ file[x] = "old"
<1>1. \A x \in Ops : /\ file'[x] # "none" => file'[x] = file[x]
                     /\ file'[x] # file[x] => file[x] = "old" /\ x \notin keep
                     /\ Promised(x)' <=> Promised(x)
  BY SMTT(60) DEF Swept, Promised
<1>2. ASSUME NEW x \in Ops PROVE OperationOK(x)'
  <2>1. OperationOK(x)
    BY SMTT(60) DEF IndInv, OperationsOK
  <2>2. run'[x].pc = "complete" => file'[x] = "young"
    BY <1>1, <2>1, SMTT(60) DEF OperationOK
  <2>3. Promised(x)' => file'[x] # "none"
    BY <1>1, <2>1 DEF OperationOK, Spares
  <2> QED
    BY <2>1, <2>2, <2>3, SMTT(60) DEF OperationOK, Body
<1> QED
  BY <1>1, <1>2, SMTT(60) DEF OperationsOK

(* The sweep at the end of a job unlinks.                                  *)
LEMMA FinishUnlinkStep ==
  ASSUME IndInv, NEW o \in Ops, FinishUnlink(o)
  PROVE  IndInv'
<1>1. /\ UNCHANGED <<op, reserving, web, download, queue, ghost, loop, due,
                     worker, crashes>>
      /\ \A x \in Ops : x # o => run'[x] = run[x] /\ snap'[x] = snap[x]
      /\ run[o].pc = "unlink" /\ run'[o].aborted = run[o].aborted
      /\ run'[o].pc = "done"
      /\ snap'["loop"] = snap["loop"] /\ file' = Swept(snap[o])
  BY ExportConstants, SMTT(60) DEF FinishUnlink, webVars, loopVars, IndInv,
     TypeOK, Run, Returned, NoRun
<1>2. TypeOK'
  <2>1. TypeOK /\ run[o] \in Run
    BY Zenon DEF IndInv, TypeOK
  <2>2. run' \in [Ops -> Run]
    BY <2>1, RunEdits, ZenonT(60) DEF FinishUnlink, TypeOK
  <2>3. file' \in [Ops -> {"none", "young", "old"}]
    BY <2>1 DEF FinishUnlink, TypeOK, Swept
  <2>4. snap' \in [Ops \cup {"loop"} -> SUBSET Ops]
    BY <2>1, SMTT(60) DEF FinishUnlink, TypeOK
  <2> QED
    BY <1>1, <2>1, <2>2, <2>3, <2>4, SMTT(60) DEF TypeOK
<1>3. Spares(snap[o])
  BY <1>1, SMTT(60) DEF IndInv, SweepsOK
<1>4. /\ OperationsOK'
      /\ \A x \in Ops : Promised(x)' /\ file'[x] = "old"
                         => Promised(x) /\ file[x] = "old"
  BY SMTT(60), <1>1, <1>3, SweptOK
<1>5. SweepsOK'
  BY <1>1, <1>4, SweepFrame, SMTT(60) DEF IndInv
<1>6. ReserveOK' /\ Capacity'
  BY <1>1, CapacityFrame, SMTT(60) DEF IndInv
<1> QED
  BY <1>2, <1>4, <1>5, <1>6, SMTT(60) DEF IndInv

(* A file ages past the grace period, but not while a sweep that has read  *)
(* its keys is under way.                                                  *)
LEMMA AgeFileStep ==
  ASSUME IndInv, NEW o \in Ops, AgeFile(o)
  PROVE  IndInv'
<1>1. /\ UNCHANGED <<op, reserving, web, download, queue, run, ghost, snap, loop,
                     due, worker, crashes>>
      /\ \A x \in Ops : x # o => file'[x] = file[x]
      /\ file'[o] = "old" /\ run[o].pc # "complete"
      /\ loop # "unlink" /\ \A x \in Ops : run[x].pc # "unlink"
  BY DEF AgeFile, webVars, loopVars, IndInv, TypeOK
<1>2. TypeOK'
  BY ZenonT(60) DEF AgeFile, webVars, loopVars, IndInv, TypeOK
<1>3. OperationsOK'
  BY <1>1 DEF IndInv, OperationsOK, OperationOK, Promised
<1>4. SweepsOK'
  BY <1>1 DEF SweepsOK
<1>5. ReserveOK' /\ Capacity'
  BY <1>1, CapacityFrame, ZenonT(60) DEF IndInv
<1> QED
  BY <1>2, <1>3, <1>4, <1>5 DEF IndInv

-----------------------------------------------------------------------------
(* The loop and the process.                                               *)

(* The worker starts.                                                      *)
LEMMA StartStep ==
  ASSUME IndInv, Start
  PROVE  IndInv'
BY DEF Start, webVars, jobVars, IndInv, TypeOK, OperationsOK, OperationOK,
   SweepsOK, Spares, Promised, ReserveOK, Capacity, ActiveOps

(* reconcile_stale fails rows that are queued or running.                  *)
LEMMA ReconcileStep ==
  ASSUME IndInv, Reconcile
  PROVE  IndInv'
<1>1. /\ UNCHANGED <<reserving, web, download, queue, run, ghost, file, snap, due,
                     worker, crashes>>
      /\ loop' = "expire"
  BY ZenonT(60) DEF Reconcile, webVars, jobVars
<1>2. \A x \in Ops : op[x] \in Row /\ OperationOK(x)
  BY DEF IndInv, TypeOK, OperationsOK
<1>3. ASSUME NEW x \in Ops
      PROVE  \/ op'[x] = op[x]
             \/ /\ op[x].status \in Active
                /\ op'[x] = [op[x] EXCEPT !.status = "failed", !.leased = FALSE,
                                         !.stale = FALSE]
                /\ op'[x].status = "failed" /\ op'[x].epoch = op[x].epoch
                /\ op'[x].integrity = op[x].integrity
                /\ op'[x].over = op[x].over
  <2>1. CASE Stale(op[x])
    BY <1>2, <2>1, ZenonT(60) DEF Reconcile, Stale, Active, Row
  <2>2. CASE ~Stale(op[x])
    BY <2>2, Zenon DEF Reconcile
  <2> QED
    BY <2>1, <2>2, Zenon
<1>4. TypeOK'
  <2>1. ASSUME NEW x \in Ops PROVE op'[x] \in Row
    <3>1. op[x] \in Row
      BY <1>2, Zenon
    <3>2. [op[x] EXCEPT !.status = "failed", !.leased = FALSE,
                        !.stale = FALSE] \in Row
      BY <3>1, RowEdits, ZenonT(60)
    <3> QED
      BY <1>3, <3>1, <3>2, ZenonT(60)
  <2>2. op' \in [Ops -> Row]
    BY <2>1, Zenon DEF Reconcile
  <2> QED
    BY <1>1, <2>2, ZenonT(60) DEF IndInv, TypeOK
<1>5. OperationsOK'
  <2>1. ASSUME NEW x \in Ops PROVE OperationOK(x)'
    <3>1. CASE op'[x] = op[x]
      BY <1>1, <1>2, <3>1, OperationFrame, ZenonT(60)
    <3>2. CASE op'[x] # op[x]
      BY <1>1, <1>2, <1>3, <3>2, ZenonT(60) DEF OperationOK, Promised, Active
    <3> QED
      BY SMTT(60), <3>1, <3>2
  <2> QED
    BY <2>1 DEF OperationsOK
<1>6. SweepsOK'
  <2>1. \A x \in Ops : Promised(x)' => Promised(x)
    BY <1>1, <1>3, Zenon DEF Promised
  <2> QED
    BY <1>1, <2>1, SweepFrame, ZenonT(60) DEF IndInv
<1>7. ReserveOK' /\ Capacity'
  BY <1>1, <1>3, CapacityFrame, ZenonT(60) DEF IndInv, Active
<1> QED
  BY <1>4, <1>5, <1>6, <1>7, ZenonT(60) DEF IndInv

(* claim_expired takes completed rows past their TTL, and only those.      *)
LEMMA ClaimExpiredStep ==
  ASSUME IndInv, ClaimExpired
  PROVE  IndInv'
<1>1. /\ UNCHANGED <<reserving, web, download, queue, run, ghost, file, snap,
                     worker, crashes>>
      /\ loop' = "remove"
      /\ due' = {o \in Ops : op[o].status = "completed" /\ op[o].over}
  BY DEF ClaimExpired, webVars, jobVars
<1>2. \A x \in Ops : /\ x \notin due' => op'[x] = op[x]
                     /\ x \in due' =>
                          /\ op[x].status = "completed" /\ op[x].over
                          /\ op'[x] = [op[x] EXCEPT !.status = "expired"]
  BY <1>1, SMTT(60) DEF ClaimExpired, IndInv, TypeOK
<1>3. TypeOK'
  <2>1. ASSUME NEW x \in Ops PROVE op'[x] \in Row
    <3>1. op[x] \in Row
      BY Zenon DEF IndInv, TypeOK
    <3>2. [op[x] EXCEPT !.status = "expired"] \in Row
      BY <3>1, RowEdits, ZenonT(60)
    <3> QED
      BY SMTT(60), <1>2, <3>1, <3>2
  <2>2. op' \in [Ops -> Row]
    BY <2>1 DEF ClaimExpired
  <2> QED
    BY <1>1, <2>2, SMTT(60) DEF IndInv, TypeOK
<1>4. OperationsOK'
  <2>1. ASSUME NEW x \in Ops PROVE OperationOK(x)'
    <3>1. op[x] \in Row /\ OperationOK(x)
      BY SMTT(60) DEF IndInv, TypeOK, OperationsOK
    <3>2. CASE x \in due'
      <4>1. /\ op'[x].status = "expired" /\ op[x].status = "completed"
            /\ op'[x].integrity = op[x].integrity /\ op'[x].over
        BY <1>2, <3>1, <3>2, ZenonT(60) DEF Row
      <4> QED
        BY <1>1, <3>1, <4>1 DEF OperationOK, Promised, Body
    <3>3. CASE x \notin due'
      BY <1>1, <1>2, <3>1, <3>3, OperationFrame, ZenonT(60)
    <3> QED
      BY SMTT(60), <3>2, <3>3
  <2> QED
    BY <2>1 DEF OperationsOK
<1>5. SweepsOK'
  <2>1. \A x \in Ops : Promised(x)' => Promised(x)
    BY <1>1, <1>2, ZenonT(60) DEF Promised, IndInv, TypeOK, Row
  <2> QED
    BY <1>1, <2>1, SweepFrame, SMTT(60) DEF IndInv
<1>6. ReserveOK' /\ Capacity'
  <2>1. ASSUME NEW x \in Ops, op'[x].status \in Active
        PROVE  op[x].status \in Active
    <3>1. op[x] \in Row
      BY DEF IndInv, TypeOK
    <3>2. x \in due' => op'[x].status = "expired"
      BY <1>2, <3>1, ZenonT(60) DEF Row
    <3> QED
      BY <1>2, <2>1, <3>2, Zenon DEF Active
  <2> QED
    BY <1>1, <2>1, CapacityFrame DEF IndInv
<1> QED
  BY <1>3, <1>4, <1>5, <1>6, SMTT(60) DEF IndInv

(* What the expiry round removes belongs to expired rows.                  *)
LEMMA RemoveExpiredStep ==
  ASSUME IndInv, RemoveExpired
  PROVE  IndInv'
<1>1. /\ UNCHANGED <<op, reserving, web, download, queue, run, ghost, snap,
                     worker, crashes>>
      /\ loop' # "unlink" /\ loop' \in {"remove", "read"}
      /\ due' \subseteq due
      /\ \A x \in Ops : file'[x] = file[x] \/ (x \in due /\ file'[x] = "none")
  BY SMTT(60) DEF RemoveExpired, webVars, IndInv, TypeOK
<1>2. TypeOK'
  BY SMTT(60) DEF RemoveExpired, webVars, IndInv, TypeOK
<1>3. OperationsOK'
  BY <1>1, SMTT(60) DEF IndInv, OperationsOK, OperationOK, Promised, Body
<1>4. SweepsOK'
  BY <1>1, SweepFrame, SMTT(60) DEF IndInv, Promised
<1>5. ReserveOK' /\ Capacity'
  BY <1>1, CapacityFrame, SMTT(60) DEF IndInv
<1> QED
  BY <1>2, <1>3, <1>4, <1>5 DEF IndInv

(* The sweep of the loop reads the keys.                                   *)
LEMMA SweepReadStep ==
  ASSUME IndInv, SweepRead
  PROVE  IndInv'
<1>1. /\ UNCHANGED <<op, reserving, web, download, queue, run, ghost, file, due,
                     worker, crashes>>
      /\ snap'["loop"] = ActiveKeys
      /\ \A x \in Ops : snap'[x] = snap[x]
  BY ExportConstants, SMTT(60) DEF SweepRead, webVars, IndInv, TypeOK
<1>2. TypeOK'
  BY SMTT(60) DEF SweepRead, webVars, IndInv, TypeOK, ActiveKeys
<1>3. OperationsOK'
  BY <1>1, SMTT(60) DEF IndInv, OperationsOK, OperationOK, Promised
<1>4. SweepsOK'
  <2>1. \A x \in Ops : (Promised(x)' <=> Promised(x)) /\ file'[x] = file[x]
    BY <1>1, SMTT(60) DEF Promised
  <2>2. Spares(snap["loop"])'
    BY <1>1, <2>1, KeysRead, SMTT(60) DEF Spares
  <2>3. \A a \in Ops : run'[a].pc = "unlink" => Spares(snap[a])'
    BY <1>1, <2>1, SMTT(60) DEF IndInv, SweepsOK, Spares
  <2> QED
    BY <2>2, <2>3, SMTT(60) DEF SweepsOK
<1>5. ReserveOK' /\ Capacity'
  BY <1>1, CapacityFrame DEF IndInv
<1> QED
  BY <1>2, <1>3, <1>4, <1>5 DEF IndInv

(* The sweep of the loop unlinks.                                          *)
LEMMA SweepUnlinkStep ==
  ASSUME IndInv, SweepUnlink
  PROVE  IndInv'
<1>1. /\ UNCHANGED <<op, reserving, web, download, queue, run, ghost, due, crashes>>
      /\ loop = "unlink" /\ loop' = "reconcile" /\ file' = Swept(snap["loop"])
      /\ \A x \in Ops : snap'[x] = snap[x]
  BY ExportConstants, SMTT(60) DEF SweepUnlink, webVars, IndInv, TypeOK
<1>2. TypeOK'
  BY DEF SweepUnlink, webVars, IndInv, TypeOK, Swept
<1>3. Spares(snap["loop"])
  BY <1>1, SMTT(60) DEF IndInv, SweepsOK
<1>4. /\ OperationsOK'
      /\ \A x \in Ops : Promised(x)' /\ file'[x] = "old"
                         => Promised(x) /\ file[x] = "old"
  BY SMTT(60), <1>1, <1>3, SweptOK
<1>5. SweepsOK'
  BY <1>1, <1>4, SweepFrame, SMTT(60) DEF IndInv
<1>6. ReserveOK' /\ Capacity'
  BY <1>1, CapacityFrame, SMTT(60) DEF IndInv
<1> QED
  BY <1>2, <1>4, <1>5, <1>6, SMTT(60) DEF IndInv

(* A round that raises drops what it still had to remove.                  *)
LEMMA LoopErrorStep ==
  ASSUME IndInv, LoopError
  PROVE  IndInv'
<1>1. /\ UNCHANGED <<op, reserving, web, download, queue, run, ghost, file, snap,
                     crashes>>
      /\ loop' # "unlink" /\ due' = {}
  BY SMTT(60) DEF LoopError, webVars, jobVars
<1>2. TypeOK'
  BY DEF LoopError, webVars, jobVars, IndInv, TypeOK
<1>3. OperationsOK'
  BY <1>1, ZenonT(60) DEF IndInv, OperationsOK, OperationOK, Promised
<1>4. SweepsOK'
  BY <1>1, SweepFrame DEF IndInv, Promised
<1>5. ReserveOK' /\ Capacity'
  BY <1>1, CapacityFrame, ZenonT(60) DEF IndInv
<1> QED
  BY <1>2, <1>3, <1>4, <1>5 DEF IndInv

(* A crash ends every job and remembers which were interrupted.            *)
LEMMA CrashStep ==
  ASSUME IndInv, Crash
  PROVE  IndInv'
<1>1. /\ UNCHANGED <<op, reserving, web, download, queue, file>>
      /\ loop' = "reconcile" /\ due' = {}
      /\ \A x \in Ops : /\ run'[x].aborted = run[x].aborted
                        /\ run'[x].pc \in {"idle", "done"}
  BY ZenonT(60) DEF Crash, webVars, Returned, NoRun, IndInv, TypeOK, Run
<1>2. TypeOK'
  <2>1. TypeOK /\ MaxCrashes \in Nat
    BY ExportConstants, Zenon DEF IndInv
  <2>2. run' \in [Ops -> Run]
    BY <2>1, RunEdits, ZenonT(60) DEF Crash, TypeOK
  <2>3. crashes' \in 0 .. MaxCrashes
    BY <2>1, SMTT(60) DEF Crash, TypeOK
  <2> QED
    BY <2>1, <2>2, <2>3 DEF Crash, webVars, TypeOK
<1>3. OperationsOK'
  BY <1>1, SMTT(60) DEF IndInv, OperationsOK, OperationOK, Promised, Body
<1>4. SweepsOK'
  BY <1>1 DEF SweepsOK
<1>5. ReserveOK' /\ Capacity'
  BY <1>1, CapacityFrame DEF IndInv
<1> QED
  BY <1>2, <1>3, <1>4, <1>5 DEF IndInv

-----------------------------------------------------------------------------
(* The invariant.                                                          *)

(* It holds when nothing has been reserved.                                *)
LEMMA InitInv == Init => IndInv
<1> SUFFICES ASSUME Init PROVE IndInv
  BY SMTT(60)
<1>1. TypeOK
  BY ExportConstants, SMTT(60) DEF Init, TypeOK, NoRow, NoRun, Row, Run,
     Statuses, Points
<1>2. OperationsOK
  BY SMTT(60) DEF Init, OperationsOK, OperationOK, Promised, NoRow, NoRun, Body
<1>3. SweepsOK
  BY SMTT(60) DEF Init, SweepsOK, NoRun
<1>4. ActiveOps = {}
  BY DEF Init, ActiveOps, NoRow, Active
<1>5. ReserveOK /\ Capacity
  BY <1>4, FS_EmptySet, ExportConstants, SMTT(60) DEF Init, ReserveOK, Capacity
<1> QED
  BY <1>1, <1>2, <1>3, <1>5 DEF IndInv

(* Every step keeps it.                                                    *)
LEMMA NextInv == IndInv /\ [Next]_vars => IndInv'
<1> SUFFICES ASSUME IndInv, [Next]_vars PROVE IndInv'
  OBVIOUS
<1>1. ASSUME NEW o \in Ops, Web(o) PROVE IndInv'
  BY ZenonT(60), <1>1, BeginReserveStep, CommitReserveStep,
     RollbackReserveStep, PublishStep, FailQueuedStep, CancelOwnedStep,
     ClaimDownloadStep, OpenArtifactStep, MarkCorruptStep DEF Web
<1>2. ASSUME NEW o \in Ops,
             Claim(o) \/ Interrupt(o) \/ Heartbeat(o) \/ GhostPersist(o) \/ Job(o)
      PROVE  IndInv'
  BY ZenonT(60), <1>2, ClaimStep, InterruptStep, HeartbeatStep,
     GhostPersistStep, BuildStep, PersistStep, CompleteStep, DiscardStep,
     AbortRemoveStep, FailRunningStep, FinishReadStep, FinishUnlinkStep DEF Job
<1>3. ASSUME NEW o \in Ops, Time(o) PROVE IndInv'
  BY <1>3, LapseLeaseStep, AgeQueuedStep, PassTTLStep, AgeFileStep, SMTT(60)
     DEF Time
<1>4. ASSUME Loop PROVE IndInv'
  BY ZenonT(60), <1>4, StartStep, ReconcileStep, ClaimExpiredStep,
     RemoveExpiredStep, SweepReadStep, SweepUnlinkStep, LoopErrorStep,
     CrashStep DEF Loop
<1>5. CASE UNCHANGED vars
  BY <1>5, SMTT(60) DEF vars, IndInv, TypeOK, OperationsOK, OperationOK,
     SweepsOK, Spares, Promised, ReserveOK, Capacity, ActiveOps
<1> QED
  BY <1>1, <1>2, <1>3, <1>4, <1>5, SMTT(60) DEF Next

(* The invariant of the exports: every operation is right on its own, a    *)
(* sweep spares what was promised, and a reservation has room.             *)
THEOREM ExportInvariant == Spec => []IndInv
BY InitInv, NextInv, PTL DEF Spec

(* Type correctness: the rows, jobs, files and sweeps of the exports stay  *)
(* within their types; in particular a row is claimed at most once         *)
(* (ExportOperations.Claim never makes a second epoch).                    *)
THEOREM ExportTypes == Spec => []TypeOK
<1>1. IndInv => TypeOK
  BY DEF IndInv
<1> QED
  BY <1>1, ExportInvariant, PTL

(* reserve's advisory lock keeps the global cap and the one active         *)
(* operation of a requester, for any number of concurrent handlers.        *)
THEOREM ExportCapacity == Spec => []Capacity
<1>1. IndInv => Capacity
  BY ZenonT(60) DEF IndInv
<1> QED
  BY <1>1, ExportInvariant, PTL

(* The artifact of a completed operation whose job was not interrupted is  *)
(* there until the TTL, whatever sweeps, expiry rounds, crashes and other  *)
(* jobs interleave.                                                        *)
THEOREM ExportArtifactKept == Spec => []ArtifactKept
<1>1. IndInv => ArtifactKept
  BY SMTT(60) DEF IndInv, OperationsOK, OperationOK, Promised, ArtifactKept
<1> QED
  BY <1>1, ExportInvariant, PTL

(* mark_corrupt never condemns a healthy artifact before its TTL, however  *)
(* long a download waits between its row and its file.                     *)
THEOREM ExportIntegrity == Spec => []IntegrityFailureJustified
<1>1. IndInv => IntegrityFailureJustified
  BY SMTT(60) DEF IndInv, OperationsOK, OperationOK, IntegrityFailureJustified
<1> QED
  BY <1>1, ExportInvariant, PTL

-----------------------------------------------------------------------------
(* The transition trigger.                                                 *)

(* A statement that changes one row the way the trigger allows, whatever   *)
(* its WHERE clause found.                                                 *)
LEMMA GuardRow ==
  ASSUME TypeOK, NEW o \in Ops, NEW r, op' = [op EXCEPT ![o] = r],
         \/ r = op[o]
         \/ op[o].status = "absent"
         \/ op[o].status = "queued" /\ r.status \in {"queued", "running", "failed",
                                                    "cancelled"}
         \/ /\ op[o].status = "running"
            /\ r.status \in {"running", "completed", "failed", "cancelled"}
            /\ r.epoch = op[o].epoch
         \/ /\ op[o].status = "completed"
            /\ \/ r.status = "completed" /\ r.claimed /\ ~op[o].claimed
               \/ r.status = "completed" /\ PassTTL(o)
               \/ r.status = "expired"
               \/ r.status = "failed" /\ r.integrity
  PROVE  GuardStep
<1>1. op'[o] = r /\ \A x \in Ops : x # o => op'[x] = op[x]
  BY DEF TypeOK
<1> QED
  BY <1>1, SMTT(60) DEF GuardStep, Terminal

(* The statements of the web process.                                      *)
LEMMA WebGuard ==
  ASSUME IndInv, NEW o \in Ops, Web(o)
  PROVE  GuardStep
<1>1. TypeOK /\ op[o] \in Row /\ OperationOK(o)
  BY SMTT(60) DEF IndInv, TypeOK, OperationsOK
<1>2. CASE UNCHANGED op
  BY <1>2 DEF GuardStep
<1>3. CASE CommitReserve(o)
  <2>1. /\ op' = [op EXCEPT ![o] = [op[o] EXCEPT !.status = "queued"]]
        /\ op[o].status = "absent"
    BY <1>1, <1>3, SMTT(60) DEF CommitReserve, OperationOK, TypeOK
  <2> QED
    BY <1>1, <2>1, GuardRow, ZenonT(60)
<1>4. CASE op[o].status = "queued" /\ op' = Settled(o, "failed")
  <2> DEFINE r == [op[o] EXCEPT !.status = "failed", !.leased = FALSE,
                                !.stale = FALSE]
  <2>1. op' = [op EXCEPT ![o] = r] /\ r.status = "failed"
    BY <1>1, <1>4, ZenonT(60) DEF Settled, TypeOK, Row
  <2> QED
    BY <1>1, <1>4, <2>1, GuardRow, ZenonT(60)
<1>5. CASE CancelOwned(o)
  <2> DEFINE r == [op[o] EXCEPT !.status = "cancelled", !.leased = FALSE,
                                !.stale = FALSE]
  <2>1. /\ op' = [op EXCEPT ![o] = r] /\ r.status = "cancelled"
        /\ r.epoch = op[o].epoch /\ op[o].status \in Active
    BY <1>1, <1>5, ZenonT(60) DEF CancelOwned, Settled, TypeOK, Row
  <2> QED
    BY <1>1, <2>1, GuardRow, Zenon DEF Active
<1>6. CASE ClaimDownload(o)
  <2> DEFINE r == [op[o] EXCEPT !.claimed = TRUE]
  <2>1. /\ op' = [op EXCEPT ![o] = r] /\ r.status = "completed"
        /\ op[o].status = "completed" /\ r.claimed
        /\ op[o].claimed => r = op[o]
    BY <1>1, <1>6 DEF ClaimDownload, TypeOK, Row
  <2> QED
    BY <1>1, <2>1, GuardRow, ZenonT(60)
<1>7. CASE /\ op[o].status = "completed"
           /\ op' = [op EXCEPT ![o].status = "failed", ![o].integrity = TRUE]
  <2> DEFINE r == [op[o] EXCEPT !.status = "failed", !.integrity = TRUE]
  <2>1. op' = [op EXCEPT ![o] = r] /\ r.status = "failed" /\ r.integrity
    BY <1>1, <1>7, ZenonT(60) DEF TypeOK, Row
  <2> QED
    BY <1>1, <1>7, <2>1, GuardRow, ZenonT(60)
<1> QED
  BY SMTT(60), <1>2, <1>3, <1>4, <1>5, <1>6, <1>7
     DEF Web, BeginReserve, RollbackReserve, Publish, FailQueued, OpenArtifact,
         MarkCorrupt

(* The statements of the job.                                              *)
LEMMA JobGuard ==
  ASSUME IndInv, NEW o \in Ops,
         Claim(o) \/ Interrupt(o) \/ Heartbeat(o) \/ GhostPersist(o) \/ Job(o)
  PROVE  GuardStep
<1>1. TypeOK /\ op[o] \in Row
  BY ZenonT(60) DEF IndInv, TypeOK
<1>2. CASE UNCHANGED op
  BY <1>2 DEF GuardStep
<1>3. CASE /\ op[o].status = "queued"
           /\ op' = [op EXCEPT ![o].status = "running", ![o].epoch = @ + 1,
                               ![o].leased = TRUE, ![o].stale = FALSE]
  <2> DEFINE r == [op[o] EXCEPT !.status = "running", !.epoch = @ + 1,
                                !.leased = TRUE, !.stale = FALSE]
  <2>1. op' = [op EXCEPT ![o] = r] /\ r.status = "running"
    BY <1>1, <1>3, SMTT(60) DEF TypeOK, Row
  <2> QED
    BY <1>1, <1>3, <2>1, GuardRow, ZenonT(60)
<1>4. CASE Fence(o) /\ op' = [op EXCEPT ![o].leased = TRUE]
  <2> DEFINE r == [op[o] EXCEPT !.leased = TRUE]
  <2>1. /\ op' = [op EXCEPT ![o] = r] /\ r.status = "running"
        /\ r.epoch = op[o].epoch /\ op[o].status = "running"
    BY <1>1, <1>4 DEF Fence, TypeOK, Row
  <2> QED
    BY <1>1, <2>1, GuardRow, ZenonT(60)
<1>5. CASE /\ Fence(o)
           /\ op' = [op EXCEPT ![o].status = "completed", ![o].leased = FALSE]
  <2> DEFINE r == [op[o] EXCEPT !.status = "completed", !.leased = FALSE]
  <2>1. /\ op' = [op EXCEPT ![o] = r] /\ r.status = "completed"
        /\ r.epoch = op[o].epoch /\ op[o].status = "running"
    BY <1>1, <1>5, ZenonT(60) DEF Fence, TypeOK, Row
  <2> QED
    BY <1>1, <2>1, GuardRow, ZenonT(60)
<1>6. ASSUME NEW s \in {"failed", "cancelled"}, Fence(o), op' = Settled(o, s)
      PROVE  GuardStep
  <2> DEFINE r == [op[o] EXCEPT !.status = s, !.leased = FALSE, !.stale = FALSE]
  <2>1. /\ op' = [op EXCEPT ![o] = r] /\ r.status \in {"failed", "cancelled"}
        /\ r.epoch = op[o].epoch /\ op[o].status = "running"
    BY <1>1, <1>6, ZenonT(60) DEF Fence, Settled, TypeOK, Row
  <2> QED
    BY <1>1, <2>1, GuardRow, Zenon
<1> QED
  BY <1>2, <1>3, <1>4, <1>5, <1>6, ZenonT(60) DEF Claim, Interrupt, Heartbeat,
     GhostPersist, Job, Build, Persist, Complete, Discard, AbortRemove,
     FailRunning, FinishRead, FinishUnlink

(* Time changes what the statements compare, and expiry and reconciliation *)
(* end rows the trigger lets them end.                                     *)
LEMMA TimeGuard ==
  ASSUME IndInv, NEW o \in Ops, Time(o)
  PROVE  GuardStep
<1>1. TypeOK /\ op[o] \in Row
  BY DEF IndInv, TypeOK
<1>2. CASE LapseLease(o)
  <2> DEFINE r == [op[o] EXCEPT !.leased = FALSE]
  <2>1. /\ op' = [op EXCEPT ![o] = r] /\ r.status = "running"
        /\ r.epoch = op[o].epoch /\ op[o].status = "running"
    BY <1>1, <1>2 DEF LapseLease, TypeOK, Row
  <2> QED
    BY <1>1, <2>1, GuardRow, ZenonT(60)
<1>3. CASE AgeQueued(o)
  <2> DEFINE r == [op[o] EXCEPT !.stale = TRUE]
  <2>1. /\ op' = [op EXCEPT ![o] = r] /\ r.status = "queued"
        /\ op[o].status = "queued"
    BY <1>1, <1>3 DEF AgeQueued, TypeOK, Row
  <2> QED
    BY <1>1, <2>1, GuardRow, ZenonT(60)
<1>4. CASE PassTTL(o)
  <2> DEFINE r == [op[o] EXCEPT !.over = TRUE]
  <2>1. /\ op' = [op EXCEPT ![o] = r] /\ r.status = "completed"
        /\ op[o].status = "completed"
    BY <1>1, <1>4, SMTT(60) DEF PassTTL, TypeOK, Row
  <2> QED
    BY <1>1, <1>4, <2>1, GuardRow, ZenonT(60)
<1>5. CASE AgeFile(o)
  BY <1>5, SMTT(60) DEF AgeFile, GuardStep
<1> QED
  BY <1>2, <1>3, <1>4, <1>5, SMTT(60) DEF Time

(* The statements of the cleanup loop.                                     *)
LEMMA LoopGuard ==
  ASSUME IndInv, Loop
  PROVE  GuardStep
<1>1. TypeOK /\ \A x \in Ops : op[x] \in Row
  BY DEF IndInv, TypeOK
<1>2. CASE Reconcile
  <2>1. ASSUME NEW x \in Ops, op'[x] # op[x]
        PROVE  /\ op[x].status \in Active
               /\ op'[x].status = "failed"
    BY <1>1, <1>2, <2>1, ZenonT(60) DEF Reconcile, Stale, Active, Row
  <2> QED
    BY <2>1, ZenonT(60) DEF GuardStep, Active, Terminal
<1>3. CASE ClaimExpired
  <2>1. ASSUME NEW x \in Ops, op'[x] # op[x]
        PROVE  op[x].status = "completed" /\ op'[x].status = "expired"
    BY <1>1, <1>3, <2>1, SMTT(60) DEF ClaimExpired, Row
  <2> QED
    BY <2>1, SMTT(60) DEF GuardStep, Terminal
<1>4. CASE UNCHANGED op
  BY <1>4 DEF GuardStep
<1> QED
  BY <1>2, <1>3, <1>4, SMTT(60) DEF Loop, Start, RemoveExpired, SweepRead,
     SweepUnlink, LoopError, Crash

(* Whatever a statement of the repository races with, the transition       *)
(* trigger accepts the row it writes.                                      *)
THEOREM ExportGuard == Spec => GuardAccepts
<1>1. IndInv /\ [Next]_vars => [GuardStep]_vars
  BY WebGuard, JobGuard, TimeGuard, LoopGuard DEF Next
<1> QED
  BY <1>1, ExportInvariant, PTL DEF Spec, GuardAccepts
=============================================================================
