---------------------------- MODULE OutboxProofs ----------------------------
(***************************************************************************)
(* Proofs about the transactional outbox, for every set of events,         *)
(* aggregates, dispatchers and effects and every value of the limits.      *)
(***************************************************************************)
EXTENDS Outbox, TLAPS

(* A row that is claimable has an attempt left and was last touched no     *)
(* later than it became due; a claimed row was touched before its lease    *)
(* ends; the fence counts the attempts.                                    *)
RowOK(r) ==
  /\ r.claim_epoch = MaxAttempts * r.replay_count + r.attempt_count
  /\ r.state = "absent" => r.claim_epoch = 0
  /\ r.state = "pending" =>
       r.attempt_count < MaxAttempts /\ r.updated_at <= r.available_at
  /\ r.state = "processing" =>
       /\ r.attempt_count > 0
       /\ r.updated_at <= r.lease_until
  /\ r.state = "dead" => r.attempt_count = MaxAttempts

RowInv == \A e \in Events : RowOK(ev[e])

(* The open producer of an aggregate holds a sequence number beyond every  *)
(* committed one.                                                          *)
OpenInv ==
  \A a \in Aggregates : open[a] # None =>
    /\ AggOf[open[a].event] = a
    /\ ~Committed(open[a].event)
    /\ \A e \in InLog(a) : ev[e].seq < open[a].seq

(* What a reclaim saw as received stays received.                          *)
ClaimInv ==
  \A o \in Owners : claim[o] # None =>
    \A e \in claim[o].received : receipts[e] # None

TaskOK(k) ==
  /\ k.since <= clock
  /\ Committed(k.event)
  /\ k.epoch <= ev[k.event].claim_epoch
  /\ k.pc \in {"renew", "receipt", "insert"} => k.effect \in Effects
  /\ k.pc = "insert" =>
       /\ ev[k.event].state = "processing"
       /\ ev[k.event].claim_owner = k.owner
       /\ ev[k.event].claim_epoch = k.epoch
  /\ k.pc \in {"confirm", "stop", "complete"} => receipts[k.event] # None

TaskInv ==
  /\ \A k \in tasks : TaskOK(k)
  /\ \A k, l \in tasks : k.event = l.event /\ k.epoch = l.epoch => k = l

IndInv ==
  /\ TypeOK /\ RowInv /\ OpenInv /\ ClaimInv /\ TaskInv
  /\ AggregateOrder /\ CompletedHasReceipt

-----------------------------------------------------------------------------
(* What each statement does to one row.                                    *)

(* A claimed row is well formed and counts one more attempt: the UPDATE of *)
(* _CLAIM_SQL.                                                             *)
LEMMA ClaimedRow ==
  ASSUME NEW r \in Row, RowOK(r), r.state = "pending",
         NEW o \in Owners, NEW now \in Nat
  PROVE  Claimed(r, o, now) \in Row /\ RowOK(Claimed(r, o, now))
<1>1. MaxAttempts \in Nat /\ Lease \in Nat
  BY OutboxConstants
<1>2. r.attempt_count + 1 \in 0 .. MaxAttempts
  BY <1>1 DEF RowOK, Row
<1>3. MaxAttempts * r.replay_count \in Nat
  BY <1>1 DEF Row
<1>4. Claimed(r, o, now) \in Row
  <2>1. now + Lease \in Nat /\ r.claim_epoch + 1 \in Nat
    BY <1>1 DEF Row
  <2> QED
    BY <1>2, <2>1, Zenon DEF Row, Claimed, States
<1>5. RowOK(Claimed(r, o, now))
  BY <1>1, <1>3 DEF Row, RowOK, Claimed
<1> QED
  BY <1>4, <1>5

(* A settled row is well formed, whichever way the lost attempt goes:      *)
(* _RECLAIM_EXPIRED_SQL and _MARK_FAILED_SQL.                              *)
LEMMA SettledRow ==
  ASSUME NEW r \in Row, RowOK(r), r.state = "processing", NEW b \in BOOLEAN,
         NEW now \in Nat, NEW due \in Nat, now <= due
  PROVE  /\ Settle(r, b, now, due) \in Row
         /\ RowOK(Settle(r, b, now, due))
         /\ Settle(r, b, now, due).state \in {"pending", "completed", "dead"}
         /\ Settle(r, b, now, due).seq = r.seq
         /\ Settle(r, b, now, due).claim_epoch = r.claim_epoch
         /\ Settle(r, b, now, due).state = "completed" <=> b
<1>1. MaxAttempts \in Nat
  BY OutboxConstants
<1>2. Settle(r, b, now, due) \in Row
  BY <1>1, Zenon DEF Row, Settle, States
<1>3. RowOK(Settle(r, b, now, due))
  <2>1. CASE b
    BY <1>1, <2>1 DEF Row, RowOK, Settle
  <2>2. CASE ~b /\ r.attempt_count = MaxAttempts
    BY <1>1, <2>2 DEF Row, RowOK, Settle
  <2>3. CASE ~b /\ r.attempt_count # MaxAttempts
    BY <1>1, <2>3 DEF Row, RowOK, Settle
  <2> QED
    BY <2>1, <2>2, <2>3
<1>4. /\ Settle(r, b, now, due).state \in {"pending", "completed", "dead"}
      /\ Settle(r, b, now, due).seq = r.seq
      /\ Settle(r, b, now, due).claim_epoch = r.claim_epoch
      /\ Settle(r, b, now, due).state = "completed" <=> b
  BY DEF Row, Settle
<1> QED
  BY <1>2, <1>3, <1>4

(* Renewing a lease keeps a row well formed: _RENEW_LEASE_SQL.             *)
LEMMA RenewedRow ==
  ASSUME NEW r \in Row, RowOK(r), r.state = "processing", NEW t \in Nat
  PROVE  Renewed(r, t) \in Row /\ RowOK(Renewed(r, t))
<1>1. t + Lease \in Nat /\ t <= t + Lease
  BY OutboxConstants
<1>2. Renewed(r, t) \in Row
  BY <1>1, Zenon DEF Row, Renewed
<1>3. RowOK(Renewed(r, t))
  BY <1>1 DEF Row, RowOK, Renewed
<1> QED
  BY <1>2, <1>3

(* Completing an event keeps its row well formed: _MARK_COMPLETED_SQL.     *)
LEMMA CompletedRow ==
  ASSUME NEW r \in Row, RowOK(r), r.state = "processing", NEW t \in Nat
  PROVE  Completed(r, t) \in Row /\ RowOK(Completed(r, t))
BY OutboxConstants, Zenon DEF Row, RowOK, Completed, States

(* A replay starts a new cycle of attempts without touching the fence:     *)
(* replay_dead.                                                            *)
LEMMA ReplayedRow ==
  ASSUME NEW r \in Row, RowOK(r), r.state = "dead", NEW now \in Nat
  PROVE  Replayed(r, now) \in Row /\ RowOK(Replayed(r, now))
<1>1. MaxAttempts \in Nat \ {0} /\ r.replay_count \in Nat
  BY OutboxConstants DEF Row
<1>2. MaxAttempts * (r.replay_count + 1)
        = MaxAttempts * r.replay_count + MaxAttempts
  BY <1>1
<1>3. Replayed(r, now) \in Row
  <2>1. r.replay_count + 1 \in Nat /\ 0 \in 0 .. MaxAttempts
    BY <1>1
  <2> QED
    BY <2>1, Zenon DEF Row, Replayed, States
<1>4. RowOK(Replayed(r, now))
  BY <1>1, <1>2 DEF Row, RowOK, Replayed
<1> QED
  BY <1>3, <1>4
-----------------------------------------------------------------------------
(* Steps that rewrite one committed row, and steps of one delivery.        *)

(* The part of the invariant that speaks of rows and producers.            *)
DataInv ==
  /\ ev \in [Events -> Row]
  /\ RowInv /\ OpenInv /\ AggregateOrder /\ CompletedHasReceipt

(* Rewriting one row that is neither absent nor completed keeps the row,   *)
(* producer and order invariants, provided the fence and the sequence      *)
(* number stay and a completed event has its receipt.                      *)
LEMMA RowUpdate ==
  ASSUME IndInv, NEW e \in Events, NEW r \in Row, RowOK(r),
         ev[e].state \in {"pending", "processing", "dead"},
         r.state \in {"pending", "processing", "completed", "dead"},
         r.seq = ev[e].seq, r.claim_epoch = ev[e].claim_epoch,
         r.state = "completed" => receipts[e] # None,
         \A k \in tasks : k.event = e => k.pc # "insert",
         ev' = [ev EXCEPT ![e] = r],
         UNCHANGED <<clock, receipts, open>>
  PROVE  DataInv' /\ \A k \in tasks : TaskOK(k)'
<1>1. /\ ev \in [Events -> Row] /\ RowInv /\ OpenInv /\ AggregateOrder
      /\ CompletedHasReceipt /\ \A k \in tasks : TaskOK(k) /\ k \in Task
      /\ AggOf \in [Events -> Aggregates]
  BY OutboxConstants, Zenon DEF IndInv, TypeOK, TaskInv
<1>2. /\ ev' \in [Events -> Row]
      /\ ev'[e] = r
      /\ \A x \in Events : x # e => ev'[x] = ev[x]
  BY <1>1
<1>3. \A x \in Events : /\ Committed(x)' <=> Committed(x)
                        /\ ev'[x].seq = ev[x].seq
                        /\ ev'[x].claim_epoch = ev[x].claim_epoch
                        /\ ev[x].state = "completed" => ev'[x] = ev[x]
  BY <1>1, <1>2 DEF Committed
<1>4. RowInv'
  BY <1>1, <1>2 DEF RowInv, RowOK
<1>5. OpenInv'
  BY <1>1, <1>3 DEF OpenInv, InLog, IndInv, TypeOK, OpenEmit
<1>6. AggregateOrder'
  BY <1>1, <1>3 DEF AggregateOrder
<1>7. CompletedHasReceipt'
  BY <1>1, <1>2 DEF CompletedHasReceipt
<1>8. ASSUME NEW k \in tasks PROVE TaskOK(k)'
  <2>1. k.event \in Events /\ TaskOK(k)
    BY <1>1 DEF Task
  <2>2. k.event = e => k.pc # "insert"
    OBVIOUS
  <2> QED
    BY <2>1, <2>2, <1>2, <1>3 DEF TaskOK
<1> QED
  BY <1>2, <1>4, <1>5, <1>6, <1>7, <1>8 DEF DataInv

(* Replacing one delivery by its next point keeps deliveries distinct.     *)
LEMMA TaskReplace ==
  ASSUME IndInv, NEW k \in tasks, NEW m \in Task,
         m.event = k.event, m.epoch = k.epoch, TaskOK(m)',
         \A l \in tasks : l # k => TaskOK(l)',
         tasks' = (tasks \ {k}) \cup {m}
  PROVE  TaskInv' /\ tasks' \subseteq Task
BY DEF IndInv, TaskInv, TypeOK

(* So does ending one.                                                     *)
LEMMA TaskDrop ==
  ASSUME IndInv, NEW k \in tasks, \A l \in tasks : TaskOK(l)',
         tasks' = tasks \ {k}
  PROVE  TaskInv' /\ tasks' \subseteq Task
BY DEF IndInv, TaskInv, TypeOK
-----------------------------------------------------------------------------
(* One step of a delivery preserves the invariant.                         *)

(* A delivery step that leaves the rows and receipts alone, moving k to m  *)
(* or ending it.                                                           *)
LEMMA QuietStep ==
  ASSUME IndInv, NEW k \in tasks, UNCHANGED <<clock, ev, receipts, open, claim>>,
         \/ tasks' = tasks \ {k}
         \/ \E m \in Task : /\ m.event = k.event /\ m.epoch = k.epoch
                            /\ TaskOK(m)
                            /\ tasks' = (tasks \ {k}) \cup {m}
  PROVE  IndInv'
<1>1. \A m \in Task : TaskOK(m)' <=> TaskOK(m)
  BY DEF TaskOK, Committed
<1>2. \A l \in tasks : TaskOK(l)'
  BY <1>1 DEF IndInv, TaskInv, TypeOK
<1>3. TaskInv' /\ tasks' \subseteq Task
  <2>1. CASE tasks' = tasks \ {k}
    BY <1>2, <2>1, TaskDrop
  <2>2. CASE \E m \in Task : /\ m.event = k.event /\ m.epoch = k.epoch
                             /\ TaskOK(m)
                             /\ tasks' = (tasks \ {k}) \cup {m}
    BY <1>1, <1>2, <2>2, TaskReplace
  <2> QED
    BY <2>1, <2>2
<1> QED
  BY <1>3 DEF IndInv, TypeOK, RowInv, OpenInv, ClaimInv, AggregateOrder,
              CompletedHasReceipt, InLog, Committed

(* A delivery step that rewrites the row of its event.                     *)
LEMMA LoudStep ==
  ASSUME IndInv, NEW k \in tasks, DataInv', \A l \in tasks : TaskOK(l)',
         UNCHANGED <<clock, receipts, open, claim>>,
         \/ tasks' = tasks \ {k}
         \/ \E m \in Task : /\ m.event = k.event /\ m.epoch = k.epoch
                            /\ TaskOK(m)'
                            /\ tasks' = (tasks \ {k}) \cup {m}
  PROVE  IndInv'
<1>1. TaskInv' /\ tasks' \subseteq Task
  <2>1. CASE tasks' = tasks \ {k}
    BY <2>1, TaskDrop
  <2>2. CASE \E m \in Task : /\ m.event = k.event /\ m.epoch = k.epoch
                             /\ TaskOK(m)'
                             /\ tasks' = (tasks \ {k}) \cup {m}
    BY <2>2, TaskReplace
  <2> QED
    BY <2>1, <2>2
<1>2. ClaimInv'
  BY DEF IndInv, ClaimInv
<1> QED
  BY <1>1, <1>2 DEF IndInv, TypeOK, DataInv

(* Moving a delivery to a point whose own obligations hold keeps it well   *)
(* formed.                                                                 *)
LEMMA AdvancedTask ==
  ASSUME IndInv, NEW k \in tasks, NEW pc \in Points
  PROVE  \E m \in Task : /\ m = [k EXCEPT !.pc = pc, !.since = clock]
                         /\ m.event = k.event /\ m.epoch = k.epoch
                         /\ m.pc = pc /\ m.since = clock
                         /\ m.effect = k.effect /\ m.owner = k.owner
<1> DEFINE n == [k EXCEPT !.pc = pc, !.since = clock]
<1>1. n \in Task /\ n.event = k.event /\ n.epoch = k.epoch /\ n.pc = pc
      /\ n.since = clock /\ n.effect = k.effect /\ n.owner = k.owner
  BY ZenonT(60) DEF IndInv, TypeOK, Task
<1> QED
  BY <1>1, Zenon

(* The consumer call.                                                      *)
LEMMA ConsumeStep ==
  ASSUME IndInv, NEW k \in tasks, Consume(k)
  PROVE  IndInv'
<1>0. k \in Task /\ TaskOK(k) /\ clock \in Times /\ clock \in Nat
  BY OutboxConstants DEF IndInv, TypeOK, TaskInv, Times
<1>1. ASSUME NEW x \in Effects,
             tasks' = (tasks \ {k}) \cup
               {[k EXCEPT !.pc = "renew", !.since = clock, !.effect = x]}
      PROVE  IndInv'
  <2> DEFINE m == [k EXCEPT !.pc = "renew", !.since = clock, !.effect = x]
  <2>1. m \in Task /\ m.event = k.event /\ m.epoch = k.epoch
    BY <1>0, Zenon DEF Task, Points
  <2>2. TaskOK(m)
    BY <1>0, SMTT(60) DEF TaskOK, Task
  <2> QED
    BY <1>1, <2>1, <2>2, QuietStep DEF Consume
<1>2. CASE Advance(k, "fconfirm")
  <2> DEFINE m == [k EXCEPT !.pc = "fconfirm", !.since = clock]
  <2>1. m \in Task /\ m.event = k.event /\ m.epoch = k.epoch
    BY <1>0, Zenon DEF Task, Points
  <2>2. TaskOK(m)
    BY <1>0 DEF TaskOK, Task
  <2> QED
    BY <1>2, <2>1, <2>2, QuietStep, ZenonT(60) DEF Consume, Advance
<1>3. CASE Drop(k)
  BY <1>3, QuietStep, Zenon DEF Consume, Drop
<1> QED
  BY <1>1, <1>2, <1>3, Zenon DEF Consume

(* Advancing k to pc without touching rows or receipts.                    *)
LEMMA QuietAdvance ==
  ASSUME IndInv, NEW k \in tasks, NEW pc \in Points, Advance(k, pc),
         UNCHANGED <<clock, ev, receipts, open, claim>>,
         pc \in {"receipt", "insert"} => k.effect \in Effects,
         pc = "insert" => /\ ev[k.event].state = "processing"
                          /\ ev[k.event].claim_owner = k.owner
                          /\ ev[k.event].claim_epoch = k.epoch,
         pc \in {"confirm", "stop", "complete"} => receipts[k.event] # None,
         pc # "renew"
  PROVE  IndInv'
<1>1. PICK m \in Task : /\ m = [k EXCEPT !.pc = pc, !.since = clock]
                        /\ m.event = k.event /\ m.epoch = k.epoch
                        /\ m.pc = pc /\ m.since = clock
                        /\ m.effect = k.effect /\ m.owner = k.owner
  BY AdvancedTask, Zenon
<1>2. TaskOK(k) /\ clock \in Nat
  BY DEF IndInv, TaskInv, TypeOK, Times
<1>3. TaskOK(m)
  BY <1>1, <1>2 DEF TaskOK
<1> QED
  BY <1>1, <1>3, QuietStep, Zenon DEF Advance

(* A lease renewal keeps the data invariant and every delivery's.          *)
LEMMA RenewStep ==
  ASSUME IndInv, NEW k \in tasks, NEW t \in Nat, RenewLease(k, t),
         UNCHANGED <<clock, receipts, open>>
  PROVE  /\ DataInv' /\ \A l \in tasks : TaskOK(l)'
         /\ ev'[k.event].claim_epoch = ev[k.event].claim_epoch
         /\ Committed(k.event)'
<1>1. k \in Task /\ k.event \in Events /\ ev \in [Events -> Row]
  BY DEF IndInv, TypeOK, Task
<1> DEFINE r == Renewed(ev[k.event], t)
<1>2. ev[k.event] \in Row /\ RowOK(ev[k.event])
      /\ ev[k.event].state = "processing"
  BY <1>1 DEF IndInv, RowInv, RenewLease, Fence
<1>3. r \in Row /\ RowOK(r)
  BY <1>2, RenewedRow
<1>4. r.state = "processing" /\ r.seq = ev[k.event].seq
      /\ r.claim_epoch = ev[k.event].claim_epoch
  BY <1>2 DEF Renewed, Row
<1>5. \A l \in tasks : l.event = k.event => l.pc # "insert"
  BY DEF RenewLease, RowLocked
<1>6. ev' = [ev EXCEPT ![k.event] = r]
  BY DEF RenewLease
<1>7. DataInv' /\ \A l \in tasks : TaskOK(l)'
  <2> HIDE DEF r
  <2> QED
    BY <1>1, <1>2, <1>3, <1>4, <1>5, <1>6, RowUpdate, Zenon
<1> QED
  BY <1>1, <1>4, <1>6, <1>7 DEF Committed

(* Advancing k to pc in a step that rewrites the row of its event.         *)
LEMMA LoudAdvance ==
  ASSUME IndInv, NEW k \in tasks, NEW pc \in Points, Advance(k, pc),
         DataInv', \A l \in tasks : TaskOK(l)',
         UNCHANGED <<clock, receipts, open, claim>>,
         pc = "receipt" => k.effect \in Effects,
         pc \in {"confirm", "stop", "complete"} => receipts[k.event] # None,
         pc \notin {"renew", "insert"}
  PROVE  IndInv'
<1>1. PICK m \in Task : /\ m = [k EXCEPT !.pc = pc, !.since = clock]
                        /\ m.event = k.event /\ m.epoch = k.epoch
                        /\ m.pc = pc /\ m.since = clock
                        /\ m.effect = k.effect /\ m.owner = k.owner
  BY AdvancedTask, Zenon
<1>2. TaskOK(k)' /\ clock \in Nat
  BY DEF IndInv, TypeOK, Times
<1>3. TaskOK(m)'
  BY <1>1, <1>2 DEF TaskOK
<1>4. tasks' = (tasks \ {k}) \cup {m}
  BY <1>1 DEF Advance
<1> QED
  BY <1>1, <1>3, <1>4, LoudStep, Zenon

(* _renew_claim called by the delivery.                                    *)
LEMMA RenewClaimStep ==
  ASSUME IndInv, NEW k \in tasks, RenewClaim(k)
  PROVE  IndInv'
<1>0. k.since \in Nat /\ clock \in Nat /\ TaskOK(k)
  BY DEF IndInv, TypeOK, Task, Times, TaskInv
<1>1. CASE UNCHANGED ev /\ Drop(k)
  BY <1>1, QuietStep DEF RenewClaim, Drop
<1>2. ASSUME NEW t \in k.since .. clock, RenewLease(k, t),
             Advance(k, AfterRenew(k.pc)) \/ Drop(k)
      PROVE  IndInv'
  <2>1. t \in Nat
    BY <1>0
  <2>2. UNCHANGED <<clock, receipts, open, claim>>
    BY SMTT(60) DEF RenewClaim
  <2>3. DataInv' /\ (\A l \in tasks : TaskOK(l)')
    BY <1>2, <2>1, <2>2, RenewStep
  <2>4. CASE Drop(k)
    BY <2>2, <2>3, <2>4, LoudStep, SMTT(60) DEF Drop
  <2>5. CASE Advance(k, AfterRenew(k.pc))
    <3>1. PICK pc \in Points : /\ pc = AfterRenew(k.pc)
                               /\ pc \in {"receipt", "stop", "fstop"}
                               /\ pc = "receipt" => k.pc = "renew"
                               /\ pc = "stop" => k.pc = "confirm"
      BY DEF AfterRenew, RenewClaim, Points
    <3>2. /\ pc = "receipt" => k.effect \in Effects
          /\ pc \in {"confirm", "stop", "complete"} => receipts[k.event] # None
          /\ pc \notin {"renew", "insert"}
      BY <1>0, <3>1 DEF TaskOK
    <3> QED
      BY <2>2, <2>3, <2>5, <3>1, <3>2, LoudAdvance
  <2> QED
    BY <1>2, <2>4, <2>5
<1> QED
  BY <1>1, <1>2 DEF RenewClaim

(* A renewal by the heartbeat, or its loss.                                *)
LEMMA HeartbeatStep ==
  ASSUME IndInv, NEW k \in tasks, Heartbeat(k)
  PROVE  IndInv'
<1>0. k \in Task /\ k.hb_since \in Nat /\ Beat \in Nat /\ clock \in Times
      /\ clock \in Nat /\ 0 \in Times /\ TaskOK(k)
  BY OutboxConstants DEF IndInv, TypeOK, Task, Times, TaskInv
<1>1. UNCHANGED <<clock, receipts, open, claim>>
  BY DEF Heartbeat
<1>2. ASSUME NEW t \in (k.hb_since + Beat) .. clock, RenewLease(k, t),
             tasks' = (tasks \ {k}) \cup {[k EXCEPT !.hb_since = clock]}
      PROVE  IndInv'
  <2>1. t \in Nat
    BY <1>0
  <2>2. DataInv' /\ (\A l \in tasks : TaskOK(l)')
    BY <1>1, <1>2, <2>1, RenewStep
  <2>3. PICK m \in Task : /\ m = [k EXCEPT !.hb_since = clock]
                          /\ m.event = k.event /\ m.epoch = k.epoch
                          /\ m.pc = k.pc /\ m.since = k.since
                          /\ m.effect = k.effect /\ m.owner = k.owner
    <3> DEFINE n == [k EXCEPT !.hb_since = clock]
    <3>1. n \in Task /\ n.event = k.event /\ n.epoch = k.epoch
          /\ n.pc = k.pc /\ n.since = k.since /\ n.effect = k.effect
          /\ n.owner = k.owner
      BY <1>0 DEF Task
    <3> QED
      BY <3>1, Zenon
  <2>4. TaskOK(k)'
    BY <2>2
  <2>5. TaskOK(m)'
    BY <2>3, <2>4 DEF TaskOK
  <2>6. tasks' = (tasks \ {k}) \cup {m}
    BY <1>2, <2>3
  <2> QED
    BY <1>1, <2>2, <2>3, <2>5, <2>6, LoudStep, Zenon
<1>3. CASE /\ UNCHANGED ev
           /\ tasks' = (tasks \ {k}) \cup
                       {[k EXCEPT !.hb = "lost", !.hb_since = 0]}
  <2> DEFINE m == [k EXCEPT !.hb = "lost", !.hb_since = 0]
  <2>1. m \in Task /\ m.event = k.event /\ m.epoch = k.epoch
        /\ m.pc = k.pc /\ m.since = k.since /\ m.effect = k.effect
        /\ m.owner = k.owner
    BY <1>0, Zenon DEF Task
  <2>2. TaskOK(m)
    <3> HIDE DEF m
    <3> QED
      BY <1>0, <2>1 DEF TaskOK
  <2> QED
    BY <1>1, <1>3, <2>1, <2>2, QuietStep, Zenon
<1> QED
  BY <1>2, <1>3 DEF Heartbeat

(* Waiting for the heartbeat to stop.                                      *)
LEMMA StopHeartbeatStep ==
  ASSUME IndInv, NEW k \in tasks, StopHeartbeat(k)
  PROVE  IndInv'
<1>0. k \in Task /\ clock \in Times /\ clock \in Nat /\ 0 \in Times /\ TaskOK(k)
  BY OutboxConstants DEF IndInv, TypeOK, Times, TaskInv
<1>1. CASE Drop(k)
  BY <1>1, QuietStep DEF StopHeartbeat, Drop
<1>2. ASSUME NEW pc \in {"complete", "fail"}, pc = "complete" => k.pc = "stop",
             tasks' = (tasks \ {k}) \cup
               {[k EXCEPT !.pc = pc, !.since = clock, !.hb = "stopped",
                          !.hb_since = 0]}
      PROVE  IndInv'
  <2> DEFINE m == [k EXCEPT !.pc = pc, !.since = clock, !.hb = "stopped",
                            !.hb_since = 0]
  <2>1. m \in Task /\ m.event = k.event /\ m.epoch = k.epoch
        /\ m.pc = pc /\ m.since = clock /\ m.effect = k.effect
        /\ m.owner = k.owner
    BY <1>0, Zenon DEF Task, Points
  <2>2. TaskOK(m)
    <3> HIDE DEF m
    <3> QED
      BY <1>0, <1>2, <2>1 DEF TaskOK
  <2> QED
    BY <1>2, <2>1, <2>2, QuietStep, Zenon DEF StopHeartbeat
<1> QED
  BY <1>1, <1>2, Zenon DEF StopHeartbeat

(* The fence test and row lock of record_receipt.                          *)
LEMMA LockForReceiptStep ==
  ASSUME IndInv, NEW k \in tasks, LockForReceipt(k)
  PROVE  IndInv'
<1>0. TaskOK(k) /\ "insert" \in Points /\ "fconfirm" \in Points
  BY DEF IndInv, TaskInv, Points
<1>1. ASSUME NEW t \in k.since .. clock, Fence(k, t), Advance(k, "insert")
      PROVE  IndInv'
  <2>1. /\ k.effect \in Effects
        /\ ev[k.event].state = "processing"
        /\ ev[k.event].claim_owner = k.owner
        /\ ev[k.event].claim_epoch = k.epoch
    BY <1>0, <1>1 DEF Fence, TaskOK, LockForReceipt
  <2> QED
    BY <1>0, <1>1, <2>1, QuietAdvance DEF LockForReceipt
<1>2. CASE Advance(k, "fconfirm")
  BY <1>0, <1>2, QuietAdvance DEF LockForReceipt
<1> QED
  BY <1>1, <1>2 DEF LockForReceipt

(* The receipt INSERT.                                                     *)
LEMMA RecordReceiptStep ==
  ASSUME IndInv, NEW k \in tasks, RecordReceipt(k)
  PROVE  IndInv'
<1>0. /\ TaskOK(k) /\ k \in Task /\ k.event \in Events
      /\ k.effect \in Effects /\ k.effect # None
      /\ "confirm" \in Points /\ "fconfirm" \in Points
  BY SMTT(60), OutboxConstants
     DEF IndInv, TaskInv, TypeOK, Task, Points, TaskOK, RecordReceipt
<1>1. CASE UNCHANGED receipts /\ Advance(k, "fconfirm")
  BY <1>0, <1>1, QuietAdvance DEF RecordReceipt
<1>2. CASE /\ receipts[k.event] = k.effect /\ UNCHANGED receipts
           /\ Advance(k, "confirm")
  BY <1>0, <1>2, QuietAdvance, SMTT(60) DEF RecordReceipt
<1>3. ASSUME NEW pc \in {"confirm", "fconfirm"}, Advance(k, pc),
             receipts[k.event] = None,
             receipts' = [receipts EXCEPT ![k.event] = k.effect]
      PROVE  IndInv'
  <2>1. PICK m \in Task : /\ m = [k EXCEPT !.pc = pc, !.since = clock]
                          /\ m.event = k.event /\ m.epoch = k.epoch
                          /\ m.pc = pc /\ m.since = clock
                          /\ m.effect = k.effect /\ m.owner = k.owner
    <3>1. pc \in Points
      BY <1>0
    <3> QED
      BY <3>1, AdvancedTask, Zenon
  <2>2. /\ receipts' \in [Events -> Effects \cup {None}]
        /\ receipts'[k.event] # None
        /\ \A e \in Events : receipts[e] # None => receipts'[e] # None
    BY <1>0, <1>3 DEF IndInv, TypeOK
  <2>3. UNCHANGED <<clock, ev, open, claim>>
    BY SMTT(60) DEF RecordReceipt
  <2>4. \A l \in tasks : TaskOK(l)'
    <3> SUFFICES ASSUME NEW l \in tasks PROVE TaskOK(l)'
      OBVIOUS
    <3>1. TaskOK(l) /\ l.event \in Events
      BY DEF IndInv, TaskInv, TypeOK, Task
    <3> QED
      BY <2>2, <2>3, <3>1 DEF TaskOK, Committed
  <2>5. TaskOK(m)'
    <3>1. TaskOK(k)' /\ clock \in Nat
      BY <2>4 DEF IndInv, TypeOK, Times
    <3> QED
      BY <1>3, <2>1, <2>2, <2>3, <3>1 DEF TaskOK
  <2>6. TaskInv' /\ tasks' \subseteq Task
    <3>1. tasks' = (tasks \ {k}) \cup {m}
      BY <1>3, <2>1 DEF Advance
    <3> QED
      BY <2>1, <2>4, <2>5, <3>1, TaskReplace, Zenon
  <2>7. ClaimInv'
    BY <2>2, <2>3 DEF IndInv, ClaimInv, TypeOK, OpenClaim
  <2>8. CompletedHasReceipt'
    BY <2>2, <2>3 DEF IndInv, CompletedHasReceipt
  <2> QED
    BY <2>2, <2>3, <2>6, <2>7, <2>8
       DEF IndInv, TypeOK, RowInv, OpenInv, AggregateOrder, InLog, Committed
<1> QED
  BY <1>1, <1>2, <1>3, SMTT(60) DEF RecordReceipt

(* mark_completed.                                                         *)
LEMMA MarkCompletedStep ==
  ASSUME IndInv, NEW k \in tasks, MarkCompleted(k)
  PROVE  IndInv'
<1>0. /\ TaskOK(k) /\ k \in Task /\ k.event \in Events /\ k.since \in Nat
      /\ clock \in Nat /\ ev \in [Events -> Row] /\ receipts[k.event] # None
      /\ "fconfirm" \in Points
  BY DEF IndInv, TaskInv, TypeOK, Task, Times, Points, TaskOK, MarkCompleted
<1>1. UNCHANGED <<clock, receipts, open, claim>>
  BY DEF MarkCompleted
<1>2. CASE UNCHANGED ev /\ Advance(k, "fconfirm")
  BY <1>0, <1>1, <1>2, QuietAdvance
<1>3. ASSUME NEW t \in k.since .. clock, Fence(k, t), ~RowLocked(k.event),
             ev' = [ev EXCEPT ![k.event] = Completed(@, t)],
             Drop(k) \/ Advance(k, "fconfirm")
      PROVE  IndInv'
  <2> DEFINE r == Completed(ev[k.event], t)
  <2>1. ev[k.event] \in Row /\ RowOK(ev[k.event]) /\ t \in Nat
        /\ ev[k.event].state = "processing"
    BY <1>0, <1>3 DEF IndInv, RowInv, Fence
  <2>2. r \in Row /\ RowOK(r)
    BY <2>1, CompletedRow
  <2>3. r.state = "completed" /\ r.seq = ev[k.event].seq
        /\ r.claim_epoch = ev[k.event].claim_epoch
    BY <2>1 DEF Completed, Row
  <2>4. ev' = [ev EXCEPT ![k.event] = r]
        /\ \A l \in tasks : l.event = k.event => l.pc # "insert"
    BY <1>3 DEF RowLocked
  <2>5. DataInv' /\ \A l \in tasks : TaskOK(l)'
    <3> HIDE DEF r
    <3> QED
      BY <1>0, <1>1, <2>1, <2>2, <2>3, <2>4, RowUpdate, ZenonT(60)
  <2>6. CASE Drop(k)
    BY <1>1, <2>5, <2>6, LoudStep, SMTT(60) DEF Drop
  <2>7. CASE Advance(k, "fconfirm")
    BY <1>0, <1>1, <2>5, <2>7, LoudAdvance
  <2> QED
    BY SMTT(60), <1>3, <2>6, <2>7
<1> QED
  BY <1>2, <1>3, SMTT(60) DEF MarkCompleted

(* gather() is left: the other deliveries of the batch run on detached.    *)
LEMMA DetachTasks ==
  ASSUME IndInv, NEW k \in tasks, \A l \in tasks : TaskOK(l)',
         tasks' = {IF m.owner = k.owner THEN [m EXCEPT !.detached = TRUE]
                   ELSE m : m \in tasks \ {k}}
  PROVE  TaskInv' /\ tasks' \subseteq Task
<1>1. ASSUME NEW n \in tasks'
      PROVE  \E m \in tasks : /\ n = IF m.owner = k.owner
                                     THEN [m EXCEPT !.detached = TRUE] ELSE m
                              /\ n \in Task /\ n.event = m.event
                              /\ n.epoch = m.epoch /\ n.pc = m.pc
                              /\ n.since = m.since /\ n.effect = m.effect
                              /\ n.owner = m.owner
  <2>1. PICK m \in tasks : n = IF m.owner = k.owner
                               THEN [m EXCEPT !.detached = TRUE] ELSE m
    BY <1>1
  <2>2. m \in Task
    BY DEF IndInv, TypeOK
  <2> QED
    BY <2>1, <2>2, Zenon DEF Task
<1>2. \A n \in tasks' : TaskOK(n)'
  <2> SUFFICES ASSUME NEW n \in tasks' PROVE TaskOK(n)'
    OBVIOUS
  <2>1. PICK m \in tasks : /\ n.event = m.event /\ n.epoch = m.epoch
                           /\ n.pc = m.pc /\ n.since = m.since
                           /\ n.effect = m.effect /\ n.owner = m.owner
    BY <1>1
  <2>2. TaskOK(m)'
    OBVIOUS
  <2> QED
    BY <2>1, <2>2 DEF TaskOK
<1>3. ASSUME NEW n \in tasks', NEW p \in tasks', n.event = p.event,
             n.epoch = p.epoch
      PROVE  n = p
  <2>1. PICK m \in tasks : /\ n = IF m.owner = k.owner
                                  THEN [m EXCEPT !.detached = TRUE] ELSE m
                           /\ n.event = m.event /\ n.epoch = m.epoch
    BY <1>1
  <2>2. PICK l \in tasks : /\ p = IF l.owner = k.owner
                                  THEN [l EXCEPT !.detached = TRUE] ELSE l
                           /\ p.event = l.event /\ p.epoch = l.epoch
    BY <1>1
  <2>3. m = l
    BY <1>3, <2>1, <2>2 DEF IndInv, TaskInv
  <2> QED
    BY <2>1, <2>2, <2>3
<1> QED
  BY <1>1, <1>2, <1>3 DEF TaskInv

(* mark_failed.                                                            *)
LEMMA MarkFailedStep ==
  ASSUME IndInv, NEW k \in tasks, MarkFailed(k)
  PROVE  IndInv'
<1>0. /\ TaskOK(k) /\ k \in Task /\ k.event \in Events /\ k.since \in Nat
      /\ clock \in Nat /\ ev \in [Events -> Row]
  BY DEF IndInv, TaskInv, TypeOK, Task, Times
<1>1. UNCHANGED <<clock, receipts, open, claim>>
  BY DEF MarkFailed
<1>2. DataInv' /\ \A l \in tasks : TaskOK(l)'
  <2>1. CASE UNCHANGED ev
    BY <1>1, <2>1 DEF IndInv, TypeOK, DataInv, RowInv, OpenInv, AggregateOrder,
                      CompletedHasReceipt, InLog, Committed, TaskInv, TaskOK
  <2>2. ASSUME NEW t \in k.since .. clock, Fence(k, t), ~RowLocked(k.event),
               ev' = [ev EXCEPT ![k.event] =
                        Settle(ev[k.event], receipts[k.event] # None, t,
                               t + RetryDelay[ev[k.event].attempt_count])]
        PROVE  DataInv' /\ \A l \in tasks : TaskOK(l)'
    <3> DEFINE due == t + RetryDelay[ev[k.event].attempt_count]
               b == receipts[k.event] # None
               r == Settle(ev[k.event], b, t, due)
    <3>1. ev[k.event] \in Row /\ RowOK(ev[k.event]) /\ t \in Nat
          /\ ev[k.event].state = "processing"
      BY <1>0, <2>2, SMTT(60) DEF IndInv, RowInv, Fence
    <3>2. ev[k.event].attempt_count \in 1 .. MaxAttempts
      BY <3>1, OutboxConstants, SMTT(60) DEF RowOK, Row
    <3>3. due \in Nat /\ t <= due
      <4>1. RetryDelay[ev[k.event].attempt_count] \in Nat
        BY <3>2, OutboxConstants
      <4> QED
        BY <3>1, <4>1
    <3>4. b \in BOOLEAN
      BY SMTT(60)
    <3>5. /\ r \in Row /\ RowOK(r)
          /\ r.state \in {"pending", "completed", "dead"}
          /\ r.seq = ev[k.event].seq /\ r.claim_epoch = ev[k.event].claim_epoch
          /\ r.state = "completed" <=> b
      <4> HIDE DEF due, b
      <4> QED
        BY SMTT(60), <3>1, <3>3, <3>4, SettledRow
    <3>6. ev' = [ev EXCEPT ![k.event] = r]
          /\ \A l \in tasks : l.event = k.event => l.pc # "insert"
      BY <2>2 DEF RowLocked
    <3> QED
      <4> HIDE DEF r
      <4> QED
        BY <1>0, <1>1, <3>1, <3>5, <3>6, RowUpdate, ZenonT(60)
  <2> QED
    BY <2>1, <2>2, ZenonT(60) DEF MarkFailed
<1>3. CASE Drop(k)
  BY <1>1, <1>2, <1>3, LoudStep DEF Drop
<1>4. CASE tasks' = {IF m.owner = k.owner THEN [m EXCEPT !.detached = TRUE]
                     ELSE m : m \in tasks \ {k}}
  <2>1. TaskInv' /\ tasks' \subseteq Task
    BY <1>2, <1>4, DetachTasks, Zenon
  <2>2. ClaimInv'
    BY <1>1 DEF IndInv, ClaimInv
  <2> QED
    BY <1>1, <1>2, <2>1, <2>2 DEF IndInv, TypeOK, DataInv
<1> QED
  BY <1>3, <1>4 DEF MarkFailed

-----------------------------------------------------------------------------
(* The steps of producers, operators, processes and the clock.             *)

(* replay_dead.                                                            *)
LEMMA ReplayDeadStep ==
  ASSUME IndInv, NEW e \in Events, ReplayDead(e)
  PROVE  IndInv'
<1>0. UNCHANGED <<clock, receipts, open, claim, tasks>>
      /\ ev[e] \in Row /\ RowOK(ev[e]) /\ ev[e].state = "dead"
  BY DEF ReplayDead, IndInv, TypeOK, RowInv
<1>1. PICK now \in Times : ev' = [ev EXCEPT ![e] = Replayed(ev[e], now)]
  BY Zenon DEF ReplayDead
<1> DEFINE r == Replayed(ev[e], now)
<1>2. r \in Row /\ RowOK(r)
  <2>1. now \in Nat
    BY OutboxConstants DEF Times
  <2> QED
    BY <1>0, <2>1, ReplayedRow
<1>3. r.state = "pending" /\ r.seq = ev[e].seq
      /\ r.claim_epoch = ev[e].claim_epoch
  BY <1>0 DEF Replayed, Row
<1>4. \A k \in tasks : k.event = e => k.pc # "insert"
  BY <1>0 DEF IndInv, TaskInv, TaskOK
<1>5. DataInv' /\ \A k \in tasks : TaskOK(k)'
  <2> HIDE DEF r
  <2>1. ev' = [ev EXCEPT ![e] = r]
    BY <1>1, SMTT(60) DEF r
  <2> QED
    BY <1>0, <1>2, <1>3, <1>4, <2>1, RowUpdate, Zenon
<1>6. TaskInv'
  BY <1>0, <1>5, SMTT(60) DEF IndInv, TaskInv
<1>7. ClaimInv'
  BY <1>0, SMTT(60) DEF IndInv, ClaimInv
<1> QED
  BY <1>0, <1>5, <1>6, <1>7 DEF IndInv, TypeOK, DataInv

(* A step that leaves the rows, the receipts and the deliveries alone.     *)
LEMMA IdleStep ==
  ASSUME IndInv, UNCHANGED <<clock, ev, receipts, tasks>>, OpenInv', ClaimInv',
         open' \in [Aggregates -> OpenEmit \cup {None}],
         claim' \in [Owners -> OpenClaim \cup {None}]
  PROVE  IndInv'
BY DEF IndInv, TypeOK, RowInv, TaskInv, TaskOK, AggregateOrder,
       CompletedHasReceipt, Committed

(* A producer takes its advisory lock and its sequence number.             *)
LEMMA EmitStep ==
  ASSUME IndInv, NEW e \in Events, EmitEvent(e)
  PROVE  IndInv'
<1>0. UNCHANGED <<clock, ev, receipts, claim, tasks>> /\ ~Committed(e)
      /\ AggOf[e] \in Aggregates /\ clock \in Times
  BY OutboxConstants DEF EmitEvent, IndInv, TypeOK
<1>1. PICK n \in NextSeq(AggOf[e]) :
        open' = [open EXCEPT ![AggOf[e]] = [event |-> e, seq |-> n, at |-> clock]]
  BY ZenonT(60) DEF EmitEvent
<1>2. n \in Nat /\ \A x \in InLog(AggOf[e]) : ev[x].seq < n
  BY SMTT(60) DEF NextSeq, InLog, IndInv, TypeOK, Row
<1>3. [event |-> e, seq |-> n, at |-> clock] \in OpenEmit
  BY <1>0, <1>2 DEF OpenEmit
<1>4. open' \in [Aggregates -> OpenEmit \cup {None}]
  BY <1>0, <1>1, <1>3, SMTT(60) DEF IndInv, TypeOK
<1>5. OpenInv'
  BY <1>0, <1>1, <1>2, <1>3, SMTT(60) DEF IndInv, TypeOK, OpenInv, InLog,
     Committed
<1>6. ClaimInv' /\ claim' \in [Owners -> OpenClaim \cup {None}]
  BY <1>0 DEF IndInv, TypeOK, ClaimInv
<1> QED
  BY SMTT(60), <1>0, <1>4, <1>5, <1>6, IdleStep

(* A producer's transaction is rolled back.                                *)
LEMMA RollbackStep ==
  ASSUME IndInv, NEW a \in Aggregates, RollbackEmit(a)
  PROVE  IndInv'
<1>1. open' \in [Aggregates -> OpenEmit \cup {None}]
  BY SMTT(60) DEF IndInv, TypeOK, RollbackEmit
<1>2. OpenInv'
  BY DEF IndInv, TypeOK, OpenInv, InLog, Committed, RollbackEmit
<1>3. ClaimInv' /\ claim' \in [Owners -> OpenClaim \cup {None}]
  BY DEF IndInv, TypeOK, ClaimInv, RollbackEmit
<1> QED
  BY <1>1, <1>2, <1>3, IdleStep DEF RollbackEmit

(* A producer's transaction commits.                                       *)
LEMMA CommitStep ==
  ASSUME IndInv, NEW a \in Aggregates, CommitEmit(a)
  PROVE  IndInv'
<1> DEFINE x == open[a].event
           r == EmittedRow(open[a])
<1>0. /\ UNCHANGED <<clock, receipts, claim, tasks>>
      /\ ev' = [ev EXCEPT ![x] = r] /\ open' = [open EXCEPT ![a] = None]
      /\ ev \in [Events -> Row] /\ open[a] # None
  BY DEF CommitEmit, IndInv, TypeOK
<1>1. open[a] \in OpenEmit
  BY <1>0, SMTT(60) DEF IndInv, TypeOK
<1>2. /\ x \in Events /\ open[a].seq \in Nat /\ open[a].at \in Nat
      /\ AggOf[x] = a /\ ~Committed(x)
      /\ \A e \in InLog(a) : ev[e].seq < open[a].seq
  BY <1>0, <1>1, OutboxConstants, SMTT(60) DEF OpenEmit, Times, IndInv, OpenInv
<1>3. /\ r.state = "pending" /\ r.seq = open[a].seq
      /\ r.claim_epoch = 0 /\ r.attempt_count = 0 /\ r.replay_count = 0
      /\ r.updated_at = open[a].at /\ r.available_at = open[a].at
      /\ r \in Row
  <2>1. 0 \in Nat /\ 0 \in 0 .. MaxAttempts
    BY SMTT(60), OutboxConstants
  <2> QED
    BY <1>2, <2>1 DEF EmittedRow, Row, States
<1> HIDE DEF r, x
<1>4. RowOK(r)
  BY <1>2, <1>3, OutboxConstants, SMTT(60) DEF RowOK
<1>5. /\ ev' \in [Events -> Row] /\ ev'[x] = r
      /\ \A y \in Events : y # x => ev'[y] = ev[y]
  BY <1>0, <1>2, <1>3
<1>6. RowInv'
  BY <1>4, <1>5, ZenonT(60) DEF IndInv, RowInv, RowOK
<1>7. OpenInv'
  BY SMTT(60), <1>0, <1>2, <1>3, <1>5
     DEF IndInv, TypeOK, OpenInv, InLog, Committed, OpenEmit
<1>8. AggregateOrder'
  <2> SUFFICES ASSUME NEW e \in Events, NEW p \in Events, AggOf[e] = AggOf[p],
                      Committed(e)', Committed(p)', ev'[p].seq < ev'[e].seq,
                      ev'[e].claim_epoch > 0
               PROVE  ev'[p].state = "completed"
    BY SMTT(60) DEF AggregateOrder
  <2>1. e # x
    BY <1>3, <1>5
  <2>2. p # x
    <3>1. CASE p = x
      <4>1. e \in InLog(a)
        BY <1>2, <1>5, <2>1, <3>1, ZenonT(60) DEF InLog, Committed
      <4>2. ev[e].seq < open[a].seq /\ ev'[e].seq = ev[e].seq /\ ev[e].seq \in Nat
        BY <1>0, <1>2, <1>5, <2>1, <4>1, SMTT(60) DEF Row
      <4> QED
        BY <1>2, <1>3, <1>5, <3>1, <4>2
    <3> QED
      BY SMTT(60), <3>1
  <2> QED
    BY <1>5, <2>1, <2>2, SMTT(60) DEF IndInv, AggregateOrder, Committed
<1>9. CompletedHasReceipt'
  BY <1>0, <1>3, <1>5 DEF IndInv, CompletedHasReceipt
<1>10. TaskInv'
  <2>1. ASSUME NEW k \in tasks PROVE TaskOK(k)'
    <3>1. TaskOK(k) /\ k.event \in Events
      BY SMTT(60) DEF IndInv, TaskInv, TypeOK, Task
    <3>2. k.event # x
      BY <1>2, <3>1, SMTT(60) DEF TaskOK
    <3> QED
      BY <1>0, <1>5, <3>1, <3>2 DEF TaskOK, Committed
  <2> QED
    BY <1>0, <2>1, ZenonT(60) DEF IndInv, TaskInv
<1>11. ClaimInv'
  BY <1>0, SMTT(60) DEF IndInv, ClaimInv
<1> QED
  BY <1>0, <1>5, <1>6, <1>7, <1>8, <1>9, <1>10, <1>11, SMTT(60) DEF IndInv,
     TypeOK

(* The dispatcher reads the clock and waits for a connection.              *)
LEMMA PollStep ==
  ASSUME IndInv, NEW o \in Owners, Poll(o)
  PROVE  IndInv'
<1>1. [stmt |-> "acquire", now |-> clock, expired |-> {}, received |-> {}]
        \in OpenClaim
  BY Zenon DEF IndInv, TypeOK, OpenClaim
<1>2. claim' \in [Owners -> OpenClaim \cup {None}]
  BY <1>1, Zenon DEF IndInv, TypeOK, Poll
<1>3. ClaimInv'
  BY <1>1, ZenonT(60) DEF IndInv, TypeOK, ClaimInv, Poll
<1>4. OpenInv' /\ open' \in [Aggregates -> OpenEmit \cup {None}]
  BY DEF IndInv, TypeOK, OpenInv, InLog, Committed, Poll
<1> QED
  BY <1>2, <1>3, <1>4, IdleStep DEF Poll

(* The reclaim statement takes its snapshot.                               *)
LEMMA BeginReclaimStep ==
  ASSUME IndInv, NEW o \in Owners, BeginReclaim(o)
  PROVE  IndInv'
<1> DEFINE c == [stmt |-> "reclaim", now |-> claim[o].now,
                 expired |-> {e \in Events : Expired(e, claim[o].now)},
                 received |-> {e \in Events : receipts[e] # None}]
<1>1. c \in OpenClaim /\ c.received = {e \in Events : receipts[e] # None}
  BY SMTT(60) DEF IndInv, TypeOK, OpenClaim, BeginReclaim
<1>2. UNCHANGED <<clock, ev, receipts, open, tasks>>
      /\ claim' = [claim EXCEPT ![o] = c]
  BY SMTT(60) DEF BeginReclaim
<1> HIDE DEF c
<1>3. claim' \in [Owners -> OpenClaim \cup {None}]
  BY <1>1, <1>2, SMTT(60) DEF IndInv, TypeOK
<1>4. ClaimInv'
  BY <1>1, <1>2, SMTT(60) DEF IndInv, TypeOK, ClaimInv
<1>5. OpenInv' /\ open' \in [Aggregates -> OpenEmit \cup {None}]
  BY <1>2 DEF IndInv, TypeOK, OpenInv, InLog, Committed
<1> QED
  BY <1>2, <1>3, <1>4, <1>5, IdleStep, ZenonT(60)

(* claim_batch is rolled back.                                             *)
LEMMA AbortClaimStep ==
  ASSUME IndInv, NEW o \in Owners, AbortClaim(o)
  PROVE  IndInv'
<1>1. claim' \in [Owners -> OpenClaim \cup {None}] /\ ClaimInv'
  BY DEF IndInv, TypeOK, AbortClaim, ClaimInv
<1>2. OpenInv' /\ open' \in [Aggregates -> OpenEmit \cup {None}]
  BY ZenonT(60) DEF IndInv, TypeOK, OpenInv, InLog, Committed, AbortClaim
<1> QED
  BY <1>1, <1>2, IdleStep, SMTT(60) DEF AbortClaim

(* A dispatcher process dies.                                              *)
LEMMA CrashStep ==
  ASSUME IndInv, NEW o \in Owners, Crash(o)
  PROVE  IndInv'
<1>1. UNCHANGED <<clock, ev, receipts, open>>
      /\ tasks' \subseteq tasks /\ claim' = [claim EXCEPT ![o] = None]
  BY DEF Crash
<1>2. claim' \in [Owners -> OpenClaim \cup {None}] /\ ClaimInv'
  BY <1>1, Zenon DEF IndInv, TypeOK, ClaimInv
<1>3. TaskInv' /\ tasks' \subseteq Task
  BY <1>1, ZenonT(60) DEF IndInv, TypeOK, TaskInv, TaskOK, Committed
<1>4. TypeOK'
  BY <1>1, <1>2, <1>3, ZenonT(60) DEF IndInv, TypeOK
<1>5. RowInv' /\ AggregateOrder' /\ CompletedHasReceipt'
  BY <1>1, ZenonT(60)
     DEF IndInv, RowInv, AggregateOrder, CompletedHasReceipt, Committed
<1>6. OpenInv'
  BY <1>1, ZenonT(60) DEF IndInv, OpenInv, InLog, Committed
<1> QED
  BY <1>2, <1>3, <1>4, <1>5, <1>6, ZenonT(60) DEF IndInv

(* Time passes.                                                            *)
LEMMA TickStep ==
  ASSUME IndInv, Tick
  PROVE  IndInv'
<1>1. UNCHANGED <<ev, receipts, open, claim, tasks>> /\ clock' \in Times
      /\ clock \in Nat /\ clock' = clock + 1
  BY OutboxConstants DEF Tick, IndInv, TypeOK, Times
<1>2. TaskInv'
  <2>1. ASSUME NEW k \in tasks PROVE TaskOK(k)'
    <3>1. TaskOK(k) /\ k.since \in Nat
      BY SMTT(60) DEF IndInv, TaskInv, TypeOK, Task, Times
    <3> QED
      BY <1>1, <3>1 DEF TaskOK, Committed
  <2> QED
    BY <1>1, <2>1, SMTT(60) DEF IndInv, TaskInv
<1>3. TypeOK'
  BY <1>1, ZenonT(60) DEF IndInv, TypeOK
<1>4. RowInv' /\ ClaimInv' /\ AggregateOrder' /\ CompletedHasReceipt'
  BY <1>1, ZenonT(60) DEF IndInv, RowInv, ClaimInv, AggregateOrder,
     CompletedHasReceipt, Committed
<1>5. OpenInv'
  BY <1>1, ZenonT(60) DEF IndInv, OpenInv, InLog, Committed
<1> QED
  BY <1>2, <1>3, <1>4, <1>5, ZenonT(60) DEF IndInv

-----------------------------------------------------------------------------
(* claim_batch.                                                            *)

(* The reclaim statement changes an expired row into a settled one and     *)
(* leaves every other row alone; the claim statement then changes rows     *)
(* that are pending and whose predecessors are completed.                  *)
LEMMA ReclaimedRow ==
  ASSUME IndInv, NEW c \in OpenClaim, NEW e \in Events,
         \A x \in c.received : receipts[x] # None
  PROVE  LET m == AfterReclaim(c)[e]
         IN  /\ m \in Row /\ RowOK(m)
             /\ m.seq = ev[e].seq /\ m.claim_epoch = ev[e].claim_epoch
             /\ m.state = "absent" <=> ev[e].state = "absent"
             /\ ev[e].state = "completed" => m = ev[e]
             /\ m.state = "completed" => receipts[e] # None
             /\ m # ev[e] => e \in c.expired /\ Expired(e, c.now)
<1> DEFINE m == AfterReclaim(c)[e]
           b == e \in c.received
<1>0. ev[e] \in Row /\ RowOK(ev[e]) /\ c.now \in Nat /\ b \in BOOLEAN
      /\ (ev[e].state = "completed" => receipts[e] # None)
      /\ (b => receipts[e] # None)
  BY SMTT(60), OutboxConstants
     DEF IndInv, TypeOK, RowInv, OpenClaim, Times, CompletedHasReceipt
<1>1. CASE e \in c.expired /\ Expired(e, c.now)
  <2>1. m = Settle(ev[e], b, c.now, c.now) /\ ev[e].state = "processing"
    BY <1>1 DEF AfterReclaim, Expired
  <2>2. c.now <= c.now
    BY SMTT(60), <1>0
  <2>3. /\ Settle(ev[e], b, c.now, c.now) \in Row
        /\ RowOK(Settle(ev[e], b, c.now, c.now))
        /\ Settle(ev[e], b, c.now, c.now).state
             \in {"pending", "completed", "dead"}
        /\ Settle(ev[e], b, c.now, c.now).seq = ev[e].seq
        /\ Settle(ev[e], b, c.now, c.now).claim_epoch = ev[e].claim_epoch
        /\ Settle(ev[e], b, c.now, c.now).state = "completed" <=> b
    <3> HIDE DEF b
    <3> QED
      BY SMTT(60), <1>0, <2>1, <2>2, SettledRow
  <2> HIDE DEF m, b
  <2>4. m \in Row /\ RowOK(m) /\ m.state \in {"pending", "completed", "dead"}
        /\ m.seq = ev[e].seq /\ m.claim_epoch = ev[e].claim_epoch
        /\ (m.state = "completed" <=> b)
    BY SMTT(60), <2>1, <2>3
  <2> QED
    BY <1>0, <1>1, <2>1, <2>4, SMTT(60) DEF m
<1>2. CASE ~(e \in c.expired /\ Expired(e, c.now))
  <2>1. m = ev[e]
    BY <1>2, Zenon DEF AfterReclaim
  <2> QED
    BY <1>0, <2>1
<1> QED
  BY SMTT(60), <1>1, <1>2

(* claim_batch commits: expired rows settle, due heads of their aggregates *)
(* are claimed, and a delivery starts for each of them.                    *)
LEMMA ClaimBatchStep ==
  ASSUME IndInv, NEW o \in Owners, ClaimBatch(o)
  PROVE  IndInv'
<1> DEFINE c == claim[o]
           mid == AfterReclaim(c)
<1>0. /\ c \in OpenClaim /\ c.now \in Nat
      /\ \A x \in c.received : receipts[x] # None
      /\ \A e \in c.expired : Expired(e, c.now) => ~RowLocked(e)
      /\ claim' = [claim EXCEPT ![o] = None]
      /\ UNCHANGED <<clock, receipts, open>>
      /\ clock \in Times /\ clock \in Nat
  BY OutboxConstants
     DEF IndInv, TypeOK, ClaimInv, ClaimBatch, OpenClaim, Times
<1>1. PICK skip \in Skippable(o) : \E S \in Batch(mid, c.now, skip) :
        LET new == [e \in Events |-> IF e \in S THEN Claimed(mid[e], o, c.now)
                                     ELSE mid[e]]
        IN  /\ ev' = new
            /\ \A e \in S : open[AggOf[e]] = None
            /\ tasks' = tasks \cup {NewTask(e, new[e].claim_epoch, o) : e \in S}
  BY Zenon DEF ClaimBatch
<1>1b. PICK S \in Batch(mid, c.now, skip) :
        LET new == [e \in Events |-> IF e \in S THEN Claimed(mid[e], o, c.now)
                                     ELSE mid[e]]
        IN  /\ ev' = new
            /\ \A e \in S : open[AggOf[e]] = None
            /\ tasks' = tasks \cup {NewTask(e, new[e].claim_epoch, o) : e \in S}
  BY <1>1, Zenon
<1>2. /\ S \subseteq Events
      /\ \A e \in S :
           /\ mid[e].state = "pending"
           /\ \A p \in Events : /\ AggOf[p] = AggOf[e]
                                /\ mid[p].state # "absent"
                                /\ mid[p].seq < mid[e].seq
                                => mid[p].state = "completed"
  BY Zenon DEF Batch, Claimable
<1>3. \A e \in Events :
        /\ mid[e] \in Row /\ RowOK(mid[e])
        /\ mid[e].seq = ev[e].seq /\ mid[e].claim_epoch = ev[e].claim_epoch
        /\ mid[e].state = "absent" <=> ev[e].state = "absent"
        /\ ev[e].state = "completed" => mid[e] = ev[e]
        /\ mid[e].state = "completed" => receipts[e] # None
        /\ mid[e] # ev[e] => e \in c.expired /\ Expired(e, c.now)
  <2> HIDE DEF c
  <2> QED
    BY <1>0, ReclaimedRow, ZenonT(60)
<1> HIDE DEF mid, c
<1>4. \A e \in Events :
        /\ e \in S => ev'[e] = Claimed(mid[e], o, c.now)
        /\ e \notin S => ev'[e] = mid[e]
  BY <1>1b
<1>5. \A e \in S :
        /\ Claimed(mid[e], o, c.now) \in Row
        /\ RowOK(Claimed(mid[e], o, c.now))
        /\ Claimed(mid[e], o, c.now).state = "processing"
        /\ Claimed(mid[e], o, c.now).seq = ev[e].seq
        /\ Claimed(mid[e], o, c.now).claim_epoch = ev[e].claim_epoch + 1
  <2> SUFFICES ASSUME NEW e \in S
               PROVE  /\ Claimed(mid[e], o, c.now) \in Row
                      /\ RowOK(Claimed(mid[e], o, c.now))
                      /\ Claimed(mid[e], o, c.now).state = "processing"
                      /\ Claimed(mid[e], o, c.now).seq = ev[e].seq
                      /\ Claimed(mid[e], o, c.now).claim_epoch
                           = ev[e].claim_epoch + 1
    OBVIOUS
  <2>1. mid[e] \in Row /\ RowOK(mid[e]) /\ mid[e].state = "pending"
        /\ mid[e].seq = ev[e].seq /\ mid[e].claim_epoch = ev[e].claim_epoch
    BY <1>2, <1>3, Zenon
  <2>2. /\ Claimed(mid[e], o, c.now) \in Row
        /\ RowOK(Claimed(mid[e], o, c.now))
    BY <1>0, <2>1, ClaimedRow, Zenon
  <2> QED
    BY <2>1, <2>2, ZenonT(60) DEF Claimed, Row
<1>6. \A e \in Events :
        /\ ev'[e] \in Row /\ RowOK(ev'[e])
        /\ ev'[e].seq = ev[e].seq
        /\ Committed(e)' <=> Committed(e)
        /\ e \in S => ev'[e].claim_epoch = ev[e].claim_epoch + 1
        /\ e \notin S => ev'[e].claim_epoch = ev[e].claim_epoch
        /\ ev[e].claim_epoch \in Nat
        /\ ev'[e].state = "completed" => receipts[e] # None
        /\ ev[e].state = "completed" => ev'[e].state = "completed"
        /\ mid[e].state = "completed" => ev'[e].state = "completed"
  <2> SUFFICES ASSUME NEW e \in Events
               PROVE  /\ ev'[e] \in Row /\ RowOK(ev'[e])
                      /\ ev'[e].seq = ev[e].seq
                      /\ ev'[e].state # "absent" <=> ev[e].state # "absent"
                      /\ e \in S =>
                           ev'[e].claim_epoch = ev[e].claim_epoch + 1
                      /\ e \notin S => ev'[e].claim_epoch = ev[e].claim_epoch
                      /\ ev[e].claim_epoch \in Nat
                      /\ ev'[e].state = "completed" => receipts[e] # None
                      /\ ev[e].state = "completed" => ev'[e].state = "completed"
                      /\ mid[e].state = "completed" => ev'[e].state = "completed"
    BY DEF Committed
  <2>1. ev[e].claim_epoch \in Nat
    BY Zenon DEF IndInv, TypeOK, Row
  <2>2. CASE e \in S
    <3>1. /\ ev'[e] = Claimed(mid[e], o, c.now)
          /\ mid[e].state = "pending"
          /\ mid[e].state = "absent" <=> ev[e].state = "absent"
          /\ ev[e].state = "completed" => mid[e] = ev[e]
      BY <1>2, <1>3, <1>4, <2>2, Zenon
    <3>2. /\ ev'[e] \in Row /\ RowOK(ev'[e])
          /\ ev'[e].state = "processing"
          /\ ev'[e].seq = ev[e].seq
          /\ ev'[e].claim_epoch = ev[e].claim_epoch + 1
      BY <1>5, <2>2, <3>1, ZenonT(60)
    <3> QED
      BY <2>1, <2>2, <3>1, <3>2, Zenon
  <2>3. CASE e \notin S
    <3>1. ev'[e] = mid[e]
      BY <1>4, <2>3, Zenon
    <3> QED
      BY <1>3, <2>1, <2>3, <3>1
  <2> QED
    BY <2>2, <2>3, ZenonT(60)
<1>7. ev' \in [Events -> Row]
  BY <1>1b, <1>6, Zenon
<1>8. RowInv' /\ CompletedHasReceipt'
  BY <1>0, <1>6, Zenon DEF RowInv, CompletedHasReceipt, RowOK
<1>9. OpenInv'
  <2> SUFFICES ASSUME NEW a \in Aggregates, open[a] # None
               PROVE  /\ AggOf[open[a].event] = a
                      /\ ~Committed(open[a].event)'
                      /\ \A e \in InLog(a)' : ev'[e].seq < open[a].seq
    BY <1>0, Zenon DEF OpenInv
  <2>1. /\ AggOf[open[a].event] = a /\ open[a].event \in Events
        /\ ~Committed(open[a].event)
        /\ \A e \in InLog(a) : ev[e].seq < open[a].seq
    BY ZenonT(60) DEF IndInv, TypeOK, OpenInv, OpenEmit
  <2>2. \A e \in InLog(a)' : e \in Events /\ e \in InLog(a)
    <3> SUFFICES ASSUME NEW e \in Events, AggOf[e] = a, Committed(e)'
                 PROVE  e \in InLog(a)
      BY Zenon DEF InLog
    <3>1. Committed(e)
      BY <1>6, ZenonT(60)
    <3> QED
      BY <3>1 DEF InLog
  <2>3. ~Committed(open[a].event)'
    <3>1. PICK w \in Events : w = open[a].event /\ ~Committed(w)
      BY <2>1, Zenon
    <3>2. ~Committed(w)'
      BY <1>6, <3>1, ZenonT(60)
    <3>3. open'[a].event = w
      BY SMTT(60), <1>0, <3>1
    <3> QED
      BY <3>2, <3>3 DEF Committed
  <2>4. \A e \in InLog(a)' : ev'[e].seq < open[a].seq
    <3> SUFFICES ASSUME NEW e \in InLog(a)' PROVE ev'[e].seq < open[a].seq
      OBVIOUS
    <3>1. ev'[e].seq = ev[e].seq
      BY <1>6, <2>2, ZenonT(60)
    <3> QED
      BY SMTT(60), <2>1, <2>2, <3>1
  <2> QED
    BY <2>1, <2>3, <2>4, Zenon
<1>10. AggregateOrder'
  <2> SUFFICES ASSUME NEW e \in Events, NEW p \in Events, AggOf[e] = AggOf[p],
                      Committed(e)', Committed(p)', ev'[p].seq < ev'[e].seq,
                      ev'[e].claim_epoch > 0
               PROVE  ev'[p].state = "completed"
    BY Zenon DEF AggregateOrder
  <2>1. CASE e \in S
    <3>1. ev'[p].seq = ev[p].seq /\ ev'[e].seq = ev[e].seq /\ Committed(p)
      BY <1>6, Zenon
    <3>2. /\ mid[p].seq = ev[p].seq /\ mid[e].seq = ev[e].seq
          /\ mid[p].state # "absent"
      BY <1>3, <3>1, Zenon DEF Committed
    <3>3. mid[p].state = "completed"
      BY <1>2, <2>1, <3>1, <3>2, Zenon
    <3> QED
      BY <1>6, <3>3, Zenon
  <2>2. CASE e \notin S
    BY <1>6, <2>2, Zenon DEF IndInv, AggregateOrder
  <2> QED
    BY <2>1, <2>2
<1>11. ClaimInv' /\ claim' \in [Owners -> OpenClaim \cup {None}]
  BY <1>0, ZenonT(60) DEF IndInv, TypeOK, ClaimInv
<1>12. ASSUME NEW k \in tasks PROVE TaskOK(k)' /\ k \in Task
  <2>1. TaskOK(k) /\ k.event \in Events /\ k \in Task /\ k.epoch \in Nat
    BY Zenon DEF IndInv, TaskInv, TypeOK, Task
  <2>2. k.pc = "insert" => ev'[k.event] = ev[k.event]
    <3>1. CASE k.pc = "insert"
      <4>1. RowLocked(k.event) /\ ev[k.event].state = "processing"
        BY <2>1, <3>1, Zenon DEF RowLocked, TaskOK
      <4>2. mid[k.event] = ev[k.event]
        BY <1>0, <1>3, <2>1, <4>1, ZenonT(60)
      <4> QED
        BY <1>2, <1>4, <2>1, <4>1, <4>2, ZenonT(60)
    <3> QED
      BY <3>1, Zenon
  <2>3. k.epoch <= ev'[k.event].claim_epoch
    <3>1. k.epoch <= ev[k.event].claim_epoch
      BY <2>1, Zenon DEF TaskOK
    <3>2. /\ ev[k.event].claim_epoch \in Nat
          /\ \/ ev'[k.event].claim_epoch = ev[k.event].claim_epoch
             \/ ev'[k.event].claim_epoch = ev[k.event].claim_epoch + 1
      BY <1>6, <2>1, ZenonT(60)
    <3> QED
      BY <2>1, <3>1, <3>2
  <2> QED
    BY <1>0, <1>6, <2>1, <2>2, <2>3, ZenonT(60) DEF TaskOK
<1>13. ASSUME NEW n \in tasks' \ tasks
       PROVE  /\ n \in Task /\ n.event \in S
              /\ n.epoch = ev[n.event].claim_epoch + 1
              /\ n = NewTask(n.event, ev[n.event].claim_epoch + 1, o)
              /\ TaskOK(n)'
  <2>1. PICK e \in S : n = NewTask(e, ev'[e].claim_epoch, o)
    BY SMTT(60), <1>1b
  <2>2. e \in Events /\ ev'[e].claim_epoch = ev[e].claim_epoch + 1
        /\ ev'[e].claim_epoch \in Nat /\ Committed(e)'
    <3>1. e \in Events /\ mid[e].state = "pending"
      BY <1>2, Zenon
    <3>2. ev[e].state # "absent"
      BY <1>3, <3>1, Zenon
    <3>3. /\ ev'[e].claim_epoch = ev[e].claim_epoch + 1
          /\ ev[e].claim_epoch \in Nat
          /\ Committed(e)' <=> Committed(e)
      BY <1>6, <3>1, Zenon
    <3> QED
      BY <3>1, <3>2, <3>3 DEF Committed
  <2>3. n \in Task /\ n.event = e /\ n.epoch = ev'[e].claim_epoch
        /\ n.pc = "consume" /\ n.since = clock
    BY <1>0, <2>1, <2>2, Zenon DEF NewTask, Task, Points
  <2>4. TaskOK(n)'
    <3>1. /\ n.since <= clock' /\ Committed(n.event)'
          /\ n.epoch <= ev'[n.event].claim_epoch
      <4>1. clock' = clock /\ n.since = clock /\ clock \in Nat
        BY <1>0, <2>3, Zenon
      <4>2. Committed(n.event)'
        BY <2>2, <2>3, Zenon
      <4>3. n.epoch = ev'[n.event].claim_epoch /\ n.epoch \in Nat
        BY <2>2, <2>3, Zenon
      <4> QED
        BY <4>1, <4>2, <4>3
    <3> QED
      BY <2>3, <3>1, ZenonT(60) DEF TaskOK
  <2> QED
    BY SMTT(60), <2>1, <2>2, <2>3, <2>4
<1>14. TaskInv' /\ tasks' \subseteq Task
  <2>1. tasks \subseteq tasks'
    BY <1>1b
  <2>2. ASSUME NEW k \in tasks', NEW l \in tasks', k.event = l.event,
               k.epoch = l.epoch
        PROVE  k = l
    <3>1. CASE k \in tasks /\ l \in tasks
      BY <2>2, <3>1, ZenonT(60) DEF IndInv, TaskInv
    <3>2. CASE k \notin tasks /\ l \notin tasks
      BY SMTT(60), <1>13, <2>2, <3>2
    <3>3. ASSUME NEW x \in tasks, NEW y \in tasks' \ tasks,
                 x.event = y.event, x.epoch = y.epoch
          PROVE  FALSE
      <4>1. x.epoch <= ev[x.event].claim_epoch /\ x.event \in Events
        BY Zenon DEF IndInv, TaskInv, TaskOK, TypeOK, Task
      <4>2. y.epoch = ev[y.event].claim_epoch + 1
        BY <1>13, Zenon
      <4>3. ev[x.event].claim_epoch \in Nat /\ x.epoch \in Nat
        BY <1>6, <4>1, Zenon DEF IndInv, TypeOK, Task
      <4> QED
        BY <3>3, <4>1, <4>2, <4>3
    <3> QED
      BY <2>2, <3>1, <3>2, <3>3
  <2> QED
    BY <1>12, <1>13, <2>1, <2>2, ZenonT(60) DEF TaskInv
<1> QED
  BY <1>0, <1>7, <1>8, <1>9, <1>10, <1>11, <1>14, ZenonT(60) DEF IndInv, TypeOK

-----------------------------------------------------------------------------
(* The theorems.                                                           *)

(* The empty tables satisfy the invariant.                                 *)
LEMMA InitInv == Init => IndInv
<1> SUFFICES ASSUME Init PROVE IndInv
  OBVIOUS
<1>1. 0 \in Nat /\ 0 \in Times /\ 0 \in 0 .. MaxAttempts
      /\ MaxAttempts * 0 + 0 = 0
  BY OutboxConstants, SMTT(60) DEF Times
<1>2. AbsentRow \in Row /\ RowOK(AbsentRow) /\ AbsentRow.state = "absent"
  BY <1>1 DEF AbsentRow, Row, States, RowOK
<1>3. \A e \in Events : ev[e] = AbsentRow
  BY DEF Init
<1>4. TypeOK
  BY <1>1, <1>2, ZenonT(60) DEF Init, TypeOK
<1>5. RowInv /\ AggregateOrder /\ CompletedHasReceipt
  BY <1>2, <1>3, SMTT(60) DEF RowInv, AggregateOrder, CompletedHasReceipt,
     Committed
<1>6. OpenInv /\ ClaimInv /\ TaskInv
  BY DEF Init, OpenInv, ClaimInv, TaskInv
<1> QED
  BY <1>4, <1>5, <1>6 DEF IndInv

(* Every step of every actor preserves it.                                 *)
LEMMA NextInv == IndInv /\ [Next]_vars => IndInv'
<1> SUFFICES ASSUME IndInv, [Next]_vars PROVE IndInv'
  OBVIOUS
<1>1. ASSUME NEW e \in Events, EmitEvent(e) \/ ReplayDead(e) PROVE IndInv'
  BY <1>1, EmitStep, ReplayDeadStep
<1>2. ASSUME NEW a \in Aggregates, CommitEmit(a) \/ RollbackEmit(a)
      PROVE  IndInv'
  BY <1>2, CommitStep, RollbackStep
<1>3. ASSUME NEW o \in Owners,
             \/ Poll(o) \/ BeginReclaim(o) \/ ClaimBatch(o)
             \/ AbortClaim(o) \/ Crash(o)
      PROVE  IndInv'
  BY SMTT(60), <1>3, PollStep, BeginReclaimStep, ClaimBatchStep,
     AbortClaimStep, CrashStep
<1>4. ASSUME NEW k \in tasks, Deliver(k) PROVE IndInv'
  BY <1>4, ConsumeStep, RenewClaimStep, HeartbeatStep, StopHeartbeatStep,
     LockForReceiptStep, RecordReceiptStep, MarkCompletedStep, MarkFailedStep
     DEF Deliver
<1>5. CASE Tick
  BY <1>5, TickStep
<1>6. CASE UNCHANGED vars
  <2> USE <1>6 DEF vars
  <2>1. TypeOK' /\ RowInv' /\ ClaimInv'
    BY DEF IndInv, TypeOK, RowInv, ClaimInv
  <2>2. OpenInv'
    BY Zenon DEF IndInv, OpenInv, InLog, Committed
  <2>3. TaskInv'
    BY ZenonT(60) DEF IndInv, TaskInv, TaskOK, Committed
  <2>4. AggregateOrder' /\ CompletedHasReceipt'
    BY DEF IndInv, AggregateOrder, CompletedHasReceipt, Committed
  <2> QED
    BY <2>1, <2>2, <2>3, <2>4, ZenonT(60) DEF IndInv
<1> QED
  BY <1>1, <1>2, <1>3, <1>4, <1>5, <1>6 DEF Next

(* The inductive invariant holds in every reachable state.                 *)
THEOREM Invariance == Spec => []IndInv
BY InitInv, NextInv, PTL DEF Spec

(* The fence counts attempts, and no two deliveries pass it together.      *)
LEMMA FenceFacts == IndInv => EpochAccounting /\ SoleHolder
<1>1. IndInv => EpochAccounting
  BY SMTT(60) DEF IndInv, RowInv, RowOK, EpochAccounting
<1>2. IndInv => SoleHolder
  BY DEF IndInv, TaskInv, SoleHolder, Fence
<1> QED
  BY SMTT(60), <1>1, <1>2

(* Every row the claim statements select passes the trigger.               *)
LEMMA PoisonFree == IndInv => NoPoisonRow
<1> SUFFICES ASSUME IndInv, NEW e \in Events, NEW now \in 0 .. clock
             PROVE  /\ Expired(e, now) => \A b \in BOOLEAN :
                         GuardAllows(ev[e], Settle(ev[e], b, now, now))
                    /\ (ev[e].state = "pending" /\ ev[e].available_at <= now) =>
                         /\ ev[e].attempt_count < MaxAttempts
                         /\ \A o \in Owners :
                              GuardAllows(ev[e], Claimed(ev[e], o, now))
  BY SMTT(60) DEF NoPoisonRow
<1>0. now \in Nat /\ ev[e] \in Row /\ RowOK(ev[e]) /\ MaxAttempts \in Nat
  BY OutboxConstants DEF IndInv, TypeOK, Times, RowInv
<1>1. ASSUME Expired(e, now), NEW b \in BOOLEAN
      PROVE  GuardAllows(ev[e], Settle(ev[e], b, now, now))
  <2>1. now >= ev[e].updated_at
    BY <1>0, <1>1 DEF Expired, RowOK, Row
  <2> QED
    BY <1>0, <1>1, <2>1, SMTT(60) DEF Expired, GuardAllows, Settle, Row
<1>2. ASSUME ev[e].state = "pending", ev[e].available_at <= now,
             NEW o \in Owners
      PROVE  GuardAllows(ev[e], Claimed(ev[e], o, now))
  <2>1. now >= ev[e].updated_at
    BY <1>0, <1>2, SMTT(60) DEF RowOK, Row
  <2> QED
    BY <1>0, <1>2, <2>1, SMTT(60) DEF GuardAllows, Claimed, Row
<1>3. ev[e].state = "pending" => ev[e].attempt_count < MaxAttempts
  BY <1>0 DEF RowOK
<1> QED
  BY <1>1, <1>2, <1>3, ZenonT(60)

(* The type invariant of the outbox tables and of the dispatchers.         *)
THEOREM TypeCorrect == Spec => []TypeOK
<1>1. IndInv => TypeOK
  BY DEF IndInv
<1> QED
  BY <1>1, Invariance, PTL

(* Per aggregate, no event is ever claimed before all its predecessors are *)
(* completed: the predecessor test of _CLAIM_SQL and the producers'        *)
(* advisory lock suffice for any number of producers and dispatchers.      *)
THEOREM Ordered == Spec => []AggregateOrder
<1>1. IndInv => AggregateOrder
  BY DEF IndInv
<1> QED
  BY <1>1, Invariance, PTL

(* No event is completed without a durable receipt.                        *)
THEOREM ReceiptBacked == Spec => []CompletedHasReceipt
<1>1. IndInv => CompletedHasReceipt
  BY DEF IndInv
<1> QED
  BY <1>1, Invariance, PTL

(* The claim epoch counts every attempt ever granted, and at most one      *)
(* delivery of an event passes the fence.                                  *)
THEOREM Fenced == Spec => [](EpochAccounting /\ SoleHolder)
BY FenceFacts, Invariance, PTL

(* No row makes claim_batch fail for every dispatcher.                     *)
THEOREM Unpoisoned == Spec => []NoPoisonRow
BY PoisonFree, Invariance, PTL

(* Only the receipt transaction of the current claim holder writes a       *)
(* receipt.                                                                *)
LEMMA ReceiptStep ==
  ASSUME IndInv, [Next]_vars, NEW e \in Events, receipts'[e] # receipts[e]
  PROVE  /\ ev[e].state = "processing"
         /\ \E k \in tasks : /\ k.event = e /\ k.epoch = ev[e].claim_epoch
                             /\ k.owner = ev[e].claim_owner
<1>1. \E k \in tasks : RecordReceipt(k)
  BY ZenonT(60) DEF Next, Deliver, EmitEvent, ReplayDead, CommitEmit,
     RollbackEmit, Poll, BeginReclaim, ClaimBatch, AbortClaim, Crash, Consume,
     RenewClaim, Heartbeat, StopHeartbeat, LockForReceipt, MarkCompleted,
     MarkFailed, Tick, vars
<1>2. PICK k \in tasks : RecordReceipt(k)
  BY <1>1
<1>3. k.event \in Events /\ TaskOK(k) /\ k.pc = "insert"
  BY <1>2, SMTT(60) DEF IndInv, TypeOK, Task, TaskInv, RecordReceipt
<1>4. receipts' = [receipts EXCEPT ![k.event] = k.effect]
  BY <1>2, SMTT(60) DEF RecordReceipt
<1>5. k.event = e
  BY <1>3, <1>4 DEF IndInv, TypeOK
<1> QED
  BY <1>3, <1>5, Zenon DEF TaskOK

(* A receipt is only ever written for the claim that is current at that    *)
(* instant: record_receipt's row lock spans its fence test and its INSERT. *)
THEOREM ReceiptsFenced == Spec => ReceiptUnderFence
<1> DEFINE P == \A e \in Events :
                  receipts'[e] # receipts[e] =>
                    /\ ev[e].state = "processing"
                    /\ \E k \in tasks : /\ k.event = e
                                        /\ k.epoch = ev[e].claim_epoch
                                        /\ k.owner = ev[e].claim_owner
<1>1. IndInv /\ [Next]_vars => [P]_vars
  BY ReceiptStep
<1> QED
  BY <1>1, Invariance, PTL DEF Spec, ReceiptUnderFence

-----------------------------------------------------------------------------
(* The outbox implements the log of OutboxLog: every step of a producer,   *)
(* dispatcher, delivery or operator is a step of the log.  The step that   *)
(* settles an event needs the invariant above: a row that is being         *)
(* processed has only completed rows before it, and one that is completed  *)
(* has its receipt.                                                        *)

(* The four states of an event in the log and the rows they stand for.     *)
LEMMA StatusFacts ==
  ASSUME NEW s \in States
  PROVE  /\ StatusOf(s) = "none" <=> s = "absent"
         /\ StatusOf(s) = "queued" <=> s \in {"pending", "processing"}
         /\ StatusOf(s) = "done" <=> s = "completed"
         /\ StatusOf(s) = "parked" <=> s = "dead"
BY DEF StatusOf, States

(* The row of an event is a row, so its state is one of these.             *)
LEMMA RowStates ==
  ASSUME TypeOK, NEW e \in Events
  PROVE  /\ ev[e].state \in States
         /\ LogStatus[e] = StatusOf(ev[e].state)
         /\ LogPos[e] = ev[e].seq
BY DEF TypeOK, Row, LogStatus, LogPos

(* A row in processing has been claimed, so everything its aggregate holds *)
(* before it is completed: with its receipt it is ready to be done.        *)
LEMMA ProcessingReady ==
  ASSUME IndInv, NEW e \in Events, ev[e].state = "processing",
         receipts[e] # None
  PROVE  Log!Ready(e)
<1>1. TypeOK /\ RowOK(ev[e]) /\ AggregateOrder
  BY DEF IndInv, RowInv
<1>2. ev[e].claim_epoch > 0
  <2>1. /\ ev[e].replay_count \in Nat /\ ev[e].attempt_count \in Nat
        /\ MaxAttempts \in Nat
    BY <1>1, OutboxConstants, SMTT(60) DEF TypeOK, Row
  <2>2. MaxAttempts * ev[e].replay_count \in Nat
    BY <2>1
  <2> QED
    BY <1>1, <2>1, <2>2 DEF RowOK
<1>3. LogStatus[e] = "queued"
  BY <1>1, RowStates, StatusFacts
<1>4. ASSUME NEW p \in Events, AggOf[p] = AggOf[e], LogStatus[p] # "none",
             LogPos[p] < LogPos[e]
      PROVE  LogStatus[p] = "done"
  <2>1. Committed(p) /\ Committed(e) /\ ev[p].seq < ev[e].seq
    BY <1>1, <1>4, RowStates, StatusFacts DEF Committed
  <2>2. ev[p].state = "completed"
    BY <1>1, <1>2, <1>4, <2>1 DEF AggregateOrder
  <2> QED
    BY <1>1, <2>2, RowStates, StatusFacts
<1> QED
  BY <1>3, <1>4 DEF Log!Ready

(* What a step may do to the row of one event without leaving the log's    *)
(* Settle: nothing the log can see, complete it under its receipt, or park *)
(* it.                                                                     *)
SettlesRow(e) ==
  /\ ev'[e].state \in States
  /\ ev'[e].seq = ev[e].seq
  /\ \/ StatusOf(ev'[e].state) = StatusOf(ev[e].state)
     \/ /\ ev[e].state = "processing" /\ receipts[e] # None
        /\ ev'[e].state = "completed"
     \/ ev[e].state = "processing" /\ ev'[e].state = "dead"

(* A step that does no more than that to any row settles.                  *)
LEMMA SettlesLog ==
  ASSUME IndInv, \A e \in Events : SettlesRow(e), UNCHANGED receipts
  PROVE  Log!Settle
<1>1. TypeOK
  BY DEF IndInv
<1>2. ASSUME NEW e \in Events
      PROVE  \/ LogStatus'[e] = LogStatus[e]
             \/ Log!Ready(e) /\ LogStatus'[e] = "done"
             \/ LogStatus[e] = "queued" /\ LogStatus'[e] = "parked"
  <2>1. /\ LogStatus[e] = StatusOf(ev[e].state)
        /\ LogStatus'[e] = StatusOf(ev'[e].state)
        /\ ev[e].state \in States /\ ev'[e].state \in States
    BY <1>1, RowStates DEF LogStatus, SettlesRow
  <2>2. CASE StatusOf(ev'[e].state) = StatusOf(ev[e].state)
    BY <2>1, <2>2
  <2>3. CASE /\ ev[e].state = "processing" /\ receipts[e] # None
             /\ ev'[e].state = "completed"
    BY <2>1, <2>3, ProcessingReady, StatusFacts
  <2>4. CASE ev[e].state = "processing" /\ ev'[e].state = "dead"
    BY <2>1, <2>4, StatusFacts
  <2> QED
    BY <2>2, <2>3, <2>4 DEF SettlesRow
<1>3. LogStatus' = [e \in Events |-> LogStatus'[e]]
  BY DEF LogStatus
<1>4. UNCHANGED LogPos
  BY DEF LogPos, SettlesRow
<1> QED
  BY <1>2, <1>3, <1>4 DEF Log!Settle

(* A step that leaves rows and receipts alone settles nothing.             *)
LEMMA RowsKept ==
  ASSUME IndInv, UNCHANGED <<ev, receipts>>
  PROVE  Log!Settle
<1>1. \A e \in Events : SettlesRow(e)
  BY RowStates DEF IndInv, SettlesRow
<1> QED
  BY <1>1, SettlesLog

(* A delivery's statement that replaces its row in processing by one in    *)
(* the same place of the log, completed under its receipt or dead.         *)
LEMMA RowSettled ==
  ASSUME IndInv, NEW e \in Events, NEW r,
         ev' = [ev EXCEPT ![e] = r], UNCHANGED receipts,
         ev[e].state = "processing", r.seq = ev[e].seq,
         \/ r.state \in {"pending", "processing", "dead"}
         \/ r.state = "completed" /\ receipts[e] # None
  PROVE  Log!Settle
<1>1. TypeOK /\ ev'[e] = r /\ \A f \in Events : f # e => ev'[f] = ev[f]
  BY DEF IndInv, TypeOK
<1>2. ASSUME NEW f \in Events, f # e PROVE SettlesRow(f)
  BY <1>1, <1>2, RowStates DEF SettlesRow
<1>3. SettlesRow(e)
  BY <1>1, StatusFacts DEF SettlesRow, States
<1> QED
  BY <1>2, <1>3, SettlesLog

-----------------------------------------------------------------------------
(* One lemma per step that touches a row or a receipt.                     *)

(* CommitEmit appends: the producer's sequence number is beyond every      *)
(* committed one of its aggregate, which the advisory lock guarantees.     *)
LEMMA CommitAppends ==
  ASSUME IndInv, NEW a \in Aggregates, CommitEmit(a)
  PROVE  \E e \in Events : Log!Append(e)
<1> DEFINE e == open[a].event
<1>1. /\ TypeOK /\ open[a] # None /\ ev' = [ev EXCEPT ![e] = EmittedRow(open[a])]
      /\ UNCHANGED receipts
  BY DEF IndInv, CommitEmit
<1>2. /\ e \in Events /\ open[a].seq \in Nat /\ AggOf[e] = a /\ ~Committed(e)
      /\ \A p \in InLog(a) : ev[p].seq < open[a].seq
  BY <1>1, OutboxConstants DEF IndInv, TypeOK, OpenEmit, OpenInv
<1>3. /\ ev'[e].state = "pending" /\ ev'[e].seq = open[a].seq
      /\ \A p \in Events : p # e => ev'[p] = ev[p]
  BY <1>1, <1>2 DEF TypeOK, EmittedRow
<1>4. LogStatus[e] = "none"
  BY <1>1, <1>2, RowStates, StatusFacts DEF Committed
<1>5. LogStatus' = [LogStatus EXCEPT ![e] = "queued"]
  <2>1. StatusOf("pending") = "queued"
    BY StatusFacts DEF States
  <2> QED
    BY <1>2, <1>3, <2>1, ZenonT(60) DEF LogStatus
<1>6. LogPos'[e] = open[a].seq /\ LogPos' = [LogPos EXCEPT ![e] = LogPos'[e]]
  BY <1>2, <1>3, ZenonT(60) DEF LogPos
<1>7. \A p \in Events :
        AggOf[p] = AggOf[e] /\ LogStatus[p] # "none" => LogPos[p] < LogPos'[e]
  BY <1>1, <1>2, <1>6, RowStates, StatusFacts DEF InLog, Committed
<1>8. Log!Append(e)
  BY <1>1, <1>2, <1>4, <1>5, <1>6, <1>7 DEF Log!Append
<1> QED
  BY <1>2, <1>8

(* replay_dead puts a parked event back in the queue.                      *)
LEMMA ReplayRequeues ==
  ASSUME IndInv, NEW e \in Events, ReplayDead(e)
  PROVE  Log!Requeue(e)
<1>1. TypeOK /\ ev[e].state = "dead" /\ UNCHANGED receipts
  BY DEF IndInv, ReplayDead
<1>2. PICK now \in Times : ev' = [ev EXCEPT ![e] = Replayed(@, now)]
  BY ZenonT(60) DEF ReplayDead
<1>3. /\ ev'[e].state = "pending" /\ ev'[e].seq = ev[e].seq
      /\ \A p \in Events : p # e => ev'[p] = ev[p]
  BY <1>1, <1>2 DEF TypeOK, Row, Replayed
<1>4. LogStatus[e] = "parked"
  BY <1>1, RowStates, StatusFacts
<1>5. LogStatus' = [LogStatus EXCEPT ![e] = "queued"]
  <2>1. StatusOf("pending") = "queued"
    BY StatusFacts DEF States
  <2> QED
    BY <1>3, <2>1, ZenonT(60) DEF LogStatus
<1>6. UNCHANGED LogPos
  BY <1>3 DEF LogPos
<1> QED
  BY <1>1, <1>4, <1>5, <1>6 DEF Log!Requeue

(* record_receipt records the effect of a queued event, or changes nothing *)
(* the log can see.                                                        *)
LEMMA ReceiptRecords ==
  ASSUME IndInv, NEW k \in tasks, RecordReceipt(k)
  PROVE  Log!Settle \/ \E e \in Events : Log!Record(e)
<1>1. /\ TypeOK /\ k \in Task /\ TaskOK(k) /\ k.pc = "insert"
      /\ UNCHANGED ev
  BY DEF IndInv, TypeOK, TaskInv, RecordReceipt
<1>2. CASE UNCHANGED receipts
  BY <1>1, <1>2, RowsKept
<1>3. CASE /\ receipts[k.event] = None
           /\ receipts' = [receipts EXCEPT ![k.event] = k.effect]
  <2>1. /\ k.event \in Events /\ k.effect \in Effects
        /\ ev[k.event].state = "processing"
    BY <1>1 DEF Task, TaskOK
  <2>2. LogStatus[k.event] = "queued"
    BY <1>1, <2>1, RowStates, StatusFacts
  <2>3. UNCHANGED <<LogStatus, LogPos>>
    BY <1>1 DEF LogStatus, LogPos
  <2>4. Log!Record(k.event)
    BY <1>3, <2>1, <2>2, <2>3, ZenonT(60) DEF Log!Record
  <2> QED
    BY <2>1, <2>4
<1> QED
  BY <1>2, <1>3 DEF RecordReceipt

(* A renewal keeps the event queued.                                       *)
LEMMA RenewalKeeps ==
  ASSUME IndInv, NEW k \in tasks, NEW t, RenewLease(k, t), UNCHANGED receipts
  PROVE  Log!Settle
<1>1. k.event \in Events /\ ev[k.event] \in Row
  BY DEF IndInv, TypeOK, Task
<1>2. /\ ev' = [ev EXCEPT ![k.event] = Renewed(ev[k.event], t)]
      /\ ev[k.event].state = "processing"
  BY <1>1 DEF RenewLease, Fence
<1>3. /\ Renewed(ev[k.event], t).state = "processing"
      /\ Renewed(ev[k.event], t).seq = ev[k.event].seq
  BY <1>1, <1>2 DEF Renewed, Row
<1> QED
  BY ZenonT(60), <1>1, <1>2, <1>3, RowSettled

(* mark_completed settles an event whose receipt is stored.                *)
LEMMA CompletionSettles ==
  ASSUME IndInv, NEW k \in tasks, MarkCompleted(k)
  PROVE  Log!Settle
<1>1. /\ k.event \in Events /\ ev[k.event] \in Row /\ receipts[k.event] # None
      /\ UNCHANGED receipts
  BY DEF IndInv, TypeOK, Task, TaskInv, TaskOK, MarkCompleted
<1>2. CASE UNCHANGED ev
  BY <1>1, <1>2, RowsKept
<1>3. ASSUME NEW t, Fence(k, t),
             ev' = [ev EXCEPT ![k.event] = Completed(@, t)]
      PROVE  Log!Settle
  <2>1. ev' = [ev EXCEPT ![k.event] = Completed(ev[k.event], t)]
    BY <1>3
  <2>2. /\ ev[k.event].state = "processing"
        /\ Completed(ev[k.event], t).state = "completed"
        /\ Completed(ev[k.event], t).seq = ev[k.event].seq
    BY <1>1, <1>3 DEF Completed, Row, Fence
  <2> QED
    BY ZenonT(60), <1>1, <2>1, <2>2, RowSettled
<1> QED
  BY <1>2, <1>3, SMTT(60) DEF MarkCompleted

(* mark_failed parks or requeues an event, or completes it under a receipt *)
(* an earlier attempt left.                                                *)
LEMMA FailureSettles ==
  ASSUME IndInv, NEW k \in tasks, MarkFailed(k)
  PROVE  Log!Settle
<1>1. k.event \in Events /\ ev[k.event] \in Row /\ UNCHANGED receipts
  BY DEF IndInv, TypeOK, Task, MarkFailed
<1>2. CASE UNCHANGED ev
  BY <1>1, <1>2, RowsKept
<1>3. ASSUME NEW t, NEW due, Fence(k, t),
             ev' = [ev EXCEPT ![k.event] =
                      Settle(ev[k.event], receipts[k.event] # None, t, due)]
      PROVE  Log!Settle
  <2> DEFINE r == Settle(ev[k.event], receipts[k.event] # None, t, due)
  <2>1. /\ ev[k.event].state = "processing" /\ r.seq = ev[k.event].seq
        /\ \/ r.state \in {"pending", "processing", "dead"}
           \/ r.state = "completed" /\ receipts[k.event] # None
    BY <1>1, <1>3 DEF Settle, Row, Fence
  <2> QED
    BY ZenonT(60), <1>1, <1>3, <2>1, RowSettled
<1> QED
  BY <1>2, <1>3 DEF MarkFailed

(* claim_batch: the reclaim settles expired rows, those completed having   *)
(* their receipt (its snapshot saw it), and a claim keeps an event queued. *)
LEMMA ClaimSettles ==
  ASSUME IndInv, NEW o \in Owners, ClaimBatch(o)
  PROVE  Log!Settle
<1> DEFINE c == claim[o]
           mid == AfterReclaim(c)
<1>1. /\ TypeOK /\ c # None /\ c.now \in Nat /\ UNCHANGED receipts
      /\ \A e \in c.received : receipts[e] # None
  BY OutboxConstants DEF IndInv, TypeOK, OpenClaim, Times, ClaimInv, ClaimBatch
<1>2. PICK S \in SUBSET Claimable(mid, c.now) :
        ev' = [e \in Events |-> IF e \in S THEN Claimed(mid[e], o, c.now)
                                ELSE mid[e]]
  BY ZenonT(60) DEF ClaimBatch, Batch
<1>3. ASSUME NEW e \in Events PROVE SettlesRow(e)
  <2>1. ev[e] \in Row /\ RowOK(ev[e])
    BY <1>1 DEF TypeOK, IndInv, RowInv
  <2>2. c \in OpenClaim
    BY <1>1 DEF TypeOK
  <2>3. /\ mid[e] \in Row /\ mid[e].seq = ev[e].seq
        /\ mid[e].state = "completed" => receipts[e] # None
        /\ mid[e] # ev[e] => /\ ev[e].state = "processing"
                             /\ mid[e].state # "absent"
    BY <1>1, <2>2, ReclaimedRow DEF Expired
  <2>4. CASE e \notin S
    <3>1. ev'[e] = mid[e]
      BY <1>2, <2>4
    <3> QED
      BY <2>1, <2>3, <3>1, StatusFacts DEF SettlesRow, Row, States
  <2>5. CASE e \in S
    <3>1. ev'[e] = Claimed(mid[e], o, c.now) /\ mid[e].state = "pending"
      BY <1>2, <2>5 DEF Claimable
    <3>2. ev'[e].state = "processing" /\ ev'[e].seq = ev[e].seq
      BY <2>3, <3>1, SMTT(60) DEF Claimed, Row
    <3>3. ev[e].state \in {"pending", "processing"}
      BY <2>3, <3>1
    <3> QED
      BY <3>2, <3>3, StatusFacts, SMTT(60) DEF SettlesRow, States
  <2> QED
    BY <2>4, <2>5
<1> QED
  BY <1>1, <1>3, SettlesLog

-----------------------------------------------------------------------------
(* Every delivery step is a step of the log.                               *)
LEMMA DeliverLogs ==
  ASSUME IndInv, NEW k \in tasks, Deliver(k)
  PROVE  Log!Settle \/ \E e \in Events : Log!Record(e)
<1>1. CASE Consume(k) \/ StopHeartbeat(k) \/ LockForReceipt(k)
  BY <1>1, RowsKept, ZenonT(60) DEF Consume, StopHeartbeat, LockForReceipt
<1>2. CASE RenewClaim(k)
  BY <1>2, RowsKept, RenewalKeeps DEF RenewClaim
<1>3. CASE Heartbeat(k)
  BY <1>3, RowsKept, RenewalKeeps DEF Heartbeat
<1>4. CASE RecordReceipt(k)
  BY <1>4, ReceiptRecords
<1>5. CASE MarkCompleted(k)
  BY <1>5, CompletionSettles
<1>6. CASE MarkFailed(k)
  BY <1>6, FailureSettles
<1> QED
  BY <1>1, <1>2, <1>3, <1>4, <1>5, <1>6, SMTT(60) DEF Deliver

(* The empty table is the empty log.                                       *)
LEMMA LogStart == Init => Log!LogInit
<1> SUFFICES ASSUME Init PROVE Log!LogInit
  OBVIOUS
<1>1. StatusOf("absent") = "none"
  BY StatusFacts DEF States
<1>2. LogStatus = [e \in Events |-> "none"]
  BY <1>1 DEF Init, LogStatus, AbsentRow
<1>3. LogPos = [e \in Events |-> 0]
  BY DEF Init, LogPos, AbsentRow
<1> QED
  BY <1>2, <1>3 DEF Init, Log!LogInit

(* Every step of the outbox is a step of the log or leaves it alone.       *)
LEMMA LogSteps == IndInv /\ [Next]_vars => [Log!LogNext]_(Log!logVars)
<1> SUFFICES ASSUME IndInv, [Next]_vars PROVE [Log!LogNext]_(Log!logVars)
  OBVIOUS
<1>1. ASSUME NEW e \in Events, EmitEvent(e) \/ ReplayDead(e)
      PROVE  Log!LogNext
  BY <1>1, RowsKept, ReplayRequeues DEF EmitEvent, Log!LogNext
<1>2. ASSUME NEW a \in Aggregates, CommitEmit(a) \/ RollbackEmit(a)
      PROVE  Log!LogNext
  BY <1>2, RowsKept, CommitAppends, SMTT(60) DEF RollbackEmit, Log!LogNext
<1>3. ASSUME NEW o \in Owners, \/ Poll(o) \/ BeginReclaim(o) \/ ClaimBatch(o)
                               \/ AbortClaim(o) \/ Crash(o)
      PROVE  Log!LogNext
  BY <1>3, RowsKept, ClaimSettles DEF Poll, BeginReclaim, AbortClaim, Crash,
     Log!LogNext
<1>4. ASSUME NEW k \in tasks, Deliver(k) PROVE Log!LogNext
  BY <1>4, DeliverLogs DEF Log!LogNext
<1>5. CASE Tick
  BY <1>5, RowsKept DEF Tick, Log!LogNext
<1>6. CASE UNCHANGED vars
  BY <1>6 DEF vars, Log!logVars, LogStatus, LogPos
<1> QED
  BY <1>1, <1>2, <1>3, <1>4, <1>5, <1>6, SMTT(60) DEF Next

(* The outbox implements the ordered, effective-once log, for any number   *)
(* of events, aggregates, dispatchers and effects: claims, leases, fences, *)
(* crashes and replays never show through.                                 *)
THEOREM OutboxImplementsLog == Spec => ImplementsLog
BY LogStart, LogSteps, Invariance, PTL DEF Spec, ImplementsLog, Log!LogSpec
=============================================================================
