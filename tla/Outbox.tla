------------------------------- MODULE Outbox -------------------------------
(***************************************************************************)
(* The transactional outbox: producers append events inside their own      *)
(* database transactions, dispatchers of the operations worker claim them  *)
(* under a fenced lease, run the consumer, write an effective-once receipt *)
(* and settle the event; an operator may replay a dead event.              *)
(*                                                                         *)
(* Sources: backend/repositories/transactional_outbox.py,                  *)
(* backend/services/outbox_worker.py, backend/services/outbox_replay.py    *)
(* and the tables, producers and triggers of                               *)
(* backend/db/migrations/069_ai_cohort_and_transactional_outbox.sql.       *)
(*                                                                         *)
(* PostgreSQL is modelled at READ COMMITTED: one action per committed      *)
(* transaction, except where another transaction can be observed half way  *)
(* (a producer's open transaction, the open receipt transaction, and the   *)
(* reclaim statement, whose snapshot is older than the row locks it waits  *)
(* for).  A timestamp parameter is read from the process clock before the  *)
(* statement runs, so every statement takes SOME t between the moment the  *)
(* task got control and the current time.                                  *)
(***************************************************************************)
EXTENDS Integers, FiniteSets

CONSTANTS
  Events,        \* event identities (event_key)
  Aggregates,    \* (aggregate_type, aggregate_id) pairs
  AggOf,         \* the aggregate of each event
  Owners,        \* dispatcher processes
  Effects,       \* effect digests a consumer can return
  None,          \* SQL NULL / Python None
  MaxAttempts,   \* 8 in the code
  Lease,         \* lease_seconds, in clock ticks
  Beat,          \* heartbeat interval, lease_seconds / 3
  RetryDelay,    \* back-off after the n-th attempt
  BatchSize,     \* claim_batch limit
  MaxReplays,    \* bound: operator replays of one event
  MaxTime        \* bound: the clock stops here

ASSUME OutboxConstants ==
  /\ AggOf \in [Events -> Aggregates]
  /\ None \notin Events \cup Owners \cup Effects
  /\ MaxAttempts \in Nat \ {0}
  /\ Lease \in Nat \ {0}
  /\ Beat \in Nat
  /\ RetryDelay \in [1 .. MaxAttempts -> Nat]
  /\ BatchSize \in Nat \ {0}
  /\ MaxReplays \in Nat
  /\ MaxTime \in Nat

VARIABLES
  clock,     \* wall clock
  ev,        \* retail_outbox_events, one row per event ("absent" before commit)
  receipts,  \* retail_outbox_consumer_receipts: the effect recorded per event
  open,      \* per aggregate: the producer transaction holding its advisory lock
  claim,     \* per owner: its open claim_batch transaction
  tasks      \* the running _deliver_claimed coroutines

vars == <<clock, ev, receipts, open, claim, tasks>>

Times == 0 .. MaxTime
States == {"absent", "pending", "processing", "completed", "dead"}

Row == [state : States, seq : Nat, attempt_count : 0 .. MaxAttempts,
        available_at : Nat, updated_at : Nat, claim_owner : Owners \cup {None},
        claim_epoch : Nat, lease_until : Nat, replay_count : Nat]

AbsentRow == [state |-> "absent", seq |-> 0, attempt_count |-> 0,
              available_at |-> 0, updated_at |-> 0, claim_owner |-> None,
              claim_epoch |-> 0, lease_until |-> 0, replay_count |-> 0]

(* Where a delivery stands: "consume" is the consumer call, "insert" the   *)
(* receipt transaction between its row lock and its commit, "stop" the     *)
(* wait for the heartbeat; the f... points are the except branch.          *)
Points == {"consume", "renew", "receipt", "insert", "confirm", "stop",
           "complete", "fconfirm", "fstop", "fail"}

Task == [event : Events, epoch : Nat, owner : Owners, pc : Points,
         since : Times, hb : {"run", "lost", "stopped"}, hb_since : Times,
         effect : Effects \cup {None}, detached : BOOLEAN]

OpenEmit == [event : Events, seq : Nat, at : Times]
OpenClaim == [stmt : {"acquire", "reclaim"}, now : Times,
              expired : SUBSET Events, received : SUBSET Events]

TypeOK ==
  /\ clock \in Times
  /\ ev \in [Events -> Row]
  /\ receipts \in [Events -> Effects \cup {None}]
  /\ open \in [Aggregates -> OpenEmit \cup {None}]
  /\ claim \in [Owners -> OpenClaim \cup {None}]
  /\ tasks \subseteq Task

Init ==
  /\ clock = 0
  /\ ev = [e \in Events |-> AbsentRow]
  /\ receipts = [e \in Events |-> None]
  /\ open = [a \in Aggregates |-> None]
  /\ claim = [o \in Owners |-> None]
  /\ tasks = {}

Committed(e) == ev[e].state # "absent"

(* The trigger guard_retail_outbox_event_mutation.  A statement whose new  *)
(* row it refuses raises and rolls back.                                   *)
GuardAllows(old, new) ==
  /\ new.seq = old.seq
  /\ new.updated_at >= old.updated_at
  /\ new.claim_epoch >= old.claim_epoch
  /\ old.state # "completed"
  /\ old.state = "pending" =>
       /\ new.state = "processing"
       /\ new.claim_epoch > old.claim_epoch
       /\ new.attempt_count = old.attempt_count + 1
       /\ new.replay_count = old.replay_count
  /\ old.state = "processing" =>
       /\ new.state \in {"processing", "pending", "completed", "dead"}
       /\ new.claim_epoch = old.claim_epoch
       /\ new.attempt_count = old.attempt_count
       /\ new.replay_count = old.replay_count
       /\ new.state = "processing" => new.claim_owner = old.claim_owner
  /\ old.state = "dead" =>
       /\ new.state = "pending"
       /\ new.replay_count = old.replay_count + 1
       /\ new.attempt_count = 0
       /\ new.claim_epoch = old.claim_epoch

-----------------------------------------------------------------------------
(* Producers: emit_retail_outbox_event_internal.                           *)

InLog(a) == {e \in Events : AggOf[e] = a /\ Committed(e)}

(* COALESCE(MAX(aggregate_sequence), 0) + 1, a singleton.                  *)
NextSeq(a) ==
  {n \in {1} \cup {ev[e].seq + 1 : e \in InLog(a)} :
     \A e \in InLog(a) : ev[e].seq < n}

(* The advisory lock of the aggregate, then the next sequence number.  The *)
(* caller's transaction stays open: nobody sees the row yet.               *)
EmitEvent(e) ==
  LET a == AggOf[e]
  IN  /\ ~Committed(e)
      /\ open[a] = None
      /\ \E n \in NextSeq(a) :
           open' = [open EXCEPT ![a] = [event |-> e, seq |-> n, at |-> clock]]
      /\ UNCHANGED <<clock, ev, receipts, claim, tasks>>

EmittedRow(p) ==
  [state |-> "pending", seq |-> p.seq, attempt_count |-> 0,
   available_at |-> p.at, updated_at |-> p.at, claim_owner |-> None,
   claim_epoch |-> 0, lease_until |-> 0, replay_count |-> 0]

CommitEmit(a) ==
  /\ open[a] # None
  /\ ev' = [ev EXCEPT ![open[a].event] = EmittedRow(open[a])]
  /\ open' = [open EXCEPT ![a] = None]
  /\ UNCHANGED <<clock, receipts, claim, tasks>>

RollbackEmit(a) ==
  /\ open[a] # None
  /\ open' = [open EXCEPT ![a] = None]
  /\ UNCHANGED <<clock, ev, receipts, claim, tasks>>

-----------------------------------------------------------------------------
(* claim_batch, first statement: _RECLAIM_EXPIRED_SQL.                     *)

Expired(e, now) == ev[e].state = "processing" /\ ev[e].lease_until <= now

(* Fault: record_receipt's fence test without FOR UPDATE.                  *)
RowLockedNever(e) == FALSE

(* The receipt transaction holds the row lock (_RECEIPT_CLAIM_SQL).        *)
RowLocked(e) == \E k \in tasks : k.event = e /\ k.pc = "insert"

(* Fault: the attempt limit is compared with > instead of =.               *)
SettleLate(r, received, now, due) ==
  [r EXCEPT !.state = IF received THEN "completed"
                      ELSE IF r.attempt_count > MaxAttempts THEN "dead"
                      ELSE "pending",
            !.available_at = IF received THEN @ ELSE due,
            !.claim_owner = None, !.lease_until = 0, !.updated_at = now]

(* What a lost attempt leaves behind; shared by the reclaim and by         *)
(* _MARK_FAILED_SQL, which differ in the time the retry becomes due.       *)
Settle(r, received, now, due) ==
  [r EXCEPT !.state = IF received THEN "completed"
                      ELSE IF r.attempt_count = MaxAttempts THEN "dead"
                      ELSE "pending",
            !.available_at = IF received \/ r.attempt_count = MaxAttempts
                             THEN @ ELSE due,
            !.claim_owner = None, !.lease_until = 0, !.updated_at = now]

(* dispatch_outbox_once: the loop polls once the deliveries it awaits are  *)
(* over; it reads the clock before it waits for a pool connection.         *)
Poll(o) ==
  /\ claim[o] = None
  /\ \A k \in tasks : k.owner = o => k.detached
  /\ claim' = [claim EXCEPT ![o] = [stmt |-> "acquire", now |-> clock,
                                    expired |-> {}, received |-> {}]]
  /\ UNCHANGED <<clock, ev, receipts, open, tasks>>

(* The reclaim's snapshot fixes which rows are expired and which of them   *)
(* already have a receipt.                                                 *)
BeginReclaim(o) ==
  /\ claim[o] # None
  /\ claim[o].stmt = "acquire"
  /\ claim' = [claim EXCEPT ![o] =
       [stmt |-> "reclaim", now |-> claim[o].now,
        expired |-> {e \in Events : Expired(e, claim[o].now)},
        received |-> {e \in Events : receipts[e] # None}]]
  /\ UNCHANGED <<clock, ev, receipts, open, tasks>>

(* FOR UPDATE re-reads the locked row, not the receipts.                   *)
AfterReclaim(c) ==
  [e \in Events |->
     IF e \in c.expired /\ Expired(e, c.now)
     THEN Settle(ev[e], e \in c.received, c.now, c.now) ELSE ev[e]]

(* Fault: a dead predecessor no longer blocks its aggregate.               *)
ClaimablePastDead(rows, now) ==
  {e \in Events :
     /\ rows[e].state = "pending"
     /\ rows[e].available_at <= now
     /\ \A p \in Events :
          /\ AggOf[p] = AggOf[e]
          /\ rows[p].state \in {"pending", "processing"}
          => rows[p].seq >= rows[e].seq}

(* claim_batch, second statement: _CLAIM_SQL.                              *)
Claimable(rows, now) ==
  {e \in Events :
     /\ rows[e].state = "pending"
     /\ rows[e].available_at <= now
     /\ \A p \in Events :
          /\ AggOf[p] = AggOf[e]
          /\ rows[p].state # "absent"
          /\ rows[p].seq < rows[e].seq
          => rows[p].state = "completed"}

(* SKIP LOCKED: rows another open claim transaction may hold.              *)
Skippable(o) ==
  IF \E p \in Owners \ {o} : claim[p] # None /\ claim[p].stmt = "reclaim"
  THEN SUBSET Events ELSE {{}}

(* ORDER BY available_at, ... LIMIT: the earliest BatchSize candidates.    *)
Batch(rows, now, skip) ==
  LET candidates == Claimable(rows, now) \ skip
  IN  {S \in SUBSET candidates :
         /\ Cardinality(S) <= BatchSize
         /\ S # candidates => Cardinality(S) = BatchSize
         /\ \A e \in S, f \in candidates \ S :
              rows[e].available_at <= rows[f].available_at}

Claimed(r, o, now) ==
  [r EXCEPT !.state = "processing", !.attempt_count = @ + 1,
            !.claim_owner = o, !.claim_epoch = @ + 1,
            !.lease_until = now + Lease, !.updated_at = now]

NewTask(e, n, o) ==
  [event |-> e, epoch |-> n, owner |-> o, pc |-> "consume", since |-> clock,
   hb |-> "run", hb_since |-> clock, effect |-> None, detached |-> FALSE]

(* The transaction commits; _deliver_claimed starts for every row claimed. *)
(* It waits for the row locks of open receipts and, per candidate, for the *)
(* aggregate's advisory lock.                                              *)
ClaimBatch(o) ==
  /\ claim[o] # None
  /\ claim[o].stmt = "reclaim"
  /\ LET c == claim[o]
         mid == AfterReclaim(c)
     IN  /\ \A e \in c.expired : Expired(e, c.now) => ~RowLocked(e)
         /\ \E skip \in Skippable(o) : \E S \in Batch(mid, c.now, skip) :
              LET new == [e \in Events |-> IF e \in S
                                           THEN Claimed(mid[e], o, c.now)
                                           ELSE mid[e]]
              IN  /\ \A e \in S : open[AggOf[e]] = None
                  /\ \A e \in Events :
                       /\ mid[e] # ev[e] => GuardAllows(ev[e], mid[e])
                       /\ new[e] # mid[e] => GuardAllows(mid[e], new[e])
                  /\ ev' = new
                  /\ tasks' = tasks \cup
                       {NewTask(e, new[e].claim_epoch, o) : e \in S}
  /\ claim' = [claim EXCEPT ![o] = None]
  /\ UNCHANGED <<clock, receipts, open>>

(* The transaction is rolled back: connection lost or cancelled.           *)
AbortClaim(o) ==
  /\ claim[o] # None
  /\ claim' = [claim EXCEPT ![o] = None]
  /\ UNCHANGED <<clock, ev, receipts, open, tasks>>

-----------------------------------------------------------------------------
(* _deliver_claimed.                                                       *)

Advance(k, pc) == tasks' = (tasks \ {k}) \cup
                           {[k EXCEPT !.pc = pc, !.since = clock]}

Drop(k) == tasks' = tasks \ {k}

(* Fault: the fence compares the owner only.                               *)
FenceByOwner(k, t) ==
  LET r == ev[k.event]
  IN  r.state = "processing" /\ r.claim_owner = k.owner /\ r.lease_until > t

(* The fence every statement of a delivery carries.                        *)
Fence(k, t) ==
  LET r == ev[k.event]
  IN  /\ r.state = "processing"
      /\ r.claim_owner = k.owner
      /\ r.claim_epoch = k.epoch
      /\ r.lease_until > t

(* The consumer returns a receipt, raises, or is cancelled by a lost       *)
(* heartbeat.                                                              *)
Consume(k) ==
  /\ k.pc = "consume"
  /\ \/ /\ k.hb # "lost"
        /\ \E x \in Effects :
             tasks' = (tasks \ {k}) \cup
               {[k EXCEPT !.pc = "renew", !.since = clock, !.effect = x]}
     \/ k.hb # "lost" /\ Advance(k, "fconfirm")
     \/ k.hb = "lost" /\ Drop(k)
  /\ UNCHANGED <<clock, ev, receipts, open, claim>>

(* Fault: updated_at takes the database clock, lease_until the caller's.   *)
RenewedServerClock(r, t) ==
  [r EXCEPT !.lease_until = t + Lease, !.updated_at = clock]

Renewed(r, t) == [r EXCEPT !.lease_until = t + Lease, !.updated_at = t]

(* renew_lease at time t takes effect.                                     *)
RenewLease(k, t) ==
  /\ Fence(k, t)
  /\ ~RowLocked(k.event)
  /\ GuardAllows(ev[k.event], Renewed(ev[k.event], t))
  /\ ev' = [ev EXCEPT ![k.event] = Renewed(@, t)]

AfterRenew(pc) == IF pc = "renew" THEN "receipt"
                  ELSE IF pc = "confirm" THEN "stop" ELSE "fstop"

(* _renew_claim by the delivery itself.  _confirm_claim_and_stop looks at  *)
(* the heartbeat first.  Any exception is _ClaimLeaseLost and abandons the *)
(* attempt, the renewal having been committed or not.                      *)
RenewClaim(k) ==
  /\ k.pc \in {"renew", "confirm", "fconfirm"}
  /\ \/ /\ k.pc = "renew" \/ k.hb # "lost"
        /\ \E t \in k.since .. clock : RenewLease(k, t)
        /\ Advance(k, AfterRenew(k.pc)) \/ Drop(k)
     \/ UNCHANGED ev /\ Drop(k)
  /\ UNCHANGED <<clock, receipts, open, claim>>

(* _lease_heartbeat, concurrent with everything the delivery does until    *)
(* it is stopped.  A refused renewal ends it.                              *)
Heartbeat(k) ==
  /\ k.hb = "run"
  /\ k.pc \notin {"complete", "fail"}
  /\ \E t \in (k.hb_since + Beat) .. clock :
       \/ /\ RenewLease(k, t)
          /\ tasks' = (tasks \ {k}) \cup {[k EXCEPT !.hb_since = clock]}
       \/ /\ UNCHANGED ev
          /\ tasks' = (tasks \ {k}) \cup
                      {[k EXCEPT !.hb = "lost", !.hb_since = 0]}
  /\ UNCHANGED <<clock, receipts, open, claim>>

(* stop.set() and the wait for the heartbeat.                              *)
StopHeartbeat(k) ==
  /\ k.pc \in {"stop", "fstop"}
  /\ IF k.hb = "lost" THEN Drop(k)
     ELSE tasks' = (tasks \ {k}) \cup
            {[k EXCEPT !.pc = IF k.pc = "stop" THEN "complete" ELSE "fail",
                       !.since = clock, !.hb = "stopped", !.hb_since = 0]}
  /\ UNCHANGED <<clock, ev, receipts, open, claim>>

(* record_receipt: SELECT ... FOR UPDATE under the fence; a stale claim    *)
(* raises RuntimeError, as does any database error.                        *)
LockForReceipt(k) ==
  /\ k.pc = "receipt"
  /\ \/ /\ \E t \in k.since .. clock : Fence(k, t)
        /\ ~RowLocked(k.event)
        /\ Advance(k, "insert")
     \/ Advance(k, "fconfirm")
  /\ UNCHANGED <<clock, ev, receipts, open, claim>>

(* Fault: an INSERT that stored nothing counts as recorded.                *)
RecordReceiptUnchecked(k) ==
  /\ k.pc = "insert"
  /\ \/ /\ receipts[k.event] = None
        /\ receipts' = [receipts EXCEPT ![k.event] = k.effect]
     \/ UNCHANGED receipts
  /\ Advance(k, "confirm")
  /\ UNCHANGED <<clock, ev, open, claim>>

(* Fault: ON CONFLICT DO UPDATE, the last effect wins.                     *)
RecordReceiptUpsert(k) ==
  /\ k.pc = "insert"
  /\ receipts' = [receipts EXCEPT ![k.event] = k.effect]
  /\ Advance(k, "confirm") \/ Advance(k, "fconfirm")
  /\ UNCHANGED <<clock, ev, open, claim>>

(* INSERT ... ON CONFLICT DO NOTHING and commit.  An identical receipt is  *)
(* accepted, a different one raises; a failed commit or a lost reply       *)
(* raises too, the receipt having been stored or not.                      *)
RecordReceipt(k) ==
  /\ k.pc = "insert"
  /\ \/ /\ receipts[k.event] = None
        /\ receipts' = [receipts EXCEPT ![k.event] = k.effect]
        /\ Advance(k, "confirm") \/ Advance(k, "fconfirm")
     \/ /\ receipts[k.event] = k.effect
        /\ UNCHANGED receipts
        /\ Advance(k, "confirm")
     \/ UNCHANGED receipts /\ Advance(k, "fconfirm")
  /\ UNCHANGED <<clock, ev, open, claim>>

Completed(r, t) == [r EXCEPT !.state = "completed", !.claim_owner = None,
                             !.lease_until = 0, !.updated_at = t]

(* mark_completed.  An exception, after the commit or instead of it, goes  *)
(* to the except branch.                                                   *)
MarkCompleted(k) ==
  /\ k.pc = "complete"
  /\ \/ /\ \E t \in k.since .. clock :
             /\ Fence(k, t)
             /\ ~RowLocked(k.event)
             /\ GuardAllows(ev[k.event], Completed(ev[k.event], t))
             /\ ev' = [ev EXCEPT ![k.event] = Completed(@, t)]
        /\ Drop(k) \/ Advance(k, "fconfirm")
     \/ UNCHANGED ev /\ Advance(k, "fconfirm")
  /\ UNCHANGED <<clock, receipts, open, claim>>

(* mark_failed.  "stale outbox claim" is swallowed; any other exception    *)
(* leaves _deliver_claimed, so gather() returns to the dispatcher loop and *)
(* the other deliveries of the batch run on, no longer awaited.            *)
MarkFailed(k) ==
  /\ k.pc = "fail"
  /\ \/ \E t \in k.since .. clock :
          LET new == Settle(ev[k.event], receipts[k.event] # None, t,
                            t + RetryDelay[ev[k.event].attempt_count])
          IN  /\ Fence(k, t)
              /\ ~RowLocked(k.event)
              /\ GuardAllows(ev[k.event], new)
              /\ ev' = [ev EXCEPT ![k.event] = new]
     \/ UNCHANGED ev
  /\ \/ Drop(k)
     \/ tasks' = {IF m.owner = k.owner THEN [m EXCEPT !.detached = TRUE]
                  ELSE m : m \in tasks \ {k}}
  /\ UNCHANGED <<clock, receipts, open, claim>>

-----------------------------------------------------------------------------
(* replay_dead: the audit row number replay_count + 1 and the requeue      *)
(* commit together, so the audit log is not a variable of its own.         *)
Replayed(r, now) ==
  [r EXCEPT !.state = "pending", !.attempt_count = 0, !.available_at = now,
            !.updated_at = now, !.replay_count = @ + 1]

(* Fault: any unsettled event may be replayed, past the trigger.           *)
ReplayUnsettled(e) ==
  /\ ev[e].state \in {"pending", "dead"}
  /\ ev[e].replay_count < MaxReplays
  /\ ev' = [ev EXCEPT ![e] = Replayed(@, clock)]
  /\ UNCHANGED <<clock, receipts, open, claim, tasks>>

ReplayDead(e) ==
  /\ ev[e].state = "dead"
  /\ ev[e].attempt_count = MaxAttempts
  /\ ev[e].replay_count < MaxReplays
  /\ \E now \in Times :
       /\ now <= clock
       /\ GuardAllows(ev[e], Replayed(ev[e], now))
       /\ ev' = [ev EXCEPT ![e] = Replayed(@, now)]
  /\ UNCHANGED <<clock, receipts, open, claim, tasks>>

(* The worker process dies or is shut down: its transaction rolls back and *)
(* its coroutines are gone.                                                *)
Crash(o) ==
  /\ claim[o] # None \/ \E k \in tasks : k.owner = o
  /\ claim' = [claim EXCEPT ![o] = None]
  /\ tasks' = {k \in tasks : k.owner # o}
  /\ UNCHANGED <<clock, ev, receipts, open>>

Tick ==
  /\ clock < MaxTime
  /\ clock' = clock + 1
  /\ UNCHANGED <<ev, receipts, open, claim, tasks>>

Deliver(k) ==
  \/ Consume(k) \/ RenewClaim(k) \/ Heartbeat(k) \/ StopHeartbeat(k)
  \/ LockForReceipt(k) \/ RecordReceipt(k) \/ MarkCompleted(k)
  \/ MarkFailed(k)

Next ==
  \/ \E e \in Events : EmitEvent(e) \/ ReplayDead(e)
  \/ \E a \in Aggregates : CommitEmit(a) \/ RollbackEmit(a)
  \/ \E o \in Owners : \/ Poll(o) \/ BeginReclaim(o) \/ ClaimBatch(o)
                       \/ AbortClaim(o) \/ Crash(o)
  \/ \E k \in tasks : Deliver(k)
  \/ Tick

Spec == Init /\ [][Next]_vars

-----------------------------------------------------------------------------
(* The promise seen through claims, leases and fences.                     *)

StatusOf(state) ==
  CASE state = "absent" -> "none"
    [] state \in {"pending", "processing"} -> "queued"
    [] state = "completed" -> "done"
    [] state = "dead" -> "parked"

LogStatus == [e \in Events |-> StatusOf(ev[e].state)]

LogPos == [e \in Events |-> ev[e].seq]

Log == INSTANCE OutboxLog WITH status <- LogStatus, pos <- LogPos,
                               effect <- receipts

(* The outbox implements the ordered, effective-once log: whatever the     *)
(* dispatchers, their leases and the operator do, an event is appended     *)
(* behind its aggregate, its effect is recorded at most once, and it is    *)
(* done only after its effect and all its predecessors are.                *)
ImplementsLog == Log!LogSpec

-----------------------------------------------------------------------------
(* Properties.                                                             *)

(* Per aggregate, delivery is in order: once any attempt of an event has   *)
(* been claimed, every event with a smaller aggregate_sequence is          *)
(* completed, whatever crashed, failed, died or was replayed in between    *)
(* (the predecessor test of _CLAIM_SQL with the producers' advisory lock). *)
AggregateOrder ==
  \A e, p \in Events :
    /\ AggOf[e] = AggOf[p]
    /\ Committed(e) /\ Committed(p)
    /\ ev[p].seq < ev[e].seq
    /\ ev[e].claim_epoch > 0
    => ev[p].state = "completed"

(* No event is completed without its durable receipt, on any of the three  *)
(* ways to complete one: mark_completed, mark_failed and the reclaim.      *)
CompletedHasReceipt ==
  \A e \in Events : ev[e].state = "completed" => receipts[e] # None

(* The fence counts deliveries exactly: claim_epoch is the number of       *)
(* attempts of all finished replay cycles plus the current attempt_count,  *)
(* so no crash, retry or replay ever grants an attempt that is not counted *)
(* against the limit of MaxAttempts.                                       *)
EpochAccounting ==
  \A e \in Events :
    /\ ev[e].claim_epoch =
         MaxAttempts * ev[e].replay_count + ev[e].attempt_count
    /\ ev[e].state = "dead" => ev[e].attempt_count = MaxAttempts

(* At no time can two running deliveries both pass the fence that guards   *)
(* renewals, receipts and terminal transitions, also when an old delivery  *)
(* of the same process runs on after gather() was left.                    *)
SoleHolder ==
  \A k, l \in tasks :
    k.event = l.event /\ Fence(k, 0) /\ Fence(l, 0) => k = l

(* No poison row: whenever claim_batch's WHERE clauses select a row, the   *)
(* trigger and the attempt_count CHECK accept the new row.  Otherwise one  *)
(* row would roll back every claim_batch of every dispatcher.              *)
NoPoisonRow ==
  \A e \in Events, now \in 0 .. clock :
    /\ Expired(e, now) => \A b \in BOOLEAN :
         GuardAllows(ev[e], Settle(ev[e], b, now, now))
    /\ (ev[e].state = "pending" /\ ev[e].available_at <= now) =>
         /\ ev[e].attempt_count < MaxAttempts
         /\ \A o \in Owners : GuardAllows(ev[e], Claimed(ev[e], o, now))

(* A receipt is only ever written for the claim that is current at that    *)
(* instant: between the fence test of record_receipt and its INSERT nobody *)
(* can reclaim the event, however late the transaction commits.            *)
ReceiptUnderFence ==
  [][\A e \in Events :
       receipts'[e] # receipts[e] =>
         /\ ev[e].state = "processing"
         /\ \E k \in tasks : /\ k.event = e
                             /\ k.epoch = ev[e].claim_epoch
                             /\ k.owner = ev[e].claim_owner]_vars

(* A durable receipt is reconciled before dead-lettering: an event whose   *)
(* effect is recorded is never left dead (the intent named by              *)
(* test_terminal_sql_reconciles_durable_receipts_before_dead_lettering).   *)
ReceiptNeverDead ==
  \A e \in Events : ev[e].state = "dead" => receipts[e] = None
=============================================================================
