----------------------------- MODULE OutboxLog ------------------------------
(***************************************************************************)
(* What the transactional outbox promises its producers and consumers, as  *)
(* named by the table comments of migration 069 ("At-least-once ordered    *)
(* transactional outbox", "Effective-once consumer and domain-generation   *)
(* receipt evidence") without claims, leases, epochs or clocks:            *)
(*   - an event is appended once, behind everything its aggregate holds;   *)
(*   - its effect is recorded at most once;                                *)
(*   - it is done only after its effect is recorded and after everything   *)
(*     before it in the aggregate is done, and then it never changes;      *)
(*   - if it is not done it is queued or parked, and a parked event only   *)
(*     moves when it is put back in the queue.                             *)
(***************************************************************************)
EXTENDS Integers

CONSTANTS Events, Aggregates, AggOf, Effects, None

VARIABLES status,   \* "none", "queued", "done" or "parked"
          pos,      \* position in the aggregate's log
          effect    \* the recorded effect, or None

logVars == <<status, pos, effect>>

LogInit ==
  /\ status = [e \in Events |-> "none"]
  /\ pos = [e \in Events |-> 0]
  /\ effect = [e \in Events |-> None]

Append(e) ==
  /\ status[e] = "none"
  /\ status' = [status EXCEPT ![e] = "queued"]
  /\ pos'[e] \in Nat
  /\ pos' = [pos EXCEPT ![e] = pos'[e]]
  /\ \A p \in Events :
       AggOf[p] = AggOf[e] /\ status[p] # "none" => pos[p] < pos'[e]
  /\ UNCHANGED effect

Record(e) ==
  /\ status[e] = "queued"
  /\ effect[e] = None
  /\ \E x \in Effects : effect' = [effect EXCEPT ![e] = x]
  /\ UNCHANGED <<status, pos>>

Ready(e) ==
  /\ status[e] = "queued"
  /\ effect[e] # None
  /\ \A p \in Events :
       AggOf[p] = AggOf[e] /\ status[p] # "none" /\ pos[p] < pos[e] =>
         status[p] = "done"

(* Several events may settle in one transaction.                           *)
Settle ==
  /\ \A e \in Events :
       \/ status'[e] = status[e]
       \/ Ready(e) /\ status'[e] = "done"
       \/ status[e] = "queued" /\ status'[e] = "parked"
  /\ status' = [e \in Events |-> status'[e]]
  /\ UNCHANGED <<pos, effect>>

Requeue(e) ==
  /\ status[e] = "parked"
  /\ status' = [status EXCEPT ![e] = "queued"]
  /\ UNCHANGED <<pos, effect>>

LogNext ==
  \/ \E e \in Events : Append(e) \/ Record(e) \/ Requeue(e)
  \/ Settle

LogSpec == LogInit /\ [][LogNext]_logVars
=============================================================================
