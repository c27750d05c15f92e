------------------------------ MODULE Dashboard ------------------------------
(***************************************************************************)
(* Loading dashboards under the process-wide work budget: a request loads  *)
(* a batch of queries, two at a time; a query runs its components in       *)
(* phases; a component takes a slot of its query, a slot of the process    *)
(* and a database connection, in this order.  The request's deadline or a  *)
(* failed component cancels everything below it, and every child is reaped *)
(* before the failure is passed on.                                        *)
(*                                                                         *)
(* Sources: backend/services/dashboard/scheduler.py, orchestration.py and  *)
(* batch.py, backend/services/request_deadline.py.                         *)
(*                                                                         *)
(* asyncio.gather, when it is cancelled while it waits with                *)
(* return_exceptions, passes the cancellation on and still waits for all   *)
(* its children.  A second cancellation can interrupt a child that is      *)
(* giving its connection back; asyncpg completes the release by itself.    *)
(***************************************************************************)
EXTENDS Integers, FiniteSets

CONSTANTS
  Requests,    \* HTTP requests for dashboards
  Queries,     \* queries of a request's batch
  History,     \* the requests for the history projection: base phase only
  Base,        \* components of the base phase
  BatchLimit,  \* queries of a request loaded at a time
  LocalLimit,  \* DASHBOARD_COMPONENT_CONCURRENCY
  GlobalLimit, \* dashboard_global_component_concurrency
  PoolSize,    \* connections of the database pool
  MaxFailures  \* bound: components that fail

Components == Base \cup {"campaign_context", "special_cards"}

VARIABLES
  req,       \* per request: idle, run, failing, answered or failed
  query,     \* per request and query: its state and its phase
  task,      \* per request, query and component: the component's task
  batch,     \* per request: value of the batch semaphore
  local,     \* per request and query: value of the component semaphore
  slots,     \* value of the process-wide semaphore
  conns,     \* free connections of the pool
  returning, \* connections asyncpg is still releasing
  failures   \* component failures so far

vars == <<req, query, task, batch, local, slots, conns, returning, failures>>

Ended == {"answered", "failed"}

Init ==
  /\ req = [r \in Requests |-> "idle"]
  /\ query = [r \in Requests |-> [q \in Queries |-> [st |-> "none", phase |-> 0]]]
  /\ task = [r \in Requests |-> [q \in Queries |-> [c \in Components |-> "none"]]]
  /\ batch = [r \in Requests |-> BatchLimit]
  /\ local = [r \in Requests |-> [q \in Queries |-> LocalLimit]]
  /\ slots = GlobalLimit
  /\ conns = PoolSize
  /\ returning = 0
  /\ failures = 0

-----------------------------------------------------------------------------
(* DashboardAllLoader.run: the phases of a query.                          *)

FirstPhase(r) == IF r \in History THEN 2 ELSE 1

LastPhase(r) == IF r \in History THEN 2 ELSE 3

PhaseOf(phase) == CASE phase = 1 -> {"campaign_context"}
                    [] phase = 2 -> Base
                    [] phase = 3 -> {"special_cards"}
                    [] OTHER -> {}

\* _gather_named creates a task per component.
StartPhase(r, q, phase) ==
  /\ query' = [query EXCEPT ![r][q] = [st |-> "run", phase |-> phase]]
  /\ task' = [task EXCEPT ![r][q] = [c \in Components |->
                IF c \in PhaseOf(phase) THEN "local" ELSE @[c]]]
  /\ local' = [local EXCEPT ![r][q] = LocalLimit]

Begin(r) ==
  /\ req[r] = "idle"
  /\ req' = [req EXCEPT ![r] = "run"]
  /\ query' = [query EXCEPT ![r] = [q \in Queries |-> [st |-> "wait",
                                                       phase |-> 0]]]
  /\ UNCHANGED <<task, batch, local, slots, conns, returning, failures>>

StartQuery(r, q) ==
  /\ req[r] = "run" /\ query[r][q].st = "wait" /\ batch[r] > 0
  /\ batch' = [batch EXCEPT ![r] = @ - 1]
  /\ StartPhase(r, q, FirstPhase(r))
  /\ UNCHANGED <<req, slots, conns, returning, failures>>

PhaseDone(r, q) ==
  /\ query[r][q].st = "run"
  /\ \A c \in PhaseOf(query[r][q].phase) : task[r][q][c] = "done"
  /\ IF query[r][q].phase = LastPhase(r)
     THEN /\ query' = [query EXCEPT ![r][q].st = "done"]
          /\ batch' = [batch EXCEPT ![r] = @ + 1]
          /\ UNCHANGED <<task, local>>
     ELSE StartPhase(r, q, query[r][q].phase + 1) /\ UNCHANGED batch
  /\ UNCHANGED <<req, slots, conns, returning, failures>>

-----------------------------------------------------------------------------
(* run_component: its place in line, its two slots and its connection.     *)

Runs(r, q) == query[r][q].st = "run"

TakeLocal(r, q, c) ==
  /\ Runs(r, q) /\ task[r][q][c] = "local" /\ local[r][q] > 0
  /\ local' = [local EXCEPT ![r][q] = @ - 1]
  /\ task' = [task EXCEPT ![r][q][c] = "global"]
  /\ UNCHANGED <<req, query, batch, slots, conns, returning, failures>>

TakeGlobal(r, q, c) ==
  /\ Runs(r, q) /\ task[r][q][c] = "global" /\ slots > 0
  /\ slots' = slots - 1
  /\ task' = [task EXCEPT ![r][q][c] = "conn"]
  /\ UNCHANGED <<req, query, batch, local, conns, returning, failures>>

Acquire(r, q, c) ==
  /\ Runs(r, q) /\ task[r][q][c] = "conn" /\ conns > 0
  /\ conns' = conns - 1
  /\ task' = [task EXCEPT ![r][q][c] = "query"]
  /\ UNCHANGED <<req, query, batch, local, slots, returning, failures>>

\* What a task gives back when it leaves from the given state.
Release(r, q, from) ==
  /\ local' = [local EXCEPT ![r][q] = IF from = "local" THEN @ ELSE @ + 1]
  /\ slots' = IF from \in {"conn", "query", "closing"} THEN slots + 1 ELSE slots
  /\ conns' = IF from \in {"query", "closing"} THEN conns + 1 ELSE conns

Finish(r, q, c) ==
  /\ Runs(r, q) /\ task[r][q][c] = "query"
  /\ task' = [task EXCEPT ![r][q][c] = "done"]
  /\ Release(r, q, "query")
  /\ UNCHANGED <<req, query, batch, returning, failures>>

\* A component fails, in its query or waiting for a connection past the
\* deadline; _gather_named starts to cancel the others.
Fail(r, q, c) ==
  /\ failures < MaxFailures
  /\ Runs(r, q) /\ task[r][q][c] \in {"conn", "query"}
  /\ failures' = failures + 1
  /\ task' = [task EXCEPT ![r][q][c] = "dead"]
  /\ query' = [query EXCEPT ![r][q].st = "failing"]
  /\ Release(r, q, task[r][q][c])
  /\ UNCHANGED <<req, batch, returning>>

-----------------------------------------------------------------------------
(* Cancellation.                                                           *)

\* Fault: a task cancelled in its query forgets the process-wide slot.
CancelTaskLeaking(r, q, c) ==
  /\ query[r][q].st = "failing"
  /\ task[r][q][c] \in {"local", "global", "conn", "query", "closing"}
  /\ task' = [task EXCEPT ![r][q][c] = "dead"]
  /\ Release(r, q, IF task[r][q][c] = "conn" THEN "global" ELSE task[r][q][c])
  /\ UNCHANGED <<req, query, batch, returning, failures>>

\* A cancelled component leaves its place in line at once; one with a
\* connection first interrupts its query and gives the connection back.
CancelTask(r, q, c) ==
  /\ query[r][q].st = "failing"
  /\ \/ /\ task[r][q][c] \in {"local", "global", "conn", "closing"}
        /\ task' = [task EXCEPT ![r][q][c] = "dead"]
        /\ Release(r, q, task[r][q][c])
     \/ /\ task[r][q][c] = "query"
        /\ task' = [task EXCEPT ![r][q][c] = "closing"]
        /\ UNCHANGED <<local, slots, conns>>
  /\ UNCHANGED <<req, query, batch, returning, failures>>

Settled(r, q) == \A c \in Components : task[r][q][c] \in {"none", "done", "dead"}

\* The children are reaped; the failure reaches the batch.
QueryFails(r, q) ==
  /\ query[r][q].st = "failing" /\ Settled(r, q)
  /\ query' = [query EXCEPT ![r][q].st = "dead"]
  /\ batch' = [batch EXCEPT ![r] = @ + 1]
  /\ req' = [req EXCEPT ![r] = "failing"]
  /\ UNCHANGED <<task, local, slots, conns, returning, failures>>

\* _gather_cancel_on_error cancels the other queries of the batch.
CancelQuery(r, q) ==
  /\ req[r] = "failing" /\ query[r][q].st \in {"wait", "run"}
  /\ query' = [query EXCEPT ![r][q].st = IF @ = "wait" THEN "dead"
                                         ELSE "failing"]
  /\ UNCHANGED <<req, task, batch, local, slots, conns, returning, failures>>

\* RequestDeadline.run: the time limit cancels the request; one that is
\* already failing may have a child interrupted in its release.
Deadline(r) ==
  \/ /\ req[r] = "run"
     /\ req' = [req EXCEPT ![r] = "failing"]
     /\ UNCHANGED <<query, task, batch, local, slots, conns, returning, failures>>
  \/ /\ req[r] = "failing"
     /\ \E q \in Queries, c \in Components :
          /\ task[r][q][c] = "closing"
          /\ task' = [task EXCEPT ![r][q][c] = "dead"]
          /\ Release(r, q, "conn")
          /\ returning' = returning + 1
     /\ UNCHANGED <<req, query, batch, failures>>

\* asyncpg completes an interrupted release.
Returned ==
  /\ returning > 0
  /\ returning' = returning - 1
  /\ conns' = conns + 1
  /\ UNCHANGED <<req, query, task, batch, local, slots, failures>>

Answer(r) ==
  /\ req[r] = "run" /\ \A q \in Queries : query[r][q].st = "done"
  /\ req' = [req EXCEPT ![r] = "answered"]
  /\ UNCHANGED <<query, task, batch, local, slots, conns, returning, failures>>

FailRequest(r) ==
  /\ req[r] = "failing"
  /\ \A q \in Queries : query[r][q].st \in {"done", "dead"}
  /\ req' = [req EXCEPT ![r] = "failed"]
  /\ UNCHANGED <<query, task, batch, local, slots, conns, returning, failures>>

ComponentStep(r, q, c) ==
  \/ TakeLocal(r, q, c) \/ TakeGlobal(r, q, c) \/ Acquire(r, q, c)
  \/ Finish(r, q, c) \/ CancelTask(r, q, c)

QueryStep(r, q) ==
  StartQuery(r, q) \/ PhaseDone(r, q) \/ QueryFails(r, q) \/ CancelQuery(r, q)

Next ==
  \/ \E r \in Requests : Begin(r) \/ Deadline(r) \/ Answer(r) \/ FailRequest(r)
  \/ \E r \in Requests, q \in Queries : QueryStep(r, q)
  \/ \E r \in Requests, q \in Queries, c \in Components :
       ComponentStep(r, q, c) \/ Fail(r, q, c)
  \/ Returned

Spec == Init /\ [][Next]_vars

-----------------------------------------------------------------------------

Holding(r, q, c) == task[r][q][c] \in {"conn", "query", "closing"}

Connected(r, q, c) == task[r][q][c] \in {"query", "closing"}

Tasks == Requests \X Queries \X Components

TypeOK ==
  /\ req \in [Requests -> {"idle", "run", "failing"} \cup Ended]
  /\ \A t \in Tasks : task[t[1]][t[2]][t[3]] \in
       {"none", "local", "global", "conn", "query", "closing", "done", "dead"}
  /\ batch \in [Requests -> 0 .. BatchLimit]
  /\ local \in [Requests -> [Queries -> 0 .. LocalLimit]]
  /\ slots \in 0 .. GlobalLimit /\ conns \in 0 .. PoolSize
  /\ returning \in 0 .. PoolSize

\* No failure, cancellation or deadline loses a slot of the process or a
\* connection: what is not free is held by a component or being released.
SlotsAccounted ==
  /\ slots = GlobalLimit - Cardinality({t \in Tasks : Holding(t[1], t[2], t[3])})
  /\ conns + returning =
       PoolSize - Cardinality({t \in Tasks : Connected(t[1], t[2], t[3])})

\* "Await children or cancel and reap every child before propagating
\* failure": a request that has ended has no component at work.
EndedIsQuiet ==
  \A r \in Requests : req[r] \in Ended => \A q \in Queries : Settled(r, q)

=============================================================================
