--------------------------- MODULE DashboardProofs ---------------------------
(***************************************************************************)
(* Proofs about the dashboards' work budget, for any number of requests,   *)
(* queries and components, any limits and any number of failures.          *)
(***************************************************************************)
EXTENDS Dashboard, FiniteSetTheorems, TLAPS

(* What the proofs assume of the constants.                                *)
DashboardConstants ==
  /\ BatchLimit \in Nat /\ LocalLimit \in Nat
  /\ GlobalLimit \in Nat /\ PoolSize \in Nat

TaskStates == {"none", "local", "global", "conn", "query", "closing", "done", "dead"}
QueryStates == {"none", "wait", "run", "failing", "done", "dead"}

(* The states in which a task has a slot of its query, a slot of the       *)
(* process and a connection.                                               *)
Placed == {"global", "conn", "query", "closing"}
Slotted == {"conn", "query", "closing"}
Linked == {"query", "closing"}
Over == {"none", "done", "dead"}

Within(states) == {t \in Tasks : task[t[1]][t[2]][t[3]] \in states}
PlacedOf(r, q) == {c \in Components : task[r][q][c] \in Placed}
Started(r) == {q \in Queries : query[r][q].st \in {"run", "failing"}}

ShapeOK ==
  /\ req \in [Requests -> {"idle", "run", "failing"} \cup Ended]
  /\ query \in [Requests -> [Queries -> [st : QueryStates, phase : Nat]]]
  /\ task \in [Requests -> [Queries -> [Components -> TaskStates]]]
  /\ batch \in [Requests -> Nat]
  /\ local \in [Requests -> [Queries -> Nat]]
  /\ slots \in Nat /\ conns \in Nat /\ returning \in Nat

(* What is not free of the process's slots and of the pool is held by a    *)
(* task or being released.                                                 *)
ProcessOK ==
  /\ IsFiniteSet(Within(Slotted)) /\ IsFiniteSet(Within(Linked))
  /\ slots = GlobalLimit - Cardinality(Within(Slotted))
  /\ conns + returning = PoolSize - Cardinality(Within(Linked))

(* The same of the semaphores of a query and of a batch.                   *)
LocalOK ==
  \A r \in Requests, q \in Queries :
    /\ IsFiniteSet(PlacedOf(r, q))
    /\ local[r][q] = LocalLimit - Cardinality(PlacedOf(r, q))

BatchOK ==
  \A r \in Requests :
    /\ IsFiniteSet(Started(r))
    /\ batch[r] = BatchLimit - Cardinality(Started(r))

(* A query that is not at work has no task at work; one that runs has none *)
(* outside its phase.                                                      *)
QueryOK(r, q) ==
  /\ query[r][q].st \in {"none", "wait", "done", "dead"} => Settled(r, q)
  /\ query[r][q].st = "run" =>
       \A c \in Components : c \notin PhaseOf(query[r][q].phase) => task[r][q][c] \in Over

RequestOK(r) ==
  /\ req[r] = "idle" => \A q \in Queries : query[r][q].st = "none"
  /\ req[r] \in Ended => \A q \in Queries : query[r][q].st \in {"done", "dead"}

IndInv ==
  /\ ShapeOK /\ ProcessOK /\ LocalOK /\ BatchOK
  /\ \A r \in Requests, q \in Queries : QueryOK(r, q)
  /\ \A r \in Requests : RequestOK(r)

-----------------------------------------------------------------------------
(* Counting.                                                               *)

(* One more or one less, when one element's membership may change.         *)
Weight(b) == IF b THEN 1 ELSE 0

LEMMA CountMoves ==
  ASSUME NEW S, IsFiniteSet(S), NEW x, NEW b \in BOOLEAN,
         NEW T, T = IF b THEN S \cup {x} ELSE S \ {x}
  PROVE  /\ IsFiniteSet(T) /\ Cardinality(T) \in Nat /\ Cardinality(S) \in Nat
         /\ Cardinality(T) = Cardinality(S) - Weight(x \in S) + Weight(b)
<1>1. Cardinality(S) \in Nat
  BY FS_CardinalityType
<1>2. /\ IsFiniteSet(S \cup {x})
      /\ Cardinality(S \cup {x}) = IF x \in S THEN Cardinality(S) ELSE Cardinality(S) + 1
  BY FS_AddElement
<1>3. /\ IsFiniteSet(S \ {x})
      /\ Cardinality(S \ {x}) = IF x \in S THEN Cardinality(S) - 1 ELSE Cardinality(S)
  BY FS_RemoveElement
<1>4. IsFiniteSet(T)
  BY <1>2, <1>3
<1>5. Cardinality(T) \in Nat
  BY <1>4, FS_CardinalityType
<1> QED
  BY <1>1, <1>2, <1>3, <1>4, <1>5 DEF Weight

-----------------------------------------------------------------------------
(* A task changes its state.                                               *)

Moves(r, q, c, to) == task' = [task EXCEPT ![r][q][c] = to]

LEMMA OneTask ==
  ASSUME ShapeOK, NEW r \in Requests, NEW q \in Queries, NEW c \in Components,
         NEW to \in TaskStates, Moves(r, q, c, to)
  PROVE  /\ task' \in [Requests -> [Queries -> [Components -> TaskStates]]]
         /\ task'[r][q][c] = to
         /\ \A x \in Requests, y \in Queries, z \in Components :
              x # r \/ y # q \/ z # c => task'[x][y][z] = task[x][y][z]
<1>1. task \in [Requests -> [Queries -> [Components -> TaskStates]]]
  BY DEF ShapeOK
<1>2. [task[r][q] EXCEPT ![c] = to] \in [Components -> TaskStates]
  BY <1>1
<1>3. [task[r] EXCEPT ![q] = [task[r][q] EXCEPT ![c] = to]]
        \in [Queries -> [Components -> TaskStates]]
  BY <1>1, <1>2
<1>4. task' = [task EXCEPT ![r] = [task[r] EXCEPT ![q] = [task[r][q] EXCEPT ![c] = to]]]
  BY DEF Moves
<1>5. task' \in [Requests -> [Queries -> [Components -> TaskStates]]]
  BY <1>1, <1>3, <1>4
<1>6. task'[r][q][c] = to
  BY <1>1, <1>4
<1>7. \A x \in Requests, y \in Queries, z \in Components :
        x # r \/ y # q \/ z # c => task'[x][y][z] = task[x][y][z]
  BY <1>1, <1>4
<1> QED
  BY <1>5, <1>6, <1>7

(* Then the set of the tasks in given states gains it or loses it.         *)
LEMMA WithinMoves ==
  ASSUME ShapeOK, NEW r \in Requests, NEW q \in Queries, NEW c \in Components,
         NEW to \in TaskStates, Moves(r, q, c, to),
         NEW states, IsFiniteSet(Within(states))
  PROVE  /\ IsFiniteSet(Within(states)')
         /\ Cardinality(Within(states)') \in Nat /\ Cardinality(Within(states)) \in Nat
         /\ Cardinality(Within(states)') =
              Cardinality(Within(states)) - Weight(task[r][q][c] \in states)
                                          + Weight(to \in states)
<1>0. /\ task'[r][q][c] = to
      /\ \A x \in Requests, y \in Queries, z \in Components :
           x # r \/ y # q \/ z # c => task'[x][y][z] = task[x][y][z]
  BY OneTask
<1> DEFINE t == <<r, q, c>>
           S == Within(states)
           T == Within(states)'
<1>1. t \in Tasks /\ (t \in S <=> task[r][q][c] \in states)
  BY DEF Within, Tasks
<1>2. ASSUME NEW u \in Tasks
      PROVE  u \in T <=> IF u = t THEN to \in states ELSE u \in S
  <2>1. PICK x \in Requests, y \in Queries, z \in Components : u = <<x, y, z>>
    BY DEF Tasks
  <2>2. u \in T <=> task'[x][y][z] \in states
    BY <2>1 DEF Within
  <2>3. u \in S <=> task[x][y][z] \in states
    BY <2>1 DEF Within
  <2>4. u = t <=> x = r /\ y = q /\ z = c
    BY <2>1
  <2> HIDE DEF t, S, T
  <2>5. CASE u = t
    BY <1>0, <2>2, <2>4, <2>5
  <2>6. CASE u # t
    BY SMTT(60), <1>0, <2>2, <2>3, <2>4, <2>6
  <2> QED
    BY <2>5, <2>6
<1>3. S \subseteq Tasks /\ T \subseteq Tasks
  BY DEF Within, Tasks
<1>4. T = IF to \in states THEN S \cup {t} ELSE S \ {t}
  <2> HIDE DEF S, T, t
  <2> QED
    BY <1>1, <1>2, <1>3
<1>5. /\ IsFiniteSet(T) /\ Cardinality(T) \in Nat /\ Cardinality(S) \in Nat
      /\ Cardinality(T) = Cardinality(S) - Weight(t \in S) + Weight(to \in states)
  <2> HIDE DEF S, T, t
  <2>1. IsFiniteSet(S) /\ (to \in states) \in BOOLEAN
    BY DEF S
  <2> QED
    BY <1>4, <2>1, CountMoves, ZenonT(60)
<1> QED
  BY <1>1, <1>5

(* So does the set of the tasks that have a slot of their query.           *)
LEMMA PlacedMoves ==
  ASSUME ShapeOK, NEW r \in Requests, NEW q \in Queries, NEW c \in Components,
         NEW to \in TaskStates, Moves(r, q, c, to),
         IsFiniteSet(PlacedOf(r, q))
  PROVE  /\ IsFiniteSet(PlacedOf(r, q)')
         /\ Cardinality(PlacedOf(r, q)') \in Nat /\ Cardinality(PlacedOf(r, q)) \in Nat
         /\ Cardinality(PlacedOf(r, q)') =
              Cardinality(PlacedOf(r, q)) - Weight(task[r][q][c] \in Placed)
                                          + Weight(to \in Placed)
         /\ \A x \in Requests, y \in Queries :
              x # r \/ y # q => PlacedOf(x, y)' = PlacedOf(x, y)
<1>0. /\ task'[r][q][c] = to
      /\ \A x \in Requests, y \in Queries, z \in Components :
           x # r \/ y # q \/ z # c => task'[x][y][z] = task[x][y][z]
  BY OneTask
<1> DEFINE S == PlacedOf(r, q)
           T == PlacedOf(r, q)'
<1>1. c \in S <=> task[r][q][c] \in Placed
  BY DEF PlacedOf
<1>2. T = IF to \in Placed THEN S \cup {c} ELSE S \ {c}
  <2>1. \A z \in Components : z # c => task'[r][q][z] = task[r][q][z]
    BY <1>0
  <2>2. CASE to \in Placed
    BY <1>0, <2>1, <2>2, SMTT(60) DEF PlacedOf
  <2>3. CASE to \notin Placed
    BY <1>0, <2>1, <2>3 DEF PlacedOf
  <2> QED
    BY <2>2, <2>3
<1>3. /\ IsFiniteSet(T) /\ Cardinality(T) \in Nat /\ Cardinality(S) \in Nat
      /\ Cardinality(T) = Cardinality(S) - Weight(c \in S) + Weight(to \in Placed)
  <2> HIDE DEF T
  <2>1. IsFiniteSet(S) /\ (to \in Placed) \in BOOLEAN
    OBVIOUS
  <2> HIDE DEF S
  <2> QED
    BY <1>2, <2>1, CountMoves, ZenonT(60)
<1>4. ASSUME NEW x \in Requests, NEW y \in Queries, x # r \/ y # q
      PROVE  PlacedOf(x, y)' = PlacedOf(x, y)
  BY <1>0, <1>4 DEF PlacedOf
<1> QED
  BY <1>1, <1>3, <1>4

(* The value of a query's semaphore changes.                               *)
Sets(r, q, n) == local' = [local EXCEPT ![r][q] = n]

LEMMA OneLocal ==
  ASSUME ShapeOK, NEW r \in Requests, NEW q \in Queries, NEW n \in Nat, Sets(r, q, n)
  PROVE  /\ local' \in [Requests -> [Queries -> Nat]]
         /\ local'[r][q] = n
         /\ \A x \in Requests, y \in Queries :
              x # r \/ y # q => local'[x][y] = local[x][y]
<1>1. local \in [Requests -> [Queries -> Nat]]
  BY DEF ShapeOK
<1>2. local' = [local EXCEPT ![r] = [local[r] EXCEPT ![q] = n]]
  BY DEF Sets
<1> QED
  BY <1>1, <1>2

(* A task's step pays for what it takes and returns what it leaves.        *)
LEMMA TaskPays ==
  ASSUME DashboardConstants, ShapeOK, ProcessOK, LocalOK,
         NEW r \in Requests, NEW q \in Queries, NEW c \in Components,
         NEW to \in TaskStates, Moves(r, q, c, to),
         NEW n \in Nat, Sets(r, q, n),
         n = local[r][q] + Weight(task[r][q][c] \in Placed) - Weight(to \in Placed),
         slots' = slots + Weight(task[r][q][c] \in Slotted) - Weight(to \in Slotted),
         conns' + returning' = conns + returning + Weight(task[r][q][c] \in Linked)
                                 - Weight(to \in Linked)
  PROVE  ProcessOK' /\ LocalOK'
<1>0. slots \in Nat /\ conns \in Nat /\ returning \in Nat /\ local[r][q] \in Nat
  BY SMTT(60) DEF ShapeOK
<1>1. /\ \A b : Weight(b) \in {0, 1}
      /\ GlobalLimit \in Nat /\ PoolSize \in Nat /\ LocalLimit \in Nat
  BY SMTT(60) DEF Weight, DashboardConstants
<1>2. /\ IsFiniteSet(Within(Slotted)')
      /\ slots' = GlobalLimit - Cardinality(Within(Slotted)')
  <2>1. IsFiniteSet(Within(Slotted)) /\ slots = GlobalLimit - Cardinality(Within(Slotted))
    BY DEF ProcessOK
  <2>2. /\ IsFiniteSet(Within(Slotted)')
        /\ Cardinality(Within(Slotted)') \in Nat /\ Cardinality(Within(Slotted)) \in Nat
        /\ Cardinality(Within(Slotted)') =
             Cardinality(Within(Slotted)) - Weight(task[r][q][c] \in Slotted)
                                          + Weight(to \in Slotted)
    BY <2>1, WithinMoves, ZenonT(60)
  <2> QED
    BY SMTT(60), <1>0, <1>1, <2>1, <2>2
<1>3. /\ IsFiniteSet(Within(Linked)')
      /\ conns' + returning' = PoolSize - Cardinality(Within(Linked)')
  <2>1. /\ IsFiniteSet(Within(Linked))
        /\ conns + returning = PoolSize - Cardinality(Within(Linked))
    BY DEF ProcessOK
  <2>2. /\ IsFiniteSet(Within(Linked)')
        /\ Cardinality(Within(Linked)') \in Nat /\ Cardinality(Within(Linked)) \in Nat
        /\ Cardinality(Within(Linked)') =
             Cardinality(Within(Linked)) - Weight(task[r][q][c] \in Linked)
                                         + Weight(to \in Linked)
    BY <2>1, WithinMoves, ZenonT(60)
  <2> QED
    BY SMTT(60), <1>0, <1>1, <2>1, <2>2
<1>4. ProcessOK'
  BY <1>2, <1>3, Zenon DEF ProcessOK, Within
<1>5. LocalOK'
  <2>1. IsFiniteSet(PlacedOf(r, q)) /\ local[r][q] = LocalLimit - Cardinality(PlacedOf(r, q))
    BY SMTT(60) DEF LocalOK
  <2>2. /\ IsFiniteSet(PlacedOf(r, q)')
        /\ Cardinality(PlacedOf(r, q)') \in Nat /\ Cardinality(PlacedOf(r, q)) \in Nat
        /\ Cardinality(PlacedOf(r, q)') =
             Cardinality(PlacedOf(r, q)) - Weight(task[r][q][c] \in Placed)
                                         + Weight(to \in Placed)
        /\ \A x \in Requests, y \in Queries :
             x # r \/ y # q => PlacedOf(x, y)' = PlacedOf(x, y)
    BY SMTT(60), <2>1, PlacedMoves
  <2>3. /\ local'[r][q] = n
        /\ \A x \in Requests, y \in Queries :
             x # r \/ y # q => local'[x][y] = local[x][y]
    BY SMTT(60), OneLocal
  <2>4. local'[r][q] = LocalLimit - Cardinality(PlacedOf(r, q)')
    BY SMTT(60), <1>0, <1>1, <2>1, <2>2, <2>3
  <2>5. ASSUME NEW x \in Requests, NEW y \in Queries, x # r \/ y # q
        PROVE  /\ IsFiniteSet(PlacedOf(x, y)')
               /\ local'[x][y] = LocalLimit - Cardinality(PlacedOf(x, y)')
    <3>1. PlacedOf(x, y)' = PlacedOf(x, y) /\ local'[x][y] = local[x][y]
      BY SMTT(60), <2>2, <2>3, <2>5
    <3> QED
      BY <3>1, SMTT(60) DEF LocalOK
  <2>6. ASSUME NEW x \in Requests, NEW y \in Queries
        PROVE  /\ IsFiniteSet(PlacedOf(x, y)')
               /\ local'[x][y] = LocalLimit - Cardinality(PlacedOf(x, y)')
    BY SMTT(60), <2>2, <2>4, <2>5
  <2> QED
    BY <2>6, SMTT(60) DEF LocalOK, PlacedOf
<1> QED
  BY SMTT(60), <1>4, <1>5

-----------------------------------------------------------------------------
(* A query changes its state.                                              *)

Turns(r, q, v) == query' = [query EXCEPT ![r][q] = v]

LEMMA OneQuery ==
  ASSUME ShapeOK, NEW r \in Requests, NEW q \in Queries,
         NEW v \in [st : QueryStates, phase : Nat], Turns(r, q, v)
  PROVE  /\ query' \in [Requests -> [Queries -> [st : QueryStates, phase : Nat]]]
         /\ query'[r][q] = v
         /\ \A x \in Requests, y \in Queries :
              x # r \/ y # q => query'[x][y] = query[x][y]
<1>1. query \in [Requests -> [Queries -> [st : QueryStates, phase : Nat]]]
  BY DEF ShapeOK
<1>2. query' = [query EXCEPT ![r] = [query[r] EXCEPT ![q] = v]]
  BY DEF Turns
<1>3. [query[r] EXCEPT ![q] = v] \in [Queries -> [st : QueryStates, phase : Nat]]
  BY <1>1
<1>4. query' \in [Requests -> [Queries -> [st : QueryStates, phase : Nat]]]
  BY <1>1, <1>2, <1>3
<1>5. query'[r][q] = v
  BY <1>1, <1>2
<1>6. \A x \in Requests, y \in Queries : x # r \/ y # q => query'[x][y] = query[x][y]
  BY <1>1, <1>2
<1> QED
  BY <1>4, <1>5, <1>6

LEMMA QueryEdits ==
  ASSUME NEW v \in [st : QueryStates, phase : Nat], NEW s \in QueryStates
  PROVE  /\ [v EXCEPT !.st = s] \in [st : QueryStates, phase : Nat]
         /\ [v EXCEPT !.st = s].st = s /\ [v EXCEPT !.st = s].phase = v.phase
OBVIOUS

(* A query that a step leaves alone with its tasks.                        *)
LEMMA QueryFrame ==
  ASSUME NEW r, NEW q, QueryOK(r, q), query'[r][q] = query[r][q],
         \A c \in Components : task'[r][q][c] = task[r][q][c]
  PROVE  QueryOK(r, q)'
BY DEF QueryOK, Settled, Over

(* A step that starts and ends no query.                                   *)
LEMMA BatchFrame ==
  ASSUME BatchOK, batch' = batch,
         \A r \in Requests, q \in Queries :
           query'[r][q].st \in {"run", "failing"} <=> query[r][q].st \in {"run", "failing"}
  PROVE  BatchOK'
<1>1. ASSUME NEW r \in Requests PROVE Started(r)' = Started(r)
  BY DEF Started
<1> QED
  BY <1>1 DEF BatchOK

(* A step of a task at work, perhaps one that fails its query.             *)
Pays(r, q, c, to) ==
  /\ Moves(r, q, c, to)
  /\ Sets(r, q, local[r][q] + Weight(task[r][q][c] \in Placed) - Weight(to \in Placed))
  /\ local[r][q] + Weight(task[r][q][c] \in Placed) - Weight(to \in Placed) \in Nat
  /\ slots' = slots + Weight(task[r][q][c] \in Slotted) - Weight(to \in Slotted)
  /\ conns' + returning' = conns + returning + Weight(task[r][q][c] \in Linked)
                             - Weight(to \in Linked)
  /\ slots' \in Nat /\ conns' \in Nat /\ returning' \in Nat

LEMMA ComponentMoves ==
  ASSUME DashboardConstants, IndInv,
         NEW r \in Requests, NEW q \in Queries, NEW c \in Components,
         NEW to \in TaskStates, Pays(r, q, c, to), task[r][q][c] \notin Over,
         UNCHANGED <<req, batch>>,
         \/ query' = query
         \/ query[r][q].st = "run" /\ Turns(r, q, [query[r][q] EXCEPT !.st = "failing"])
  PROVE  IndInv'
<1>1. ShapeOK /\ ProcessOK /\ LocalOK /\ BatchOK
  BY DEF IndInv
<1>2. ProcessOK' /\ LocalOK'
  BY <1>1, TaskPays, ZenonT(60) DEF Pays
<1>3. /\ task' \in [Requests -> [Queries -> [Components -> TaskStates]]]
      /\ task'[r][q][c] = to
      /\ \A x \in Requests, y \in Queries, z \in Components :
           x # r \/ y # q \/ z # c => task'[x][y][z] = task[x][y][z]
  BY <1>1, OneTask, SMTT(60) DEF Pays
<1>4. local' \in [Requests -> [Queries -> Nat]]
  BY <1>1, OneLocal, SMTT(60) DEF Pays
<1>5. /\ query' \in [Requests -> [Queries -> [st : QueryStates, phase : Nat]]]
      /\ query'[r][q].st \in {query[r][q].st, "failing"}
      /\ query'[r][q].st # query[r][q].st => query[r][q].st = "run"
      /\ query'[r][q].phase = query[r][q].phase
      /\ \A x \in Requests, y \in Queries : x # r \/ y # q => query'[x][y] = query[x][y]
  <2>1. CASE query' = query
    BY <1>1, <2>1 DEF ShapeOK
  <2>2. CASE query[r][q].st = "run" /\ Turns(r, q, [query[r][q] EXCEPT !.st = "failing"])
    <3> DEFINE v == [query[r][q] EXCEPT !.st = "failing"]
    <3>1. /\ v \in [st : QueryStates, phase : Nat]
          /\ v.st = "failing" /\ v.phase = query[r][q].phase
      <4>1. query[r][q] \in [st : QueryStates, phase : Nat] /\ "failing" \in QueryStates
        BY <1>1 DEF ShapeOK, QueryStates
      <4> QED
        BY <4>1, QueryEdits
    <3> HIDE DEF v
    <3>2. /\ query' \in [Requests -> [Queries -> [st : QueryStates, phase : Nat]]]
          /\ query'[r][q] = v
          /\ \A x \in Requests, y \in Queries : x # r \/ y # q => query'[x][y] = query[x][y]
      BY <1>1, <2>2, <3>1, OneQuery, ZenonT(60) DEF v
    <3> QED
      BY <2>2, <3>1, <3>2
  <2> QED
    BY <2>1, <2>2
<1>6. ShapeOK'
  BY <1>1, <1>3, <1>4, <1>5, Zenon DEF ShapeOK, Pays
<1>7. query[r][q].st \in {"run", "failing"}
      /\ (query[r][q].st = "run" => c \in PhaseOf(query[r][q].phase))
  <2>1. QueryOK(r, q) /\ query[r][q].st \in QueryStates
    BY <1>1 DEF IndInv, ShapeOK
  <2> QED
    BY <2>1 DEF QueryOK, Settled, QueryStates, Over
<1>8. BatchOK'
  BY <1>1, <1>5, <1>7, BatchFrame
<1>9. ASSUME NEW x \in Requests, NEW y \in Queries PROVE QueryOK(x, y)'
  <2>1. QueryOK(x, y)
    BY DEF IndInv
  <2>2. CASE x = r /\ y = q
    BY <1>3, <1>5, <1>7, <2>1, <2>2, ZenonT(60) DEF QueryOK
  <2>3. CASE x # r \/ y # q
    BY SMTT(60), <1>3, <1>5, <2>1, <2>3, QueryFrame
  <2> QED
    BY <2>2, <2>3
<1>10. ASSUME NEW x \in Requests PROVE RequestOK(x)'
  <2>1. RequestOK(x) /\ req'[x] = req[x]
    BY DEF IndInv
  <2>2. ASSUME NEW y \in Queries, query[x][y].st \in {"none", "done", "dead"}
        PROVE  query'[x][y].st = query[x][y].st
    BY SMTT(60), <1>5, <1>7, <2>2
  <2> QED
    BY <2>1, <2>2 DEF RequestOK
<1> QED
  BY <1>2, <1>6, <1>8, <1>9, <1>10, SMTT(60) DEF IndInv

-----------------------------------------------------------------------------
(* Steps of a component.                                                   *)

(* What a step that takes nothing more gives back.                         *)
LEMMA ReleasePays ==
  ASSUME ShapeOK, NEW r \in Requests, NEW q \in Queries, NEW c \in Components,
         NEW to \in {"done", "dead"}, Moves(r, q, c, to),
         task[r][q][c] \in {"local"} \cup Placed,
         Release(r, q, task[r][q][c]), returning' = returning
  PROVE  Pays(r, q, c, to)
<1> DEFINE from == task[r][q][c]
           n == IF from = "local" THEN local[r][q] ELSE local[r][q] + 1
<1>1. local[r][q] \in Nat /\ slots \in Nat /\ conns \in Nat /\ returning \in Nat
  BY SMTT(60) DEF ShapeOK
<1>2. from \in {"local", "global", "conn", "query", "closing"}
  BY DEF Placed
<1>3. Sets(r, q, n)
  BY DEF Release, Sets
<1>4. /\ slots' = IF from \in {"conn", "query", "closing"} THEN slots + 1 ELSE slots
      /\ conns' = IF from \in {"query", "closing"} THEN conns + 1 ELSE conns
  BY DEF Release
<1> HIDE DEF from
<1>5. n = local[r][q] + Weight(from \in Placed) - Weight(to \in Placed) /\ n \in Nat
  BY <1>1, <1>2 DEF Weight, Placed
<1>6. slots' = slots + Weight(from \in Slotted) - Weight(to \in Slotted) /\ slots' \in Nat
  BY <1>1, <1>4 DEF Weight, Slotted
<1>7. /\ conns' + returning' = conns + returning + Weight(from \in Linked)
                                 - Weight(to \in Linked)
      /\ conns' \in Nat
  BY <1>1, <1>4, SMTT(60) DEF Weight, Linked
<1> HIDE DEF n
<1> QED
  BY <1>1, <1>3, <1>5, <1>6, <1>7, SMTT(60) DEF Pays, from

LEMMA TakeLocalKeeps ==
  ASSUME DashboardConstants, IndInv, NEW r \in Requests, NEW q \in Queries,
         NEW c \in Components, TakeLocal(r, q, c)
  PROVE  IndInv'
<1>1. /\ task[r][q][c] = "local" /\ local[r][q] > 0
      /\ Moves(r, q, c, "global") /\ Sets(r, q, local[r][q] - 1)
      /\ UNCHANGED <<req, query, batch, slots, conns, returning>>
  BY DEF TakeLocal, Moves, Sets
<1>2. local[r][q] \in Nat /\ slots \in Nat /\ conns \in Nat /\ returning \in Nat
  BY DEF IndInv, ShapeOK
<1>3. /\ Weight("local" \in Placed) = 0 /\ Weight("global" \in Placed) = 1
      /\ Weight("local" \in Slotted) = 0 /\ Weight("global" \in Slotted) = 0
      /\ Weight("local" \in Linked) = 0 /\ Weight("global" \in Linked) = 0
  BY DEF Weight, Placed, Slotted, Linked
<1>4. local[r][q] - 1 = local[r][q] + 0 - 1 /\ local[r][q] - 1 \in Nat
      /\ slots = slots + 0 - 0 /\ conns + returning = conns + returning + 0 - 0
  BY SMTT(60), <1>1, <1>2
<1>5. Pays(r, q, c, "global")
  BY <1>1, <1>2, <1>3, <1>4, SMTT(60) DEF Pays
<1> QED
  BY <1>1, <1>5, ComponentMoves, SMTT(60) DEF TaskStates, Over

LEMMA TakeGlobalKeeps ==
  ASSUME DashboardConstants, IndInv, NEW r \in Requests, NEW q \in Queries,
         NEW c \in Components, TakeGlobal(r, q, c)
  PROVE  IndInv'
<1>1. /\ task[r][q][c] = "global" /\ slots > 0 /\ slots' = slots - 1
      /\ Moves(r, q, c, "conn")
      /\ UNCHANGED <<req, query, batch, local, conns, returning>>
  BY DEF TakeGlobal, Moves
<1>2. local[r][q] \in Nat /\ slots \in Nat /\ conns \in Nat /\ returning \in Nat
  BY DEF IndInv, ShapeOK
<1>3. /\ Weight("global" \in Placed) = 1 /\ Weight("conn" \in Placed) = 1
      /\ Weight("global" \in Slotted) = 0 /\ Weight("conn" \in Slotted) = 1
      /\ Weight("global" \in Linked) = 0 /\ Weight("conn" \in Linked) = 0
  BY DEF Weight, Placed, Slotted, Linked
<1>4. local[r][q] = local[r][q] + 1 - 1 /\ slots' = slots + 0 - 1 /\ slots' \in Nat
      /\ conns + returning = conns + returning + 0 - 0
  BY SMTT(60), <1>1, <1>2
<1>5. Sets(r, q, local[r][q])
  BY <1>1, SMTT(60) DEF Sets, IndInv, ShapeOK
<1>6. Pays(r, q, c, "conn")
  BY <1>1, <1>2, <1>3, <1>4, <1>5, SMTT(60) DEF Pays
<1> QED
  BY <1>1, <1>6, ComponentMoves, SMTT(60) DEF TaskStates, Over

LEMMA AcquireKeeps ==
  ASSUME DashboardConstants, IndInv, NEW r \in Requests, NEW q \in Queries,
         NEW c \in Components, Acquire(r, q, c)
  PROVE  IndInv'
<1>1. /\ task[r][q][c] = "conn" /\ conns > 0 /\ conns' = conns - 1
      /\ Moves(r, q, c, "query")
      /\ UNCHANGED <<req, query, batch, local, slots, returning>>
  BY DEF Acquire, Moves
<1>2. local[r][q] \in Nat /\ slots \in Nat /\ conns \in Nat /\ returning \in Nat
  BY DEF IndInv, ShapeOK
<1>3. /\ Weight("conn" \in Placed) = 1 /\ Weight("query" \in Placed) = 1
      /\ Weight("conn" \in Slotted) = 1 /\ Weight("query" \in Slotted) = 1
      /\ Weight("conn" \in Linked) = 0 /\ Weight("query" \in Linked) = 1
  BY DEF Weight, Placed, Slotted, Linked
<1>4. local[r][q] = local[r][q] + 1 - 1 /\ slots = slots + 1 - 1 /\ conns' \in Nat
      /\ conns' + returning = conns + returning + 0 - 1
  BY <1>1, <1>2
<1>5. Sets(r, q, local[r][q])
  BY <1>1, SMTT(60) DEF Sets, IndInv, ShapeOK
<1>6. Pays(r, q, c, "query")
  BY <1>1, <1>2, <1>3, <1>4, <1>5, SMTT(60) DEF Pays
<1> QED
  BY <1>1, <1>6, ComponentMoves, SMTT(60) DEF TaskStates, Over

LEMMA FinishKeeps ==
  ASSUME DashboardConstants, IndInv, NEW r \in Requests, NEW q \in Queries,
         NEW c \in Components, Finish(r, q, c)
  PROVE  IndInv'
<1>1. /\ task[r][q][c] = "query" /\ Moves(r, q, c, "done") /\ Release(r, q, "query")
      /\ UNCHANGED <<req, query, batch, returning>>
  BY SMTT(60) DEF Finish, Moves
<1>2. Pays(r, q, c, "done")
  BY <1>1, ReleasePays, SMTT(60) DEF IndInv, Placed
<1> QED
  BY <1>1, <1>2, ComponentMoves DEF TaskStates, Over

(* A failing component takes its query along.                              *)
LEMMA FailKeeps ==
  ASSUME DashboardConstants, IndInv, NEW r \in Requests, NEW q \in Queries,
         NEW c \in Components, Fail(r, q, c)
  PROVE  IndInv'
<1>1. /\ task[r][q][c] \in {"conn", "query"} /\ Moves(r, q, c, "dead")
      /\ Release(r, q, task[r][q][c]) /\ UNCHANGED <<req, batch, returning>>
      /\ query[r][q].st = "run"
      /\ Turns(r, q, [query[r][q] EXCEPT !.st = "failing"])
  BY DEF Fail, Moves, Runs, Turns
<1>2. Pays(r, q, c, "dead")
  BY <1>1, ReleasePays, SMTT(60) DEF IndInv, Placed
<1> QED
  BY <1>1, <1>2, ComponentMoves, SMTT(60) DEF TaskStates, Over

LEMMA CancelTaskKeeps ==
  ASSUME DashboardConstants, IndInv, NEW r \in Requests, NEW q \in Queries,
         NEW c \in Components, CancelTask(r, q, c)
  PROVE  IndInv'
<1>1. UNCHANGED <<req, query, batch, returning>>
  BY DEF CancelTask
<1>2. CASE /\ task[r][q][c] \in {"local", "global", "conn", "closing"}
           /\ Moves(r, q, c, "dead") /\ Release(r, q, task[r][q][c])
  <2>1. Pays(r, q, c, "dead")
    BY <1>1, <1>2, ReleasePays, SMTT(60) DEF IndInv, Placed
  <2> QED
    BY <1>1, <1>2, <2>1, ComponentMoves, SMTT(60) DEF TaskStates, Over
<1>3. CASE /\ task[r][q][c] = "query" /\ Moves(r, q, c, "closing")
           /\ UNCHANGED <<local, slots, conns>>
  <2>1. local[r][q] \in Nat /\ slots \in Nat /\ conns \in Nat /\ returning \in Nat
    BY DEF IndInv, ShapeOK
  <2>2. /\ Weight("query" \in Placed) = 1 /\ Weight("closing" \in Placed) = 1
        /\ Weight("query" \in Slotted) = 1 /\ Weight("closing" \in Slotted) = 1
        /\ Weight("query" \in Linked) = 1 /\ Weight("closing" \in Linked) = 1
    BY DEF Weight, Placed, Slotted, Linked
  <2>3. local[r][q] = local[r][q] + 1 - 1 /\ slots = slots + 1 - 1
        /\ conns + returning = conns + returning + 1 - 1
    BY <2>1
  <2>4. Sets(r, q, local[r][q])
    BY <1>3, SMTT(60) DEF Sets, IndInv, ShapeOK
  <2>5. Pays(r, q, c, "closing")
    BY <1>1, <1>3, <2>1, <2>2, <2>3, <2>4, SMTT(60) DEF Pays
  <2> QED
    BY <1>1, <1>3, <2>5, ComponentMoves DEF TaskStates, Over
<1> QED
  BY <1>2, <1>3, SMTT(60) DEF CancelTask, Moves

(* The deadline interrupts a component that gives its connection back.     *)
LEMMA InterruptKeeps ==
  ASSUME DashboardConstants, IndInv, NEW r \in Requests, NEW q \in Queries,
         NEW c \in Components, task[r][q][c] = "closing", Moves(r, q, c, "dead"),
         Release(r, q, "conn"), returning' = returning + 1,
         UNCHANGED <<req, query, batch>>
  PROVE  IndInv'
<1>1. local[r][q] \in Nat /\ slots \in Nat /\ conns \in Nat /\ returning \in Nat
  BY SMTT(60) DEF IndInv, ShapeOK
<1>2. /\ Weight("closing" \in Placed) = 1 /\ Weight("dead" \in Placed) = 0
      /\ Weight("closing" \in Slotted) = 1 /\ Weight("dead" \in Slotted) = 0
      /\ Weight("closing" \in Linked) = 1 /\ Weight("dead" \in Linked) = 0
  BY DEF Weight, Placed, Slotted, Linked
<1>3. Sets(r, q, local[r][q] + 1) /\ slots' = slots + 1 /\ conns' = conns
  BY DEF Release, Sets
<1>4. /\ local[r][q] + 1 = local[r][q] + 1 - 0 /\ local[r][q] + 1 \in Nat
      /\ slots' = slots + 1 - 0 /\ slots' \in Nat /\ returning' \in Nat
      /\ conns' + returning' = conns + returning + 1 - 0
  BY SMTT(60), <1>1, <1>3
<1>5. Pays(r, q, c, "dead")
  BY <1>1, <1>2, <1>3, <1>4, SMTT(60) DEF Pays
<1> QED
  BY <1>5, ComponentMoves DEF TaskStates, Over

-----------------------------------------------------------------------------
(* Steps of a query.                                                       *)

AtWork == {"run", "failing"}

(* A query that starts or ends pays its place in the batch.                *)
LEMMA BatchPays ==
  ASSUME DashboardConstants, ShapeOK, BatchOK, NEW r \in Requests, NEW q \in Queries,
         NEW v \in [st : QueryStates, phase : Nat], Turns(r, q, v),
         NEW n \in Nat, batch' = [batch EXCEPT ![r] = n],
         n = batch[r] + Weight(query[r][q].st \in AtWork) - Weight(v.st \in AtWork)
  PROVE  BatchOK' /\ batch' \in [Requests -> Nat]
<1>0. batch \in [Requests -> Nat] /\ batch[r] \in Nat /\ BatchLimit \in Nat
  BY SMTT(60) DEF ShapeOK, DashboardConstants
<1>1. /\ query'[r][q] = v
      /\ \A x \in Requests, y \in Queries : x # r \/ y # q => query'[x][y] = query[x][y]
  BY SMTT(60), OneQuery
<1>2. \A b : Weight(b) \in {0, 1}
  BY DEF Weight
<1>3. IsFiniteSet(Started(r)) /\ batch[r] = BatchLimit - Cardinality(Started(r))
  BY DEF BatchOK
<1> DEFINE S == Started(r)
           T == Started(r)'
<1>4. q \in S <=> query[r][q].st \in AtWork
  BY DEF Started, AtWork
<1>5. T = IF v.st \in AtWork THEN S \cup {q} ELSE S \ {q}
  <2>1. \A y \in Queries : y # q => query'[r][y] = query[r][y]
    BY SMTT(60), <1>1
  <2>2. CASE v.st \in AtWork
    BY <1>1, <2>1, <2>2, SMTT(60) DEF Started, AtWork
  <2>3. CASE v.st \notin AtWork
    BY <1>1, <2>1, <2>3 DEF Started, AtWork
  <2> QED
    BY SMTT(60), <2>2, <2>3
<1>6. /\ IsFiniteSet(T) /\ Cardinality(T) \in Nat /\ Cardinality(S) \in Nat
      /\ Cardinality(T) = Cardinality(S) - Weight(q \in S) + Weight(v.st \in AtWork)
  <2>1. IsFiniteSet(S) /\ (v.st \in AtWork) \in BOOLEAN
    BY <1>3
  <2> HIDE DEF S, T
  <2> QED
    BY <1>5, <2>1, CountMoves, ZenonT(60)
<1>7. batch'[r] = n /\ batch' \in [Requests -> Nat]
      /\ \A x \in Requests : x # r => batch'[x] = batch[x]
  BY <1>0
<1>8. Weight(q \in S) = Weight(query[r][q].st \in AtWork)
  BY SMTT(60), <1>4
<1>9. batch'[r] = BatchLimit - Cardinality(T)
  <2> HIDE DEF S, T
  <2>1. batch[r] = BatchLimit - Cardinality(S)
    BY <1>3, SMTT(60) DEF S
  <2> QED
    BY SMTT(60), <1>0, <1>2, <1>6, <1>7, <1>8, <2>1
<1>10. ASSUME NEW x \in Requests, x # r
       PROVE  IsFiniteSet(Started(x)') /\ batch'[x] = BatchLimit - Cardinality(Started(x)')
  <2>1. Started(x)' = Started(x)
    BY <1>1, <1>10, SMTT(60) DEF Started
  <2> QED
    BY <1>7, <1>10, <2>1, SMTT(60) DEF BatchOK
<1>11. ASSUME NEW x \in Requests
       PROVE  IsFiniteSet(Started(x)') /\ batch'[x] = BatchLimit - Cardinality(Started(x)')
  BY SMTT(60), <1>6, <1>9, <1>10
<1> QED
  BY <1>7, <1>11, SMTT(60) DEF BatchOK

(* The requests keep their part when a query of a request at work turns.   *)
LEMMA RequestFrame ==
  ASSUME ShapeOK, \A x \in Requests : RequestOK(x),
         NEW r \in Requests, NEW q \in Queries,
         NEW v \in [st : QueryStates, phase : Nat], Turns(r, q, v),
         req'[r] \in {"run", "failing"}, \A x \in Requests : x # r => req'[x] = req[x]
  PROVE  \A x \in Requests : RequestOK(x)'
<1>1. \A x \in Requests, y \in Queries : x # r \/ y # q => query'[x][y] = query[x][y]
  BY OneQuery
<1>2. ASSUME NEW x \in Requests PROVE RequestOK(x)'
  <2>1. CASE x = r
    BY <2>1, SMTT(60) DEF RequestOK, Ended
  <2>2. CASE x # r
    <3>1. RequestOK(x) /\ req'[x] = req[x] /\ \A y \in Queries : query'[x][y] = query[x][y]
      BY SMTT(60), <1>1, <2>2
    <3> QED
      BY <3>1, SMTT(60) DEF RequestOK
  <2> QED
    BY SMTT(60), <2>1, <2>2
<1> QED
  BY SMTT(60), <1>2

(* A query at work belongs to a request at work.                           *)
LEMMA RequestAtWork ==
  ASSUME IndInv, NEW r \in Requests, NEW q \in Queries, query[r][q].st \in AtWork
  PROVE  req[r] \in {"run", "failing"}
<1>1. RequestOK(r) /\ req[r] \in {"idle", "run", "failing"} \cup Ended
  BY DEF IndInv, ShapeOK
<1> QED
  BY <1>1 DEF RequestOK, AtWork, Ended

(* A step that leaves the tasks alone.                                     *)
LEMMA CountFrame ==
  ASSUME ProcessOK, LocalOK, UNCHANGED <<task, local, slots>>,
         conns' + returning' = conns + returning
  PROVE  ProcessOK' /\ LocalOK'
<1>1. Within(Slotted)' = Within(Slotted) /\ Within(Linked)' = Within(Linked)
  BY DEF Within
<1>2. ASSUME NEW r, NEW q PROVE PlacedOf(r, q)' = PlacedOf(r, q)
  BY DEF PlacedOf
<1>3. ProcessOK'
  BY <1>1, Zenon DEF ProcessOK
<1>4. LocalOK'
  BY <1>2, ZenonT(60) DEF LocalOK
<1> QED
  BY SMTT(60), <1>3, <1>4

(* A query ends, or starts to fail.                                        *)
Closes(r, q, s, n) ==
  /\ s # "failing" => Settled(r, q)
  /\ Turns(r, q, [query[r][q] EXCEPT !.st = s])
  /\ batch' = [batch EXCEPT ![r] = n]
  /\ n = batch[r] + Weight(query[r][q].st \in AtWork) - Weight(s \in AtWork)
  /\ req' \in [Requests -> {"idle", "run", "failing"} \cup Ended]
  /\ req'[r] \in {"run", "failing"} /\ \A x \in Requests : x # r => req'[x] = req[x]
  /\ UNCHANGED <<task, local, slots, conns, returning>>

LEMMA QueryTurns ==
  ASSUME DashboardConstants, IndInv, NEW r \in Requests, NEW q \in Queries,
         NEW s \in {"done", "dead", "failing"}, NEW n \in Nat, Closes(r, q, s, n)
  PROVE  IndInv'
<1> USE DEF Closes
<1>1. /\ ShapeOK /\ ProcessOK /\ LocalOK /\ BatchOK
      /\ \A x \in Requests : RequestOK(x)
      /\ \A x \in Requests, y \in Queries : QueryOK(x, y)
  BY DEF IndInv
<1> DEFINE v == [query[r][q] EXCEPT !.st = s]
<1>2. v \in [st : QueryStates, phase : Nat] /\ v.st = s
  <2>1. query[r][q] \in [st : QueryStates, phase : Nat] /\ s \in QueryStates
    BY <1>1 DEF ShapeOK, QueryStates
  <2> QED
    BY <2>1, QueryEdits
<1>3. Turns(r, q, v)
  OBVIOUS
<1> HIDE DEF v
<1>4. /\ query' \in [Requests -> [Queries -> [st : QueryStates, phase : Nat]]]
      /\ query'[r][q] = v
      /\ \A x \in Requests, y \in Queries : x # r \/ y # q => query'[x][y] = query[x][y]
  BY <1>1, <1>2, <1>3, OneQuery
<1>5. BatchOK' /\ batch' \in [Requests -> Nat]
  BY <1>1, <1>2, <1>3, BatchPays, ZenonT(60)
<1>6. ShapeOK'
  BY <1>1, <1>4, <1>5, SMTT(60) DEF ShapeOK
<1>7. ProcessOK' /\ LocalOK'
  BY SMTT(60), <1>1, CountFrame
<1>8. \A x \in Requests : RequestOK(x)'
  BY SMTT(60), <1>1, <1>2, <1>3, RequestFrame
<1>9. ASSUME NEW x \in Requests, NEW y \in Queries PROVE QueryOK(x, y)'
  <2>1. CASE x = r /\ y = q
    <3>1. query'[r][q].st = s /\ (s # "failing" => Settled(r, q)')
      BY <1>2, <1>4, SMTT(60) DEF Settled
    <3> QED
      BY <2>1, <3>1, SMTT(60) DEF QueryOK
  <2>2. CASE x # r \/ y # q
    BY SMTT(60), <1>1, <1>4, <2>2, QueryFrame
  <2> QED
    BY SMTT(60), <2>1, <2>2
<1> QED
  BY <1>5, <1>6, <1>7, <1>8, <1>9, SMTT(60) DEF IndInv

LEMMA QueryFailsKeeps ==
  ASSUME DashboardConstants, IndInv, NEW r \in Requests, NEW q \in Queries,
         QueryFails(r, q)
  PROVE  IndInv'
<1>1. /\ query[r][q].st = "failing" /\ Settled(r, q)
      /\ Turns(r, q, [query[r][q] EXCEPT !.st = "dead"])
      /\ batch' = [batch EXCEPT ![r] = batch[r] + 1]
      /\ req' = [req EXCEPT ![r] = "failing"]
      /\ UNCHANGED <<task, local, slots, conns, returning>>
  BY DEF QueryFails, Turns
<1>2. batch[r] \in Nat /\ req \in [Requests -> {"idle", "run", "failing"} \cup Ended]
  BY DEF IndInv, ShapeOK
<1>3. /\ batch[r] + 1 = batch[r] + Weight("failing" \in AtWork) - Weight("dead" \in AtWork)
      /\ batch[r] + 1 \in Nat
  BY <1>2 DEF Weight, AtWork
<1>4. /\ req' \in [Requests -> {"idle", "run", "failing"} \cup Ended]
      /\ req'[r] \in {"run", "failing"} /\ \A x \in Requests : x # r => req'[x] = req[x]
  BY <1>1, <1>2
<1>5. Closes(r, q, "dead", batch[r] + 1)
  BY <1>1, <1>3, <1>4, ZenonT(60) DEF Closes
<1> QED
  BY SMTT(60), <1>3, <1>5, QueryTurns

LEMMA CancelQueryKeeps ==
  ASSUME DashboardConstants, IndInv, NEW r \in Requests, NEW q \in Queries,
         CancelQuery(r, q)
  PROVE  IndInv'
<1>1. /\ req[r] = "failing" /\ query[r][q].st \in {"wait", "run"}
      /\ Turns(r, q, [query[r][q] EXCEPT !.st = IF query[r][q].st = "wait" THEN "dead"
                                               ELSE "failing"])
      /\ UNCHANGED <<req, task, batch, local, slots, conns, returning>>
  BY DEF CancelQuery, Turns
<1>2. /\ batch[r] \in Nat /\ req \in [Requests -> {"idle", "run", "failing"} \cup Ended]
      /\ batch' = [batch EXCEPT ![r] = batch[r]]
  BY <1>1 DEF IndInv, ShapeOK
<1>3. CASE query[r][q].st = "wait"
  <2>1. Settled(r, q) /\ Turns(r, q, [query[r][q] EXCEPT !.st = "dead"])
    BY <1>1, <1>3 DEF IndInv, QueryOK
  <2>2. batch[r] = batch[r] + Weight("wait" \in AtWork) - Weight("dead" \in AtWork)
    BY <1>2 DEF Weight, AtWork
  <2>3. req'[r] \in {"run", "failing"}
    BY <1>1
  <2>4. Closes(r, q, "dead", batch[r])
    BY <1>1, <1>2, <1>3, <2>1, <2>2, <2>3, ZenonT(60) DEF Closes
  <2> QED
    BY SMTT(60), <1>2, <2>4, QueryTurns
<1>4. CASE query[r][q].st = "run"
  <2>1. Turns(r, q, [query[r][q] EXCEPT !.st = "failing"])
    BY <1>1, <1>4
  <2>2. batch[r] = batch[r] + Weight("run" \in AtWork) - Weight("failing" \in AtWork)
    BY <1>2 DEF Weight, AtWork
  <2>3. req'[r] \in {"run", "failing"}
    BY <1>1
  <2>4. Closes(r, q, "failing", batch[r])
    BY <1>1, <1>2, <1>4, <2>1, <2>2, <2>3, ZenonT(60) DEF Closes
  <2> QED
    BY <1>2, <2>4, QueryTurns
<1> QED
  BY SMTT(60), <1>1, <1>3, <1>4

(* The tasks of the next phase line up; the query's semaphore is new.      *)
LEMMA PhaseStarts ==
  ASSUME DashboardConstants, ShapeOK, ProcessOK, LocalOK,
         NEW r \in Requests, NEW q \in Queries, NEW phase \in Nat,
         Settled(r, q), StartPhase(r, q, phase), UNCHANGED <<slots, conns, returning>>
  PROVE  /\ task' \in [Requests -> [Queries -> [Components -> TaskStates]]]
         /\ local' \in [Requests -> [Queries -> Nat]]
         /\ \A c \in Components : task'[r][q][c] = IF c \in PhaseOf(phase) THEN "local"
                                                   ELSE task[r][q][c]
         /\ \A x \in Requests, y \in Queries : x # r \/ y # q => task'[x][y] = task[x][y]
         /\ ProcessOK' /\ LocalOK'
<1> DEFINE f == [c \in Components |-> IF c \in PhaseOf(phase) THEN "local"
                                      ELSE task[r][q][c]]
<1>0. /\ task \in [Requests -> [Queries -> [Components -> TaskStates]]]
      /\ LocalLimit \in Nat /\ "local" \in TaskStates
  BY DEF ShapeOK, DashboardConstants, TaskStates
<1>1. f \in [Components -> TaskStates]
  BY <1>0
<1>2. task' = [task EXCEPT ![r] = [task[r] EXCEPT ![q] = f]]
  BY DEF StartPhase
<1>3. \A c \in Components : f[c] = IF c \in PhaseOf(phase) THEN "local" ELSE task[r][q][c]
  OBVIOUS
<1>4. Sets(r, q, LocalLimit)
  BY SMTT(60) DEF StartPhase, Sets
<1>5. /\ local' \in [Requests -> [Queries -> Nat]] /\ local'[r][q] = LocalLimit
      /\ \A x \in Requests, y \in Queries : x # r \/ y # q => local'[x][y] = local[x][y]
  BY SMTT(60), <1>0, <1>4, OneLocal
<1> HIDE DEF f
<1>6. [task[r] EXCEPT ![q] = f] \in [Queries -> [Components -> TaskStates]]
  BY SMTT(60), <1>0, <1>1
<1>7. task' \in [Requests -> [Queries -> [Components -> TaskStates]]]
  BY SMTT(60), <1>0, <1>2, <1>6
<1>8. /\ task'[r][q] = f
      /\ \A x \in Requests, y \in Queries : x # r \/ y # q => task'[x][y] = task[x][y]
  BY SMTT(60), <1>0, <1>2
<1>9. ASSUME NEW c \in Components
      PROVE  task[r][q][c] \notin Placed /\ task'[r][q][c] \notin Placed
  <2>1. task[r][q][c] \in {"none", "done", "dead"}
    BY SMTT(60) DEF Settled
  <2>2. task'[r][q][c] \in {"local", task[r][q][c]}
    BY SMTT(60), <1>3, <1>8
  <2> QED
    BY <2>1, <2>2, SMTT(60) DEF Placed
<1>10. ASSUME NEW states, states \subseteq Placed PROVE Within(states)' = Within(states)
  <2>1. ASSUME NEW t \in Tasks
        PROVE  task'[t[1]][t[2]][t[3]] \in states <=> task[t[1]][t[2]][t[3]] \in states
    <3>1. PICK x \in Requests, y \in Queries, z \in Components : t = <<x, y, z>>
      BY SMTT(60) DEF Tasks
    <3>2. CASE x = r /\ y = q
      BY SMTT(60), <1>9, <1>10, <3>1, <3>2
    <3>3. CASE x # r \/ y # q
      BY SMTT(60), <1>8, <3>1, <3>3
    <3> QED
      BY <3>2, <3>3
  <2> QED
    BY <2>1, SMTT(60) DEF Within, Tasks
<1>11. Within(Slotted)' = Within(Slotted) /\ Within(Linked)' = Within(Linked)
  <2>1. Slotted \subseteq Placed /\ Linked \subseteq Placed
    BY DEF Slotted, Linked, Placed
  <2> QED
    BY <1>10, <2>1 DEF Within
<1>12. ProcessOK'
  BY <1>11, ZenonT(60) DEF ProcessOK
<1>13. PlacedOf(r, q)' = {} /\ \A x \in Requests, y \in Queries :
         x # r \/ y # q => PlacedOf(x, y)' = PlacedOf(x, y)
  BY <1>8, <1>9, SMTT(60) DEF PlacedOf
<1>14. IsFiniteSet({}) /\ LocalLimit = LocalLimit - Cardinality({})
  BY SMTT(60), <1>0, FS_EmptySet
<1>15. ASSUME NEW x \in Requests, NEW y \in Queries
       PROVE  /\ IsFiniteSet(PlacedOf(x, y)')
              /\ local'[x][y] = LocalLimit - Cardinality(PlacedOf(x, y)')
  <2>1. CASE x = r /\ y = q
    BY <1>5, <1>13, <1>14, <2>1, ZenonT(60)
  <2>2. CASE x # r \/ y # q
    <3>1. PlacedOf(x, y)' = PlacedOf(x, y) /\ local'[x][y] = local[x][y]
      BY SMTT(60), <1>5, <1>13, <2>2
    <3> QED
      BY <3>1, SMTT(60) DEF LocalOK
  <2> QED
    BY <2>1, <2>2
<1>16. LocalOK'
  BY <1>15, SMTT(60) DEF LocalOK, PlacedOf
<1> QED
  BY SMTT(60), <1>3, <1>5, <1>7, <1>8, <1>12, <1>16

(* A query starts, or goes on with its next phase.                         *)
LEMMA PhaseKeeps ==
  ASSUME DashboardConstants, IndInv, NEW r \in Requests, NEW q \in Queries,
         NEW phase \in Nat, Settled(r, q), StartPhase(r, q, phase),
         NEW n \in Nat, batch' = [batch EXCEPT ![r] = n],
         n = batch[r] + Weight(query[r][q].st \in AtWork) - 1,
         req[r] \in {"run", "failing"}, UNCHANGED <<req, slots, conns, returning>>
  PROVE  IndInv'
<1>1. /\ ShapeOK /\ ProcessOK /\ LocalOK /\ BatchOK
      /\ \A x \in Requests : RequestOK(x)
      /\ \A x \in Requests, y \in Queries : QueryOK(x, y)
  BY SMTT(60) DEF IndInv
<1> DEFINE v == [st |-> "run", phase |-> phase]
<1>2. /\ v \in [st : QueryStates, phase : Nat] /\ v.st = "run" /\ v.phase = phase
      /\ Weight(v.st \in AtWork) = 1
  BY DEF QueryStates, Weight, AtWork
<1>3. Turns(r, q, v)
  BY Zenon DEF StartPhase, Turns
<1> HIDE DEF v
<1>4. /\ query' \in [Requests -> [Queries -> [st : QueryStates, phase : Nat]]]
      /\ query'[r][q] = v
      /\ \A x \in Requests, y \in Queries : x # r \/ y # q => query'[x][y] = query[x][y]
  BY <1>1, <1>2, <1>3, OneQuery, ZenonT(60)
<1>5. BatchOK' /\ batch' \in [Requests -> Nat]
  BY <1>1, <1>2, <1>3, BatchPays, ZenonT(60)
<1>6. /\ task' \in [Requests -> [Queries -> [Components -> TaskStates]]]
      /\ local' \in [Requests -> [Queries -> Nat]]
      /\ \A c \in Components : task'[r][q][c] = IF c \in PhaseOf(phase) THEN "local"
                                                ELSE task[r][q][c]
      /\ \A x \in Requests, y \in Queries : x # r \/ y # q => task'[x][y] = task[x][y]
      /\ ProcessOK' /\ LocalOK'
  BY SMTT(60), <1>1, PhaseStarts
<1>7. ShapeOK'
  BY <1>1, <1>4, <1>5, <1>6, SMTT(60) DEF ShapeOK
<1>8. \A x \in Requests : RequestOK(x)'
  BY SMTT(60), <1>1, <1>2, <1>3, RequestFrame
<1>9. ASSUME NEW x \in Requests, NEW y \in Queries PROVE QueryOK(x, y)'
  <2>1. CASE x = r /\ y = q
    <3>1. query'[r][q].st = "run" /\ query'[r][q].phase = phase
      BY <1>2, <1>4
    <3>2. \A c \in Components : c \notin PhaseOf(phase) => task'[r][q][c] \in Over
      BY <1>6, ZenonT(60) DEF Settled, Over
    <3> QED
      BY <2>1, <3>1, <3>2, SMTT(60) DEF QueryOK
  <2>2. CASE x # r \/ y # q
    <3>1. QueryOK(x, y) /\ query'[x][y] = query[x][y] /\ task'[x][y] = task[x][y]
      BY <1>1, <1>4, <1>6, <2>2
    <3> QED
      BY SMTT(60), <3>1, QueryFrame
  <2> QED
    BY SMTT(60), <2>1, <2>2
<1> QED
  BY <1>5, <1>6, <1>7, <1>8, <1>9, SMTT(60) DEF IndInv

LEMMA StartQueryKeeps ==
  ASSUME DashboardConstants, IndInv, NEW r \in Requests, NEW q \in Queries,
         StartQuery(r, q)
  PROVE  IndInv'
<1>1. /\ req[r] = "run" /\ query[r][q].st = "wait" /\ batch[r] > 0
      /\ batch' = [batch EXCEPT ![r] = batch[r] - 1]
      /\ StartPhase(r, q, FirstPhase(r)) /\ UNCHANGED <<req, slots, conns, returning>>
  BY SMTT(60) DEF StartQuery
<1>2. Settled(r, q)
  BY <1>1 DEF IndInv, QueryOK
<1>3. batch[r] \in Nat /\ FirstPhase(r) \in Nat
  BY SMTT(60) DEF IndInv, ShapeOK, FirstPhase
<1>4. /\ batch[r] - 1 = batch[r] + Weight("wait" \in AtWork) - 1
      /\ batch[r] - 1 \in Nat
  BY <1>1, <1>3 DEF Weight, AtWork
<1> QED
  BY <1>1, <1>2, <1>3, <1>4, PhaseKeeps, ZenonT(60)

LEMMA PhaseDoneKeeps ==
  ASSUME DashboardConstants, IndInv, NEW r \in Requests, NEW q \in Queries,
         PhaseDone(r, q)
  PROVE  IndInv'
<1>1. /\ query[r][q].st = "run"
      /\ \A c \in PhaseOf(query[r][q].phase) : task[r][q][c] = "done"
      /\ UNCHANGED <<req, slots, conns, returning>>
  BY DEF PhaseDone
<1>2. /\ batch \in [Requests -> Nat] /\ batch[r] \in Nat /\ query[r][q].phase \in Nat
      /\ req \in [Requests -> {"idle", "run", "failing"} \cup Ended]
  BY SMTT(60) DEF IndInv, ShapeOK
<1>3. Settled(r, q)
  <2>1. \A c \in Components : c \notin PhaseOf(query[r][q].phase) => task[r][q][c] \in Over
    BY <1>1, SMTT(60) DEF IndInv, QueryOK
  <2> QED
    BY <1>1, <2>1, SMTT(60) DEF Settled, Over
<1>4. req[r] \in {"run", "failing"}
  BY <1>1, RequestAtWork, SMTT(60) DEF AtWork
<1>5. CASE query[r][q].phase = LastPhase(r)
  <2>1. /\ Turns(r, q, [query[r][q] EXCEPT !.st = "done"])
        /\ batch' = [batch EXCEPT ![r] = batch[r] + 1] /\ UNCHANGED <<task, local>>
    BY <1>5, SMTT(60) DEF PhaseDone, Turns
  <2>2. /\ batch[r] + 1 = batch[r] + Weight("run" \in AtWork) - Weight("done" \in AtWork)
        /\ batch[r] + 1 \in Nat
    BY <1>2 DEF Weight, AtWork
  <2>3. Closes(r, q, "done", batch[r] + 1)
    BY <1>1, <1>2, <1>3, <1>4, <2>1, <2>2, ZenonT(60) DEF Closes
  <2> QED
    BY SMTT(60), <2>2, <2>3, QueryTurns
<1>6. CASE query[r][q].phase # LastPhase(r)
  <2>1. StartPhase(r, q, query[r][q].phase + 1) /\ UNCHANGED batch
    BY <1>6, SMTT(60) DEF PhaseDone
  <2>2. batch' = [batch EXCEPT ![r] = batch[r]] /\ query[r][q].phase + 1 \in Nat
    BY SMTT(60), <1>2, <2>1
  <2>3. batch[r] = batch[r] + Weight("run" \in AtWork) - 1
    BY <1>2, SMTT(60) DEF Weight, AtWork
  <2>4. batch[r] = batch[r] + Weight(query[r][q].st \in AtWork) - 1
    BY SMTT(60), <1>1, <2>3
  <2> QED
    BY <1>1, <1>2, <1>3, <1>4, <2>1, <2>2, <2>4, PhaseKeeps, ZenonT(60)
<1> QED
  BY <1>5, <1>6

-----------------------------------------------------------------------------
(* Steps of a request.                                                     *)

(* A request changes its own state and the queries stay.                   *)
LEMMA RequestTurns ==
  ASSUME DashboardConstants, IndInv, NEW r \in Requests,
         NEW s \in {"run", "failing"} \cup Ended, req' = [req EXCEPT ![r] = s],
         s \in Ended => \A q \in Queries : query[r][q].st \in {"done", "dead"},
         UNCHANGED <<query, task, batch, local, slots, conns, returning>>
  PROVE  IndInv'
<1>1. /\ ShapeOK /\ ProcessOK /\ LocalOK /\ BatchOK
      /\ \A x \in Requests : RequestOK(x)
      /\ \A x \in Requests, y \in Queries : QueryOK(x, y)
  BY SMTT(60) DEF IndInv
<1>2. ProcessOK' /\ LocalOK'
  BY SMTT(60), <1>1, CountFrame
<1>3. BatchOK'
  BY SMTT(60), <1>1, BatchFrame
<1>4. ShapeOK'
  BY <1>1, SMTT(60) DEF ShapeOK
<1>5. \A x \in Requests, y \in Queries : QueryOK(x, y)'
  BY SMTT(60), <1>1, QueryFrame
<1>6. ASSUME NEW x \in Requests PROVE RequestOK(x)'
  <2>1. CASE x = r
    <3>1. req'[r] = s /\ s # "idle"
      BY <1>1, SMTT(60) DEF ShapeOK, Ended
    <3> QED
      BY <2>1, <3>1, SMTT(60) DEF RequestOK
  <2>2. CASE x # r
    <3>1. req'[x] = req[x] /\ RequestOK(x)
      BY <1>1, <2>2, SMTT(60) DEF ShapeOK
    <3> QED
      BY <3>1, SMTT(60) DEF RequestOK
  <2> QED
    BY SMTT(60), <2>1, <2>2
<1> QED
  BY <1>2, <1>3, <1>4, <1>5, <1>6, SMTT(60) DEF IndInv

LEMMA BeginKeeps ==
  ASSUME DashboardConstants, IndInv, NEW r \in Requests, Begin(r)
  PROVE  IndInv'
<1>1. /\ ShapeOK /\ ProcessOK /\ LocalOK /\ BatchOK
      /\ \A x \in Requests : RequestOK(x)
      /\ \A x \in Requests, y \in Queries : QueryOK(x, y)
  BY SMTT(60) DEF IndInv
<1>2. /\ req[r] = "idle" /\ req' = [req EXCEPT ![r] = "run"]
      /\ query' = [query EXCEPT ![r] = [q \in Queries |-> [st |-> "wait", phase |-> 0]]]
      /\ UNCHANGED <<task, batch, local, slots, conns, returning>>
  BY SMTT(60) DEF Begin
<1>3. \A q \in Queries : query[r][q].st = "none"
  BY <1>1, <1>2 DEF RequestOK
<1>4. /\ query' \in [Requests -> [Queries -> [st : QueryStates, phase : Nat]]]
      /\ \A q \in Queries : query'[r][q].st = "wait"
      /\ \A x \in Requests : x # r => query'[x] = query[x]
  BY <1>1, <1>2, ZenonT(60) DEF ShapeOK, QueryStates
<1>5. /\ req' \in [Requests -> {"idle", "run", "failing"} \cup Ended]
      /\ req'[r] = "run" /\ \A x \in Requests : x # r => req'[x] = req[x]
  BY <1>1, <1>2, SMTT(60) DEF ShapeOK
<1>6. ShapeOK'
  BY <1>1, <1>2, <1>4, <1>5, SMTT(60) DEF ShapeOK
<1>7. ProcessOK' /\ LocalOK'
  BY SMTT(60), <1>1, <1>2, CountFrame
<1>8. BatchOK'
  BY SMTT(60), <1>1, <1>2, <1>3, <1>4, BatchFrame
<1>9. ASSUME NEW x \in Requests, NEW y \in Queries PROVE QueryOK(x, y)'
  <2>1. CASE x = r
    <3>1. Settled(r, y) /\ task' = task /\ query'[r][y].st = "wait"
      BY <1>1, <1>2, <1>3, <1>4, SMTT(60) DEF QueryOK
    <3> QED
      BY <2>1, <3>1, SMTT(60) DEF QueryOK, Settled
  <2>2. CASE x # r
    BY SMTT(60), <1>1, <1>2, <1>4, <2>2, QueryFrame
  <2> QED
    BY SMTT(60), <2>1, <2>2
<1>10. ASSUME NEW x \in Requests PROVE RequestOK(x)'
  <2>1. CASE x = r
    BY <1>5, <2>1, SMTT(60) DEF RequestOK, Ended
  <2>2. CASE x # r
    <3>1. RequestOK(x) /\ query'[x] = query[x] /\ req'[x] = req[x]
      BY SMTT(60), <1>1, <1>4, <1>5, <2>2
    <3> QED
      BY <3>1, SMTT(60) DEF RequestOK
  <2> QED
    BY SMTT(60), <2>1, <2>2
<1> QED
  BY <1>6, <1>7, <1>8, <1>9, <1>10, SMTT(60) DEF IndInv

LEMMA DeadlineKeeps ==
  ASSUME DashboardConstants, IndInv, NEW r \in Requests, Deadline(r)
  PROVE  IndInv'
<1>1. CASE /\ req' = [req EXCEPT ![r] = "failing"]
           /\ UNCHANGED <<query, task, batch, local, slots, conns, returning>>
  BY <1>1, RequestTurns, ZenonT(60) DEF Ended
<1>2. ASSUME NEW q \in Queries, NEW c \in Components, task[r][q][c] = "closing",
             Moves(r, q, c, "dead"), Release(r, q, "conn"),
             returning' = returning + 1, UNCHANGED <<req, query, batch>>
      PROVE  IndInv'
  BY <1>2, InterruptKeeps
<1> QED
  BY <1>1, <1>2, ZenonT(60) DEF Deadline, Moves

LEMMA AnswerKeeps ==
  ASSUME DashboardConstants, IndInv, NEW r \in Requests, Answer(r)
  PROVE  IndInv'
<1>1. /\ \A q \in Queries : query[r][q].st = "done"
      /\ req' = [req EXCEPT ![r] = "answered"]
      /\ UNCHANGED <<query, task, batch, local, slots, conns, returning>>
  BY DEF Answer
<1>2. \A q \in Queries : query[r][q].st \in {"done", "dead"}
  BY <1>1
<1> QED
  BY <1>1, <1>2, RequestTurns, ZenonT(60) DEF Ended

LEMMA FailRequestKeeps ==
  ASSUME DashboardConstants, IndInv, NEW r \in Requests, FailRequest(r)
  PROVE  IndInv'
BY RequestTurns, ZenonT(60) DEF FailRequest, Ended

(* asyncpg completes a release.                                            *)
LEMMA ReturnedKeeps ==
  ASSUME DashboardConstants, IndInv, Returned
  PROVE  IndInv'
<1>1. /\ ShapeOK /\ ProcessOK /\ LocalOK /\ BatchOK
      /\ \A x \in Requests : RequestOK(x)
      /\ \A x \in Requests, y \in Queries : QueryOK(x, y)
  BY DEF IndInv
<1>2. /\ UNCHANGED <<req, query, task, batch, local, slots>>
      /\ returning > 0 /\ returning' = returning - 1 /\ conns' = conns + 1
  BY DEF Returned
<1>3. conns' + returning' = conns + returning /\ conns' \in Nat /\ returning' \in Nat
  BY <1>1, <1>2, SMTT(60) DEF ShapeOK
<1>4. ShapeOK'
  BY <1>1, <1>2, <1>3, SMTT(60) DEF ShapeOK
<1>5. ProcessOK' /\ LocalOK'
  BY SMTT(60), <1>1, <1>2, <1>3, CountFrame
<1>6. BatchOK'
  BY SMTT(60), <1>1, <1>2, BatchFrame
<1>7. \A x \in Requests, y \in Queries : QueryOK(x, y)'
  BY SMTT(60), <1>1, <1>2, QueryFrame
<1>8. \A x \in Requests : RequestOK(x)'
  BY <1>1, <1>2 DEF RequestOK
<1> QED
  BY <1>4, <1>5, <1>6, <1>7, <1>8, SMTT(60) DEF IndInv

-----------------------------------------------------------------------------
(* The invariant.                                                          *)

LEMMA InitInv ==
  ASSUME DashboardConstants, Init
  PROVE  IndInv
<1>1. /\ \A r \in Requests : req[r] = "idle"
      /\ \A r \in Requests, q \in Queries : query[r][q].st = "none"
      /\ \A r \in Requests, q \in Queries, c \in Components : task[r][q][c] = "none"
      /\ \A r \in Requests : batch[r] = BatchLimit
      /\ \A r \in Requests, q \in Queries : local[r][q] = LocalLimit
      /\ slots = GlobalLimit /\ conns = PoolSize /\ returning = 0
  BY DEF Init
<1>2. BatchLimit \in Nat /\ LocalLimit \in Nat /\ GlobalLimit \in Nat /\ PoolSize \in Nat
  BY SMTT(60) DEF DashboardConstants
<1>3. ShapeOK
  BY <1>2 DEF Init, ShapeOK, QueryStates, TaskStates
<1>4. IsFiniteSet({}) /\ Cardinality({}) = 0
  BY SMTT(60), FS_EmptySet
<1>5. Within(Slotted) = {} /\ Within(Linked) = {}
  BY <1>1, SMTT(60) DEF Within, Tasks, Slotted, Linked
<1>6. ProcessOK
  BY <1>1, <1>2, <1>4, <1>5, SMTT(60) DEF ProcessOK
<1>7. \A r \in Requests, q \in Queries : PlacedOf(r, q) = {}
  BY <1>1 DEF PlacedOf, Placed
<1>8. LocalOK
  <2>1. LocalLimit = LocalLimit - Cardinality({})
    BY SMTT(60), <1>2, <1>4
  <2> QED
    BY <1>1, <1>4, <1>7, <2>1, ZenonT(60) DEF LocalOK
<1>9. \A r \in Requests : Started(r) = {}
  BY <1>1, SMTT(60) DEF Started
<1>10. BatchOK
  BY <1>1, <1>2, <1>4, <1>9, SMTT(60) DEF BatchOK
<1>11. \A r \in Requests, q \in Queries : QueryOK(r, q)
  BY <1>1 DEF QueryOK, Settled
<1>12. \A r \in Requests : RequestOK(r)
  BY <1>1 DEF RequestOK, Ended
<1> QED
  BY <1>3, <1>6, <1>8, <1>10, <1>11, <1>12, SMTT(60) DEF IndInv

LEMMA StutterInv ==
  ASSUME IndInv, UNCHANGED vars
  PROVE  IndInv'
<1>1. /\ ShapeOK /\ ProcessOK /\ LocalOK /\ BatchOK
      /\ \A x \in Requests : RequestOK(x)
      /\ \A x \in Requests, y \in Queries : QueryOK(x, y)
  BY DEF IndInv
<1>2. UNCHANGED <<req, query, task, batch, local, slots, conns, returning>>
  BY DEF vars
<1>3. ProcessOK' /\ LocalOK'
  BY SMTT(60), <1>1, <1>2, CountFrame
<1>4. BatchOK'
  BY SMTT(60), <1>1, <1>2, BatchFrame
<1>5. \A x \in Requests, y \in Queries : QueryOK(x, y)'
  BY SMTT(60), <1>1, <1>2, QueryFrame
<1>6. \A x \in Requests : RequestOK(x)'
  BY <1>1, <1>2, SMTT(60) DEF RequestOK
<1>7. ShapeOK'
  BY <1>1, <1>2 DEF ShapeOK
<1> QED
  BY <1>3, <1>4, <1>5, <1>6, <1>7, SMTT(60) DEF IndInv

LEMMA NextInv ==
  ASSUME DashboardConstants, IndInv, Next
  PROVE  IndInv'
<1>1. ASSUME NEW r \in Requests, Begin(r) \/ Deadline(r) \/ Answer(r) \/ FailRequest(r)
      PROVE  IndInv'
  BY <1>1, BeginKeeps, DeadlineKeeps, AnswerKeeps, FailRequestKeeps, ZenonT(60)
<1>2. ASSUME NEW r \in Requests, NEW q \in Queries, QueryStep(r, q)
      PROVE  IndInv'
  BY <1>2, StartQueryKeeps, PhaseDoneKeeps, QueryFailsKeeps, CancelQueryKeeps,
     ZenonT(60) DEF QueryStep
<1>3. ASSUME NEW r \in Requests, NEW q \in Queries, NEW c \in Components,
             ComponentStep(r, q, c) \/ Fail(r, q, c)
      PROVE  IndInv'
  BY <1>3, TakeLocalKeeps, TakeGlobalKeeps, AcquireKeeps, FinishKeeps,
     CancelTaskKeeps, FailKeeps, ZenonT(60) DEF ComponentStep
<1>4. CASE Returned
  BY <1>4, ReturnedKeeps
<1> QED
  BY <1>1, <1>2, <1>3, <1>4, ZenonT(60) DEF Next

(* The accounting above holds of every state the process reaches, for any  *)
(* number of requests, queries and components, whatever the semaphores     *)
(* and the pool are dimensioned to and however often components fail.      *)
THEOREM DashboardInvariant == DashboardConstants => (Spec => []IndInv)
<1> SUFFICES ASSUME DashboardConstants PROVE Spec => []IndInv
  OBVIOUS
<1>1. Init => IndInv
  BY InitInv
<1>2. IndInv /\ [Next]_vars => IndInv'
  BY NextInv, StutterInv, ZenonT(60)
<1> QED
  BY <1>1, <1>2, PTL DEF Spec

LEMMA IndInvTypes ==
  ASSUME DashboardConstants, IndInv
  PROVE  TypeOK
<1>1. ShapeOK /\ ProcessOK /\ LocalOK /\ BatchOK /\ DashboardConstants
  BY DEF IndInv
<1>2. Cardinality(Within(Slotted)) \in Nat /\ Cardinality(Within(Linked)) \in Nat
  BY <1>1, FS_CardinalityType, SMTT(60) DEF ProcessOK
<1>3. slots \in 0 .. GlobalLimit /\ conns \in 0 .. PoolSize /\ returning \in 0 .. PoolSize
  BY <1>1, <1>2, SMTT(60) DEF ShapeOK, ProcessOK, DashboardConstants
<1>4. ASSUME NEW r \in Requests PROVE batch[r] \in 0 .. BatchLimit
  <2>1. Cardinality(Started(r)) \in Nat /\ batch[r] = BatchLimit - Cardinality(Started(r))
    BY <1>1, FS_CardinalityType, SMTT(60) DEF BatchOK
  <2> QED
    BY <1>1, <2>1, SMTT(60) DEF ShapeOK, DashboardConstants
<1>5. ASSUME NEW r \in Requests, NEW q \in Queries PROVE local[r][q] \in 0 .. LocalLimit
  <2>1. /\ Cardinality(PlacedOf(r, q)) \in Nat
        /\ local[r][q] = LocalLimit - Cardinality(PlacedOf(r, q))
    BY <1>1, FS_CardinalityType, SMTT(60) DEF LocalOK
  <2> QED
    BY <1>1, <2>1, SMTT(60) DEF ShapeOK, DashboardConstants
<1>6. batch \in [Requests -> 0 .. BatchLimit]
  BY <1>1, <1>4, SMTT(60) DEF ShapeOK
<1>7. local \in [Requests -> [Queries -> 0 .. LocalLimit]]
  BY <1>1, <1>5, SMTT(60) DEF ShapeOK
<1>8. ASSUME NEW t \in Tasks PROVE task[t[1]][t[2]][t[3]] \in TaskStates
  BY <1>1 DEF ShapeOK, Tasks
<1> QED
  BY <1>1, <1>3, <1>6, <1>7, <1>8, SMTT(60) DEF ShapeOK, TypeOK, TaskStates

(* No semaphore of a batch, of a query or of the process, and no count of  *)
(* pooled connections, ever leaves its range: nothing is released that was *)
(* not taken (scheduler.py, batch.py).                                     *)
THEOREM DashboardTypes == DashboardConstants => (Spec => []TypeOK)
<1> SUFFICES ASSUME DashboardConstants PROVE Spec => []TypeOK
  OBVIOUS
<1>1. IndInv => TypeOK
  BY IndInvTypes
<1>2. Spec => []IndInv
  BY SMTT(60), DashboardInvariant
<1> QED
  BY <1>1, <1>2, PTL

(* No failure, cancellation or deadline, at any point of a component's     *)
(* life, loses a slot of the process or a connection of the pool.          *)
THEOREM NoSlotIsLost == DashboardConstants => (Spec => []SlotsAccounted)
<1> SUFFICES ASSUME DashboardConstants PROVE Spec => []SlotsAccounted
  OBVIOUS
<1>1. IndInv => SlotsAccounted
  <2>1. /\ {t \in Tasks : Holding(t[1], t[2], t[3])} = Within(Slotted)
        /\ {t \in Tasks : Connected(t[1], t[2], t[3])} = Within(Linked)
    BY SMTT(60) DEF Holding, Connected, Within, Slotted, Linked
  <2> QED
    BY <2>1, ZenonT(60) DEF IndInv, ProcessOK, SlotsAccounted
<1>2. Spec => []IndInv
  BY DashboardInvariant
<1> QED
  BY <1>1, <1>2, PTL

(* A request that was answered or has failed left no component at work:    *)
(* every child was awaited or cancelled and reaped first.                  *)
THEOREM EndedRequestsAreQuiet == DashboardConstants => (Spec => []EndedIsQuiet)
<1> SUFFICES ASSUME DashboardConstants PROVE Spec => []EndedIsQuiet
  OBVIOUS
<1>1. IndInv => EndedIsQuiet
  BY DEF IndInv, RequestOK, QueryOK, EndedIsQuiet
<1>2. Spec => []IndInv
  BY DashboardInvariant
<1> QED
  BY <1>1, <1>2, PTL
=============================================================================
