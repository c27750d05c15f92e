------------------------------ MODULE StorePnl ------------------------------
(***************************************************************************)
(* The store P&L table, store_pnl_monthly, and the operators who replace   *)
(* parts of it.                                                            *)
(*                                                                         *)
(* Finance stages a generation from an authorised bundle of workbooks      *)
(* (services/store_pnl_import.py), promotes it, and undoes a promotion by  *)
(* publishing an inverse generation.  Both the promotion and the inverse   *)
(* go through the functions of migration 040, which compare a head and the *)
(* rows they replace.  The estimated rows of store-months that Finance     *)
(* does not cover are replaced by a reviewed generation                    *)
(* (scripts/publish_store_pnl_estimates.py and migration 075) or, without  *)
(* review, by the older estimator (scripts/estimate_store_pnl.py).         *)
(*                                                                         *)
(* One month is modelled: a scope is one of the two companies, and the     *)
(* scopes are numbered in the order in which the code locks them.  The     *)
(* rows of a scope are a function from its sites to a version of their     *)
(* amounts, 0 where the site has no row of that kind.                      *)
(***************************************************************************)
EXTENDS Integers, Sequences, FiniteSets

CONSTANTS
    Finance,          \* operators of the Finance import
    Publishers,       \* operators of the estimate publication
    Legacy,           \* runs of the older estimator
    Sites,
    Bundles,          \* what a Finance workbook can hold for a scope
    Initial,          \* the Finance rows before the first generation
    MaxGenerations,   \* bound: Finance generations
    MaxEstimates,     \* bound: estimate generations
    MaxInputs         \* bound: versions of the sales, salaries and site links

Scopes == 1..2

VARIABLES
    actual,      \* the Finance rows of every scope
    estimated,   \* the estimated rows of every scope
    inputs,      \* the version of the estimator's other inputs
    heads,       \* store_pnl_generation_heads
    gens,        \* store_pnl_generations with their scopes and rows
    ledger,      \* the "promoted" entries of store_pnl_generation_ledger
    reviews,     \* store_pnl_estimate_generations
    control,     \* the revision of store_pnl_estimate_control
    events,      \* store_pnl_estimate_events
    op,          \* what every operator is doing
    scopeLock,   \* the advisory locks that the SQL functions take for a scope
    undoLock,    \* the advisory locks that rollback_generation takes itself
    controlLock, \* the row lock of store_pnl_estimate_control
    writers      \* transactions that have written store_pnl_monthly

data == <<actual, estimated, inputs, heads, gens, ledger, reviews, control, events>>
locks == <<scopeLock, undoLock, controlLock, writers>>
vars == <<data, op, locks>>

Operators == Finance \cup Publishers \cup Legacy
nobody == "nobody"
NoRows == [x \in Sites |-> 0]
NoHead == [gen |-> 0, rev |-> 0, revid |-> 0]

\* Between operations an operator holds nothing.  "gen" is the generation it
\* works on, "at" its next scope, "rows" and "seen" what it has read, "work"
\* the generation it promotes or the review it publishes, "action" what it
\* asks of the estimate functions.
Idle == [doing |-> "idle", action |-> "none", gen |-> 0, at |-> 1,
         rows |-> <<>>, seen |-> <<>>, work |-> <<>>]

Init ==
    /\ actual = [s \in Scopes |-> Initial]
    /\ estimated = [s \in Scopes |-> NoRows]
    /\ inputs = 1
    /\ heads = [s \in Scopes |-> NoHead]
    /\ gens = <<>>
    /\ ledger = [s \in Scopes |-> <<>>]
    /\ reviews = <<>>
    /\ control = 0
    /\ events = <<>>
    /\ op = [p \in Operators |-> Idle]
    /\ scopeLock = [s \in Scopes |-> nobody]
    /\ undoLock = [s \in Scopes |-> nobody]
    /\ controlLock = nobody
    /\ writers = {}

---------------------------------------------------------------------------
(* Transactions.                                                           *)

Freed(lock, p) == [s \in Scopes |-> IF lock[s] = p THEN nobody ELSE lock[s]]

\* Fault: the scopes are locked for the session and outlive the transaction.
ReleasedWithoutScopes(p) ==
    /\ op' = [op EXCEPT ![p] = Idle]
    /\ scopeLock' = scopeLock
    /\ undoLock' = Freed(undoLock, p)
    /\ controlLock' = IF controlLock = p THEN nobody ELSE controlLock
    /\ writers' = writers \ {p}

Released(p) ==
    /\ op' = [op EXCEPT ![p] = Idle]
    /\ scopeLock' = Freed(scopeLock, p)
    /\ undoLock' = Freed(undoLock, p)
    /\ controlLock' = IF controlLock = p THEN nobody ELSE controlLock
    /\ writers' = writers \ {p}

\* The transaction ends without effect.
Refuse(p) == Released(p) /\ UNCHANGED data

\* The connection is lost or a later validation refuses the operation.
Abort(p) == op[p] # Idle /\ Refuse(p)

\* What p waits for: the holders of the lock that its next statement takes.
Blockers(p) ==
    LET s == op[p].at
        holders == CASE op[p].doing \in {"apply", "scopes"} /\ s \in Scopes -> {scopeLock[s]}
                     [] op[p].doing = "rollback" /\ s \in Scopes -> {undoLock[s]}
                     [] op[p].doing = "control" -> {controlLock}
                     [] op[p].doing = "scopes" -> writers
                     [] OTHER -> {}
    IN holders \ {nobody, p}

\* The operators that p waits for, directly or through others.
WaitsFor(p) ==
    LET Step(A) == A \cup UNION {Blockers(q) : q \in A}
    IN Step(Step(Step(Blockers(p))))

\* PostgreSQL aborts one of the transactions of a cycle of waits.
DeadlockVictim(p) == p \in WaitsFor(p) /\ Refuse(p)

---------------------------------------------------------------------------
(* Finance: staging.  The transaction is READ COMMITTED and takes no lock, *)
(* so every read may see another state.                                    *)

StageStart(p) ==
    /\ op[p] = Idle
    /\ Len(gens) < MaxGenerations
    /\ op' = [op EXCEPT ![p].doing = "stage"]
    /\ UNCHANGED <<data, locks>>

StageReadRows(p) ==
    /\ op[p].doing = "stage" /\ op[p].at \in Scopes
    /\ Len(op[p].rows) < op[p].at
    /\ op' = [op EXCEPT ![p].rows = Append(@, actual[op[p].at])]
    /\ UNCHANGED <<data, locks>>

\* The bundle names the revision it follows; another head is a conflict, and
\* then the operator's transaction ends by Abort.
StageReadHead(p) ==
    /\ op[p].doing = "stage" /\ op[p].at \in Scopes
    /\ Len(op[p].rows) = op[p].at
    /\ op' = [op EXCEPT ![p].seen = Append(@, heads[op[p].at]), ![p].at = @ + 1]
    /\ UNCHANGED <<data, locks>>

Generation(candidate, p, revid) ==
    [state |-> "staged", candidate |-> candidate, preimage |-> op[p].rows,
     revid |-> revid,
     expected |-> [s \in Scopes |-> op[p].seen[s].rev],
     parent |-> [s \in Scopes |-> op[p].seen[s].revid]]

StageCommit(p) ==
    /\ op[p].doing = "stage" /\ op[p].at \notin Scopes
    /\ \E candidate \in [Scopes -> Bundles] :
         gens' = Append(gens, Generation(candidate, p, Len(gens) + 1))
    /\ Released(p)
    /\ UNCHANGED <<actual, estimated, inputs, heads, ledger, reviews, control, events>>

---------------------------------------------------------------------------
(* Finance: promotion.                                                     *)

\* The function locks the generation's row first.
PromoteStart(p, g) ==
    /\ op[p] = Idle
    /\ gens[g].state = "staged"
    /\ \A q \in Finance : ~(op[q].doing \in {"apply", "writing"} /\ op[q].gen = g)
    /\ op' = [op EXCEPT ![p] = [Idle EXCEPT !.doing = "apply", !.gen = g, !.work = gens[g]]]
    /\ UNCHANGED <<data, locks>>

\* Fault: the rows to be replaced are not compared again.
EvidenceIsHead(work, s) ==
    /\ heads[s].rev = work.expected[s]
    /\ heads[s].revid = work.parent[s]

\* The rows and the head that the generation was staged against.
EvidenceHolds(work, s) ==
    /\ actual[s] = work.preimage[s]
    /\ heads[s].rev = work.expected[s]
    /\ heads[s].revid = work.parent[s]

\* The advisory lock of the next scope, and the comparisons made under it.
PromoteScope(p) ==
    LET s == op[p].at IN
    /\ op[p].doing = "apply" /\ s \in Scopes
    /\ scopeLock[s] = nobody
    /\ IF EvidenceHolds(op[p].work, s)
       THEN /\ scopeLock' = [scopeLock EXCEPT ![s] = p]
            /\ op' = [op EXCEPT ![p].doing = "writing"]
            /\ UNCHANGED <<data, undoLock, controlLock, writers>>
       ELSE Refuse(p)

\* The DELETE and INSERT of the scope: from here to its end the transaction
\* keeps a publication of estimates from locking the table.
PromoteWrite(p) ==
    /\ op[p].doing = "writing"
    /\ writers' = writers \cup {p}
    /\ op' = [op EXCEPT ![p].doing = "apply", ![p].at = @ + 1]
    /\ UNCHANGED <<data, scopeLock, undoLock, controlLock>>

NewHead(g, work) ==
    [s \in Scopes |-> [gen |-> g, rev |-> work.expected[s] + 1, revid |-> work.revid]]

\* An inverse generation exists for others only from the commit on.
PromoteCommit(p) ==
    LET fresh == op[p].gen = 0
        g == IF fresh THEN Len(gens) + 1 ELSE op[p].gen
        done == [op[p].work EXCEPT !.state = "promoted"]
    IN
    /\ op[p].doing = "apply" /\ op[p].at \notin Scopes
    /\ actual' = op[p].work.candidate
    /\ heads' = NewHead(g, op[p].work)
    /\ ledger' = [s \in Scopes |-> Append(ledger[s], g)]
    /\ gens' = IF fresh THEN Append(gens, done) ELSE [gens EXCEPT ![g] = done]
    /\ Released(p)
    /\ UNCHANGED <<estimated, inputs, reviews, control, events>>

---------------------------------------------------------------------------
(* Finance: rollback, a new generation whose rows are the source's         *)
(* preimage, staged and promoted in one transaction.  Its own advisory     *)
(* locks are not the ones of the promotion, so they keep out other         *)
(* rollbacks only.                                                         *)

RollbackStart(p, g) ==
    /\ op[p] = Idle
    /\ Len(gens) < MaxGenerations
    /\ gens[g].state = "promoted"
    /\ op' = [op EXCEPT ![p] = [Idle EXCEPT !.doing = "rollback", !.gen = g]]
    /\ UNCHANGED <<data, locks>>

IsHead(g, s) == heads[s].gen = g

RollbackScope(p) ==
    LET s == op[p].at IN
    /\ op[p].doing = "rollback" /\ s \in Scopes
    /\ undoLock[s] = nobody
    /\ IF IsHead(op[p].gen, s)
       THEN /\ undoLock' = [undoLock EXCEPT ![s] = p]
            /\ op' = [op EXCEPT ![p].rows = Append(@, actual[s]),
                                ![p].seen = Append(@, heads[s]),
                                ![p].at = @ + 1]
            /\ UNCHANGED <<data, scopeLock, controlLock, writers>>
       ELSE Refuse(p)

RollbackStage(p) ==
    /\ op[p].doing = "rollback" /\ op[p].at \notin Scopes
    /\ op' = [op EXCEPT ![p] =
                [Idle EXCEPT !.doing = "apply",
                             !.work = Generation(gens[op[p].gen].preimage, p, -op[p].gen)]]
    /\ UNCHANGED <<data, locks>>

---------------------------------------------------------------------------
(* The estimates.  Every site has sales; an amount is the version of the   *)
(* inputs it was computed from, and the reviewed model's amounts differ    *)
(* from the older estimator's.                                             *)

Absent(rows) == {x \in Sites : rows[x] = 0}
Estimate(rows, amount) == [x \in Sites |-> IF rows[x] = 0 THEN amount ELSE 0]
LegacyAmount(v) == v
ReviewedAmount(v) == MaxInputs + v

\* What the estimate functions hash of the scopes of a generation.
Context(scopes) ==
    [pnl |-> [s \in scopes |-> <<actual[s], estimated[s]>>], heads |-> heads, inputs |-> inputs]

\* The first of the scopes to lock from "from" on; 3 when there is none.
NextScope(scopes, from) ==
    LET later == {s \in scopes : s >= from}
    IN IF later = {} THEN 3 ELSE CHOOSE s \in later : \A t \in later : s <= t

\* The review run writes its inputs, the whole table and the candidate to files.
Review(e) ==
    LET scopes == {s \in Scopes : Absent(actual[s]) # {}} IN
    /\ op[e] = Idle
    /\ Len(reviews) < MaxEstimates
    /\ scopes # {}
    /\ op' = [op EXCEPT ![e] =
                [Idle EXCEPT !.doing = "reviewed", !.action = "stage",
                             !.work = [scopes |-> scopes, inputs |-> inputs,
                                       actual |-> actual, estimated |-> estimated,
                                       candidate |-> [s \in scopes |->
                                         Estimate(actual[s], ReviewedAmount(inputs))]]]]
    /\ UNCHANGED <<data, locks>>

\* The context, then the review compared with the tables as they are now.
Verify(e) ==
    /\ op[e].doing = "reviewed"
    /\ IF /\ op[e].work.inputs = inputs
          /\ op[e].work.actual = actual
          /\ op[e].work.estimated = estimated
       THEN /\ op' = [op EXCEPT ![e].doing = "verified",
                                ![e].seen = [context |-> Context(op[e].work.scopes), revision |-> control]]
            /\ UNCHANGED <<data, locks>>
       ELSE Refuse(e)

\* The context again, which must be the one before the comparison.
Reinspect(e) ==
    /\ op[e].doing = "verified"
    /\ IF op[e].seen = [context |-> Context(op[e].work.scopes), revision |-> control]
       THEN /\ op' = [op EXCEPT ![e].doing = "control"]
            /\ UNCHANGED <<data, locks>>
       ELSE Refuse(e)

\* The operator names a staged generation and the revision seen last.
PublishStart(e, r) ==
    /\ op[e] = Idle
    /\ \E action \in {"promoted", "rolled_back"} :
         op' = [op EXCEPT ![e] =
                 [Idle EXCEPT !.doing = "control", !.action = action, !.gen = r,
                              !.seen = [revision |-> control], !.work = reviews[r]]]
    /\ UNCHANGED <<data, locks>>

\* _pnl_estimate_lock: the control row, the scopes in order, then the tables.
LockControl(e) ==
    /\ op[e].doing = "control"
    /\ controlLock = nobody
    /\ controlLock' = e
    /\ op' = [op EXCEPT ![e].doing = "scopes", ![e].at = NextScope(op[e].work.scopes, 1)]
    /\ UNCHANGED <<data, scopeLock, undoLock, writers>>

LockScope(e) ==
    LET s == op[e].at IN
    /\ op[e].doing = "scopes" /\ s \in Scopes
    /\ scopeLock[s] = nobody
    /\ scopeLock' = [scopeLock EXCEPT ![s] = e]
    /\ op' = [op EXCEPT ![e].at = NextScope(op[e].work.scopes, s + 1)]
    /\ UNCHANGED <<data, undoLock, controlLock, writers>>

\* From the table locks to the commit nothing else can write, so the rest of
\* the function is one step.
Locked(e, action) ==
    /\ op[e].doing = "scopes" /\ op[e].at \notin Scopes
    /\ op[e].action = action
    /\ writers = {}

StageEstimate(e) ==
    LET work == op[e].work IN
    /\ Locked(e, "stage")
    /\ IF /\ op[e].seen = [context |-> Context(work.scopes), revision |-> control]
          /\ \A s \in work.scopes : Absent(actual[s]) = {x \in Sites : work.candidate[s][x] # 0}
       THEN /\ reviews' = Append(reviews,
                  [scopes |-> work.scopes, candidate |-> work.candidate,
                   preimage |-> [s \in work.scopes |-> estimated[s]],
                   context |-> op[e].seen.context, expected |-> control])
            /\ Released(e)
            /\ UNCHANGED <<actual, estimated, inputs, heads, gens, ledger, control, events>>
       ELSE Refuse(e)

Replace(e, rows) ==
    LET work == op[e].work
        next == [s \in Scopes |-> IF s \in work.scopes THEN rows[s] ELSE estimated[s]]
    IN
    /\ estimated' = next
    /\ control' = control + 1
    /\ events' = Append(events,
         [gen |-> op[e].gen, action |-> op[e].action,
          context |-> [Context(work.scopes) EXCEPT
                         !.pnl = [s \in work.scopes |-> <<actual[s], next[s]>>]]])
    /\ Released(e)
    /\ UNCHANGED <<actual, inputs, heads, gens, ledger, reviews>>

MayPromote(e) ==
    /\ op[e].work.expected = control
    /\ ~\E i \in DOMAIN events : events[i].gen = op[e].gen
    /\ Context(op[e].work.scopes) = op[e].work.context

PromoteEstimate(e) ==
    /\ Locked(e, "promoted")
    /\ IF op[e].seen.revision = control /\ MayPromote(e)
       THEN Replace(e, op[e].work.candidate)
       ELSE Refuse(e)

LastEvent == events[Len(events)]

MayUndo(e) ==
    /\ events # <<>>
    /\ LastEvent.gen = op[e].gen /\ LastEvent.action = "promoted"
    /\ Context(op[e].work.scopes) = LastEvent.context

UndoEstimate(e) ==
    /\ Locked(e, "rolled_back")
    /\ IF op[e].seen.revision = control /\ MayUndo(e)
       THEN Replace(e, op[e].work.preimage)
       ELSE Refuse(e)
---------------------------------------------------------------------------
(* The older estimator reads outside the transaction that writes.          *)

LegacyRead(l) ==
    LET scopes == {s \in Scopes : Absent(actual[s]) # {}} IN
    /\ op[l] = Idle
    /\ scopes # {}
    /\ op' = [op EXCEPT ![l] =
                [Idle EXCEPT !.doing = "estimated",
                             !.work = [s \in scopes |-> Estimate(actual[s], LegacyAmount(inputs))]]]
    /\ UNCHANGED <<data, locks>>

LegacyApply(l) ==
    /\ op[l].doing = "estimated"
    /\ estimated' = [s \in Scopes |->
                        IF s \in DOMAIN op[l].work THEN op[l].work[s] ELSE estimated[s]]
    /\ Released(l)
    /\ UNCHANGED <<actual, inputs, heads, gens, ledger, reviews, control, events>>

\* Imports of sales and salaries, and a new mapping of site codes.
ChangeInputs ==
    /\ inputs < MaxInputs
    /\ inputs' = inputs + 1
    /\ UNCHANGED <<actual, estimated, heads, gens, ledger, reviews, control, events, op, locks>>

---------------------------------------------------------------------------

\* A step that waits for no lock.
Free(p) ==
    \/ /\ p \in Finance
       /\ StageReadRows(p) \/ StageReadHead(p) \/ StageCommit(p) \/ PromoteWrite(p)
            \/ PromoteCommit(p) \/ RollbackStage(p)
    \/ p \in Publishers /\ (Verify(p) \/ Reinspect(p))
    \/ p \in Legacy /\ LegacyApply(p)
    \/ DeadlockVictim(p)

\* A step that may have to wait.
Waiting(p) ==
    \/ p \in Finance /\ (PromoteScope(p) \/ RollbackScope(p))
    \/ /\ p \in Publishers
       /\ LockControl(p) \/ LockScope(p) \/ StageEstimate(p) \/ PromoteEstimate(p) \/ UndoEstimate(p)

Start(p) ==
    \/ p \in Finance /\ StageStart(p)
    \/ p \in Finance /\ \E g \in DOMAIN gens : PromoteStart(p, g) \/ RollbackStart(p, g)
    \/ p \in Publishers /\ (Review(p) \/ \E r \in DOMAIN reviews : PublishStart(p, r))
    \/ p \in Legacy /\ LegacyRead(p)

Next == ChangeInputs \/ \E p \in Operators : Free(p) \/ Waiting(p) \/ Start(p) \/ Abort(p)

Spec == Init /\ [][Next]_vars

---------------------------------------------------------------------------
(* Properties.                                                             *)

\* The tables and the operators' records have the shapes that the code gives them.
TypeOK ==
    /\ actual \in [Scopes -> Bundles \cup {Initial}]
    /\ estimated \in [Scopes -> [Sites -> 0..2 * MaxInputs]]
    /\ inputs \in 1..MaxInputs
    /\ \A s \in Scopes : heads[s].gen \in 0..Len(gens) /\ ledger[s] \in Seq(DOMAIN gens)
    /\ \A g \in DOMAIN gens : gens[g].state \in {"staged", "promoted"}
    /\ control \in Nat
    /\ \A p \in Operators : op[p].doing \in {"idle", "stage", "apply", "writing", "rollback",
                                            "reviewed", "verified", "control", "scopes", "estimated"}
    /\ \A s \in Scopes : scopeLock[s] \in Operators \cup {nobody}
    /\ undoLock \in [Scopes -> Finance \cup {nobody}]
    /\ controlLock \in Publishers \cup {nobody}
    /\ writers \subseteq Finance

Content(s, i) == IF i = 0 THEN Initial ELSE gens[ledger[s][i]].candidate[s]

\* The head of a scope is its last promotion, its revision counts the
\* promotions and rollbacks alike ("never move a P&L head backwards"), and the
\* Finance rows of the scope are that generation's.
HeadIsLastPromotion ==
    \A s \in Scopes : LET n == Len(ledger[s]) IN
        /\ heads[s].rev = n
        /\ n > 0 => heads[s].gen = ledger[s][n]
        /\ actual[s] = Content(s, n)

\* Whatever was staged, promoted or rolled back in between, a promotion
\* replaces exactly the rows that its generation recorded as its preimage, so
\* that a rollback can bring them back.
PreimageIsWhatWasReplaced ==
    \A s \in Scopes : \A i \in DOMAIN ledger[s] :
        gens[ledger[s][i]].preimage[s] = Content(s, i - 1)

\* A rollback undoes the last promotion of both companies: the rows after it
\* are the ones from before the generation it names.
RollbackUndoesLast ==
    \A s \in Scopes : \A i \in DOMAIN ledger[s] : LET g == gens[ledger[s][i]] IN
        g.revid < 0 => /\ i > 1
                       /\ ledger[s][i - 1] = -g.revid
                       /\ Content(s, i) = Content(s, i - 2)

Published(action) == Len(events') > Len(events) /\ events'[Len(events')].action = action
PublishedReview == reviews[events'[Len(events')].gen]

\* A published estimate was computed from the inputs as they are when it is
\* published, for exactly the store-months that Finance does not cover then.
PublishedFromCurrentInputs ==
    Published("promoted") =>
      \A s \in PublishedReview.scopes :
         estimated'[s] = Estimate(actual[s], ReviewedAmount(inputs))

\* Publishing replaces the rows that the review recorded and rolling back
\* replaces the published ones: neither discards rows that someone else wrote
\* in between, and the rollback brings the recorded rows back.
NothingDiscardedUnseen ==
    LET r == PublishedReview IN
    /\ Published("promoted") => \A s \in r.scopes : estimated[s] = r.preimage[s]
    /\ Published("rolled_back") =>
         \A s \in r.scopes : estimated[s] = r.candidate[s] /\ estimated'[s] = r.preimage[s]

=============================================================================
