--------------------------- MODULE StorePnlShadow ---------------------------
(***************************************************************************)
(* The shadow generations of the store P&L: for a set of scopes (company   *)
(* and month) an operator captures, from one repeatable-read snapshot, the *)
(* estimates under the old VAT rule and under the effective one, and keeps *)
(* them with the live rows they would replace.  A single pointer names the *)
(* generation under review; promoting and rolling back move the pointer    *)
(* and never the live P&L (services/store_pnl_shadow.py and the functions  *)
(* of migration 040).                                                      *)
(*                                                                         *)
(* An estimate is a multiple of the store's sales that depends on the VAT  *)
(* rule: the estimator itself is module PnlEstimator.                      *)
(***************************************************************************)
EXTENDS Integers, Sequences, FiniteSets, FiniteSetsExt

CONSTANTS
    Operators,
    Scopes,
    Late,             \* the scopes whose VAT rate differs from the old one
    Sites,
    MaxSales,
    MaxGenerations,
    MaxRevisions,
    MaxChanges

VARIABLES
    sales,        \* what the estimator reads, for every scope and site
    changes,      \* how often the sales changed
    generations,  \* store_pnl_shadow_generations with their rows
    pointer,      \* store_pnl_shadow_pointer
    op,           \* what every operator is doing
    trail         \* the active generation after every revision

vars == <<sales, changes, generations, pointer, op, trail>>

None == 0
Keys == Scopes \X Sites
Idle == [at |-> "idle"]

Rate(variant, scope) == IF variant = "effective" /\ scope \in Late THEN 3 ELSE 2

\* build_estimates over the stores of the scopes that have sales.
Rows(variant, input, scopes) ==
    [k \in {j \in scopes \X Sites : input[j] > 0} |-> Rate(variant, k[1]) * input[k]]

Amount(rows, k) == IF k \in DOMAIN rows THEN rows[k] ELSE 0

Total(rows) == MapThenSumSet(LAMBDA k : rows[k], DOMAIN rows)

\* summarize_delta: the changed rows of either side, summed by scope.
Delta(before, after) ==
    LET changed == {k \in DOMAIN before \union DOMAIN after :
                        Amount(before, k) # Amount(after, k)}
    IN  [total |-> Total(after) - Total(before),
         byScope |-> [s \in {k[1] : k \in changed} |->
                        MapThenSumSet(LAMBDA k : Amount(after, k) - Amount(before, k),
                                      {k \in changed : k[1] = s})]]

Init ==
    /\ sales \in [Keys -> 0..MaxSales]
    /\ changes = 0
    /\ generations = << >>
    /\ pointer = [active |-> None, previous |-> None, revision |-> 0]
    /\ op = [p \in Operators |-> Idle]
    /\ trail = <<None>>

-----------------------------------------------------------------------------
(* The capture.                                                            *)

\* capture_shadow opens its repeatable-read transaction: every read of the
\* capture sees the sales of this moment.
Begin(p, scopes, baseline) ==
    /\ op[p] = Idle
    /\ scopes # {}
    /\ baseline \in {None} \union DOMAIN generations
    /\ op' = [op EXCEPT ![p] = [at |-> "reading", scopes |-> scopes,
                                baseline |-> baseline, snapshot |-> sales]]
    /\ UNCHANGED <<sales, changes, generations, pointer, trail>>

\* _baseline_legacy_rows: a baseline has the same scopes.
SameScope(scopes, baseline) ==
    baseline # None => generations[baseline].scopes = scopes

\* The rest of capture_shadow: both candidates, the rows they would replace
\* and the two reported differences.
Capture(p) ==
    /\ op[p].at = "reading"
    /\ LET o == op[p]
           legacy == Rows("legacy", o.snapshot, o.scopes)
           effective == Rows("effective", o.snapshot, o.scopes)
       IN  op' = [op EXCEPT ![p] =
             IF ~SameScope(o.scopes, o.baseline) THEN Idle
             ELSE [at |-> "captured", scopes |-> o.scopes, baseline |-> o.baseline,
                   source |-> o.snapshot, legacy |-> legacy, effective |-> effective,
                   fiscal |-> Delta(legacy, effective),
                   drift |-> IF o.baseline = None THEN << >>
                             ELSE <<Delta(generations[o.baseline].legacy, legacy)>>]]
    /\ UNCHANGED <<sales, changes, generations, pointer, trail>>

\* stage_shadow_capture: the generation, its rows and its seal are one
\* transaction.
Stage(p) ==
    /\ op[p].at = "captured"
    /\ Len(generations) < MaxGenerations
    /\ generations' = Append(generations,
         [state |-> "staged", scopes |-> op[p].scopes, baseline |-> op[p].baseline,
          source |-> op[p].source, legacy |-> op[p].legacy,
          effective |-> op[p].effective, fiscal |-> op[p].fiscal, drift |-> op[p].drift])
    /\ op' = [op EXCEPT ![p] = Idle]
    /\ UNCHANGED <<sales, changes, pointer, trail>>

-----------------------------------------------------------------------------
(* The pointer.                                                            *)

\* The operator reads the pointer and names its revision on the command line.
Look(p, g) ==
    /\ op[p] = Idle
    /\ g \in {None} \union DOMAIN generations
    /\ op' = [op EXCEPT ![p] = [at |-> IF g = None THEN "rollback" ELSE "promote",
                                generation |-> g, seen |-> pointer]]
    /\ UNCHANGED <<sales, changes, generations, pointer, trail>>

\* The transitions guard_store_pnl_shadow_evidence_mutation lets through.
Allowed(from, to) ==
    <<from, to>> \in {<<"staged", "promoted">>, <<"promoted", "superseded">>,
                      <<"superseded", "promoted">>, <<"promoted", "rolled_back">>}

\* The compare-and-swap of the pointer and the states that go with it, or the
\* exception that undoes all of it.
Move(p, active, previous, states) ==
    IF \/ op[p].seen.revision # pointer.revision
       \/ \E g \in DOMAIN states : ~Allowed(generations[g].state, states[g])
    THEN UNCHANGED <<generations, pointer, trail>>
    ELSE /\ pointer' = [active |-> active, previous |-> previous,
                        revision |-> pointer.revision + 1]
         /\ generations' = [g \in DOMAIN generations |->
                              IF g \in DOMAIN states
                              THEN [generations[g] EXCEPT !.state = states[g]]
                              ELSE generations[g]]
         /\ trail' = Append(trail, active)

\* promote_store_pnl_shadow_generation: only a sealed staged generation.
PromotePointer(p) ==
    IF generations[op[p].generation].state # "staged"
    THEN UNCHANGED <<generations, pointer, trail>>
    ELSE Move(p, op[p].generation, pointer.active,
              [g \in {op[p].generation, pointer.active} \ {None} |->
                 IF g = op[p].generation THEN "promoted" ELSE "superseded"])

\* promote_shadow_generation: the function in a transaction, and any refusal
\* reported.
Promote(p) ==
    /\ op[p].at = "promote"
    /\ pointer.revision < MaxRevisions
    /\ PromotePointer(p)
    /\ op' = [op EXCEPT ![p] = Idle]
    /\ UNCHANGED <<sales, changes>>

\* rollback_store_pnl_shadow_pointer: needs a predecessor and leaves none.
RollbackPointer(p) ==
    IF pointer.active = None \/ pointer.previous = None
    THEN UNCHANGED <<generations, pointer, trail>>
    ELSE Move(p, pointer.previous, None,
              [g \in {pointer.active, pointer.previous} |->
                 IF g = pointer.active THEN "rolled_back" ELSE "promoted"])

\* rollback_shadow_pointer.
Rollback(p) ==
    /\ op[p].at = "rollback"
    /\ pointer.revision < MaxRevisions
    /\ RollbackPointer(p)
    /\ op' = [op EXCEPT ![p] = Idle]
    /\ UNCHANGED <<sales, changes>>

\* A sales import changes what the estimator reads.
ChangeSales(k, n) ==
    /\ changes < MaxChanges
    /\ n # sales[k]
    /\ sales' = [sales EXCEPT ![k] = n]
    /\ changes' = changes + 1
    /\ UNCHANGED <<generations, pointer, op, trail>>

\* The operator ends without staging, or its connection is lost: an open
\* transaction leaves nothing.
GiveUp(p) ==
    /\ op[p].at \in {"reading", "captured"}
    /\ op' = [op EXCEPT ![p] = Idle]
    /\ UNCHANGED <<sales, changes, generations, pointer, trail>>

Next ==
    \/ \E p \in Operators :
         \/ \E scopes \in SUBSET Scopes, b \in {None} \union DOMAIN generations :
               Begin(p, scopes, b)
         \/ Capture(p)
         \/ Stage(p)
         \/ \E g \in {None} \union DOMAIN generations : Look(p, g)
         \/ Promote(p)
         \/ Rollback(p)
         \/ GiveUp(p)
    \/ \E k \in Keys, n \in 0..MaxSales : ChangeSales(k, n)

Spec == Init /\ [][Next]_vars

-----------------------------------------------------------------------------
States == {"staged", "promoted", "superseded", "rolled_back"}

(* Type invariant: the pointer names generations that exist and its        *)
(* revision counts its moves.                                              *)
TypeOK ==
    /\ sales \in [Keys -> 0..MaxSales]
    /\ \A g \in DOMAIN generations : generations[g].state \in States
    /\ pointer.active \in {None} \union DOMAIN generations
    /\ pointer.previous \in {None} \union DOMAIN generations
    /\ pointer.revision = Len(trail) - 1
    /\ \A p \in Operators :
         op[p].at \in {"idle", "reading", "captured", "promote", "rollback"}

(* The generation the pointer names is the one generation in state         *)
(* promoted, and the one a rollback would return to is superseded, so the  *)
(* trigger never refuses a rollback the pointer allows.                    *)
ActiveIsPromoted ==
    /\ {g \in DOMAIN generations : generations[g].state = "promoted"}
         = {pointer.active} \ {None}
    /\ pointer.previous # None => generations[pointer.previous].state = "superseded"

(* The pointer moves only for an operator who saw the pointer it replaces: *)
(* the revision alone identifies it, whatever other operators did between. *)
MovesWhatWasSeen ==
    pointer' # pointer =>
       \E p \in Operators : op[p].at \in {"promote", "rollback"}
                             /\ op'[p] = Idle /\ op[p].seen = pointer

(* The drift a generation reports is measured against a generation of the  *)
(* same scopes: it accounts for every change of its legacy candidate, scope *)
(* by scope.                                                               *)
DriftIsComparable ==
    \A g \in DOMAIN generations :
        LET e == generations[g] IN
        e.baseline # None =>
            /\ generations[e.baseline].scopes = e.scopes
            /\ \A s \in Scopes :
                 LET Of(rows) == MapThenSumSet(LAMBDA k : rows[k], {k \in DOMAIN rows : k[1] = s})
                     base == generations[e.baseline].legacy
                     said == IF s \in DOMAIN e.drift[1].byScope THEN e.drift[1].byScope[s] ELSE 0
                 IN  Of(e.legacy) = Of(base) + said
=============================================================================
