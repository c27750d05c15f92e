-------------------------- MODULE TargetScenarios ---------------------------
(***************************************************************************)
(* The scenario of one target month, from the calculated draft over the    *)
(* managers' edits to the published targets                                *)
(* (services/target_calculator, repositories/target_calculator_scenarios). *)
(*                                                                         *)
(* A request is several transactions: it reads the header and the rows of  *)
(* the scenario one after the other, checks what it read, and then writes  *)
(* under a lock on the header, if the revision the user saw is still the   *)
(* current one.  Users work at the same time.                              *)
(*                                                                         *)
(* Amounts in the tables are whole cents; amounts a user sends may be      *)
(* finer and are in units, Unit of which make a cent.                      *)
(***************************************************************************)
EXTENDS Integers, Sequences, FiniteSets, FiniteSetsExt, Functions

CONSTANTS Clients,      \* users of the calculator
          Sites,        \* stores
          Inputs,       \* amounts a manager may send, in units
          Totals,       \* budgets, in cents
          Unit,         \* units in a cent
          MaxRevision   \* bound on the revisions of the scenario

Pending == -1    \* final_target or manager_override_target IS NULL

VARIABLES scenario,   \* the header: revision 0 stands for no scenario yet
          rows,       \* target_scenario_rows, by site
          published,  \* store_targets of the month, by site
          view,       \* what each user's page shows
          op          \* the request each user is waiting for

vars == <<scenario, rows, published, view, op>>

Row == [proposed : Nat, final : Nat \union {Pending}, override : Nat \union {Pending}, reason : BOOLEAN]

NoScenario == [revision |-> 0, status |-> "draft", total |-> 0, method |-> "ruleset"]
NoRows == <<>>
Idle == [pc |-> "idle", kind |-> "show", expected |-> 0, total |-> 0, edits |-> <<>>,
         reason |-> FALSE, head |-> NoScenario]

\* money(): half a cent is rounded up; NUMERIC(12, 2) does the same.
ToCents(units) == (2 * units + Unit) \div (2 * Unit)
Stored(units) == IF units = Pending THEN Pending ELSE ToCents(units)

SumOf(S, value(_)) == FoldSet(LAMBDA s, acc : acc + value(s), 0, S)
FinalTotal(table) ==
    SumOf({s \in DOMAIN table : table[s].final # Pending}, LAMBDA s : table[s].final)

\* The proposals a calculation may come to (module TargetAllocation): they meet the budget.
Proposals(total) ==
    {p \in UNION {[S -> 0 .. total] : S \in SUBSET Sites \ {{}}} :
        SumOf(DOMAIN p, LAMBDA s : p[s]) = total}

Goes(c, pc) == op' = [op EXCEPT ![c].pc = pc, ![c].head = NoScenario]
Ends(c) == op' = [op EXCEPT ![c] = Idle]
\* The response to a change is the scenario, read again.
Shows(c) == op' = [op EXCEPT ![c] = [Idle EXCEPT !.pc = "head"]]

-----------------------------------------------------------------------------
(* get_scenario_detail: the header, then the rows, each on a connection of its own *)

\* GET /scenarios/{id}
Open(c) ==
    /\ op[c].pc = "idle"
    /\ Shows(c)
    /\ UNCHANGED <<scenario, rows, published, view>>

\* A scenario that does not exist is 404.
GetScenario(c) ==
    /\ op[c].pc = "head"
    /\ op' = [op EXCEPT ![c] = IF scenario.revision = 0 THEN Idle
                               ELSE [@ EXCEPT !.pc = "rows", !.head = scenario]]
    /\ UNCHANGED <<scenario, rows, published, view>>

GetScenarioRows(c) ==
    /\ op[c].pc = "rows"
    /\ op[c].kind = "show"
    /\ view' = [view EXCEPT ![c] = [head |-> op[c].head, rows |-> rows]]
    /\ Ends(c)
    /\ UNCHANGED <<scenario, rows, published>>

-----------------------------------------------------------------------------
(* POST /scenarios/calculate *)

\* calculate_proposal up to the allocation: the proposal comes from what it reads now.
Calculate(c) ==
    /\ op[c].pc = "idle"
    /\ scenario.revision < MaxRevision \/ scenario.status = "finalized"
    /\ \E total \in Totals : \E p \in Proposals(total) :
          op' = [op EXCEPT ![c] = [Idle EXCEPT !.pc = "draft", !.total = total,
                                               !.expected = view[c].head.revision, !.edits = p]]
    /\ UNCHANGED <<scenario, rows, published, view>>

\* _update_existing_draft
UpdateExistingDraft(c) ==
    /\ scenario.status = "draft"
    /\ scenario.method = "ruleset"
    /\ op[c].expected = scenario.revision
    /\ scenario' = [scenario EXCEPT !.revision = @ + 1, !.total = op[c].total]

\* _insert_draft: the user must not have seen a scenario.
InsertDraft(c) ==
    /\ op[c].expected = 0
    /\ scenario' = [NoScenario EXCEPT !.revision = 1, !.total = op[c].total]

\* _replace_scenario_rows: the edits of the managers go with the old rows.
ReplaceScenarioRows(c) ==
    rows' = [s \in DOMAIN op[c].edits |->
                [proposed |-> op[c].edits[s], final |-> Pending, override |-> Pending, reason |-> FALSE]]

\* save_draft_scenario
SaveDraftScenario(c) ==
    /\ op[c].pc = "draft"
    /\ IF scenario.revision = 0 THEN InsertDraft(c) ELSE UpdateExistingDraft(c)
    /\ ReplaceScenarioRows(c)
    /\ Shows(c)
    /\ UNCHANGED <<published, view>>

\* The three conflicts of a calculation: 409.
DraftRefused(c) ==
    /\ op[c].pc = "draft"
    /\ IF scenario.revision = 0 THEN op[c].expected # 0
       ELSE \/ scenario.status # "draft"
            \/ scenario.method # "ruleset"
            \/ op[c].expected # scenario.revision
    /\ Ends(c)
    /\ UNCHANGED <<scenario, rows, published, view>>

-----------------------------------------------------------------------------
(* PATCH /scenarios/{id}/rows *)

\* A manager sends final targets for some of the stores on the page, with a reason or not.
Save(c) ==
    /\ op[c].pc = "idle"
    /\ view[c].head.revision > 0
    /\ scenario.revision < MaxRevision \/ scenario.status = "finalized"
    /\ \E S \in SUBSET DOMAIN view[c].rows \ {{}}, reason \in BOOLEAN :
          \E edits \in [S -> Inputs] :
              op' = [op EXCEPT ![c] = [Idle EXCEPT !.pc = "head", !.kind = "save", !.reason = reason,
                                           !.expected = view[c].head.revision, !.edits = edits]]
    /\ UNCHANGED <<scenario, rows, published, view>>

\* The explicit reason of an override, checked against the rows just read.
ReasonGiven(c, table) ==
    op[c].reason \/ \A s \in DOMAIN op[c].edits \intersect DOMAIN table :
        op[c].edits[s] # Pending => ToCents(op[c].edits[s]) = table[s].proposed

\* save_final_targets before the update
CheckReasons(c) ==
    /\ op[c].pc = "rows"
    /\ op[c].kind = "save"
    /\ IF ReasonGiven(c, rows) THEN Goes(c, "update") ELSE Ends(c)
    /\ UNCHANGED <<scenario, rows, published, view>>

\* The conditions of update_final_targets.
Editable(c) == scenario.status = "draft" /\ scenario.revision = op[c].expected

\* IS DISTINCT FROM is evaluated on the amount as it was sent.
Distinct(units, proposed) == units # proposed * Unit

\* The UPDATE of one row.
Edited(row, units, reason) ==
    [row EXCEPT !.final = Stored(units),
                !.override = IF Distinct(units, row.proposed) THEN Stored(units) ELSE Pending,
                !.reason = Distinct(units, row.proposed) /\ reason]

\* update_final_targets
UpdateFinalTargets(c) ==
    /\ op[c].pc = "update"
    /\ Editable(c)
    /\ DOMAIN op[c].edits \subseteq DOMAIN rows
    /\ rows' = [s \in DOMAIN rows |->
                   IF s \in DOMAIN op[c].edits THEN Edited(rows[s], op[c].edits[s], op[c].reason)
                   ELSE rows[s]]
    /\ scenario' = [scenario EXCEPT !.revision = @ + 1]
    /\ Shows(c)
    /\ UNCHANGED <<published, view>>

\* Conflict, finalized, or a store of another cohort.
UpdateRefused(c) ==
    /\ op[c].pc = "update"
    /\ ~Editable(c) \/ ~(DOMAIN op[c].edits \subseteq DOMAIN rows)
    /\ Ends(c)
    /\ UNCHANGED <<scenario, rows, published, view>>

-----------------------------------------------------------------------------
(* POST /scenarios/{id}/finalize *)

Finalize(c) ==
    /\ op[c].pc = "idle"
    /\ view[c].head.revision > 0
    /\ op' = [op EXCEPT ![c] = [Idle EXCEPT !.pc = "head", !.kind = "finalize",
                                            !.expected = view[c].head.revision]]
    /\ UNCHANGED <<scenario, rows, published, view>>

\* finalization_error, on a header and rows that were read one after the other
FinalizationError(head, table) ==
    \/ head.method # "ruleset"
    \/ \E s \in DOMAIN table : table[s].final = Pending
    \/ FinalTotal(table) # head.total

CheckFinalization(c) ==
    /\ op[c].pc = "rows"
    /\ op[c].kind = "finalize"
    /\ IF FinalizationError(op[c].head, rows) THEN Ends(c) ELSE Goes(c, "publish")
    /\ UNCHANGED <<scenario, rows, published, view>>

\* The conditions of finalize_scenario.
Finalizable(c) ==
    /\ scenario.status = "draft"
    /\ scenario.revision = op[c].expected
    /\ \A s \in DOMAIN rows : rows[s].final # Pending
    /\ FinalTotal(rows) = scenario.total

\* The DELETE and the INSERT ... ON CONFLICT of finalize_scenario.
PublishTargets ==
    published' = [s \in DOMAIN rows |-> [value |-> rows[s].final, source |-> "calculator"]]

\* finalize_scenario
FinalizeScenario(c) ==
    /\ op[c].pc = "publish"
    /\ Finalizable(c)
    /\ PublishTargets
    /\ scenario' = [scenario EXCEPT !.status = "finalized", !.revision = @ + 1]
    /\ Shows(c)
    /\ UNCHANGED <<rows, view>>

FinalizeRefused(c) ==
    /\ op[c].pc = "publish"
    /\ ~Finalizable(c)
    /\ Ends(c)
    /\ UNCHANGED <<scenario, rows, published, view>>

\* StoresService.save_targets: a target of the month written past the calculator (bound:
\* one such target at a time).
UpsertStoreTargets ==
    /\ \A s \in DOMAIN published : published[s].source # "manual"
    /\ \E s \in Sites, total \in Totals :
          published' = [t \in DOMAIN published \union {s} |->
                           IF t = s THEN [value |-> total, source |-> "manual"] ELSE published[t]]
    /\ UNCHANGED <<scenario, rows, view, op>>

-----------------------------------------------------------------------------

\* No scenario, or a draft of an older formula.
Init ==
    /\ \/ scenario = NoScenario /\ rows = NoRows
       \/ /\ \E total \in Totals :
               scenario = [revision |-> 1, status |-> "draft", total |-> total, method |-> "older"]
          /\ rows \in {[s \in Sites |-> [proposed |-> p[s], final |-> p[s], override |-> Pending, reason |-> FALSE]] :
                          p \in Proposals(scenario.total) \intersect [Sites -> Nat]}
    /\ published = <<>>
    /\ view = [c \in Clients |-> [head |-> NoScenario, rows |-> NoRows]]
    /\ op = [c \in Clients |-> Idle]

Next ==
    \/ \E c \in Clients :
          \/ Open(c) \/ GetScenario(c) \/ GetScenarioRows(c)
          \/ Calculate(c) \/ SaveDraftScenario(c) \/ DraftRefused(c)
          \/ Save(c) \/ CheckReasons(c) \/ UpdateFinalTargets(c) \/ UpdateRefused(c)
          \/ Finalize(c) \/ CheckFinalization(c) \/ FinalizeScenario(c) \/ FinalizeRefused(c)
    \/ UpsertStoreTargets

Spec == Init /\ [][Next]_vars

-----------------------------------------------------------------------------
(* Properties *)

\* Every table and request holds what the code can put into it.
TypeOK ==
    /\ scenario \in [revision : 0 .. MaxRevision + 2, status : {"draft", "finalized"},
                     total : Totals \union {0}, method : {"ruleset", "older"}]
    /\ DOMAIN rows \subseteq Sites
    /\ \A s \in DOMAIN rows : rows[s] \in Row /\ rows[s].override \in {Pending, rows[s].final}
    /\ DOMAIN published \subseteq Sites
    /\ \A c \in Clients : op[c].pc \in {"idle", "head", "rows", "draft", "update", "publish"}

\* Whoever changes the scenario has seen all of it as it is: a page whose header and rows
\* come from different revisions never gets its change accepted, and no user overwrites
\* or publishes an edit that their page did not show.
ChangesBuildOnWhatWasSeen ==
    \A c \in Clients :
       scenario' # scenario /\ op'[c] # op[c] /\ scenario.revision > 0
       => view[c].rows = rows /\ view[c].head = scenario

\* A stored final target that differs from the proposal has a reason, although the reason
\* is asked for on the strength of rows read before the transaction that stores it.
DifferencesHaveReasons ==
    scenario.method = "ruleset" =>
        \A s \in DOMAIN rows :
            rows[s].final # Pending /\ rows[s].final # rows[s].proposed => rows[s].reason

\* The published targets of a finalized month are the final targets its managers agreed
\* on, store for store, and add up to the budget, except where someone has written a
\* target past the calculator.
PublishedIsAgreed ==
    scenario.status = "finalized" =>
        /\ FinalTotal(rows) = scenario.total
        /\ \A s \in DOMAIN rows :
              s \in DOMAIN published /\ (\/ published[s].source = "manual"
                                         \/ published[s].value = rows[s].final)
        /\ \A s \in DOMAIN published \ DOMAIN rows : published[s].source = "manual"

\* What the calculator publishes replaces every target of the month.
PublishingReplacesAll ==
    scenario.status = "draft" /\ scenario'.status = "finalized"
    => \A s \in DOMAIN published' : published'[s].source = "calculator"

\* A finalized scenario is never edited, recalculated or finalized again.
FinalizedIsFinal ==
    scenario.status = "finalized" => scenario' = scenario /\ rows' = rows
=============================================================================
