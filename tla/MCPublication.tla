--------------------------- MODULE MCPublication ---------------------------
(* The components that publish generations of data, for TLC: sales,          *)
(* promotions, campaigns, the store P&L, its shadow and the forecasts. They  *)
(* share no state here, so a behaviour is one of a single component, chosen  *)
(* in the initial state; the variables of the others are off.                *)
EXTENDS Integers, Sequences, FiniteSets, TLC

CONSTANTS Legacy, FromV1, Own, file1, file2

\* Reports of a promotion: an early and a late one, and one of both promotions.
TouchedBy == [r \in {"early", "late", "wide"} |-> IF r = "wide" THEN {"p1", "p2"} ELSE {"p1"}]
DatedBy == [r \in {"early", "late", "wide"} |-> IF r = "early" THEN 1 ELSE IF r = "wide" THEN 2 ELSE 3]

\* A workbook with one store, and a corrected one with both.
PartAndWhole == {[x |-> 1, y |-> 0], [x |-> 2, y |-> 2]}

Sure(s) == [site |-> s, confidence |-> "confirmed", operating |-> TRUE]
Shut(s) == [site |-> s, confidence |-> "confirmed", operating |-> FALSE]
Doubt(s) == [site |-> s, confidence |-> "unknown", operating |-> TRUE]

\* c2 and c3 are the cohorts of two months; d3 a later one of the second month
\* with another store; u2 has a store without authority.
CohortOf ==
  [c2 |-> [source |-> 1, target |-> 2, rows |-> {Sure("a"), Shut("b")}],
   c3 |-> [source |-> 1, target |-> 3, rows |-> {Sure("a"), Shut("b")}],
   d3 |-> [source |-> 2, target |-> 3, rows |-> {Sure("b")}],
   u2 |-> [source |-> 1, target |-> 2, rows |-> {Sure("a"), Doubt("b")}]]

Lin(s, h) == [snapshot |-> s, hash |-> h, expected |-> 1, model |-> 1, fallback |-> 0, mode |-> "fail_closed"]

Row(m, s, src) == [month |-> m, site |-> s, source |-> src, method |-> "model", value |-> 1]

File(hor, anchor, rows, lin) ==
  [horizon |-> hor, anchor |-> anchor, variant |-> "v", rows |-> rows, lineage |-> lin]

Two(h) == File("rolling_12m", 1, <<Row(2, "a", 1), Row(3, "a", 1)>>, (2 :> Lin("c2", h)) @@ (3 :> Lin("c3", h)))

Cur(s, h, row) == File("current_month", 0, <<row>>, row.month :> Lin(s, h))

\* Rolling files, a next anchor, forecasts of the current month, a wrong store
\* and a store without authority.
ForecastFiles ==
  {Two("h1"), Two("h2"), File("rolling_12m", 2, <<Row(3, "b", 2)>>, 3 :> Lin("d3", "h1")),
   Cur("c2", "h1", Row(2, "a", 1)), Cur("d3", "h1", Row(3, "b", 2)), Cur("c2", "h1", Row(2, "b", 1)),
   Cur("u2", "h1", Row(2, "a", 1))}

VARIABLES
  part,  \* the component this behaviour belongs to
  snap, head, live, ledger, spool, retained, imp, pro, web, boot, budget, dirs, ptr,
  synced, lock, proc, sales, pointer, campaigns, contests, arq, job, event, delivery,
  trigger, actual, estimated, inputs, heads, gens, reviews, control, events, op,
  scopeLock, undoLock, controlLock, writers, changes, generations, trail, runs,
  nextId, started, faults

allVars == <<part, snap, head, live, ledger, spool, retained, imp, pro, web, boot, budget, dirs, ptr,
    synced, lock, proc, sales, pointer, campaigns, contests, arq, job, event,
    delivery, trigger, actual, estimated, inputs, heads, gens, reviews, control,
    events, op, scopeLock, undoLock, controlLock, writers, changes, generations,
    trail, runs, nextId, started, faults>>

Off == "off"

Sales == INSTANCE SalesGenerations WITH
  Srcs <- {file1, file2},
  MaxSnaps <- 2,
  MaxJobs <- 1,
  MaxCrashes <- 1,
  MaxTimeouts <- 1,
  MaxIOErrors <- 1

SalesJobs == INSTANCE SalesGenerations WITH
  Srcs <- {file1, file2},
  MaxSnaps <- 2,
  MaxJobs <- 2,
  MaxCrashes <- 0,
  MaxTimeouts <- 0,
  MaxIOErrors <- 0

Promo == INSTANCE PromoGenerations WITH
  Importers <- {"i1", "i2"},
  Migrators <- {"m"},
  Reports <- {"early", "wide"},
  Promotions <- {"p1", "p2"},
  Touches <- TouchedBy,
  CutoffOf <- DatedBy,
  Legacy <- Legacy,
  FromV1 <- FromV1,
  Own <- Own,
  Pinned <- FALSE,
  MaxSteps <- 3,
  MaxFaults <- 1

Pinned == INSTANCE PromoGenerations WITH
  Importers <- {"i1", "i2"},
  Migrators <- {},
  Reports <- {"early", "late"},
  Promotions <- {"p1", "p2"},
  Touches <- TouchedBy,
  CutoffOf <- DatedBy,
  Legacy <- Legacy,
  FromV1 <- FromV1,
  Own <- Own,
  Pinned <- TRUE,
  MaxSteps <- 2,
  MaxFaults <- 2

Campaign == INSTANCE CampaignPublication WITH
  Stores <- {"s1", "s2"},
  MaxSales <- 2,
  MaxPromos <- 2,
  MaxFaults <- 1

Actuals == INSTANCE StorePnl WITH
  Finance <- {"f1", "f2"},
  Publishers <- {},
  Legacy <- {},
  Sites <- {"x", "y"},
  Bundles <- PartAndWhole,
  Initial <- [x |-> 0, y |-> 0],
  MaxGenerations <- 2,
  MaxEstimates <- 0,
  MaxInputs <- 1

Estimates == INSTANCE StorePnl WITH
  Finance <- {"f1"},
  Publishers <- {"e1"},
  Legacy <- {"l1"},
  Sites <- {"x", "y"},
  Bundles <- PartAndWhole,
  Initial <- [x |-> 0, y |-> 0],
  MaxGenerations <- 1,
  MaxEstimates <- 1,
  MaxInputs <- 2

Pointer == INSTANCE StorePnlShadow WITH
  Operators <- {"p1", "p2"},
  Scopes <- {1},
  Late <- {1},
  Sites <- {1},
  MaxSales <- 0,
  MaxGenerations <- 3,
  MaxRevisions <- 4,
  MaxChanges <- 0

Evidence == INSTANCE StorePnlShadow WITH
  Operators <- {"p1"},
  Scopes <- {1, 2},
  Late <- {2},
  Sites <- {1},
  MaxSales <- 1,
  MaxGenerations <- 2,
  MaxRevisions <- 0,
  MaxChanges <- 2

Import == INSTANCE ForecastImport WITH
  Importers <- {"p1", "p2"},
  Files <- ForecastFiles,
  Snapshots <- {"c2", "c3", "d3", "u2"},
  Cohort <- CohortOf,
  Months <- {2, 3},
  MaxImports <- 2,
  MaxFaults <- 1

Alone == INSTANCE ForecastImport WITH
  Importers <- {"p1"},
  Files <- ForecastFiles,
  Snapshots <- {"c2", "c3", "d3", "u2"},
  Cohort <- CohortOf,
  Months <- {2, 3},
  MaxImports <- 3,
  MaxFaults <- 1

SalesOff ==
  /\ dirs = Off /\ ptr = Off /\ synced = Off /\ lock = Off /\ proc = Off /\ sales = Off
  /\ pointer = Off /\ campaigns = Off /\ contests = Off /\ arq = Off /\ job = Off
  /\ event = Off /\ delivery = Off /\ trigger = Off /\ actual = Off /\ estimated = Off
  /\ inputs = Off /\ heads = Off /\ gens = Off /\ reviews = Off /\ control = Off
  /\ events = Off /\ op = Off /\ scopeLock = Off /\ undoLock = Off /\ controlLock = Off
  /\ writers = Off /\ changes = Off /\ generations = Off /\ trail = Off /\ runs = Off
  /\ nextId = Off /\ started = Off /\ faults = Off

PromoOff ==
  /\ snap = Off /\ head = Off /\ live = Off /\ ledger = Off /\ spool = Off
  /\ retained = Off /\ imp = Off /\ pro = Off /\ web = Off /\ boot = Off /\ sales = Off
  /\ pointer = Off /\ campaigns = Off /\ contests = Off /\ arq = Off /\ job = Off
  /\ event = Off /\ delivery = Off /\ trigger = Off /\ actual = Off /\ estimated = Off
  /\ inputs = Off /\ heads = Off /\ gens = Off /\ reviews = Off /\ control = Off
  /\ events = Off /\ op = Off /\ scopeLock = Off /\ undoLock = Off /\ controlLock = Off
  /\ writers = Off /\ changes = Off /\ generations = Off /\ trail = Off /\ runs = Off
  /\ nextId = Off /\ started = Off /\ faults = Off

CampaignOff ==
  /\ snap = Off /\ head = Off /\ live = Off /\ ledger = Off /\ spool = Off
  /\ retained = Off /\ imp = Off /\ pro = Off /\ web = Off /\ boot = Off /\ dirs = Off
  /\ ptr = Off /\ synced = Off /\ lock = Off /\ proc = Off /\ actual = Off
  /\ estimated = Off /\ inputs = Off /\ heads = Off /\ gens = Off /\ reviews = Off
  /\ control = Off /\ events = Off /\ op = Off /\ scopeLock = Off /\ undoLock = Off
  /\ controlLock = Off /\ writers = Off /\ changes = Off /\ generations = Off
  /\ trail = Off /\ runs = Off /\ nextId = Off /\ started = Off /\ faults = Off

ActualsOff ==
  /\ snap = Off /\ head = Off /\ live = Off /\ spool = Off /\ retained = Off
  /\ imp = Off /\ pro = Off /\ web = Off /\ boot = Off /\ budget = Off /\ dirs = Off
  /\ ptr = Off /\ synced = Off /\ lock = Off /\ proc = Off /\ sales = Off
  /\ pointer = Off /\ campaigns = Off /\ contests = Off /\ arq = Off /\ job = Off
  /\ event = Off /\ delivery = Off /\ trigger = Off /\ changes = Off
  /\ generations = Off /\ trail = Off /\ runs = Off /\ nextId = Off /\ started = Off
  /\ faults = Off

PointerOff ==
  /\ snap = Off /\ head = Off /\ live = Off /\ ledger = Off /\ spool = Off
  /\ retained = Off /\ imp = Off /\ pro = Off /\ web = Off /\ boot = Off /\ budget = Off
  /\ dirs = Off /\ ptr = Off /\ synced = Off /\ lock = Off /\ proc = Off
  /\ campaigns = Off /\ contests = Off /\ arq = Off /\ job = Off /\ event = Off
  /\ delivery = Off /\ trigger = Off /\ actual = Off /\ estimated = Off /\ inputs = Off
  /\ heads = Off /\ gens = Off /\ reviews = Off /\ control = Off /\ events = Off
  /\ scopeLock = Off /\ undoLock = Off /\ controlLock = Off /\ writers = Off
  /\ runs = Off /\ nextId = Off /\ started = Off /\ faults = Off

ImportOff ==
  /\ head = Off /\ live = Off /\ ledger = Off /\ spool = Off /\ retained = Off
  /\ pro = Off /\ web = Off /\ boot = Off /\ budget = Off /\ dirs = Off /\ ptr = Off
  /\ synced = Off /\ lock = Off /\ proc = Off /\ sales = Off /\ pointer = Off
  /\ campaigns = Off /\ contests = Off /\ arq = Off /\ job = Off /\ event = Off
  /\ delivery = Off /\ trigger = Off /\ actual = Off /\ estimated = Off /\ inputs = Off
  /\ heads = Off /\ gens = Off /\ reviews = Off /\ control = Off /\ events = Off
  /\ op = Off /\ scopeLock = Off /\ undoLock = Off /\ controlLock = Off /\ writers = Off
  /\ changes = Off /\ generations = Off /\ trail = Off

SalesStill == UNCHANGED <<dirs, ptr, synced, lock, proc, sales, pointer, campaigns, contests, arq, job, event,
    delivery, trigger, actual, estimated, inputs, heads, gens, reviews, control,
    events, op, scopeLock, undoLock, controlLock, writers, changes, generations,
    trail, runs, nextId, started, faults>>

PromoStill == UNCHANGED <<snap, head, live, ledger, spool, retained, imp, pro, web, boot, sales, pointer,
    campaigns, contests, arq, job, event, delivery, trigger, actual, estimated,
    inputs, heads, gens, reviews, control, events, op, scopeLock, undoLock,
    controlLock, writers, changes, generations, trail, runs, nextId, started, faults>>

CampaignStill == UNCHANGED <<snap, head, live, ledger, spool, retained, imp, pro, web, boot, dirs, ptr, synced,
    lock, proc, actual, estimated, inputs, heads, gens, reviews, control, events,
    op, scopeLock, undoLock, controlLock, writers, changes, generations, trail,
    runs, nextId, started, faults>>

ActualsStill == UNCHANGED <<snap, head, live, spool, retained, imp, pro, web, boot, budget, dirs, ptr, synced,
    lock, proc, sales, pointer, campaigns, contests, arq, job, event, delivery,
    trigger, changes, generations, trail, runs, nextId, started, faults>>

PointerStill == UNCHANGED <<snap, head, live, ledger, spool, retained, imp, pro, web, boot, budget, dirs, ptr,
    synced, lock, proc, campaigns, contests, arq, job, event, delivery, trigger,
    actual, estimated, inputs, heads, gens, reviews, control, events, scopeLock,
    undoLock, controlLock, writers, runs, nextId, started, faults>>

ImportStill == UNCHANGED <<head, live, ledger, spool, retained, pro, web, boot, budget, dirs, ptr, synced,
    lock, proc, sales, pointer, campaigns, contests, arq, job, event, delivery,
    trigger, actual, estimated, inputs, heads, gens, reviews, control, events, op,
    scopeLock, undoLock, controlLock, writers, changes, generations, trail>>

AreaInit ==
  \/ part = "sales" /\ Sales!Init /\ SalesOff
  \/ part = "sales jobs" /\ SalesJobs!Init /\ SalesOff
  \/ part = "promo" /\ Promo!Init /\ PromoOff
  \/ part = "pinned promo" /\ Pinned!Init /\ PromoOff
  \/ part = "campaign" /\ Campaign!Init /\ CampaignOff
  \/ part = "finance" /\ Actuals!Init /\ ActualsOff
  \/ part = "estimates" /\ Estimates!Init /\ ActualsOff
  \/ part = "shadow pointer" /\ Pointer!Init /\ PointerOff
  \/ part = "shadow evidence" /\ Evidence!Init /\ PointerOff
  \/ part = "forecast import" /\ Import!Init /\ ImportOff
  \/ part = "one importer" /\ Alone!Init /\ ImportOff

AreaNext ==
  \/ part = "sales" /\ Sales!Next /\ UNCHANGED part /\ SalesStill
  \/ part = "sales jobs" /\ SalesJobs!Next /\ UNCHANGED part /\ SalesStill
  \/ part = "promo" /\ Promo!Next /\ UNCHANGED part /\ PromoStill
  \/ part = "pinned promo" /\ Pinned!Next /\ UNCHANGED part /\ PromoStill
  \/ part = "campaign" /\ Campaign!Next /\ UNCHANGED part /\ CampaignStill
  \/ part = "finance" /\ Actuals!Next /\ UNCHANGED part /\ ActualsStill
  \/ part = "estimates" /\ Estimates!Next /\ UNCHANGED part /\ ActualsStill
  \/ part = "shadow pointer" /\ Pointer!Next /\ UNCHANGED part /\ PointerStill
  \/ part = "shadow evidence" /\ Evidence!Next /\ UNCHANGED part /\ PointerStill
  \/ part = "forecast import" /\ Import!Next /\ UNCHANGED part /\ ImportStill
  \/ part = "one importer" /\ Alone!Next /\ UNCHANGED part /\ ImportStill

AreaSpec == AreaInit /\ [][AreaNext]_allVars

-----------------------------------------------------------------------------
\* Every variable of the component at work has its type.
TypesOK ==
  /\ part = "sales" => Sales!TypeOK
  /\ part = "sales jobs" => SalesJobs!TypeOK
  /\ part = "promo" => Promo!TypeOK
  /\ part = "pinned promo" => Pinned!TypeOK
  /\ part = "campaign" => Campaign!TypeOK
  /\ part = "finance" => Actuals!TypeOK
  /\ part = "estimates" => Estimates!TypeOK
  /\ part = "shadow pointer" => Pointer!TypeOK
  /\ part = "shadow evidence" => Evidence!TypeOK
  /\ part = "forecast import" => Import!TypeOK
  /\ part = "one importer" => Alone!TypeOK

\* What readers are pointed to is complete and from one source, whoever crashes, loses
\* power or publishes in between: the promo pointer names a whole generation, every
\* campaign row the promo generation it was evaluated with, campaign and contest heads
\* the same sales; a forecast run covers its cohort, and a file of several months is
\* readable whole or not at all.
PublishedIsWhole ==
  /\ part = "promo" => Promo!PointerIsWhole
  /\ part = "campaign" => Campaign!RowsNameTheirSource /\ Campaign!HeadsAgree
  /\ part = "forecast import" => Import!RunsCoverTheirCohort /\ Import!WholeFiles

\* A head is what its ledger says: the sales head, the live rows and the ledger are
\* one chain; the P&L head is the last promotion not undone; the shadow pointer names
\* a promoted generation; a receipt names revisions of its own sales generation; and a
\* month has one forecast lineage while imports run one at a time.
HeadsFollowTheLedger ==
  /\ part = "sales jobs" => SalesJobs!HeadFollowsLedger
  /\ part = "finance" => Actuals!HeadIsLastPromotion
  /\ part = "shadow pointer" => Pointer!ActiveIsPromoted
  /\ part = "campaign" => Campaign!ReceiptIsTrue
  /\ part = "one importer" => Alone!OneLineage

\* The way back is never lost: the exact source of every sales generation that was
\* live is kept, a repeated promo publication does not name itself as its predecessor,
\* a P&L preimage is what the promotion replaced and a rollback undoes the last
\* promotion, and drift is measured against a comparable generation.
WayBackKept ==
  /\ part = "sales" => Sales!PublishedSourceKept
  /\ part = "pinned promo" => Pinned!RetryKeepsPrevious
  /\ part = "finance" => Actuals!PreimageIsWhatWasReplaced /\ Actuals!RollbackUndoesLast
  /\ part = "shadow evidence" => Evidence!DriftIsComparable

\* A publication builds on what its author saw, although it was prepared outside the
\* lock: a promo generation extends the one it replaces, a campaign publishes the
\* sales head, estimates come from current inputs and neither they nor their rollback
\* discard rows unseen, and the shadow pointer moves from the revision that was read.
BuildsOnWhatWasSeen ==
  [][
     /\ part = "promo" => Promo!BuildsOnPrevious
     /\ part = "campaign" => Campaign!PublishesTheHead
     /\ part = "estimates" =>
          /\ Estimates!PublishedFromCurrentInputs
          /\ Estimates!NothingDiscardedUnseen
     /\ part = "shadow pointer" => Pointer!MovesWhatWasSeen
    ]_allVars

\* What readers are shown never goes back: neither a promotion's cutoff, nor the
\* forecast run of a month, nor the anchor of the rolling forecast, in whatever order
\* the imports commit.
NeverGoesBack ==
  [][
     /\ part = "promo" => Promo!CutoffNeverRegresses
     /\ part = "forecast import" => Import!ShownMovesForward /\ Import!AnchorKept
    ]_allVars

=============================================================================
