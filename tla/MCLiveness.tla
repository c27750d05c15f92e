----------------------------- MODULE MCLiveness -----------------------------
(* Progress of the components that crash, wait, retry and compete, for TLC,  *)
(* on small instances. A behaviour is one of a single component, chosen in   *)
(* the initial state; the variables of the others are off.                   *)
EXTENDS Integers, Sequences, FiniteSets

CONSTANTS Legacy, FromV1, Own, NoSite, file1

TouchedBy == [r \in {"early", "late"} |-> {"p1"}]
DatedBy == [r \in {"early", "late"} |-> IF r = "early" THEN 1 ELSE 2]

PartAndWhole == {[x |-> 1, y |-> 0], [x |-> 2, y |-> 2]}

MigrationClass == [m086 |-> "maint", m087 |-> "cic", m088 |-> "online"]

\* The database before the concurrent index.
Databases ==
  {[ledger |-> [m086 |-> "ok", m087 |-> "absent", m088 |-> "absent"],
    object |-> [m086 |-> "none", m087 |-> "none", m088 |-> "none"], schema |-> TRUE, roles |-> TRUE]}

Worker == <<"w1", "w2">>

VARIABLES
  part,  \* the component this behaviour belongs to
  snap, head, live, ledger, spool, retained, imp, pro, web, boot, budget, dirs, ptr,
  synced, lock, proc, sales, pointer, campaigns, contests, arq, job, event, delivery,
  trigger, actual, estimated, inputs, heads, gens, reviews, control, events, op,
  scopeLock, undoLock, controlLock, writers, item, archive, sheet, main, task, rec,
  failClosed, runs, rtasks, refreshes, ftasks, queue, next, current, seen, record,
  flow, cb, req, closing, idp, seals, spent, ended, faults, published, gone, cache,
  outcome, failed, unknownAt, call, flight, query, batch, local, slots, conns,
  returning, failures, ran, object, schema, roles

allVars == <<part, snap, head, live, ledger, spool, retained, imp, pro, web, boot, budget, dirs, ptr,
    synced, lock, proc, sales, pointer, campaigns, contests, arq, job, event,
    delivery, trigger, actual, estimated, inputs, heads, gens, reviews, control,
    events, op, scopeLock, undoLock, controlLock, writers, item, archive, sheet,
    main, task, rec, failClosed, runs, rtasks, refreshes, ftasks, queue, next,
    current, seen, record, flow, cb, req, closing, idp, seals, spent, ended, faults,
    published, gone, cache, outcome, failed, unknownAt, call, flight, query, batch,
    local, slots, conns, returning, failures, ran, object, schema, roles>>

Off == "off"

Sales == INSTANCE SalesGenerations WITH
  Srcs <- {file1},
  MaxSnaps <- 2,
  MaxJobs <- 1,
  MaxCrashes <- 1,
  MaxTimeouts <- 0,
  MaxIOErrors <- 1

Promo == INSTANCE PromoGenerations WITH
  Importers <- {"w1"},
  Migrators <- {"w2"},
  Reports <- {"early", "late"},
  Promotions <- {"p1", "p2"},
  Touches <- TouchedBy,
  CutoffOf <- DatedBy,
  Legacy <- Legacy,
  FromV1 <- FromV1,
  Own <- Own,
  Pinned <- FALSE,
  MaxSteps <- 3,
  MaxFaults <- 1

Campaign == INSTANCE CampaignPublication WITH
  Stores <- {"s1"},
  MaxSales <- 2,
  MaxPromos <- 1,
  MaxFaults <- 1

Pnl == INSTANCE StorePnl WITH
  Finance <- {"w1"},
  Publishers <- {"w2"},
  Legacy <- {},
  Sites <- {"x", "y"},
  Bundles <- PartAndWhole,
  Initial <- [x |-> 0, y |-> 0],
  MaxGenerations <- 1,
  MaxEstimates <- 1,
  MaxInputs <- 1

Reset == INSTANCE GrileMonthly WITH
  NumSites <- 1,
  MaxOps <- 1,
  MaxFaults <- 1,
  MaxCancels <- 0,
  MaxLapses <- 1,
  MaxCrashes <- 1

Check == INSTANCE GrileRuns WITH
  Sites <- {"s1"},
  NoSite <- NoSite,
  MaxRuns <- 1,
  MaxRefreshes <- 1,
  MaxEdits <- 0,
  MaxLapses <- 1,
  MaxCancels <- 0,
  MaxCrashes <- 1

Sess == INSTANCE Sessions WITH
  Procs <- {"p1", "p2"},
  Reqs <- {"w1", "w2"},
  ProcOf <- [w \in {"w1", "w2"} |-> IF w = "w1" THEN "p1" ELSE "p2"],
  Logouts <- {},
  Callbacks <- {"c1"},
  Rotates <- {TRUE},
  MaxSeals <- 2,
  MaxFaults <- 1

Keys == INSTANCE KeyCache WITH
  Requests <- {"w1"},
  Probes <- {"w2"},
  Kids <- {"k1"},
  TTL <- 1,
  MaxStale <- 1,
  RetryAfter <- 1,
  Cooldown <- 1,
  MaxFlight <- 0

Dash == INSTANCE Dashboard WITH
  Requests <- {"w1", "w2"},
  Queries <- {"q1"},
  History <- {"w2"},
  Base <- {"a"},
  BatchLimit <- 1,
  LocalLimit <- 2,
  GlobalLimit <- 1,
  PoolSize <- 1,
  MaxFailures <- 1

Mig == INSTANCE Migrations WITH
  Procs <- {"w1", "w2"},
  Order <- <<"m086", "m087", "m088">>,
  Class <- MigrationClass,
  Through <- 0,
  Replay <- {},
  Tombstone <- [m \in {} |-> m],
  Cutover <- {},
  Releases <- {2},
  Modes <- {"migrate"},
  Starts <- Databases,
  MaxFaults <- 2

SalesOff ==
  /\ dirs = Off /\ ptr = Off /\ synced = Off /\ lock = Off /\ proc = Off /\ sales = Off
  /\ pointer = Off /\ campaigns = Off /\ contests = Off /\ arq = Off /\ job = Off
  /\ event = Off /\ delivery = Off /\ trigger = Off /\ actual = Off /\ estimated = Off
  /\ inputs = Off /\ heads = Off /\ gens = Off /\ reviews = Off /\ control = Off
  /\ events = Off /\ op = Off /\ scopeLock = Off /\ undoLock = Off /\ controlLock = Off
  /\ writers = Off /\ item = Off /\ archive = Off /\ sheet = Off /\ main = Off
  /\ task = Off /\ rec = Off /\ failClosed = Off /\ runs = Off /\ rtasks = Off
  /\ refreshes = Off /\ ftasks = Off /\ queue = Off /\ next = Off /\ current = Off
  /\ seen = Off /\ record = Off /\ flow = Off /\ cb = Off /\ req = Off /\ closing = Off
  /\ idp = Off /\ seals = Off /\ spent = Off /\ ended = Off /\ faults = Off
  /\ published = Off /\ gone = Off /\ cache = Off /\ outcome = Off /\ failed = Off
  /\ unknownAt = Off /\ call = Off /\ flight = Off /\ query = Off /\ batch = Off
  /\ local = Off /\ slots = Off /\ conns = Off /\ returning = Off /\ failures = Off
  /\ ran = Off /\ object = Off /\ schema = Off /\ roles = Off

PromoOff ==
  /\ snap = Off /\ head = Off /\ live = Off /\ ledger = Off /\ spool = Off
  /\ retained = Off /\ imp = Off /\ pro = Off /\ web = Off /\ boot = Off /\ sales = Off
  /\ pointer = Off /\ campaigns = Off /\ contests = Off /\ arq = Off /\ job = Off
  /\ event = Off /\ delivery = Off /\ trigger = Off /\ actual = Off /\ estimated = Off
  /\ inputs = Off /\ heads = Off /\ gens = Off /\ reviews = Off /\ control = Off
  /\ events = Off /\ op = Off /\ scopeLock = Off /\ undoLock = Off /\ controlLock = Off
  /\ writers = Off /\ item = Off /\ archive = Off /\ sheet = Off /\ main = Off
  /\ task = Off /\ rec = Off /\ failClosed = Off /\ runs = Off /\ rtasks = Off
  /\ refreshes = Off /\ ftasks = Off /\ queue = Off /\ next = Off /\ current = Off
  /\ seen = Off /\ record = Off /\ flow = Off /\ cb = Off /\ req = Off /\ closing = Off
  /\ idp = Off /\ seals = Off /\ spent = Off /\ ended = Off /\ faults = Off
  /\ published = Off /\ gone = Off /\ cache = Off /\ outcome = Off /\ failed = Off
  /\ unknownAt = Off /\ call = Off /\ flight = Off /\ query = Off /\ batch = Off
  /\ local = Off /\ slots = Off /\ conns = Off /\ returning = Off /\ failures = Off
  /\ ran = Off /\ object = Off /\ schema = Off /\ roles = Off

CampaignOff ==
  /\ snap = Off /\ head = Off /\ live = Off /\ ledger = Off /\ spool = Off
  /\ retained = Off /\ imp = Off /\ pro = Off /\ web = Off /\ boot = Off /\ dirs = Off
  /\ ptr = Off /\ synced = Off /\ lock = Off /\ proc = Off /\ actual = Off
  /\ estimated = Off /\ inputs = Off /\ heads = Off /\ gens = Off /\ reviews = Off
  /\ control = Off /\ events = Off /\ op = Off /\ scopeLock = Off /\ undoLock = Off
  /\ controlLock = Off /\ writers = Off /\ item = Off /\ archive = Off /\ sheet = Off
  /\ main = Off /\ task = Off /\ rec = Off /\ failClosed = Off /\ runs = Off
  /\ rtasks = Off /\ refreshes = Off /\ ftasks = Off /\ queue = Off /\ next = Off
  /\ current = Off /\ seen = Off /\ record = Off /\ flow = Off /\ cb = Off /\ req = Off
  /\ closing = Off /\ idp = Off /\ seals = Off /\ spent = Off /\ ended = Off
  /\ faults = Off /\ published = Off /\ gone = Off /\ cache = Off /\ outcome = Off
  /\ failed = Off /\ unknownAt = Off /\ call = Off /\ flight = Off /\ query = Off
  /\ batch = Off /\ local = Off /\ slots = Off /\ conns = Off /\ returning = Off
  /\ failures = Off /\ ran = Off /\ object = Off /\ schema = Off /\ roles = Off

PnlOff ==
  /\ snap = Off /\ head = Off /\ live = Off /\ spool = Off /\ retained = Off
  /\ imp = Off /\ pro = Off /\ web = Off /\ boot = Off /\ budget = Off /\ dirs = Off
  /\ ptr = Off /\ synced = Off /\ lock = Off /\ proc = Off /\ sales = Off
  /\ pointer = Off /\ campaigns = Off /\ contests = Off /\ arq = Off /\ job = Off
  /\ event = Off /\ delivery = Off /\ trigger = Off /\ item = Off /\ archive = Off
  /\ sheet = Off /\ main = Off /\ task = Off /\ rec = Off /\ failClosed = Off
  /\ runs = Off /\ rtasks = Off /\ refreshes = Off /\ ftasks = Off /\ queue = Off
  /\ next = Off /\ current = Off /\ seen = Off /\ record = Off /\ flow = Off /\ cb = Off
  /\ req = Off /\ closing = Off /\ idp = Off /\ seals = Off /\ spent = Off
  /\ ended = Off /\ faults = Off /\ published = Off /\ gone = Off /\ cache = Off
  /\ outcome = Off /\ failed = Off /\ unknownAt = Off /\ call = Off /\ flight = Off
  /\ query = Off /\ batch = Off /\ local = Off /\ slots = Off /\ conns = Off
  /\ returning = Off /\ failures = Off /\ ran = Off /\ object = Off /\ schema = Off
  /\ roles = Off

ResetOff ==
  /\ snap = Off /\ head = Off /\ live = Off /\ ledger = Off /\ spool = Off
  /\ retained = Off /\ imp = Off /\ pro = Off /\ web = Off /\ boot = Off /\ dirs = Off
  /\ ptr = Off /\ synced = Off /\ lock = Off /\ proc = Off /\ sales = Off
  /\ pointer = Off /\ campaigns = Off /\ contests = Off /\ arq = Off /\ event = Off
  /\ delivery = Off /\ trigger = Off /\ actual = Off /\ estimated = Off /\ inputs = Off
  /\ heads = Off /\ gens = Off /\ reviews = Off /\ control = Off /\ events = Off
  /\ scopeLock = Off /\ undoLock = Off /\ controlLock = Off /\ writers = Off
  /\ runs = Off /\ rtasks = Off /\ refreshes = Off /\ ftasks = Off /\ queue = Off
  /\ next = Off /\ current = Off /\ seen = Off /\ record = Off /\ flow = Off /\ cb = Off
  /\ req = Off /\ closing = Off /\ idp = Off /\ seals = Off /\ spent = Off
  /\ ended = Off /\ faults = Off /\ published = Off /\ gone = Off /\ cache = Off
  /\ outcome = Off /\ failed = Off /\ unknownAt = Off /\ call = Off /\ flight = Off
  /\ query = Off /\ batch = Off /\ local = Off /\ slots = Off /\ conns = Off
  /\ returning = Off /\ failures = Off /\ ran = Off /\ object = Off /\ schema = Off
  /\ roles = Off

CheckOff ==
  /\ snap = Off /\ head = Off /\ live = Off /\ ledger = Off /\ spool = Off
  /\ retained = Off /\ imp = Off /\ pro = Off /\ web = Off /\ boot = Off /\ dirs = Off
  /\ ptr = Off /\ synced = Off /\ lock = Off /\ proc = Off /\ sales = Off
  /\ pointer = Off /\ campaigns = Off /\ contests = Off /\ arq = Off /\ job = Off
  /\ event = Off /\ delivery = Off /\ trigger = Off /\ actual = Off /\ estimated = Off
  /\ inputs = Off /\ heads = Off /\ gens = Off /\ reviews = Off /\ control = Off
  /\ events = Off /\ op = Off /\ scopeLock = Off /\ undoLock = Off /\ controlLock = Off
  /\ writers = Off /\ item = Off /\ archive = Off /\ main = Off /\ task = Off
  /\ rec = Off /\ failClosed = Off /\ record = Off /\ flow = Off /\ cb = Off
  /\ req = Off /\ closing = Off /\ idp = Off /\ seals = Off /\ spent = Off
  /\ ended = Off /\ faults = Off /\ published = Off /\ gone = Off /\ cache = Off
  /\ outcome = Off /\ failed = Off /\ unknownAt = Off /\ call = Off /\ flight = Off
  /\ query = Off /\ batch = Off /\ local = Off /\ slots = Off /\ conns = Off
  /\ returning = Off /\ failures = Off /\ ran = Off /\ object = Off /\ schema = Off
  /\ roles = Off

SessOff ==
  /\ snap = Off /\ head = Off /\ live = Off /\ ledger = Off /\ spool = Off
  /\ retained = Off /\ imp = Off /\ pro = Off /\ web = Off /\ boot = Off /\ budget = Off
  /\ dirs = Off /\ ptr = Off /\ synced = Off /\ proc = Off /\ sales = Off
  /\ pointer = Off /\ campaigns = Off /\ contests = Off /\ arq = Off /\ job = Off
  /\ event = Off /\ delivery = Off /\ trigger = Off /\ actual = Off /\ estimated = Off
  /\ inputs = Off /\ heads = Off /\ gens = Off /\ reviews = Off /\ control = Off
  /\ events = Off /\ op = Off /\ scopeLock = Off /\ undoLock = Off /\ controlLock = Off
  /\ writers = Off /\ item = Off /\ archive = Off /\ sheet = Off /\ main = Off
  /\ rec = Off /\ failClosed = Off /\ runs = Off /\ rtasks = Off /\ refreshes = Off
  /\ ftasks = Off /\ queue = Off /\ next = Off /\ current = Off /\ seen = Off
  /\ published = Off /\ gone = Off /\ cache = Off /\ outcome = Off /\ failed = Off
  /\ unknownAt = Off /\ call = Off /\ flight = Off /\ query = Off /\ batch = Off
  /\ local = Off /\ slots = Off /\ conns = Off /\ returning = Off /\ failures = Off
  /\ ran = Off /\ object = Off /\ schema = Off /\ roles = Off

KeysOff ==
  /\ snap = Off /\ head = Off /\ live = Off /\ ledger = Off /\ spool = Off
  /\ retained = Off /\ imp = Off /\ pro = Off /\ web = Off /\ boot = Off /\ budget = Off
  /\ dirs = Off /\ ptr = Off /\ synced = Off /\ proc = Off /\ sales = Off
  /\ pointer = Off /\ campaigns = Off /\ contests = Off /\ arq = Off /\ job = Off
  /\ event = Off /\ delivery = Off /\ trigger = Off /\ actual = Off /\ estimated = Off
  /\ inputs = Off /\ heads = Off /\ gens = Off /\ reviews = Off /\ control = Off
  /\ events = Off /\ op = Off /\ scopeLock = Off /\ undoLock = Off /\ controlLock = Off
  /\ writers = Off /\ item = Off /\ archive = Off /\ sheet = Off /\ main = Off
  /\ task = Off /\ rec = Off /\ failClosed = Off /\ runs = Off /\ rtasks = Off
  /\ refreshes = Off /\ ftasks = Off /\ queue = Off /\ next = Off /\ current = Off
  /\ seen = Off /\ record = Off /\ flow = Off /\ cb = Off /\ req = Off /\ closing = Off
  /\ idp = Off /\ seals = Off /\ spent = Off /\ ended = Off /\ faults = Off
  /\ query = Off /\ batch = Off /\ local = Off /\ slots = Off /\ conns = Off
  /\ returning = Off /\ failures = Off /\ ran = Off /\ object = Off /\ schema = Off
  /\ roles = Off

DashOff ==
  /\ snap = Off /\ head = Off /\ live = Off /\ ledger = Off /\ spool = Off
  /\ retained = Off /\ imp = Off /\ pro = Off /\ web = Off /\ boot = Off /\ budget = Off
  /\ dirs = Off /\ ptr = Off /\ synced = Off /\ lock = Off /\ proc = Off /\ sales = Off
  /\ pointer = Off /\ campaigns = Off /\ contests = Off /\ arq = Off /\ job = Off
  /\ event = Off /\ delivery = Off /\ trigger = Off /\ actual = Off /\ estimated = Off
  /\ inputs = Off /\ heads = Off /\ gens = Off /\ reviews = Off /\ control = Off
  /\ events = Off /\ op = Off /\ scopeLock = Off /\ undoLock = Off /\ controlLock = Off
  /\ writers = Off /\ item = Off /\ archive = Off /\ sheet = Off /\ main = Off
  /\ rec = Off /\ failClosed = Off /\ runs = Off /\ rtasks = Off /\ refreshes = Off
  /\ ftasks = Off /\ queue = Off /\ next = Off /\ current = Off /\ seen = Off
  /\ record = Off /\ flow = Off /\ cb = Off /\ closing = Off /\ idp = Off /\ seals = Off
  /\ spent = Off /\ ended = Off /\ faults = Off /\ published = Off /\ gone = Off
  /\ cache = Off /\ outcome = Off /\ failed = Off /\ unknownAt = Off /\ call = Off
  /\ flight = Off /\ ran = Off /\ object = Off /\ schema = Off /\ roles = Off

MigOff ==
  /\ snap = Off /\ head = Off /\ live = Off /\ spool = Off /\ retained = Off
  /\ imp = Off /\ pro = Off /\ boot = Off /\ budget = Off /\ dirs = Off /\ ptr = Off
  /\ synced = Off /\ sales = Off /\ pointer = Off /\ campaigns = Off /\ contests = Off
  /\ arq = Off /\ job = Off /\ event = Off /\ delivery = Off /\ trigger = Off
  /\ actual = Off /\ estimated = Off /\ inputs = Off /\ heads = Off /\ gens = Off
  /\ reviews = Off /\ control = Off /\ events = Off /\ op = Off /\ scopeLock = Off
  /\ undoLock = Off /\ controlLock = Off /\ writers = Off /\ item = Off /\ archive = Off
  /\ sheet = Off /\ main = Off /\ task = Off /\ rec = Off /\ failClosed = Off
  /\ runs = Off /\ rtasks = Off /\ refreshes = Off /\ ftasks = Off /\ queue = Off
  /\ next = Off /\ current = Off /\ seen = Off /\ record = Off /\ flow = Off /\ cb = Off
  /\ req = Off /\ closing = Off /\ idp = Off /\ seals = Off /\ spent = Off
  /\ ended = Off /\ published = Off /\ gone = Off /\ cache = Off /\ outcome = Off
  /\ failed = Off /\ unknownAt = Off /\ call = Off /\ flight = Off /\ query = Off
  /\ batch = Off /\ local = Off /\ slots = Off /\ conns = Off /\ returning = Off
  /\ failures = Off

SalesStill == UNCHANGED <<dirs, ptr, synced, lock, proc, sales, pointer, campaigns, contests, arq, job, event,
    delivery, trigger, actual, estimated, inputs, heads, gens, reviews, control,
    events, op, scopeLock, undoLock, controlLock, writers, item, archive, sheet,
    main, task, rec, failClosed, runs, rtasks, refreshes, ftasks, queue, next,
    current, seen, record, flow, cb, req, closing, idp, seals, spent, ended, faults,
    published, gone, cache, outcome, failed, unknownAt, call, flight, query, batch,
    local, slots, conns, returning, failures, ran, object, schema, roles>>

PromoStill == UNCHANGED <<snap, head, live, ledger, spool, retained, imp, pro, web, boot, sales, pointer,
    campaigns, contests, arq, job, event, delivery, trigger, actual, estimated,
    inputs, heads, gens, reviews, control, events, op, scopeLock, undoLock,
    controlLock, writers, item, archive, sheet, main, task, rec, failClosed, runs,
    rtasks, refreshes, ftasks, queue, next, current, seen, record, flow, cb, req,
    closing, idp, seals, spent, ended, faults, published, gone, cache, outcome,
    failed, unknownAt, call, flight, query, batch, local, slots, conns, returning,
    failures, ran, object, schema, roles>>

CampaignStill == UNCHANGED <<snap, head, live, ledger, spool, retained, imp, pro, web, boot, dirs, ptr, synced,
    lock, proc, actual, estimated, inputs, heads, gens, reviews, control, events,
    op, scopeLock, undoLock, controlLock, writers, item, archive, sheet, main, task,
    rec, failClosed, runs, rtasks, refreshes, ftasks, queue, next, current, seen,
    record, flow, cb, req, closing, idp, seals, spent, ended, faults, published,
    gone, cache, outcome, failed, unknownAt, call, flight, query, batch, local,
    slots, conns, returning, failures, ran, object, schema, roles>>

PnlStill == UNCHANGED <<snap, head, live, spool, retained, imp, pro, web, boot, budget, dirs, ptr, synced,
    lock, proc, sales, pointer, campaigns, contests, arq, job, event, delivery,
    trigger, item, archive, sheet, main, task, rec, failClosed, runs, rtasks,
    refreshes, ftasks, queue, next, current, seen, record, flow, cb, req, closing,
    idp, seals, spent, ended, faults, published, gone, cache, outcome, failed,
    unknownAt, call, flight, query, batch, local, slots, conns, returning, failures,
    ran, object, schema, roles>>

ResetStill == UNCHANGED <<snap, head, live, ledger, spool, retained, imp, pro, web, boot, dirs, ptr, synced,
    lock, proc, sales, pointer, campaigns, contests, arq, event, delivery, trigger,
    actual, estimated, inputs, heads, gens, reviews, control, events, scopeLock,
    undoLock, controlLock, writers, runs, rtasks, refreshes, ftasks, queue, next,
    current, seen, record, flow, cb, req, closing, idp, seals, spent, ended, faults,
    published, gone, cache, outcome, failed, unknownAt, call, flight, query, batch,
    local, slots, conns, returning, failures, ran, object, schema, roles>>

CheckStill == UNCHANGED <<snap, head, live, ledger, spool, retained, imp, pro, web, boot, dirs, ptr, synced,
    lock, proc, sales, pointer, campaigns, contests, arq, job, event, delivery,
    trigger, actual, estimated, inputs, heads, gens, reviews, control, events, op,
    scopeLock, undoLock, controlLock, writers, item, archive, main, task, rec,
    failClosed, record, flow, cb, req, closing, idp, seals, spent, ended, faults,
    published, gone, cache, outcome, failed, unknownAt, call, flight, query, batch,
    local, slots, conns, returning, failures, ran, object, schema, roles>>

SessStill == UNCHANGED <<snap, head, live, ledger, spool, retained, imp, pro, web, boot, budget, dirs, ptr,
    synced, proc, sales, pointer, campaigns, contests, arq, job, event, delivery,
    trigger, actual, estimated, inputs, heads, gens, reviews, control, events, op,
    scopeLock, undoLock, controlLock, writers, item, archive, sheet, main, rec,
    failClosed, runs, rtasks, refreshes, ftasks, queue, next, current, seen,
    published, gone, cache, outcome, failed, unknownAt, call, flight, query, batch,
    local, slots, conns, returning, failures, ran, object, schema, roles>>

KeysStill == UNCHANGED <<snap, head, live, ledger, spool, retained, imp, pro, web, boot, budget, dirs, ptr,
    synced, proc, sales, pointer, campaigns, contests, arq, job, event, delivery,
    trigger, actual, estimated, inputs, heads, gens, reviews, control, events, op,
    scopeLock, undoLock, controlLock, writers, item, archive, sheet, main, task,
    rec, failClosed, runs, rtasks, refreshes, ftasks, queue, next, current, seen,
    record, flow, cb, req, closing, idp, seals, spent, ended, faults, query, batch,
    local, slots, conns, returning, failures, ran, object, schema, roles>>

DashStill == UNCHANGED <<snap, head, live, ledger, spool, retained, imp, pro, web, boot, budget, dirs, ptr,
    synced, lock, proc, sales, pointer, campaigns, contests, arq, job, event,
    delivery, trigger, actual, estimated, inputs, heads, gens, reviews, control,
    events, op, scopeLock, undoLock, controlLock, writers, item, archive, sheet,
    main, rec, failClosed, runs, rtasks, refreshes, ftasks, queue, next, current,
    seen, record, flow, cb, closing, idp, seals, spent, ended, faults, published,
    gone, cache, outcome, failed, unknownAt, call, flight, ran, object, schema,
    roles>>

MigStill == UNCHANGED <<snap, head, live, spool, retained, imp, pro, boot, budget, dirs, ptr, synced, sales,
    pointer, campaigns, contests, arq, job, event, delivery, trigger, actual,
    estimated, inputs, heads, gens, reviews, control, events, op, scopeLock,
    undoLock, controlLock, writers, item, archive, sheet, main, task, rec,
    failClosed, runs, rtasks, refreshes, ftasks, queue, next, current, seen, record,
    flow, cb, req, closing, idp, seals, spent, ended, published, gone, cache,
    outcome, failed, unknownAt, call, flight, query, batch, local, slots, conns,
    returning, failures>>

AreaInit ==
  \/ part = "sales" /\ Sales!Init /\ SalesOff
  \/ part = "promo" /\ Promo!Init /\ PromoOff
  \/ part = "campaign" /\ Campaign!Init /\ CampaignOff
  \/ part = "store p&l" /\ Pnl!Init /\ PnlOff
  \/ part = "monthly reset" /\ Reset!Init /\ ResetOff
  \/ part = "grile runs" /\ Check!Init /\ CheckOff
  \/ part = "sessions" /\ Sess!Init /\ SessOff
  \/ part = "key cache" /\ Keys!Init /\ KeysOff
  \/ part = "dashboard" /\ Dash!Init /\ DashOff
  \/ part = "migrations" /\ Mig!Init /\ MigOff

AreaNext ==
  \/ part = "sales" /\ Sales!Next /\ UNCHANGED part /\ SalesStill
  \/ part = "promo" /\ Promo!Next /\ UNCHANGED part /\ PromoStill
  \/ part = "campaign" /\ Campaign!Next /\ UNCHANGED part /\ CampaignStill
  \/ part = "store p&l" /\ Pnl!Next /\ UNCHANGED part /\ PnlStill
  \/ part = "monthly reset" /\ Reset!Next /\ UNCHANGED part /\ ResetStill
  \/ part = "grile runs" /\ Check!Next /\ UNCHANGED part /\ CheckStill
  \/ part = "sessions" /\ Sess!Next /\ UNCHANGED part /\ SessStill
  \/ part = "key cache" /\ Keys!Next /\ UNCHANGED part /\ KeysStill
  \/ part = "dashboard" /\ Dash!Next /\ UNCHANGED part /\ DashStill
  \/ part = "migrations" /\ Mig!Next /\ UNCHANGED part /\ MigStill

AreaSpec == AreaInit /\ [][AreaNext]_allVars

-----------------------------------------------------------------------------
-----------------------------------------------------------------------------
(* Fairness.  A behaviour belongs to one component, so the steps that the     *)
(* components keep taking are numbered and joined.                            *)

\* Sales: systemd restarts the worker, whose tasks make progress.  Promo and P&L: a
\* process that was started goes on.  Campaign: the workers keep running and a delivery
\* is retried for as long as its event waits.  Grile: ready tasks run, a lease that nobody
\* renews lapses and the reconciler runs every minute.  Sessions: coroutines are
\* resumed, deadlines fire and Valkey expires the lock.  Keys: a request to the
\* provider has a time limit.  Dashboard: the event loop runs every task that can
\* go on; deadlines and failures need not happen.  Migrations: a session takes
\* its steps.
Turn(k) ==
  /\ UNCHANGED part
  /\ \/ /\ part = "sales" /\ SalesStill
        /\ \/ k = 1 /\ Sales!ImportSteps(file1)
           \/ k = 2 /\ Sales!ReUploadSteps(file1)
           \/ k \in 3 .. 4 /\ Sales!PromotionSteps(k - 2)
           \/ k = 5 /\ Sales!Boot
     \/ part = "promo" /\ PromoStill /\ k \in 1 .. 2 /\ Promo!Step(Worker[k])
     \/ /\ part = "campaign" /\ CampaignStill
        /\ \/ k \in 1 .. 2 /\ Campaign!JobStep(k)
           \/ k \in 3 .. 4 /\ Campaign!DeliveryStep(k - 2)
           \/ k = 5 /\ Campaign!Trigger
     \/ part = "store p&l" /\ PnlStill /\ k \in 1 .. 2 /\ Pnl!Free(Worker[k])
     \/ /\ part = "monthly reset" /\ ResetStill
        /\ \/ k = 1 /\ Reset!MainStep(1)
           \/ k = 2 /\ Reset!TaskStep(1)
           \/ k = 3 /\ Reset!Publish(1)
           \/ k = 4 /\ Reset!Lapse(1) /\ budget' = budget
           \/ k = 5 /\ Reset!Reconcile
     \/ /\ part = "grile runs" /\ CheckStill
        /\ \/ k = 1 /\ Check!RunStep(1)
           \/ k = 2 /\ Check!AgeRun(1)
           \/ k = 3 /\ Check!RefreshStep(1)
           \/ k = 4 /\ Check!AgeRefresh(1)
           \/ k = 5 /\ Check!ReconcileRuns
           \/ k = 6 /\ Check!ReconcileRefreshes({"s1"})
     \/ /\ part = "sessions" /\ SessStill
        /\ \/ k \in 1 .. 2 /\ Sess!Request(Worker[k])
           \/ k \in 3 .. 4 /\ Sess!WaiterTimeout(Worker[k - 2])
           \/ k = 5 /\ Sess!Task("p1")
           \/ k = 6 /\ Sess!Task("p2")
           \/ k = 7 /\ Sess!LockLapses
     \/ /\ part = "key cache" /\ KeysStill
        /\ \/ k \in 1 .. 2 /\ lock # << >> /\ Keys!Enter(Worker[k])
           \/ k \in 3 .. 4 /\ Keys!FetchEnds(Worker[k - 2])
     \/ /\ part = "dashboard" /\ DashStill
        /\ \/ k = 1 /\ Dash!Returned
           \/ k \in 2 .. 3 /\ (Dash!Answer(Worker[k - 1]) \/ Dash!FailRequest(Worker[k - 1]))
           \/ k \in 4 .. 5 /\ Dash!QueryStep(Worker[k - 3], "q1")
           \/ k \in 6 .. 7 /\ \E c \in Dash!Components : Dash!ComponentStep(Worker[k - 5], "q1", c)
     \/ part = "migrations" /\ MigStill /\ k \in 1 .. 2 /\ Mig!Step(Worker[k])

\* What waits for its turn gets it: ARQ takes queued jobs in the order of their
\* enqueueing, PostgreSQL serves the waiters of a lock in order, a deadline
\* is looked at again and again, and an operator goes on running the recovery a
\* sentinel asks for.
Served(k) ==
  /\ UNCHANGED part
  /\ \/ /\ part = "sales" /\ SalesStill
        /\ \/ k = 1 /\ Sales!StartImport(file1)
           \/ k = 2 /\ \E n \in Sales!Snaps : Sales!StartPromotion(n)
     \/ part = "store p&l" /\ PnlStill /\ Pnl!Waiting(Worker[k])
     \/ part = "sessions" /\ SessStill /\ Sess!LookDeadline(IF k = 1 THEN "p1" ELSE "p2")
     \/ /\ part = "migrations" /\ MigStill
        /\ \E p \in {"w1", "w2"} :
             \/ k = 1 /\ Mig!Recoveries(p)
             \/ k = 2 /\ proc[p].op = "recover" /\ Mig!AcquireLock(p)

FairSpec ==
  /\ AreaSpec
  /\ \A k \in 1 .. 7 : WF_allVars(Turn(k))
  /\ \A k \in 1 .. 2 : SF_allVars(Served(k))

-----------------------------------------------------------------------------
Unfinished(k) ==
  \/ part = "sales" /\ k = 1 /\ imp[file1].st = "queued"
  \/ part = "promo" /\ proc[Worker[k]].pc # "idle"
  \/ part = "store p&l" /\ op[Worker[k]].doing # "idle"
  \/ part = "monthly reset" /\ k = 1 /\ op[1].status = "running"
  \/ part = "grile runs" /\ Check!IsActive(IF k = 1 THEN runs[1] ELSE refreshes[1])

Finished(k) ==
  /\ part = "sales" => imp[file1].st \in {"ok", "failed", "none"}
  /\ part = "promo" => proc[Worker[k]].pc = "idle"
  /\ part = "store p&l" => op[Worker[k]].doing = "idle"
  /\ part = "monthly reset" => op[1].status \in {"completed", "failed"} \/ op[1].class = "recovery_required"
  /\ part = "grile runs" => ~Check!IsActive(IF k = 1 THEN runs[1] ELSE refreshes[1])

\* Every operation that was started ends, whoever crashes, stalls or holds a lock: a
\* queued sales import, a promo import or migration, a P&L promotion or publication (also
\* when their locks meet), a reserved Grile run or refresh, and a monthly reset, which ends
\* or is flagged for an operator.
OperationsEnd == \A k \in 1 .. 2 : Unfinished(k) ~> Finished(k)

Asked(k) ==
  \/ part = "sessions" /\ req[Worker[k]].pc = "got"
  \/ part = "key cache" /\ call[Worker[k]].pc # "idle"
  \/ part = "dashboard" /\ req[Worker[k]] = "run"

Replied(k) ==
  /\ part = "sessions" => req[Worker[k]].pc \in Sess!Answered
  /\ part = "key cache" => call[Worker[k]].pc = "idle"
  /\ part = "dashboard" => req[Worker[k]] \in Dash!Ended

\* Every request is answered: those that wait for another one's refresh of the session,
\* those that queue for the lock of the key cache, and dashboards that compete for
\* the three limits, with or without a deadline.
RequestsEnd == \A k \in 1 .. 2 : Asked(k) ~> Replied(k)

LeftBehind ==
  \/ part = "sales" /\ snap[1].gen = "promoting"
  \/ part = "sessions" /\ lock # "free"
  \/ part = "migrations" /\ ledger["m087"] = "sentinel"
  \/ part = "campaign" /\ Campaign!SalesOf(campaigns) < sales

CleanedUp ==
  /\ part = "sales" => snap[1].gen # "promoting"
  /\ part = "sessions" => lock = "free"
  /\ part = "migrations" => ledger["m087"] = "ok" \/ object["m087"] = "foreign"
  /\ part = "campaign" => Campaign!SalesOf(campaigns) = sales

\* What an interrupted process leaves behind is taken up by its successor: a claim for
\* promotion is returned, the refresh lock is freed, an interrupted concurrent index is
\* built and recorded, and campaigns catch up with the promoted sales.
NothingLeftBehind == LeftBehind ~> CleanedUp

=============================================================================
