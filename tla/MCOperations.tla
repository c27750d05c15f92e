---------------------------- MODULE MCOperations ----------------------------
(* The components that coordinate concurrent processes, for TLC: Grile       *)
(* operations, sessions, the key cache, dashboards and migrations. They      *)
(* share no state, so a behaviour is one of a single component, chosen in    *)
(* the initial state; the variables of the others are off.                   *)
EXTENDS Integers, Sequences, FiniteSets

CONSTANTS
  \* the processes, of the web for sessions and running migrations, and what
  \* may fail in either
  Procs, MaxFaults,
  \* of Sessions
  Reqs, ProcOf, Logouts, Callbacks, Rotates, MaxSeals,
  \* of Migrations: the manifest, the releases and how a run may start
  Order, Class, Through, Replay, Tombstone, Cutover, Releases, RunModes, Starts,
  \* the store of an unused refresh
  NoSite

\* The second request is served by the other process.
ServedBy == [r \in Reqs |-> IF r = "r2" THEN "p2" ELSE "p1"]

\* 005 was lost and 006 stands for it.
Lost == [m \in {"m005"} |-> "m006"]

MigrationOrder == <<"m005", "m006", "m014", "m022", "m040", "m041", "m086", "m087", "m088">>

Migrated == {MigrationOrder[i] : i \in 1..9}

MigrationClass ==
  [m \in Migrated |-> CASE m = "m086" -> "maint" [] m = "m087" -> "cic" [] m = "m088" -> "online" [] OTHER -> "tx"]

Database(rows, checksum, index, schema, roles) ==
  [ledger |-> [m \in Migrated |-> IF m \in rows THEN checksum ELSE "absent"],
   object |-> [m \in Migrated |-> IF m = "m087" THEN index ELSE "none"], schema |-> schema, roles |-> roles]

FirstRows(n) == {MigrationOrder[i] : i \in 1..n}

\* A fresh database, one whose ledger has no checksums (with and without the lost
\* 005), one before the authority cutover and one at the last release.
Databases ==
  {Database({}, "ok", "none", FALSE, r) : r \in BOOLEAN}
  \cup {Database(rows, "null", "none", TRUE, FALSE) : rows \in {{}, {"m006"}, FirstRows(4), FirstRows(4) \ {"m005"}}}
  \cup {Database(FirstRows(4), "ok", "none", TRUE, FALSE)}
  \cup {Database(FirstRows(6), "ok", o, TRUE, TRUE) : o \in {"none", "foreign"}}

VARIABLES
  part,  \* the component this behaviour belongs to
  op, item, archive, job, sheet, main, task, rec, failClosed, budget, runs, rtasks,
  refreshes, ftasks, queue, next, current, seen, targets, stamp, ops, jobs, locked,
  check, record, lock, flow, cb, req, closing, idp, seals, spent, ended, faults,
  published, gone, cache, outcome, failed, unknownAt, call, flight, query, batch,
  local, slots, conns, returning, failures, ledger, ran, object, schema, roles, proc,
  web

allVars == <<part, op, item, archive, job, sheet, main, task, rec, failClosed, budget, runs, rtasks,
    refreshes, ftasks, queue, next, current, seen, targets, stamp, ops, jobs,
    locked, check, record, lock, flow, cb, req, closing, idp, seals, spent, ended,
    faults, published, gone, cache, outcome, failed, unknownAt, call, flight, query,
    batch, local, slots, conns, returning, failures, ledger, ran, object, schema,
    roles, proc, web>>

Off == "off"

Reset == INSTANCE GrileMonthly WITH
  NumSites <- 2,
  MaxOps <- 1,
  MaxFaults <- 1,
  MaxCancels <- 0,
  MaxLapses <- 1,
  MaxCrashes <- 1

Resets == INSTANCE GrileMonthly WITH
  NumSites <- 1,
  MaxOps <- 2,
  MaxFaults <- 0,
  MaxCancels <- 1,
  MaxLapses <- 0,
  MaxCrashes <- 1

Restore == INSTANCE GrileMonthly WITH
  NumSites <- 2,
  MaxOps <- 1,
  MaxFaults <- 2,
  MaxCancels <- 0,
  MaxLapses <- 0,
  MaxCrashes <- 1

Refresh == INSTANCE GrileRuns WITH
  Sites <- {"s1"},
  NoSite <- NoSite,
  MaxRuns <- 1,
  MaxRefreshes <- 2,
  MaxEdits <- 1,
  MaxLapses <- 1,
  MaxCancels <- 0,
  MaxCrashes <- 0

Check == INSTANCE GrileRuns WITH
  Sites <- {"s1", "s2"},
  NoSite <- NoSite,
  MaxRuns <- 2,
  MaxRefreshes <- 0,
  MaxEdits <- 0,
  MaxLapses <- 1,
  MaxCancels <- 1,
  MaxCrashes <- 1

Targets == INSTANCE GrileTargets WITH
  Agents <- {"a1"},
  Sites <- {"s1"},
  SiteOf <- [a \in {"a1"} |-> "s1"],
  MaxOps <- 2,
  MaxForeign <- 1,
  MaxLapses <- 1,
  MaxFaults <- 0

Pair == INSTANCE GrileTargets WITH
  Agents <- {"a1", "a2"},
  Sites <- {"s1"},
  SiteOf <- [a \in {"a1", "a2"} |-> "s1"],
  MaxOps <- 1,
  MaxForeign <- 1,
  MaxLapses <- 1,
  MaxFaults <- 0

Sess == INSTANCE SessionsProofs

Keys == INSTANCE KeyCache WITH
  Requests <- {"r1", "r2"},
  Probes <- {"p1"},
  Kids <- {"k1", "k2"},
  TTL <- 1,
  MaxStale <- 2,
  RetryAfter <- 1,
  Cooldown <- 1,
  MaxFlight <- 0

Dash == INSTANCE Dashboard WITH
  Requests <- {"r1", "r2"},
  Queries <- {"q1"},
  History <- {"r2"},
  Base <- {"a", "b"},
  BatchLimit <- 1,
  LocalLimit <- 2,
  GlobalLimit <- 2,
  PoolSize <- 1,
  MaxFailures <- 1

Mig == INSTANCE MigrationsProofs WITH Modes <- RunModes

(* Sessions and migrations have proofs for any value of their constants    *)
(* (module OperationsProofs); this is what those assume of the values.     *)
ASSUME SessionsAssumption == Sess!SessionConstants

ASSUME MigrationsAssumption == Mig!MigrationConstants

ResetOff ==
  /\ runs = Off /\ rtasks = Off /\ refreshes = Off /\ ftasks = Off /\ queue = Off
  /\ next = Off /\ current = Off /\ seen = Off /\ targets = Off /\ stamp = Off
  /\ ops = Off /\ jobs = Off /\ locked = Off /\ check = Off /\ record = Off
  /\ lock = Off /\ flow = Off /\ cb = Off /\ req = Off /\ closing = Off /\ idp = Off
  /\ seals = Off /\ spent = Off /\ ended = Off /\ faults = Off /\ published = Off
  /\ gone = Off /\ cache = Off /\ outcome = Off /\ failed = Off /\ unknownAt = Off
  /\ call = Off /\ flight = Off /\ query = Off /\ batch = Off /\ local = Off
  /\ slots = Off /\ conns = Off /\ returning = Off /\ failures = Off /\ ledger = Off
  /\ ran = Off /\ object = Off /\ schema = Off /\ roles = Off /\ proc = Off /\ web = Off

RefreshOff ==
  /\ op = Off /\ item = Off /\ archive = Off /\ job = Off /\ main = Off /\ task = Off
  /\ rec = Off /\ failClosed = Off /\ targets = Off /\ stamp = Off /\ ops = Off
  /\ jobs = Off /\ locked = Off /\ check = Off /\ record = Off /\ lock = Off
  /\ flow = Off /\ cb = Off /\ req = Off /\ closing = Off /\ idp = Off /\ seals = Off
  /\ spent = Off /\ ended = Off /\ faults = Off /\ published = Off /\ gone = Off
  /\ cache = Off /\ outcome = Off /\ failed = Off /\ unknownAt = Off /\ call = Off
  /\ flight = Off /\ query = Off /\ batch = Off /\ local = Off /\ slots = Off
  /\ conns = Off /\ returning = Off /\ failures = Off /\ ledger = Off /\ ran = Off
  /\ object = Off /\ schema = Off /\ roles = Off /\ proc = Off /\ web = Off

TargetsOff ==
  /\ op = Off /\ item = Off /\ archive = Off /\ job = Off /\ sheet = Off /\ main = Off
  /\ task = Off /\ rec = Off /\ failClosed = Off /\ runs = Off /\ rtasks = Off
  /\ refreshes = Off /\ ftasks = Off /\ next = Off /\ current = Off /\ seen = Off
  /\ record = Off /\ lock = Off /\ flow = Off /\ cb = Off /\ req = Off /\ closing = Off
  /\ idp = Off /\ seals = Off /\ spent = Off /\ ended = Off /\ faults = Off
  /\ published = Off /\ gone = Off /\ cache = Off /\ outcome = Off /\ failed = Off
  /\ unknownAt = Off /\ call = Off /\ flight = Off /\ query = Off /\ batch = Off
  /\ local = Off /\ slots = Off /\ conns = Off /\ returning = Off /\ failures = Off
  /\ ledger = Off /\ ran = Off /\ object = Off /\ schema = Off /\ roles = Off
  /\ proc = Off /\ web = Off

SessOff ==
  /\ op = Off /\ item = Off /\ archive = Off /\ job = Off /\ sheet = Off /\ main = Off
  /\ rec = Off /\ failClosed = Off /\ budget = Off /\ runs = Off /\ rtasks = Off
  /\ refreshes = Off /\ ftasks = Off /\ queue = Off /\ next = Off /\ current = Off
  /\ seen = Off /\ targets = Off /\ stamp = Off /\ ops = Off /\ jobs = Off
  /\ locked = Off /\ check = Off /\ published = Off /\ gone = Off /\ cache = Off
  /\ outcome = Off /\ failed = Off /\ unknownAt = Off /\ call = Off /\ flight = Off
  /\ query = Off /\ batch = Off /\ local = Off /\ slots = Off /\ conns = Off
  /\ returning = Off /\ failures = Off /\ ledger = Off /\ ran = Off /\ object = Off
  /\ schema = Off /\ roles = Off /\ proc = Off /\ web = Off

KeysOff ==
  /\ op = Off /\ item = Off /\ archive = Off /\ job = Off /\ sheet = Off /\ main = Off
  /\ task = Off /\ rec = Off /\ failClosed = Off /\ budget = Off /\ runs = Off
  /\ rtasks = Off /\ refreshes = Off /\ ftasks = Off /\ queue = Off /\ next = Off
  /\ current = Off /\ seen = Off /\ targets = Off /\ stamp = Off /\ ops = Off
  /\ jobs = Off /\ locked = Off /\ check = Off /\ record = Off /\ flow = Off /\ cb = Off
  /\ req = Off /\ closing = Off /\ idp = Off /\ seals = Off /\ spent = Off
  /\ ended = Off /\ faults = Off /\ query = Off /\ batch = Off /\ local = Off
  /\ slots = Off /\ conns = Off /\ returning = Off /\ failures = Off /\ ledger = Off
  /\ ran = Off /\ object = Off /\ schema = Off /\ roles = Off /\ proc = Off /\ web = Off

DashOff ==
  /\ op = Off /\ item = Off /\ archive = Off /\ job = Off /\ sheet = Off /\ main = Off
  /\ rec = Off /\ failClosed = Off /\ budget = Off /\ runs = Off /\ rtasks = Off
  /\ refreshes = Off /\ ftasks = Off /\ queue = Off /\ next = Off /\ current = Off
  /\ seen = Off /\ targets = Off /\ stamp = Off /\ ops = Off /\ jobs = Off
  /\ locked = Off /\ check = Off /\ record = Off /\ lock = Off /\ flow = Off /\ cb = Off
  /\ closing = Off /\ idp = Off /\ seals = Off /\ spent = Off /\ ended = Off
  /\ faults = Off /\ published = Off /\ gone = Off /\ cache = Off /\ outcome = Off
  /\ failed = Off /\ unknownAt = Off /\ call = Off /\ flight = Off /\ ledger = Off
  /\ ran = Off /\ object = Off /\ schema = Off /\ roles = Off /\ proc = Off /\ web = Off

MigOff ==
  /\ op = Off /\ item = Off /\ archive = Off /\ job = Off /\ sheet = Off /\ main = Off
  /\ task = Off /\ rec = Off /\ failClosed = Off /\ budget = Off /\ runs = Off
  /\ rtasks = Off /\ refreshes = Off /\ ftasks = Off /\ queue = Off /\ next = Off
  /\ current = Off /\ seen = Off /\ targets = Off /\ stamp = Off /\ ops = Off
  /\ jobs = Off /\ locked = Off /\ check = Off /\ record = Off /\ flow = Off /\ cb = Off
  /\ req = Off /\ closing = Off /\ idp = Off /\ seals = Off /\ spent = Off
  /\ ended = Off /\ published = Off /\ gone = Off /\ cache = Off /\ outcome = Off
  /\ failed = Off /\ unknownAt = Off /\ call = Off /\ flight = Off /\ query = Off
  /\ batch = Off /\ local = Off /\ slots = Off /\ conns = Off /\ returning = Off
  /\ failures = Off

ResetStill == UNCHANGED <<runs, rtasks, refreshes, ftasks, queue, next, current, seen, targets, stamp, ops,
    jobs, locked, check, record, lock, flow, cb, req, closing, idp, seals, spent,
    ended, faults, published, gone, cache, outcome, failed, unknownAt, call, flight,
    query, batch, local, slots, conns, returning, failures, ledger, ran, object,
    schema, roles, proc, web>>

RefreshStill == UNCHANGED <<op, item, archive, job, main, task, rec, failClosed, targets, stamp, ops, jobs,
    locked, check, record, lock, flow, cb, req, closing, idp, seals, spent, ended,
    faults, published, gone, cache, outcome, failed, unknownAt, call, flight, query,
    batch, local, slots, conns, returning, failures, ledger, ran, object, schema,
    roles, proc, web>>

TargetsStill == UNCHANGED <<op, item, archive, job, sheet, main, task, rec, failClosed, runs, rtasks, refreshes,
    ftasks, next, current, seen, record, lock, flow, cb, req, closing, idp, seals,
    spent, ended, faults, published, gone, cache, outcome, failed, unknownAt, call,
    flight, query, batch, local, slots, conns, returning, failures, ledger, ran,
    object, schema, roles, proc, web>>

SessStill == UNCHANGED <<op, item, archive, job, sheet, main, rec, failClosed, budget, runs, rtasks,
    refreshes, ftasks, queue, next, current, seen, targets, stamp, ops, jobs,
    locked, check, published, gone, cache, outcome, failed, unknownAt, call, flight,
    query, batch, local, slots, conns, returning, failures, ledger, ran, object,
    schema, roles, proc, web>>

KeysStill == UNCHANGED <<op, item, archive, job, sheet, main, task, rec, failClosed, budget, runs, rtasks,
    refreshes, ftasks, queue, next, current, seen, targets, stamp, ops, jobs,
    locked, check, record, flow, cb, req, closing, idp, seals, spent, ended, faults,
    query, batch, local, slots, conns, returning, failures, ledger, ran, object,
    schema, roles, proc, web>>

DashStill == UNCHANGED <<op, item, archive, job, sheet, main, rec, failClosed, budget, runs, rtasks,
    refreshes, ftasks, queue, next, current, seen, targets, stamp, ops, jobs,
    locked, check, record, lock, flow, cb, closing, idp, seals, spent, ended,
    faults, published, gone, cache, outcome, failed, unknownAt, call, flight,
    ledger, ran, object, schema, roles, proc, web>>

MigStill == UNCHANGED <<op, item, archive, job, sheet, main, task, rec, failClosed, budget, runs, rtasks,
    refreshes, ftasks, queue, next, current, seen, targets, stamp, ops, jobs,
    locked, check, record, flow, cb, req, closing, idp, seals, spent, ended,
    published, gone, cache, outcome, failed, unknownAt, call, flight, query, batch,
    local, slots, conns, returning, failures>>

AreaInit ==
  \/ part = "monthly reset" /\ Reset!Init /\ ResetOff
  \/ part = "two monthly operations" /\ Resets!Init /\ ResetOff
  \/ part = "monthly restore" /\ Restore!Init /\ ResetOff
  \/ part = "grile refreshes" /\ Refresh!Init /\ RefreshOff
  \/ part = "grile runs" /\ Check!Init /\ RefreshOff
  \/ part = "agent targets" /\ Targets!Init /\ TargetsOff
  \/ part = "two agents" /\ Pair!Init /\ TargetsOff
  \/ part = "sessions" /\ Sess!Init /\ SessOff
  \/ part = "key cache" /\ Keys!Init /\ KeysOff
  \/ part = "dashboard" /\ Dash!Init /\ DashOff
  \/ part = "migrations" /\ Mig!Init /\ MigOff

AreaNext ==
  \/ part = "monthly reset" /\ Reset!Next /\ UNCHANGED part /\ ResetStill
  \/ part = "two monthly operations" /\ Resets!Next /\ UNCHANGED part /\ ResetStill
  \/ part = "monthly restore" /\ Restore!Next /\ UNCHANGED part /\ ResetStill
  \/ part = "grile refreshes" /\ Refresh!Next /\ UNCHANGED part /\ RefreshStill
  \/ part = "grile runs" /\ Check!Next /\ UNCHANGED part /\ RefreshStill
  \/ part = "agent targets" /\ Targets!Next /\ UNCHANGED part /\ TargetsStill
  \/ part = "two agents" /\ Pair!Next /\ UNCHANGED part /\ TargetsStill
  \/ part = "sessions" /\ Sess!Next /\ UNCHANGED part /\ SessStill
  \/ part = "key cache" /\ Keys!Next /\ UNCHANGED part /\ KeysStill
  \/ part = "dashboard" /\ Dash!Next /\ UNCHANGED part /\ DashStill
  \/ part = "migrations" /\ Mig!Next /\ UNCHANGED part /\ MigStill

AreaSpec == AreaInit /\ [][AreaNext]_allVars

-----------------------------------------------------------------------------
\* Every variable of the component at work has its type.
TypesOK ==
  /\ part = "monthly reset" => Reset!TypeOK
  /\ part = "two monthly operations" => Resets!TypeOK
  /\ part = "monthly restore" => Restore!TypeOK
  /\ part = "grile refreshes" => Refresh!TypeOK
  /\ part = "grile runs" => Check!TypeOK
  /\ part = "agent targets" => Targets!TypeOK
  /\ part = "two agents" => Pair!TypeOK
  /\ part = "sessions" => Sess!TypeOK
  /\ part = "key cache" => Keys!TypeOK
  /\ part = "dashboard" => Dash!TypeOK
  /\ part = "migrations" => Mig!TypeOK

\* No interruption loses anything: what a cleared sheet held is in a persisted backup,
\* a store recorded as restored holds it (while no lease lapses under its holder), and
\* a dashboard request that fails, is cancelled or times out gives back its slots and
\* connections and leaves no component at work.
NothingLost ==
  /\ part = "two monthly operations" => Resets!DataRecoverable
  /\ part = "monthly restore" => Restore!RestoredHoldsBackup
  /\ part = "dashboard" => Dash!SlotsAccounted /\ Dash!EndedIsQuiet

\* The Grile screen is never behind its evidence: no stored success is newer than the
\* row shown, a completed refresh shows a value read after it was asked for, a refresh
\* whose lease was taken leaves no trace, and a completed run observed every store.
ShownIsCurrent ==
  /\ part = "grile refreshes" =>
       /\ Refresh!ShownNotSuperseded
       /\ Refresh!FreshAfterRefresh
       /\ Refresh!ExpiredRefreshInert
  /\ part = "grile runs" => Check!CompletedRunIsWhole

\* Across processes one refresh at a time; while nothing fails, no interleaving signs
\* a browser out and the stored refresh token is the one the provider will accept
\* next.
SessionsHold ==
  /\ part = "sessions" => Sess!SingleFlight /\ Sess!SignOutJustified /\ Sess!StoredTokenCurrent

\* A row that counts as applied is there only for a migration whose result is in
\* place, no migration's SQL takes effect twice, and a web process that was admitted
\* has every migration of its release.
LedgerTrue ==
  /\ part = "migrations" => Mig!LedgerTrue /\ Mig!WebHasItsSchema

\* Work counts only for what it still holds: a reset completes with every clear
\* verified and does not reopen a restored store; an error costs the screen no good
\* value; a synchronisation changes exactly the targets it verified, never another
\* source's, and nothing once its operation was given up.
FencedWork ==
  [][
     /\ part = "monthly reset" => Reset!CommitsWhatWasVerified /\ Reset!RestoredIsFinal
     /\ part = "grile refreshes" => Refresh!ErrorKeepsSuccess
     /\ part = "agent targets" =>
          /\ Targets!OtherSourcesKept
          /\ Targets!SyncIsExact
          /\ Targets!ExpiredIsInert
     /\ part = "two agents" => Pair!OtherSourcesKept /\ Pair!SyncIsExact /\ Pair!ExpiredIsInert
    ]_allVars

\* A failed refresh never deletes a rotated session; a withdrawn key expires in
\* bounded time, a miss costs one refresh, and a known key survives an outage of the
\* provider.
SignInHolds ==
  [][
     /\ part = "sessions" => Sess!RotatedSessionKept
     /\ part = "key cache" =>
          /\ Keys!WithdrawnKeyExpires
          /\ Keys!OneRefreshPerMiss
          /\ Keys!KnownKeySurvivesOutage
    ]_allVars

\* While a recovery sentinel stands nothing else is recorded, takes effect or is
\* admitted; a migration starts only when everything before it is in place; and
\* recovery never touches an object that is not the migration's own.
MigrationsOrdered ==
  [][
     /\ part = "migrations" => Mig!SentinelFences /\ Mig!EarlierFirst /\ Mig!ForeignKept
    ]_allVars

=============================================================================
