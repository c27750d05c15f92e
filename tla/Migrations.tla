------------------------------ MODULE Migrations ------------------------------
(***************************************************************************)
(* Schema migrations: the one-shot runner, the operator's recovery of an   *)
(* online migration and the check a web process makes when it starts.      *)
(*                                                                         *)
(* Source: backend/db/migration_runner.py, migration_runtime.py and        *)
(* recover_online_index.py.                                                *)
(*                                                                         *)
(* A process is one database session.  A transaction is one step.  Reads   *)
(* made under the advisory lock before the first write are one step with   *)
(* it, because only its holder writes what they read.  When a session's    *)
(* client is lost while the server runs a statement outside a transaction, *)
(* the server finishes the statement, and the lock stays held till then.   *)
(* A checksum is abstract: the manifest's ("ok"), the sentinel made of it, *)
(* or NULL in a ledger older than checksums.                               *)
(***************************************************************************)
EXTENDS Integers, Sequences, FiniteSets

CONSTANTS
  Procs,      \* sessions of the runner and of the recovery script
  Order,      \* the migrations, in the newest manifest's order
  Class,      \* per migration: "tx", "maint", "online" or "cic"
  Through,    \* position of incorporated_through
  Replay,     \* BASELINE_REPLAY_MIGRATIONS
  Tombstone,  \* TOMBSTONE_ADOPTION_PREREQUISITES
  Cutover,    \* AUTHORITY_CUTOVER_MIGRATIONS
  Releases,   \* manifests: each a prefix of Order, given by its length
  Modes,      \* how a runner may be started: "admin", "migrate", "bootstrap"
  Starts,     \* databases the first run may meet
  MaxFaults   \* bound: failures and crashes

Migrations == {Order[i] : i \in 1..Len(Order)}

VARIABLES
  ledger,  \* schema_migrations: "absent", "null", "sentinel" or "ok"
  ran,     \* how often each migration's SQL has taken effect
  object,  \* what bears the name of the index a "cic" migration creates
  schema,  \* public.sales_transactions exists
  roles,   \* the migration login satisfies its authority contract
  lock,    \* holder of the advisory lock
  proc,    \* the sessions
  web,     \* release of the web process last admitted, 0 if none
  faults   \* failures so far

vars == <<ledger, ran, object, schema, roles, lock, proc, web, faults>>

Idle == [pc |-> "idle", op |-> "none", mode |-> "none", upto |-> 0,
         file |-> "none", window |-> "none", applied |-> {}]

\* load_migration_manifest of a release; verify_migration_files holds its
\* files to it.
Manifest(n) == {Order[i] : i \in 1..n}

Position(m) == CHOOSE i \in 1..Len(Order) : Order[i] = m

Earlier(m) == {Order[i] : i \in 1..(Position(m) - 1)}

\* What the frozen baseline schema already contains.
Incorporated == {Order[i] : i \in 1..Through} \ Replay

Init ==
  /\ \E s \in Starts :
       /\ ledger = s.ledger
       /\ ran = [m \in Migrations |-> IF s.ledger[m] = "absent" THEN 0 ELSE 1]
       /\ object = s.object
       /\ schema = s.schema
       /\ roles = s.roles
  /\ lock = {}
  /\ proc = [p \in Procs |-> Idle]
  /\ web = 0
  /\ faults = 0

Rows == {m \in Migrations : ledger[m] # "absent"}

-----------------------------------------------------------------------------
(* Starting a session.                                                     *)

StartRun(p) ==
  /\ proc[p].pc = "idle"
  /\ \E mode \in Modes, n \in Releases :
       \E w \in {"none"} \cup {m \in Manifest(n) : Class[m] = "maint"} :
         proc' = [proc EXCEPT ![p] = [Idle EXCEPT !.pc = "waiting", !.op = "run",
                                       !.mode = mode, !.upto = n, !.window = w]]
  /\ UNCHANGED <<ledger, ran, object, schema, roles, lock, web, faults>>

StartRecovery(p) ==
  /\ proc[p].pc = "idle"
  /\ \E mode \in Modes \ {"bootstrap"}, n \in Releases :
       \E m \in {x \in Manifest(n) : Class[x] \in {"online", "cic"}} :
         proc' = [proc EXCEPT ![p] = [Idle EXCEPT !.pc = "waiting", !.op = "recover",
                                       !.mode = mode, !.upto = n, !.file = m]]
  /\ UNCHANGED <<ledger, ran, object, schema, roles, lock, web, faults>>

AcquireLock(p) ==
  /\ proc[p].pc = "waiting"
  /\ lock = {}
  /\ lock' = {p}
  /\ proc' = [proc EXCEPT ![p].pc = "locked"]
  /\ UNCHANGED <<ledger, ran, object, schema, roles, web, faults>>

\* The finally block: unlock and close, whatever the session did.
Close(p) ==
  /\ lock' = lock \ {p}
  /\ proc' = [proc EXCEPT ![p] = Idle]

\* lock_timeout (10 s) ends a wait for the advisory lock while its holder runs
\* SQL; reading the ledger takes no such time.
LockTimeout(p) ==
  /\ proc[p].pc = "waiting"
  /\ \E q \in lock : proc[q].pc # "locked"
  /\ Close(p)
  /\ UNCHANGED <<ledger, ran, object, schema, roles, web, faults>>

-----------------------------------------------------------------------------
(* Validating and preparing the ledger.                                    *)

\* _validate_applied on the rows f shows.
Valid(f, n, allowMissing) ==
  \A m \in Migrations :
    f[m] # "absent" =>
      /\ m \in Manifest(n)
      /\ f[m] # "sentinel"
      /\ f[m] = "null" => allowMissing

\* verify_database_connection_authority.  Without a configured authority it
\* admits anyone (outside production).
Authorised(mode) == mode = "migrate" => roles

\* Fault: the bootstrap accepts a history with gaps.
BootstrapAllowedGaps(n) ==
  /\ schema
  /\ Cutover \subseteq Manifest(n)
  /\ Valid(ledger, n, FALSE)
  /\ Rows \cap Cutover = {}

\* _verify_authority_cutover_bootstrap.
BootstrapAllowed(n) ==
  LET first == CHOOSE i \in 1..Len(Order) :
                 /\ Order[i] \in Cutover
                 /\ \A m \in Cutover : i <= Position(m)
  IN  /\ schema
      /\ Cutover \subseteq Manifest(n)
      /\ Valid(ledger, n, FALSE)
      /\ Rows = {Order[i] : i \in 1..(first - 1)}

Admitted(p) ==
  /\ IF proc[p].mode = "bootstrap" THEN BootstrapAllowed(proc[p].upto)
                                   ELSE Authorised(proc[p].mode)
  /\ proc[p].mode = "migrate" => schema
  /\ Valid(ledger, proc[p].upto, TRUE)

\* _adopt_tombstones.
Adopted == {t \in DOMAIN Tombstone : t \notin Rows /\ Tombstone[t] \in Rows}

\* _backfill_missing_checksums, after the adoption.
Backfilled ==
  [m \in Migrations |-> IF m \in Adopted \/ ledger[m] = "null" THEN "ok"
                        ELSE ledger[m]]

\* _record_fresh_baseline.
RecordFreshBaseline(f, n) ==
  [m \in Migrations |-> IF m \in Incorporated \cap Manifest(n) THEN "ok" ELSE f[m]]

\* run_migrations up to _prepare_migration_history.
PrepareHistory(p) ==
  LET n == proc[p].upto
      f == IF schema THEN Backfilled ELSE RecordFreshBaseline(Backfilled, n)
  IN  /\ proc[p].pc = "locked" /\ proc[p].op = "run"
      /\ Admitted(p)
      /\ ledger' = f
      /\ ran' = IF schema THEN ran
                ELSE [m \in Migrations |-> IF m \in Incorporated THEN 1 ELSE ran[m]]
      /\ schema' = TRUE
      /\ proc' = [proc EXCEPT ![p].pc = "pending",
                              ![p].applied = {m \in Migrations : f[m] # "absent"}]
      /\ UNCHANGED <<object, roles, lock, web, faults>>

Refuse(p) ==
  /\ proc[p].pc = "locked" /\ proc[p].op = "run"
  /\ ~Admitted(p)
  /\ Close(p)
  /\ UNCHANGED <<ledger, ran, object, schema, roles, web, faults>>

-----------------------------------------------------------------------------
(* _apply_pending_migrations.                                              *)

Pending(p) ==
  {m \in Manifest(proc[p].upto) :
     /\ m \notin proc[p].applied
     /\ proc[p].mode = "bootstrap" => m \in Cutover}

Next1(p) == CHOOSE m \in Pending(p) : \A x \in Pending(p) : Position(m) <= Position(x)

AtMigration(p, classes) ==
  /\ proc[p].pc = "pending"
  /\ Pending(p) # {}
  /\ Class[Next1(p)] \in classes

RunComplete(p) ==
  /\ proc[p].pc = "pending"
  /\ Pending(p) = {}
  /\ Close(p)
  /\ UNCHANGED <<ledger, ran, object, schema, roles, web, faults>>

WindowMissing(p) ==
  /\ AtMigration(p, {"maint"})
  /\ proc[p].window # Next1(p)
  /\ Close(p)
  /\ UNCHANGED <<ledger, ran, object, schema, roles, web, faults>>

\* _apply_transactional_migration.  A tombstone's body always raises.
ApplyTransactional(p) ==
  LET m == Next1(p) IN
  /\ AtMigration(p, {"tx", "maint"})
  /\ Class[m] = "maint" => proc[p].window = m
  /\ m \notin DOMAIN Tombstone
  /\ ledger[m] = "absent"
  /\ ran' = [ran EXCEPT ![m] = @ + 1]
  /\ ledger' = [ledger EXCEPT ![m] = "ok"]
  /\ roles' = (roles \/ (Cutover \subseteq Rows \cup {m} /\ m \in Cutover))
  /\ proc' = [proc EXCEPT ![p].applied = @ \cup {m}]
  /\ UNCHANGED <<object, schema, lock, web, faults>>

TombstoneRaises(p) ==
  /\ AtMigration(p, {"tx"})
  /\ Next1(p) \in DOMAIN Tombstone
  /\ Close(p)
  /\ UNCHANGED <<ledger, ran, object, schema, roles, web, faults>>

\* _cic_preflight_index_absent refuses a name that is taken.
PreflightRefuses(p) ==
  /\ AtMigration(p, {"cic"})
  /\ object[Next1(p)] # "none"
  /\ Close(p)
  /\ UNCHANGED <<ledger, ran, object, schema, roles, web, faults>>

\* _mark_online_recovery, after the preflight.
MarkOnlineRecovery(p) ==
  LET m == Next1(p) IN
  /\ AtMigration(p, {"online", "cic"})
  /\ Class[m] = "cic" => object[m] = "none"
  /\ ledger[m] = "absent"
  /\ ledger' = [ledger EXCEPT ![m] = "sentinel"]
  /\ proc' = [proc EXCEPT ![p].pc = "statement", ![p].file = m]
  /\ UNCHANGED <<ran, object, schema, roles, lock, web, faults>>

-----------------------------------------------------------------------------
(* The statement outside a transaction.                                    *)

Creates(m) ==
  /\ object' = [object EXCEPT ![m] = IF Class[m] = "cic" THEN "valid" ELSE @]
  /\ ran' = [ran EXCEPT ![m] = IF Class[m] = "cic" THEN 1 ELSE @ + 1]

\* _execute_online_statement and _execute_cic_statement: the name must be free.
StatementSucceeds(p) ==
  LET m == proc[p].file IN
  /\ proc[p].pc = "statement"
  /\ object[m] = "none"
  /\ Creates(m)
  /\ proc' = [proc EXCEPT ![p].pc = "executed"]
  /\ UNCHANGED <<ledger, schema, roles, lock, web, faults>>

\* The statement raises: a lock or statement timeout, a deadlock with a
\* transaction CREATE INDEX CONCURRENTLY waits for, a failed reset of the role
\* or of lock_timeout after it.  A concurrent build that fails leaves an
\* invalid index behind.
FailedStatement(m) ==
  \/ UNCHANGED <<object, ran>>
  \/ object[m] = "none" /\ Creates(m)
  \/ /\ Class[m] = "cic" /\ object[m] = "none"
     /\ object' = [object EXCEPT ![m] = "invalid"]
     /\ UNCHANGED ran

StatementFails(p) ==
  /\ proc[p].pc = "statement"
  /\ faults < MaxFaults
  /\ faults' = faults + 1
  /\ FailedStatement(proc[p].file)
  /\ Close(p)
  /\ UNCHANGED <<ledger, schema, roles, web>>

\* The name is taken: CREATE INDEX fails at once.
NameTaken(p) ==
  /\ proc[p].pc = "statement"
  /\ object[proc[p].file] # "none"
  /\ Close(p)
  /\ UNCHANGED <<ledger, ran, object, schema, roles, web, faults>>

\* _cic_post_validate_index.
PostValid(m) == Class[m] = "cic" => object[m] = "valid"

\* _finalize_online_migration, after the index has been validated.
FinalizeOnline(p) ==
  LET m == proc[p].file
      settled == PostValid(m) /\ ledger[m] = "sentinel"
  IN  /\ proc[p].pc = "executed"
      /\ ledger' = IF settled THEN [ledger EXCEPT ![m] = "ok"] ELSE ledger
      /\ IF settled /\ proc[p].op = "run"
         THEN /\ proc' = [proc EXCEPT ![p].pc = "pending", ![p].file = "none",
                                      ![p].applied = @ \cup {m}]
              /\ UNCHANGED lock
         ELSE Close(p)
      /\ UNCHANGED <<ran, object, schema, roles, web, faults>>

-----------------------------------------------------------------------------
(* recover_online_migration.                                               *)

RecoveryAllowed(p) ==
  /\ Authorised(proc[p].mode)
  /\ ledger[proc[p].file] = "sentinel"
  /\ Class[proc[p].file] = "cic"
  /\ object[proc[p].file] # "foreign"

RecoveryRefused(p) ==
  /\ proc[p].pc = "locked" /\ proc[p].op = "recover"
  /\ ~RecoveryAllowed(p)
  /\ Close(p)
  /\ UNCHANGED <<ledger, ran, object, schema, roles, web, faults>>

\* _recover_cic_index: an index found in place is dropped first.
RecoverCicIndex(p) ==
  /\ proc[p].pc = "locked" /\ proc[p].op = "recover"
  /\ RecoveryAllowed(p)
  /\ proc' = [proc EXCEPT ![p].pc = IF object[proc[p].file] = "none" THEN "statement"
                                    ELSE "drop"]
  /\ UNCHANGED <<ledger, ran, object, schema, roles, lock, web, faults>>

DropIndex(p) ==
  /\ proc[p].pc = "drop"
  /\ object' = [object EXCEPT ![proc[p].file] = "none"]
  /\ ran' = [ran EXCEPT ![proc[p].file] = 0]
  /\ proc' = [proc EXCEPT ![p].pc = "statement"]
  /\ UNCHANGED <<ledger, schema, roles, lock, web, faults>>

\* DROP INDEX CONCURRENTLY that fails leaves the index, valid no longer.
DropFails(p) ==
  /\ proc[p].pc = "drop"
  /\ faults < MaxFaults
  /\ faults' = faults + 1
  /\ object' = [object EXCEPT ![proc[p].file] = "invalid"]
  /\ ran' = [ran EXCEPT ![proc[p].file] = 0]
  /\ Close(p)
  /\ UNCHANGED <<ledger, schema, roles, web>>

-----------------------------------------------------------------------------
(* Losing the client.                                                      *)

\* Between statements, or inside a transaction, which is rolled back: the
\* session ends and the server drops its lock.
Crash(p) ==
  /\ proc[p].pc # "idle"
  /\ faults < MaxFaults
  /\ faults' = faults + 1
  /\ Close(p)
  /\ UNCHANGED <<ledger, ran, object, schema, roles, web>>

\* During a statement outside a transaction: the server carries on with it.
CrashDuringStatement(p) ==
  /\ proc[p].pc = "statement"
  /\ faults < MaxFaults
  /\ faults' = faults + 1
  /\ proc' = [proc EXCEPT ![p].pc = "orphan"]
  /\ UNCHANGED <<ledger, ran, object, schema, roles, lock, web>>

OrphanEnds(p) ==
  /\ proc[p].pc = "orphan"
  /\ FailedStatement(proc[p].file)
  /\ Close(p)
  /\ UNCHANGED <<ledger, schema, roles, web, faults>>

\* Someone else's relation takes the name of an index not yet there.
ForeignObject(m) ==
  /\ Class[m] = "cic" /\ object[m] = "none"
  /\ faults < MaxFaults
  /\ faults' = faults + 1
  /\ object' = [object EXCEPT ![m] = "foreign"]
  /\ UNCHANGED <<ledger, ran, schema, roles, lock, proc, web>>

-----------------------------------------------------------------------------
\* Fault: a web process starts once every migration has some row.
VerifyCurrentByName(n) ==
  /\ Rows = Manifest(n)
  /\ web' = n
  /\ UNCHANGED <<ledger, ran, object, schema, roles, lock, proc, faults>>

\* verify_migrations_current when a web process of release n starts.
VerifyCurrent(n) ==
  /\ Rows = Manifest(n)
  /\ Valid(ledger, n, FALSE)
  /\ web' = n
  /\ UNCHANGED <<ledger, ran, object, schema, roles, lock, proc, faults>>

Step(p) ==
  \/ AcquireLock(p) \/ PrepareHistory(p) \/ Refuse(p) \/ RunComplete(p)
  \/ WindowMissing(p) \/ ApplyTransactional(p) \/ TombstoneRaises(p)
  \/ PreflightRefuses(p) \/ MarkOnlineRecovery(p)
  \/ StatementSucceeds(p) \/ NameTaken(p) \/ FinalizeOnline(p)
  \/ RecoveryRefused(p) \/ RecoverCicIndex(p) \/ DropIndex(p) \/ OrphanEnds(p)

Next ==
  \/ \E p \in Procs :
       \/ StartRun(p) \/ StartRecovery(p) \/ LockTimeout(p) \/ Step(p)
       \/ StatementFails(p) \/ DropFails(p) \/ Crash(p) \/ CrashDuringStatement(p)
  \/ \E n \in Releases : VerifyCurrent(n)
  \/ \E m \in Migrations : ForeignObject(m)

Spec == Init /\ [][Next]_vars

\* The server ends what it began, a session takes its steps, and an operator
\* goes on running the recovery the sentinel asks for and gets the lock now
\* and then.
Recoveries(p) == StartRecovery(p) /\ Class[proc'[p].file] = "cic" /\ Authorised(proc'[p].mode)

-----------------------------------------------------------------------------
(* Properties.                                                             *)

\* Every variable has its type, and only the lock's holder is past it.
TypeOK ==
  /\ ledger \in [Migrations -> {"absent", "null", "sentinel", "ok"}]
  /\ ran \in [Migrations -> Nat]
  /\ object \in [Migrations -> {"none", "invalid", "valid", "foreign"}]
  /\ schema \in BOOLEAN /\ roles \in BOOLEAN
  /\ web \in {0} \cup Releases /\ faults \in 0..MaxFaults
  /\ \A p \in Procs :
       /\ proc[p].pc \in {"idle", "waiting", "locked", "pending", "statement",
                          "executed", "drop", "orphan"}
       /\ proc[p].pc \notin {"idle", "waiting"} => lock = {p}

\* What a migration was to bring about is there.  A tombstone brings nothing.
InPlace(m) ==
  \/ m \in DOMAIN Tombstone
  \/ ran[m] = 1 /\ (Class[m] = "cic" => object[m] = "valid")

\* No migration's SQL takes effect twice, whatever sessions fail, are lost or
\* run side by side, and a row that counts as applied is there only for a
\* migration whose result is in place: a concurrent index that exists and is
\* valid, a data seed the baseline does not hold.
\* (migration_runner._validate_applied, _finalize_online_migration.)
LedgerTrue ==
  \A m \in Migrations : ran[m] <= 1 /\ (ledger[m] = "ok" => InPlace(m))

\* A web process that was admitted still has every migration of its release
\* in place.  (verify_migrations_current at startup.)
WebHasItsSchema == web # 0 => \A m \in Manifest(web) : InPlace(m)

\* A migration starts only when everything before it in the manifest is in
\* place and recorded, on a fresh database, on an old ledger without checksums
\* and in the authority cutover alike.  (_apply_pending_migrations.)
EarlierFirst ==
  \A m \in Migrations :
    ledger[m] = "absent" /\ ledger'[m] # "absent" /\ schema
    /\ m \notin DOMAIN Tombstone
    => \A x \in Earlier(m) : ledger[x] = "ok" /\ InPlace(x)

\* While one migration's recovery sentinel stands, no other migration is
\* recorded or takes effect and no web process that knows it is admitted.
\* (ONLINE_RECOVERY_PREFIX as the ledger's fence.)
SentinelFences ==
  \A m \in Migrations :
    ledger[m] = "sentinel" =>
      /\ \A x \in Migrations \ {m} : ledger'[x] = ledger[x] /\ ran'[x] = ran[x]
      /\ web' = web

\* Recovery never removes or replaces an object that is not the migration's own
\* index.  (_recover_cic_index.)
ForeignKept ==
  \A m \in Migrations : object[m] = "foreign" => object'[m] = "foreign"

=============================================================================
