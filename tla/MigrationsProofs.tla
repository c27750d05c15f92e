-------------------------- MODULE MigrationsProofs --------------------------
(***************************************************************************)
(* Proofs about the schema migrations, for every manifest, every number of *)
(* sessions and failures and every database a first run may meet.          *)
(***************************************************************************)
EXTENDS Migrations, WellFoundedInduction, TLAPS

(* A database the first run may meet: empty, or with a history whose rows  *)
(* tell the truth and no recovery under way.                               *)
StartOK(s) ==
  /\ s.ledger \in [Migrations -> {"absent", "null", "ok"}]
  /\ s.object \in [Migrations -> {"none", "invalid", "valid", "foreign"}]
  /\ s.schema \in BOOLEAN /\ s.roles \in BOOLEAN
  /\ ~s.schema => \A m \in Migrations : s.ledger[m] = "absent"
  /\ \A m \in Migrations :
       IF Class[m] = "cic" THEN s.object[m] = "valid" <=> s.ledger[m] # "absent"
                           ELSE s.object[m] = "none"

(* What the proofs assume of the constants.  load_migration_manifest       *)
(* refuses a manifest without incorporated_through; 040 and 041 follow one *)
(* another, and what the baseline holds, and a tombstone, is no index      *)
(* built concurrently.                                                     *)
MigrationConstants ==
  /\ Len(Order) \in Nat
  /\ \A i, j \in 1..Len(Order) : Order[i] = Order[j] => i = j
  /\ \A m \in Migrations : Class[m] \in {"tx", "maint", "online", "cic"}
  /\ Through \in 0..Len(Order)
  /\ Releases \subseteq Through..Len(Order)
  /\ \A m \in Incorporated : Class[m] # "cic"
  /\ Cutover \subseteq Migrations /\ Cutover # {}
  /\ \A c, d \in Cutover : \A m \in Migrations :
       Position(c) <= Position(m) /\ Position(m) <= Position(d) => m \in Cutover
  /\ \A s \in Starts : StartOK(s)
  /\ MaxFaults \in Nat

Points == {"idle", "waiting", "locked", "pending", "statement", "executed",
           "drop", "orphan"}

Session == [pc : Points, op : {"none", "run", "recover"}, mode : Modes \cup {"none"},
            upto : Releases \cup {0}, file : Migrations \cup {"none"},
            window : Migrations \cup {"none"}, applied : SUBSET Migrations]

ShapeOK ==
  /\ ledger \in [Migrations -> {"absent", "null", "sentinel", "ok"}]
  /\ ran \in [Migrations -> Nat]
  /\ object \in [Migrations -> {"none", "invalid", "valid", "foreign"}]
  /\ schema \in BOOLEAN /\ roles \in BOOLEAN
  /\ web \in {0} \cup Releases /\ faults \in 0..MaxFaults
  /\ proc \in [Procs -> Session]
  /\ lock \subseteq Procs

(* What the ledger, the count of effects and the index say of a migration  *)
(* fits together.                                                          *)
MigrationOK(m) ==
  /\ ran[m] <= 1
  /\ ledger[m] = "absent" => ran[m] = 0
  /\ ledger[m] \in {"null", "ok"} => InPlace(m)
  /\ ledger[m] = "sentinel" => Class[m] \in {"online", "cic"}
  /\ IF Class[m] = "cic" THEN ran[m] = 1 <=> object[m] = "valid"
                         ELSE object[m] = "none"

(* One recovery at a time, no row before the schema, and a web process is  *)
(* admitted with its whole release applied.                                *)
LedgerOK ==
  /\ \A m, x \in Migrations : ledger[m] = "sentinel" /\ ledger[x] = "sentinel" => m = x
  /\ ~schema => \A m \in Migrations : ledger[m] = "absent"
  /\ web # 0 => \A m \in Manifest(web) : ledger[m] = "ok"

(* The in-memory copy of a run is the ledger, but for the migration whose  *)
(* statement is being executed.                                            *)
CopyOK(p, others) ==
  /\ schema
  /\ \A m \in others : ledger[m] = "ok" <=> m \in proc[p].applied
  /\ \A m \in others : ledger[m] \in {"absent", "ok"}
  /\ proc[p].mode = "bootstrap" =>
       \A c \in Cutover : \A x \in Earlier(c) \ Cutover : ledger[x] = "ok"

(* Outside a transaction the sentinel stands for the session's migration.  *)
StatementOK(p, m) ==
  /\ m \in Migrations /\ Class[m] \in {"online", "cic"} /\ ledger[m] = "sentinel"
  /\ proc[p].op = "run" => CopyOK(p, Migrations \ {m})
  /\ proc[p].op # "run" => Class[m] = "cic"
  /\ proc[p].pc \in {"statement", "orphan"} /\ Class[m] = "online" => ran[m] = 0
  /\ proc[p].pc = "executed" => ran[m] = 1
  /\ proc[p].pc = "drop" => object[m] \in {"valid", "invalid"}

SessionOK(p) ==
  /\ proc[p].pc # "idle" => proc[p].upto \in Releases
  /\ proc[p].pc \notin {"idle", "waiting"} => lock = {p}
  /\ proc[p].pc \in {"waiting", "locked"} /\ proc[p].op = "recover" =>
       proc[p].file \in Migrations /\ Class[proc[p].file] \in {"online", "cic"}
  /\ proc[p].pc = "pending" => CopyOK(p, Migrations) /\ proc[p].op = "run"
  /\ proc[p].pc \in {"statement", "executed", "drop", "orphan"} =>
       StatementOK(p, proc[p].file)

IndInv ==
  /\ ShapeOK /\ LedgerOK
  /\ \A m \in Migrations : MigrationOK(m)
  /\ \A p \in Procs : SessionOK(p)

-----------------------------------------------------------------------------
(* The order of the manifest.                                              *)

Below == {ss \in Nat \X Nat : ss[1] < ss[2]}

(* A set of numbers that is not empty has a least one.                     *)
LEMMA LeastNat ==
  ASSUME NEW S \in SUBSET Nat, S # {}
  PROVE  \E x \in S : \A y \in S : x <= y
<1>1. IsWellFoundedOn(Below, Nat)
  BY NatLessThanWellFounded DEF Below, OpToRel
<1>2. PICK x \in S : \A y \in S : ~(<<y, x>> \in Below)
  BY ZenonT(60), <1>1, WFMin
<1>3. ASSUME NEW y \in S PROVE x <= y
  <2>1. <<y, x>> \notin Below
    BY <1>2
  <2> QED
    BY <2>1 DEF Below
<1> QED
  BY <1>2, <1>3

(* Every migration has one place in the manifest.                          *)
LEMMA PositionOf ==
  ASSUME MigrationConstants, NEW i \in 1..Len(Order)
  PROVE  Order[i] \in Migrations /\ Position(Order[i]) = i
  BY DEF MigrationConstants, Migrations, Position

LEMMA Placed ==
  ASSUME MigrationConstants, NEW m \in Migrations
  PROVE  Position(m) \in 1..Len(Order) /\ Order[Position(m)] = m
<1>1. PICK i \in 1..Len(Order) : Order[i] = m
  BY DEF Migrations
<1> QED
  BY <1>1, PositionOf

LEMMA ReleaseLength ==
  ASSUME MigrationConstants, NEW n \in Releases
  PROVE  n \in Nat /\ n <= Len(Order) /\ Through <= n /\ Len(Order) \in Nat /\ Through \in Nat
  BY DEF MigrationConstants

(* A release holds the migrations up to its length, and what comes earlier *)
(* than a migration has the lower position.                                *)
LEMMA InManifest ==
  ASSUME MigrationConstants, NEW n \in Releases, NEW m \in Migrations
  PROVE  m \in Manifest(n) <=> Position(m) <= n
<1>1. n \in Nat /\ n <= Len(Order) /\ Len(Order) \in Nat
  BY ReleaseLength
<1>2. Position(m) \in 1..Len(Order) /\ Order[Position(m)] = m
  BY Placed
<1>3. ASSUME m \in Manifest(n) PROVE Position(m) <= n
  <2>1. PICK i \in 1..n : m = Order[i]
    BY <1>3 DEF Manifest
  <2>2. Position(m) = i
    BY <1>1, <2>1, PositionOf
  <2> QED
    BY <1>1, <2>1, <2>2
<1>4. ASSUME Position(m) <= n PROVE m \in Manifest(n)
  BY <1>1, <1>2, <1>4 DEF Manifest
<1> QED
  BY <1>3, <1>4

LEMMA ManifestIn ==
  ASSUME MigrationConstants, NEW n \in Releases
  PROVE  Manifest(n) \subseteq Migrations
<1>1. n \in Nat /\ n <= Len(Order) /\ Len(Order) \in Nat
  BY ReleaseLength
<1> QED
  BY <1>1 DEF Manifest, Migrations

LEMMA EarlierIs ==
  ASSUME MigrationConstants, NEW m \in Migrations, NEW x \in Earlier(m)
  PROVE  x \in Migrations /\ Position(x) < Position(m)
<1>1. Position(m) \in 1..Len(Order) /\ Len(Order) \in Nat
  BY Placed DEF MigrationConstants
<1>2. PICK i \in 1..(Position(m) - 1) : x = Order[i]
  BY DEF Earlier
<1>3. i \in 1..Len(Order) /\ i < Position(m)
  BY <1>1, <1>2
<1> QED
  BY <1>2, <1>3, PositionOf

(* The first pending migration.                                            *)
LEMMA LeastMigration ==
  ASSUME MigrationConstants, NEW S \in SUBSET Migrations, S # {}
  PROVE  \E m \in S : \A x \in S : Position(m) <= Position(x)
<1> DEFINE T == {Position(m) : m \in S}
<1>1. T \in SUBSET Nat /\ T # {}
  BY Placed DEF MigrationConstants
<1>2. PICK t \in T : \A u \in T : t <= u
  BY ZenonT(60), <1>1, LeastNat
<1> QED
  BY <1>2

LEMMA Next1Least ==
  ASSUME MigrationConstants, NEW p \in Procs, proc[p].upto \in Releases,
         Pending(p) # {}
  PROVE  /\ Next1(p) \in Pending(p) /\ Next1(p) \in Migrations
         /\ \A x \in Pending(p) : Position(Next1(p)) <= Position(x)
<1>1. Pending(p) \in SUBSET Migrations
  BY ManifestIn DEF Pending
<1>2. \E m \in Pending(p) : \A x \in Pending(p) : Position(m) <= Position(x)
  BY <1>1, LeastMigration
<1> QED
  BY <1>1, <1>2 DEF Next1

(* When a run comes to a migration, the migration has no row and all that  *)
(* come earlier have theirs.                                               *)
LEMMA EarlierRecorded ==
  ASSUME MigrationConstants, NEW p \in Procs, SessionOK(p),
         proc[p].pc = "pending", Pending(p) # {}
  PROVE  /\ Next1(p) \in Migrations
         /\ ledger[Next1(p)] = "absent"
         /\ Next1(p) \notin proc[p].applied
         /\ \A x \in Earlier(Next1(p)) : x \in Migrations /\ ledger[x] = "ok"
<1> DEFINE m == Next1(p)
<1>1. proc[p].upto \in Releases /\ CopyOK(p, Migrations)
  BY DEF SessionOK
<1>2. m \in Pending(p) /\ m \in Migrations
      /\ \A x \in Pending(p) : Position(m) <= Position(x)
  BY <1>1, Next1Least
<1>3. m \in Manifest(proc[p].upto) /\ m \notin proc[p].applied
      /\ (proc[p].mode = "bootstrap" => m \in Cutover)
  BY <1>2 DEF Pending
<1>4. ledger[m] = "absent"
  BY <1>1, <1>2, <1>3 DEF CopyOK
<1>5. ASSUME NEW x \in Earlier(m) PROVE x \in Migrations /\ ledger[x] = "ok"
  <2>1. x \in Migrations /\ Position(x) < Position(m)
    BY <1>2, EarlierIs
  <2>2. Position(m) \in Nat /\ Position(x) \in Nat /\ proc[p].upto \in Nat
    <3>1. Position(m) \in Nat /\ Position(x) \in Nat
      BY <1>2, <2>1, Placed
    <3>2. proc[p].upto \in Nat
      BY <1>1, ReleaseLength
    <3> QED
      BY <3>1, <3>2
  <2>3. x \notin Pending(p)
    BY <1>2, <2>1, <2>2
  <2>4. x \in Manifest(proc[p].upto)
    <3>1. Position(m) <= proc[p].upto
      BY <1>1, <1>2, <1>3, InManifest
    <3>2. Position(x) <= proc[p].upto
      BY <2>1, <2>2, <3>1
    <3> QED
      BY <1>1, <2>1, <3>2, InManifest
  <2>5. CASE x \in proc[p].applied
    BY <1>1, <2>1, <2>5 DEF CopyOK
  <2>6. CASE x \notin proc[p].applied
    <3>1. proc[p].mode = "bootstrap" /\ x \notin Cutover
      BY <2>3, <2>4, <2>6 DEF Pending
    <3> QED
      BY <1>1, <1>3, <2>1, <3>1 DEF CopyOK
  <2> QED
    BY <2>5, <2>6
<1> QED
  BY <1>2, <1>3, <1>4, <1>5

(* The bootstrap finds every migration before the cutover recorded.        *)
LEMMA BootstrapPrefix ==
  ASSUME MigrationConstants, NEW n \in Releases, BootstrapAllowed(n),
         NEW c \in Cutover, NEW x \in Earlier(c) \ Cutover,
         ledger \in [Migrations -> {"absent", "null", "sentinel", "ok"}]
  PROVE  x \in Migrations /\ ledger[x] = "ok"
<1> DEFINE P(i) == Order[i] \in Cutover /\ \A m \in Cutover : i <= Position(m)
           first == CHOOSE i \in 1..Len(Order) : P(i)
<1>1. PICK d \in Cutover : \A m \in Cutover : Position(d) <= Position(m)
  BY LeastMigration DEF MigrationConstants
<1>2. c \in Migrations /\ d \in Migrations /\ Len(Order) \in Nat
  BY DEF MigrationConstants
<1>3. Position(d) \in 1..Len(Order) /\ P(Position(d))
  BY <1>1, <1>2, Placed
<1>4. first \in 1..Len(Order) /\ P(first)
  BY <1>3
<1>5. Position(Order[first]) = first /\ Order[first] \in Cutover
  BY <1>4, PositionOf
<1>0. Rows = {Order[i] : i \in 1..(first - 1)} /\ Valid(ledger, n, FALSE)
  BY ZenonT(60) DEF BootstrapAllowed
<1> HIDE DEF first
<1>6. x \in Migrations /\ Position(x) < Position(c)
  BY <1>2, EarlierIs
<1>7. Position(x) \in 1..Len(Order) /\ Position(c) \in Nat /\ Order[Position(x)] = x
  BY <1>2, <1>6, Placed
<1>8. Position(x) < first
  <2>1. ASSUME first <= Position(x) PROVE FALSE
    <3>1. Position(Order[first]) <= Position(x) /\ Position(x) <= Position(c)
      BY <1>4, <1>5, <1>6, <1>7, <2>1
    <3>2. x \in Cutover
      BY <1>5, <1>6, <3>1 DEF MigrationConstants
    <3> QED
      BY <3>2
  <2> QED
    BY <1>4, <1>7, <2>1
<1>9. x \in {Order[i] : i \in 1..(first - 1)}
  BY <1>4, <1>7, <1>8
<1> QED
  BY <1>6, <1>9, <1>0, SMTT(60) DEF Rows, Valid

-----------------------------------------------------------------------------
(* What a step leaves alone.                                               *)

(* The database is as it was.                                              *)
SameDatabase == UNCHANGED <<ledger, ran, object, schema, web>>

LEMMA DatabaseFrame ==
  ASSUME IndInv, SameDatabase
  PROVE  LedgerOK' /\ \A m \in Migrations : MigrationOK(m)'
  BY ZenonT(60) DEF IndInv, SameDatabase, LedgerOK, MigrationOK, InPlace,
     Manifest, Migrations

(* A session at rest depends on nothing but itself.                        *)
LEMMA RestingOK ==
  ASSUME NEW q \in Procs, SessionOK(q), proc'[q] = proc[q],
         proc[q].pc \in {"idle", "waiting"}
  PROVE  SessionOK(q)'
  BY Zenon DEF SessionOK

(* Everyone but the lock's holder is at rest.                              *)
LEMMA OneHolder ==
  ASSUME IndInv, NEW p \in Procs, NEW q \in Procs, p # q, lock = {p} \/ lock = {}
  PROVE  proc[q].pc \in {"idle", "waiting"}
<1>1. lock # {q}
  OBVIOUS
<1>2. proc[q].pc \notin {"idle", "waiting"} => lock = {q}
  BY DEF IndInv, SessionOK
<1> QED
  BY <1>1, <1>2

LEMMA OthersKeep ==
  ASSUME IndInv, NEW p \in Procs, lock = {p} \/ lock = {},
         \A q \in Procs : q # p => proc'[q] = proc[q],
         SessionOK(p)'
  PROVE  \A q \in Procs : SessionOK(q)'
<1> SUFFICES ASSUME NEW q \in Procs, q # p PROVE SessionOK(q)'
  OBVIOUS
<1>1. SessionOK(q) /\ proc[q].pc \in {"idle", "waiting"} /\ proc'[q] = proc[q]
  BY OneHolder DEF IndInv
<1> QED
  BY <1>1, RestingOK

(* A session that closed is in order.                                      *)
LEMMA IdleOK ==
  ASSUME NEW p \in Procs, proc'[p] = Idle
  PROVE  SessionOK(p)'
<1>1. proc'[p].pc = "idle"
  BY DEF Idle
<1> QED
  BY <1>1, Zenon DEF SessionOK

LEMMA IdleSession == Idle \in Session
  BY DEF Idle, Session, Points

(* What closing does to the sessions.                                      *)
LEMMA Closed ==
  ASSUME IndInv, NEW p \in Procs, Close(p)
  PROVE  /\ proc' \in [Procs -> Session] /\ lock' \subseteq Procs
         /\ proc'[p] = Idle /\ \A q \in Procs : q # p => proc'[q] = proc[q]
  BY IdleSession DEF IndInv, ShapeOK, Close

(* A step that only closes a session: refusals, the end of a run, a lost   *)
(* client, the end of a wait.                                              *)
LEMMA CloseKeeps ==
  ASSUME IndInv, NEW p \in Procs, Close(p), SameDatabase, UNCHANGED roles,
         faults' \in 0..MaxFaults
  PROVE  IndInv'
<1>1. /\ proc' \in [Procs -> Session] /\ lock' \subseteq Procs
      /\ proc'[p] = Idle /\ \A q \in Procs : q # p => proc'[q] = proc[q]
  BY Closed
<1>2. ShapeOK'
  BY <1>1, ZenonT(60) DEF IndInv, ShapeOK, SameDatabase
<1>3. LedgerOK' /\ \A m \in Migrations : MigrationOK(m)'
  BY DatabaseFrame
<1>4. ASSUME NEW q \in Procs PROVE SessionOK(q)'
  <2>1. CASE q = p
    BY <1>1, <2>1, IdleOK
  <2>2. CASE q # p
    <3>1. SessionOK(q) /\ proc'[q] = proc[q]
      BY <1>1, <2>2 DEF IndInv
    <3>2. lock = {q} => lock' = {q}
      BY <2>2 DEF Close
    <3> QED
      BY <3>1, <3>2, ZenonT(60) DEF SameDatabase, SessionOK, CopyOK,
         StatementOK, Migrations, Earlier, Position
  <2> QED
    BY <2>1, <2>2
<1> QED
  BY <1>2, <1>3, <1>4, Zenon DEF IndInv

(* A step of the holder that leaves the database alone.                    *)
LEMMA SessionStep ==
  ASSUME IndInv, NEW p \in Procs, NEW s \in Session, lock = {p} \/ lock = {},
         proc' = [proc EXCEPT ![p] = s], lock' \subseteq Procs,
         SameDatabase, UNCHANGED roles, faults' \in 0..MaxFaults,
         SessionOK(p)'
  PROVE  IndInv'
<1>1. proc' \in [Procs -> Session] /\ \A q \in Procs : q # p => proc'[q] = proc[q]
  BY DEF IndInv, ShapeOK
<1>2. ShapeOK'
  BY <1>1, ZenonT(60) DEF IndInv, ShapeOK, SameDatabase
<1>3. LedgerOK' /\ \A m \in Migrations : MigrationOK(m)'
  BY DatabaseFrame
<1>4. \A q \in Procs : SessionOK(q)'
  BY <1>1, OthersKeep
<1> QED
  BY <1>2, <1>3, <1>4, Zenon DEF IndInv

(* A step of one migration leaves the others in order.                     *)
LEMMA OneMigration ==
  ASSUME IndInv, NEW m \in Migrations, MigrationOK(m)',
         \A x \in Migrations : x # m =>
           ledger'[x] = ledger[x] /\ ran'[x] = ran[x] /\ object'[x] = object[x]
  PROVE  \A x \in Migrations : MigrationOK(x)'
<1> SUFFICES ASSUME NEW x \in Migrations, x # m PROVE MigrationOK(x)'
  OBVIOUS
<1>1. MigrationOK(x)
  BY DEF IndInv
<1> QED
  BY <1>1 DEF MigrationOK, InPlace

LEMMA LedgerFrame ==
  ASSUME IndInv, UNCHANGED <<ledger, schema, web>>
  PROVE  LedgerOK'
  BY Zenon DEF IndInv, LedgerOK, Manifest, Migrations

-----------------------------------------------------------------------------
(* Starting a session and taking the lock.                                 *)

LEMMA StartKeeps ==
  ASSUME IndInv, NEW p \in Procs, NEW s \in Session, proc[p].pc = "idle",
         proc' = [proc EXCEPT ![p] = s], s.pc = "waiting", s.upto \in Releases,
         s.op = "recover" => s.file \in Migrations /\ Class[s.file] \in {"online", "cic"},
         UNCHANGED <<ledger, ran, object, schema, roles, lock, web, faults>>
  PROVE  IndInv'
<1>1. /\ proc' \in [Procs -> Session] /\ proc'[p] = s
      /\ \A q \in Procs : q # p => proc'[q] = proc[q]
  BY DEF IndInv, ShapeOK
<1>2. ShapeOK'
  BY <1>1, ZenonT(60) DEF IndInv, ShapeOK
<1>3. LedgerOK' /\ \A m \in Migrations : MigrationOK(m)'
  BY DatabaseFrame DEF SameDatabase
<1>4. ASSUME NEW q \in Procs PROVE SessionOK(q)'
  <2>1. CASE q = p
    BY <1>1, <2>1 DEF SessionOK
  <2>2. CASE q # p
    <3>1. SessionOK(q) /\ proc'[q] = proc[q]
      BY <1>1, <2>2 DEF IndInv
    <3> QED
      BY <3>1, ZenonT(60)
         DEF SessionOK, CopyOK, StatementOK, Migrations, Earlier, Position
  <2> QED
    BY SMTT(60), <2>1, <2>2
<1> QED
  BY <1>2, <1>3, <1>4, ZenonT(60) DEF IndInv

LEMMA StartRunStep ==
  ASSUME MigrationConstants, IndInv, NEW p \in Procs, StartRun(p)
  PROVE  IndInv'
<1>1. PICK mode \in Modes, n \in Releases :
        \E w \in {"none"} \cup {m \in Manifest(n) : Class[m] = "maint"} :
          proc' = [proc EXCEPT ![p] = [Idle EXCEPT !.pc = "waiting", !.op = "run",
                                        !.mode = mode, !.upto = n, !.window = w]]
  BY ZenonT(60) DEF StartRun
<1>2. PICK w \in {"none"} \cup {m \in Manifest(n) : Class[m] = "maint"} :
        proc' = [proc EXCEPT ![p] = [Idle EXCEPT !.pc = "waiting", !.op = "run",
                                      !.mode = mode, !.upto = n, !.window = w]]
  BY ZenonT(60), <1>1
<1> DEFINE s == [Idle EXCEPT !.pc = "waiting", !.op = "run",
                             !.mode = mode, !.upto = n, !.window = w]
<1>3. w \in Migrations \cup {"none"}
  BY ManifestIn
<1>4. s \in Session /\ s.pc = "waiting" /\ s.upto = n /\ s.op = "run"
  BY <1>3, ZenonT(60) DEF Session, Idle, Points
<1>5. proc[p].pc = "idle"
      /\ UNCHANGED <<ledger, ran, object, schema, roles, lock, web, faults>>
  BY DEF StartRun
<1> HIDE DEF s
<1>6. proc' = [proc EXCEPT ![p] = s]
  BY <1>2 DEF s
<1> QED
  BY ZenonT(60), <1>4, <1>5, <1>6, StartKeeps

LEMMA StartRecoveryStep ==
  ASSUME MigrationConstants, IndInv, NEW p \in Procs, StartRecovery(p)
  PROVE  IndInv'
<1>1. PICK mode \in Modes \ {"bootstrap"}, n \in Releases :
        \E m \in {x \in Manifest(n) : Class[x] \in {"online", "cic"}} :
          proc' = [proc EXCEPT ![p] = [Idle EXCEPT !.pc = "waiting", !.op = "recover",
                                        !.mode = mode, !.upto = n, !.file = m]]
  BY ZenonT(60) DEF StartRecovery
<1>2. PICK m \in {x \in Manifest(n) : Class[x] \in {"online", "cic"}} :
        proc' = [proc EXCEPT ![p] = [Idle EXCEPT !.pc = "waiting", !.op = "recover",
                                      !.mode = mode, !.upto = n, !.file = m]]
  BY ZenonT(60), <1>1
<1> DEFINE s == [Idle EXCEPT !.pc = "waiting", !.op = "recover",
                             !.mode = mode, !.upto = n, !.file = m]
<1>3. m \in Migrations /\ Class[m] \in {"online", "cic"}
  BY ManifestIn
<1>4. s \in Session /\ s.pc = "waiting" /\ s.upto = n /\ s.file = m
  BY <1>3, ZenonT(60) DEF Session, Idle, Points
<1>5. proc[p].pc = "idle"
      /\ UNCHANGED <<ledger, ran, object, schema, roles, lock, web, faults>>
  BY DEF StartRecovery
<1> HIDE DEF s
<1>6. proc' = [proc EXCEPT ![p] = s]
  BY <1>2 DEF s
<1> QED
  BY ZenonT(60), <1>3, <1>4, <1>5, <1>6, StartKeeps

(* A change of the program counter alone.                                  *)
LEMMA MovedTo ==
  ASSUME IndInv, NEW p \in Procs, NEW c \in Points, proc' = [proc EXCEPT ![p].pc = c]
  PROVE  LET s == [proc[p] EXCEPT !.pc = c]
         IN  /\ s \in Session /\ proc' = [proc EXCEPT ![p] = s] /\ proc'[p] = s
             /\ s.pc = c /\ s.op = proc[p].op /\ s.mode = proc[p].mode
             /\ s.upto = proc[p].upto /\ s.file = proc[p].file
             /\ s.applied = proc[p].applied
  BY SMTT(60) DEF IndInv, ShapeOK, Session

LEMMA AcquireLockStep ==
  ASSUME IndInv, NEW p \in Procs, AcquireLock(p)
  PROVE  IndInv'
<1> DEFINE s == [proc[p] EXCEPT !.pc = "locked"]
<1>1. /\ s \in Session /\ proc' = [proc EXCEPT ![p] = s] /\ proc'[p] = s
      /\ s.pc = "locked" /\ s.op = proc[p].op /\ s.upto = proc[p].upto
      /\ s.file = proc[p].file
  BY MovedTo, ZenonT(60) DEF AcquireLock, Points
<1>2. SessionOK(p) /\ proc[p].pc = "waiting" /\ lock = {} /\ lock' = {p}
      /\ SameDatabase /\ UNCHANGED roles /\ faults' \in 0..MaxFaults
  BY DEF IndInv, ShapeOK, AcquireLock, SameDatabase
<1> HIDE DEF s
<1>3. SessionOK(p)'
  BY <1>1, <1>2 DEF SessionOK
<1> QED
  BY ZenonT(60), <1>1, <1>2, <1>3, SessionStep

(* The steps that close a session and leave the database alone.            *)
LEMMA ClosingSteps ==
  ASSUME IndInv, NEW p \in Procs,
         \/ LockTimeout(p) \/ Refuse(p) \/ RunComplete(p) \/ WindowMissing(p)
         \/ TombstoneRaises(p) \/ PreflightRefuses(p) \/ NameTaken(p)
         \/ RecoveryRefused(p)
  PROVE  IndInv'
<1>1. Close(p) /\ UNCHANGED <<ledger, ran, object, schema, roles, web, faults>>
  BY Zenon DEF LockTimeout, Refuse, RunComplete, WindowMissing,
     TombstoneRaises, PreflightRefuses, NameTaken, RecoveryRefused
<1>2. faults' \in 0..MaxFaults
  BY <1>1 DEF IndInv, ShapeOK
<1> QED
  BY <1>1, <1>2, CloseKeeps DEF SameDatabase

LEMMA CrashStep ==
  ASSUME MigrationConstants, IndInv, NEW p \in Procs, Crash(p)
  PROVE  IndInv'
<1>1. faults' \in 0..MaxFaults
  BY DEF IndInv, ShapeOK, Crash, MigrationConstants
<1> QED
  BY <1>1, CloseKeeps DEF SameDatabase, Crash

LEMMA CrashDuringStatementStep ==
  ASSUME MigrationConstants, IndInv, NEW p \in Procs, CrashDuringStatement(p)
  PROVE  IndInv'
<1> DEFINE s == [proc[p] EXCEPT !.pc = "orphan"]
<1>1. /\ s \in Session /\ proc' = [proc EXCEPT ![p] = s] /\ proc'[p] = s
      /\ s.pc = "orphan" /\ s.op = proc[p].op /\ s.upto = proc[p].upto
      /\ s.file = proc[p].file /\ s.mode = proc[p].mode /\ s.applied = proc[p].applied
  BY MovedTo, ZenonT(60) DEF CrashDuringStatement, Points
<1>2. SessionOK(p) /\ proc[p].pc = "statement" /\ UNCHANGED lock
      /\ SameDatabase /\ UNCHANGED roles
  BY DEF IndInv, CrashDuringStatement, SameDatabase
<1>3. faults' \in 0..MaxFaults /\ lock' \subseteq Procs
  BY DEF IndInv, ShapeOK, CrashDuringStatement, MigrationConstants
<1>4. lock = {p} /\ StatementOK(p, proc[p].file)
  BY <1>2, SMTT(60) DEF SessionOK
<1> HIDE DEF s
<1>5. SessionOK(p)'
  <2>1. StatementOK(p, proc[p].file)'
    BY <1>1, <1>2, <1>4
       DEF StatementOK, CopyOK, SameDatabase, Migrations, Earlier, Position
  <2> QED
    BY <1>1, <1>2, <1>4, <2>1, SMTT(60) DEF SessionOK
<1> QED
  BY ZenonT(60), <1>1, <1>2, <1>3, <1>4, <1>5, SessionStep

-----------------------------------------------------------------------------
(* Preparing the ledger.                                                   *)

(* A run's release holds all that the baseline contains.                   *)
LEMMA IncorporatedIn ==
  ASSUME MigrationConstants, NEW n \in Releases
  PROVE  Incorporated \subseteq Manifest(n)
<1>1. n \in Nat /\ Through \in Nat /\ Through <= n
  BY ReleaseLength
<1> QED
  BY <1>1 DEF Incorporated, Manifest

(* After the preparation every row counts as applied, rows that did before *)
(* still do, and each migration is in order.                               *)
LEMMA PreparedMigration ==
  ASSUME MigrationConstants, IndInv, NEW p \in Procs, PrepareHistory(p),
         NEW m \in Migrations
  PROVE  /\ ledger'[m] \in {"absent", "ok"}
         /\ ledger[m] = "ok" => ledger'[m] = "ok"
         /\ ran'[m] \in Nat /\ MigrationOK(m)'
<1> DEFINE n == proc[p].upto
<1>1. /\ Valid(ledger, n, TRUE) /\ n \in Releases /\ object' = object
      /\ MigrationOK(m) /\ ran[m] \in Nat
      /\ ledger[m] \in {"absent", "null", "sentinel", "ok"}
  BY ZenonT(60) DEF PrepareHistory, Admitted, IndInv, SessionOK, ShapeOK
<1>2. ledger[m] # "sentinel"
  BY <1>1, SMTT(60) DEF Valid
<1>3. CASE schema
  <2>1. ledger' = Backfilled /\ ran' = ran
    BY <1>3 DEF PrepareHistory
  <2>2. ledger'[m] = IF m \in Adopted \/ ledger[m] = "null" THEN "ok" ELSE ledger[m]
    BY <2>1 DEF Backfilled
  <2>3. m \in Adopted => m \in DOMAIN Tombstone
    BY SMTT(60) DEF Adopted
  <2> QED
    BY <1>1, <1>2, <2>1, <2>2, <2>3 DEF MigrationOK, InPlace
<1>4. CASE ~schema
  <2>1. \A x \in Migrations : ledger[x] = "absent"
    BY <1>4 DEF IndInv, LedgerOK
  <2>2. Adopted = {}
    BY <2>1 DEF Adopted, Rows
  <2>3. Backfilled[m] = "absent"
    BY <2>1, <2>2 DEF Backfilled
  <2>4. /\ ledger' = RecordFreshBaseline(Backfilled, n)
        /\ ran' = [x \in Migrations |-> IF x \in Incorporated THEN 1 ELSE ran[x]]
    BY <1>4 DEF PrepareHistory
  <2>5. m \in Incorporated => m \in Manifest(n)
    BY <1>1, IncorporatedIn
  <2>6. ledger'[m] = IF m \in Incorporated THEN "ok" ELSE "absent"
    BY <2>3, <2>4, <2>5, SMTT(60) DEF RecordFreshBaseline
  <2>7. ran'[m] = IF m \in Incorporated THEN 1 ELSE 0
    BY <1>1, <2>1, <2>4 DEF MigrationOK
  <2>8. m \in Incorporated => Class[m] # "cic"
    BY DEF MigrationConstants
  <2> QED
    BY <1>1, <2>1, <2>6, <2>7, <2>8, SMTT(60) DEF MigrationOK, InPlace
<1> QED
  BY <1>3, <1>4

LEMMA PrepareHistoryStep ==
  ASSUME MigrationConstants, IndInv, NEW p \in Procs, PrepareHistory(p)
  PROVE  IndInv'
<1> DEFINE rows == {m \in Migrations : ledger'[m] # "absent"}
           s == [proc[p] EXCEPT !.pc = "pending", !.applied = rows]
<1>1. /\ proc[p] \in Session /\ SessionOK(p) /\ proc[p].pc = "locked"
      /\ proc[p].op = "run" /\ Admitted(p)
      /\ schema' = TRUE /\ UNCHANGED <<object, roles, lock, web, faults>>
  BY DEF IndInv, ShapeOK, PrepareHistory
<1>2. lock = {p} /\ proc[p].upto \in Releases
  BY <1>1 DEF SessionOK
<1>3. \A m \in Migrations :
        /\ ledger'[m] \in {"absent", "ok"}
        /\ ledger[m] = "ok" => ledger'[m] = "ok"
        /\ ran'[m] \in Nat /\ MigrationOK(m)'
  BY PreparedMigration
<1>4. ledger' \in [Migrations -> {"absent", "null", "sentinel", "ok"}]
      /\ ran' \in [Migrations -> Nat]
  <2>1. DOMAIN ledger' = Migrations /\ ledger' = [m \in Migrations |-> ledger'[m]]
    BY DEF PrepareHistory, Backfilled, RecordFreshBaseline
  <2>2. DOMAIN ran' = Migrations /\ ran' = [m \in Migrations |-> ran'[m]]
    BY SMTT(60) DEF PrepareHistory, IndInv, ShapeOK
  <2> QED
    BY SMTT(60), <1>3, <2>1, <2>2
<1>5. /\ proc' = [proc EXCEPT ![p] = s] /\ proc'[p] = s /\ s \in Session
      /\ s.pc = "pending" /\ s.applied = rows /\ s.op = "run"
      /\ s.upto = proc[p].upto /\ s.mode = proc[p].mode
  <2>1. proc' = [proc EXCEPT ![p].pc = "pending", ![p].applied = rows]
    BY DEF PrepareHistory
  <2> QED
    BY <1>1, <2>1, ZenonT(60) DEF IndInv, ShapeOK, Session, Points
<1> HIDE DEF s
<1>6. proc' \in [Procs -> Session] /\ \A q \in Procs : q # p => proc'[q] = proc[q]
  BY <1>5 DEF IndInv, ShapeOK
<1>7. ShapeOK'
  BY <1>1, <1>4, <1>6, ZenonT(60) DEF IndInv, ShapeOK
<1>8. LedgerOK'
  <2>1. ASSUME web' # 0, NEW m \in Manifest(web') PROVE ledger'[m] = "ok"
    <3>1. web = web' /\ web \in Releases
      BY <1>1, <2>1 DEF IndInv, ShapeOK
    <3>2. ledger[m] = "ok" /\ m \in Migrations
      BY <2>1, <3>1, ManifestIn, SMTT(60) DEF IndInv, LedgerOK
    <3> QED
      BY <1>3, <3>2
  <2> QED
    BY <1>1, <1>3, <2>1, SMTT(60) DEF LedgerOK, Manifest, Migrations
<1>9. CopyOK(p, Migrations)'
  <2>1. ASSUME proc[p].mode = "bootstrap", NEW c \in Cutover,
               NEW x \in Earlier(c) \ Cutover
        PROVE  ledger'[x] = "ok"
    <3>1. BootstrapAllowed(proc[p].upto)
      BY <1>1, <2>1 DEF Admitted
    <3>2. x \in Migrations /\ ledger[x] = "ok"
      BY <1>2, <2>1, <3>1, BootstrapPrefix, SMTT(60) DEF IndInv, ShapeOK
    <3> QED
      BY SMTT(60), <1>3, <3>2
  <2>2. \A m \in Migrations : ledger'[m] = "ok" <=> m \in rows
    BY SMTT(60), <1>3
  <2> HIDE DEF rows
  <2> QED
    BY <1>1, <1>3, <1>5, <2>1, <2>2, SMTT(60) DEF CopyOK, Migrations, Earlier,
       Position
<1>10. SessionOK(p)'
  BY <1>1, <1>2, <1>5, <1>9, SMTT(60) DEF SessionOK
<1>11. \A q \in Procs : SessionOK(q)'
  BY SMTT(60), <1>2, <1>6, <1>10, OthersKeep
<1> QED
  BY <1>3, <1>7, <1>8, <1>11, ZenonT(60) DEF IndInv

-----------------------------------------------------------------------------
(* Applying a migration.                                                   *)

(* Rows that count as applied keep the promise made to web processes.      *)
LEMMA WebKept ==
  ASSUME MigrationConstants, IndInv, UNCHANGED web,
         \A m \in Migrations : ledger[m] = "ok" => ledger'[m] = "ok"
  PROVE  web' # 0 => \A m \in Manifest(web') : ledger'[m] = "ok"
<1> SUFFICES ASSUME web' # 0, NEW m \in Manifest(web') PROVE ledger'[m] = "ok"
  OBVIOUS
<1>1. web = web' /\ web \in Releases
  BY DEF IndInv, ShapeOK
<1>2. ledger[m] = "ok" /\ m \in Migrations
  BY <1>1, ManifestIn DEF IndInv, LedgerOK
<1> QED
  BY <1>2

LEMMA ApplyTransactionalStep ==
  ASSUME MigrationConstants, IndInv, NEW p \in Procs, ApplyTransactional(p)
  PROVE  IndInv'
<1>0. /\ SessionOK(p) /\ proc[p].pc = "pending" /\ Pending(p) # {}
  BY DEF IndInv, ApplyTransactional, AtMigration
<1> PICK m \in Migrations : m = Next1(p) /\ ledger[m] = "absent" /\ m \notin proc[p].applied
  BY <1>0, EarlierRecorded
<1> DEFINE s == [proc[p] EXCEPT !.applied = @ \cup {m}]
<1>1. /\ proc[p] \in Session /\ SessionOK(p) /\ proc[p].pc = "pending" /\ Pending(p) # {}
      /\ Class[m] \in {"tx", "maint"} /\ m \notin DOMAIN Tombstone
      /\ ran' = [ran EXCEPT ![m] = @ + 1] /\ ledger' = [ledger EXCEPT ![m] = "ok"]
      /\ proc' = [proc EXCEPT ![p].applied = @ \cup {m}]
      /\ UNCHANGED <<object, schema, lock, web, faults>>
  BY DEF IndInv, ShapeOK, ApplyTransactional, AtMigration
<1>2. /\ lock = {p} /\ proc[p].upto \in Releases /\ CopyOK(p, Migrations)
      /\ proc[p].op = "run"
  BY <1>1 DEF SessionOK
<1>3. m \in Migrations /\ ledger[m] = "absent" /\ m \notin proc[p].applied
  OBVIOUS
<1>4. roles' \in BOOLEAN
  BY DEF ApplyTransactional
<1>5. /\ ledger'[m] = "ok" /\ ran'[m] = ran[m] + 1 /\ ran[m] \in Nat
      /\ \A x \in Migrations : x # m => ledger'[x] = ledger[x] /\ ran'[x] = ran[x]
      /\ ledger' \in [Migrations -> {"absent", "null", "sentinel", "ok"}]
      /\ ran' \in [Migrations -> Nat]
  BY <1>1, <1>3 DEF IndInv, ShapeOK
<1>6. /\ proc' = [proc EXCEPT ![p] = s] /\ proc'[p] = s /\ s \in Session
      /\ s.pc = "pending" /\ s.applied = proc[p].applied \cup {m} /\ s.op = "run"
      /\ s.upto = proc[p].upto /\ s.mode = proc[p].mode
  BY <1>1, <1>2, <1>3, SMTT(60) DEF IndInv, ShapeOK, Session
<1> HIDE DEF s
<1>7. proc' \in [Procs -> Session] /\ \A q \in Procs : q # p => proc'[q] = proc[q]
  BY <1>6 DEF IndInv, ShapeOK
<1>8. ShapeOK'
  BY <1>1, <1>4, <1>5, <1>7, ZenonT(60) DEF IndInv, ShapeOK
<1>9. MigrationOK(m)'
  BY <1>1, <1>3, <1>5 DEF IndInv, MigrationOK, InPlace
<1>10. \A x \in Migrations : MigrationOK(x)'
  BY SMTT(60), <1>1, <1>3, <1>5, <1>9, OneMigration
<1>11. LedgerOK'
  <2>1. web' # 0 => \A x \in Manifest(web') : ledger'[x] = "ok"
    BY SMTT(60), <1>1, <1>5, WebKept
  <2>2. \A x \in Migrations : ledger'[x] \in {"absent", "ok"}
    BY <1>2, <1>5 DEF CopyOK
  <2>3. schema'
    BY <1>1, <1>2, SMTT(60) DEF CopyOK
  <2> QED
    BY <2>1, <2>2, <2>3, SMTT(60) DEF LedgerOK, Manifest, Migrations
<1>12. CopyOK(p, Migrations)'
  <2>1. \A x \in Migrations : /\ ledger'[x] = "ok" <=> x \in proc'[p].applied
                              /\ ledger'[x] \in {"absent", "ok"}
    BY <1>2, <1>5, <1>6, SMTT(60) DEF CopyOK
  <2>2. ASSUME proc[p].mode = "bootstrap", NEW c \in Cutover,
               NEW x \in Earlier(c) \ Cutover
        PROVE  ledger'[x] = "ok"
    <3>1. x \in Migrations /\ ledger[x] = "ok"
      BY <1>2, <2>2, EarlierIs, SMTT(60) DEF CopyOK, MigrationConstants
    <3> QED
      BY SMTT(60), <1>5, <3>1
  <2> QED
    BY <1>1, <1>2, <1>6, <2>1, <2>2, SMTT(60) DEF CopyOK, Migrations, Earlier,
       Position
<1>13. SessionOK(p)'
  BY <1>1, <1>2, <1>6, <1>12, SMTT(60) DEF SessionOK
<1>14. \A q \in Procs : SessionOK(q)'
  BY SMTT(60), <1>2, <1>7, <1>13, OthersKeep
<1> QED
  BY <1>8, <1>10, <1>11, <1>14, ZenonT(60) DEF IndInv

LEMMA MarkOnlineRecoveryStep ==
  ASSUME MigrationConstants, IndInv, NEW p \in Procs, MarkOnlineRecovery(p)
  PROVE  IndInv'
<1>0. /\ SessionOK(p) /\ proc[p].pc = "pending" /\ Pending(p) # {}
  BY DEF IndInv, MarkOnlineRecovery, AtMigration
<1> PICK m \in Migrations : m = Next1(p) /\ ledger[m] = "absent" /\ m \notin proc[p].applied
  BY <1>0, EarlierRecorded
<1> DEFINE s == [proc[p] EXCEPT !.pc = "statement", !.file = m]
<1>1. /\ proc[p] \in Session /\ SessionOK(p) /\ proc[p].pc = "pending" /\ Pending(p) # {}
      /\ Class[m] \in {"online", "cic"}
      /\ ledger' = [ledger EXCEPT ![m] = "sentinel"]
      /\ proc' = [proc EXCEPT ![p].pc = "statement", ![p].file = m]
      /\ UNCHANGED <<ran, object, schema, roles, lock, web, faults>>
  BY DEF IndInv, ShapeOK, MarkOnlineRecovery, AtMigration
<1>2. /\ lock = {p} /\ proc[p].upto \in Releases /\ CopyOK(p, Migrations)
      /\ proc[p].op = "run"
  BY <1>1 DEF SessionOK
<1>3. m \in Migrations /\ ledger[m] = "absent" /\ m \notin proc[p].applied
  OBVIOUS
<1>4. /\ ledger'[m] = "sentinel"
      /\ \A x \in Migrations : x # m => ledger'[x] = ledger[x]
      /\ ledger' \in [Migrations -> {"absent", "null", "sentinel", "ok"}]
  BY <1>1, <1>3, SMTT(60) DEF IndInv, ShapeOK
<1>5. /\ proc' = [proc EXCEPT ![p] = s] /\ proc'[p] = s /\ s \in Session
      /\ s.pc = "statement" /\ s.applied = proc[p].applied /\ s.op = "run"
      /\ s.file = m /\ s.upto = proc[p].upto /\ s.mode = proc[p].mode
  BY <1>1, <1>2, <1>3, ZenonT(60) DEF IndInv, ShapeOK, Session, Points
<1> HIDE DEF s
<1>6. proc' \in [Procs -> Session] /\ \A q \in Procs : q # p => proc'[q] = proc[q]
  BY <1>5 DEF IndInv, ShapeOK
<1>7. ShapeOK'
  BY <1>1, <1>4, <1>6, ZenonT(60) DEF IndInv, ShapeOK
<1>8. MigrationOK(m)'
  BY <1>1, <1>3, <1>4 DEF IndInv, MigrationOK, InPlace
<1>9. \A x \in Migrations : MigrationOK(x)'
  BY SMTT(60), <1>1, <1>3, <1>4, <1>8, OneMigration
<1>10. LedgerOK'
  <2>1. web' # 0 => \A x \in Manifest(web') : ledger'[x] = "ok"
    BY SMTT(60), <1>1, <1>3, <1>4, WebKept
  <2>2. \A x \in Migrations : x # m => ledger'[x] \in {"absent", "ok"}
    BY <1>2, <1>4 DEF CopyOK
  <2>3. schema'
    BY <1>1, <1>2, SMTT(60) DEF CopyOK
  <2> QED
    BY <2>1, <2>2, <2>3 DEF LedgerOK, Manifest, Migrations
<1>11. CopyOK(p, Migrations \ {m})'
  <2>1. \A x \in Migrations \ {m} : /\ ledger'[x] = "ok" <=> x \in proc'[p].applied
                                    /\ ledger'[x] \in {"absent", "ok"}
    BY <1>2, <1>4, <1>5, SMTT(60) DEF CopyOK
  <2>2. ASSUME proc[p].mode = "bootstrap", NEW c \in Cutover,
               NEW x \in Earlier(c) \ Cutover
        PROVE  ledger'[x] = "ok"
    <3>1. x \in Migrations /\ ledger[x] = "ok"
      BY <1>2, <2>2, EarlierIs DEF CopyOK, MigrationConstants
    <3> QED
      BY SMTT(60), <1>3, <1>4, <3>1
  <2> QED
    BY <1>1, <1>2, <1>5, <2>1, <2>2, SMTT(60) DEF CopyOK, Migrations, Earlier,
       Position
<1>12. SessionOK(p)'
  <2>1. StatementOK(p, m)'
    BY <1>1, <1>3, <1>4, <1>5, <1>11, ZenonT(60) DEF StatementOK, IndInv,
       MigrationOK
  <2> QED
    BY <1>1, <1>2, <1>5, <2>1, SMTT(60) DEF SessionOK
<1>13. \A q \in Procs : SessionOK(q)'
  BY <1>2, <1>6, <1>12, OthersKeep
<1> QED
  BY <1>7, <1>9, <1>10, <1>13, Zenon DEF IndInv

-----------------------------------------------------------------------------
(* The statement outside a transaction.                                    *)

(* What holds of a session that is executing one.                          *)
LEMMA Executing ==
  ASSUME IndInv, NEW p \in Procs,
         proc[p].pc \in {"statement", "executed", "drop", "orphan"}
  PROVE  /\ proc[p].file \in Migrations /\ StatementOK(p, proc[p].file)
         /\ MigrationOK(proc[p].file) /\ lock = {p} /\ proc[p].upto \in Releases
         /\ ran[proc[p].file] \in Nat
<1>1. SessionOK(p)
  BY SMTT(60) DEF IndInv
<1>2. /\ lock = {p} /\ StatementOK(p, proc[p].file) /\ proc[p].upto \in Releases
  BY <1>1, SMTT(60) DEF SessionOK
<1>3. proc[p].file \in Migrations
  BY <1>2 DEF StatementOK
<1> QED
  BY <1>2, <1>3, SMTT(60) DEF IndInv, ShapeOK

(* The statement took effect, built an invalid index, removed the index or *)
(* did nothing.                                                            *)
Touched(m) ==
  \/ UNCHANGED <<object, ran>>
  \/ object[m] = "none" /\ Creates(m)
  \/ /\ Class[m] = "cic" /\ object[m] = "none"
     /\ object' = [object EXCEPT ![m] = "invalid"] /\ UNCHANGED ran
  \/ /\ Class[m] = "cic" /\ object[m] \in {"valid", "invalid"}
     /\ \E o \in {"none", "invalid"} : object' = [object EXCEPT ![m] = o]
     /\ ran' = [ran EXCEPT ![m] = 0]

(* Whatever it did, the migration under its sentinel and all others are in *)
(* order.                                                                  *)
LEMMA TouchedMigrations ==
  ASSUME IndInv, NEW m \in Migrations, ledger[m] = "sentinel",
         Class[m] = "online" => ran[m] = 0, Touched(m),
         UNCHANGED <<ledger, schema, web>>
  PROVE  /\ \A x \in Migrations : MigrationOK(x)'
         /\ LedgerOK'
         /\ object' \in [Migrations -> {"none", "invalid", "valid", "foreign"}]
         /\ ran' \in [Migrations -> Nat]
<1>1. /\ MigrationOK(m) /\ ran[m] \in Nat
      /\ object \in [Migrations -> {"none", "invalid", "valid", "foreign"}]
      /\ ran \in [Migrations -> Nat] /\ Class[m] \in {"online", "cic"}
  BY SMTT(60) DEF IndInv, ShapeOK, MigrationOK
<1>2. /\ object' \in [Migrations -> {"none", "invalid", "valid", "foreign"}]
      /\ ran' \in [Migrations -> Nat]
      /\ \A x \in Migrations : x # m => object'[x] = object[x] /\ ran'[x] = ran[x]
  BY <1>1, SMTT(60) DEF Touched, Creates
<1>3. MigrationOK(m)'
  <2>1. ran'[m] <= 1 /\ IF Class[m] = "cic" THEN ran'[m] = 1 <=> object'[m] = "valid"
                                            ELSE object'[m] = "none"
    BY <1>1, SMTT(60) DEF Touched, Creates, MigrationOK
  <2> QED
    BY <1>1, <2>1, SMTT(60) DEF MigrationOK
<1>4. \A x \in Migrations : MigrationOK(x)'
  BY <1>2, <1>3, OneMigration
<1> QED
  BY SMTT(60), <1>2, <1>4, LedgerFrame

(* The session that closes after such a statement.                         *)
LEMMA TouchAndClose ==
  ASSUME IndInv, NEW p \in Procs, NEW m \in Migrations, lock = {p},
         ledger[m] = "sentinel", Class[m] = "online" => ran[m] = 0,
         Touched(m), Close(p),
         UNCHANGED <<ledger, schema, roles, web>>, faults' \in 0..MaxFaults
  PROVE  IndInv'
<1>1. /\ \A x \in Migrations : MigrationOK(x)'
      /\ LedgerOK'
      /\ object' \in [Migrations -> {"none", "invalid", "valid", "foreign"}]
      /\ ran' \in [Migrations -> Nat]
  BY SMTT(60), TouchedMigrations
<1>2. /\ proc' \in [Procs -> Session] /\ lock' \subseteq Procs
      /\ proc'[p] = Idle /\ \A q \in Procs : q # p => proc'[q] = proc[q]
  BY Closed
<1>3. ShapeOK'
  BY <1>1, <1>2, ZenonT(60) DEF IndInv, ShapeOK
<1>4. SessionOK(p)'
  BY SMTT(60), <1>2, IdleOK
<1>5. \A q \in Procs : SessionOK(q)'
  BY SMTT(60), <1>2, <1>4, OthersKeep
<1> QED
  BY <1>1, <1>3, <1>5, ZenonT(60) DEF IndInv

LEMMA StatementFailsStep ==
  ASSUME MigrationConstants, IndInv, NEW p \in Procs,
         StatementFails(p) \/ OrphanEnds(p)
  PROVE  IndInv'
<1>1. /\ proc[p].pc \in {"statement", "orphan"} /\ FailedStatement(proc[p].file)
      /\ Close(p) /\ UNCHANGED <<ledger, schema, roles, web>>
  BY SMTT(60) DEF StatementFails, OrphanEnds
<1>2. faults' \in 0..MaxFaults
  BY SMTT(60) DEF IndInv, ShapeOK, StatementFails, OrphanEnds,
     MigrationConstants
<1>3. PICK m \in Migrations : m = proc[p].file
  BY SMTT(60), <1>1, Executing
<1>4. /\ StatementOK(p, m) /\ lock = {p}
  BY SMTT(60), <1>1, <1>3, Executing
<1>5. ledger[m] = "sentinel" /\ (Class[m] = "online" => ran[m] = 0)
  BY <1>1, <1>4 DEF StatementOK
<1>6. Touched(m)
  BY <1>1, <1>3, ZenonT(60) DEF FailedStatement, Touched
<1> QED
  BY SMTT(60), <1>1, <1>2, <1>4, <1>5, <1>6, TouchAndClose

LEMMA DropFailsStep ==
  ASSUME MigrationConstants, IndInv, NEW p \in Procs, DropFails(p)
  PROVE  IndInv'
<1>1. /\ proc[p].pc = "drop"
      /\ Close(p) /\ UNCHANGED <<ledger, schema, roles, web>>
  BY SMTT(60) DEF DropFails
<1>2. faults' \in 0..MaxFaults
  BY SMTT(60) DEF IndInv, ShapeOK, DropFails, MigrationConstants
<1>3. PICK m \in Migrations : m = proc[p].file
  BY SMTT(60), <1>1, Executing
<1>4. /\ StatementOK(p, m) /\ lock = {p} /\ MigrationOK(m)
  BY SMTT(60), <1>1, <1>3, Executing
<1>5. /\ ledger[m] = "sentinel" /\ object[m] \in {"valid", "invalid"} /\ Class[m] = "cic"
  BY <1>1, <1>4, SMTT(60) DEF StatementOK, MigrationOK
<1>6. Touched(m)
  BY <1>3, <1>5 DEF DropFails, Touched
<1> QED
  BY SMTT(60), <1>1, <1>2, <1>4, <1>5, <1>6, TouchAndClose

(* The session that goes on after it.                                      *)
LEMMA TouchAndGoOn ==
  ASSUME IndInv, NEW p \in Procs, NEW m \in Migrations, NEW c \in {"statement", "executed"},
         lock = {p}, m = proc[p].file, proc[p].upto \in Releases, StatementOK(p, m),
         Class[m] = "online" => ran[m] = 0, Touched(m),
         c = "executed" => ran'[m] = 1,
         c = "statement" => Class[m] = "cic",
         proc' = [proc EXCEPT ![p].pc = c],
         UNCHANGED <<ledger, schema, roles, lock, web, faults>>
  PROVE  IndInv'
<1> DEFINE s == [proc[p] EXCEPT !.pc = c]
<1>0. c \in Points
  BY DEF Points
<1>1. /\ s \in Session /\ proc' = [proc EXCEPT ![p] = s] /\ proc'[p] = s
      /\ s.pc = c /\ s.op = proc[p].op /\ s.upto = proc[p].upto
      /\ s.file = proc[p].file /\ s.mode = proc[p].mode /\ s.applied = proc[p].applied
  BY ZenonT(60), <1>0, MovedTo
<1> HIDE DEF s
<1>2. ledger[m] = "sentinel"
  BY DEF StatementOK
<1>3. /\ \A x \in Migrations : MigrationOK(x)'
      /\ LedgerOK'
      /\ object' \in [Migrations -> {"none", "invalid", "valid", "foreign"}]
      /\ ran' \in [Migrations -> Nat]
  BY <1>2, TouchedMigrations
<1>4. proc' \in [Procs -> Session] /\ \A q \in Procs : q # p => proc'[q] = proc[q]
  BY <1>1 DEF IndInv, ShapeOK
<1>5. ShapeOK'
  BY <1>3, <1>4, ZenonT(60) DEF IndInv, ShapeOK
<1>6. proc[p].op = "run" => CopyOK(p, Migrations \ {m})'
  BY <1>1, SMTT(60) DEF StatementOK, CopyOK, Migrations, Earlier, Position
<1>7. StatementOK(p, m)'
  <2>1. m \in Migrations /\ Class[m] \in {"online", "cic"} /\ ledger'[m] = "sentinel"
        /\ (proc[p].op # "run" => Class[m] = "cic")
    BY <1>2, SMTT(60) DEF StatementOK
  <2> QED
    BY <1>1, <1>6, <2>1, SMTT(60) DEF StatementOK, Migrations
<1>8. SessionOK(p)'
  BY <1>1, <1>7, SMTT(60) DEF SessionOK
<1>9. \A q \in Procs : SessionOK(q)'
  BY SMTT(60), <1>4, <1>8, OthersKeep
<1> QED
  BY <1>3, <1>5, <1>9, ZenonT(60) DEF IndInv

LEMMA StatementSucceedsStep ==
  ASSUME IndInv, NEW p \in Procs, StatementSucceeds(p)
  PROVE  IndInv'
<1>1. /\ proc[p].pc = "statement" /\ object[proc[p].file] = "none"
      /\ Creates(proc[p].file) /\ proc' = [proc EXCEPT ![p].pc = "executed"]
      /\ UNCHANGED <<ledger, schema, roles, lock, web, faults>>
  BY DEF StatementSucceeds
<1>2. PICK m \in Migrations : m = proc[p].file
  BY <1>1, Executing
<1>3. /\ StatementOK(p, m) /\ lock = {p} /\ proc[p].upto \in Releases /\ ran[m] \in Nat
  BY <1>1, <1>2, Executing
<1>4. Class[m] \in {"online", "cic"} /\ (Class[m] = "online" => ran[m] = 0)
  BY <1>1, <1>3 DEF StatementOK
<1>5. Touched(m)
  BY <1>1, <1>2, ZenonT(60) DEF Touched
<1>6. ran'[m] = 1
  BY <1>1, <1>2, <1>3, <1>4, SMTT(60) DEF Creates, IndInv, ShapeOK
<1> QED
  BY ZenonT(60), <1>1, <1>2, <1>3, <1>4, <1>5, <1>6, TouchAndGoOn

LEMMA DropIndexStep ==
  ASSUME IndInv, NEW p \in Procs, DropIndex(p)
  PROVE  IndInv'
<1>1. /\ proc[p].pc = "drop" /\ proc' = [proc EXCEPT ![p].pc = "statement"]
      /\ UNCHANGED <<ledger, schema, roles, lock, web, faults>>
  BY DEF DropIndex
<1>2. PICK m \in Migrations : m = proc[p].file
  BY <1>1, Executing
<1>3. /\ StatementOK(p, m) /\ lock = {p} /\ proc[p].upto \in Releases /\ MigrationOK(m)
  BY <1>1, <1>2, Executing
<1>4. object[m] \in {"valid", "invalid"} /\ Class[m] = "cic"
  BY <1>1, <1>3, SMTT(60) DEF StatementOK, MigrationOK
<1>5. Touched(m)
  BY <1>2, <1>4 DEF Touched, DropIndex
<1> QED
  BY ZenonT(60), <1>1, <1>2, <1>3, <1>4, <1>5, TouchAndGoOn

(* The recovery begins.                                                    *)
LEMMA RecoverCicIndexStep ==
  ASSUME IndInv, NEW p \in Procs, RecoverCicIndex(p)
  PROVE  IndInv'
<1>1. /\ SessionOK(p) /\ proc[p].pc = "locked" /\ proc[p].op = "recover"
      /\ RecoveryAllowed(p)
      /\ SameDatabase /\ UNCHANGED <<roles, lock>> /\ faults' \in 0..MaxFaults
      /\ lock' \subseteq Procs
  BY SMTT(60) DEF IndInv, ShapeOK, RecoverCicIndex, SameDatabase
<1>2. PICK m \in Migrations : m = proc[p].file
  BY <1>1, SMTT(60) DEF SessionOK
<1>3. /\ ledger[m] = "sentinel" /\ Class[m] = "cic" /\ object[m] # "foreign"
      /\ lock = {p} /\ proc[p].upto \in Releases
      /\ object[m] \in {"none", "invalid", "valid", "foreign"}
  BY <1>1, <1>2, SMTT(60) DEF RecoveryAllowed, SessionOK, IndInv, ShapeOK
<1>4. PICK c \in {"statement", "drop"} :
        /\ c = IF object[m] = "none" THEN "statement" ELSE "drop"
        /\ proc' = [proc EXCEPT ![p].pc = c]
  BY <1>2, ZenonT(60) DEF RecoverCicIndex
<1> DEFINE s == [proc[p] EXCEPT !.pc = c]
<1>0. c \in Points
  BY DEF Points
<1>5. /\ s \in Session /\ proc' = [proc EXCEPT ![p] = s] /\ proc'[p] = s
      /\ s.pc = c /\ s.op = proc[p].op /\ s.upto = proc[p].upto
      /\ s.file = proc[p].file
  BY ZenonT(60), <1>4, <1>0, MovedTo
<1> HIDE DEF s
<1>6. StatementOK(p, m)'
  BY <1>1, <1>3, <1>4, <1>5 DEF StatementOK, SameDatabase, Migrations
<1>7. SessionOK(p)'
  BY <1>1, <1>2, <1>3, <1>5, <1>6 DEF SessionOK
<1> QED
  BY ZenonT(60), <1>1, <1>3, <1>5, <1>7, SessionStep

(* The row becomes final once the index has been validated.                *)
LEMMA FinalizeOnlineStep ==
  ASSUME MigrationConstants, IndInv, NEW p \in Procs, FinalizeOnline(p)
  PROVE  IndInv'
<1>1. /\ proc[p].pc = "executed" /\ proc[p] \in Session
      /\ UNCHANGED <<ran, object, schema, roles, web, faults>>
      /\ faults \in 0..MaxFaults
  BY DEF FinalizeOnline, IndInv, ShapeOK
<1>2. PICK m \in Migrations : m = proc[p].file
  BY SMTT(60), <1>1, Executing
<1>3. /\ StatementOK(p, m) /\ lock = {p} /\ proc[p].upto \in Releases /\ MigrationOK(m)
      /\ ran[m] \in Nat
  BY SMTT(60), <1>1, <1>2, Executing
<1>4. /\ ledger[m] = "sentinel" /\ ran[m] = 1 /\ Class[m] \in {"online", "cic"}
  BY <1>1, <1>3, SMTT(60) DEF StatementOK
<1>5. CASE ~PostValid(m)
  <2>1. UNCHANGED ledger /\ Close(p)
    BY <1>2, <1>5, SMTT(60) DEF FinalizeOnline
  <2> QED
    BY <1>1, <2>1, CloseKeeps DEF SameDatabase
<1>6. CASE PostValid(m)
  <2>1. ledger' = [ledger EXCEPT ![m] = "ok"]
    BY <1>2, <1>4, <1>6, SMTT(60) DEF FinalizeOnline
  <2>2. /\ ledger'[m] = "ok" /\ \A x \in Migrations : x # m => ledger'[x] = ledger[x]
        /\ ledger' \in [Migrations -> {"absent", "null", "sentinel", "ok"}]
    BY <2>1, SMTT(60) DEF IndInv, ShapeOK
  <2>3. MigrationOK(m)'
    BY <1>1, <1>3, <1>4, <1>6, <2>2, SMTT(60) DEF MigrationOK, InPlace,
       PostValid
  <2>4. \A x \in Migrations : MigrationOK(x)'
    BY SMTT(60), <1>1, <2>2, <2>3, OneMigration
  <2>5. LedgerOK'
    <3>1. web' # 0 => \A x \in Manifest(web') : ledger'[x] = "ok"
      BY SMTT(60), <1>1, <2>2, WebKept
    <3>2. \A x \in Migrations : ledger'[x] # "sentinel"
      BY <1>4, <2>2, SMTT(60) DEF IndInv, LedgerOK
    <3>3. schema'
      BY <1>1, <1>4 DEF IndInv, LedgerOK
    <3> QED
      BY <3>1, <3>2, <3>3, SMTT(60) DEF LedgerOK, Manifest, Migrations
  <2>6. CASE proc[p].op # "run"
    <3>1. Close(p)
      BY <1>2, <2>6, SMTT(60) DEF FinalizeOnline
    <3>2. /\ proc' \in [Procs -> Session] /\ lock' \subseteq Procs
          /\ proc'[p] = Idle /\ \A q \in Procs : q # p => proc'[q] = proc[q]
      BY <3>1, Closed
    <3>3. ShapeOK'
      BY <1>1, <2>2, <3>2, ZenonT(60) DEF IndInv, ShapeOK
    <3>4. SessionOK(p)'
      BY SMTT(60), <3>2, IdleOK
    <3>5. \A q \in Procs : SessionOK(q)'
      BY SMTT(60), <1>3, <3>2, <3>4, OthersKeep
    <3> QED
      BY <2>4, <2>5, <3>3, <3>5, ZenonT(60) DEF IndInv
  <2>7. CASE proc[p].op = "run"
    <3> DEFINE s == [proc[p] EXCEPT !.pc = "pending", !.file = "none",
                                    !.applied = @ \cup {m}]
    <3>1. /\ proc' = [proc EXCEPT ![p].pc = "pending", ![p].file = "none",
                                  ![p].applied = @ \cup {m}]
          /\ UNCHANGED lock
      BY <1>2, <1>4, <1>6, <2>7, SMTT(60) DEF FinalizeOnline
    <3>2. /\ proc' = [proc EXCEPT ![p] = s] /\ proc'[p] = s /\ s \in Session
          /\ s.pc = "pending" /\ s.applied = proc[p].applied \cup {m} /\ s.op = "run"
          /\ s.upto = proc[p].upto /\ s.mode = proc[p].mode
      BY <1>1, <2>7, <3>1, ZenonT(60) DEF IndInv, ShapeOK, Session, Points
    <3> HIDE DEF s
    <3>3. proc' \in [Procs -> Session] /\ \A q \in Procs : q # p => proc'[q] = proc[q]
      BY <3>2 DEF IndInv, ShapeOK
    <3>4. ShapeOK'
      BY <1>1, <2>2, <3>1, <3>3, ZenonT(60) DEF IndInv, ShapeOK
    <3>5. CopyOK(p, Migrations \ {m})
      BY <1>3, <2>7, SMTT(60) DEF StatementOK
    <3>6. CopyOK(p, Migrations)'
      <4>1. \A x \in Migrations : /\ ledger'[x] = "ok" <=> x \in proc'[p].applied
                                  /\ ledger'[x] \in {"absent", "ok"}
        BY <2>2, <3>2, <3>5, SMTT(60) DEF CopyOK
      <4>2. ASSUME proc[p].mode = "bootstrap", NEW c \in Cutover,
                   NEW x \in Earlier(c) \ Cutover
            PROVE  ledger'[x] = "ok"
        <5>1. x \in Migrations /\ ledger[x] = "ok"
          BY <3>5, <4>2, EarlierIs, SMTT(60) DEF CopyOK, MigrationConstants
        <5> QED
          BY SMTT(60), <2>2, <5>1
      <4> QED
        BY <1>1, <3>2, <3>5, <4>1, <4>2, SMTT(60) DEF CopyOK, Migrations,
           Earlier, Position
    <3>7. SessionOK(p)'
      BY <1>3, <3>1, <3>2, <3>6, ZenonT(60) DEF SessionOK
    <3>8. \A q \in Procs : SessionOK(q)'
      BY <1>3, <3>3, <3>7, OthersKeep
    <3> QED
      BY <2>4, <2>5, <3>4, <3>8, Zenon DEF IndInv
  <2> QED
    BY SMTT(60), <2>6, <2>7
<1> QED
  BY <1>5, <1>6

-----------------------------------------------------------------------------
(* Others.                                                                 *)

(* Someone else's relation takes a name that is free: no session relies on *)
(* a free name but the one that will find it taken.                        *)
LEMMA ForeignObjectStep ==
  ASSUME MigrationConstants, IndInv, NEW m \in Migrations, ForeignObject(m)
  PROVE  IndInv'
<1>1. /\ Class[m] = "cic" /\ object[m] = "none"
      /\ object' = [object EXCEPT ![m] = "foreign"]
      /\ UNCHANGED <<ledger, ran, schema, roles, lock, proc, web>>
  BY SMTT(60) DEF ForeignObject
<1>2. faults' \in 0..MaxFaults
  BY DEF IndInv, ShapeOK, ForeignObject, MigrationConstants
<1>3. /\ object' \in [Migrations -> {"none", "invalid", "valid", "foreign"}]
      /\ object'[m] = "foreign" /\ \A x \in Migrations : x # m => object'[x] = object[x]
  BY <1>1 DEF IndInv, ShapeOK
<1>4. ShapeOK'
  BY <1>1, <1>2, <1>3, ZenonT(60) DEF IndInv, ShapeOK
<1>5. MigrationOK(m)'
  BY <1>1, <1>3, SMTT(60) DEF IndInv, MigrationOK, InPlace
<1>6. \A x \in Migrations : MigrationOK(x)'
  BY SMTT(60), <1>1, <1>3, <1>5, OneMigration
<1>7. LedgerOK'
  BY SMTT(60), <1>1, LedgerFrame
<1>8. ASSUME NEW q \in Procs PROVE SessionOK(q)'
  <2>1. SessionOK(q)
    BY SMTT(60) DEF IndInv
  <2>2. \A x \in Migrations : object[x] \in {"valid", "invalid"} => object'[x] = object[x]
    BY <1>1, <1>3
  <2>3. CopyOK(q, Migrations)' = CopyOK(q, Migrations)
        /\ CopyOK(q, Migrations \ {proc[q].file})' = CopyOK(q, Migrations \ {proc[q].file})
    BY <1>1, ZenonT(60) DEF CopyOK, Migrations, Earlier, Position
  <2>4. StatementOK(q, proc[q].file) => StatementOK(q, proc[q].file)'
    BY <1>1, <2>2, <2>3 DEF StatementOK
  <2> QED
    BY <1>1, <2>1, <2>3, <2>4, SMTT(60) DEF SessionOK
<1> QED
  BY <1>4, <1>6, <1>7, <1>8, ZenonT(60) DEF IndInv

LEMMA VerifyCurrentStep ==
  ASSUME MigrationConstants, IndInv, NEW n \in Releases, VerifyCurrent(n)
  PROVE  IndInv'
<1>1. /\ Rows = Manifest(n) /\ Valid(ledger, n, FALSE) /\ web' = n
      /\ UNCHANGED <<ledger, ran, object, schema, roles, lock, proc, faults>>
  BY ZenonT(60) DEF VerifyCurrent
<1>2. ShapeOK'
  BY <1>1, ZenonT(60) DEF IndInv, ShapeOK
<1>3. ASSUME NEW m \in Manifest(n) PROVE ledger[m] = "ok"
  BY <1>1, <1>3, SMTT(60) DEF Rows, Valid, IndInv, ShapeOK
<1>4. LedgerOK'
  BY <1>1, <1>3 DEF IndInv, LedgerOK, Manifest, Migrations
<1>5. \A m \in Migrations : MigrationOK(m)'
  BY <1>1, ZenonT(60) DEF IndInv, MigrationOK, InPlace, Migrations
<1>6. \A q \in Procs : SessionOK(q)'
  BY <1>1, ZenonT(60) DEF IndInv, SessionOK, CopyOK, StatementOK, Migrations,
     Earlier, Position
<1> QED
  BY <1>2, <1>4, <1>5, <1>6, ZenonT(60) DEF IndInv

-----------------------------------------------------------------------------
(* The invariant.                                                          *)

LEMMA InitInv == MigrationConstants /\ Init => IndInv
<1> SUFFICES ASSUME MigrationConstants, Init PROVE IndInv
  OBVIOUS
<1>1. PICK s \in Starts :
        /\ ledger = s.ledger
        /\ ran = [m \in Migrations |-> IF s.ledger[m] = "absent" THEN 0 ELSE 1]
        /\ object = s.object /\ schema = s.schema /\ roles = s.roles
  BY DEF Init
<1>2. StartOK(s)
  BY DEF MigrationConstants
<1>3. lock = {} /\ proc = [p \in Procs |-> Idle] /\ web = 0 /\ faults = 0
  BY DEF Init
<1>4. ShapeOK
  BY <1>1, <1>2, <1>3, IdleSession DEF ShapeOK, StartOK, MigrationConstants
<1>5. LedgerOK
  BY <1>1, <1>2, <1>3 DEF LedgerOK, StartOK
<1>6. ASSUME NEW m \in Migrations PROVE MigrationOK(m)
  BY <1>1, <1>2 DEF MigrationOK, InPlace, StartOK
<1>7. ASSUME NEW p \in Procs PROVE SessionOK(p)
  BY <1>3 DEF SessionOK, Idle
<1> QED
  BY <1>4, <1>5, <1>6, <1>7, Zenon DEF IndInv

LEMMA NextInv == MigrationConstants /\ IndInv /\ [Next]_vars => IndInv'
<1> SUFFICES ASSUME MigrationConstants, IndInv, [Next]_vars PROVE IndInv'
  OBVIOUS
<1>1. ASSUME NEW p \in Procs, Step(p) PROVE IndInv'
  BY <1>1, AcquireLockStep, PrepareHistoryStep, ClosingSteps,
     ApplyTransactionalStep, MarkOnlineRecoveryStep, StatementSucceedsStep,
     FinalizeOnlineStep, RecoverCicIndexStep, DropIndexStep,
     StatementFailsStep, ZenonT(60) DEF Step
<1>2. ASSUME NEW p \in Procs,
             \/ StartRun(p) \/ StartRecovery(p) \/ LockTimeout(p) \/ StatementFails(p)
             \/ DropFails(p) \/ Crash(p) \/ CrashDuringStatement(p)
      PROVE  IndInv'
  BY <1>2, StartRunStep, StartRecoveryStep, ClosingSteps, StatementFailsStep,
     DropFailsStep, CrashStep, CrashDuringStatementStep, ZenonT(60)
<1>3. CASE UNCHANGED vars
  <2>1. /\ UNCHANGED <<ledger, ran, object, schema, roles, lock, proc, web, faults>>
    BY <1>3 DEF vars
  <2>2. ShapeOK' /\ \A q \in Procs : SessionOK(q)'
    BY <2>1, ZenonT(60) DEF IndInv, ShapeOK, SessionOK, CopyOK, StatementOK,
       Migrations, Earlier, Position
  <2> QED
    BY <2>1, <2>2, DatabaseFrame, Zenon DEF IndInv, SameDatabase
<1> QED
  BY <1>1, <1>2, <1>3, VerifyCurrentStep, ForeignObjectStep, ZenonT(60) DEF
     Next

THEOREM MigrationInvariant == MigrationConstants => (Spec => []IndInv)
<1> SUFFICES ASSUME MigrationConstants PROVE Spec => []IndInv
  OBVIOUS
<1>1. Init => IndInv
  BY InitInv
<1>2. IndInv /\ [Next]_vars => IndInv'
  BY NextInv
<1> QED
  BY <1>1, <1>2, PTL DEF Spec

-----------------------------------------------------------------------------
(* The safety properties.                                                  *)

(* What the invariant says of each property.                              *)
LEMMA TypesKept ==
  ASSUME MigrationConstants, IndInv
  PROVE  TypeOK
<1>1. ASSUME NEW p \in Procs
      PROVE  /\ proc[p].pc \in {"idle", "waiting", "locked", "pending", "statement",
                                "executed", "drop", "orphan"}
             /\ proc[p].pc \notin {"idle", "waiting"} => lock = {p}
  BY DEF IndInv, ShapeOK, Session, Points, SessionOK
<1> QED
  BY <1>1 DEF IndInv, ShapeOK, TypeOK

(* Every variable has its type, and only the lock's holder is past it.     *)
THEOREM MigrationTypes == MigrationConstants => (Spec => []TypeOK)
<1> SUFFICES ASSUME MigrationConstants PROVE Spec => []TypeOK
  OBVIOUS
<1>1. IndInv => TypeOK
  BY TypesKept
<1> QED
  BY <1>1, MigrationInvariant, PTL

LEMMA TruthKept == ASSUME IndInv PROVE LedgerTrue
  BY DEF IndInv, MigrationOK, LedgerTrue

(* No migration takes effect twice, and a row that counts as applied is    *)
(* there only for a migration whose result is in place: what               *)
(* _validate_applied and _finalize_online_migration are for.               *)
THEOREM LedgerTellsTheTruth == MigrationConstants => (Spec => []LedgerTrue)
<1> SUFFICES ASSUME MigrationConstants PROVE Spec => []LedgerTrue
  OBVIOUS
<1>1. IndInv => LedgerTrue
  BY TruthKept
<1> QED
  BY <1>1, MigrationInvariant, PTL

LEMMA SchemaInPlace ==
  ASSUME MigrationConstants, IndInv
  PROVE  WebHasItsSchema
<1>1. ASSUME web # 0, NEW m \in Manifest(web) PROVE InPlace(m)
  <2>1. web \in Releases /\ ledger[m] = "ok"
    BY <1>1, SMTT(60) DEF IndInv, ShapeOK, LedgerOK
  <2>2. m \in Migrations
    BY <1>1, <2>1, ManifestIn
  <2> QED
    BY <2>1, <2>2 DEF IndInv, MigrationOK
<1> QED
  BY <1>1 DEF WebHasItsSchema

(* A web process admitted by verify_migrations_current has every migration *)
(* of its release in place, whatever is run or recovered afterwards.       *)
THEOREM AdmittedHasItsSchema == MigrationConstants => (Spec => []WebHasItsSchema)
<1> SUFFICES ASSUME MigrationConstants PROVE Spec => []WebHasItsSchema
  OBVIOUS
<1>1. IndInv => WebHasItsSchema
  BY SchemaInPlace
<1> QED
  BY <1>1, MigrationInvariant, PTL

-----------------------------------------------------------------------------
(* What a step may never do.                                               *)

(* The steps that write the ledger, and those of a statement outside a     *)
(* transaction.                                                            *)
Records(p) == PrepareHistory(p) \/ ApplyTransactional(p) \/ MarkOnlineRecovery(p)

Executes(p) ==
  \/ StatementSucceeds(p) \/ StatementFails(p) \/ OrphanEnds(p)
  \/ DropIndex(p) \/ DropFails(p) \/ FinalizeOnline(p)

LEMMA WhoWrites ==
  ASSUME [Next]_vars
  PROVE  \/ \E p \in Procs : Records(p) \/ Executes(p)
         \/ UNCHANGED <<ledger, ran, object, web>>
         \/ \E n \in Releases : VerifyCurrent(n)
         \/ \E m \in Migrations : ForeignObject(m)
<1>1. ASSUME NEW p \in Procs,
             \/ StartRun(p) \/ StartRecovery(p) \/ LockTimeout(p) \/ Step(p)
             \/ StatementFails(p) \/ DropFails(p) \/ Crash(p) \/ CrashDuringStatement(p)
      PROVE  Records(p) \/ Executes(p) \/ UNCHANGED <<ledger, ran, object, web>>
  BY <1>1, ZenonT(60) DEF Step, Records, Executes, StartRun, StartRecovery,
     LockTimeout, Crash, CrashDuringStatement, AcquireLock, Refuse,
     RunComplete, WindowMissing, TombstoneRaises, PreflightRefuses, NameTaken,
     RecoveryRefused, RecoverCicIndex
<1>2. CASE UNCHANGED vars
  BY <1>2 DEF vars
<1> QED
  BY <1>1, <1>2, ZenonT(60) DEF Next

(* A session that records a migration has found no recovery under way.     *)
LEMMA RecordsUnfenced ==
  ASSUME MigrationConstants, IndInv, NEW p \in Procs, Records(p), NEW m \in Migrations
  PROVE  ledger[m] # "sentinel"
<1>1. CASE PrepareHistory(p)
  BY <1>1, SMTT(60) DEF PrepareHistory, Admitted, Valid
<1>2. CASE ApplyTransactional(p) \/ MarkOnlineRecovery(p)
  <2>1. proc[p].pc = "pending" /\ SessionOK(p)
    BY <1>2, SMTT(60) DEF ApplyTransactional, MarkOnlineRecovery, AtMigration,
       IndInv
  <2> QED
    BY <2>1 DEF SessionOK, CopyOK
<1> QED
  BY <1>1, <1>2, SMTT(60) DEF Records

(* A statement touches its own migration, under its sentinel, and never a  *)
(* foreign object.                                                         *)
LEMMA ExecutesItsOwn ==
  ASSUME IndInv, NEW p \in Procs, Executes(p)
  PROVE  \E m \in Migrations :
           /\ ledger[m] = "sentinel" /\ UNCHANGED web
           /\ \A x \in Migrations \ {m} :
                ledger'[x] = ledger[x] /\ ran'[x] = ran[x] /\ object'[x] = object[x]
           /\ object[m] = "foreign" => object'[m] = "foreign"
<1>1. proc[p].pc \in {"statement", "executed", "drop", "orphan"} /\ UNCHANGED web
  BY ZenonT(60) DEF Executes, StatementSucceeds, StatementFails, OrphanEnds,
     DropIndex, DropFails, FinalizeOnline
<1>2. PICK m \in Migrations : m = proc[p].file
  BY SMTT(60), <1>1, Executing
<1>3. ledger[m] = "sentinel" /\ (proc[p].pc = "drop" => object[m] \in {"valid", "invalid"})
  BY <1>1, <1>2, Executing, ZenonT(60) DEF StatementOK
<1>4. /\ ledger \in [Migrations -> {"absent", "null", "sentinel", "ok"}]
      /\ ran \in [Migrations -> Nat]
      /\ object \in [Migrations -> {"none", "invalid", "valid", "foreign"}]
  BY DEF IndInv, ShapeOK
<1>5. CASE FinalizeOnline(p)
  BY <1>1, <1>2, <1>3, <1>4, <1>5, SMTT(60) DEF FinalizeOnline
<1>6. CASE DropIndex(p) \/ DropFails(p)
  BY <1>1, <1>2, <1>3, <1>4, <1>6, SMTT(60) DEF DropIndex, DropFails
<1>7. CASE StatementSucceeds(p) \/ StatementFails(p) \/ OrphanEnds(p)
  <2>1. UNCHANGED ledger /\ FailedStatement(m)
    BY <1>2, <1>7 DEF StatementSucceeds, StatementFails, OrphanEnds,
       FailedStatement
  <2> QED
    BY <1>1, <1>3, <1>4, <2>1, SMTT(60) DEF FailedStatement, Creates
<1> QED
  BY <1>5, <1>6, <1>7, ZenonT(60) DEF Executes

LEMMA FencedStep ==
  ASSUME MigrationConstants, IndInv, [Next]_vars
  PROVE  SentinelFences
<1> SUFFICES ASSUME NEW m \in Migrations, ledger[m] = "sentinel"
             PROVE  /\ \A x \in Migrations \ {m} :
                         ledger'[x] = ledger[x] /\ ran'[x] = ran[x]
                    /\ web' = web
  BY DEF SentinelFences
<1>1. ASSUME NEW p \in Procs, Records(p) PROVE FALSE
  BY SMTT(60), <1>1, RecordsUnfenced
<1>2. CASE \E p \in Procs : Executes(p)
  <2>1. PICK y \in Migrations :
          /\ ledger[y] = "sentinel" /\ UNCHANGED web
          /\ \A x \in Migrations \ {y} : ledger'[x] = ledger[x] /\ ran'[x] = ran[x]
    BY SMTT(60), <1>2, ExecutesItsOwn
  <2>2. y = m
    BY <2>1, SMTT(60) DEF IndInv, LedgerOK
  <2> QED
    BY SMTT(60), <2>1, <2>2
<1>3. ASSUME NEW n \in Releases, VerifyCurrent(n) PROVE FALSE
  BY <1>3, SMTT(60) DEF VerifyCurrent, Valid
<1>4. CASE \E x \in Migrations : ForeignObject(x)
  BY <1>4, SMTT(60) DEF ForeignObject
<1>5. CASE UNCHANGED <<ledger, ran, object, web>>
  BY SMTT(60), <1>5
<1> QED
  BY SMTT(60), <1>1, <1>2, <1>3, <1>4, <1>5, WhoWrites

(* While a recovery sentinel stands, no other migration is recorded or     *)
(* takes effect and no web process is admitted: ONLINE_RECOVERY_PREFIX as  *)
(* the ledger's fence.                                                     *)
THEOREM RecoveryIsFenced == MigrationConstants => (Spec => [][SentinelFences]_vars)
<1> SUFFICES ASSUME MigrationConstants PROVE Spec => [][SentinelFences]_vars
  BY SMTT(60)
<1>1. IndInv /\ [Next]_vars => SentinelFences
  BY FencedStep
<1> QED
  BY <1>1, MigrationInvariant, PTL DEF Spec

LEMMA OrderedStep ==
  ASSUME MigrationConstants, IndInv, [Next]_vars
  PROVE  EarlierFirst
<1> SUFFICES ASSUME NEW m \in Migrations, ledger[m] = "absent", ledger'[m] # "absent",
                    schema, m \notin DOMAIN Tombstone, NEW x \in Earlier(m)
             PROVE  ledger[x] = "ok" /\ InPlace(x)
  BY SMTT(60) DEF EarlierFirst
<1>0. ledger \in [Migrations -> {"absent", "null", "sentinel", "ok"}]
  BY SMTT(60) DEF IndInv, ShapeOK
<1>1. ASSUME NEW p \in Procs, PrepareHistory(p) PROVE FALSE
  <2>1. ledger' = Backfilled
    BY <1>1, SMTT(60) DEF PrepareHistory
  <2>2. m \notin Adopted
    BY SMTT(60) DEF Adopted
  <2> QED
    BY <2>1, <2>2, SMTT(60) DEF Backfilled
<1>2. ASSUME NEW p \in Procs, ApplyTransactional(p) \/ MarkOnlineRecovery(p)
      PROVE  ledger[x] = "ok" /\ InPlace(x)
  <2>1. SessionOK(p) /\ proc[p].pc = "pending" /\ Pending(p) # {}
    BY <1>2, ZenonT(60) DEF IndInv, ApplyTransactional,
       MarkOnlineRecovery, AtMigration
  <2>2. m = Next1(p)
    BY <1>0, <1>2, ZenonT(60) DEF ApplyTransactional, MarkOnlineRecovery
  <2>3. x \in Migrations /\ ledger[x] = "ok"
    BY SMTT(60), <2>1, <2>2, EarlierRecorded
  <2> QED
    BY <2>3, SMTT(60) DEF IndInv, MigrationOK
<1>3. ASSUME NEW p \in Procs, Executes(p) PROVE FALSE
  BY SMTT(60), <1>3, ExecutesItsOwn
<1>4. ASSUME NEW n \in Releases, VerifyCurrent(n) PROVE FALSE
  BY <1>4, SMTT(60) DEF VerifyCurrent
<1>5. ASSUME NEW y \in Migrations, ForeignObject(y) PROVE FALSE
  BY <1>5, SMTT(60) DEF ForeignObject
<1> QED
  BY <1>1, <1>2, <1>3, <1>4, <1>5, WhoWrites, SMTT(60) DEF Records

(* _apply_pending_migrations starts a migration only when all before it in *)
(* the manifest are recorded and in place.                                 *)
THEOREM MigrationsInOrder == MigrationConstants => (Spec => [][EarlierFirst]_vars)
<1> SUFFICES ASSUME MigrationConstants PROVE Spec => [][EarlierFirst]_vars
  OBVIOUS
<1>1. IndInv /\ [Next]_vars => EarlierFirst
  BY OrderedStep
<1> QED
  BY <1>1, MigrationInvariant, PTL DEF Spec

LEMMA ForeignStep ==
  ASSUME MigrationConstants, IndInv, [Next]_vars
  PROVE  ForeignKept
<1> SUFFICES ASSUME NEW m \in Migrations, object[m] = "foreign"
             PROVE  object'[m] = "foreign"
  BY SMTT(60) DEF ForeignKept
<1>1. ASSUME NEW p \in Procs, Records(p) PROVE UNCHANGED object
  BY <1>1, SMTT(60) DEF Records, PrepareHistory, ApplyTransactional,
     MarkOnlineRecovery
<1>2. ASSUME NEW p \in Procs, Executes(p) PROVE object'[m] = "foreign"
  BY SMTT(60), <1>2, ExecutesItsOwn
<1>3. ASSUME NEW n \in Releases, VerifyCurrent(n) PROVE UNCHANGED object
  BY <1>3, SMTT(60) DEF VerifyCurrent
<1>4. ASSUME NEW x \in Migrations, ForeignObject(x) PROVE object'[m] = "foreign"
  BY <1>4 DEF ForeignObject, IndInv, ShapeOK
<1> QED
  BY SMTT(60), <1>1, <1>2, <1>3, <1>4, WhoWrites

(* _recover_cic_index never removes or replaces an object that is not the  *)
(* migration's own index.                                                  *)
THEOREM ForeignIsKept == MigrationConstants => (Spec => [][ForeignKept]_vars)
<1> SUFFICES ASSUME MigrationConstants PROVE Spec => [][ForeignKept]_vars
  OBVIOUS
<1>1. IndInv /\ [Next]_vars => ForeignKept
  BY ForeignStep
<1> QED
  BY <1>1, MigrationInvariant, PTL DEF Spec

=============================================================================
