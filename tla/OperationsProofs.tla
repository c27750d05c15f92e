-------------------------- MODULE OperationsProofs --------------------------
(***************************************************************************)
(* The properties of the operations area, proved from the invariants of    *)
(* its components for every value of the components' constants: a          *)
(* behaviour is one of a single component, and every step of the area is a *)
(* step of that component or leaves its variables alone.                   *)
(***************************************************************************)
EXTENDS MCOperations, TLAPS

(* A step of the area while a component is at work is one of that          *)
(* component.                                                              *)
LEMMA SessionsAtWork ==
  ASSUME [AreaNext]_allVars, part = "sessions" \/ part' = "sessions"
  PROVE  part = "sessions" /\ part' = "sessions" /\ [Sess!Next]_(Sess!vars)
<1>1. CASE AreaNext
  BY <1>1, Zenon DEF AreaNext
<1>2. CASE UNCHANGED allVars
  BY <1>2 DEF allVars, Sess!vars
<1> QED
  BY <1>1, <1>2

LEMMA MigrationsAtWork ==
  ASSUME [AreaNext]_allVars, part = "migrations" \/ part' = "migrations"
  PROVE  part = "migrations" /\ part' = "migrations" /\ [Mig!Next]_(Mig!vars)
<1>1. CASE AreaNext
  BY <1>1, Zenon DEF AreaNext
<1>2. CASE UNCHANGED allVars
  BY <1>2 DEF allVars, Mig!vars
<1> QED
  BY <1>1, <1>2

SessionsInv == part = "sessions" => Sess!IndInv

MigrationsInv == part = "migrations" => Mig!IndInv

LEMMA SessionsInvariant == AreaSpec => []SessionsInv
<1>1. AreaInit => SessionsInv
  BY SessionsAssumption, Sess!InitInv, Zenon DEF AreaInit, SessionsInv
<1>2. SessionsInv /\ [AreaNext]_allVars => SessionsInv'
  BY SessionsAssumption, SessionsAtWork, Sess!NextInv, Zenon DEF SessionsInv
<1> QED
  BY <1>1, <1>2, PTL DEF AreaSpec

LEMMA MigrationsInvariant == AreaSpec => []MigrationsInv
<1>1. AreaInit => MigrationsInv
  BY MigrationsAssumption, Mig!InitInv, Zenon DEF AreaInit, MigrationsInv
<1>2. MigrationsInv /\ [AreaNext]_allVars => MigrationsInv'
  BY MigrationsAssumption, MigrationsAtWork, Mig!NextInv, Zenon DEF
     MigrationsInv
<1> QED
  BY <1>1, <1>2, PTL DEF AreaSpec

(* Any number of processes, requests and browsers: one refresh at a time,  *)
(* and while nothing fails nobody is signed out and the stored refresh     *)
(* token is the one the provider accepts (auth/session handling).          *)
THEOREM SessionsAlwaysHold == AreaSpec => []SessionsHold
<1>1. SessionsInv => SessionsHold
  BY SessionsAssumption, Sess!InvSafe, Zenon DEF SessionsInv, SessionsHold,
     Sess!SessionsHold
<1> QED
  BY <1>1, SessionsInvariant, PTL

(* Any manifest, any number of runners and any number of crashes: the      *)
(* ledger of db/migration_runner.py never claims what is not there.        *)
THEOREM LedgerAlwaysTrue == AreaSpec => []LedgerTrue
<1>1. MigrationsInv => LedgerTrue
  BY MigrationsAssumption, Mig!TruthKept, Mig!SchemaInPlace, Zenon DEF
     MigrationsInv, LedgerTrue
<1> QED
  BY <1>1, MigrationsInvariant, PTL

(* Runs, recoveries and admissions respect the sentinel, the order of the  *)
(* manifest and objects that are not the migrations' own.                  *)
THEOREM MigrationsStayOrdered == AreaSpec => MigrationsOrdered
<1>1. MigrationsInv /\ [AreaNext]_allVars =>
        (part = "migrations" => Mig!SentinelFences /\ Mig!EarlierFirst /\ Mig!ForeignKept)
  BY MigrationsAssumption, MigrationsAtWork, Mig!FencedStep, Mig!OrderedStep,
     Mig!ForeignStep, Zenon DEF MigrationsInv
<1> QED
  BY <1>1, MigrationsInvariant, PTL DEF AreaSpec, MigrationsOrdered
=============================================================================
