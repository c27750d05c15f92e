------------------------ MODULE StorePnlShadowProofs ------------------------
(***************************************************************************)
(* Proofs about the pointer of the shadow generations, for any operators,  *)
(* scopes, sites and bounds: what the compare-and-swap on the revision     *)
(* alone guarantees, and that the pointer and the states of the            *)
(* generations never part.                                                 *)
(***************************************************************************)
EXTENDS StorePnlShadow, SequenceTheorems, TLAPS

(* What the proofs assume of the constants.                                *)
ShadowConstants ==
    MaxSales \in Nat

(* The rows of a candidate, the differences reported, and what an operator *)
(* may have in hand.                                                       *)
RowSets == UNION {[D -> Nat] : D \in SUBSET Keys}
Deltas == {Delta(a, b) : a \in RowSets, b \in RowSets}
Drifts == {<< >>} \union {<<d>> : d \in Deltas}
Inputs == [Keys -> 0..MaxSales]

Generation ==
    [state : States, scopes : SUBSET Scopes, baseline : Nat, source : Inputs,
     legacy : RowSets, effective : RowSets, fiscal : Deltas, drift : Drifts]

Pointers == [active : Nat, previous : Nat, revision : Nat]

Reading == [at : {"reading"}, scopes : SUBSET Scopes, baseline : Nat, snapshot : Inputs]

Captured ==
    [at : {"captured"}, scopes : SUBSET Scopes, baseline : Nat, source : Inputs,
     legacy : RowSets, effective : RowSets, fiscal : Deltas, drift : Drifts]

Looking == [at : {"promote", "rollback"}, generation : Nat, seen : Pointers]

ShapeOK ==
    /\ sales \in Inputs
    /\ generations \in Seq(Generation)
    /\ pointer \in Pointers
    /\ trail \in Seq(Nat) /\ pointer.revision = Len(trail) - 1
    /\ op \in [Operators -> {Idle} \union Reading \union Captured \union Looking]

(* The pointer's generations exist and are in the states it implies.       *)
PointerOK ==
    /\ pointer.active # None => pointer.active \in DOMAIN generations
    /\ pointer.previous # None => pointer.previous \in DOMAIN generations
    /\ \A g \in DOMAIN generations :
         generations[g].state = "promoted" <=> g = pointer.active
    /\ pointer.previous # None => generations[pointer.previous].state = "superseded"

(* What an operator saw of the pointer is not newer than the pointer, and  *)
(* with the same revision it is the pointer.                               *)
SeenOK(p) ==
    op[p].at \in {"promote", "rollback"} =>
      /\ op[p].seen.revision <= pointer.revision
      /\ op[p].seen.revision = pointer.revision => op[p].seen = pointer
      /\ op[p].at = "promote" => op[p].generation \in DOMAIN generations

(* A baseline exists, and what was measured against it has its scopes.     *)
BaselineOK(b, scopes) ==
    b # None => b \in DOMAIN generations /\ generations[b].scopes = scopes

OperatorOK(p) ==
    /\ op[p].at = "reading" => op[p].baseline \in {None} \union DOMAIN generations
    /\ op[p].at = "captured" => BaselineOK(op[p].baseline, op[p].scopes)

GenerationOK(g) == BaselineOK(generations[g].baseline, generations[g].scopes)

IndInv ==
    /\ ShapeOK /\ PointerOK
    /\ \A p \in Operators : SeenOK(p) /\ OperatorOK(p)
    /\ \A g \in DOMAIN generations : GenerationOK(g)

-----------------------------------------------------------------------------
(* An operator goes on.                                                    *)

Busy == Reading \union Captured \union Looking

LEMMA OneOperator ==
    ASSUME ShapeOK, NEW p \in Operators, NEW v \in {Idle} \union Busy,
           op' = [op EXCEPT ![p] = v]
    PROVE  /\ op' \in [Operators -> {Idle} \union Reading \union Captured \union Looking]
           /\ op'[p] = v
           /\ \A x \in Operators : x # p => op'[x] = op[x]
BY DEF ShapeOK, Busy

(* The generations so far keep their scopes and baselines.                 *)
Grows ==
    /\ DOMAIN generations \subseteq DOMAIN generations'
    /\ \A g \in DOMAIN generations :
         /\ generations'[g].scopes = generations[g].scopes
         /\ generations'[g].baseline = generations[g].baseline

(* The pointer stays or takes its next revision.                           *)
Advances == pointer' = pointer \/ pointer'.revision = pointer.revision + 1

LEMMA OperatorKept ==
    ASSUME ShapeOK, NEW p \in Operators, SeenOK(p), OperatorOK(p),
           op'[p] = op[p], Grows, Advances
    PROVE  SeenOK(p)' /\ OperatorOK(p)'
<1>1. SeenOK(p)'
    <2>1. pointer.revision \in Nat
        BY DEF ShapeOK, Pointers
    <2>2. op[p].at \in {"promote", "rollback"} => op[p].seen.revision \in Nat
        <3>1. op[p] \in {Idle} \union Reading \union Captured \union Looking
            BY DEF ShapeOK
        <3> QED
            BY <3>1 DEF Idle, Reading, Captured, Looking, Pointers
    <2>3. CASE pointer' = pointer
        BY <2>3 DEF SeenOK, Grows
    <2>4. CASE pointer'.revision = pointer.revision + 1
        BY <2>1, <2>2, <2>4 DEF SeenOK, Grows
    <2> QED
        BY <2>3, <2>4 DEF Advances
<1>2. OperatorOK(p)'
    BY DEF OperatorOK, BaselineOK, Grows
<1> QED
    BY <1>1, <1>2

LEMMA GenerationKept ==
    ASSUME NEW g \in DOMAIN generations, GenerationOK(g), Grows
    PROVE  GenerationOK(g)'
BY DEF GenerationOK, BaselineOK, Grows

(* A step of one operator that leaves the generations and the pointer.     *)
LEMMA OperatorSteps ==
    ASSUME IndInv, NEW p \in Operators, NEW v \in {Idle} \union Busy,
           op' = [op EXCEPT ![p] = v],
           UNCHANGED <<sales, generations, pointer, trail>>,
           SeenOK(p)', OperatorOK(p)'
    PROVE  IndInv'
<1>1. /\ ShapeOK /\ PointerOK
      /\ \A x \in Operators : SeenOK(x) /\ OperatorOK(x)
      /\ \A g \in DOMAIN generations : GenerationOK(g)
    BY DEF IndInv
<1>2. /\ op' \in [Operators -> {Idle} \union Reading \union Captured \union Looking]
      /\ \A x \in Operators : x # p => op'[x] = op[x]
    BY <1>1, OneOperator, Zenon
<1>3. ShapeOK'
    BY <1>1, <1>2 DEF ShapeOK
<1>4. PointerOK'
    BY <1>1 DEF PointerOK
<1>5. Grows /\ Advances
    BY DEF Grows, Advances
<1>6. ASSUME NEW x \in Operators PROVE SeenOK(x)' /\ OperatorOK(x)'
    BY <1>1, <1>2, <1>5, OperatorKept
<1>7. \A g \in DOMAIN generations' : GenerationOK(g)'
    BY <1>1, <1>5, GenerationKept
<1> QED
    BY <1>3, <1>4, <1>6, <1>7 DEF IndInv

-----------------------------------------------------------------------------
(* The capture.                                                            *)

LEMMA BeginKeeps ==
    ASSUME IndInv, NEW p \in Operators, NEW scopes \in SUBSET Scopes,
           NEW baseline, Begin(p, scopes, baseline)
    PROVE  IndInv'
<1> DEFINE v == [at |-> "reading", scopes |-> scopes, baseline |-> baseline,
                 snapshot |-> sales]
<1>1. ShapeOK
    BY DEF IndInv
<1>2. /\ baseline \in {None} \union DOMAIN generations
      /\ op' = [op EXCEPT ![p] = v]
      /\ UNCHANGED <<sales, generations, pointer, trail>>
    BY DEF Begin
<1>3. v \in Reading
    BY <1>1, <1>2 DEF ShapeOK, Reading, None
<1>4. v.at = "reading" /\ v.baseline = baseline
    OBVIOUS
<1> HIDE DEF v
<1>5. v \in {Idle} \union Busy
    BY <1>3 DEF Busy
<1>6. op'[p] = v
    BY <1>1, <1>2, <1>5, OneOperator, ZenonT(60)
<1>7. SeenOK(p)' /\ OperatorOK(p)'
    BY <1>2, <1>4, <1>6 DEF SeenOK, OperatorOK
<1> QED
    BY <1>2, <1>5, <1>7, OperatorSteps, Zenon

(* An operator who has nothing in hand.                                    *)
LEMMA IdleKeeps ==
    ASSUME IndInv, NEW p \in Operators, op' = [op EXCEPT ![p] = Idle],
           UNCHANGED <<sales, generations, pointer, trail>>
    PROVE  IndInv'
<1>1. ShapeOK
    BY DEF IndInv
<1>2. op'[p].at = "idle"
    BY <1>1 DEF ShapeOK, Idle
<1>3. SeenOK(p)' /\ OperatorOK(p)'
    BY <1>2 DEF SeenOK, OperatorOK
<1> QED
    BY <1>3, OperatorSteps, Zenon

LEMMA RowsType ==
    ASSUME ShadowConstants, NEW variant, NEW input \in Inputs, NEW scopes \in SUBSET Scopes
    PROVE  Rows(variant, input, scopes) \in RowSets
<1> DEFINE D == {j \in scopes \X Sites : input[j] > 0}
<1>1. D \in SUBSET Keys
    BY DEF Keys
<1>2. ASSUME NEW k \in D PROVE Rate(variant, k[1]) * input[k] \in Nat
    <2>1. k \in Keys
        BY <1>1
    <2>2. input[k] \in Nat
        BY <2>1 DEF Inputs, ShadowConstants
    <2>3. Rate(variant, k[1]) \in {2, 3}
        BY DEF Rate
    <2> QED
        BY <2>2, <2>3
<1>3. Rows(variant, input, scopes) = [k \in D |-> Rate(variant, k[1]) * input[k]]
    BY DEF Rows
<1> HIDE DEF D
<1>4. Rows(variant, input, scopes) \in [D -> Nat]
    BY <1>2, <1>3
<1> QED
    BY <1>1, <1>4 DEF RowSets

LEMMA CaptureKeeps ==
    ASSUME ShadowConstants, IndInv, NEW p \in Operators, Capture(p)
    PROVE  IndInv'
<1> DEFINE o == op[p]
           legacy == Rows("legacy", o.snapshot, o.scopes)
           effective == Rows("effective", o.snapshot, o.scopes)
           fiscal == Delta(legacy, effective)
           drift == IF o.baseline = None THEN << >>
                    ELSE <<Delta(generations[o.baseline].legacy, legacy)>>
           v == [at |-> "captured", scopes |-> o.scopes, baseline |-> o.baseline,
                 source |-> o.snapshot, legacy |-> legacy, effective |-> effective,
                 fiscal |-> fiscal, drift |-> drift]
<1>1. ShapeOK /\ OperatorOK(p)
    BY SMTT(60) DEF IndInv
<1>2. /\ o.at = "reading"
      /\ op' = [op EXCEPT ![p] = IF ~SameScope(o.scopes, o.baseline) THEN Idle ELSE v]
      /\ UNCHANGED <<sales, generations, pointer, trail>>
    BY DEF Capture
<1>3. CASE ~SameScope(o.scopes, o.baseline)
    <2>1. op' = [op EXCEPT ![p] = Idle]
        BY <1>2, <1>3
    <2> QED
        BY <1>2, <2>1, IdleKeeps, ZenonT(60)
<1>4. CASE SameScope(o.scopes, o.baseline)
    <2>1. op' = [op EXCEPT ![p] = v]
        BY SMTT(60), <1>2, <1>4
    <2>2. o \in Reading
        <3>1. o \in {Idle} \union Reading \union Captured \union Looking
            BY <1>1 DEF ShapeOK
        <3> QED
            BY <1>2, <3>1 DEF Idle, Captured, Looking
    <2>3. /\ o.scopes \in SUBSET Scopes /\ o.baseline \in Nat /\ o.snapshot \in Inputs
        BY <2>2, SMTT(60) DEF Reading
    <2>4. o.baseline \in {None} \union DOMAIN generations
        BY <1>1, <1>2 DEF OperatorOK
    <2> HIDE DEF o
    <2>5. legacy \in RowSets /\ effective \in RowSets
        BY <2>3, RowsType
    <2> HIDE DEF legacy, effective
    <2>6. fiscal \in Deltas
        BY <2>5 DEF Deltas
    <2>7. drift \in Drifts
        <3>1. o.baseline # None => generations[o.baseline].legacy \in RowSets
            <4>1. ASSUME o.baseline # None PROVE generations[o.baseline] \in Generation
                BY <1>1, <2>4, <4>1, SMTT(60) DEF ShapeOK
            <4> QED
                BY <4>1 DEF Generation
        <3> QED
            BY <2>5, <3>1 DEF Drifts, Deltas
    <2> HIDE DEF fiscal, drift
    <2>8. v \in Captured
        BY <2>3, <2>5, <2>6, <2>7 DEF Captured
    <2>9. v.at = "captured" /\ v.baseline = o.baseline /\ v.scopes = o.scopes
        OBVIOUS
    <2> HIDE DEF v
    <2>10. v \in {Idle} \union Busy
        BY <2>8 DEF Busy
    <2>11. op'[p] = v
        BY <1>1, <2>1, <2>10, OneOperator, Zenon
    <2>12. o.baseline # None => /\ o.baseline \in DOMAIN generations'
                                /\ generations'[o.baseline].scopes = o.scopes
        BY <1>2, <1>4, <2>4 DEF SameScope
    <2>13. SeenOK(p)'
        BY <2>9, <2>11 DEF SeenOK
    <2>14. OperatorOK(p)'
        BY <2>9, <2>11, <2>12 DEF OperatorOK, BaselineOK
    <2> QED
        BY <1>2, <2>1, <2>10, <2>13, <2>14, OperatorSteps, ZenonT(60)
<1> QED
    BY <1>3, <1>4

(* A captured candidate becomes a staged generation.                       *)
LEMMA StageKeeps ==
    ASSUME IndInv, NEW p \in Operators, Stage(p)
    PROVE  IndInv'
<1> DEFINE e == [state |-> "staged", scopes |-> op[p].scopes,
                 baseline |-> op[p].baseline, source |-> op[p].source,
                 legacy |-> op[p].legacy, effective |-> op[p].effective,
                 fiscal |-> op[p].fiscal, drift |-> op[p].drift]
           n == Len(generations) + 1
<1>1. /\ ShapeOK /\ PointerOK
      /\ \A x \in Operators : SeenOK(x) /\ OperatorOK(x)
      /\ \A g \in DOMAIN generations : GenerationOK(g)
    BY DEF IndInv
<1>2. /\ op[p].at = "captured" /\ generations' = Append(generations, e)
      /\ op' = [op EXCEPT ![p] = Idle] /\ UNCHANGED <<sales, pointer, trail>>
    BY SMTT(60) DEF Stage
<1>3. op[p] \in Captured
    <2>1. op[p] \in {Idle} \union Reading \union Captured \union Looking
        BY <1>1 DEF ShapeOK
    <2> QED
        BY <1>2, <2>1 DEF Idle, Reading, Looking
<1>4. e \in Generation
    BY <1>3 DEF Captured, Generation, States
<1>5. e.state = "staged" /\ e.scopes = op[p].scopes /\ e.baseline = op[p].baseline
    BY SMTT(60)
<1>6. BaselineOK(e.baseline, e.scopes)
    BY <1>1, <1>2, <1>5, SMTT(60) DEF OperatorOK
<1> HIDE DEF e
<1>7. /\ generations' \in Seq(Generation) /\ Len(generations') = n
      /\ \A g \in 1..Len(generations) : generations'[g] = generations[g]
      /\ generations'[n] = e
    BY <1>1, <1>2, <1>4, AppendProperties DEF ShapeOK
<1>8. /\ DOMAIN generations = 1..Len(generations) /\ Len(generations) \in Nat
      /\ DOMAIN generations' = 1..n
    BY <1>1, <1>7 DEF ShapeOK
<1>9. /\ DOMAIN generations' = DOMAIN generations \union {n} /\ n \notin DOMAIN generations
      /\ n # None
    BY <1>8 DEF None
<1> HIDE DEF n
<1>10. \A g \in DOMAIN generations : generations'[g] = generations[g]
    BY <1>7, <1>8
<1>11. Grows /\ Advances
    BY <1>2, <1>9, <1>10 DEF Grows, Advances
<1>12. /\ op' \in [Operators -> {Idle} \union Reading \union Captured \union Looking]
       /\ op'[p] = Idle /\ \A x \in Operators : x # p => op'[x] = op[x]
    BY <1>1, <1>2, OneOperator, ZenonT(60)
<1>13. ShapeOK'
    BY <1>1, <1>2, <1>7, <1>12, SMTT(60) DEF ShapeOK
<1>14. PointerOK'
    <2>1. /\ pointer.active # None => pointer.active \in DOMAIN generations
          /\ pointer.previous # None => pointer.previous \in DOMAIN generations
                   /\ generations[pointer.previous].state = "superseded"
          /\ \A g \in DOMAIN generations :
               generations[g].state = "promoted" <=> g = pointer.active
        BY <1>1 DEF PointerOK
    <2>2. n # pointer.active
        BY <1>9, <2>1
    <2>3. \A g \in DOMAIN generations' :
            generations'[g].state = "promoted" <=> g = pointer.active
        BY <1>5, <1>7, <1>9, <1>10, <2>1, <2>2
    <2> QED
        BY <1>2, <1>9, <1>10, <2>1, <2>3 DEF PointerOK
<1>15. ASSUME NEW x \in Operators PROVE SeenOK(x)' /\ OperatorOK(x)'
    <2>1. CASE x = p
        BY <1>12, <2>1 DEF SeenOK, OperatorOK, Idle
    <2>2. CASE x # p
        BY SMTT(60), <1>1, <1>11, <1>12, <2>2, OperatorKept
    <2> QED
        BY SMTT(60), <2>1, <2>2
<1>16. ASSUME NEW g \in DOMAIN generations' PROVE GenerationOK(g)'
    <2>1. CASE g = n
        <3>1. e.baseline # None => /\ e.baseline \in DOMAIN generations'
                                   /\ generations'[e.baseline].scopes = e.scopes
            BY <1>6, <1>11 DEF BaselineOK, Grows
        <3> QED
            BY <1>7, <2>1, <3>1 DEF GenerationOK, BaselineOK
    <2>2. CASE g \in DOMAIN generations
        BY <1>1, <1>11, <2>2, GenerationKept
    <2> QED
        BY <1>9, <2>1, <2>2
<1> QED
    BY <1>13, <1>14, <1>15, <1>16 DEF IndInv

LEMMA GiveUpKeeps ==
    ASSUME IndInv, NEW p \in Operators, GiveUp(p)
    PROVE  IndInv'
BY IdleKeeps, Zenon DEF GiveUp

LEMMA ChangeSalesKeeps ==
    ASSUME IndInv, NEW k \in Keys, NEW n \in 0..MaxSales, ChangeSales(k, n)
    PROVE  IndInv'
<1>1. /\ ShapeOK /\ PointerOK
      /\ \A x \in Operators : SeenOK(x) /\ OperatorOK(x)
      /\ \A g \in DOMAIN generations : GenerationOK(g)
    BY DEF IndInv
<1>2. sales' = [sales EXCEPT ![k] = n] /\ UNCHANGED <<generations, pointer, op, trail>>
    BY DEF ChangeSales
<1>3. ShapeOK'
    BY <1>1, <1>2 DEF ShapeOK, Inputs
<1>4. PointerOK' /\ Grows /\ Advances
    BY <1>1, <1>2 DEF PointerOK, Grows, Advances
<1>5. \A x \in Operators : SeenOK(x)' /\ OperatorOK(x)'
    BY <1>1, <1>2, <1>4, OperatorKept
<1>6. \A g \in DOMAIN generations' : GenerationOK(g)'
    BY <1>1, <1>2, <1>4, GenerationKept
<1> QED
    BY <1>3, <1>4, <1>5, <1>6 DEF IndInv

-----------------------------------------------------------------------------
(* The pointer.                                                            *)

LEMMA LookKeeps ==
    ASSUME IndInv, NEW p \in Operators, NEW g, Look(p, g)
    PROVE  IndInv'
<1> DEFINE at == IF g = None THEN "rollback" ELSE "promote"
           v == [at |-> at, generation |-> g, seen |-> pointer]
<1>1. ShapeOK
    BY SMTT(60) DEF IndInv
<1>2. /\ g \in {None} \union DOMAIN generations /\ op' = [op EXCEPT ![p] = v]
      /\ UNCHANGED <<sales, generations, pointer, trail>>
    BY DEF Look
<1>3. g \in Nat /\ pointer \in Pointers
    BY <1>1, <1>2 DEF ShapeOK, None
<1>4. v \in Looking
    BY <1>3 DEF Looking
<1>5. v.at = at /\ v.generation = g /\ v.seen = pointer
    OBVIOUS
<1> HIDE DEF v
<1>6. v \in {Idle} \union Busy
    BY <1>4 DEF Busy
<1>7. op'[p] = v
    BY <1>1, <1>2, <1>6, OneOperator, Zenon
<1>8. pointer.revision \in Nat
    BY <1>3 DEF Pointers
<1>9. SeenOK(p)'
    BY <1>2, <1>5, <1>7, <1>8 DEF SeenOK
<1>10. OperatorOK(p)'
    BY <1>5, <1>7 DEF OperatorOK
<1> QED
    BY <1>2, <1>6, <1>9, <1>10, OperatorSteps, Zenon

(* The new state of a generation when the given states are set.            *)
StateAfter(g, states) ==
    IF g \in DOMAIN states THEN states[g] ELSE generations[g].state

LEMMA StateEdits ==
    ASSUME NEW e \in Generation, NEW s \in States
    PROVE  /\ [e EXCEPT !.state = s] \in Generation
           /\ [e EXCEPT !.state = s].state = s
           /\ [e EXCEPT !.state = s].scopes = e.scopes
           /\ [e EXCEPT !.state = s].baseline = e.baseline
BY DEF Generation

(* A move of the pointer, or its refusal, keeps the invariant when the new *)
(* active generation is the one that ends up promoted.                     *)
LEMMA MoveKeeps ==
    ASSUME IndInv, NEW p \in Operators, NEW active \in Nat, NEW previous \in Nat,
           NEW states, DOMAIN states \subseteq DOMAIN generations,
           \A g \in DOMAIN states : states[g] \in States,
           Move(p, active, previous, states),
           op' = [op EXCEPT ![p] = Idle], sales' = sales,
           active \in DOMAIN generations,
           previous # None => /\ previous \in DOMAIN generations
                              /\ StateAfter(previous, states) = "superseded",
           \A g \in DOMAIN generations :
             StateAfter(g, states) = "promoted" <=> g = active
    PROVE  IndInv'
<1>1. /\ ShapeOK /\ PointerOK
      /\ \A x \in Operators : SeenOK(x) /\ OperatorOK(x)
      /\ \A g \in DOMAIN generations : GenerationOK(g)
    BY DEF IndInv
<1>2. CASE UNCHANGED <<generations, pointer, trail>>
    BY <1>2, IdleKeeps, Zenon
<1>3. CASE /\ pointer' = [active |-> active, previous |-> previous,
                          revision |-> pointer.revision + 1]
           /\ generations' = [g \in DOMAIN generations |->
                                IF g \in DOMAIN states
                                THEN [generations[g] EXCEPT !.state = states[g]]
                                ELSE generations[g]]
           /\ trail' = Append(trail, active)
    <2>1. DOMAIN generations' = DOMAIN generations
        BY SMTT(60), <1>3
    <2>2. ASSUME NEW g \in DOMAIN generations
          PROVE  /\ generations'[g] \in Generation
                 /\ generations'[g].state = StateAfter(g, states)
                 /\ generations'[g].scopes = generations[g].scopes
                 /\ generations'[g].baseline = generations[g].baseline
        <3>1. generations[g] \in Generation
            BY <1>1 DEF ShapeOK
        <3>2. CASE g \in DOMAIN states
            <4>1. generations'[g] = [generations[g] EXCEPT !.state = states[g]]
                BY SMTT(60), <1>3, <3>2
            <4> QED
                BY <3>1, <3>2, <4>1, StateEdits DEF StateAfter
        <3>3. CASE g \notin DOMAIN states
            <4>1. generations'[g] = generations[g]
                BY <1>3, <3>3
            <4> QED
                BY <3>1, <3>3, <4>1 DEF StateAfter
        <3> QED
            BY <3>2, <3>3
    <2>3. generations' \in Seq(Generation)
        <3>1. /\ DOMAIN generations = 1..Len(generations) /\ Len(generations) \in Nat
            BY <1>1 DEF ShapeOK
        <3>2. generations' = [g \in 1..Len(generations) |-> generations'[g]]
            BY SMTT(60), <1>3, <3>1
        <3>3. generations' \in [1..Len(generations) -> Generation]
            BY <2>2, <3>1, <3>2
        <3> QED
            BY <3>1, <3>3
    <2>4. /\ pointer'.active = active /\ pointer'.previous = previous
          /\ pointer'.revision = pointer.revision + 1
          /\ pointer' \in Pointers
        BY <1>1, <1>3 DEF ShapeOK, Pointers
    <2>5. trail' \in Seq(Nat) /\ Len(trail') = Len(trail) + 1 /\ Len(trail) \in Nat
        BY <1>1, <1>3, AppendProperties DEF ShapeOK
    <2>6. pointer'.revision = Len(trail') - 1
        BY <1>1, <2>4, <2>5 DEF ShapeOK
    <2>7. /\ op' \in [Operators -> {Idle} \union Reading \union Captured \union Looking]
          /\ op'[p] = Idle /\ \A x \in Operators : x # p => op'[x] = op[x]
        BY <1>1, OneOperator, ZenonT(60)
    <2>8. ShapeOK'
        BY <1>1, <2>3, <2>4, <2>5, <2>6, <2>7, SMTT(60) DEF ShapeOK
    <2>9. PointerOK'
        BY <2>1, <2>2, <2>4, SMTT(60) DEF PointerOK
    <2>10. Grows /\ Advances
        BY <2>1, <2>2, <2>4 DEF Grows, Advances
    <2>11. ASSUME NEW x \in Operators PROVE SeenOK(x)' /\ OperatorOK(x)'
        <3>1. CASE x = p
            BY <2>7, <3>1, SMTT(60) DEF SeenOK, OperatorOK, Idle
        <3>2. CASE x # p
            BY SMTT(60), <1>1, <2>7, <2>10, <3>2, OperatorKept
        <3> QED
            BY SMTT(60), <3>1, <3>2
    <2>12. \A g \in DOMAIN generations' : GenerationOK(g)'
        BY SMTT(60), <1>1, <2>1, <2>10, GenerationKept
    <2> QED
        BY <2>8, <2>9, <2>11, <2>12 DEF IndInv
<1> QED
    BY <1>2, <1>3 DEF Move

LEMMA PromoteKeeps ==
    ASSUME IndInv, NEW p \in Operators, Promote(p)
    PROVE  IndInv'
<1> DEFINE new == op[p].generation
           old == pointer.active
           states == [g \in {new, old} \ {None} |->
                        IF g = new THEN "promoted" ELSE "superseded"]
<1>1. /\ op[p].at = "promote" /\ PromotePointer(p)
      /\ op' = [op EXCEPT ![p] = Idle] /\ sales' = sales
    BY DEF Promote
<1>2. ShapeOK /\ PointerOK /\ SeenOK(p)
    BY DEF IndInv
<1>3. CASE UNCHANGED <<generations, pointer, trail>>
    BY <1>1, <1>3, IdleKeeps, Zenon
<1>4. CASE generations[new].state = "staged" /\ Move(p, new, old, states)
    <2>1. /\ new \in DOMAIN generations /\ new \in Nat /\ new # None /\ old \in Nat
        BY <1>1, <1>2, SMTT(60) DEF SeenOK, ShapeOK, Pointers, None
    <2>2. old # None => old \in DOMAIN generations
        BY <1>2 DEF PointerOK
    <2>3. old # new
        BY <1>2, <1>4, <2>1, SMTT(60) DEF PointerOK
    <2>4. /\ DOMAIN states = {new, old} \ {None}
          /\ states[new] = "promoted"
          /\ old # None => states[old] = "superseded"
        BY <2>1, <2>3
    <2>5. \A g \in DOMAIN generations : generations[g].state = "promoted" <=> g = old
        BY <1>2 DEF PointerOK
    <2> HIDE DEF states, new, old
    <2>6. \A g \in DOMAIN states : states[g] \in States
        BY <2>4 DEF States
    <2>7. DOMAIN states \subseteq DOMAIN generations
        BY <2>1, <2>2, <2>4
    <2>8. old # None => StateAfter(old, states) = "superseded"
        BY <2>4 DEF StateAfter
    <2>9. None \notin DOMAIN generations
        BY <1>2 DEF ShapeOK, None
    <2>10. ASSUME NEW g \in DOMAIN generations
           PROVE  StateAfter(g, states) = "promoted" <=> g = new
        <3>1. CASE g \in {new, old}
            BY <2>3, <2>4, <2>9, <3>1 DEF StateAfter
        <3>2. CASE g \notin {new, old}
            BY <2>4, <2>5, <3>2, SMTT(60) DEF StateAfter
        <3> QED
            BY <3>1, <3>2
    <2> QED
        BY <1>1, <1>4, <2>1, <2>2, <2>6, <2>7, <2>8, <2>10, MoveKeeps,
           ZenonT(60)
<1> QED
    BY <1>1, <1>3, <1>4, SMTT(60) DEF PromotePointer

LEMMA RollbackKeeps ==
    ASSUME IndInv, NEW p \in Operators, Rollback(p)
    PROVE  IndInv'
<1> DEFINE old == pointer.active
           back == pointer.previous
           states == [g \in {old, back} |-> IF g = old THEN "rolled_back" ELSE "promoted"]
<1>1. /\ op[p].at = "rollback" /\ RollbackPointer(p)
      /\ op' = [op EXCEPT ![p] = Idle] /\ sales' = sales
    BY DEF Rollback
<1>2. ShapeOK /\ PointerOK
    BY DEF IndInv
<1>3. CASE UNCHANGED <<generations, pointer, trail>>
    BY <1>1, <1>3, IdleKeeps, Zenon
<1>4. CASE old # None /\ back # None /\ Move(p, back, None, states)
    <2>1. /\ old \in DOMAIN generations /\ back \in DOMAIN generations
          /\ generations[back].state = "superseded" /\ back \in Nat /\ None \in Nat
        BY <1>2, <1>4 DEF PointerOK, ShapeOK, Pointers, None
    <2>2. \A g \in DOMAIN generations : generations[g].state = "promoted" <=> g = old
        BY <1>2 DEF PointerOK
    <2>3. old # back
        BY <2>1, <2>2
    <2>4. /\ DOMAIN states = {old, back}
          /\ states[old] = "rolled_back" /\ states[back] = "promoted"
        BY <2>3
    <2> HIDE DEF states, old, back
    <2>5. \A g \in DOMAIN states : states[g] \in States
        BY <2>4 DEF States
    <2>6. DOMAIN states \subseteq DOMAIN generations
        BY <2>1, <2>4
    <2>7. \A g \in DOMAIN generations : StateAfter(g, states) = "promoted" <=> g = back
        BY <2>2, <2>3, <2>4 DEF StateAfter
    <2> QED
        BY <1>1, <1>4, <2>1, <2>5, <2>6, <2>7, MoveKeeps, ZenonT(60)
<1> QED
    BY <1>1, <1>3, <1>4 DEF RollbackPointer

-----------------------------------------------------------------------------
(* The invariant.                                                          *)

LEMMA InitInv ==
    ASSUME Init
    PROVE  IndInv
<1>1. ShapeOK
    BY DEF Init, ShapeOK, Inputs, Pointers, None
<1>2. DOMAIN generations = {}
    BY DEF Init
<1>3. PointerOK
    BY <1>2, SMTT(60) DEF Init, PointerOK
<1>4. \A p \in Operators : SeenOK(p) /\ OperatorOK(p)
    BY DEF Init, SeenOK, OperatorOK, Idle
<1> QED
    BY <1>1, <1>2, <1>3, <1>4 DEF IndInv

LEMMA StutterInv ==
    ASSUME IndInv, UNCHANGED vars
    PROVE  IndInv'
<1>1. /\ ShapeOK /\ PointerOK
      /\ \A x \in Operators : SeenOK(x) /\ OperatorOK(x)
      /\ \A g \in DOMAIN generations : GenerationOK(g)
    BY DEF IndInv
<1>2. UNCHANGED <<sales, generations, pointer, op, trail>>
    BY SMTT(60) DEF vars
<1>3. ShapeOK' /\ PointerOK' /\ Grows /\ Advances
    BY <1>1, <1>2 DEF ShapeOK, PointerOK, Grows, Advances
<1>4. \A x \in Operators : SeenOK(x)' /\ OperatorOK(x)'
    BY <1>1, <1>2, <1>3, OperatorKept
<1>5. \A g \in DOMAIN generations' : GenerationOK(g)'
    BY <1>1, <1>2, <1>3, GenerationKept
<1> QED
    BY <1>3, <1>4, <1>5 DEF IndInv

LEMMA NextInv ==
    ASSUME ShadowConstants, IndInv, Next
    PROVE  IndInv'
<1>1. ASSUME NEW p \in Operators, NEW scopes \in SUBSET Scopes, NEW b, Begin(p, scopes, b)
      PROVE  IndInv'
    BY <1>1, BeginKeeps
<1>2. ASSUME NEW p \in Operators, NEW g, Look(p, g)
      PROVE  IndInv'
    BY <1>2, LookKeeps
<1>3. ASSUME NEW p \in Operators,
             Capture(p) \/ Stage(p) \/ Promote(p) \/ Rollback(p) \/ GiveUp(p)
      PROVE  IndInv'
    BY <1>3, CaptureKeeps, StageKeeps, PromoteKeeps, RollbackKeeps,
       GiveUpKeeps, Zenon
<1>4. ASSUME NEW k \in Keys, NEW n \in 0..MaxSales, ChangeSales(k, n)
      PROVE  IndInv'
    BY <1>4, ChangeSalesKeeps
<1> QED
    BY <1>1, <1>2, <1>3, <1>4, Zenon DEF Next

(* The pointer, the generations' states and what the operators saw agree   *)
(* in every state that migration 040's functions can reach, for any number *)
(* of operators and generations.                                           *)
THEOREM ShadowInvariant == ShadowConstants => (Spec => []IndInv)
<1> SUFFICES ASSUME ShadowConstants PROVE Spec => []IndInv
    OBVIOUS
<1>1. Init => IndInv
    BY InitInv
<1>2. IndInv /\ [Next]_vars => IndInv'
    BY NextInv, StutterInv
<1> QED
    BY <1>1, <1>2, PTL DEF Spec

(* The pointer names generations that exist and its revision counts its    *)
(* moves.                                                                  *)
THEOREM ShadowTypes == ShadowConstants => (Spec => []TypeOK)
<1> SUFFICES ASSUME ShadowConstants PROVE Spec => []TypeOK
    BY SMTT(60)
<1>1. IndInv => TypeOK
    <2> SUFFICES ASSUME IndInv PROVE TypeOK
        OBVIOUS
    <2>1. ShapeOK /\ PointerOK
        BY DEF IndInv
    <2>2. ASSUME NEW g \in DOMAIN generations PROVE generations[g].state \in States
        <3>1. generations[g] \in Generation
            BY <2>1 DEF ShapeOK
        <3> QED
            BY <3>1 DEF Generation
    <2>3. ASSUME NEW p \in Operators
          PROVE  op[p].at \in {"idle", "reading", "captured", "promote", "rollback"}
        BY <2>1 DEF ShapeOK, Idle, Reading, Captured, Looking
    <2> QED
        BY <2>1, <2>2, <2>3 DEF ShapeOK, PointerOK, Inputs, TypeOK
<1>2. Spec => []IndInv
    BY ShadowInvariant
<1> QED
    BY <1>1, <1>2, PTL

(* Exactly the generation under the pointer is promoted, and the one a     *)
(* rollback returns to is superseded, so the trigger of migration 040      *)
(* refuses no rollback that the pointer allows.                            *)
THEOREM PointerFollowsStates == ShadowConstants => (Spec => []ActiveIsPromoted)
<1> SUFFICES ASSUME ShadowConstants PROVE Spec => []ActiveIsPromoted
    OBVIOUS
<1>1. IndInv => ActiveIsPromoted
    <2> SUFFICES ASSUME IndInv PROVE ActiveIsPromoted
        OBVIOUS
    <2>1. PointerOK /\ None \notin DOMAIN generations
        BY DEF IndInv, ShapeOK, None
    <2> QED
        BY <2>1 DEF PointerOK, ActiveIsPromoted
<1>2. Spec => []IndInv
    BY ShadowInvariant
<1> QED
    BY <1>1, <1>2, PTL

LEMMA OnlyMovesMove ==
    ASSUME IndInv, Next, pointer' # pointer
    PROVE  MovesWhatWasSeen
<1>1. PICK p \in Operators : Promote(p) \/ Rollback(p)
    BY ZenonT(60) DEF Next, Begin, Capture, Stage, Look, GiveUp, ChangeSales
<1>2. op[p].at \in {"promote", "rollback"} /\ op' = [op EXCEPT ![p] = Idle]
    BY <1>1 DEF Promote, Rollback
<1>3. op[p].seen.revision = pointer.revision
    BY <1>1, SMTT(60) DEF Promote, PromotePointer, Rollback, RollbackPointer,
       Move
<1>4. op[p].seen = pointer
    BY <1>2, <1>3 DEF IndInv, SeenOK
<1>5. op'[p] = Idle
    BY <1>2 DEF IndInv, ShapeOK
<1> QED
    BY <1>2, <1>4, <1>5 DEF MovesWhatWasSeen

(* Whoever moves the pointer has seen the very pointer that is replaced:   *)
(* the compare-and-swap compares the revision only, and no two pointers    *)
(* ever share one.                                                         *)
THEOREM PointerMovesWhatWasSeen == ShadowConstants => (Spec => [][MovesWhatWasSeen]_vars)
<1> SUFFICES ASSUME ShadowConstants PROVE Spec => [][MovesWhatWasSeen]_vars
    OBVIOUS
<1>1. IndInv /\ [Next]_vars => [MovesWhatWasSeen]_vars
    BY OnlyMovesMove DEF MovesWhatWasSeen
<1>2. Spec => []IndInv
    BY ShadowInvariant
<1> QED
    BY <1>1, <1>2, PTL DEF Spec

(* A drift is reported only against a generation of the same scopes.       *)
SameScopesCompared == \A g \in DOMAIN generations : GenerationOK(g)

(* _baseline_legacy_rows refuses any other baseline, however many          *)
(* generations are staged and moved between the capture and its staging.   *)
THEOREM DriftHasItsScopes == ShadowConstants => (Spec => []SameScopesCompared)
<1> SUFFICES ASSUME ShadowConstants PROVE Spec => []SameScopesCompared
    OBVIOUS
<1>1. IndInv => SameScopesCompared
    BY DEF IndInv, SameScopesCompared
<1>2. Spec => []IndInv
    BY ShadowInvariant
<1> QED
    BY <1>1, <1>2, PTL
=============================================================================
