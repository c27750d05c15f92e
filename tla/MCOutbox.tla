------------------------------ MODULE MCOutbox ------------------------------
(* Instances of Outbox for TLC.                                            *)
EXTENDS Outbox, TLC

CONSTANTS e1, e2, a1, a2, o1, o2

(* All events in one aggregate: ordering matters.                          *)
OneAggregate == [e \in Events |-> a1]

(* An aggregate per event: a batch can hold both.                          *)
TwoAggregates == [e \in Events |-> IF e = e1 THEN a1 ELSE a2]

(* Every retry waits one tick.                                             *)
OneTick == [n \in 1 .. MaxAttempts |-> 1]

(* Dispatchers and effects are interchangeable.                            *)
Sym == Permutations(Owners) \cup Permutations(Effects)
=============================================================================
