------------------------------- MODULE MCCrumb -------------------------------
(* Small instances of Crumb.                                               *)
EXTENDS Crumb, TLC

CONSTANTS s1, b1, r1, r2, d1, d2, e1

Every == [counter |-> 2, fridge |-> 4]
Peak == [logged \in BOOLEAN |-> IF logged THEN 2 ELSE 1]
TwoSteps == {<<[minutes |-> 2, folds |-> 1, every |-> 1], [minutes |-> 1, folds |-> 0, every |-> 1]>>}
Ahead == {3}
Shifts == {1, -1}

Symmetry == Permutations(Request) \cup Permutations(Dispatcher)

(* A behaviour is about a starter or a bake, and begins with a device that  *)
(* is given up only after something was pushed to it.                       *)
OneBusiness == starters' = None \/ bakes' = None
DeviceFirst ==
  /\ devices = {} /\ edits' > edits => edits > 0
  /\ devices # {} /\ devices' = {} => dispatch' # dispatch \/ pushed # {}

(* A bake's third change waits for the second; two dispatches are under way *)
(* only about a starter with two changes, none with three.                  *)
BakesInTurn == bakes # None /\ edits' > edits /\ edits' = 3 => \A r \in Request : job[r].pc = "idle"
UnderWayNext == {d \in Dispatcher : dispatch'[d].pc # "idle"}
FewDispatches ==
  Cardinality(UnderWayNext) <= (IF starters' = None THEN 1 ELSE IF edits' = 3 THEN 0 ELSE 2)

Apart == OneBusiness /\ DeviceFirst /\ BakesInTurn /\ FewDispatches

=============================================================================
