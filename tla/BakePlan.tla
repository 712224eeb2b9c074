------------------------------ MODULE BakePlan ------------------------------
(***************************************************************************)
(* The plan of a bake in Crumb as pure steps (fermentation/plan.ts): the    *)
(* recipe's steps laid out backward from when the bread is out, and what    *)
(* marking one done, logging a fold or shifting the rest does to them.      *)
(* Times are clock ticks; what a step is called and made of is left out.    *)
(***************************************************************************)
EXTENDS Integers, Sequences

CONSTANTS
  Recipe,    \* recipes: sequences of [minutes, folds, every], folds 0 for none
  MinStep    \* five minutes: what is left of a step that is shrunk

NotDone == -99

ASSUME RecipeAssumption ==
  /\ Recipe \subseteq Seq([minutes: Nat \ {0}, folds: Nat, every: Nat \ {0}]) \ {<<>>}
  /\ MinStep \in Nat \ {0}

Open(step) == step.done = NotDone

(* planBake, the layout: each step ends where the next one starts.          *)
PlanBake(recipe, readyAt) ==
  LET n == Len(recipe)
      start[i \in 1 .. n + 1] == IF i = n + 1 THEN readyAt ELSE start[i + 1] - recipe[i].minutes
  IN [i \in 1 .. n |-> [start |-> start[i], end |-> start[i + 1], done |-> NotDone,
                        folds |-> recipe[i].folds, every |-> recipe[i].every, folded |-> <<>>]]

(* currentStep is one.                                                      *)
AnyOpen(steps) == \E i \in DOMAIN steps : Open(steps[i])

Move(step, delta) == [step EXCEPT !.start = @ + delta, !.end = @ + delta]

(* Mutant: only the step itself is marked, and the rest moved.              *)
CompleteStepAlone(steps, k, at) ==
  [i \in DOMAIN steps |->
     IF i = k /\ Open(steps[i]) THEN [steps[i] EXCEPT !.done = at]
     ELSE IF i > k /\ Open(steps[i]) THEN Move(steps[i], at - steps[k].end)
     ELSE steps[i]]

(* Mutant: later steps move by how late the step was against its start.     *)
CompleteStepFromStart(steps, k, at) ==
  [i \in DOMAIN steps |->
     IF ~Open(steps[i]) THEN steps[i]
     ELSE IF i <= k THEN [steps[i] EXCEPT !.done = at]
     ELSE Move(steps[i], at - steps[k].start)]

(* completeStep: k and the open steps before it are done, the later ones    *)
(* move by how late k was.                                                  *)
CompleteStep(steps, k, at) ==
  [i \in DOMAIN steps |->
     IF ~Open(steps[i]) THEN steps[i]
     ELSE IF i <= k THEN [steps[i] EXCEPT !.done = at]
     ELSE Move(steps[i], at - steps[k].end)]

(* logFold: ignored past the step's count.                                  *)
LogFold(steps, k, at) ==
  [steps EXCEPT ![k].folded = IF Len(@) < steps[k].folds THEN Append(@, at) ELSE @]

(* foldsDue: when each fold left is due, counted from the last one.         *)
FoldsDue(step) ==
  LET done == Len(step.folded)
      base == IF done = 0 THEN step.start ELSE step.folded[done]
  IN [k \in done + 1 .. step.folds |-> base + step.every * (k - done)]

UnderWay(step, now) == Open(step) /\ step.start <= now

Later(a, b) == IF a > b THEN a ELSE b

(* Mutant: what a step could not give up is taken from the later ones.      *)
ShiftAll(steps, minutes, now) ==
  [i \in DOMAIN steps |->
     IF UnderWay(steps[i], now)
     THEN [steps[i] EXCEPT !.end = Later(steps[i].start + MinStep, @ + minutes)]
     ELSE IF Open(steps[i]) THEN Move(steps[i], minutes)
     ELSE steps[i]]

(* shiftRemaining: a step under way gets longer or shorter, to MinStep at   *)
(* the least, and passes on to the later ones what it could take.           *)
ShiftRemaining(steps, minutes, now) ==
  LET n == Len(steps)
      delta[i \in 0 .. n] ==
        IF i = 0 THEN minutes
        ELSE IF UnderWay(steps[i], now)
        THEN Later(steps[i].start + MinStep, steps[i].end + delta[i - 1]) - steps[i].end
        ELSE delta[i - 1]
  IN [i \in 1 .. n |->
        IF ~Open(steps[i]) THEN steps[i]
        ELSE IF UnderWay(steps[i], now) THEN [steps[i] EXCEPT !.end = @ + delta[i]]
        ELSE Move(steps[i], delta[i])]

(* Some step starts before the one ahead of it ends, both still open.       *)
Overlap(steps) ==
  \E i \in DOMAIN steps : /\ i + 1 \in DOMAIN steps /\ Open(steps[i]) /\ Open(steps[i + 1])
                          /\ steps[i + 1].start < steps[i].end
=============================================================================
