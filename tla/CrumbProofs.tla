----------------------------- MODULE CrumbProofs -----------------------------
(***************************************************************************)
(* Crumb's properties, for any numbers of starters, bakes, requests,        *)
(* dispatchers and devices, for any recipes and any clock.  Four parts, each*)
(* with an invariant or lemmas of its own:                                  *)
(*   - what the recursions of BakePlan and Crumb compute.  Such a function  *)
(*     is a CHOOSE of the functions that satisfy the recursion; that there  *)
(*     is one, and what it returns, follows from the least number for which *)
(*     it would be otherwise;                                               *)
(*   - TablesInv: types, and every bake's plan in order;                    *)
(*   - RemindersInv: what a request knows that is alone with its group;     *)
(*   - IInv: what has been handed out to be pushed.                         *)
(***************************************************************************)
EXTENDS Crumb, TLAPS, SequenceTheorems, WellFoundedInduction

-----------------------------------------------------------------------------
(* Part 1: recursion, plans and folds.                                      *)

LEMMA FunctionIsSeq ==
  ASSUME NEW S, NEW n \in Nat, NEW f \in [1 .. n -> S]
  PROVE  f \in Seq(S) /\ Len(f) = n
<1>1. f \in Seq(S)
  BY SeqDef
<1>2. DOMAIN f = 1 .. n /\ DOMAIN f = 1 .. Len(f) /\ Len(f) \in Nat
  BY <1>1, LenProperties
<1> QED BY <1>1, <1>2

(* Of some natural numbers, one is the least.                               *)
LEMMA Least ==
  ASSUME NEW N \in SUBSET Nat, N # {}
  PROVE  \E m \in N : \A k \in N : m <= k
<1>1. PICK m \in N : \A k \in N : <<k, m>> \notin OpToRel(<, Nat)
  BY NatLessThanWellFounded, WFMin
<1>2. \A k \in N : ~(k < m)
  BY <1>1 DEF OpToRel
<1> QED BY <1>2

(* planBake goes back through the steps; so does the recursion here: f says *)
(* from when each step from the m-th last on starts.                        *)
Starts(f, recipe, readyAt, m) ==
  f = [i \in Len(recipe) + 1 - m .. Len(recipe) + 1 |->
         IF i = Len(recipe) + 1 THEN readyAt ELSE f[i + 1] - recipe[i].minutes]

LEMMA StartsExist ==
  ASSUME NEW recipe, Len(recipe) \in Nat, NEW readyAt, NEW m \in Nat
  PROVE  \E f : Starts(f, recipe, readyAt, m)
<1> DEFINE n == Len(recipe)
           B == {k \in Nat : ~\E f : Starts(f, recipe, readyAt, k)}
<1>1. SUFFICES ASSUME B # {} PROVE FALSE
  BY <1>1
<1>2. PICK k \in B : \A j \in B : k <= j
  <2> HIDE DEF B
  <2>1. B \in SUBSET Nat BY DEF B
  <2> QED BY <1>1, <2>1, Least
<1>3. CASE k = 0
  <2> DEFINE f == [i \in {n + 1} |-> readyAt]
  <2>1. n + 1 - 0 .. n + 1 = {n + 1}
    OBVIOUS
  <2>2. Starts(f, recipe, readyAt, 0)
    BY <2>1 DEF Starts
  <2> QED BY <1>3, <2>2
<1>4. CASE k # 0
  <2>1. k - 1 \in Nat /\ k - 1 \notin B
    BY <1>2, <1>4
  <2>2. PICK g : Starts(g, recipe, readyAt, k - 1)
    BY <2>1
  <2> DEFINE f == [i \in n + 1 - k .. n + 1 |-> IF i = n + 1 - k THEN g[i + 1] - recipe[i].minutes ELSE g[i]]
  <2>3. \A i \in n + 1 - (k - 1) .. n + 1 : /\ i # n + 1 - k /\ i \in n + 1 - k .. n + 1
                                            /\ g[i] = IF i = n + 1 THEN readyAt ELSE g[i + 1] - recipe[i].minutes
    <3>1. k \in Nat /\ k # 0
      BY <1>4
    <3>2. g = [i \in n + 1 - (k - 1) .. n + 1 |-> IF i = n + 1 THEN readyAt ELSE g[i + 1] - recipe[i].minutes]
      BY <2>2, Zenon DEF Starts
    <3>3. n \in Nat
      OBVIOUS
    <3> HIDE DEF B, f, n
    <3>4. \A i \in n + 1 - (k - 1) .. n + 1 : g[i] = IF i = n + 1 THEN readyAt ELSE g[i + 1] - recipe[i].minutes
      BY <3>2, Zenon
    <3>5. \A i \in n + 1 - (k - 1) .. n + 1 : i # n + 1 - k /\ i \in n + 1 - k .. n + 1
      BY <3>1, <3>3
    <3> QED BY <3>4, <3>5
  <2>4. \A i \in n + 1 - k .. n + 1 : f[i] = IF i = n + 1 THEN readyAt ELSE f[i + 1] - recipe[i].minutes
    <3> SUFFICES ASSUME NEW i \in n + 1 - k .. n + 1
                 PROVE  f[i] = IF i = n + 1 THEN readyAt ELSE f[i + 1] - recipe[i].minutes
      OBVIOUS
    <3>1. CASE i = n + 1
      BY <3>1, <2>3, <1>4
    <3>2. CASE i # n + 1
      <4>1. i + 1 \in n + 1 - (k - 1) .. n + 1
        BY <3>2, <1>4
      <4>2. f[i + 1] = g[i + 1]
        BY <4>1, <2>3
      <4>3. i # n + 1 - k => i \in n + 1 - (k - 1) .. n + 1
        BY <1>4
      <4> QED BY <3>2, <4>2, <4>3, <2>3
    <3> QED BY <3>1, <3>2
  <2> HIDE DEF n
  <2>5. f = [i \in n + 1 - k .. n + 1 |-> IF i = n + 1 THEN readyAt ELSE f[i + 1] - recipe[i].minutes]
    BY <2>4
  <2>6. Starts(f, recipe, readyAt, k)
    BY <2>5 DEF Starts, n
  <2> QED BY <2>6
<1> QED BY <1>3, <1>4

Start(recipe, readyAt) == CHOOSE f : Starts(f, recipe, readyAt, Len(recipe))

LEMMA PlanBakeStarts ==
  ASSUME NEW recipe, NEW readyAt
  PROVE  PlanBake(recipe, readyAt) =
           [i \in 1 .. Len(recipe) |->
             [start |-> Start(recipe, readyAt)[i], end |-> Start(recipe, readyAt)[i + 1], done |-> NotDone,
              folds |-> recipe[i].folds, every |-> recipe[i].every, folded |-> <<>>]]
<1>1. Len(recipe) + 1 - Len(recipe) = 1
  OBVIOUS
<1> QED BY <1>1 DEF PlanBake, Start, Starts

(* ShiftRemaining passes on from step to step what is left of the shift.    *)
Taken(steps, i, passed, t) ==
  IF UnderWay(steps[i], t) THEN Later(steps[i].start + MinStep, steps[i].end + passed) - steps[i].end ELSE passed

Deltas(f, steps, minutes, t, m) == f = [i \in 0 .. m |-> IF i = 0 THEN minutes ELSE Taken(steps, i, f[i - 1], t)]

LEMMA DeltasExist ==
  ASSUME NEW steps, NEW minutes, NEW t, NEW m \in Nat
  PROVE  \E f : Deltas(f, steps, minutes, t, m)
<1> DEFINE B == {k \in Nat : ~\E f : Deltas(f, steps, minutes, t, k)}
<1>1. SUFFICES ASSUME B # {} PROVE FALSE
  BY <1>1
<1>2. PICK k \in B : \A j \in B : k <= j
  <2> HIDE DEF B
  <2>1. B \in SUBSET Nat BY DEF B
  <2> QED BY <1>1, <2>1, Least
<1>3. CASE k = 0
  <2> DEFINE f == [i \in {0} |-> minutes]
  <2>1. 0 .. 0 = {0}
    OBVIOUS
  <2>2. Deltas(f, steps, minutes, t, 0)
    BY <2>1 DEF Deltas
  <2> QED BY <1>3, <2>2
<1>4. CASE k # 0
  <2>1. k \in Nat /\ k - 1 \in Nat /\ k - 1 \notin B
    BY <1>2, <1>4
  <2>2. PICK g : Deltas(g, steps, minutes, t, k - 1)
    BY <2>1
  <2>3. \A i \in 0 .. k - 1 : g[i] = IF i = 0 THEN minutes ELSE Taken(steps, i, g[i - 1], t)
    BY <2>2, Zenon DEF Deltas
  <2> DEFINE f == [i \in 0 .. k |-> IF i = k THEN Taken(steps, i, g[i - 1], t) ELSE g[i]]
  <2> HIDE DEF B
  <2>4. \A i \in 0 .. k : f[i] = IF i = 0 THEN minutes ELSE Taken(steps, i, f[i - 1], t)
    <3> SUFFICES ASSUME NEW i \in 0 .. k
                 PROVE  f[i] = IF i = 0 THEN minutes ELSE Taken(steps, i, f[i - 1], t)
      OBVIOUS
    <3>1. CASE i = 0
      BY <3>1, <2>1, <2>3, <1>4
    <3>2. CASE i # 0
      <4>1. f[i - 1] = g[i - 1]
        BY <2>1, <3>2
      <4>2. i # k => i \in 0 .. k - 1
        BY <2>1
      <4> QED BY <3>2, <4>1, <4>2, <2>3
    <3> QED BY <3>1, <3>2
  <2>5. f = [i \in 0 .. k |-> IF i = 0 THEN minutes ELSE Taken(steps, i, f[i - 1], t)]
    BY <2>4
  <2>6. Deltas(f, steps, minutes, t, k)
    BY <2>5, Zenon DEF Deltas
  <2> QED BY <2>6, <1>2 DEF B
<1> QED BY <1>3, <1>4

Delta(steps, minutes, t) == CHOOSE f : Deltas(f, steps, minutes, t, Len(steps))

LEMMA ShiftDeltas ==
  ASSUME NEW steps, NEW minutes, NEW t
  PROVE  ShiftRemaining(steps, minutes, t) =
           [i \in 1 .. Len(steps) |->
             IF ~Open(steps[i]) THEN steps[i]
             ELSE IF UnderWay(steps[i], t) THEN [steps[i] EXCEPT !.end = @ + Delta(steps, minutes, t)[i]]
             ELSE Move(steps[i], Delta(steps, minutes, t)[i])]
  BY Zenon DEF ShiftRemaining, Delta, Deltas, Taken

-----------------------------------------------------------------------------
Step == [start: Int, end: Int, done: Int, folds: Nat, every: Nat \ {0}, folded: Seq(Int)]

(* A plan's steps take some time each.                                      *)
IsPlan(steps) ==
  /\ steps \in Seq(Step)
  /\ \A i \in DOMAIN steps : steps[i].start < steps[i].end
InOrder(steps) == \A i, j \in DOMAIN steps : i < j /\ Open(steps[i]) => Open(steps[j])
(* Open steps next to each other meet; the one after the last done begins then. *)
Meets(steps) == \A i \in DOMAIN steps \ {1} : Open(steps[i - 1]) /\ Open(steps[i]) => steps[i - 1].end = steps[i].start
Follows(steps) == \A i \in DOMAIN steps \ {1} : ~Open(steps[i - 1]) /\ Open(steps[i]) => steps[i].start = steps[i - 1].done

LEMMA PlanShape ==
  ASSUME NEW steps, IsPlan(steps)
  PROVE  /\ Len(steps) \in Nat /\ DOMAIN steps = 1 .. Len(steps)
         /\ \A i \in 1 .. Len(steps) : steps[i] \in Step
  BY LenProperties DEF IsPlan

LEMMA ShapeIsPlan ==
  ASSUME NEW n \in Nat, NEW steps, DOMAIN steps = 1 .. n, steps = [i \in 1 .. n |-> steps[i]],
         \A i \in 1 .. n : steps[i] \in Step /\ steps[i].start < steps[i].end
  PROVE  IsPlan(steps) /\ Len(steps) = n
<1>1. steps \in [1 .. n -> Step]
  OBVIOUS
<1> QED BY <1>1, FunctionIsSeq DEF IsPlan

LEMMA RecipeShape ==
  ASSUME NEW recipe \in Recipe
  PROVE  /\ Len(recipe) \in Nat /\ DOMAIN recipe = 1 .. Len(recipe)
         /\ \A i \in 1 .. Len(recipe) : /\ recipe[i].minutes \in Nat \ {0}
                                        /\ recipe[i].folds \in Nat /\ recipe[i].every \in Nat \ {0}
<1> DEFINE Part == [minutes: Nat \ {0}, folds: Nat, every: Nat \ {0}]
<1>1. recipe \in Seq(Part)
  BY RecipeAssumption
<1>2. \A part \in Part : part.minutes \in Nat \ {0} /\ part.folds \in Nat /\ part.every \in Nat \ {0}
  OBVIOUS
<1> HIDE DEF Part
<1>3. Len(recipe) \in Nat /\ DOMAIN recipe = 1 .. Len(recipe) /\ recipe \in [1 .. Len(recipe) -> Part]
  BY <1>1, LenProperties
<1> QED BY <1>2, <1>3

LEMMA StartType ==
  ASSUME NEW recipe \in Recipe, NEW readyAt \in Int
  PROVE  /\ \A i \in 1 .. Len(recipe) + 1 : Start(recipe, readyAt)[i] \in Int
         /\ \A i \in 1 .. Len(recipe) : Start(recipe, readyAt)[i] = Start(recipe, readyAt)[i + 1] - recipe[i].minutes
<1>1. Len(recipe) \in Nat /\ DOMAIN recipe = 1 .. Len(recipe)
      /\ \A i \in 1 .. Len(recipe) : recipe[i].minutes \in Nat \ {0}
  BY RecipeShape
<1> DEFINE n == Len(recipe)
           S == Start(recipe, readyAt)
<1>2. Starts(S, recipe, readyAt, n)
  BY <1>1, StartsExist DEF Start
<1>3. n + 1 - n = 1
  BY <1>1
<1>4. S = [i \in 1 .. n + 1 |-> IF i = n + 1 THEN readyAt ELSE S[i + 1] - recipe[i].minutes]
  BY <1>2, <1>3, Zenon DEF Starts
<1> HIDE DEF S, n
<1>5. \A i \in 1 .. n + 1 : S[i] = IF i = n + 1 THEN readyAt ELSE S[i + 1] - recipe[i].minutes
  BY <1>4, Zenon
<1>6. \A i \in 1 .. n : i \in 1 .. n + 1 /\ i # n + 1 /\ i + 1 \in 1 .. n + 1
  BY <1>1 DEF n
<1>7. \A i \in 1 .. n : S[i] = S[i + 1] - recipe[i].minutes
  BY <1>5, <1>6
<1> DEFINE B == {k \in Nat : k \in 0 .. n /\ S[n + 1 - k] \notin Int}
<1>8. B = {}
  <2> SUFFICES ASSUME B # {} PROVE FALSE
    OBVIOUS
  <2>1. PICK k \in B : \A j \in B : k <= j
    <3> HIDE DEF B
    <3>1. B \in SUBSET Nat BY DEF B
    <3> QED BY <3>1, Least
  <2>2. n \in Nat
    BY <1>1 DEF n
  <2>3. CASE k = 0
    <3>1. S[n + 1] = readyAt
      BY <1>5, <2>2
    <3> QED BY <2>1, <2>2, <2>3, <3>1
  <2>4. CASE k # 0
    <3>0. k \in Nat /\ k \in 0 .. n
      BY <2>1
    <3>1. k - 1 \in Nat /\ k - 1 \in 0 .. n /\ k - 1 \notin B
      <4> HIDE DEF B
      <4> QED BY <3>0, <2>1, <2>2, <2>4
    <3>2. S[n + 1 - (k - 1)] \in Int
      BY <3>1
    <3>3. n + 1 - k \in 1 .. n /\ (n + 1 - k) + 1 = n + 1 - (k - 1)
      BY <2>1, <2>2, <2>4
    <3>4. S[n + 1 - k] = S[n + 1 - (k - 1)] - recipe[n + 1 - k].minutes
      BY <1>7, <3>3
    <3>5. recipe[n + 1 - k].minutes \in Int
      BY <1>1, <3>3 DEF n
    <3> QED BY <2>1, <3>2, <3>4, <3>5
  <2> QED BY <2>3, <2>4
<1>9. \A i \in 1 .. n + 1 : S[i] \in Int
  <2> SUFFICES ASSUME NEW i \in 1 .. n + 1 PROVE S[i] \in Int
    OBVIOUS
  <2>1. n + 1 - i \notin B
    BY <1>8
  <2>2. n \in Nat
    BY <1>1 DEF n
  <2>3. n + 1 - i \in Nat /\ n + 1 - i \in 0 .. n /\ n + 1 - (n + 1 - i) = i
    <3> HIDE DEF B, n
    <3> QED BY <2>2
  <2> QED BY <2>1, <2>3
<1> QED BY <1>7, <1>9 DEF S, n

(* planBake: the steps meet, and each takes its minutes.                    *)
LEMMA PlanBakeOK ==
  ASSUME NEW recipe \in Recipe, NEW readyAt \in Int
  PROVE  LET steps == PlanBake(recipe, readyAt)
         IN  IsPlan(steps) /\ InOrder(steps) /\ ~Overlap(steps) /\ Meets(steps) /\ Follows(steps)
<1> DEFINE n == Len(recipe)
           S == Start(recipe, readyAt)
           steps == PlanBake(recipe, readyAt)
<1>1. n \in Nat /\ \A i \in 1 .. n : /\ recipe[i].minutes \in Nat \ {0}
                                     /\ recipe[i].folds \in Nat /\ recipe[i].every \in Nat \ {0}
  BY RecipeShape
<1>2. steps = [i \in 1 .. n |->
             [start |-> S[i], end |-> S[i + 1], done |-> NotDone,
              folds |-> recipe[i].folds, every |-> recipe[i].every, folded |-> <<>>]]
  BY PlanBakeStarts
<1>3. /\ \A i \in 1 .. n + 1 : S[i] \in Int
      /\ \A i \in 1 .. n : S[i] = S[i + 1] - recipe[i].minutes
  BY StartType
<1> HIDE DEF n, S, steps
<1>4. <<>> \in Seq(Int) /\ NotDone \in Int
  BY DEF NotDone
<1>5. \A i \in 1 .. n : /\ steps[i].start = S[i] /\ steps[i].end = S[i + 1] /\ steps[i].done = NotDone
                        /\ steps[i].folds = recipe[i].folds /\ steps[i].every = recipe[i].every
                        /\ steps[i] \in Step /\ steps[i].start < steps[i].end
  <2> SUFFICES ASSUME NEW i \in 1 .. n
               PROVE  /\ steps[i].start = S[i] /\ steps[i].end = S[i + 1] /\ steps[i].done = NotDone
                      /\ steps[i].folds = recipe[i].folds /\ steps[i].every = recipe[i].every
                      /\ steps[i] \in Step /\ steps[i].start < steps[i].end
    OBVIOUS
  <2>1. i \in 1 .. n + 1 /\ i + 1 \in 1 .. n + 1
    BY <1>1
  <2>2. S[i] \in Int /\ S[i + 1] \in Int /\ recipe[i].minutes \in Nat \ {0} /\ S[i] = S[i + 1] - recipe[i].minutes
    BY <1>1, <1>3, <2>1
  <2>3. steps[i] = [start |-> S[i], end |-> S[i + 1], done |-> NotDone,
              folds |-> recipe[i].folds, every |-> recipe[i].every, folded |-> <<>>]
    BY <1>2
  <2>4. recipe[i].folds \in Nat /\ recipe[i].every \in Nat \ {0}
    BY <1>1
  <2> QED BY <2>2, <2>3, <2>4, <1>4 DEF Step
<1>6. IsPlan(steps) /\ DOMAIN steps = 1 .. n
  BY <1>1, <1>2, <1>5, ShapeIsPlan
<1>7. \A i \in 1 .. n : i + 1 \in 1 .. n => ~(steps[i + 1].start < steps[i].end)
  <2> SUFFICES ASSUME NEW i \in 1 .. n, i + 1 \in 1 .. n PROVE ~(steps[i + 1].start < steps[i].end)
    OBVIOUS
  <2>1. i + 1 \in 1 .. n + 1
    BY <1>1
  <2>2. steps[i + 1].start = S[i + 1] /\ steps[i].end = S[i + 1] /\ S[i + 1] \in Int
    BY <1>3, <1>5, <2>1
  <2> QED BY <2>2
<1>8. \A i \in 1 .. n \ {1} : i - 1 \in 1 .. n /\ steps[i - 1].end = steps[i].start
  BY <1>1, <1>5
<1>9. InOrder(steps) /\ ~Overlap(steps) /\ Meets(steps) /\ Follows(steps)
  BY <1>5, <1>6, <1>7, <1>8 DEF InOrder, Overlap, Meets, Follows, Open
<1> QED BY <1>6, <1>9 DEF steps

(* What the operations do to one step.                                      *)
LEMMA Marked ==
  ASSUME NEW s \in Step, NEW at \in Int
  PROVE  LET new == [s EXCEPT !.done = at]
         IN  new \in Step /\ new.start = s.start /\ new.end = s.end /\ new.done = at
  BY DEF Step

LEMMA Moved ==
  ASSUME NEW s \in Step, NEW delta \in Int
  PROVE  LET new == Move(s, delta)
         IN  new \in Step /\ new.start = s.start + delta /\ new.end = s.end + delta /\ new.done = s.done
<1>1. s.start + delta \in Int /\ s.end + delta \in Int
  BY DEF Step
<1>2. PICK a, e : a = s.start + delta /\ e = s.end + delta
  OBVIOUS
<1>3. Move(s, delta) = [s EXCEPT !.start = a, !.end = e]
  BY <1>2 DEF Move
<1>4. Move(s, delta) = [start |-> a, end |-> e, done |-> s.done, folds |-> s.folds, every |-> s.every,
                        folded |-> s.folded]
  BY <1>3 DEF Step
<1> QED BY <1>1, <1>2, <1>4 DEF Step

LEMMA Stretched ==
  ASSUME NEW s \in Step, NEW delta \in Int
  PROVE  LET new == [s EXCEPT !.end = @ + delta]
         IN  new \in Step /\ new.start = s.start /\ new.end = s.end + delta /\ new.done = s.done
  BY DEF Step

LEMMA StepFields ==
  ASSUME NEW s \in Step
  PROVE  s.start \in Int /\ s.end \in Int /\ s.done \in Int /\ s.folds \in Nat /\ s.every \in Nat \ {0}
         /\ s.folded \in Seq(Int)
  BY DEF Step

(* completeStep.                                                            *)
LEMMA CompleteStepOK ==
  ASSUME NEW steps, IsPlan(steps), InOrder(steps), NEW k \in DOMAIN steps, NEW at \in Int, at # NotDone
  PROVE  LET new == CompleteStep(steps, k, at)
         IN  /\ IsPlan(new) /\ InOrder(new)
             /\ ~Overlap(steps) => ~Overlap(new)
             /\ Open(steps[k]) /\ Meets(steps) /\ Follows(steps) => Meets(new) /\ Follows(new)
<1> DEFINE n == Len(steps)
           new == CompleteStep(steps, k, at)
<1>1. n \in Nat /\ DOMAIN steps = 1 .. n /\ \A i \in 1 .. n : steps[i] \in Step
  BY PlanShape
<1>2. new = [i \in 1 .. n |->
               IF ~Open(steps[i]) THEN steps[i]
               ELSE IF i <= k THEN [steps[i] EXCEPT !.done = at]
               ELSE Move(steps[i], at - steps[k].end)]
  BY <1>1 DEF CompleteStep
<1>3. k \in 1 .. n /\ steps[k].end \in Int /\ at - steps[k].end \in Int
  BY <1>1, StepFields
<1> HIDE DEF n, new
<1>4. \A i \in 1 .. n : ~Open(steps[i]) => new[i] = steps[i]
  BY <1>2
<1>5. \A i \in 1 .. n : Open(steps[i]) /\ i <= k =>
        /\ new[i] \in Step /\ new[i].start = steps[i].start /\ new[i].end = steps[i].end
        /\ new[i].done = at /\ ~Open(new[i])
  <2> SUFFICES ASSUME NEW i \in 1 .. n, Open(steps[i]), i <= k
               PROVE  /\ new[i] \in Step /\ new[i].start = steps[i].start /\ new[i].end = steps[i].end
                      /\ new[i].done = at /\ ~Open(new[i])
    OBVIOUS
  <2>1. new[i] = [steps[i] EXCEPT !.done = at]
    BY <1>2
  <2>2. steps[i] \in Step
    BY <1>1
  <2> QED BY <2>1, <2>2, Marked DEF Open
<1>6. \A i \in 1 .. n : Open(steps[i]) /\ ~(i <= k) =>
        /\ new[i] \in Step /\ new[i].start = steps[i].start + (at - steps[k].end)
        /\ new[i].end = steps[i].end + (at - steps[k].end) /\ Open(new[i])
  <2> SUFFICES ASSUME NEW i \in 1 .. n, Open(steps[i]), ~(i <= k)
               PROVE  /\ new[i] \in Step /\ new[i].start = steps[i].start + (at - steps[k].end)
                      /\ new[i].end = steps[i].end + (at - steps[k].end) /\ Open(new[i])
    OBVIOUS
  <2>1. new[i] = Move(steps[i], at - steps[k].end)
    BY <1>2
  <2>2. steps[i] \in Step
    BY <1>1
  <2>3. PICK delta \in Int : delta = at - steps[k].end
    BY <1>3
  <2>4. new[i] \in Step /\ new[i].start = steps[i].start + delta /\ new[i].end = steps[i].end + delta
        /\ new[i].done = steps[i].done
    BY <2>1, <2>2, <2>3, Moved
  <2> QED BY <2>3, <2>4 DEF Open
<1>7. \A i \in 1 .. n : Open(new[i]) <=> Open(steps[i]) /\ ~(i <= k)
  BY <1>4, <1>5, <1>6
<1>8. \A i \in 1 .. n : steps[i].start \in Int /\ steps[i].end \in Int /\ steps[i].start < steps[i].end
  BY <1>1, StepFields DEF IsPlan
<1>9. \A i \in 1 .. n : new[i] \in Step /\ new[i].start < new[i].end
  <2> SUFFICES ASSUME NEW i \in 1 .. n PROVE new[i] \in Step /\ new[i].start < new[i].end
    OBVIOUS
  <2>1. CASE ~Open(steps[i])
    BY <2>1, <1>1, <1>4, <1>8
  <2>2. CASE Open(steps[i]) /\ i <= k
    BY <2>2, <1>5, <1>8
  <2>3. CASE Open(steps[i]) /\ ~(i <= k)
    BY <2>3, <1>3, <1>6, <1>8
  <2> QED BY <2>1, <2>2, <2>3
<1>10. IsPlan(new) /\ DOMAIN new = 1 .. n
  BY <1>1, <1>2, <1>9, ShapeIsPlan
<1>11. InOrder(new)
  BY <1>1, <1>3, <1>7, <1>10 DEF InOrder
<1>12. ASSUME ~Overlap(steps) PROVE ~Overlap(new)
  <2> SUFFICES ASSUME NEW i \in 1 .. n, i + 1 \in 1 .. n, Open(new[i]), Open(new[i + 1]),
                      new[i + 1].start < new[i].end
               PROVE  FALSE
    BY <1>10 DEF Overlap
  <2>1. Open(steps[i]) /\ Open(steps[i + 1]) /\ ~(i <= k) /\ ~(i + 1 <= k)
    BY <1>7
  <2>2. ~(steps[i + 1].start < steps[i].end)
    BY <2>1, <1>1, <1>12 DEF Overlap
  <2> QED BY <2>1, <2>2, <1>3, <1>6, <1>8
<1>13. ASSUME Open(steps[k]), Meets(steps), Follows(steps) PROVE Meets(new) /\ Follows(new)
  <2>1. ASSUME NEW i \in 1 .. n \ {1}, Open(new[i - 1]), Open(new[i])
        PROVE  new[i - 1].end = new[i].start
    <3>1. i - 1 \in 1 .. n
      BY <1>1
    <3>2. Open(steps[i - 1]) /\ Open(steps[i]) /\ ~(i - 1 <= k) /\ ~(i <= k)
      BY <3>1, <2>1, <1>7
    <3>3. steps[i - 1].end = steps[i].start
      BY <3>2, <1>1, <1>13 DEF Meets
    <3> QED BY <3>1, <3>2, <3>3, <1>6
  <2>2. ASSUME NEW i \in 1 .. n \ {1}, ~Open(new[i - 1]), Open(new[i])
        PROVE  new[i].start = new[i - 1].done
    <3>1. i - 1 \in 1 .. n
      BY <1>1
    <3>2. Open(steps[i]) /\ ~(i <= k) /\ ~(Open(steps[i - 1]) /\ ~(i - 1 <= k))
      BY <3>1, <2>2, <1>7
    <3>3. CASE i - 1 = k
      <4>1. steps[k].end = steps[i].start
        BY <3>2, <3>3, <1>1, <1>13 DEF Meets
      <4>2. new[i].start = steps[i].start + (at - steps[k].end)
        BY <3>2, <1>6
      <4>3. new[k].done = at
        BY <1>3, <1>5, <1>13
      <4> QED BY <3>3, <4>1, <4>2, <4>3, <1>8
    <3>4. CASE i - 1 # k
      <4>1. k < i - 1 /\ ~Open(steps[i - 1])
        BY <3>1, <3>2, <3>4, <1>3
      <4> QED BY <4>1, <3>1, <1>1, <1>3, <1>13 DEF InOrder
    <3> QED BY <3>3, <3>4
  <2> QED BY <2>1, <2>2, <1>10 DEF Meets, Follows
<1> QED BY <1>10, <1>11, <1>12, <1>13 DEF new

(* logFold: only what was folded when changes.                              *)
LEMMA LogFoldOK ==
  ASSUME NEW steps, IsPlan(steps), NEW k \in DOMAIN steps, NEW at \in Int
  PROVE  LET new == LogFold(steps, k, at)
         IN  /\ IsPlan(new)
             /\ InOrder(steps) => InOrder(new)
             /\ ~Overlap(steps) => ~Overlap(new)
             /\ Meets(steps) => Meets(new)
             /\ Follows(steps) => Follows(new)
<1> DEFINE n == Len(steps)
           new == LogFold(steps, k, at)
<1>1. n \in Nat /\ DOMAIN steps = 1 .. n /\ \A i \in 1 .. n : steps[i] \in Step
  BY PlanShape
<1>2. PICK folded : folded = IF Len(steps[k].folded) < steps[k].folds THEN Append(steps[k].folded, at)
                             ELSE steps[k].folded
  OBVIOUS
<1>3. folded \in Seq(Int)
  <2>1. steps[k].folded \in Seq(Int)
    BY <1>1, StepFields
  <2>2. Append(steps[k].folded, at) \in Seq(Int)
    BY <2>1, AppendProperties
  <2> QED BY <1>2, <2>1, <2>2
<1>4. new = [steps EXCEPT ![k] = [steps[k] EXCEPT !.folded = folded]]
  BY <1>2 DEF LogFold
<1>5. k \in 1 .. n
  BY <1>1
<1> HIDE DEF n, new
<1>6. DOMAIN new = 1 .. n /\ new = [i \in 1 .. n |-> new[i]]
  <2>1. steps = [i \in 1 .. n |-> steps[i]]
    BY <1>1, LenProperties DEF IsPlan, n
  <2> QED BY <2>1, <1>4
<1>7. \A i \in 1 .. n : /\ new[i] \in Step /\ new[i].start = steps[i].start /\ new[i].end = steps[i].end
                        /\ new[i].done = steps[i].done
  <2> SUFFICES ASSUME NEW i \in 1 .. n
               PROVE  /\ new[i] \in Step /\ new[i].start = steps[i].start /\ new[i].end = steps[i].end
                      /\ new[i].done = steps[i].done
    OBVIOUS
  <2>1. steps[i] \in Step
    BY <1>1
  <2>2. CASE i # k
    BY <2>1, <2>2, <1>1, <1>4
  <2>3. CASE i = k
    <3>1. new[i] = [steps[i] EXCEPT !.folded = folded]
      BY <2>3, <1>1, <1>4
    <3> QED BY <3>1, <2>1, <1>3 DEF Step
  <2> QED BY <2>2, <2>3
<1>8. IsPlan(new)
  <2>1. \A i \in 1 .. n : steps[i].start < steps[i].end
    BY <1>1 DEF IsPlan
  <2> QED BY <2>1, <1>1, <1>6, <1>7, ShapeIsPlan
<1>9. \A i \in 1 .. n : Open(new[i]) <=> Open(steps[i])
  BY <1>7 DEF Open
<1>10. InOrder(steps) => InOrder(new)
  BY <1>1, <1>6, <1>9 DEF InOrder
<1>11. \A i \in 1 .. n \ {1} : i - 1 \in 1 .. n
  BY <1>1
<1>12. (Meets(steps) => Meets(new)) /\ (Follows(steps) => Follows(new))
  BY <1>1, <1>6, <1>7, <1>9, <1>11 DEF Meets, Follows
<1>13. ~Overlap(steps) => ~Overlap(new)
  BY <1>1, <1>6, <1>7, <1>9 DEF Overlap
<1> QED BY <1>8, <1>10, <1>12, <1>13 DEF new

LEMMA DeltaType ==
  ASSUME NEW steps, IsPlan(steps), NEW minutes \in Int, NEW t \in Int
  PROVE  /\ \A i \in 1 .. Len(steps) : Delta(steps, minutes, t)[i] \in Int
         /\ \A i \in 1 .. Len(steps) : i + 1 \in 1 .. Len(steps) =>
              Delta(steps, minutes, t)[i + 1] = Taken(steps, i + 1, Delta(steps, minutes, t)[i], t)
         /\ \A i \in 1 .. Len(steps) : UnderWay(steps[i], t) =>
              steps[i].start + MinStep <= steps[i].end + Delta(steps, minutes, t)[i]
<1> DEFINE n == Len(steps)
           D == Delta(steps, minutes, t)
<1>1. n \in Nat /\ \A i \in 1 .. n : steps[i].start \in Int /\ steps[i].end \in Int
  BY PlanShape, StepFields
<1>2. Deltas(D, steps, minutes, t, n)
  BY <1>1, DeltasExist DEF Delta
<1>3. \A i \in 0 .. n : D[i] = IF i = 0 THEN minutes ELSE Taken(steps, i, D[i - 1], t)
  BY <1>2, Zenon DEF Deltas
<1>4. MinStep \in Nat
  BY RecipeAssumption
<1> HIDE DEF n, D
<1>5. ASSUME NEW i \in 1 .. n, NEW d \in Int
      PROVE  /\ Taken(steps, i, d, t) \in Int
             /\ UnderWay(steps[i], t) => steps[i].start + MinStep <= steps[i].end + Taken(steps, i, d, t)
  <2>1. PICK a, e : a = steps[i].start /\ e = steps[i].end /\ a \in Int /\ e \in Int
    BY <1>1
  <2>2. Later(a + MinStep, e + d) \in Int /\ a + MinStep <= Later(a + MinStep, e + d)
    BY <2>1, <1>4 DEF Later
  <2>3. Taken(steps, i, d, t) = IF UnderWay(steps[i], t) THEN Later(a + MinStep, e + d) - e ELSE d
    BY <2>1 DEF Taken
  <2> QED BY <2>1, <2>2, <2>3, <1>4
<1> DEFINE B == {k \in Nat : k \in 0 .. n /\ D[k] \notin Int}
<1>6. B = {}
  <2> SUFFICES ASSUME B # {} PROVE FALSE
    OBVIOUS
  <2>1. PICK k \in B : \A j \in B : k <= j
    <3> HIDE DEF B
    <3>1. B \in SUBSET Nat BY DEF B
    <3> QED BY <3>1, Least
  <2>2. k \in Nat /\ k \in 0 .. n /\ D[k] \notin Int
    BY <2>1
  <2>3. k # 0
    BY <2>2, <1>3
  <2>4. k - 1 \in Nat /\ k - 1 \in 0 .. n /\ k \in 1 .. n /\ ~(k <= k - 1)
    BY <2>2, <2>3, <1>1
  <2>5. k - 1 \notin B
    <3> HIDE DEF B
    <3> QED BY <2>1, <2>4
  <2>6. D[k - 1] \in Int
    BY <2>4, <2>5
  <2>7. D[k] = Taken(steps, k, D[k - 1], t)
    BY <2>2, <2>3, <1>3
  <2> QED BY <2>2, <2>4, <2>6, <2>7, <1>5
<1>7. \A i \in 0 .. n : D[i] \in Int
  BY <1>6
<1>8. \A i \in 1 .. n : i \in 0 .. n /\ i - 1 \in 0 .. n /\ i # 0
  BY <1>1
<1>9. \A i \in 1 .. n : D[i] = Taken(steps, i, D[i - 1], t)
  BY <1>3, <1>8
<1>10. \A i \in 1 .. n : UnderWay(steps[i], t) => steps[i].start + MinStep <= steps[i].end + D[i]
  BY <1>5, <1>7, <1>8, <1>9
<1>11. \A i \in 1 .. n : i + 1 \in 1 .. n => D[i + 1] = Taken(steps, i + 1, D[i], t)
  BY <1>9
<1> QED BY <1>7, <1>8, <1>10, <1>11 DEF n, D

(* shiftRemaining: open steps come to overlap only where two next to each   *)
(* other were under way.                                                    *)
LEMMA ShiftRemainingOK ==
  ASSUME NEW steps, IsPlan(steps), InOrder(steps), NEW minutes \in Int, NEW t \in Int
  PROVE  LET new == ShiftRemaining(steps, minutes, t)
         IN  /\ IsPlan(new) /\ InOrder(new)
             /\ \/ \E i \in DOMAIN steps : i + 1 \in DOMAIN steps /\ UnderWay(steps[i], t) /\ UnderWay(steps[i + 1], t)
                \/ ~Overlap(steps) => ~Overlap(new)
<1> DEFINE n == Len(steps)
           D == Delta(steps, minutes, t)
           new == ShiftRemaining(steps, minutes, t)
<1>1. /\ n \in Nat /\ DOMAIN steps = 1 .. n
      /\ \A i \in 1 .. n : steps[i] \in Step /\ steps[i].start \in Int /\ steps[i].end \in Int
                           /\ steps[i].start < steps[i].end
  BY PlanShape, StepFields DEF IsPlan
<1>2. new = [i \in 1 .. n |->
             IF ~Open(steps[i]) THEN steps[i]
             ELSE IF UnderWay(steps[i], t) THEN [steps[i] EXCEPT !.end = @ + D[i]]
             ELSE Move(steps[i], D[i])]
  BY ShiftDeltas, Zenon
<1>3. /\ \A i \in 1 .. n : D[i] \in Int
      /\ \A i \in 1 .. n : i + 1 \in 1 .. n => D[i + 1] = Taken(steps, i + 1, D[i], t)
      /\ \A i \in 1 .. n : UnderWay(steps[i], t) => steps[i].start + MinStep <= steps[i].end + D[i]
  BY DeltaType
<1>4. MinStep \in Nat \ {0}
  BY RecipeAssumption
<1> HIDE DEF n, D, new
<1>5. \A i \in 1 .. n : ~Open(steps[i]) => new[i] = steps[i]
  BY <1>2
<1>6. \A i \in 1 .. n : Open(steps[i]) /\ UnderWay(steps[i], t) =>
        /\ new[i] \in Step /\ new[i].start = steps[i].start /\ new[i].end = steps[i].end + D[i] /\ Open(new[i])
  <2> SUFFICES ASSUME NEW i \in 1 .. n, Open(steps[i]), UnderWay(steps[i], t)
               PROVE  /\ new[i] \in Step /\ new[i].start = steps[i].start
                      /\ new[i].end = steps[i].end + D[i] /\ Open(new[i])
    OBVIOUS
  <2>1. new[i] = [steps[i] EXCEPT !.end = @ + D[i]]
    BY <1>2
  <2>2. PICK delta \in Int : delta = D[i]
    BY <1>3
  <2>3. /\ new[i] \in Step /\ new[i].start = steps[i].start /\ new[i].end = steps[i].end + delta
        /\ new[i].done = steps[i].done
    BY <2>1, <2>2, <1>1, Stretched
  <2> QED BY <2>2, <2>3 DEF Open
<1>7. \A i \in 1 .. n : Open(steps[i]) /\ ~UnderWay(steps[i], t) =>
        /\ new[i] \in Step /\ new[i].start = steps[i].start + D[i] /\ new[i].end = steps[i].end + D[i] /\ Open(new[i])
  <2> SUFFICES ASSUME NEW i \in 1 .. n, Open(steps[i]), ~UnderWay(steps[i], t)
               PROVE  /\ new[i] \in Step /\ new[i].start = steps[i].start + D[i]
                      /\ new[i].end = steps[i].end + D[i] /\ Open(new[i])
    OBVIOUS
  <2>1. new[i] = Move(steps[i], D[i])
    BY <1>2
  <2>2. PICK delta \in Int : delta = D[i]
    BY <1>3
  <2>3. /\ new[i] \in Step /\ new[i].start = steps[i].start + delta /\ new[i].end = steps[i].end + delta
        /\ new[i].done = steps[i].done
    <3>1. steps[i] \in Step
      BY <1>1
    <3> QED BY <3>1, <2>1, <2>2, Moved
  <2> QED BY <2>2, <2>3 DEF Open
<1>8. \A i \in 1 .. n : new[i] \in Step /\ new[i].start < new[i].end
  <2> SUFFICES ASSUME NEW i \in 1 .. n PROVE new[i] \in Step /\ new[i].start < new[i].end
    OBVIOUS
  <2>0. PICK a \in Int, e \in Int, delta \in Int : a = steps[i].start /\ e = steps[i].end /\ delta = D[i] /\ a < e
    BY <1>1, <1>3
  <2>1. CASE ~Open(steps[i])
    BY <2>1, <1>1, <1>5
  <2>2. CASE Open(steps[i]) /\ UnderWay(steps[i], t)
    <3>1. a + MinStep <= e + delta
      BY <2>0, <2>2, <1>3
    <3>2. new[i] \in Step /\ new[i].start = a /\ new[i].end = e + delta
      BY <2>0, <2>2, <1>6
    <3> QED BY <3>1, <3>2, <2>0, <1>4
  <2>3. CASE Open(steps[i]) /\ ~UnderWay(steps[i], t)
    <3>1. new[i] \in Step /\ new[i].start = a + delta /\ new[i].end = e + delta
      BY <2>0, <2>3, <1>7
    <3> QED BY <3>1, <2>0
  <2> QED BY <2>1, <2>2, <2>3
<1>9. IsPlan(new) /\ DOMAIN new = 1 .. n
  BY <1>1, <1>2, <1>8, ShapeIsPlan
<1>10. \A i \in 1 .. n : Open(new[i]) <=> Open(steps[i])
  BY <1>5, <1>6, <1>7
<1>11. InOrder(new)
  BY <1>1, <1>9, <1>10 DEF InOrder
<1>12. ASSUME ~Overlap(steps), NEW i \in 1 .. n, i + 1 \in 1 .. n, Open(new[i]), Open(new[i + 1]),
              new[i + 1].start < new[i].end
       PROVE  UnderWay(steps[i], t) /\ UnderWay(steps[i + 1], t)
  <2>1. Open(steps[i]) /\ Open(steps[i + 1])
    BY <1>10, <1>12
  <2>2. ~(steps[i + 1].start < steps[i].end)
    BY <2>1, <1>1, <1>12 DEF Overlap
  <2>3. CASE ~UnderWay(steps[i + 1], t)
    <3>1. D[i + 1] = D[i]
      BY <2>3, <1>3, <1>12 DEF Taken
    <3>2. new[i + 1].start = steps[i + 1].start + D[i]
      BY <3>1, <2>1, <2>3, <1>7, <1>12
    <3>3. new[i].end = steps[i].end + D[i]
      BY <2>1, <1>6, <1>7
    <3> QED BY <3>2, <3>3, <2>2, <1>1, <1>3, <1>12
  <2>4. CASE UnderWay(steps[i + 1], t) /\ ~UnderWay(steps[i], t)
    <3>1. steps[i + 1].start <= t /\ ~(steps[i].start <= t)
      BY <2>1, <2>4 DEF UnderWay
    <3> QED BY <3>1, <2>2, <1>1, <1>12
  <2> QED BY <2>3, <2>4
<1>13. \/ \E i \in DOMAIN steps : i + 1 \in DOMAIN steps /\ UnderWay(steps[i], t) /\ UnderWay(steps[i + 1], t)
       \/ ~Overlap(steps) => ~Overlap(new)
  <2> SUFFICES ASSUME ~Overlap(steps), Overlap(new)
               PROVE  \E i \in DOMAIN steps : i + 1 \in DOMAIN steps /\ UnderWay(steps[i], t) /\ UnderWay(steps[i + 1], t)
    OBVIOUS
  <2>1. PICK i \in 1 .. n : i + 1 \in 1 .. n /\ Open(new[i]) /\ Open(new[i + 1]) /\ new[i + 1].start < new[i].end
    BY <1>9 DEF Overlap
  <2> QED BY <2>1, <1>1, <1>12
<1> QED BY <1>9, <1>11, <1>13 DEF new

-----------------------------------------------------------------------------
(* Part 2: what the tables and the requests hold.                           *)

StarterRow == [location: Location, since: Int, moved: BOOLEAN]
FeedingRow == [id: Int, starter: Starter, fedAt: Int, remind: BOOLEAN, peaked: BOOLEAN]
BakeRow == [status: {"active", "done", "cancelled"}, steps: Seq(Step)]

Times(plan) == \A k \in DOMAIN plan : plan[k] \in Int

Fed(F) == \A f \in F : f \in FeedingRow /\ f.fedAt <= now /\ f.id < edits

TablesOK ==
  /\ now \in 0 .. MaxClock /\ edits \in 0 .. MaxEdits /\ devices \subseteq Device
  /\ \A s \in DOMAIN starters : s \in Starter /\ s \in born /\ starters[s] \in StarterRow
  /\ Fed(feedings) /\ \A f \in feedings : f.starter \in DOMAIN starters
  /\ \A b \in DOMAIN bakes : b \in Bake /\ b \in born /\ bakes[b] \in BakeRow

(* What holds of a plan depends on what it went through.                    *)
BakeOK(b, steps, through) ==
  /\ IsPlan(steps) /\ InOrder(steps)
  /\ Overlap(steps) => <<b, "overrun">> \in through
  /\ {<<b, "again">>, <<b, "shift">>} \cap through = {} => Meets(steps) /\ Follows(steps)

BakesOK == \A b \in DOMAIN bakes : BakeOK(b, bakes[b].steps, strain)

RowsOK == \A id \in DOMAIN rows : id[1] \in Group /\ rows[id].due \in Int /\ rows[id].sent \in BOOLEAN

JobFields == {"pc", "on", "starter", "put", "saw"}

JobOK(j) ==
  /\ DOMAIN j = JobFields
  /\ j.pc \in {"idle", "record", "feeds", "plan", "delete", "insert"}
  /\ j.pc # "idle" => j.on \in Group
  /\ j.pc = "feeds" => j.starter \in StarterRow
  /\ Times(j.put)

JobsOK == DOMAIN job = Request /\ \A r \in Request : JobOK(job[r])

DispatchesOK == DOMAIN dispatch = Dispatcher /\ \A d \in Dispatcher : dispatch[d].pc = "list" => dispatch[d].todo = {}

TablesInv == TablesOK /\ BakesOK /\ RowsOK /\ JobsOK /\ DispatchesOK

-----------------------------------------------------------------------------
(* A list of feedings has a newest.                                         *)
LEMMA LastFedIs ==
  ASSUME NEW F, F # {}, Fed(F), now \in Int, edits \in Int
  PROVE  LastFed(F) \in F
<1> DEFINE N == {k \in Nat : \E f \in F : k = now - f.fedAt}
<1>1. \A f \in F : now - f.fedAt \in Nat /\ f.fedAt \in Int /\ f.id \in Int /\ edits - f.id \in Nat
  BY DEF Fed, FeedingRow
<1>2. PICK m \in N : \A k \in N : m <= k
  <2>1. N \in SUBSET Nat /\ N # {}
    BY <1>1
  <2> HIDE DEF N
  <2> QED BY <2>1, Least
<1>3. PICK g \in F : m = now - g.fedAt
  BY <1>2
<1>4. \A f \in F : f.fedAt <= g.fedAt
  <2> SUFFICES ASSUME NEW f \in F PROVE f.fedAt <= g.fedAt
    OBVIOUS
  <2>1. now - f.fedAt \in N
    BY <1>1
  <2>2. m <= now - f.fedAt
    <3> HIDE DEF N
    <3> QED BY <1>2, <2>1
  <2> QED BY <2>2, <1>1, <1>3
<1> DEFINE M == {k \in Nat : \E f \in F : f.fedAt = g.fedAt /\ k = edits - f.id}
<1>5. PICK l \in M : \A k \in M : l <= k
  <2>1. M \in SUBSET Nat /\ M # {}
    BY <1>1, <1>3
  <2> HIDE DEF M
  <2> QED BY <2>1, Least
<1>6. PICK h \in F : h.fedAt = g.fedAt /\ l = edits - h.id
  BY <1>5
<1>7. \A e \in F : e.fedAt < h.fedAt \/ (e.fedAt = h.fedAt /\ e.id <= h.id)
  <2> SUFFICES ASSUME NEW e \in F, ~(e.fedAt < h.fedAt) PROVE e.fedAt = h.fedAt /\ e.id <= h.id
    OBVIOUS
  <2>1. e.fedAt = g.fedAt /\ e.fedAt = h.fedAt
    BY <1>1, <1>4, <1>6
  <2>2. edits - e.id \in M
    BY <2>1, <1>1
  <2>3. l <= edits - e.id
    <3> HIDE DEF M
    <3> QED BY <1>5, <2>2
  <2> QED BY <2>1, <2>3, <1>1, <1>6
<1> HIDE DEF N, M
<1> QED BY <1>7 DEF LastFed

LEMMA StarterPlanTimes ==
  ASSUME NEW starter \in StarterRow, NEW F, Fed(F), now \in Int, edits \in Int
  PROVE  Times(StarterPlan(starter, F))
<1>1. starter.since \in Int /\ FeedEvery[starter.location] \in Int
  BY CrumbAssumption DEF StarterRow
<1>2. PICK logged \in BOOLEAN : logged = (\E f \in F : f.peaked)
  OBVIOUS
<1>3. PICK after \in Int : after = PeakAfter[\E f \in F : f.peaked]
  <2>1. PeakAfter[logged] \in Int
    BY CrumbAssumption
  <2>2. PeakAfter[\E f \in F : f.peaked] = PeakAfter[logged]
    BY <1>2, Zenon
  <2>3. PeakAfter[\E f \in F : f.peaked] \in Int
    BY <2>1, <2>2, Zenon
  <2> QED BY <2>3, Zenon
<1>4. F # {} => LastFed(F).fedAt \in Int
  BY LastFedIs DEF Fed, FeedingRow
<1> DEFINE last == LastFed(F)
           base == IF F = {} THEN starter.since ELSE last.fedAt
           remind == F # {} /\ last.remind /\ Peaks(starter, last)
           peak == last.fedAt + PeakAfter[\E f \in F : f.peaked]
           keys == {FeedKey} \cup (IF remind THEN {PeakKey} ELSE {})
<1>5. StarterPlan(starter, F)
        = [k \in keys |-> IF k = FeedKey THEN base + FeedEvery[starter.location] ELSE peak]
  BY Zenon DEF StarterPlan
<1>6. base \in Int
  BY <1>1, <1>4
<1>7. \A k \in keys : k # FeedKey => remind
  OBVIOUS
<1>8. remind => peak \in Int
  <2>1. peak = last.fedAt + after
    BY <1>3, Zenon
  <2>2. remind => F # {}
    BY Zenon
  <2> HIDE DEF peak, remind
  <2> QED BY <2>1, <2>2, <1>4
<1> HIDE DEF base, remind, peak, keys
<1>9. \A k \in keys : (IF k = FeedKey THEN base + FeedEvery[starter.location] ELSE peak) \in Int
  BY <1>1, <1>6, <1>7, <1>8
<1> QED BY <1>5, <1>9 DEF Times

LEMMA FoldsDueTimes ==
  ASSUME NEW step \in Step
  PROVE  Times(FoldsDue(step))
<1>1. Len(step.folded) \in Nat /\ (Len(step.folded) # 0 => step.folded[Len(step.folded)] \in Int)
  <2>1. step.folded \in Seq(Int)
    BY StepFields
  <2> QED BY <2>1, LenProperties
<1>2. step.start \in Int /\ step.every \in Nat \ {0} /\ step.folds \in Nat
  BY StepFields
<1> DEFINE done == Len(step.folded)
           base == IF done = 0 THEN step.start ELSE step.folded[done]
<1>3. FoldsDue(step) = [k \in done + 1 .. step.folds |-> base + step.every * (k - done)]
  BY Zenon DEF FoldsDue
<1>4. base \in Int /\ done \in Nat
  BY <1>1, <1>2
<1> HIDE DEF base, done
<1>5. \A k \in done + 1 .. step.folds : base + step.every * (k - done) \in Int
  BY <1>2, <1>4
<1> QED BY <1>3, <1>5 DEF Times

LEMMA BakeRemindersTimes ==
  ASSUME NEW bake, IsPlan(bake.steps)
  PROVE  Times(BakeReminders(bake))
<1> DEFINE steps == bake.steps
           open == {i \in DOMAIN steps : Open(steps[i])}
           fold == UNION {{<<"fold", i, k>> : k \in DOMAIN FoldsDue(steps[i])} : i \in open}
           step == {<<"step", i, 0>> : i \in open}
           ready == {<<"ready", 0, 0>> : i \in open}
           due(k) == CASE k \in fold -> FoldsDue(steps[k[2]])[k[3]]
                       [] k \in step -> steps[k[2]].start
                       [] OTHER -> steps[Len(steps)].end
           keys == IF bake.status = "active" THEN fold \cup step \cup ready ELSE {}
<1>1. BakeReminders(bake) = [k \in keys |-> due(k)]
  BY Zenon DEF BakeReminders
<1>2. Len(steps) \in Nat /\ DOMAIN steps = 1 .. Len(steps) /\ \A i \in 1 .. Len(steps) : steps[i] \in Step
  BY PlanShape
<1>3. \A i \in open : i \in 1 .. Len(steps) /\ steps[i].start \in Int /\ steps[i].end \in Int
  BY <1>2, StepFields
<1>4. \A k \in fold : \E i \in open : \E j \in DOMAIN FoldsDue(steps[i]) : k = <<"fold", i, j>>
  OBVIOUS
<1>5. \A k \in step : \E i \in open : k = <<"step", i, 0>>
  OBVIOUS
<1>6. \A k \in ready : open # {}
  OBVIOUS
<1>7. \A k \in keys : k \in fold \/ k \in step \/ k \in ready
  OBVIOUS
<1>8. \A k \in fold : due(k) = FoldsDue(steps[k[2]])[k[3]]
  OBVIOUS
<1>9. \A k : k \notin fold /\ k \in step => due(k) = steps[k[2]].start
  OBVIOUS
<1>10. \A k : k \notin fold /\ k \notin step => due(k) = steps[Len(steps)].end
  OBVIOUS
<1> HIDE DEF fold, step, ready, keys, due
<1>11. ASSUME NEW k \in fold PROVE due(k) \in Int
  <2>1. PICK i \in open : \E j \in DOMAIN FoldsDue(steps[i]) : k = <<"fold", i, j>>
    BY <1>4
  <2>2. PICK j \in DOMAIN FoldsDue(steps[i]) : k = <<"fold", i, j>>
    BY <2>1
  <2>3. steps[i] \in Step
    BY <1>2, <1>3
  <2>4. FoldsDue(steps[i])[j] \in Int
    BY <2>3, FoldsDueTimes DEF Times
  <2>5. due(k) = FoldsDue(steps[i])[j]
    BY <2>2, <1>8
  <2> QED BY <2>4, <2>5
<1>12. ASSUME NEW k \in step, k \notin fold PROVE due(k) \in Int
  BY <1>3, <1>5, <1>9, <1>12
<1>13. ASSUME NEW k \in ready, k \notin fold, k \notin step PROVE due(k) \in Int
  <2>1. PICK i \in open : TRUE
    BY <1>6
  <2>2. Len(steps) \in 1 .. Len(steps)
    BY <1>2, <1>3, <2>1
  <2>3. steps[Len(steps)].end \in Int
    BY <2>2, <1>2, StepFields
  <2> QED BY <2>3, <1>10, <1>13
<1>14. \A k \in keys : due(k) \in Int
  BY <1>7, <1>11, <1>12, <1>13
<1> QED BY <1>1, <1>14 DEF Times

-----------------------------------------------------------------------------
LEMMA InitTables == Init => TablesInv
<1> SUFFICES ASSUME Init PROVE TablesInv
  OBVIOUS
<1>1. TablesOK
  BY CrumbAssumption DEF Init, TablesOK, None, Fed
<1>2. BakesOK /\ RowsOK
  BY DEF Init, BakesOK, RowsOK, None
<1>3. JobsOK
  BY DEF Init, JobsOK, JobOK, JobFields, Resting, Times, None
<1>4. DispatchesOK
  BY DEF Init, DispatchesOK, NoDispatch
<1> QED BY <1>1, <1>2, <1>3, <1>4 DEF TablesInv

LEMMA TablesTypes ==
  ASSUME TablesInv
  PROVE  /\ now \in Int /\ now \in Nat /\ edits \in Int
         /\ Starter \subseteq Group /\ Bake \subseteq Group
         /\ now \in 0 .. MaxClock /\ edits \in 0 .. MaxEdits
BY CrumbAssumption DEF TablesInv, TablesOK, Group

LEMMA EditTables ==
  ASSUME TablesInv, NEW r \in Request, NEW g \in Group, NEW pc \in {"record", "feeds", "plan"}, NEW starter, NEW plan,
         Edit(r, g, pc, starter, plan), pc = "feeds" => starter \in StarterRow, Times(plan)
  PROVE  /\ RowsOK' /\ JobsOK' /\ DispatchesOK'
         /\ edits' = edits + 1 /\ edits' \in 0 .. MaxEdits /\ UNCHANGED <<now, devices>>
<1> DEFINE row == [pc |-> pc, on |-> g, starter |-> starter, put |-> plan, saw |-> {}]
<1>1. /\ job' = [job EXCEPT ![r] = row] /\ edits < MaxEdits /\ edits' = edits + 1
      /\ UNCHANGED <<now, rows, devices, dispatch, history>>
  BY DEF Edit
<1>2. JobOK(row)
  BY DEF JobOK, JobFields
<1> HIDE DEF row
<1>3. JobsOK'
  <2> SUFFICES ASSUME NEW q \in Request PROVE JobOK(job'[q])
    BY <1>1 DEF TablesInv, JobsOK
  <2>1. job'[q] = row \/ job'[q] = job[q]
    BY <1>1 DEF TablesInv, JobsOK
  <2> QED BY <2>1, <1>2 DEF TablesInv, JobsOK
<1>4. RowsOK' /\ DispatchesOK'
  BY <1>1 DEF TablesInv, RowsOK, DispatchesOK
<1>5. edits' \in 0 .. MaxEdits
  BY <1>1, TablesTypes, CrumbAssumption
<1> QED BY <1>1, <1>3, <1>4, <1>5

LEMMA StarterEditTables ==
  ASSUME TablesInv, NEW r \in Request, StarterEdit(r)
  PROVE  TablesInv'
<1>0. ASSUME NEW g \in Group, NEW pc \in {"record", "feeds", "plan"}, NEW starter, NEW plan,
             Edit(r, g, pc, starter, plan), pc = "feeds" => starter \in StarterRow, Times(plan),
             UNCHANGED <<bakes, strain>>, born \subseteq born',
             \A s \in DOMAIN starters' : s \in Starter /\ s \in born' /\ starters'[s] \in StarterRow,
             \A f \in feedings' : f \in FeedingRow /\ f.fedAt <= now /\ f.id < edits + 1 /\ f.starter \in DOMAIN starters'
      PROVE  TablesInv'
  <2>1. /\ RowsOK' /\ JobsOK' /\ DispatchesOK'
        /\ edits' = edits + 1 /\ edits' \in 0 .. MaxEdits /\ UNCHANGED <<now, devices>>
    BY <1>0, EditTables
  <2>2. BakesOK'
    BY <1>0 DEF TablesInv, BakesOK
  <2>3. \A b \in DOMAIN bakes' : b \in Bake /\ b \in born' /\ bakes'[b] \in BakeRow
    BY <1>0 DEF TablesInv, TablesOK
  <2>4. Fed(feedings)' /\ \A f \in feedings' : f.starter \in DOMAIN starters'
    BY <1>0, <2>1 DEF Fed
  <2>5. TablesOK'
    BY <1>0, <2>1, <2>3, <2>4 DEF TablesInv, TablesOK
  <2> QED BY <2>1, <2>2, <2>5 DEF TablesInv
<1>1. /\ now \in Int /\ now \in Nat /\ edits \in Int /\ Starter \subseteq Group
      /\ \A s \in DOMAIN starters : s \in Starter /\ s \in born /\ starters[s] \in StarterRow
      /\ \A f \in feedings : f.starter \in DOMAIN starters
  BY TablesTypes DEF TablesInv, TablesOK
<1>2. \A f \in feedings : f \in FeedingRow /\ f.fedAt <= now /\ f.id < edits + 1
  <2>1. \A f \in feedings : f \in FeedingRow /\ f.fedAt <= now /\ f.id < edits /\ f.id \in Int
    BY DEF TablesInv, TablesOK, Fed, FeedingRow
  <2> QED BY <2>1, <1>1
<1>3. Times(None) /\ Fed({})
  BY DEF Times, None, Fed
<1>4. CASE NewStarter(r)
  <2>1. PICK s \in Starter \ born, where \in Location :
          LET starter == [location |-> where, since |-> now, moved |-> FALSE]
          IN /\ born' = born \cup {s}
             /\ starters' = Put(starters, s, starter)
             /\ EditThenPlan(r, s, StarterPlan(starter, {}))
             /\ UNCHANGED <<feedings, bakes, strain>>
    BY <1>4 DEF NewStarter
  <2>2. PICK starter : starter = [location |-> where, since |-> now, moved |-> FALSE]
    OBVIOUS
  <2>3. starter \in StarterRow
    BY <2>2, <1>1 DEF StarterRow
  <2>4. Times(StarterPlan(starter, {}))
    BY <2>3, <1>1, <1>3, StarterPlanTimes
  <2>5. \A x \in DOMAIN starters' : x \in Starter /\ x \in born' /\ starters'[x] \in StarterRow
    BY <2>1, <2>2, <2>3, <1>1 DEF Put
  <2>6. DOMAIN starters \subseteq DOMAIN starters'
    BY <2>1 DEF Put
  <2>7. Edit(r, s, "plan", NoStarter, StarterPlan(starter, {})) /\ s \in Group
    BY <2>1, <2>2, <1>1 DEF EditThenPlan
  <2>8. \A f \in feedings' : f \in FeedingRow /\ f.fedAt <= now /\ f.id < edits + 1 /\ f.starter \in DOMAIN starters'
    BY <2>1, <2>6, <1>1, <1>2
  <2> QED BY <2>1, <2>4, <2>5, <2>7, <2>8, <1>0
<1>5. CASE PatchStarter(r)
  <2>1. PICK s \in DOMAIN starters, where \in Location :
          LET starter == IF where = starters[s].location THEN starters[s]
                         ELSE [location |-> where, since |-> now, moved |-> TRUE]
          IN /\ starters' = [starters EXCEPT ![s] = starter]
             /\ Edit(r, s, "feeds", starter, None)
             /\ UNCHANGED <<feedings, bakes, born, strain>>
    BY <1>5 DEF PatchStarter
  <2>2. PICK starter : starter = IF where = starters[s].location THEN starters[s]
                                 ELSE [location |-> where, since |-> now, moved |-> TRUE]
    OBVIOUS
  <2>3. starter \in StarterRow
    BY <2>2, <1>1 DEF StarterRow
  <2>4. starters' = [starters EXCEPT ![s] = starter] /\ Edit(r, s, "feeds", starter, None)
        /\ UNCHANGED <<feedings, bakes, born, strain>>
    BY <2>1, <2>2
  <2>5. DOMAIN starters' = DOMAIN starters /\ \A x \in DOMAIN starters' : x \in Starter /\ x \in born' /\ starters'[x] \in StarterRow
    BY <2>3, <2>4, <1>1
  <2>6. \A f \in feedings' : f \in FeedingRow /\ f.fedAt <= now /\ f.id < edits + 1 /\ f.starter \in DOMAIN starters'
    BY <2>4, <2>5, <1>1, <1>2
  <2>7. s \in Group
    BY <1>1
  <2> QED BY <2>3, <2>4, <2>5, <2>6, <2>7, <1>0, <1>3
<1>6. CASE DropStarter(r)
  <2>1. PICK s \in DOMAIN starters :
          /\ starters' = Without(starters, {s})
          /\ feedings' = feedings \ FeedingsOf(s)
          /\ EditThenPlan(r, s, None)
          /\ UNCHANGED <<bakes, born, strain>>
    BY <1>6 DEF DropStarter
  <2>2. DOMAIN starters' = DOMAIN starters \ {s} /\ \A x \in DOMAIN starters' : starters'[x] = starters[x]
    BY <2>1 DEF Without
  <2>3. \A f \in feedings' : f \in feedings /\ f.starter # s
    BY <2>1 DEF FeedingsOf
  <2>4. \A f \in feedings' : f \in FeedingRow /\ f.fedAt <= now /\ f.id < edits + 1 /\ f.starter \in DOMAIN starters'
    BY <2>2, <2>3, <1>1, <1>2
  <2>5. s \in Group /\ Edit(r, s, "plan", NoStarter, None)
    BY <2>1, <1>1 DEF EditThenPlan
  <2>6. \A x \in DOMAIN starters' : x \in Starter /\ x \in born' /\ starters'[x] \in StarterRow
    BY <2>1, <2>2, <1>1
  <2> QED BY <2>1, <2>4, <2>5, <2>6, <1>0, <1>3
<1>7. CASE NewFeeding(r)
  <2>1. PICK s \in DOMAIN starters, ago \in {0, 1}, remind \in BOOLEAN :
          /\ feedings' = feedings \cup {[id |-> edits, starter |-> s, fedAt |-> now - ago,
                                         remind |-> remind, peaked |-> FALSE]}
          /\ EditThenRead(r, s)
          /\ UNCHANGED <<starters, bakes, born, strain>>
    BY <1>7 DEF NewFeeding
  <2>2. PICK new : new = [id |-> edits, starter |-> s, fedAt |-> now - ago, remind |-> remind, peaked |-> FALSE]
    OBVIOUS
  <2>3. new \in FeedingRow /\ new.fedAt <= now /\ new.id < edits + 1 /\ new.starter \in DOMAIN starters
    BY <2>2, <1>1 DEF FeedingRow
  <2>4. feedings' = feedings \cup {new}
    BY <2>1, <2>2
  <2>5. \A f \in feedings' : f \in FeedingRow /\ f.fedAt <= now /\ f.id < edits + 1 /\ f.starter \in DOMAIN starters'
    BY <2>1, <2>3, <2>4, <1>1, <1>2
  <2>6. s \in Group /\ Edit(r, s, "record", NoStarter, None)
    BY <2>1, <1>1 DEF EditThenRead
  <2>7. \A x \in DOMAIN starters' : x \in Starter /\ x \in born' /\ starters'[x] \in StarterRow
    BY <2>1, <1>1
  <2> QED BY <2>1, <2>5, <2>6, <2>7, <1>0, <1>3
<1>8. CASE PatchFeeding(r)
  <2>1. PICK f \in feedings, peaked \in BOOLEAN :
          /\ feedings' = (feedings \ {f}) \cup {[f EXCEPT !.peaked = peaked]}
          /\ EditThenRead(r, f.starter)
          /\ UNCHANGED <<starters, bakes, born, strain>>
    BY <1>8 DEF PatchFeeding
  <2>2. PICK new : new = [f EXCEPT !.peaked = peaked]
    OBVIOUS
  <2>3. new \in FeedingRow /\ new.fedAt <= now /\ new.id < edits + 1 /\ new.starter \in DOMAIN starters
    <3>1. f \in FeedingRow /\ f.fedAt <= now /\ f.id < edits + 1 /\ f.starter \in DOMAIN starters
      BY <1>1, <1>2
    <3> QED BY <3>1, <2>2 DEF FeedingRow
  <2>4. \A x \in feedings' : x \in feedings \/ x = new
    BY <2>1, <2>2
  <2>5. \A x \in feedings' : x \in FeedingRow /\ x.fedAt <= now /\ x.id < edits + 1 /\ x.starter \in DOMAIN starters'
    BY <2>1, <2>3, <2>4, <1>1, <1>2
  <2>6. f.starter \in Group /\ Edit(r, f.starter, "record", NoStarter, None)
    BY <2>1, <1>1 DEF EditThenRead
  <2>7. \A x \in DOMAIN starters' : x \in Starter /\ x \in born' /\ starters'[x] \in StarterRow
    BY <2>1, <1>1
  <2> QED BY <2>1, <2>5, <2>6, <2>7, <1>0, <1>3
<1>9. CASE DropFeeding(r)
  <2>1. PICK f \in feedings :
          /\ feedings' = feedings \ {f}
          /\ EditThenRead(r, f.starter)
          /\ UNCHANGED <<starters, bakes, born, strain>>
    BY <1>9 DEF DropFeeding
  <2>2. \A x \in feedings' : x \in FeedingRow /\ x.fedAt <= now /\ x.id < edits + 1 /\ x.starter \in DOMAIN starters'
    BY <2>1, <1>1, <1>2
  <2>3. f.starter \in Group /\ Edit(r, f.starter, "record", NoStarter, None)
    BY <2>1, <1>1 DEF EditThenRead
  <2>4. \A x \in DOMAIN starters' : x \in Starter /\ x \in born' /\ starters'[x] \in StarterRow
    BY <2>1, <1>1
  <2> QED BY <2>1, <2>2, <2>3, <2>4, <1>0, <1>3
<1> QED BY <1>4, <1>5, <1>6, <1>7, <1>8, <1>9 DEF StarterEdit

(* What a plan went through may grow.                                       *)
LEMMA BakeStillOK ==
  ASSUME NEW b, NEW steps, NEW A, NEW B, BakeOK(b, steps, A),
         <<b, "overrun">> \in A => <<b, "overrun">> \in B,
         {<<b, "again">>, <<b, "shift">>} \cap B = {} => {<<b, "again">>, <<b, "shift">>} \cap A = {}
  PROVE  BakeOK(b, steps, B)
BY DEF BakeOK

LEMMA BakeChangeTables ==
  ASSUME TablesInv, NEW r \in Request, NEW b \in Bake, NEW plan, EditThenPlan(r, b, plan), Times(plan),
         UNCHANGED <<starters, feedings>>, born \subseteq born',
         \A c \in DOMAIN bakes' : c \in Bake /\ c \in born' /\ bakes'[c] \in BakeRow,
         BakesOK'
  PROVE  TablesInv'
<1>1. b \in Group /\ Edit(r, b, "plan", NoStarter, plan)
  BY TablesTypes DEF EditThenPlan
<1>2. /\ RowsOK' /\ JobsOK' /\ DispatchesOK'
      /\ edits' = edits + 1 /\ edits' \in 0 .. MaxEdits /\ UNCHANGED <<now, devices>>
  BY <1>1, EditTables
<1>3. \A f \in feedings : f \in FeedingRow /\ f.fedAt <= now /\ f.id < edits + 1
  <2>1. \A f \in feedings : f \in FeedingRow /\ f.fedAt <= now /\ f.id < edits /\ f.id \in Int
    BY DEF TablesInv, TablesOK, Fed, FeedingRow
  <2> QED BY <2>1, TablesTypes
<1>4. Fed(feedings)'
  BY <1>2, <1>3 DEF Fed
<1>5. TablesOK'
  BY <1>2, <1>4 DEF TablesInv, TablesOK
<1> QED BY <1>2, <1>5 DEF TablesInv

LEMMA SaveBakeTables ==
  ASSUME TablesInv, NEW r \in Request, NEW b \in DOMAIN bakes, NEW bake \in BakeRow, SaveBake(r, b, bake),
         strain \subseteq strain', \A c \in DOMAIN bakes : c # b => strain' \cap ({c} \X {"again", "shift", "overrun"}) \subseteq strain,
         BakeOK(b, bake.steps, strain')
  PROVE  TablesInv'
<1>1. /\ bakes' = [bakes EXCEPT ![b] = bake] /\ EditThenPlan(r, b, BakeReminders(bake))
      /\ UNCHANGED <<starters, feedings, born>>
  BY DEF SaveBake
<1>2. \A c \in DOMAIN bakes : c \in Bake /\ c \in born /\ bakes[c] \in BakeRow
  BY DEF TablesInv, TablesOK
<1>3. Times(BakeReminders(bake))
  BY BakeRemindersTimes DEF BakeOK
<1>4. BakesOK'
  <2> SUFFICES ASSUME NEW c \in DOMAIN bakes PROVE BakeOK(c, bakes'[c].steps, strain')
    BY <1>1 DEF BakesOK
  <2>1. CASE c = b
    BY <2>1, <1>1
  <2>2. CASE c # b
    <3>1. bakes'[c] = bakes[c] /\ BakeOK(c, bakes[c].steps, strain)
      BY <2>2, <1>1 DEF TablesInv, BakesOK
    <3>2. \A w \in {"again", "shift", "overrun"} : <<c, w>> \in strain' <=> <<c, w>> \in strain
      BY <2>2
    <3> QED BY <3>1, <3>2, BakeStillOK
  <2> QED BY <2>1, <2>2
<1>5. \A c \in DOMAIN bakes' : c \in Bake /\ c \in born' /\ bakes'[c] \in BakeRow
  BY <1>1, <1>2
<1> QED BY <1>1, <1>2, <1>3, <1>4, <1>5, BakeChangeTables

LEMMA ChangeStepsTables ==
  ASSUME TablesInv, NEW r \in Request, NEW b \in DOMAIN bakes, NEW steps, ChangeSteps(r, b, steps),
         strain \subseteq strain', \A c \in DOMAIN bakes : c # b => strain' \cap ({c} \X {"again", "shift", "overrun"}) \subseteq strain,
         BakeOK(b, steps, strain')
  PROVE  TablesInv'
<1>1. PICK bake : bake = [status |-> IF AnyOpen(steps) THEN "active" ELSE "done", steps |-> steps]
  OBVIOUS
<1>2. SaveBake(r, b, bake)
  BY <1>1 DEF ChangeSteps
<1>3. bake \in BakeRow /\ bake.steps = steps
  BY <1>1 DEF BakeOK, IsPlan, BakeRow
<1> QED BY <1>2, <1>3, SaveBakeTables

LEMMA BakeEditTables ==
  ASSUME TablesInv, NEW r \in Request, BakeEdit(r)
  PROVE  TablesInv'
<1>1. /\ now \in Int /\ now \in Nat /\ Bake \subseteq Group
      /\ \A b \in DOMAIN bakes : b \in Bake /\ b \in born /\ bakes[b] \in BakeRow /\ BakeOK(b, bakes[b].steps, strain)
  BY TablesTypes DEF TablesInv, TablesOK, BakesOK
<1>2. \A b \in DOMAIN bakes : LET steps == bakes[b].steps
        IN  /\ IsPlan(steps) /\ InOrder(steps) /\ DOMAIN steps = 1 .. Len(steps) /\ Len(steps) \in Nat
            /\ Overlap(steps) => <<b, "overrun">> \in strain
            /\ {<<b, "again">>, <<b, "shift">>} \cap strain = {} => Meets(steps) /\ Follows(steps)
  BY <1>1, PlanShape DEF BakeOK
<1>3. CASE NewBake(r)
  <2>1. PICK b \in Bake \ born, recipe \in Recipe, ahead \in ReadyIn :
          LET bake == [status |-> "active", steps |-> PlanBake(recipe, now + ahead)]
          IN /\ born' = born \cup {b}
             /\ bakes' = Put(bakes, b, bake)
             /\ EditThenPlan(r, b, BakeReminders(bake))
             /\ UNCHANGED <<starters, feedings, strain>>
    BY <1>3 DEF NewBake
  <2>2. PICK steps : steps = PlanBake(recipe, now + ahead)
    OBVIOUS
  <2>3. now + ahead \in Int
    BY <1>1, CrumbAssumption
  <2>4. IsPlan(steps) /\ InOrder(steps) /\ ~Overlap(steps) /\ Meets(steps) /\ Follows(steps)
    BY <2>2, <2>3, PlanBakeOK
  <2>5. PICK bake : bake = [status |-> "active", steps |-> steps]
    OBVIOUS
  <2>6. bake \in BakeRow /\ bake.steps = steps
    BY <2>4, <2>5 DEF IsPlan, BakeRow
  <2>7. /\ born' = born \cup {b}
        /\ bakes' = Put(bakes, b, bake)
        /\ EditThenPlan(r, b, BakeReminders(bake))
        /\ UNCHANGED <<starters, feedings, strain>>
    BY <2>1, <2>2, <2>5
  <2>8. /\ \A c \in DOMAIN bakes' : c = b \/ c \in DOMAIN bakes
        /\ bakes'[b] = bake /\ \A c \in DOMAIN bakes : c # b => bakes'[c] = bakes[c]
    BY <2>7 DEF Put
  <2>9. \A c \in DOMAIN bakes' : c \in Bake /\ c \in born' /\ bakes'[c] \in BakeRow
    BY <2>6, <2>7, <2>8, <1>1
  <2>10. BakesOK'
    <3> SUFFICES ASSUME NEW c \in DOMAIN bakes' PROVE BakeOK(c, bakes'[c].steps, strain')
      BY DEF BakesOK
    <3>1. CASE c = b
      BY <3>1, <2>4, <2>6, <2>8 DEF BakeOK
    <3>2. CASE c # b
      BY <3>2, <2>7, <2>8, <1>1
    <3> QED BY <3>1, <3>2
  <2>11. Times(BakeReminders(bake))
    BY <2>4, <2>6, BakeRemindersTimes
  <2> QED BY <2>7, <2>9, <2>10, <2>11, BakeChangeTables
<1>4. CASE PatchBake(r)
  <2>1. PICK b \in DOMAIN bakes, status \in {"active", "done", "cancelled"} :
          SaveBake(r, b, [bakes[b] EXCEPT !.status = status]) /\ UNCHANGED strain
    BY <1>4 DEF PatchBake
  <2>2. PICK bake : bake = [bakes[b] EXCEPT !.status = status]
    OBVIOUS
  <2>3. bakes[b] \in BakeRow /\ BakeOK(b, bakes[b].steps, strain)
    BY <1>1
  <2>4. bake \in BakeRow /\ bake.steps = bakes[b].steps
    BY <2>2, <2>3 DEF BakeRow
  <2>5. SaveBake(r, b, bake)
    BY <2>1, <2>2
  <2> QED BY <2>1, <2>3, <2>4, <2>5, SaveBakeTables
<1>5. CASE DropBake(r)
  <2>1. PICK b \in DOMAIN bakes :
          /\ bakes' = Without(bakes, {b})
          /\ EditThenPlan(r, b, None)
          /\ strain' = {x \in strain : x[1] # b}
          /\ UNCHANGED <<starters, feedings, born>>
    BY <1>5 DEF DropBake
  <2>2. DOMAIN bakes' = DOMAIN bakes \ {b} /\ \A c \in DOMAIN bakes' : bakes'[c] = bakes[c]
    BY <2>1 DEF Without
  <2>3. BakesOK'
    <3> SUFFICES ASSUME NEW c \in DOMAIN bakes' PROVE BakeOK(c, bakes'[c].steps, strain')
      BY DEF BakesOK
    <3>1. c # b /\ bakes'[c] = bakes[c] /\ BakeOK(c, bakes[c].steps, strain)
      BY <2>2, <1>1
    <3>2. \A w : <<c, w>> \in strain' <=> <<c, w>> \in strain
      BY <3>1, <2>1
    <3>3. /\ <<c, "overrun">> \in strain => <<c, "overrun">> \in strain'
          /\ {<<c, "again">>, <<c, "shift">>} \cap strain' = {} => {<<c, "again">>, <<c, "shift">>} \cap strain = {}
      BY <3>2
    <3>4. BakeOK(c, bakes[c].steps, strain')
      BY <3>1, <3>3, BakeStillOK
    <3> QED BY <3>1, <3>4
  <2>4. \A c \in DOMAIN bakes' : c \in Bake /\ c \in born' /\ bakes'[c] \in BakeRow
    BY <2>1, <2>2, <1>1
  <2>5. Times(None)
    BY DEF Times, None
  <2> QED BY <2>1, <2>3, <2>4, <2>5, <1>1, BakeChangeTables
<1>6. CASE StepDone(r)
  <2>1. PICK b \in DOMAIN bakes : \E k \in DOMAIN bakes[b].steps, ago \in {0, 1} :
          /\ ChangeSteps(r, b, CompleteStep(bakes[b].steps, k, now - ago))
          /\ strain' = IF Open(bakes[b].steps[k]) THEN strain ELSE strain \cup {<<b, "again">>}
    BY <1>6 DEF StepDone
  <2>2. PICK k \in DOMAIN bakes[b].steps, ago \in {0, 1} :
          /\ ChangeSteps(r, b, CompleteStep(bakes[b].steps, k, now - ago))
          /\ strain' = IF Open(bakes[b].steps[k]) THEN strain ELSE strain \cup {<<b, "again">>}
    BY <2>1
  <2>3. PICK steps : steps = bakes[b].steps
    OBVIOUS
  <2>4. PICK at \in Int : at = now - ago /\ at # NotDone
    BY <1>1 DEF NotDone
  <2>5. PICK new : new = CompleteStep(steps, k, at)
    OBVIOUS
  <2>6. /\ IsPlan(steps) /\ InOrder(steps) /\ k \in DOMAIN steps
        /\ Overlap(steps) => <<b, "overrun">> \in strain
        /\ {<<b, "again">>, <<b, "shift">>} \cap strain = {} => Meets(steps) /\ Follows(steps)
    BY <2>3, <1>2
  <2>7. /\ IsPlan(new) /\ InOrder(new)
        /\ ~Overlap(steps) => ~Overlap(new)
        /\ Open(steps[k]) /\ Meets(steps) /\ Follows(steps) => Meets(new) /\ Follows(new)
    BY <2>4, <2>5, <2>6, CompleteStepOK
  <2>8. strain' = IF Open(steps[k]) THEN strain ELSE strain \cup {<<b, "again">>}
    BY <2>2, <2>3
  <2>9. BakeOK(b, new, strain')
    BY <2>6, <2>7, <2>8 DEF BakeOK
  <2>10. /\ strain \subseteq strain'
         /\ \A c \in DOMAIN bakes : c # b => strain' \cap ({c} \X {"again", "shift", "overrun"}) \subseteq strain
    BY <2>8
  <2>11. ChangeSteps(r, b, new)
    BY <2>2, <2>3, <2>4, <2>5
  <2> QED BY <2>9, <2>10, <2>11, ChangeStepsTables
<1>7. CASE StepFold(r)
  <2>1. PICK b \in DOMAIN bakes : \E k \in DOMAIN bakes[b].steps, ago \in {0, 1} :
          /\ ChangeSteps(r, b, LogFold(bakes[b].steps, k, now - ago))
          /\ UNCHANGED strain
    BY <1>7 DEF StepFold
  <2>2. PICK k \in DOMAIN bakes[b].steps, ago \in {0, 1} :
          ChangeSteps(r, b, LogFold(bakes[b].steps, k, now - ago)) /\ UNCHANGED strain
    BY <2>1
  <2>3. PICK steps : steps = bakes[b].steps
    OBVIOUS
  <2>4. PICK at \in Int : at = now - ago
    BY <1>1
  <2>5. PICK new : new = LogFold(steps, k, at)
    OBVIOUS
  <2>6. /\ IsPlan(steps) /\ InOrder(steps) /\ k \in DOMAIN steps
        /\ Overlap(steps) => <<b, "overrun">> \in strain
        /\ {<<b, "again">>, <<b, "shift">>} \cap strain = {} => Meets(steps) /\ Follows(steps)
    BY <2>3, <1>2
  <2>7. /\ IsPlan(new)
        /\ InOrder(steps) => InOrder(new)
        /\ ~Overlap(steps) => ~Overlap(new)
        /\ Meets(steps) => Meets(new)
        /\ Follows(steps) => Follows(new)
    BY <2>5, <2>6, LogFoldOK
  <2>8. BakeOK(b, new, strain')
    BY <2>2, <2>6, <2>7 DEF BakeOK
  <2>9. ChangeSteps(r, b, new)
    BY <2>2, <2>3, <2>4, <2>5
  <2> QED BY <2>2, <2>8, <2>9, ChangeStepsTables
<1>8. CASE Shift(r)
  <2>1. PICK b \in DOMAIN bakes, minutes \in ShiftBy :
          LET steps == bakes[b].steps
              underWay == {i \in DOMAIN steps : UnderWay(steps[i], now)}
          IN /\ ChangeSteps(r, b, ShiftRemaining(steps, minutes, now))
             /\ strain' = strain \cup {<<b, "shift">>}
                                 \cup {<<b, "overrun">> : i \in {j \in underWay : j + 1 \in underWay}}
    BY <1>8 DEF Shift
  <2>2. PICK steps : steps = bakes[b].steps
    OBVIOUS
  <2>3. PICK new : new = ShiftRemaining(steps, minutes, now)
    OBVIOUS
  <2> DEFINE underWay == {i \in DOMAIN steps : UnderWay(steps[i], now)}
             over == {<<b, "overrun">> : i \in {j \in underWay : j + 1 \in underWay}}
  <2>4. ChangeSteps(r, b, new) /\ strain' = strain \cup {<<b, "shift">>} \cup over
    BY <2>1, <2>2, <2>3
  <2>5. /\ \A x \in over : x = <<b, "overrun">>
        /\ \A i \in DOMAIN steps : i + 1 \in DOMAIN steps /\ UnderWay(steps[i], now) /\ UnderWay(steps[i + 1], now)
             => <<b, "overrun">> \in over
    OBVIOUS
  <2> HIDE DEF over
  <2>6. IsPlan(steps) /\ InOrder(steps) /\ (Overlap(steps) => <<b, "overrun">> \in strain)
    BY <2>2, <1>2
  <2>7. minutes \in Int
    BY CrumbAssumption
  <2>8. /\ IsPlan(new) /\ InOrder(new)
        /\ \/ \E i \in DOMAIN steps : i + 1 \in DOMAIN steps /\ UnderWay(steps[i], now) /\ UnderWay(steps[i + 1], now)
           \/ ~Overlap(steps) => ~Overlap(new)
    BY <2>3, <2>6, <2>7, <1>1, ShiftRemainingOK
  <2>9. Overlap(new) => <<b, "overrun">> \in strain'
    BY <2>4, <2>5, <2>6, <2>8
  <2>10. BakeOK(b, new, strain')
    BY <2>4, <2>8, <2>9 DEF BakeOK
  <2>11. /\ strain \subseteq strain'
         /\ \A c \in DOMAIN bakes : c # b => strain' \cap ({c} \X {"again", "shift", "overrun"}) \subseteq strain
    BY <2>4, <2>5
  <2> QED BY <2>4, <2>10, <2>11, ChangeStepsTables
<1> QED BY <1>3, <1>4, <1>5, <1>6, <1>7, <1>8 DEF BakeEdit

(* A request goes on: the row of its job is a new one, the tables stay.     *)
LEMMA JobStepTables ==
  ASSUME TablesInv, NEW r \in Request, NEW row, job' = [job EXCEPT ![r] = row], JobOK(row), RowsOK',
         UNCHANGED <<now, tables, devices, dispatch, edits, strain>>
  PROVE  TablesInv'
<1>1. JobsOK'
  <2> SUFFICES ASSUME NEW q \in Request PROVE JobOK(job'[q])
    BY DEF TablesInv, JobsOK
  <2>1. job'[q] = row \/ job'[q] = job[q]
    BY DEF TablesInv, JobsOK
  <2> QED BY <2>1 DEF TablesInv, JobsOK
<1>2. TablesOK' /\ BakesOK' /\ DispatchesOK'
  BY DEF TablesInv, TablesOK, Fed, BakesOK, DispatchesOK, tables
<1> QED BY <1>1, <1>2 DEF TablesInv

LEMMA RestingTables ==
  ASSUME TablesInv, NEW r \in Request, job' = [job EXCEPT ![r] = Resting], RowsOK',
         UNCHANGED <<now, tables, devices, dispatch, edits, strain>>
  PROVE  TablesInv'
<1>1. PICK row : row = Resting
  OBVIOUS
<1>2. JobOK(row)
  BY <1>1 DEF JobOK, JobFields, Resting, Times, None
<1> QED BY <1>1, <1>2, JobStepTables

(* Who saw rows that r deletes goes on without them, and else as before.    *)
LEMMA SkipJobs ==
  ASSUME DOMAIN job = Request, \A q \in Request : DOMAIN job[q] = JobFields,
         NEW r \in Request, Skip(r)
  PROVE  /\ DOMAIN job' = Request /\ job'[r] = Resting
         /\ \A q \in Request : DOMAIN job'[q] = JobFields
         /\ \A q \in Request : q # r =>
              /\ job'[q].pc = job[q].pc /\ job'[q].on = job[q].on
              /\ job'[q].starter = job[q].starter /\ job'[q].put = job[q].put
              /\ job'[q].saw = job[q].saw \ job[r].saw
<1>1. DOMAIN job' = Request /\ job'[r] = Resting
  BY DEF Skip
<1>2. DOMAIN Resting = JobFields
  BY DEF Resting, JobFields
<1>3. ASSUME NEW q \in Request, q # r
      PROVE  /\ job'[q].pc = job[q].pc /\ job'[q].on = job[q].on
             /\ job'[q].starter = job[q].starter /\ job'[q].put = job[q].put
             /\ job'[q].saw = job[q].saw \ job[r].saw /\ DOMAIN job'[q] = JobFields
  <2>1. PICK j, t : j = job[q] /\ t = job[r].saw
    OBVIOUS
  <2>2. job'[q] = [j EXCEPT !.saw = j.saw \ t]
    BY <1>3, <2>1 DEF Skip
  <2>3. DOMAIN j = JobFields
    BY <2>1
  <2> QED BY <2>1, <2>2, <2>3 DEF JobFields
<1> QED BY <1>1, <1>2, <1>3

LEMMA SkipTables ==
  ASSUME TablesInv, NEW r \in Request, Skip(r), RowsOK',
         UNCHANGED <<now, tables, devices, dispatch, edits, strain>>
  PROVE  TablesInv'
<1>1. DOMAIN job = Request /\ \A q \in Request : JobOK(job[q]) /\ DOMAIN job[q] = JobFields
  BY DEF TablesInv, JobsOK, JobOK
<1>2. JobsOK'
  <2>1. DOMAIN job' = Request /\ job'[r] = Resting
    BY <1>1, SkipJobs
  <2>2. JobOK(Resting)
    BY DEF JobOK, JobFields, Resting, Times, None
  <2>3. ASSUME NEW q \in Request, q # r PROVE JobOK(job'[q])
    <3>1. /\ job'[q].pc = job[q].pc /\ job'[q].on = job[q].on /\ job'[q].starter = job[q].starter
          /\ job'[q].put = job[q].put /\ DOMAIN job'[q] = JobFields
      BY <1>1, <2>3, SkipJobs
    <3>2. JobOK(job[q])
      BY <1>1
    <3> QED BY <3>1, <3>2 DEF JobOK
  <2> QED BY <2>1, <2>2, <2>3 DEF JobsOK
<1>3. TablesOK' /\ BakesOK' /\ DispatchesOK'
  BY DEF TablesInv, TablesOK, Fed, BakesOK, DispatchesOK, tables
<1> QED BY <1>2, <1>3 DEF TablesInv

LEMMA GotoTables ==
  ASSUME TablesInv, NEW r \in Request, NEW pc \in {"feeds", "plan", "delete", "insert"}, NEW starter, NEW put, NEW saw,
         job[r].pc # "idle", Goto(r, pc, starter, put, saw),
         pc = "feeds" => starter \in StarterRow, Times(put), RowsOK',
         UNCHANGED <<now, tables, devices, dispatch, edits, strain>>
  PROVE  TablesInv'
<1>1. PICK row : row = [pc |-> pc, on |-> job[r].on, starter |-> starter, put |-> put, saw |-> saw]
  OBVIOUS
<1>2. job' = [job EXCEPT ![r] = row]
  BY <1>1 DEF Goto
<1>3. job[r].on \in Group
  BY DEF TablesInv, JobsOK, JobOK
<1>4. JobOK(row)
  BY <1>1, <1>3 DEF JobOK, JobFields
<1> QED BY <1>2, <1>4, JobStepTables

LEMMA GoOnTables ==
  ASSUME TablesInv, NEW r \in Request, GoOn(r)
  PROVE  TablesInv'
<1>1. JobOK(job[r])
  BY DEF TablesInv, JobsOK
<1>2. RowsOK /\ Times(None)
  BY DEF TablesInv, Times, None
<1>3. CASE ReadRecord(r)
  <2>1. UNCHANGED <<now, tables, rows, devices, dispatch, edits, strain>> /\ job[r].pc = "record" /\ RowsOK'
    BY <1>3, <1>2 DEF ReadRecord, RowsOK
  <2>2. CASE job[r].on \in DOMAIN starters
    <3>1. Goto(r, "feeds", starters[job[r].on], None, {})
      BY <2>2, <1>3 DEF ReadRecord
    <3>2. starters[job[r].on] \in StarterRow
      BY <2>2 DEF TablesInv, TablesOK
    <3> QED BY <2>1, <3>1, <3>2, <1>2, GotoTables
  <2>3. CASE job[r].on \notin DOMAIN starters
    <3>1. job' = [job EXCEPT ![r] = Resting]
      BY <2>3, <1>3 DEF ReadRecord, Finish
    <3> QED BY <2>1, <3>1, RestingTables
  <2> QED BY <2>2, <2>3
<1>4. CASE ReadFeedings(r)
  <2>1. UNCHANGED <<now, tables, rows, devices, dispatch, edits, strain>> /\ job[r].pc = "feeds" /\ RowsOK'
        /\ Goto(r, "plan", NoStarter, StarterPlan(job[r].starter, FeedingsOf(job[r].on)), {})
    BY <1>4, <1>2 DEF ReadFeedings, RowsOK
  <2>2. job[r].starter \in StarterRow
    BY <2>1, <1>1 DEF JobOK
  <2>3. Fed(FeedingsOf(job[r].on))
    BY DEF TablesInv, TablesOK, Fed, FeedingsOf
  <2>4. Times(StarterPlan(job[r].starter, FeedingsOf(job[r].on)))
    BY <2>2, <2>3, TablesTypes, StarterPlanTimes
  <2> QED BY <2>1, <2>4, GotoTables
<1>5. CASE Plan(r)
  <2>1. UNCHANGED <<now, tables, rows, devices, dispatch, edits, strain>> /\ job[r].pc = "plan" /\ RowsOK'
        /\ Goto(r, "delete", NoStarter, Upcoming(job[r].put, now), {id \in DOMAIN rows : id[1] = job[r].on})
    BY <1>5, <1>2 DEF Plan, RowsOK
  <2>2. PICK put, saw : put = Upcoming(job[r].put, now) /\ saw = {id \in DOMAIN rows : id[1] = job[r].on}
    OBVIOUS
  <2>3. Times(put)
    BY <2>2, <1>1 DEF JobOK, Times, Upcoming
  <2> QED BY <2>1, <2>2, <2>3, GotoTables
<1>6. CASE DeleteRows(r)
  <2>1. UNCHANGED <<now, tables, rows, devices, dispatch, edits, strain>> /\ job[r].pc = "delete" /\ RowsOK'
        /\ Goto(r, "insert", NoStarter, job[r].put, job[r].saw)
    BY <1>6, <1>2 DEF DeleteRows, RowsOK
  <2>2. Times(job[r].put)
    BY <1>1 DEF JobOK
  <2> QED BY <2>1, <2>2, GotoTables
<1>7. CASE InsertRows(r)
  <2> DEFINE ids == {<<job[r].on, k>> : k \in DOMAIN job[r].put}
  <2>1. /\ UNCHANGED <<now, tables, devices, dispatch, edits, strain>> /\ job[r].pc = "insert"
        /\ rows' = [id \in (DOMAIN rows \ job[r].saw) \cup ids |->
                      IF id \in ids THEN [due |-> job[r].put[id[2]], sent |-> FALSE] ELSE rows[id]]
        /\ Skip(r)
    BY <1>7 DEF InsertRows
  <2>2. \A id \in ids : \E k \in DOMAIN job[r].put : id = <<job[r].on, k>>
    OBVIOUS
  <2>3. job[r].on \in Group
    BY <2>1, <1>1 DEF JobOK
  <2> HIDE DEF ids
  <2>4. RowsOK'
    <3> SUFFICES ASSUME NEW id \in DOMAIN rows'
                 PROVE  id[1] \in Group /\ rows'[id].due \in Int /\ rows'[id].sent \in BOOLEAN
      BY DEF RowsOK
    <3>1. CASE id \in ids
      <4>1. PICK k \in DOMAIN job[r].put : id = <<job[r].on, k>>
        BY <3>1, <2>2
      <4>2. rows'[id] = [due |-> job[r].put[k], sent |-> FALSE]
        BY <3>1, <4>1, <2>1
      <4> QED BY <4>1, <4>2, <2>3, <1>1 DEF JobOK, Times
    <3>2. CASE id \notin ids
      <4>1. id \in DOMAIN rows /\ rows'[id] = rows[id]
        BY <3>2, <2>1
      <4> QED BY <4>1, <1>2 DEF RowsOK
    <3> QED BY <3>1, <3>2
  <2> QED BY <2>1, <2>4, SkipTables
<1> QED BY <1>3, <1>4, <1>5, <1>6, <1>7 DEF GoOn

LEMMA DispatchTables ==
  ASSUME TablesInv, NEW d \in Dispatcher, NEW row, dispatch' = [dispatch EXCEPT ![d] = row],
         row.pc = "list" => row.todo = {}, RowsOK', devices' \subseteq devices,
         UNCHANGED <<now, tables, job, edits, strain>>
  PROVE  TablesInv'
<1>1. DispatchesOK'
  <2> SUFFICES ASSUME NEW e \in Dispatcher, dispatch'[e].pc = "list" PROVE dispatch'[e].todo = {}
    BY DEF TablesInv, DispatchesOK
  <2>1. dispatch'[e] = row \/ dispatch'[e] = dispatch[e]
    BY DEF TablesInv, DispatchesOK
  <2> QED BY <2>1 DEF TablesInv, DispatchesOK
<1>2. TablesOK' /\ BakesOK' /\ JobsOK'
  BY DEF TablesInv, TablesOK, Fed, BakesOK, JobsOK, tables
<1> QED BY <1>1, <1>2 DEF TablesInv

LEMMA DispatcherTables ==
  ASSUME TablesInv, NEW d \in Dispatcher,
         ClaimDueReminders(d) \/ ListDevices(d) \/ Push(d) \/ StopDispatch(d)
  PROVE  TablesInv'
<1>1. CASE ClaimDueReminders(d)
  <2>1. PICK ids : /\ rows' = [id \in DOMAIN rows |-> [due |-> rows[id].due, sent |-> rows[id].sent \/ id \in ids]]
                   /\ \E batch : dispatch' = [dispatch EXCEPT ![d] = [pc |-> "list", todo |-> {}, batch |-> batch]]
                   /\ UNCHANGED <<now, tables, devices, job, edits, strain>>
    BY <1>1 DEF ClaimDueReminders
  <2>2. PICK batch : dispatch' = [dispatch EXCEPT ![d] = [pc |-> "list", todo |-> {}, batch |-> batch]]
    BY <2>1
  <2>3. PICK row : row = [pc |-> "list", todo |-> {}, batch |-> batch]
    OBVIOUS
  <2>4. dispatch' = [dispatch EXCEPT ![d] = row] /\ row.todo = {}
    BY <2>2, <2>3
  <2>5. RowsOK'
    BY <2>1 DEF TablesInv, RowsOK
  <2> QED BY <2>1, <2>4, <2>5, DispatchTables
<1>2. ASSUME NEW todo, Pushing(d, todo), UNCHANGED <<now, tables, rows, job, edits, strain>>, devices' \subseteq devices
      PROVE  TablesInv'
  <2>1. PICK row : row = IF todo = {} THEN NoDispatch ELSE [pc |-> "push", batch |-> {}, todo |-> todo]
    OBVIOUS
  <2>2. dispatch' = [dispatch EXCEPT ![d] = row] /\ row.pc # "list"
    BY <1>2, <2>1 DEF Pushing, NoDispatch
  <2>3. RowsOK'
    BY <1>2 DEF TablesInv, RowsOK
  <2> QED BY <1>2, <2>2, <2>3, DispatchTables
<1>3. CASE ListDevices(d)
  <2>1. Pushing(d, devices \X dispatch[d].batch) /\ UNCHANGED <<now, tables, rows, devices, job, edits, strain>>
    BY <1>3 DEF ListDevices
  <2> QED BY <2>1, <1>2
<1>4. CASE Push(d)
  <2>1. PICK todo : Pushing(d, todo) /\ devices' \subseteq devices
    BY <1>4 DEF Push
  <2>2. UNCHANGED <<now, tables, rows, job, edits, strain>>
    BY <1>4 DEF Push
  <2> QED BY <2>1, <2>2, <1>2
<1>5. CASE StopDispatch(d)
  <2>1. Pushing(d, {}) /\ UNCHANGED <<now, tables, rows, devices, job, edits, strain>>
    BY <1>5 DEF StopDispatch, Pushing
  <2> QED BY <2>1, <1>2
<1> QED BY <1>1, <1>3, <1>4, <1>5

LEMMA ElseTables ==
  ASSUME TablesInv, Subscribe \/ Unsubscribe \/ Tick \/ UNCHANGED vars
  PROVE  TablesInv'
<1>1. UNCHANGED <<tables, rows, job, dispatch, edits, strain>>
  BY DEF Subscribe, Unsubscribe, Tick, vars
<1>2. now' \in 0 .. MaxClock /\ now <= now'
  BY TablesTypes, CrumbAssumption DEF Subscribe, Unsubscribe, Tick, vars
<1>3. devices' \subseteq Device
  BY DEF Subscribe, Unsubscribe, Tick, vars, TablesInv, TablesOK
<1>4. \A f \in feedings : f \in FeedingRow /\ f.fedAt <= now' /\ f.id < edits
  <2>1. \A f \in feedings : f \in FeedingRow /\ f.fedAt <= now /\ f.id < edits /\ f.fedAt \in Int
    BY DEF TablesInv, TablesOK, Fed, FeedingRow
  <2> QED BY <2>1, <1>2, TablesTypes
<1>5. TablesOK'
  BY <1>1, <1>2, <1>3, <1>4 DEF TablesInv, TablesOK, Fed, tables
<1>6. BakesOK' /\ RowsOK' /\ JobsOK' /\ DispatchesOK'
  BY <1>1 DEF TablesInv, BakesOK, RowsOK, JobsOK, DispatchesOK, tables
<1> QED BY <1>5, <1>6 DEF TablesInv

LEMMA NextTables ==
  ASSUME TablesInv, [Next]_vars
  PROVE  TablesInv'
<1>1. CASE UNCHANGED vars
  BY <1>1, ElseTables
<1>2. CASE Next
  <2>1. CASE \E r \in Request : StarterEdit(r) \/ BakeEdit(r) \/ GoOn(r) \/ Fail(r)
    <3>1. PICK r \in Request : StarterEdit(r) \/ BakeEdit(r) \/ GoOn(r) \/ Fail(r)
      BY <2>1
    <3>2. CASE Fail(r)
      <4>1. job' = [job EXCEPT ![r] = Resting] /\ UNCHANGED <<now, tables, rows, devices, dispatch, edits, strain>>
        BY <3>2 DEF Fail
      <4>2. RowsOK'
        BY <4>1 DEF TablesInv, RowsOK
      <4> QED BY <4>1, <4>2, RestingTables
    <3> QED BY <3>1, <3>2, StarterEditTables, BakeEditTables, GoOnTables
  <2>2. CASE \E d \in Dispatcher : ClaimDueReminders(d) \/ ListDevices(d) \/ Push(d) \/ StopDispatch(d)
    BY <2>2, DispatcherTables
  <2>3. CASE Subscribe \/ Unsubscribe \/ Tick
    BY <2>3, ElseTables
  <2> QED BY <1>2, <2>1, <2>2, <2>3 DEF Next
<1> QED BY <1>1, <1>2

LEMMA AlwaysTables == Spec => []TablesInv
BY InitTables, NextTables, PTL DEF Spec

(* Every due time is a time, wherever it is kept: ShiftRemaining and        *)
(* PlanBake compute none out of nothing, and a list of feedings has a       *)
(* newest; no feeding outlives its starter.                                 *)
THEOREM CrumbTypeOK == Spec => []TypeOK
<1>1. TablesInv => TypeOK
  <2> SUFFICES ASSUME TablesInv PROVE TypeOK
    OBVIOUS
  <2>1. /\ now \in 0 .. MaxClock /\ edits \in 0 .. MaxEdits
        /\ devices \subseteq Device /\ \A f \in feedings : f.starter \in DOMAIN starters
    BY DEF TablesInv, TablesOK
  <2>2. \A id \in DOMAIN rows : id[1] \in Group /\ rows[id].due \in Int /\ rows[id].sent \in BOOLEAN
    BY DEF TablesInv, RowsOK
  <2>3. \A r \in Request :
          /\ job[r].pc \in {"idle", "record", "feeds", "plan", "delete", "insert"}
          /\ job[r].pc # "idle" => job[r].on \in Group
          /\ \A k \in DOMAIN job[r].put : job[r].put[k] \in Int
    BY DEF TablesInv, JobsOK, JobOK, Times
  <2>4. \A d \in Dispatcher : dispatch[d].pc = "list" => dispatch[d].todo = {}
    BY DEF TablesInv, DispatchesOK
  <2> QED BY <2>1, <2>2, <2>3, <2>4 DEF TypeOK
<1> QED BY <1>1, AlwaysTables, PTL

(* A bake's steps are done from the first on, whatever the client marks.    *)
THEOREM AlwaysDoneInOrder == Spec => []DoneInOrder
<1>1. TablesInv => DoneInOrder
  BY DEF TablesInv, BakesOK, BakeOK, InOrder, DoneInOrder
<1> QED BY <1>1, AlwaysTables, PTL

(* Open steps overlap only if the plan was shifted while two of them were   *)
(* under way.                                                               *)
THEOREM AlwaysOverlapHasACause == Spec => []OverlapHasACause
<1>1. TablesInv => OverlapHasACause
  BY DEF TablesInv, BakesOK, BakeOK, OverlapHasACause
<1> QED BY <1>1, AlwaysTables, PTL

(* The step after the last one done starts when that was done, unless the   *)
(* plan was shifted or a step was marked done again.                        *)
THEOREM AlwaysNextStepFollows == Spec => []NextStepFollows
<1>1. TablesInv => NextStepFollows
  BY DEF TablesInv, BakesOK, BakeOK, Follows, NextStepFollows
<1> QED BY <1>1, AlwaysTables, PTL

-----------------------------------------------------------------------------
(* Part 3: reminders are those the tables imply.                            *)

(* What is to come after t, of a plan and of the table.                     *)
ToCome(plan, t) == {<<k, plan[k]>> : k \in {j \in DOMAIN plan : plan[j] > t}}
RowsOf(g) == {id \in DOMAIN rows : id[1] = g}
RowsToCome(g, t) == {<<id[2], rows[id].due>> : id \in {i \in DOMAIN rows : i[1] = g /\ rows[i].due > t}}

Current(g) == RowsToCome(g, now) = ToCome(Implied(g), now)

(* A request alone with its group has what the tables say, at each await.   *)
Sound(j) ==
  /\ j.pc \in {"record", "feeds"} => j.on \in DOMAIN starters
  /\ j.pc = "feeds" => j.starter = starters[j.on]
  /\ j.pc = "plan" => j.put = Implied(j.on)
  /\ j.pc \in {"delete", "insert"} => ToCome(j.put, now) = ToCome(Implied(j.on), now) /\ j.saw = RowsOf(j.on)

AloneSound == alone \subseteq Request /\ \A r \in alone : job[r].pc # "idle" /\ Sound(job[r])
AloneIsAlone == \A r \in alone : \A q \in Request : job[q].pc # "idle" /\ job[q].on = job[r].on => q = r
SawOwn == \A r \in Request : \A id \in job[r].saw : id[1] = job[r].on
MetUnsure == \A r \in Request : job[r].pc # "idle" /\ r \notin alone => job[r].on \in unsure
QuietCurrent == \A g \in Group : (\A r \in Request : ~(job[r].pc # "idle" /\ job[r].on = g)) /\ g \notin unsure => Current(g)

RemindersInv == AloneSound /\ AloneIsAlone /\ SawOwn /\ MetUnsure /\ QuietCurrent

LEMMA InitReminders == Init => RemindersInv
<1> SUFFICES ASSUME Init PROVE RemindersInv
  OBVIOUS
<1>1. AloneSound /\ AloneIsAlone /\ SawOwn /\ MetUnsure
  BY DEF Init, AloneSound, AloneIsAlone, SawOwn, MetUnsure, Resting
<1>2. \A g : Implied(g) = None
  BY DEF Init, Implied, None
<1>3. \A g : RowsToCome(g, now) = {} /\ ToCome(None, now) = {}
  BY DEF Init, RowsToCome, ToCome, None
<1>4. QuietCurrent
  BY <1>2, <1>3 DEF QuietCurrent, Current
<1> QED BY <1>1, <1>4 DEF RemindersInv

(* What the tables say of h is still the same.                              *)
Kept(h) ==
  /\ h \in DOMAIN starters' <=> h \in DOMAIN starters
  /\ h \in DOMAIN starters => starters'[h] = starters[h]
  /\ Implied(h)' = Implied(h)

LEMMA ImpliedKept ==
  ASSUME NEW h, h \in DOMAIN starters' <=> h \in DOMAIN starters, h \in DOMAIN starters => starters'[h] = starters[h],
         FeedingsOf(h)' = FeedingsOf(h),
         h \in DOMAIN bakes' <=> h \in DOMAIN bakes, h \in DOMAIN bakes => bakes'[h] = bakes[h]
  PROVE  Kept(h)
<1>1. CASE h \in DOMAIN starters
  BY <1>1 DEF Kept, Implied
<1>2. CASE h \notin DOMAIN starters /\ h \in DOMAIN bakes
  BY <1>2 DEF Kept, Implied
<1>3. CASE h \notin DOMAIN starters /\ h \notin DOMAIN bakes
  BY <1>3 DEF Kept, Implied
<1> QED BY <1>1, <1>2, <1>3

LEMMA EditReminders ==
  ASSUME TablesInv, RemindersInv, NEW r \in Request, NEW g \in Group, NEW pc \in {"record", "feeds", "plan"},
         NEW starter, NEW plan, Edit(r, g, pc, starter, plan),
         \A h \in Group : h # g => Kept(h),
         pc \in {"record", "feeds"} => g \in DOMAIN starters',
         pc = "feeds" => starter = starters'[g],
         pc = "plan" => plan = Implied(g)'
  PROVE  RemindersInv'
<1> DEFINE row == [pc |-> pc, on |-> g, starter |-> starter, put |-> plan, saw |-> {}]
<1>1. job' = [job EXCEPT ![r] = row] /\ job[r].pc = "idle" /\ UNCHANGED <<now, rows>>
  BY DEF Edit
<1>2. row.pc = pc /\ row.on = g /\ row.starter = starter /\ row.put = plan /\ row.saw = {} /\ row.pc # "idle"
  OBVIOUS
<1> HIDE DEF row
<1>3. job'[r] = row /\ \A q \in Request : q # r => job'[q] = job[q]
  BY <1>1 DEF TablesInv, JobsOK
<1>4. r \notin alone /\ r \notin alone \ InFlight(g)
  BY <1>1 DEF RemindersInv, AloneSound
<1>5. \/ InFlight(g) = {} /\ alone' = alone \cup {r} /\ unsure' = unsure
      \/ InFlight(g) # {} /\ alone' = alone \ InFlight(g) /\ unsure' = unsure \cup {g}
  BY DEF Edit
<1>6. \A s \in alone' : s = r \/ (s \in alone /\ s # r /\ job[s].pc # "idle" /\ job[s].on # g /\ job[s].on \in Group)
  <2>1. \A s \in alone : s \in Request /\ job[s].pc # "idle" /\ job[s].on \in Group
    BY DEF RemindersInv, AloneSound, TablesInv, JobsOK, JobOK
  <2>2. \A s \in alone : job[s].on = g => s \in InFlight(g)
    BY <2>1 DEF InFlight
  <2> QED BY <1>4, <1>5, <2>1, <2>2
<1>7. AloneSound'
  <2>1. alone' \subseteq Request
    BY <1>5 DEF RemindersInv, AloneSound
  <2>2. \A s \in alone' : job'[s].pc # "idle" /\ Sound(job[s])'
    <3> SUFFICES ASSUME NEW s \in alone' PROVE job'[s].pc # "idle" /\ Sound(job[s])'
      OBVIOUS
    <3>1. CASE s = r
      <4>1. job'[s] = row
        BY <3>1, <1>3
      <4> QED BY <4>1, <1>2 DEF Sound
    <3>2. CASE s # r
      <4>1. s \in alone /\ job[s].pc # "idle" /\ job[s].on # g /\ job[s].on \in Group /\ job'[s] = job[s]
        BY <3>2, <1>3, <1>6, <2>1
      <4>2. Kept(job[s].on) /\ Sound(job[s])
        BY <4>1 DEF RemindersInv, AloneSound
      <4>3. PICK h : h = job[s].on
        OBVIOUS
      <4>4. Kept(h)
        BY <4>2, <4>3
      <4>5. RowsOf(h)' = RowsOf(h) /\ now' = now
        BY <1>1 DEF RowsOf
      <4> QED BY <4>1, <4>2, <4>3, <4>4, <4>5 DEF Sound, Kept
    <3> QED BY <3>1, <3>2
  <2> QED BY <2>1, <2>2 DEF AloneSound
<1>8. AloneIsAlone'
  <2> SUFFICES ASSUME NEW s \in alone', NEW q \in Request, job'[q].pc # "idle", job'[q].on = job'[s].on
               PROVE  q = s
    BY DEF AloneIsAlone
  <2>1. s \in Request
    BY <1>6 DEF RemindersInv, AloneSound
  <2>2. CASE s = r
    <3>1. InFlight(g) = {}
      BY <2>2, <1>4, <1>5
    <3>2. q # r => q \in InFlight(g)
      BY <2>2, <1>2, <1>3 DEF InFlight
    <3> QED BY <2>2, <3>1, <3>2
  <2>3. CASE s # r
    <3>1. job'[s] = job[s] /\ s \in alone /\ job[s].on # g
      BY <2>1, <2>3, <1>3, <1>6
    <3>2. q # r
      BY <3>1, <1>2, <1>3
    <3>3. job'[q] = job[q]
      BY <3>2, <1>3
    <3> QED BY <3>1, <3>3 DEF RemindersInv, AloneIsAlone
  <2> QED BY <2>2, <2>3
<1>9. SawOwn'
  BY <1>2, <1>3 DEF RemindersInv, SawOwn
<1>10. MetUnsure'
  <2> SUFFICES ASSUME NEW q \in Request, job'[q].pc # "idle", q \notin alone'
               PROVE  job'[q].on \in unsure'
    BY DEF MetUnsure
  <2>1. CASE q = r
    BY <2>1, <1>2, <1>3, <1>5
  <2>2. CASE q # r
    <3>1. job'[q] = job[q]
      BY <2>2, <1>3
    <3>2. q \in alone => job[q].on = g /\ unsure' = unsure \cup {g}
      BY <2>2, <1>5 DEF InFlight
    <3>3. q \notin alone => job[q].on \in unsure
      BY <3>1 DEF RemindersInv, MetUnsure
    <3>4. unsure \subseteq unsure'
      BY <1>5
    <3> QED BY <3>1, <3>2, <3>3, <3>4
  <2> QED BY <2>1, <2>2
<1>11. QuietCurrent'
  <2> SUFFICES ASSUME NEW h \in Group, \A q \in Request : ~(job'[q].pc # "idle" /\ job'[q].on = h), h \notin unsure'
               PROVE  Current(h)'
    BY DEF QuietCurrent
  <2>1. h # g
    BY <1>2, <1>3
  <2>2. \A q \in Request : ~(job[q].pc # "idle" /\ job[q].on = h)
    BY <1>1, <1>3
  <2>3. h \notin unsure
    BY <1>5
  <2>4. Current(h) /\ Kept(h)
    BY <2>1, <2>2, <2>3 DEF RemindersInv, QuietCurrent
  <2>5. RowsToCome(h, now)' = RowsToCome(h, now) /\ now' = now
    BY <1>1 DEF RowsToCome
  <2> QED BY <2>4, <2>5 DEF Current, Kept
<1> QED BY <1>7, <1>8, <1>9, <1>10, <1>11 DEF RemindersInv

(* A change of one starter leaves what the tables say of every other group. *)
LEMMA StarterEditReminders ==
  ASSUME TablesInv, RemindersInv, NEW r \in Request, StarterEdit(r)
  PROVE  RemindersInv'
<1>1. /\ \A s \in DOMAIN starters : s \in Starter /\ s \in born
      /\ \A f \in feedings : f.starter \in DOMAIN starters
      /\ \A b \in DOMAIN bakes : b \in Bake
      /\ Starter \cap Bake = {} /\ Starter \subseteq Group
  BY CrumbAssumption, TablesTypes DEF TablesInv, TablesOK
<1>2. ASSUME NEW s, UNCHANGED bakes,
             \A h : h # s => /\ h \in DOMAIN starters' <=> h \in DOMAIN starters
                             /\ h \in DOMAIN starters => starters'[h] = starters[h],
             \A f : f.starter # s => (f \in feedings' <=> f \in feedings)
      PROVE  \A h \in Group : h # s => Kept(h)
  <2> SUFFICES ASSUME NEW h \in Group, h # s PROVE Kept(h)
    OBVIOUS
  <2>1. FeedingsOf(h)' = FeedingsOf(h)
    BY <1>2 DEF FeedingsOf
  <2> QED BY <1>2, <2>1, ImpliedKept
<1>3. CASE NewStarter(r)
  <2>1. PICK s \in Starter \ born, where \in Location :
          LET starter == [location |-> where, since |-> now, moved |-> FALSE]
          IN /\ born' = born \cup {s}
             /\ starters' = Put(starters, s, starter)
             /\ EditThenPlan(r, s, StarterPlan(starter, {}))
             /\ UNCHANGED <<feedings, bakes, strain>>
    BY <1>3 DEF NewStarter
  <2>2. PICK starter : starter = [location |-> where, since |-> now, moved |-> FALSE]
    OBVIOUS
  <2>3. starters' = Put(starters, s, starter) /\ Edit(r, s, "plan", NoStarter, StarterPlan(starter, {}))
        /\ UNCHANGED <<feedings, bakes>>
    BY <2>1, <2>2 DEF EditThenPlan
  <2>4. s \in DOMAIN starters' /\ starters'[s] = starter
        /\ \A h : h # s => /\ h \in DOMAIN starters' <=> h \in DOMAIN starters
                           /\ h \in DOMAIN starters => starters'[h] = starters[h]
    BY <2>3 DEF Put
  <2>5. \A h \in Group : h # s => Kept(h)
    BY <2>3, <2>4, <1>2
  <2>6. FeedingsOf(s)' = {}
    BY <2>1, <1>1 DEF FeedingsOf
  <2>7. StarterPlan(starter, {}) = Implied(s)'
    <3>1. s \notin DOMAIN bakes'
      BY <2>1, <1>1
    <3>2. Implied(s)' = StarterPlan(starters'[s], FeedingsOf(s)')
      BY <2>4, <3>1 DEF Implied
    <3> QED BY <3>2, <2>4, <2>6, Zenon
  <2>8. s \in Group
    BY <2>1, <1>1
  <2> QED BY <2>3, <2>5, <2>7, <2>8, EditReminders
<1>4. CASE PatchStarter(r)
  <2>1. PICK s \in DOMAIN starters, where \in Location :
          LET starter == IF where = starters[s].location THEN starters[s]
                         ELSE [location |-> where, since |-> now, moved |-> TRUE]
          IN /\ starters' = [starters EXCEPT ![s] = starter]
             /\ Edit(r, s, "feeds", starter, None)
             /\ UNCHANGED <<feedings, bakes, born, strain>>
    BY <1>4 DEF PatchStarter
  <2>2. PICK starter : starter = IF where = starters[s].location THEN starters[s]
                                 ELSE [location |-> where, since |-> now, moved |-> TRUE]
    OBVIOUS
  <2>3. starters' = [starters EXCEPT ![s] = starter] /\ Edit(r, s, "feeds", starter, None)
        /\ UNCHANGED <<feedings, bakes>>
    BY <2>1, <2>2
  <2>4. s \in DOMAIN starters' /\ starters'[s] = starter
        /\ \A h : h # s => /\ h \in DOMAIN starters' <=> h \in DOMAIN starters
                           /\ h \in DOMAIN starters => starters'[h] = starters[h]
    BY <2>3
  <2>5. \A h \in Group : h # s => Kept(h)
    BY <2>3, <2>4, <1>2
  <2>6. s \in Group
    BY <1>1
  <2> QED BY <2>3, <2>4, <2>5, <2>6, EditReminders
<1>5. CASE DropStarter(r)
  <2>1. PICK s \in DOMAIN starters :
          /\ starters' = Without(starters, {s})
          /\ feedings' = feedings \ FeedingsOf(s)
          /\ EditThenPlan(r, s, None)
          /\ UNCHANGED <<bakes, born, strain>>
    BY <1>5 DEF DropStarter
  <2>2. s \notin DOMAIN starters'
        /\ \A h : h # s => /\ h \in DOMAIN starters' <=> h \in DOMAIN starters
                           /\ h \in DOMAIN starters => starters'[h] = starters[h]
    BY <2>1 DEF Without
  <2>3. \A f : f.starter # s => (f \in feedings' <=> f \in feedings)
    BY <2>1 DEF FeedingsOf
  <2>4. \A h \in Group : h # s => Kept(h)
    BY <2>1, <2>2, <2>3, <1>2
  <2>5. s \notin DOMAIN bakes'
    BY <2>1, <1>1
  <2>6. None = Implied(s)'
    BY <2>2, <2>5 DEF Implied
  <2>7. s \in Group /\ Edit(r, s, "plan", NoStarter, None)
    BY <2>1, <1>1 DEF EditThenPlan
  <2> QED BY <2>4, <2>6, <2>7, EditReminders
<1>6. ASSUME NEW s \in DOMAIN starters, EditThenRead(r, s), UNCHANGED <<starters, bakes>>,
             \A f : f.starter # s => (f \in feedings' <=> f \in feedings)
      PROVE  RemindersInv'
  <2>1. \A h \in Group : h # s => Kept(h)
    BY <1>6, <1>2
  <2>2. s \in Group /\ Edit(r, s, "record", NoStarter, None) /\ s \in DOMAIN starters'
    BY <1>1, <1>6 DEF EditThenRead
  <2> QED BY <2>1, <2>2, EditReminders
<1>7. CASE NewFeeding(r)
  <2>1. PICK s \in DOMAIN starters, ago \in {0, 1}, remind \in BOOLEAN :
          /\ feedings' = feedings \cup {[id |-> edits, starter |-> s, fedAt |-> now - ago,
                                         remind |-> remind, peaked |-> FALSE]}
          /\ EditThenRead(r, s)
          /\ UNCHANGED <<starters, bakes, born, strain>>
    BY <1>7 DEF NewFeeding
  <2>2. \A f : f.starter # s => (f \in feedings' <=> f \in feedings)
    BY <2>1
  <2> QED BY <2>1, <2>2, <1>6
<1>8. CASE PatchFeeding(r)
  <2>1. PICK f \in feedings, peaked \in BOOLEAN :
          /\ feedings' = (feedings \ {f}) \cup {[f EXCEPT !.peaked = peaked]}
          /\ EditThenRead(r, f.starter)
          /\ UNCHANGED <<starters, bakes, born, strain>>
    BY <1>8 DEF PatchFeeding
  <2>2. PICK new : new = [f EXCEPT !.peaked = peaked]
    OBVIOUS
  <2>3. new.starter = f.starter
    <3>1. f \in FeedingRow
      BY DEF TablesInv, TablesOK, Fed
    <3> QED BY <2>2, <3>1 DEF FeedingRow
  <2>4. \A x : x.starter # f.starter => (x \in feedings' <=> x \in feedings)
    BY <2>1, <2>2, <2>3
  <2> QED BY <2>1, <2>4, <1>1, <1>6
<1>9. CASE DropFeeding(r)
  <2>1. PICK f \in feedings :
          /\ feedings' = feedings \ {f}
          /\ EditThenRead(r, f.starter)
          /\ UNCHANGED <<starters, bakes, born, strain>>
    BY <1>9 DEF DropFeeding
  <2>2. \A x : x.starter # f.starter => (x \in feedings' <=> x \in feedings)
    BY <2>1
  <2> QED BY <2>1, <2>2, <1>1, <1>6
<1> QED BY <1>3, <1>4, <1>5, <1>7, <1>8, <1>9 DEF StarterEdit

LEMMA BakeEditReminders ==
  ASSUME TablesInv, RemindersInv, NEW r \in Request, BakeEdit(r)
  PROVE  RemindersInv'
<1>1. /\ \A s \in DOMAIN starters : s \in Starter
      /\ \A b \in DOMAIN bakes : b \in Bake
      /\ Starter \cap Bake = {} /\ Bake \subseteq Group
  BY CrumbAssumption, TablesTypes DEF TablesInv, TablesOK
<1>2. ASSUME NEW b \in Bake, NEW plan, EditThenPlan(r, b, plan), UNCHANGED <<starters, feedings>>,
             \A h : h # b => /\ h \in DOMAIN bakes' <=> h \in DOMAIN bakes
                             /\ h \in DOMAIN bakes => bakes'[h] = bakes[h],
             plan = IF b \in DOMAIN bakes' THEN BakeReminders(bakes'[b]) ELSE None
      PROVE  RemindersInv'
  <2>1. \A h : FeedingsOf(h)' = FeedingsOf(h)
    BY <1>2 DEF FeedingsOf
  <2>2. \A h \in Group : h # b => Kept(h)
    BY <1>2, <2>1, ImpliedKept
  <2>3. b \in Group /\ b \notin DOMAIN starters'
    BY <1>1, <1>2
  <2>4. plan = Implied(b)'
    BY <1>2, <2>3 DEF Implied
  <2>5. Edit(r, b, "plan", NoStarter, plan)
    BY <1>2 DEF EditThenPlan
  <2> QED BY <2>2, <2>3, <2>4, <2>5, EditReminders
<1>3. ASSUME NEW b \in DOMAIN bakes, NEW bake, SaveBake(r, b, bake)
      PROVE  RemindersInv'
  <2>1. bakes' = [bakes EXCEPT ![b] = bake] /\ EditThenPlan(r, b, BakeReminders(bake)) /\ UNCHANGED <<starters, feedings>>
    BY <1>3 DEF SaveBake
  <2>2. b \in Bake /\ b \in DOMAIN bakes' /\ bakes'[b] = bake
    BY <2>1, <1>1
  <2>3. \A h : h # b => /\ h \in DOMAIN bakes' <=> h \in DOMAIN bakes
                        /\ h \in DOMAIN bakes => bakes'[h] = bakes[h]
    BY <2>1
  <2> QED BY <2>1, <2>2, <2>3, <1>2
<1>4. CASE NewBake(r)
  <2>1. PICK b, bake :
             /\ b \in Bake
             /\ bakes' = Put(bakes, b, bake)
             /\ EditThenPlan(r, b, BakeReminders(bake))
             /\ UNCHANGED <<starters, feedings>>
    <3>1. PICK b \in Bake \ born, recipe \in Recipe, ahead \in ReadyIn :
            LET bake == [status |-> "active", steps |-> PlanBake(recipe, now + ahead)]
            IN /\ born' = born \cup {b}
               /\ bakes' = Put(bakes, b, bake)
               /\ EditThenPlan(r, b, BakeReminders(bake))
               /\ UNCHANGED <<starters, feedings, strain>>
      BY <1>4 DEF NewBake
    <3> QED BY <3>1
  <2>2. b \in DOMAIN bakes' /\ bakes'[b] = bake
        /\ \A h : h # b => /\ h \in DOMAIN bakes' <=> h \in DOMAIN bakes
                           /\ h \in DOMAIN bakes => bakes'[h] = bakes[h]
    BY <2>1 DEF Put
  <2> QED BY <2>1, <2>2, <1>2
<1>5. CASE DropBake(r)
  <2>1. PICK b \in DOMAIN bakes :
          /\ bakes' = Without(bakes, {b})
          /\ EditThenPlan(r, b, None)
          /\ UNCHANGED <<starters, feedings>>
    BY <1>5 DEF DropBake
  <2>2. b \notin DOMAIN bakes' /\ b \in Bake
        /\ \A h : h # b => /\ h \in DOMAIN bakes' <=> h \in DOMAIN bakes
                           /\ h \in DOMAIN bakes => bakes'[h] = bakes[h]
    BY <2>1, <1>1 DEF Without
  <2> QED BY <2>1, <2>2, <1>2
<1>6. CASE PatchBake(r)
  BY <1>6, <1>3 DEF PatchBake
<1>7. CASE StepDone(r)
  BY <1>7, <1>3 DEF StepDone, ChangeSteps
<1>8. CASE StepFold(r)
  BY <1>8, <1>3 DEF StepFold, ChangeSteps
<1>9. CASE Shift(r)
  BY <1>9, <1>3 DEF Shift, ChangeSteps
<1> QED BY <1>4, <1>5, <1>6, <1>7, <1>8, <1>9 DEF BakeEdit

-----------------------------------------------------------------------------
(* A request goes on with its group's tables and rows as they were.         *)
LEMMA GotoReminders ==
  ASSUME TablesInv, RemindersInv, NEW r \in Request, NEW pc, pc # "idle", NEW starter, NEW put, NEW saw, job[r].pc # "idle",
         Goto(r, pc, starter, put, saw), \A id \in saw : id[1] = job[r].on,
         NEW row, row = [pc |-> pc, on |-> job[r].on, starter |-> starter, put |-> put, saw |-> saw],
         r \in alone => Sound(row),
         UNCHANGED <<now, tables, rows, alone, unsure>>
  PROVE  RemindersInv'
<1>1. job' = [job EXCEPT ![r] = row] /\ row.pc # "idle" /\ row.on = job[r].on /\ row.saw = saw
  BY DEF Goto
<1>2. job'[r] = row /\ \A q \in Request : q # r => job'[q] = job[q]
  BY <1>1 DEF TablesInv, JobsOK
<1>3. \A q \in Request : /\ job'[q].on = job[q].on
                         /\ job'[q].pc # "idle" <=> job[q].pc # "idle"
  BY <1>1, <1>2
<1>4. AloneSound'
  <2> SUFFICES ASSUME NEW s \in alone PROVE job'[s].pc # "idle" /\ Sound(job[s])'
    BY DEF RemindersInv, AloneSound
  <2>1. s \in Request /\ job'[s].pc # "idle"
    BY <1>3 DEF RemindersInv, AloneSound
  <2>2. \A h : Implied(h)' = Implied(h) /\ RowsOf(h)' = RowsOf(h)
    BY DEF Implied, FeedingsOf, RowsOf, tables
  <2>3. PICK j : j = job'[s]
    OBVIOUS
  <2>4. Sound(j)
    <3>1. CASE s = r
      BY <3>1, <2>3, <1>2
    <3>2. CASE s # r
      BY <2>1, <3>2, <2>3, <1>2 DEF RemindersInv, AloneSound
    <3> QED BY <3>1, <3>2
  <2> QED BY <2>1, <2>2, <2>3, <2>4 DEF Sound, tables
<1>5. AloneIsAlone' /\ MetUnsure'
  BY <1>3 DEF RemindersInv, AloneIsAlone, AloneSound, MetUnsure
<1>6. SawOwn'
  BY <1>1, <1>2 DEF RemindersInv, SawOwn
<1>7. QuietCurrent'
  <2> SUFFICES ASSUME NEW h \in Group, \A q \in Request : ~(job'[q].pc # "idle" /\ job'[q].on = h), h \notin unsure
               PROVE  Current(h)'
    BY DEF QuietCurrent
  <2>1. Current(h)
    BY <1>3 DEF RemindersInv, QuietCurrent
  <2> QED BY <2>1 DEF Current, RowsToCome, Implied, FeedingsOf, tables
<1> QED BY <1>4, <1>5, <1>6, <1>7 DEF RemindersInv

(* Only r ends; of the others, those of its group may lose rows they saw.   *)
Leaves(r) ==
  /\ job'[r].pc = "idle" /\ job'[r].saw = {}
  /\ \A q \in Request : q # r =>
       /\ job'[q].pc = job[q].pc /\ job'[q].on = job[q].on
       /\ job'[q].starter = job[q].starter /\ job'[q].put = job[q].put
       /\ job'[q].saw \subseteq job[q].saw
       /\ job[q].on # job[r].on => job'[q].saw = job[q].saw

LEMMA RestLeaves ==
  ASSUME TablesInv, NEW r \in Request, job' = [job EXCEPT ![r] = Resting]
  PROVE  Leaves(r)
<1>1. job'[r] = Resting /\ \A q \in Request : q # r => job'[q] = job[q]
  BY DEF TablesInv, JobsOK
<1> QED BY <1>1 DEF Leaves, Resting

LEMMA SkipLeaves ==
  ASSUME TablesInv, RemindersInv, NEW r \in Request, Skip(r)
  PROVE  Leaves(r)
<1>1. DOMAIN job = Request /\ \A q \in Request : DOMAIN job[q] = JobFields
  BY DEF TablesInv, JobsOK, JobOK
<1>2. job'[r].pc = "idle" /\ job'[r].saw = {}
  <2>1. job'[r] = Resting
    BY <1>1, SkipJobs
  <2> QED BY <2>1 DEF Resting
<1>3. ASSUME NEW q \in Request, q # r
      PROVE  /\ job'[q].pc = job[q].pc /\ job'[q].on = job[q].on
             /\ job'[q].starter = job[q].starter /\ job'[q].put = job[q].put
             /\ job'[q].saw = job[q].saw \ job[r].saw
  BY <1>1, <1>3, SkipJobs
<1>4. ASSUME NEW q \in Request, q # r, job[q].on # job[r].on PROVE job[q].saw \ job[r].saw = job[q].saw
  <2>1. \A id \in job[q].saw : id \notin job[r].saw
    BY <1>4 DEF RemindersInv, SawOwn
  <2> QED BY <2>1
<1> QED BY <1>2, <1>3, <1>4 DEF Leaves

(* A request ends: the rows of other groups stay, and its own are current   *)
(* or known not to be.                                                      *)
LEMMA LeaveReminders ==
  ASSUME TablesInv, RemindersInv, NEW r \in Request, NEW g, g = job[r].on, job[r].pc # "idle", Leaves(r),
         alone' = alone \ {r}, UNCHANGED <<now, tables>>,
         \A h : h # g => (h \in unsure' <=> h \in unsure) /\ RowsOf(h)' = RowsOf(h),
         \A h : h # g => \A id \in RowsOf(h) : rows'[id].due = rows[id].due,
         g \in unsure' \/ (r \in alone /\ Current(g)')
  PROVE  RemindersInv'
<1>1. /\ job'[r].pc = "idle" /\ job'[r].saw = {}
      /\ \A q \in Request : q # r => /\ job'[q].pc = job[q].pc /\ job'[q].on = job[q].on
                                     /\ job'[q].saw \subseteq job[q].saw
  BY DEF Leaves
<1>4. ASSUME NEW s \in alone'
      PROVE  s \in alone /\ s \in Request /\ s # r /\ job[s].pc # "idle" /\ job[s].on # g
  <2>1. s \in alone /\ s \in Request /\ s # r /\ job[s].pc # "idle"
    BY <1>4 DEF RemindersInv, AloneSound
  <2> QED BY <2>1, <1>1 DEF RemindersInv, AloneIsAlone
<1>5. \A h : Implied(h)' = Implied(h)
  BY DEF Implied, FeedingsOf, tables
<1>6. \A h : h # g => RowsToCome(h, now)' = RowsToCome(h, now)
  <2> SUFFICES ASSUME NEW h, h # g PROVE RowsToCome(h, now)' = RowsToCome(h, now)
    OBVIOUS
  <2>1. RowsOf(h)' = RowsOf(h) /\ \A id \in RowsOf(h) : rows'[id].due = rows[id].due
    OBVIOUS
  <2>2. \A id : id \in DOMAIN rows' /\ id[1] = h <=> id \in DOMAIN rows /\ id[1] = h
    BY <2>1 DEF RowsOf
  <2>3. \A id : id \in DOMAIN rows /\ id[1] = h => rows'[id].due = rows[id].due
    BY <2>1 DEF RowsOf
  <2> QED BY <2>2, <2>3 DEF RowsToCome
<1>7. AloneSound'
  <2> SUFFICES ASSUME NEW s \in alone' PROVE s \in Request /\ job'[s].pc # "idle" /\ Sound(job[s])'
    BY DEF AloneSound
  <2>1. s \in Request /\ s # r /\ job[s].on # g /\ Sound(job[s]) /\ job[s].pc # "idle"
    BY <1>4 DEF RemindersInv, AloneSound
  <2>2. PICK h : h = job[s].on
    OBVIOUS
  <2>3. RowsOf(h)' = RowsOf(h) /\ Implied(h)' = Implied(h)
    BY <2>1, <2>2, <1>5
  <2>4. /\ job'[s].pc = job[s].pc /\ job'[s].on = h /\ job'[s].starter = job[s].starter
        /\ job'[s].put = job[s].put /\ job'[s].saw = job[s].saw
    BY <2>1, <2>2 DEF Leaves
  <2> QED BY <2>1, <2>2, <2>3, <2>4 DEF Sound, tables
<1>8. AloneIsAlone'
  BY <1>1, <1>4 DEF RemindersInv, AloneIsAlone
<1>9. SawOwn'
  BY <1>1 DEF RemindersInv, SawOwn
<1>10. MetUnsure'
  <2> SUFFICES ASSUME NEW q \in Request, job'[q].pc # "idle", q \notin alone' PROVE job'[q].on \in unsure'
    BY DEF MetUnsure
  <2>1. q # r /\ job'[q].on = job[q].on /\ job[q].pc # "idle" /\ q \notin alone
    BY <1>1
  <2>2. job[q].on \in unsure
    BY <2>1 DEF RemindersInv, MetUnsure
  <2>3. CASE job[q].on # g
    BY <2>1, <2>2, <2>3
  <2>4. CASE job[q].on = g
    <3>1. r \notin alone
      BY <2>1, <2>4 DEF RemindersInv, AloneIsAlone
    <3> QED BY <3>1, <2>1, <2>4
  <2> QED BY <2>3, <2>4
<1>11. QuietCurrent'
  <2> SUFFICES ASSUME NEW h \in Group, \A q \in Request : ~(job'[q].pc # "idle" /\ job'[q].on = h), h \notin unsure'
               PROVE  Current(h)'
    BY DEF QuietCurrent
  <2>1. CASE h = g
    BY <2>1
  <2>2. CASE h # g
    <3>1. h \notin unsure
      BY <2>2
    <3>2. \A q \in Request : ~(job[q].pc # "idle" /\ job[q].on = h)
      BY <2>2, <1>1
    <3>3. Current(h)
      BY <3>1, <3>2 DEF RemindersInv, QuietCurrent
    <3> QED BY <3>3, <2>2, <1>5, <1>6 DEF Current
  <2> QED BY <2>1, <2>2
<1> QED BY <1>7, <1>8, <1>9, <1>10, <1>11 DEF RemindersInv

LEMMA ReadsReminders ==
  ASSUME TablesInv, RemindersInv, NEW r \in Request, ReadRecord(r) \/ ReadFeedings(r)
  PROVE  RemindersInv'
<1>1. r \in alone => Sound(job[r])
  BY DEF RemindersInv, AloneSound
<1>2. PICK g : g = job[r].on
  OBVIOUS
<1>3. CASE ReadRecord(r)
  <2>1. job[r].pc = "record" /\ UNCHANGED <<now, tables, rows>>
    BY <1>3 DEF ReadRecord
  <2>2. CASE g \in DOMAIN starters
    <3>1. Goto(r, "feeds", starters[g], None, {}) /\ UNCHANGED <<alone, unsure>>
      BY <2>2, <1>2, <1>3 DEF ReadRecord
    <3>2. PICK row : row = [pc |-> "feeds", on |-> job[r].on, starter |-> starters[g], put |-> None, saw |-> {}]
      OBVIOUS
    <3>3. Sound(row)
      BY <3>2, <2>2, <1>2 DEF Sound
    <3> QED BY <2>1, <3>1, <3>2, <3>3, GotoReminders
  <2>3. CASE g \notin DOMAIN starters
    <3>1. r \notin alone
      BY <2>1, <2>3, <1>1, <1>2 DEF Sound
    <3>2. Leaves(r) /\ alone' = alone \ {r} /\ unsure' = unsure
      BY <3>1, <2>3, <1>2, <1>3, RestLeaves DEF ReadRecord, Finish, Ends
    <3>3. g \in unsure'
      BY <3>1, <3>2, <2>1, <1>2 DEF RemindersInv, MetUnsure
    <3>4. \A h : RowsOf(h)' = RowsOf(h) /\ \A id \in RowsOf(h) : rows'[id].due = rows[id].due
      BY <2>1 DEF RowsOf
    <3> QED BY <2>1, <3>2, <3>3, <3>4, <1>2, LeaveReminders
  <2> QED BY <2>2, <2>3
<1>4. CASE ReadFeedings(r)
  <2>1. job[r].pc = "feeds" /\ UNCHANGED <<now, tables, rows, alone, unsure>>
    BY <1>4 DEF ReadFeedings
  <2>2. PICK put : put = StarterPlan(job[r].starter, FeedingsOf(job[r].on))
    OBVIOUS
  <2>3. Goto(r, "plan", NoStarter, put, {})
    BY <2>2, <1>4 DEF ReadFeedings
  <2>4. PICK row : row = [pc |-> "plan", on |-> job[r].on, starter |-> NoStarter, put |-> put, saw |-> {}]
    OBVIOUS
  <2>5. r \in alone => Sound(row)
    <3> SUFFICES ASSUME r \in alone PROVE Sound(row)
      OBVIOUS
    <3>1. g \in DOMAIN starters /\ job[r].starter = starters[g]
      BY <2>1, <1>1, <1>2 DEF Sound
    <3>2. g \notin DOMAIN bakes
      BY <3>1, CrumbAssumption DEF TablesInv, TablesOK
    <3>3. Implied(g) = StarterPlan(starters[g], FeedingsOf(g))
      BY <3>1, <3>2 DEF Implied
    <3>4. put = Implied(g)
      BY <2>2, <3>1, <3>3, <1>2
    <3> QED BY <2>4, <3>4, <1>2 DEF Sound
  <2> QED BY <2>1, <2>3, <2>4, <2>5, GotoReminders
<1> QED BY <1>3, <1>4

LEMMA ReplaceReminders ==
  ASSUME TablesInv, RemindersInv, NEW r \in Request, Plan(r) \/ DeleteRows(r)
  PROVE  RemindersInv'
<1>1. r \in alone => Sound(job[r])
  BY DEF RemindersInv, AloneSound
<1>2. PICK g : g = job[r].on
  OBVIOUS
<1>3. CASE Plan(r)
  <2>1. job[r].pc = "plan" /\ UNCHANGED <<now, tables, rows, alone, unsure>>
    BY <1>3 DEF Plan
  <2>2. PICK put, saw : put = Upcoming(job[r].put, now) /\ saw = RowsOf(g)
    OBVIOUS
  <2>3. Goto(r, "delete", NoStarter, put, saw) /\ \A id \in saw : id[1] = g
    BY <2>2, <1>2, <1>3 DEF Plan, RowsOf
  <2>4. PICK row : row = [pc |-> "delete", on |-> job[r].on, starter |-> NoStarter, put |-> put, saw |-> saw]
    OBVIOUS
  <2>5. ToCome(put, now) = ToCome(job[r].put, now)
    BY <2>2 DEF ToCome, Upcoming
  <2>6. r \in alone => Sound(row)
    <3> SUFFICES ASSUME r \in alone PROVE Sound(row)
      OBVIOUS
    <3>1. job[r].put = Implied(g)
      BY <2>1, <1>1, <1>2 DEF Sound
    <3> QED BY <2>2, <2>4, <2>5, <3>1, <1>2 DEF Sound
  <2> QED BY <2>1, <2>3, <2>4, <2>6, <1>2, GotoReminders
<1>4. CASE DeleteRows(r)
  <2>1. job[r].pc = "delete" /\ UNCHANGED <<now, tables, rows, alone, unsure>>
    BY <1>4 DEF DeleteRows
  <2>2. PICK put, saw : put = job[r].put /\ saw = job[r].saw
    OBVIOUS
  <2>3. Goto(r, "insert", NoStarter, put, saw)
    BY <2>2, <1>4 DEF DeleteRows
  <2>4. \A id \in saw : id[1] = job[r].on
    BY <2>2 DEF RemindersInv, SawOwn
  <2>5. PICK row : row = [pc |-> "insert", on |-> job[r].on, starter |-> NoStarter, put |-> put, saw |-> saw]
    OBVIOUS
  <2>6. r \in alone => Sound(row)
    <3> SUFFICES ASSUME r \in alone PROVE Sound(row)
      OBVIOUS
    <3>1. ToCome(put, now) = ToCome(Implied(g), now) /\ saw = RowsOf(g)
      BY <2>1, <2>2, <1>1, <1>2 DEF Sound
    <3> QED BY <2>5, <3>1, <1>2 DEF Sound
  <2> QED BY <2>1, <2>3, <2>4, <2>5, <2>6, GotoReminders
<1> QED BY <1>3, <1>4

(* What a request alone stores is all its group then has.                   *)
LEMMA InsertReminders ==
  ASSUME TablesInv, RemindersInv, NEW r \in Request, InsertRows(r)
  PROVE  RemindersInv'
<1>1. PICK g : g = job[r].on
  OBVIOUS
<1>2. PICK put : put = job[r].put
  OBVIOUS
<1> DEFINE ids == {<<g, k>> : k \in DOMAIN put}
<1>3. /\ job[r].pc = "insert" /\ UNCHANGED <<now, tables>>
      /\ rows' = [id \in (DOMAIN rows \ job[r].saw) \cup ids |->
                    IF id \in ids THEN [due |-> put[id[2]], sent |-> FALSE] ELSE rows[id]]
      /\ Leaves(r)
      /\ alone' = alone \ {r}
      /\ unsure' = IF r \in alone THEN unsure \ {g} ELSE unsure
  BY <1>1, <1>2, SkipLeaves DEF InsertRows, Ends
<1>4. /\ \A id \in ids : id[1] = g
      /\ \A id \in ids : \E k \in DOMAIN put : id = <<g, k>>
      /\ \A k \in DOMAIN put : <<g, k>> \in ids
  OBVIOUS
<1>5. \A id \in job[r].saw : id[1] = g
  BY <1>1 DEF RemindersInv, SawOwn
<1> HIDE DEF ids
<1>6. /\ \A id \in DOMAIN rows' : id \in ids \/ (id \in DOMAIN rows /\ id \notin job[r].saw)
      /\ \A id \in DOMAIN rows : id \notin job[r].saw => id \in DOMAIN rows'
      /\ \A id \in ids : id \in DOMAIN rows' /\ rows'[id].due = put[id[2]]
      /\ \A id \in DOMAIN rows' : id \notin ids => rows'[id] = rows[id]
  BY <1>3
<1>7. ASSUME NEW h, h # g
      PROVE  (h \in unsure' <=> h \in unsure) /\ RowsOf(h)' = RowsOf(h) /\ \A id \in RowsOf(h) : rows'[id].due = rows[id].due
  <2>1. \A id : id[1] = h => id \notin ids /\ id \notin job[r].saw
    BY <1>4, <1>5, <1>7
  <2>2. \A id : id[1] = h => (id \in DOMAIN rows' <=> id \in DOMAIN rows)
    BY <2>1, <1>6
  <2>3. \A id : id \in DOMAIN rows /\ id[1] = h => rows'[id].due = rows[id].due
    BY <2>1, <2>2, <1>6
  <2>4. h \in unsure' <=> h \in unsure
    BY <1>3, <1>7
  <2> QED BY <2>2, <2>3, <2>4 DEF RowsOf
<1>8. CASE r \notin alone
  <2>1. g \in unsure'
    BY <1>1, <1>3, <1>8 DEF RemindersInv, MetUnsure
  <2> QED BY <2>1, <1>1, <1>3, <1>7, LeaveReminders
<1>9. CASE r \in alone
  <2>1. ToCome(put, now) = ToCome(Implied(g), now) /\ job[r].saw = RowsOf(g)
    BY <1>1, <1>2, <1>3, <1>9 DEF RemindersInv, AloneSound, Sound
  <2>2. \A id : id \in DOMAIN rows' /\ id[1] = g <=> id \in ids
    BY <2>1, <1>4, <1>6 DEF RowsOf
  <2>3. RowsToCome(g, now)' = ToCome(put, now)
    <3>1. ASSUME NEW x \in RowsToCome(g, now)' PROVE x \in ToCome(put, now)
      <4>1. PICK id \in DOMAIN rows' : id[1] = g /\ rows'[id].due > now /\ x = <<id[2], rows'[id].due>>
        BY <3>1, <1>3 DEF RowsToCome
      <4>2. PICK k \in DOMAIN put : id = <<g, k>>
        BY <4>1, <2>2, <1>4
      <4>3. rows'[id].due = put[k] /\ x = <<k, put[k]>>
        BY <4>1, <4>2, <2>2, <1>6
      <4> QED BY <4>1, <4>3 DEF ToCome
    <3>2. ASSUME NEW x \in ToCome(put, now) PROVE x \in RowsToCome(g, now)'
      <4>1. PICK k \in DOMAIN put : put[k] > now /\ x = <<k, put[k]>>
        BY <3>2 DEF ToCome
      <4>2. PICK id : id = <<g, k>>
        OBVIOUS
      <4>3. id \in ids /\ id[1] = g /\ id[2] = k
        BY <4>2, <1>4
      <4>4. id \in DOMAIN rows' /\ rows'[id].due = put[k]
        BY <4>3, <1>6
      <4> QED BY <4>1, <4>3, <4>4, <1>3 DEF RowsToCome
    <3> QED BY <3>1, <3>2
  <2>4. Implied(g)' = Implied(g)
    BY <1>3 DEF Implied, FeedingsOf, tables
  <2>5. Current(g)'
    BY <2>1, <2>3, <2>4, <1>3 DEF Current
  <2> QED BY <2>5, <1>1, <1>3, <1>7, <1>9, LeaveReminders
<1> QED BY <1>8, <1>9

LEMMA FailReminders ==
  ASSUME TablesInv, RemindersInv, NEW r \in Request, Fail(r)
  PROVE  RemindersInv'
<1>1. PICK g : g = job[r].on
  OBVIOUS
<1>2. /\ job[r].pc # "idle" /\ Leaves(r)
      /\ alone' = alone \ {r} /\ unsure' = unsure \cup {g} /\ UNCHANGED <<now, tables, rows>>
  BY <1>1, RestLeaves DEF Fail
<1>3. \A h : RowsOf(h)' = RowsOf(h) /\ \A id \in RowsOf(h) : rows'[id].due = rows[id].due
  BY <1>2 DEF RowsOf
<1> QED BY <1>1, <1>2, <1>3, LeaveReminders

-----------------------------------------------------------------------------
LEMMA ImpliedTimes ==
  ASSUME TablesInv, NEW g
  PROVE  Times(Implied(g))
<1>1. CASE g \in DOMAIN starters
  <2>1. g \notin DOMAIN bakes /\ starters[g] \in StarterRow
    BY <1>1, CrumbAssumption DEF TablesInv, TablesOK
  <2>2. Fed(FeedingsOf(g))
    BY DEF TablesInv, TablesOK, Fed, FeedingsOf
  <2>3. Times(StarterPlan(starters[g], FeedingsOf(g)))
    BY <2>1, <2>2, TablesTypes, StarterPlanTimes
  <2>4. Implied(g) = StarterPlan(starters[g], FeedingsOf(g))
    BY <1>1, <2>1 DEF Implied
  <2> QED BY <2>3, <2>4
<1>2. CASE g \notin DOMAIN starters /\ g \in DOMAIN bakes
  <2>1. IsPlan(bakes[g].steps)
    BY <1>2 DEF TablesInv, BakesOK, BakeOK
  <2>2. Implied(g) = BakeReminders(bakes[g])
    BY <1>2 DEF Implied
  <2> QED BY <2>1, <2>2, BakeRemindersTimes
<1>3. CASE g \notin DOMAIN starters /\ g \notin DOMAIN bakes
  BY <1>3 DEF Implied, Times, None
<1> QED BY <1>1, <1>2, <1>3

(* What is to come later is what is to come, but what falls due meanwhile.  *)
LEMMA LaterToCome ==
  ASSUME NEW plan, Times(plan), NEW t \in Int, NEW u \in Int, t <= u
  PROVE  ToCome(plan, u) = {x \in ToCome(plan, t) : x[2] > u}
<1>1. \A k \in DOMAIN plan : plan[k] > u => plan[k] > t
  BY DEF Times
<1> QED BY <1>1 DEF ToCome

(* Time passes, or a claim marks rows: due times stay.                      *)
LEMMA DuesKeptReminders ==
  ASSUME TablesInv, RemindersInv, now' \in Int, now <= now',
         DOMAIN rows' = DOMAIN rows, \A id \in DOMAIN rows : rows'[id].due = rows[id].due,
         UNCHANGED <<tables, job, alone, unsure>>
  PROVE  RemindersInv'
<1>1. now \in Int
  BY TablesTypes
<1>2. \A g : Implied(g)' = Implied(g) /\ RowsOf(g)' = RowsOf(g)
  BY DEF Implied, FeedingsOf, RowsOf, tables
<1>3. PICK u \in Int : u = now' /\ now <= u
  OBVIOUS
<1>4. \A g : ToCome(Implied(g), u) = {x \in ToCome(Implied(g), now) : x[2] > u}
  BY <1>1, <1>3, ImpliedTimes, LaterToCome
<1>5. AloneSound'
  <2> SUFFICES ASSUME NEW s \in alone PROVE Sound(job[s])'
    BY DEF RemindersInv, AloneSound
  <2>1. Sound(job[s]) /\ s \in Request
    BY DEF RemindersInv, AloneSound
  <2>2. Times(job[s].put)
    BY <2>1 DEF TablesInv, JobsOK, JobOK
  <2>3. PICK j : j = job[s]
    OBVIOUS
  <2>4. ToCome(j.put, u) = {x \in ToCome(j.put, now) : x[2] > u}
    BY <2>2, <2>3, <1>1, <1>3, LaterToCome
  <2>5. PICK h : h = j.on
    OBVIOUS
  <2>6. ToCome(Implied(h), u) = {x \in ToCome(Implied(h), now) : x[2] > u}
    BY <1>4
  <2>7. Implied(h)' = Implied(h) /\ RowsOf(h)' = RowsOf(h)
    BY <1>2
  <2>8. j.pc \in {"delete", "insert"} => ToCome(j.put, u) = ToCome(Implied(h), u) /\ j.saw = RowsOf(h)
    BY <2>1, <2>3, <2>4, <2>5, <2>6 DEF Sound
  <2> QED BY <2>1, <2>3, <2>5, <2>7, <2>8, <1>3 DEF Sound, tables
<1>6. AloneIsAlone' /\ SawOwn' /\ MetUnsure'
  BY DEF RemindersInv, AloneIsAlone, SawOwn, MetUnsure
<1>7. QuietCurrent'
  <2> SUFFICES ASSUME NEW g \in Group, Current(g) PROVE Current(g)'
    BY DEF RemindersInv, QuietCurrent
  <2>1. RowsToCome(g, now) = ToCome(Implied(g), now)
    BY DEF Current
  <2>2. RowsToCome(g, u)' = {x \in RowsToCome(g, now) : x[2] > u}
    <3>1. \A id \in DOMAIN rows : rows[id].due \in Int
      BY DEF TablesInv, RowsOK
    <3>2. \A id \in DOMAIN rows : rows'[id].due = rows[id].due /\ (rows[id].due > u => rows[id].due > now)
      BY <3>1, <1>1, <1>3
    <3> QED BY <3>2 DEF RowsToCome
  <2>3. RowsToCome(g, u)' = ToCome(Implied(g), u)
    BY <2>1, <2>2, <1>4
  <2> QED BY <2>3, <1>2, <1>3 DEF Current
<1> QED BY <1>5, <1>6, <1>7 DEF RemindersInv

LEMMA NextReminders ==
  ASSUME TablesInv, RemindersInv, [Next]_vars
  PROVE  RemindersInv'
<1>0. now \in Int
  BY TablesTypes
<1>1. CASE UNCHANGED vars
  BY <1>1, <1>0, DuesKeptReminders DEF vars
<1>2. ASSUME NEW r \in Request, StarterEdit(r) \/ BakeEdit(r) \/ GoOn(r) \/ Fail(r)
      PROVE  RemindersInv'
  BY <1>2, StarterEditReminders, BakeEditReminders, FailReminders, ReadsReminders, ReplaceReminders, InsertReminders DEF GoOn
<1>3. ASSUME NEW d \in Dispatcher, ClaimDueReminders(d) \/ ListDevices(d) \/ Push(d) \/ StopDispatch(d)
      PROVE  RemindersInv'
  <2>1. UNCHANGED <<now, tables, job, alone, unsure>>
    BY <1>3 DEF ClaimDueReminders, ListDevices, Push, StopDispatch
  <2>2. DOMAIN rows' = DOMAIN rows /\ \A id \in DOMAIN rows : rows'[id].due = rows[id].due
    <3>1. CASE ClaimDueReminders(d)
      BY <3>1 DEF ClaimDueReminders
    <3>2. CASE ListDevices(d) \/ Push(d) \/ StopDispatch(d)
      BY <3>2 DEF ListDevices, Push, StopDispatch
    <3> QED BY <1>3, <3>1, <3>2
  <2> QED BY <2>1, <2>2, <1>0, DuesKeptReminders
<1>4. CASE Subscribe \/ Unsubscribe \/ Tick
  <2>1. now' \in Int /\ now <= now' /\ UNCHANGED <<tables, rows, job, alone, unsure>>
    BY <1>0, <1>4 DEF Subscribe, Unsubscribe, Tick
  <2> QED BY <2>1, DuesKeptReminders
<1> QED BY <1>1, <1>2, <1>3, <1>4 DEF Next

(* Once nothing about a group is in flight, and its requests neither met    *)
(* nor failed since one ran alone, its reminders to come are those its      *)
(* starter or bake implies.                                                 *)
THEOREM AlwaysRemindersCurrent == Spec => []RemindersCurrent
<1>1. TablesInv /\ RemindersInv /\ [Next]_vars => RemindersInv'
  BY NextReminders
<1>2. RemindersInv => RemindersCurrent
  <2> SUFFICES ASSUME RemindersInv, NEW g \in Group, InFlight(g) = {}, g \notin unsure
               PROVE  RowsToCome(g, now) = ToCome(Implied(g), now)
    BY DEF RemindersCurrent, RowsToCome, ToCome
  <2>1. \A r \in Request : ~(job[r].pc # "idle" /\ job[r].on = g)
    BY DEF InFlight
  <2> QED BY <2>1 DEF RemindersInv, QuietCurrent, Current
<1> QED BY InitReminders, <1>1, <1>2, AlwaysTables, PTL DEF Spec

-----------------------------------------------------------------------------
(* Part 4: a reminder reaches a device once.                                *)

(* What is claimed to be pushed by d, and all that ever was.                *)
Holds(d) == dispatch[d].batch \cup {y[2] : y \in dispatch[d].todo}
Handed == (UNION {Holds(d) : d \in Dispatcher}) \cup {p[2] : p \in pushed}

Storing(r) == job[r].pc \in {"delete", "insert"}

DuesAreTimes ==
  /\ \A r \in Request : DOMAIN job[r] = JobFields
  /\ \A id \in DOMAIN rows : rows[id].due \in Int
  /\ \A r \in Request : \A k \in DOMAIN job[r].put : job[r].put[k] \in Int

Shape == DOMAIN job = Request /\ DOMAIN dispatch = Dispatcher /\ now \in Int

(* Nothing is handed out before it is due.                                  *)
HandedAreDue == \A x \in Handed : x[2] \in Int /\ x[2] <= now

(* A request that is about to store what was handed out, a row that holds   *)
(* it unsent, or a second dispatch that holds it, comes of a race.          *)
StoredInRace == \A r \in Request : \A k \in DOMAIN job[r].put :
  Storing(r) /\ <<<<job[r].on, k>>, job[r].put[k]>> \in Handed
    => <<<<job[r].on, k>>, job[r].put[k]>> \in raced
UnsentInRace == \A id \in DOMAIN rows :
  ~rows[id].sent /\ <<id, rows[id].due>> \in Handed => <<id, rows[id].due>> \in raced
HeldInRace == \A d, e \in Dispatcher : d # e => Holds(d) \cap Holds(e) \subseteq raced
PushedInRace == \A d \in Dispatcher :
  /\ \A p \in pushed : p[2] \in dispatch[d].batch => p[2] \in raced
  /\ \A y \in dispatch[d].todo : y \in pushed => y[2] \in raced
  /\ dispatch[d].batch = {} \/ dispatch[d].todo = {}

IInv ==
  /\ Shape /\ HandedAreDue /\ StoredInRace /\ UnsentInRace
  /\ HeldInRace /\ PushedInRace /\ TwiceOnlyInARace

-----------------------------------------------------------------------------
LEMMA InitInv == Init => IInv
<1> SUFFICES ASSUME Init PROVE IInv
  OBVIOUS
<1>1. Handed = {}
  BY DEF Init, Handed, Holds, NoDispatch
<1> QED
  BY <1>1 DEF Init, IInv, Shape, HandedAreDue, StoredInRace, UnsentInRace, HeldInRace, PushedInRace,
     TwiceOnlyInARace, Holds, NoDispatch, Resting, Storing, None

(* A step of a request that stores nothing and leaves the dispatcher alone. *)
LEMMA RequestStepInv ==
  ASSUME IInv, NEW r \in Request, NEW row, job' = [job EXCEPT ![r] = row],
         row.pc \notin {"delete", "insert"},
         UNCHANGED <<now, rows, dispatch, history>>
  PROVE  IInv'
<1>1. Handed' = Handed
  BY DEF Handed, Holds, history
<1>2. StoredInRace'
  <2> SUFFICES ASSUME NEW q \in Request, Storing(q)', NEW k \in DOMAIN job'[q].put,
                      <<<<job'[q].on, k>>, job'[q].put[k]>> \in Handed'
               PROVE  <<<<job'[q].on, k>>, job'[q].put[k]>> \in raced'
    BY DEF StoredInRace
  <2>1. q # r
    BY DEF Storing, IInv, Shape
  <2>2. job'[q] = job[q]
    BY <2>1 DEF IInv, Shape
  <2> QED BY <2>2, <1>1 DEF StoredInRace, IInv, Storing, history
<1>3. Shape'
  BY DEF IInv, Shape
<1>4. HandedAreDue' /\ UnsentInRace' /\ HeldInRace' /\ PushedInRace' /\ TwiceOnlyInARace'
  BY <1>1 DEF IInv, HandedAreDue, UnsentInRace, HeldInRace, PushedInRace, TwiceOnlyInARace, Holds, history
<1> QED BY <1>2, <1>3, <1>4 DEF IInv

LEMMA EditInv ==
  ASSUME IInv, NEW r \in Request, NEW g, NEW pc \in {"record", "feeds", "plan"}, NEW starter, NEW plan,
         Edit(r, g, pc, starter, plan)
  PROVE  IInv'
<1> DEFINE row == [pc |-> pc, on |-> g, starter |-> starter, put |-> plan, saw |-> {}]
<1>1. job' = [job EXCEPT ![r] = row] /\ row.pc \notin {"delete", "insert"}
  BY DEF Edit
<1>2. UNCHANGED <<now, rows, dispatch, history>>
  BY DEF Edit
<1> HIDE DEF row
<1> QED BY <1>1, <1>2, RequestStepInv

LEMMA StarterEditInv ==
  ASSUME IInv, NEW r \in Request, StarterEdit(r)
  PROVE  IInv'
<1>1. CASE NewStarter(r)
  BY <1>1, EditInv DEF NewStarter, EditThenPlan
<1>2. CASE PatchStarter(r)
  BY <1>2, EditInv DEF PatchStarter
<1>3. CASE DropStarter(r)
  BY <1>3, EditInv DEF DropStarter, EditThenPlan
<1>4. CASE NewFeeding(r)
  BY <1>4, EditInv DEF NewFeeding, EditThenRead
<1>5. CASE PatchFeeding(r)
  BY <1>5, EditInv DEF PatchFeeding, EditThenRead
<1>6. CASE DropFeeding(r)
  BY <1>6, EditInv DEF DropFeeding, EditThenRead
<1> QED BY <1>1, <1>2, <1>3, <1>4, <1>5, <1>6 DEF StarterEdit

LEMMA BakeEditInv ==
  ASSUME IInv, NEW r \in Request, BakeEdit(r)
  PROVE  IInv'
<1>0. ASSUME NEW b, NEW bake, SaveBake(r, b, bake)
      PROVE  IInv'
  BY <1>0, EditInv DEF SaveBake, EditThenPlan
<1>1. CASE NewBake(r)
  BY <1>1, EditInv DEF NewBake, EditThenPlan
<1>2. CASE PatchBake(r)
  BY <1>2, <1>0 DEF PatchBake
<1>3. CASE DropBake(r)
  BY <1>3, EditInv DEF DropBake, EditThenPlan
<1>4. CASE StepDone(r)
  BY <1>4, <1>0 DEF StepDone, ChangeSteps
<1>5. CASE StepFold(r)
  BY <1>5, <1>0 DEF StepFold, ChangeSteps
<1>6. CASE Shift(r)
  BY <1>6, <1>0 DEF Shift, ChangeSteps
<1> QED BY <1>1, <1>2, <1>3, <1>4, <1>5, <1>6 DEF BakeEdit

(* What is planned is not due yet, so it was not handed out.                *)
LEMMA PlanInv ==
  ASSUME IInv, DuesAreTimes, NEW r \in Request, Plan(r)
  PROVE  IInv'
<1>1. Handed' = Handed /\ UNCHANGED <<now, rows, dispatch, history>>
  BY DEF Plan, Handed, Holds, history
<1>2. PICK saw : job' = [job EXCEPT ![r] = [pc |-> "delete", on |-> job[r].on, starter |-> NoStarter,
                                            put |-> Upcoming(job[r].put, now), saw |-> saw]]
  BY DEF Plan, Goto
<1>3. StoredInRace'
  <2> SUFFICES ASSUME NEW q \in Request, Storing(q)', NEW k \in DOMAIN job'[q].put,
                      <<<<job'[q].on, k>>, job'[q].put[k]>> \in Handed'
               PROVE  <<<<job'[q].on, k>>, job'[q].put[k]>> \in raced'
    BY DEF StoredInRace
  <2>1. CASE q = r
    <3>1. job'[q].put = Upcoming(job[r].put, now)
      BY <1>2, <2>1 DEF IInv, Shape
    <3>2. k \in DOMAIN job[r].put /\ job[r].put[k] > now /\ job'[q].put[k] = job[r].put[k]
      BY <3>1 DEF Upcoming
    <3>3. job[r].put[k] \in Int /\ now \in Int
      BY <3>2 DEF DuesAreTimes, IInv, Shape
    <3>4. job'[q].put[k] <= now
      BY <1>1 DEF IInv, HandedAreDue
    <3> QED BY <3>2, <3>3, <3>4
  <2>2. CASE q # r
    <3>1. job'[q] = job[q]
      BY <1>2, <2>2 DEF IInv, Shape
    <3> QED BY <3>1, <1>1 DEF StoredInRace, IInv, Storing, history
  <2> QED BY <2>1, <2>2
<1>4. Shape'
  BY <1>1, <1>2 DEF IInv, Shape
<1>5. HandedAreDue' /\ UnsentInRace' /\ HeldInRace' /\ PushedInRace' /\ TwiceOnlyInARace'
  BY <1>1 DEF IInv, HandedAreDue, UnsentInRace, HeldInRace, PushedInRace, TwiceOnlyInARace, Holds, history
<1> QED BY <1>3, <1>4, <1>5 DEF IInv

LEMMA DeleteRowsInv ==
  ASSUME IInv, NEW r \in Request, DeleteRows(r)
  PROVE  IInv'
<1>1. Handed' = Handed /\ UNCHANGED <<now, rows, dispatch, history>>
  BY DEF DeleteRows, Handed, Holds, history
<1>2. PICK saw : job' = [job EXCEPT ![r] = [pc |-> "insert", on |-> job[r].on, starter |-> NoStarter,
                                            put |-> job[r].put, saw |-> saw]]
  BY DEF DeleteRows, Goto
<1>3. \A q \in Request : /\ job'[q].put = job[q].put /\ job'[q].on = job[q].on
                         /\ Storing(q)' = Storing(q)
  BY <1>2 DEF IInv, Shape, Storing, DeleteRows
<1>4. StoredInRace'
  BY <1>1, <1>3 DEF IInv, StoredInRace, history
<1>5. Shape'
  BY <1>1, <1>2 DEF IInv, Shape
<1>6. HandedAreDue' /\ UnsentInRace' /\ HeldInRace' /\ PushedInRace' /\ TwiceOnlyInARace'
  BY <1>1 DEF IInv, HandedAreDue, UnsentInRace, HeldInRace, PushedInRace, TwiceOnlyInARace, Holds, history
<1> QED BY <1>4, <1>5, <1>6 DEF IInv

LEMMA InsertRowsInv ==
  ASSUME IInv, DuesAreTimes, NEW r \in Request, InsertRows(r)
  PROVE  IInv'
<1> DEFINE ids == {<<job[r].on, k>> : k \in DOMAIN job[r].put}
<1>1. Handed' = Handed /\ UNCHANGED <<now, dispatch, history>>
  BY DEF InsertRows, Handed, Holds, history
<1>2. rows' = [id \in (DOMAIN rows \ job[r].saw) \cup ids |->
                 IF id \in ids THEN [due |-> job[r].put[id[2]], sent |-> FALSE] ELSE rows[id]]
  BY DEF InsertRows
<1>3. Skip(r) /\ job[r].pc = "insert"
  BY DEF InsertRows
<1>8. /\ DOMAIN job' = Request /\ job'[r] = Resting
      /\ \A q \in Request : q # r => job'[q].pc = job[q].pc /\ job'[q].on = job[q].on /\ job'[q].put = job[q].put
  BY <1>3, SkipJobs DEF IInv, Shape, DuesAreTimes
<1>4. UnsentInRace'
  <2> SUFFICES ASSUME NEW id \in DOMAIN rows', ~rows'[id].sent, <<id, rows'[id].due>> \in Handed
               PROVE  <<id, rows'[id].due>> \in raced
    BY <1>1 DEF UnsentInRace, history
  <2>1. CASE id \in ids
    <3>1. PICK k \in DOMAIN job[r].put : id = <<job[r].on, k>>
      BY <2>1
    <3>2. rows'[id].due = job[r].put[k]
      BY <1>2, <2>1, <3>1
    <3> QED BY <1>3, <3>1, <3>2 DEF IInv, StoredInRace, Storing
  <2>2. CASE id \notin ids
    <3>1. id \in DOMAIN rows /\ rows'[id] = rows[id]
      BY <1>2, <2>2
    <3> QED BY <3>1 DEF IInv, UnsentInRace
  <2> QED BY <2>1, <2>2
<1>5. StoredInRace'
  <2> SUFFICES ASSUME NEW q \in Request, Storing(q)', NEW k \in DOMAIN job'[q].put,
                      <<<<job'[q].on, k>>, job'[q].put[k]>> \in Handed'
               PROVE  <<<<job'[q].on, k>>, job'[q].put[k]>> \in raced'
    BY DEF StoredInRace
  <2>1. q # r
    BY <1>8 DEF Storing, Resting
  <2>2. job'[q].pc = job[q].pc /\ job'[q].on = job[q].on /\ job'[q].put = job[q].put
    BY <1>8, <2>1
  <2> QED BY <2>2, <1>1 DEF StoredInRace, IInv, Storing, history
<1>6. Shape'
  BY <1>1, <1>8 DEF IInv, Shape
<1>7. HandedAreDue' /\ HeldInRace' /\ PushedInRace' /\ TwiceOnlyInARace'
  BY <1>1 DEF IInv, HandedAreDue, HeldInRace, PushedInRace, TwiceOnlyInARace, Holds, history
<1> QED BY <1>4, <1>5, <1>6, <1>7 DEF IInv

(* The other steps of a request store nothing.                              *)
LEMMA RestingInv ==
  ASSUME IInv, NEW r \in Request, job' = [job EXCEPT ![r] = Resting], UNCHANGED <<now, rows, dispatch, history>>
  PROVE  IInv'
<1>1. Resting.pc \notin {"delete", "insert"}
  BY DEF Resting
<1>2. PICK row : row = Resting
  OBVIOUS
<1> QED BY <1>1, <1>2, RequestStepInv

LEMMA GotoInv ==
  ASSUME IInv, NEW r \in Request, NEW pc \in {"feeds", "plan"}, NEW starter, NEW put, NEW saw,
         Goto(r, pc, starter, put, saw), UNCHANGED <<now, rows, dispatch, history>>
  PROVE  IInv'
<1>1. PICK row : row = [pc |-> pc, on |-> job[r].on, starter |-> starter, put |-> put, saw |-> saw]
  OBVIOUS
<1>2. job' = [job EXCEPT ![r] = row] /\ row.pc \notin {"delete", "insert"}
  BY <1>1 DEF Goto
<1> QED BY <1>2, RequestStepInv

LEMMA GoOnInv ==
  ASSUME IInv, DuesAreTimes, NEW r \in Request, GoOn(r)
  PROVE  IInv'
<1>1. CASE ReadRecord(r)
  <2>1. UNCHANGED <<now, rows, dispatch, history>>
    BY <1>1 DEF ReadRecord
  <2>2. CASE job[r].on \in DOMAIN starters
    BY <1>1, <2>1, <2>2, GotoInv DEF ReadRecord
  <2>3. CASE job[r].on \notin DOMAIN starters
    BY <1>1, <2>1, <2>3, RestingInv DEF ReadRecord, Finish
  <2> QED BY <2>2, <2>3
<1>2. CASE ReadFeedings(r)
  <2>1. UNCHANGED <<now, rows, dispatch, history>>
    BY <1>2 DEF ReadFeedings
  <2> QED BY <1>2, <2>1, GotoInv DEF ReadFeedings
<1> QED BY <1>1, <1>2, PlanInv, DeleteRowsInv, InsertRowsInv DEF GoOn

-----------------------------------------------------------------------------
(* A claim takes unsent rows: those handed out before come of a race.       *)
LEMMA ClaimInv ==
  ASSUME IInv, DuesAreTimes, NEW d \in Dispatcher, ClaimDueReminders(d)
  PROVE  IInv'
<1>1. PICK ids \in SUBSET DueRows :
        /\ dispatch[d].pc = "idle"
        /\ rows' = [id \in DOMAIN rows |-> [due |-> rows[id].due, sent |-> rows[id].sent \/ id \in ids]]
        /\ raced' = raced \cup {<<id, rows[id].due>> : id \in {i \in ids : Racing(i)}}
        /\ dispatch' = [dispatch EXCEPT ![d] =
             [pc |-> "list", todo |-> {},
              batch |-> {<<id, rows[id].due>> : id \in {i \in ids : now - rows[i].due <= Late}}]]
        /\ UNCHANGED <<now, job, pushed, twice>>
  BY DEF ClaimDueReminders
<1> DEFINE new == {<<id, rows[id].due>> : id \in {i \in ids : now - rows[i].due <= Late}}
<1>2. \A x \in new : \E id \in ids : x = <<id, rows[id].due>>
  OBVIOUS
<1>3. \A id \in ids : id \in DOMAIN rows /\ ~rows[id].sent /\ rows[id].due <= now /\ rows[id].due \in Int
  BY DEF DueRows, DuesAreTimes
<1>4. dispatch'[d].batch = new /\ dispatch'[d].todo = {} /\ Holds(d)' = new
  BY <1>1 DEF IInv, Shape, Holds
<1>5. \A e \in Dispatcher : e # d => dispatch'[e] = dispatch[e] /\ Holds(e)' = Holds(e)
  BY <1>1 DEF IInv, Shape, Holds
<1> HIDE DEF new
<1>6. Handed' \subseteq Handed \cup new
  BY <1>1, <1>4, <1>5 DEF Handed
<1>7. raced \subseteq raced'
  BY <1>1
<1>8. \A x \in new : x \in Handed => x \in raced
  BY <1>2, <1>3 DEF IInv, UnsentInRace
<1>9. Shape'
  BY <1>1 DEF IInv, Shape
<1>10. HandedAreDue'
  <2> SUFFICES ASSUME NEW x \in Handed' PROVE x[2] \in Int /\ x[2] <= now
    BY <1>1 DEF HandedAreDue
  <2>1. CASE x \in new
    BY <2>1, <1>2, <1>3
  <2>2. CASE x \in Handed
    BY <2>2 DEF IInv, HandedAreDue
  <2> QED BY <1>6, <2>1, <2>2
<1>11. StoredInRace'
  <2> SUFFICES ASSUME NEW q \in Request, Storing(q), NEW k \in DOMAIN job[q].put, NEW x,
                      x = <<<<job[q].on, k>>, job[q].put[k]>>, x \in Handed'
               PROVE  x \in raced'
    BY <1>1 DEF StoredInRace, Storing
  <2>1. CASE x \in Handed
    BY <2>1, <1>7 DEF IInv, StoredInRace
  <2>2. CASE x \in new
    <3>1. PICK id \in ids : x = <<id, rows[id].due>>
      BY <2>2, <1>2
    <3>2. id = <<job[q].on, k>> /\ rows[id].due = job[q].put[k]
      BY <3>1
    <3>3. id[1] = job[q].on /\ id[2] = k
      BY <3>2
    <3>4. job[q].pc # "idle"
      BY DEF Storing
    <3>5. q \in InFlight(id[1])
      BY <3>3, <3>4 DEF InFlight
    <3>6. Racing(id)
      BY <3>2, <3>3, <3>5 DEF Racing, Storing
    <3> QED BY <1>1, <3>1, <3>6
  <2> QED BY <1>6, <2>1, <2>2
<1>12. UnsentInRace'
  <2> SUFFICES ASSUME NEW id \in DOMAIN rows', ~rows'[id].sent, <<id, rows'[id].due>> \in Handed'
               PROVE  <<id, rows'[id].due>> \in raced'
    BY DEF UnsentInRace
  <2>1. id \in DOMAIN rows /\ rows'[id].due = rows[id].due /\ ~rows[id].sent /\ id \notin ids
    BY <1>1
  <2>2. <<id, rows[id].due>> \notin new
    BY <1>2, <2>1
  <2> QED BY <1>6, <1>7, <2>1, <2>2 DEF IInv, UnsentInRace
<1>13. \A e \in Dispatcher : Holds(e) \subseteq Handed
  BY DEF Handed
<1>14. HeldInRace'
  BY <1>4, <1>5, <1>7, <1>8, <1>13 DEF IInv, HeldInRace
<1>15. PushedInRace'
  <2> SUFFICES ASSUME NEW e \in Dispatcher
               PROVE  /\ \A p \in pushed : p[2] \in dispatch'[e].batch => p[2] \in raced'
                      /\ \A y \in dispatch'[e].todo : y \in pushed => y[2] \in raced'
                      /\ dispatch'[e].batch = {} \/ dispatch'[e].todo = {}
    BY <1>1 DEF PushedInRace
  <2>1. \A p \in pushed : p[2] \in Handed
    <3> SUFFICES ASSUME NEW p \in pushed PROVE p[2] \in {q[2] : q \in pushed}
      BY DEF Handed
    <3> QED OBVIOUS
  <2>2. CASE e = d
    BY <2>1, <2>2, <1>4, <1>7, <1>8
  <2>3. CASE e # d
    BY <2>3, <1>5, <1>7 DEF IInv, PushedInRace
  <2> QED BY <2>2, <2>3
<1>16. TwiceOnlyInARace'
  BY <1>1, <1>7 DEF IInv, TwiceOnlyInARace
<1> QED BY <1>9, <1>10, <1>11, <1>12, <1>14, <1>15, <1>16 DEF IInv

(* A step of dispatch d that ends with its todo among what it held, pushing *)
(* at most x.                                                               *)
LEMMA PushingInv ==
  ASSUME IInv, NEW d \in Dispatcher, NEW todo, Pushing(d, todo),
         \A y \in todo : y[2] \in Holds(d) /\ (y \in pushed' => y[2] \in raced),
         pushed \subseteq pushed', \A p \in pushed' : p \in pushed \/ p[2] \in Holds(d),
         \A x \in twice' : x[2] \in raced,
         UNCHANGED <<now, rows, job, raced>>
  PROVE  IInv'
<1>1. /\ dispatch'[d].batch = {} /\ dispatch'[d].todo = todo
      /\ \A e \in Dispatcher : e # d => dispatch'[e] = dispatch[e] /\ Holds(e)' = Holds(e)
  <2>1. PICK row : /\ row = IF todo = {} THEN NoDispatch ELSE [pc |-> "push", batch |-> {}, todo |-> todo]
                   /\ dispatch' = [dispatch EXCEPT ![d] = row]
    BY DEF Pushing
  <2>2. row.batch = {} /\ row.todo = todo
    BY <2>1 DEF NoDispatch
  <2>3. d \in DOMAIN dispatch /\ \A e \in Dispatcher : e # d => dispatch'[e] = dispatch[e]
    BY <2>1 DEF IInv, Shape
  <2> QED BY <2>1, <2>2, <2>3 DEF Holds
<1>2. Holds(d)' \subseteq Holds(d)
  BY <1>1 DEF Holds
<1>3. \A e \in Dispatcher : Holds(e)' \subseteq Holds(e)
  BY <1>1, <1>2
<1>4. Handed' \subseteq Handed
  BY <1>3 DEF Handed
<1>5. Shape'
  BY DEF IInv, Shape, Pushing
<1>6. HandedAreDue' /\ StoredInRace' /\ UnsentInRace'
  BY <1>4 DEF IInv, HandedAreDue, StoredInRace, UnsentInRace, Storing
<1>7. HeldInRace'
  BY <1>3 DEF IInv, HeldInRace
<1>8. PushedInRace'
  <2> SUFFICES ASSUME NEW e \in Dispatcher
               PROVE  /\ \A p \in pushed' : p[2] \in dispatch'[e].batch => p[2] \in raced
                      /\ \A y \in dispatch'[e].todo : y \in pushed' => y[2] \in raced
                      /\ dispatch'[e].batch = {} \/ dispatch'[e].todo = {}
    BY DEF PushedInRace
  <2>1. CASE e = d
    BY <2>1, <1>1
  <2>2. CASE e # d
    <3>1. dispatch'[e] = dispatch[e] /\ Holds(d) \cap Holds(e) \subseteq raced
      BY <2>2, <1>1 DEF IInv, HeldInRace
    <3>2. \A p \in pushed' : p \in pushed \/ (p[2] \in Holds(e) => p[2] \in raced)
      BY <3>1
    <3>3. /\ \A p \in pushed : p[2] \in dispatch[e].batch => p[2] \in raced
          /\ \A y \in dispatch[e].todo : y \in pushed => y[2] \in raced
          /\ dispatch[e].batch = {} \/ dispatch[e].todo = {}
      BY DEF IInv, PushedInRace
    <3>4. \A y : y \in dispatch[e].todo => y[2] \in Holds(e)
      BY DEF Holds
    <3>5. \A x \in dispatch[e].batch : x \in Holds(e)
      BY DEF Holds
    <3> QED BY <3>1, <3>2, <3>3, <3>4, <3>5
  <2> QED BY <2>1, <2>2
<1>9. TwiceOnlyInARace'
  BY DEF TwiceOnlyInARace
<1> QED BY <1>5, <1>6, <1>7, <1>8, <1>9 DEF IInv

LEMMA ListDevicesInv ==
  ASSUME IInv, NEW d \in Dispatcher, ListDevices(d)
  PROVE  IInv'
<1>1. PICK todo : todo = devices \X dispatch[d].batch
  OBVIOUS
<1>2. Pushing(d, todo) /\ UNCHANGED <<now, rows, job, pushed, twice, raced>>
  BY <1>1 DEF ListDevices, history
<1>3. \A y \in todo : y[2] \in dispatch[d].batch
  BY <1>1
<1>4. \A y \in todo : y[2] \in Holds(d) /\ (y \in pushed => y[2] \in raced)
  BY <1>3 DEF Holds, IInv, PushedInRace
<1>5. \A x \in twice : x[2] \in raced
  BY DEF IInv, TwiceOnlyInARace
<1> QED BY <1>2, <1>4, <1>5, PushingInv

LEMMA PushInv ==
  ASSUME IInv, NEW d \in Dispatcher, Push(d)
  PROVE  IInv'
<1>1. PICK x \in dispatch[d].todo :
        \/ /\ Pushing(d, dispatch[d].todo \ {x})
           /\ pushed' = pushed \cup {x}
           /\ twice' = IF x \in pushed THEN twice \cup {x} ELSE twice
        \/ /\ Pushing(d, {y \in dispatch[d].todo : y[1] # x[1]})
           /\ UNCHANGED <<pushed, twice>>
  BY DEF Push
<1>2. UNCHANGED <<now, rows, job, raced>>
  BY DEF Push
<1>3. \A y \in dispatch[d].todo : y[2] \in Holds(d) /\ (y \in pushed => y[2] \in raced)
  BY DEF Holds, IInv, PushedInRace
<1>4. \A z \in twice : z[2] \in raced
  BY DEF IInv, TwiceOnlyInARace
<1>5. CASE /\ Pushing(d, dispatch[d].todo \ {x})
           /\ pushed' = pushed \cup {x}
           /\ twice' = IF x \in pushed THEN twice \cup {x} ELSE twice
  <2>1. PICK todo : todo = dispatch[d].todo \ {x}
    OBVIOUS
  <2>2. \A y \in todo : y[2] \in Holds(d) /\ (y \in pushed' => y[2] \in raced)
    BY <1>3, <1>5, <2>1
  <2>3. \A p \in pushed' : p \in pushed \/ p[2] \in Holds(d)
    BY <1>3, <1>5
  <2>4. \A z \in twice' : z[2] \in raced
    BY <1>3, <1>4, <1>5
  <2>5. Pushing(d, todo) /\ pushed \subseteq pushed'
    BY <1>5, <2>1
  <2> QED BY <1>2, <2>2, <2>3, <2>4, <2>5, PushingInv
<1>6. CASE /\ Pushing(d, {y \in dispatch[d].todo : y[1] # x[1]})
           /\ UNCHANGED <<pushed, twice>>
  <2>1. PICK todo : todo = {y \in dispatch[d].todo : y[1] # x[1]}
    OBVIOUS
  <2>2. \A y \in todo : y[2] \in Holds(d) /\ (y \in pushed' => y[2] \in raced)
    BY <1>3, <1>6, <2>1
  <2>3. Pushing(d, todo)
    BY <1>6, <2>1
  <2> QED BY <1>2, <1>4, <1>6, <2>2, <2>3, PushingInv
<1> QED BY <1>1, <1>5, <1>6

LEMMA StopDispatchInv ==
  ASSUME IInv, NEW d \in Dispatcher, StopDispatch(d)
  PROVE  IInv'
<1>1. Pushing(d, {}) /\ UNCHANGED <<now, rows, job, pushed, twice, raced>>
  BY DEF StopDispatch, Pushing, history
<1>2. \A x \in twice : x[2] \in raced
  BY DEF IInv, TwiceOnlyInARace
<1> QED BY <1>1, <1>2, PushingInv

(* What does not touch requests, reminders or dispatches.                   *)
LEMMA ElseInv ==
  ASSUME IInv, UNCHANGED <<rows, job, dispatch, history>>, now' = now \/ now' = now + 1
  PROVE  IInv'
<1>1. Handed' = Handed
  BY DEF Handed, Holds, history
<1>2. Shape' /\ HandedAreDue'
  BY <1>1 DEF IInv, Shape, HandedAreDue
<1>3. StoredInRace' /\ UnsentInRace' /\ HeldInRace' /\ PushedInRace' /\ TwiceOnlyInARace'
  BY <1>1 DEF IInv, StoredInRace, UnsentInRace, HeldInRace, PushedInRace, TwiceOnlyInARace,
     Holds, Storing, history
<1> QED BY <1>2, <1>3 DEF IInv

LEMMA NextInv ==
  ASSUME IInv, DuesAreTimes, [Next]_vars
  PROVE  IInv'
<1>1. ASSUME NEW r \in Request, StarterEdit(r) \/ BakeEdit(r) \/ GoOn(r) \/ Fail(r)
      PROVE  IInv'
  <2>1. CASE Fail(r)
    BY <2>1, RestingInv DEF Fail
  <2> QED BY <1>1, <2>1, StarterEditInv, BakeEditInv, GoOnInv
<1>2. ASSUME NEW d \in Dispatcher, ClaimDueReminders(d) \/ ListDevices(d) \/ Push(d) \/ StopDispatch(d)
      PROVE  IInv'
  BY <1>2, ClaimInv, ListDevicesInv, PushInv, StopDispatchInv
<1>3. CASE Subscribe \/ Unsubscribe \/ Tick
  BY <1>3, ElseInv DEF Subscribe, Unsubscribe, Tick
<1>4. CASE UNCHANGED vars
  BY <1>4, ElseInv DEF vars
<1> QED BY <1>1, <1>2, <1>3, <1>4 DEF Next

(* Due times are times wherever they are kept, those handed to a request    *)
(* that is about to store them too.                                         *)
LEMMA TablesTimes == TablesInv => DuesAreTimes
  BY DEF TablesInv, RowsOK, JobsOK, JobOK, Times, DuesAreTimes

(* No device is handed a reminder twice but in a race of a request with the *)
(* dispatcher.                                                              *)
THEOREM TwiceOnlyInARaceHolds == Spec => []TwiceOnlyInARace
<1>1. IInv /\ DuesAreTimes /\ [Next]_vars => IInv'
  BY NextInv
<1>2. IInv => TwiceOnlyInARace
  BY DEF IInv
<1> QED BY InitInv, <1>1, <1>2, AlwaysTables, TablesTimes, PTL DEF Spec

==============================================================================
