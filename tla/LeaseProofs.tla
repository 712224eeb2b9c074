---------------------------- MODULE LeaseProofs ----------------------------
(***************************************************************************)
(* Proof that where runs are killed before their lease runs out, no two of *)
(* them hold it: for any number of runs and any such pair of durations.    *)
(***************************************************************************)
EXTENDS Lease, TLAPS

LEMMA InitInv == Init => IInv
BY TtlAssumption DEF Init, IInv, TypeOK, LeaseOutlivesRun, OneAtATime, Holding, Stages

(* A holder is younger than Ttl, so its lease is there still.               *)
LEMMA HolderHasLease ==
  ASSUME IInv, Enforced, NEW r \in Holding
  PROVE  left > 0
BY TtlAssumption DEF IInv, TypeOK, LeaseOutlivesRun, Holding

LEMMA NextInv == IInv /\ [Next]_vars => IInv'
<1> SUFFICES ASSUME IInv, [Next]_vars PROVE IInv'
  OBVIOUS
<1> USE TtlAssumption DEF TypeOK, Stages
<1>1. CASE Tick
  <2>1. TypeOK'
    BY <1>1 DEF IInv, Tick
  <2>2. LeaseOutlivesRun'
    <3> SUFFICES ASSUME Enforced, NEW r \in Holding' PROVE left' + age'[r] >= Ttl
      BY DEF LeaseOutlivesRun
    <3>1. r \in Holding /\ stage[r] # "idle"
      BY <1>1 DEF Tick, Holding
    <3>2. left > 0
      BY <3>1, HolderHasLease
    <3>3. left' = left - 1 /\ age'[r] = age[r] + 1
      BY <1>1, <3>1, <3>2 DEF Tick, IInv, Holding
    <3> QED  BY <3>1, <3>3 DEF IInv, LeaseOutlivesRun, Holding
  <2>3. Enforced => OneAtATime'
    BY <1>1 DEF Tick, IInv, OneAtATime, Holding
  <2> QED  BY <2>1, <2>2, <2>3 DEF IInv
<1>2. ASSUME NEW r \in Runs, Start(r)
      PROVE  IInv'
  BY <1>2 DEF Start, IInv, LeaseOutlivesRun, OneAtATime, Holding
<1>3. ASSUME NEW r \in Runs, Acquire(r)
      PROVE  IInv'
  <2>1. TypeOK'
    BY <1>3 DEF IInv, Acquire
  <2>2. Enforced => Holding' = {r}
    <3> SUFFICES ASSUME Enforced PROVE Holding' = {r}
      OBVIOUS
    <3>1. Holding = {}
      BY <1>3, HolderHasLease DEF Acquire
    <3> QED  BY <1>3, <3>1 DEF Acquire, Holding, IInv
  <2>3. LeaseOutlivesRun'
    BY <1>3, <2>1, <2>2 DEF Acquire, LeaseOutlivesRun
  <2>4. Enforced => OneAtATime'
    BY <2>2 DEF OneAtATime
  <2> QED  BY <2>1, <2>3, <2>4 DEF IInv
<1>4. ASSUME NEW r \in Runs, Refuse(r) \/ Crash(r)
      PROVE  IInv'
  BY <1>4 DEF Refuse, Crash, Leave, IInv, LeaseOutlivesRun, OneAtATime, Holding
<1>5. ASSUME NEW r \in Runs, Release(r)
      PROVE  IInv'
  <2>1. TypeOK'
    BY <1>5 DEF IInv, Release, Leave
  <2>2. Enforced => Holding' = {}
    BY <1>5 DEF Release, Leave, IInv, OneAtATime, Holding
  <2> QED  BY <2>1, <2>2 DEF IInv, LeaseOutlivesRun, OneAtATime
<1>6. CASE UNCHANGED vars
  BY <1>6 DEF vars, IInv, LeaseOutlivesRun, OneAtATime, Holding
<1> QED  BY <1>1, <1>2, <1>3, <1>4, <1>5, <1>6 DEF Next

THEOREM AlwaysIInv == Spec => []IInv
BY InitInv, NextInv, PTL DEF Spec

(* Where the platform kills a run before Ttl has passed (the scheduled      *)
(* function: 540 seconds against 10 minutes), the job never runs twice at   *)
(* once (lease.ts).                                                         *)
THEOREM AlwaysOneAtATime == Spec => [](Enforced => OneAtATime)
<1>1. IInv => (Enforced => OneAtATime)
  BY DEF IInv
<1> QED  BY AlwaysIInv, <1>1, PTL

(* There, a run that goes on holding the lease never sees it gone: nobody   *)
(* else's release or expiry takes it.                                       *)
THEOREM NobodyElseEverReleases ==
  ASSUME Enforced
  PROVE  Spec => NobodyElseReleases
<1>1. IInv' => [\A r \in Runs : stage[r] = "holding" /\ stage'[r] = "holding" => left' > 0]_vars
  BY TtlAssumption DEF IInv, TypeOK, LeaseOutlivesRun, Holding
<1> QED  BY AlwaysIInv, <1>1, PTL DEF NobodyElseReleases

=============================================================================
