------------------------------- MODULE Lease -------------------------------
(***************************************************************************)
(* The lease of service-kit (lease.ts) as the ytdigest poll uses it: one   *)
(* named key with a time to live, taken when absent, deleted by whoever    *)
(* took it when its run ends.  Runs come from a timer (self-hosted) or from *)
(* an at-least-once scheduler (cloud); the cloud kills a run after         *)
(* Timeout, the self-hosted timer never does.  Time is counted in minutes. *)
(***************************************************************************)
EXTENDS Integers

CONSTANTS
  Runs,      \* invocations of the job that may be under way at once
  Ttl,       \* LEASE_TTL_MS
  Timeout,   \* timeoutSeconds of the scheduled function
  Enforced   \* whether the platform kills a run at its timeout

\* poll.ts and functions/src/index.ts: a killed run dies before its lease does.
ASSUME TtlAssumption ==
  /\ Ttl \in Nat \ {0}
  /\ Timeout \in Nat
  /\ Enforced \in BOOLEAN
  /\ Enforced => Timeout < Ttl

VARIABLES
  left,      \* what the key has left to live, 0 when there is no key
  stage,     \* where each run is
  age        \* how long each run has been going, counted up to Timeout

vars == <<left, stage, age>>

Stages == {"idle", "asking", "holding"}

TypeOK ==
  /\ left \in 0..Ttl
  /\ stage \in [Runs -> Stages]
  /\ age \in [Runs -> 0..Timeout]

Init ==
  /\ left = 0
  /\ stage = [r \in Runs |-> "idle"]
  /\ age = [r \in Runs |-> 0]

Holding == {r \in Runs : stage[r] = "holding"}

\* A run leaves; what it leaves behind in `left` is for its action to say.
Leave(r) ==
  /\ stage' = [stage EXCEPT ![r] = "idle"]
  /\ age' = [age EXCEPT ![r] = 0]

\* The timer fires, or the scheduler delivers a trigger (perhaps again).
Start(r) ==
  /\ stage[r] = "idle"
  /\ stage' = [stage EXCEPT ![r] = "asking"]
  /\ UNCHANGED <<left, age>>

\* Mutant: SET without NX.
AcquireAnyway(r) ==
  /\ stage[r] = "asking"
  /\ left' = Ttl
  /\ stage' = [stage EXCEPT ![r] = "holding"]
  /\ UNCHANGED age

\* SET key 1 PX ttl NX; in Firestore a transaction that compares expiresAt.
Acquire(r) ==
  /\ stage[r] = "asking"
  /\ left = 0
  /\ left' = Ttl
  /\ stage' = [stage EXCEPT ![r] = "holding"]
  /\ UNCHANGED age

\* Mutant: the early return inside the try, so that the finally releases.
RefuseAndRelease(r) ==
  /\ stage[r] = "asking"
  /\ left > 0
  /\ Leave(r)
  /\ left' = 0

\* "skipped: already in progress"
Refuse(r) ==
  /\ stage[r] = "asking"
  /\ left > 0
  /\ Leave(r)
  /\ UNCHANGED left

\* The finally of pollChannels: DEL key, whoever's key that is by now.
Release(r) ==
  /\ stage[r] = "holding"
  /\ left' = 0
  /\ Leave(r)

\* The process dies, the platform kills the run, or the release itself fails.
Crash(r) ==
  /\ stage[r] # "idle"
  /\ Leave(r)
  /\ UNCHANGED left

\* Mutant: SET without PX.
TickNoExpiry ==
  /\ Enforced => \A r \in Runs : stage[r] # "idle" => age[r] < Timeout
  /\ age' = [r \in Runs |-> IF stage[r] # "idle" /\ age[r] < Timeout
                            THEN age[r] + 1 ELSE age[r]]
  /\ UNCHANGED <<left, stage>>

\* A minute passes.  Where timeouts are enforced no run outlives its own.
Tick ==
  /\ Enforced => \A r \in Runs : stage[r] # "idle" => age[r] < Timeout
  /\ left' = IF left = 0 THEN 0 ELSE left - 1
  /\ age' = [r \in Runs |-> IF stage[r] # "idle" /\ age[r] < Timeout
                            THEN age[r] + 1 ELSE age[r]]
  /\ UNCHANGED stage

Next ==
  \/ Tick
  \/ \E r \in Runs :
       Start(r) \/ Acquire(r) \/ Refuse(r) \/ Release(r) \/ Crash(r)

Spec == Init /\ [][Next]_vars

-----------------------------------------------------------------------------
(* Time passes; triggers keep coming; a run that was started gets an answer *)
(* from the lease store and ends, by itself, by a crash or at its timeout.  *)
(* Strong fairness of Acquire: not every run dies between its start and the *)
(* lease's answer.                                                          *)
Ends(r) == Release(r) \/ (Crash(r) /\ stage[r] = "holding")

FairSpec ==
  /\ Spec
  /\ WF_vars(Tick)
  /\ WF_vars(\E r \in Runs : Start(r))
  /\ SF_vars(\E r \in Runs : Acquire(r))
  /\ \A r \in Runs : WF_vars(Refuse(r)) /\ WF_vars(Ends(r))

-----------------------------------------------------------------------------
(* "so a scheduled job never runs twice concurrently" (lease.ts).  Holds    *)
(* where a run is killed before its lease runs out.                         *)
OneAtATime == \A r, s \in Holding : r = s

(* A run deletes only the lease it took itself: while somebody holds the    *)
(* lease, only that run's own end removes it.  Expiry would also.           *)
NobodyElseReleases ==
  [][\A r \in Runs : stage[r] = "holding" /\ stage'[r] = "holding" => left' > 0]_vars

(* A holder that crashed does not stop the job for good: lease.ts,          *)
(* "recoverable rather than deadlocking the job forever".                   *)
JobRunsAgain == []<>(Holding # {})

(* The inductive form of OneAtATime: a holder's lease outlives its timeout. *)
LeaseOutlivesRun ==
  Enforced => \A r \in Holding : left + age[r] >= Ttl

IInv ==
  /\ TypeOK
  /\ LeaseOutlivesRun
  /\ Enforced => OneAtATime

=============================================================================
