-------------------------- MODULE ChipsSafetyProofs --------------------------
(***************************************************************************)
(* ChipsPostgres, however many players, games, hands and requests there     *)
(* are: every reachable state satisfies IInv (the initial state does, and   *)
(* each action of each request keeps it), requests that race do no harm,    *)
(* and the whole implements ChipBook: every commit is one hand's move, one  *)
(* grant or one gift in the book, and every other step leaves it as it was. *)
(***************************************************************************)
EXTENDS ChipsInvariant, ChipsPlanProofs

------------------------------------------------------------------------------
(* The inductive invariant, action by action.                               *)

LEMMA InitInv == Init => IInv
<1> SUFFICES ASSUME Init PROVE IInv
  OBVIOUS
<1>1. TypeOK
  <2>1. IsTable(NoRows, Player, PlayerRow)
    BY TableTypes
  <2>2. IsWrites(NoWrites)
    BY <2>1, DraftWrites DEF NoWrites
  <2>3. \A r \in Request : IsWrites(writes[r])
    BY <2>2 DEF Init
  <2>4. /\ IsTable(players, Player, PlayerRow) /\ IsTable(ledger, Player \X Nat, Entry)
        /\ IsTable(hands, HandId, HandRow) /\ IsTable(gifts, GiftId, GiftRow)
        /\ IsTable(stats, Player \X Game, StatsRow) /\ IsTable(hits, HandId, Nat)
    BY DEF Init, IsTable, NoRows
  <2>5. /\ pot \in Nat /\ clock \in Nat
        /\ playerLock \in [Player -> Request \cup {Free}] /\ potLock \in Request \cup {Free}
        /\ phase \in [Request -> Phase] /\ job \in [Request -> Job \cup {NoJob}]
        /\ DOMAIN writes = Request
    BY EconomyAssumption DEF Init, Phase
  <2> QED BY <2>3, <2>4, <2>5 DEF TypeOK
<1>2. LocksHeld
  BY RequestAssumption DEF Init, LocksHeld, Planned
<1>3. PlansFit
  BY DEF Init, PlansFit, Planned
<1>4. RowsOwned
  BY DEF Init, RowsOwned, NoRows, NoJob, StartJob, GiftJob
<1>5. OneActive(hands) /\ LedgerExplainsBalance
  BY DEF Init, OneActive, LedgerExplainsBalance, Explains, NoRows
<1> QED BY <1>1, <1>2, <1>3, <1>4, <1>5 DEF IInv

------------------------------------------------------------------------------
(* A step that leaves the tables alone.                                     *)
LEMMA TablesKept ==
  ASSUME IInv, UNCHANGED tables
  PROVE  OneActive(hands)' /\ LedgerExplainsBalance'
  BY DEF IInv, tables, OneActive, LedgerExplainsBalance, BalanceAt

(* The plan of a request this step does not move still fits, as long as     *)
(* the step leaves the tables alone.                                        *)
LEMMA PlanKept ==
  ASSUME IInv, UNCHANGED tables, NEW r \in Request,
         phase'[r] = phase[r], job'[r] = job[r], writes'[r] = writes[r]
  PROVE  Planned(r)' => PlanFits(r)'
<1> SUFFICES ASSUME Planned(r)'
             PROVE  PlanFits(r)'
  OBVIOUS
<1>1. PlanFits(r)
  BY DEF IInv, PlansFit, Planned
<1>2. players' = players /\ hands' = hands /\ gifts' = gifts
  BY DEF tables
<1>3. HandFits(writes[r], job[r])'
  BY <1>1, <1>2 DEF PlanFits, HandFits, ActiveHand
<1>4. GiftFits(writes[r], job[r])'
  BY <1>1, <1>2 DEF PlanFits, GiftFits
<1> QED BY <1>1, <1>2, <1>3, <1>4 DEF PlanFits

LEMMA DayNat == ASSUME TypeOK, NEW z \in Nat PROVE DayIn(z) \in Day
<1>1. clock + z \in Nat /\ DayLength \in Nat \ {0}
  BY RequestAssumption DEF TypeOK
<1> QED BY <1>1, QuotientNat DEF DayIn, Day

(* A request arrives for players who exist.                                 *)
LEMMA ArriveInv ==
  ASSUME IInv, NEW r \in Request, NEW j \in Job, Needs(j) \subseteq DOMAIN players,
         j \in StartJob => j.hand \in HandIdsOf[j.user],
         j \in GiftJob => j.gift \in GiftIdsOf[j.user] /\ j.to # j.user,
         Arrive(r, j)
  PROVE  IInv'
<1>1. /\ UNCHANGED tables /\ UNCHANGED locks /\ UNCHANGED <<writes, clock>>
      /\ phase[r] = "idle" /\ phase' = [phase EXCEPT ![r] = "locking"] /\ job' = [job EXCEPT ![r] = j]
  BY DEF Arrive
<1>2. TypeOK
  BY DEF IInv
<1>3. /\ phase \in [Request -> Phase] /\ job \in [Request -> Job \cup {NoJob}]
  BY <1>2 DEF TypeOK
<1>4. phase'[r] = "locking" /\ job'[r] = j
  BY <1>1, <1>3
<1>5. \A s \in Request : s # r => phase'[s] = phase[s] /\ job'[s] = job[s]
  BY <1>1, <1>3
<1>6. TypeOK'
  BY <1>1, <1>2 DEF TypeOK, tables, locks, Phase
<1>7. LocksHeld'
  <2>1. LocksHeld
    BY DEF IInv
  <2>2. Held(r) = {} /\ Needs(j) # {}
    BY <1>1, <2>1 DEF LocksHeld, Held, Needs
  <2> QED BY <1>1, <1>4, <1>5, <2>1, <2>2 DEF LocksHeld, locks, tables, Planned, Held
<1>8. PlansFit'
  <2> SUFFICES ASSUME NEW s \in Request, Planned(s)' PROVE PlanFits(s)'
    BY DEF PlansFit
  <2>1. s # r
    BY <1>4 DEF Planned
  <2> QED BY <1>1, <1>5, <2>1, PlanKept
<1>9. RowsOwned'
  BY <1>1, <1>4, <1>5 DEF IInv, RowsOwned, tables
<1>10. OneActive(hands)' /\ LedgerExplainsBalance'
  BY <1>1, TablesKept
<1> QED BY <1>6, <1>7, <1>8, <1>9, <1>10 DEF IInv

LEMMA BeginInv ==
  ASSUME IInv, NEW r \in Request, Begin(r)
  PROVE  IInv'
<1>1. TypeOK
  BY DEF IInv
<1>2. ASSUME PostHands(r) PROVE IInv'
  <2>6. PICK p \in Player, g \in Game :
          \E h \in HandIdsOf[p], s \in Deals[g] :
            Arrive(r, [op |-> "start", user |-> p, hand |-> h, game |-> g, dealt |-> s])
    BY <1>2 DEF PostHands
  <2>1. PICK h \in HandIdsOf[p], s \in Deals[g] :
          Arrive(r, [op |-> "start", user |-> p, hand |-> h, game |-> g, dealt |-> s])
    BY <2>6
  <2>2. PICK j : j = [op |-> "start", user |-> p, hand |-> h, game |-> g, dealt |-> s]
    OBVIOUS
  <2>3. h \in HandId /\ s \in EngineState
    BY RequestAssumption, EngineAssumption
  <2>4. j \in StartJob /\ j \in Job /\ j \notin GiftJob /\ j.hand \in HandIdsOf[j.user]
    BY <2>2, <2>3 DEF StartJob, Job, GiftJob
  <2>5. Needs(j) \subseteq DOMAIN players
    BY <2>1, <2>2 DEF Arrive, Needs
  <2> QED BY <2>1, <2>2, <2>4, <2>5, ArriveInv
<1>3. ASSUME PostAction(r) PROVE IInv'
  <2>6. PICK p \in Player, h \in DOMAIN hands, a \in ActionType :
          \E v \in 0 .. hands[h].version :
            Arrive(r, [op |-> "act", user |-> p, hand |-> h, version |-> v, action |-> a])
    BY <1>3 DEF PostAction
  <2>1. PICK v \in 0 .. hands[h].version :
          Arrive(r, [op |-> "act", user |-> p, hand |-> h, version |-> v, action |-> a])
    BY <2>6
  <2>2. PICK j : j = [op |-> "act", user |-> p, hand |-> h, version |-> v, action |-> a]
    OBVIOUS
  <2>3. h \in HandId /\ v \in Nat
    BY <1>1 DEF TypeOK, IsTable, HandRow
  <2>4. j \in ActJob /\ j \in Job /\ j \notin GiftJob /\ j \notin StartJob
    BY <2>2, <2>3 DEF ActJob, StartJob, Job, GiftJob
  <2>5. Needs(j) \subseteq DOMAIN players
    BY <2>1, <2>2 DEF Arrive, Needs
  <2> QED BY <2>1, <2>2, <2>4, <2>5, ArriveInv
<1>4. ASSUME PostClaim(r) PROVE IInv'
  <2>1. PICK p \in Player, kind \in Claim, z \in Zone :
          Arrive(r, [op |-> kind, user |-> p, day |-> DayIn(z)])
    BY <1>4 DEF PostClaim
  <2>2. PICK j : j = [op |-> kind, user |-> p, day |-> DayIn(z)]
    OBVIOUS
  <2>3. kind \in ClaimKind /\ DayIn(z) \in Day
    BY <1>1, DayNat, RequestAssumption
  <2>4. j \in ClaimJob /\ j \in Job /\ j \notin GiftJob /\ j \notin StartJob
    BY <2>2, <2>3 DEF ClaimJob, StartJob, Job, GiftJob, ClaimKind
  <2>5. Needs(j) \subseteq DOMAIN players
    BY <2>1, <2>2, <2>3 DEF Arrive, Needs, ClaimKind
  <2> QED BY <2>1, <2>2, <2>4, <2>5, ArriveInv
<1>5. ASSUME PostGift(r) PROVE IInv'
  <2>6. PICK p \in Player, q \in DOMAIN players, n \in GiftAmount, z \in Zone :
          \E id \in GiftIdsOf[p] :
            /\ p # q
            /\ Arrive(r, [op |-> "gift", user |-> p, to |-> q, gift |-> id, amount |-> n,
                          senderDay |-> DayIn(z), utcDay |-> DayIn(0)])
    BY <1>5 DEF PostGift
  <2>1. PICK id \in GiftIdsOf[p] :
          /\ p # q
          /\ Arrive(r, [op |-> "gift", user |-> p, to |-> q, gift |-> id, amount |-> n,
                        senderDay |-> DayIn(z), utcDay |-> DayIn(0)])
    BY <2>6
  <2>2. PICK j : j = [op |-> "gift", user |-> p, to |-> q, gift |-> id, amount |-> n,
                      senderDay |-> DayIn(z), utcDay |-> DayIn(0)]
    OBVIOUS
  <2>3. /\ q \in Player /\ id \in GiftId /\ n \in Nat
        /\ DayIn(z) \in Day /\ DayIn(0) \in Day
    BY <1>1, DayNat, RequestAssumption DEF TypeOK, IsTable
  <2>4. /\ j \in GiftJob /\ j \in Job /\ j \notin StartJob
        /\ j.gift \in GiftIdsOf[j.user] /\ j.to # j.user
    BY <2>1, <2>2, <2>3 DEF StartJob, Job, GiftJob
  <2>5. Needs(j) \subseteq DOMAIN players
    BY <2>1, <2>2 DEF Arrive, Needs
  <2> QED BY <2>1, <2>2, <2>4, <2>5, ArriveInv
<1> QED BY <1>2, <1>3, <1>4, <1>5 DEF Begin

------------------------------------------------------------------------------
LEMMA NeedsPlayers ==
  ASSUME NEW j \in Job
  PROVE  /\ Needs(j) \subseteq Player
         /\ \E c, d \in Player : Needs(j) = {c, d}
<1>1. j.user \in Player /\ (j.op = "gift" => j.to \in Player)
  <2>1. CASE j \in GiftJob
    BY <2>1 DEF GiftJob
  <2>2. CASE j \in StartJob \cup ActJob \cup ClaimJob
    BY <2>2 DEF StartJob, ActJob, ClaimJob, ClaimKind
  <2> QED BY <2>1, <2>2 DEF Job
<1>2. CASE j.op = "gift"
  BY <1>1, <1>2 DEF Needs
<1>3. CASE j.op # "gift"
  <2>1. Needs(j) = {j.user, j.user}
    BY <1>3 DEF Needs
  <2> QED BY <1>1, <2>1
<1> QED BY <1>2, <1>3

(* The next row to lock is the least one the request needs and does not     *)
(* hold yet.                                                                *)
LEMMA NextLockNeeded ==
  ASSUME IInv, NEW r \in Request, phase[r] = "locking"
  PROVE  /\ NextLock(job[r], Held(r)) \in Needs(job[r]) \ Held(r)
         /\ \A q \in Needs(job[r]) \ Held(r) : NextLock(job[r], Held(r)) <= q
<1> DEFINE S == Needs(job[r]) \ Held(r)
<1>1. job[r] \in Job /\ S # {}
  BY DEF IInv, LocksHeld
<1>2. S \subseteq Nat /\ \E a, b \in Nat : S = {a, b}
  <2>1. PICK c, d : Needs(job[r]) = {c, d} /\ c \in Nat /\ d \in Nat
    BY <1>1, NeedsPlayers, PlayerAssumption
  <2>2. S = {c, d} \/ S = {c, c} \/ S = {d, d}
    BY <1>1, <2>1
  <2> QED BY <2>1, <2>2
<1>3. \E p \in S : \A q \in S : p <= q
  <2>1. PICK a \in Nat, b \in Nat : S = {a, b}
    BY <1>2
  <2>2. CASE a <= b
    BY <2>1, <2>2
  <2>3. CASE ~(a <= b)
    BY <2>1, <2>3
  <2> QED BY <2>2, <2>3
<1> QED BY <1>3 DEF NextLock, Least

LEMMA LockPlayerInv ==
  ASSUME IInv, NEW r \in Request, LockPlayer(r)
  PROVE  IInv'
<1> DEFINE p == NextLock(job[r], Held(r))
           all == Needs(job[r]) \subseteq Held(r) \cup {p}
<1>1. /\ UNCHANGED tables /\ potLock' = potLock /\ UNCHANGED <<job, writes, clock>>
      /\ phase[r] = "locking" /\ playerLock[p] = Free
      /\ playerLock' = [playerLock EXCEPT ![p] = r]
      /\ phase' = [phase EXCEPT ![r] = IF all THEN "locked" ELSE "locking"]
  BY DEF LockPlayer, CanLock
<1>2. TypeOK
  BY DEF IInv
<1>3. /\ phase \in [Request -> Phase] /\ playerLock \in [Player -> Request \cup {Free}]
      /\ job[r] \in Job
  BY <1>1, <1>2 DEF TypeOK, IInv, LocksHeld
<1>4. p \in Needs(job[r]) /\ p \notin Held(r) /\ p \in Player
  <2>1. p \in Needs(job[r]) \ Held(r)
    BY <1>1, NextLockNeeded
  <2> QED BY <1>3, <2>1, NeedsPlayers
<1> HIDE DEF p
<1>5. /\ phase'[r] \in {"locked", "locking"}
      /\ phase'[r] = "locked" <=> all
      /\ \A s \in Request : s # r => phase'[s] = phase[s]
      /\ playerLock'[p] = r /\ \A q \in Player : q # p => playerLock'[q] = playerLock[q]
  BY <1>1, <1>3, <1>4
<1>6. TypeOK'
  BY <1>1, <1>2, <1>3 DEF TypeOK, tables, Phase
<1>7. LocksHeld'
  <2>1. LocksHeld
    BY DEF IInv
  <2>2. Held(r)' = Held(r) \cup {p}
    BY <1>4, <1>5, <1>1 DEF Held
  <2>3. \A s \in Request : s # r => Held(s)' = Held(s)
    BY <1>1, <1>4, <1>5, RequestAssumption DEF Held
  <2>4. ASSUME NEW s \in Request
        PROVE  /\ phase'[s] = "idle" => job'[s] = NoJob
               /\ phase'[s] # "idle" => job'[s] \in Job /\ Needs(job'[s]) \subseteq DOMAIN players'
               /\ phase'[s] \in {"locked", "planned", "jackpot"} =>
                    \A q \in Needs(job'[s]) : playerLock'[q] = s
               /\ phase'[s] = "locking" => ~(Needs(job'[s]) \subseteq Held(s)')
               /\ potLock' = s <=> phase'[s] = "jackpot"
               /\ ~Planned(s)' => writes'[s] = NoWrites
    <3>1. CASE s = r
      BY <1>1, <1>3, <1>5, <2>1, <2>2, <3>1 DEF LocksHeld, Planned, Held, tables
    <3>2. CASE s # r
      <4>1. \A q \in Needs(job[s]) : phase[s] \in {"locked", "planned", "jackpot"} => q # p
        BY <1>1, <2>1, <3>2, RequestAssumption DEF LocksHeld
      <4>2. phase[s] # "idle" => Needs(job[s]) \subseteq Player
        BY <2>1, <1>2 DEF LocksHeld, TypeOK, IsTable
      <4> QED BY <1>1, <1>5, <2>1, <2>3, <3>2, <4>1, <4>2 DEF LocksHeld, Planned, tables
    <3> QED BY <3>1, <3>2
  <2>5. ASSUME NEW q \in Player, NEW s \in Request, playerLock'[q] = s
        PROVE  phase'[s] # "idle" /\ q \in Needs(job'[s])
    <3>1. CASE q = p
      BY <1>1, <1>4, <1>5, <2>5, <3>1
    <3>2. CASE q # p
      <4>1. playerLock[q] = s
        BY <1>5, <2>5, <3>2
      <4>2. phase[s] # "idle" /\ q \in Needs(job[s])
        BY <2>1, <4>1 DEF LocksHeld
      <4> QED BY <1>1, <1>5, <4>2
    <3> QED BY <3>1, <3>2
  <2> QED BY <2>4, <2>5 DEF LocksHeld, Planned
<1>8. PlansFit'
  <2> SUFFICES ASSUME NEW s \in Request, Planned(s)' PROVE PlanFits(s)'
    BY DEF PlansFit
  <2>1. s # r
    BY <1>5 DEF Planned
  <2>2. phase'[s] = phase[s] /\ job'[s] = job[s] /\ writes'[s] = writes[s] /\ UNCHANGED tables
    BY <1>1, <1>5, <2>1
  <2> QED BY <2>2, PlanKept
<1>9. RowsOwned'
  BY <1>1 DEF IInv, RowsOwned, tables
<1>10. OneActive(hands)' /\ LedgerExplainsBalance'
  BY <1>1, TablesKept
<1> QED BY <1>6, <1>7, <1>8, <1>9, <1>10 DEF IInv

(* A request ends without writing.                                          *)
LEMMA EndInv ==
  ASSUME IInv, NEW r \in Request, phase[r] # "idle", End(r), UNCHANGED <<tables, clock>>
  PROVE  IInv'
<1>1. TypeOK /\ LocksHeld
  BY DEF IInv
<1>2. /\ phase \in [Request -> Phase] /\ playerLock \in [Player -> Request \cup {Free}]
      /\ potLock \in Request \cup {Free}
      /\ job \in [Request -> Job \cup {NoJob}] /\ DOMAIN writes = Request
  BY <1>1 DEF TypeOK
<1>3. /\ phase'[r] = "idle" /\ job'[r] = NoJob /\ writes'[r] = NoWrites
      /\ \A s \in Request : s # r => phase'[s] = phase[s] /\ job'[s] = job[s] /\ writes'[s] = writes[s]
  BY <1>2 DEF End
<1>4. /\ \A q \in Player : playerLock'[q] = IF playerLock[q] = r THEN Free ELSE playerLock[q]
      /\ potLock' = IF potLock = r THEN Free ELSE potLock
  BY DEF End
<1>5. TypeOK'
  <2>1. IsWrites(NoWrites)
    <3>1. IsTable(NoRows, Player, PlayerRow)
      BY TableTypes
    <3> QED BY <3>1, DraftWrites DEF NoWrites
  <2>2. \A s \in Request : IsWrites(writes'[s])
    BY <1>1, <1>3, <2>1 DEF TypeOK
  <2>3. phase' \in [Request -> Phase] /\ job' \in [Request -> Job \cup {NoJob}] /\ DOMAIN writes' = Request
    BY <1>2 DEF End, Phase
  <2>4. playerLock' \in [Player -> Request \cup {Free}] /\ potLock' \in Request \cup {Free}
    BY <1>2 DEF End
  <2> QED BY <1>1, <2>2, <2>3, <2>4 DEF TypeOK, tables
<1>6. LocksHeld'
  <2>1. \A s \in Request : s # r => Held(s)' = Held(s)
    BY <1>4, RequestAssumption DEF Held
  <2>2. ASSUME NEW s \in Request
        PROVE  /\ phase'[s] = "idle" => job'[s] = NoJob
               /\ phase'[s] # "idle" => job'[s] \in Job /\ Needs(job'[s]) \subseteq DOMAIN players'
               /\ phase'[s] \in {"locked", "planned", "jackpot"} =>
                    \A q \in Needs(job'[s]) : playerLock'[q] = s
               /\ phase'[s] = "locking" => ~(Needs(job'[s]) \subseteq Held(s)')
               /\ potLock' = s <=> phase'[s] = "jackpot"
               /\ ~Planned(s)' => writes'[s] = NoWrites
    <3>1. CASE s = r
      BY <1>3, <1>4, <3>1, RequestAssumption DEF Planned
    <3>2. CASE s # r
      <4>1. phase[s] # "idle" => Needs(job[s]) \subseteq Player
        BY <1>1 DEF LocksHeld, TypeOK, IsTable
      <4>2. potLock' = s <=> potLock = s
        BY <1>4, <3>2, RequestAssumption
      <4> QED BY <1>1, <1>3, <1>4, <2>1, <3>2, <4>1, <4>2 DEF LocksHeld, Planned, tables
    <3> QED BY <3>1, <3>2
  <2>3. ASSUME NEW q \in Player, NEW s \in Request, playerLock'[q] = s
        PROVE  phase'[s] # "idle" /\ q \in Needs(job'[s])
    BY <1>1, <1>3, <1>4, <2>3, RequestAssumption DEF LocksHeld
  <2> QED BY <2>2, <2>3 DEF LocksHeld, Planned
<1>7. PlansFit'
  <2> SUFFICES ASSUME NEW s \in Request, Planned(s)' PROVE PlanFits(s)'
    BY DEF PlansFit
  <2>1. s # r
    BY <1>3 DEF Planned
  <2> QED BY <1>3, <2>1, PlanKept
<1>8. RowsOwned'
  BY <1>3 DEF IInv, RowsOwned, tables, NoJob, StartJob, GiftJob
<1>9. OneActive(hands)' /\ LedgerExplainsBalance'
  BY TablesKept
<1> QED BY <1>5, <1>6, <1>7, <1>8, <1>9 DEF IInv

LEMMA TickInv ==
  ASSUME IInv, Tick
  PROVE  IInv'
<1>1. UNCHANGED tables /\ UNCHANGED locks /\ UNCHANGED <<phase, job, writes>> /\ clock' = clock + 1
  BY DEF Tick
<1>2. TypeOK'
  BY <1>1 DEF IInv, TypeOK, tables, locks
<1>3. LocksHeld'
  BY <1>1 DEF IInv, LocksHeld, Planned, Held, tables, locks
<1>4. PlansFit'
  <2> SUFFICES ASSUME NEW s \in Request, Planned(s)' PROVE PlanFits(s)'
    BY DEF PlansFit
  <2> QED BY <1>1, PlanKept
<1>5. RowsOwned'
  BY <1>1 DEF IInv, RowsOwned, tables
<1>6. OneActive(hands)' /\ LedgerExplainsBalance'
  BY <1>1, TablesKept
<1> QED BY <1>2, <1>3, <1>4, <1>5, <1>6 DEF IInv

------------------------------------------------------------------------------
(* A locked request plans rows that fit.                                    *)
LEMMA PlanInv ==
  ASSUME IInv, NEW r \in Request, phase[r] = "locked", NEW w, Plan(r, w),
         PlansFor(w, Needs(job[r]), players), HandFits(w, job[r]), GiftFits(w, job[r])
  PROVE  IInv'
<1>1. /\ UNCHANGED tables /\ UNCHANGED locks /\ UNCHANGED <<job, clock>>
      /\ phase' = [phase EXCEPT ![r] = "planned"] /\ writes' = [writes EXCEPT ![r] = w]
  BY DEF Plan
<1>2. TypeOK /\ LocksHeld
  BY DEF IInv
<1>3. /\ phase'[r] = "planned" /\ writes'[r] = w
      /\ \A s \in Request : s # r => phase'[s] = phase[s] /\ writes'[s] = writes[s]
  BY <1>1, <1>2 DEF TypeOK
<1>4. TypeOK'
  <2>1. IsWrites(w)
    BY DEF PlansFor
  <2>2. \A s \in Request : IsWrites(writes'[s])
    BY <1>2, <1>3, <2>1 DEF TypeOK
  <2>3. phase' \in [Request -> Phase] /\ DOMAIN writes' = Request
    BY <1>1, <1>2 DEF TypeOK, Phase
  <2> QED BY <1>1, <1>2, <2>2, <2>3 DEF TypeOK, tables, locks
<1>5. LocksHeld'
  <2>1. ASSUME NEW s \in Request
        PROVE  /\ phase'[s] = "idle" => job'[s] = NoJob
               /\ phase'[s] # "idle" => job'[s] \in Job /\ Needs(job'[s]) \subseteq DOMAIN players'
               /\ phase'[s] \in {"locked", "planned", "jackpot"} =>
                    \A q \in Needs(job'[s]) : playerLock'[q] = s
               /\ phase'[s] = "locking" => ~(Needs(job'[s]) \subseteq Held(s)')
               /\ potLock' = s <=> phase'[s] = "jackpot"
               /\ ~Planned(s)' => writes'[s] = NoWrites
    BY <1>1, <1>2, <1>3 DEF LocksHeld, Planned, Held, locks, tables
  <2>2. ASSUME NEW q \in Player, NEW s \in Request, playerLock'[q] = s
        PROVE  phase'[s] # "idle" /\ q \in Needs(job'[s])
    BY <1>1, <1>2, <1>3, <2>2 DEF LocksHeld, locks
  <2> QED BY <2>1, <2>2 DEF LocksHeld, Planned
<1>6. PlansFit'
  <2> SUFFICES ASSUME NEW s \in Request, Planned(s)' PROVE PlanFits(s)'
    BY DEF PlansFit
  <2>1. CASE s # r
    <3>1. phase'[s] = phase[s] /\ job'[s] = job[s] /\ writes'[s] = writes[s] /\ UNCHANGED tables
      BY <1>1, <1>3, <2>1
    <3> QED BY <3>1, PlanKept
  <2>2. CASE s = r
    <3>1. writes'[s] = w /\ job'[s] = job[r] /\ players' = players /\ hands' = hands /\ gifts' = gifts
      BY <1>1, <1>3, <2>2 DEF tables
    <3>2. HandFits(writes[s], job[s])'
      BY <3>1 DEF HandFits, ActiveHand
    <3>3. GiftFits(writes[s], job[s])'
      BY <3>1 DEF GiftFits
    <3> QED BY <3>1, <3>2, <3>3 DEF PlanFits, PlansFor
  <2> QED BY <2>1, <2>2
<1>7. RowsOwned'
  BY <1>1 DEF IInv, RowsOwned, tables
<1>8. OneActive(hands)' /\ LedgerExplainsBalance'
  BY <1>1, TablesKept
<1> QED BY <1>4, <1>5, <1>6, <1>7, <1>8 DEF IInv

LEMMA JobOf ==
  ASSUME IInv, NEW r \in Request, phase[r] # "idle"
  PROVE  /\ job[r] \in Job /\ Needs(job[r]) \subseteq DOMAIN players
         /\ job[r].op \in {"start"} => job[r] \in StartJob
         /\ job[r].op \in {"act"} => job[r] \in ActJob
         /\ job[r].op \in ClaimKind => job[r] \in ClaimJob
         /\ job[r].op \in {"gift"} => job[r] \in GiftJob
<1>1. job[r] \in Job /\ Needs(job[r]) \subseteq DOMAIN players
  BY DEF IInv, LocksHeld
<1> QED BY <1>1 DEF Job, StartJob, ActJob, ClaimJob, GiftJob, ClaimKind

LEMMA StatsType ==
  ASSUME TypeOK, NEW p \in Player, NEW g \in Game
  PROVE  StatsOf(p, g) \in StatsRow
  BY DEF TypeOK, IsTable, StatsOf, NoStats, StatsRow

LEMMA PlanStartInv ==
  ASSUME IInv, NEW r \in Request, PlanStart(r)
  PROVE  IInv'
<1>1. PICK j : j = job[r]
  OBVIOUS
<1>2. PICK w : w = StartWrites(j.user, players[j.user], j.hand, j.game, j.dealt, StatsOf(j.user, j.game))
  OBVIOUS
<1>3. phase[r] = "locked" /\ j.op = "start" /\ StartAllowed(j) /\ Plan(r, w)
  BY <1>1, <1>2 DEF PlanStart
<1>4. TypeOK
  BY DEF IInv
<1>5. j \in StartJob /\ Needs(j) \subseteq DOMAIN players
  BY <1>1, <1>3, JobOf
<1>6. /\ j.user \in Player /\ j.hand \in HandId /\ j.game \in Game /\ j.dealt \in EngineState
      /\ Needs(j) = {j.user} /\ j.user \in DOMAIN players
  BY <1>3, <1>5 DEF StartJob, Needs
<1>7. PICK u, h, g, s, st : u = j.user /\ h = j.hand /\ g = j.game /\ s = j.dealt /\ st = StatsOf(u, g)
  OBVIOUS
<1>8. /\ u \in DOMAIN players /\ h \in HandId /\ g \in Game /\ s \in EngineState /\ st \in StatsRow
      /\ IsTable(players, Player, PlayerRow)
  BY <1>4, <1>6, <1>7, StatsType DEF TypeOK
<1>9. Affords(players[u], -s.staked) /\ w = StartWrites(u, players[u], h, g, s, st)
  BY <1>2, <1>3, <1>7 DEF StartAllowed
<1>10. PlansHand(w, u, h, g, players)
  BY <1>8, <1>9, StartPlans
<1>11. PlansFor(w, Needs(job[r]), players)
  BY <1>1, <1>6, <1>7, <1>10 DEF PlansHand
<1>12. HandFits(w, job[r])
  <2>1. h \notin DOMAIN hands /\ ~ActiveHand(u, g)
    BY <1>3, <1>7 DEF StartAllowed
  <2>2. h \in HandIdsOf[u]
    BY <1>1, <1>5, <1>7 DEF IInv, RowsOwned
  <2> QED BY <1>1, <1>3, <1>7, <1>10, <2>1, <2>2 DEF HandFits, PlansHand
<1>13. GiftFits(w, job[r])
  BY <1>10 DEF PlansHand, GiftFits
<1> QED BY <1>3, <1>11, <1>12, <1>13, PlanInv

LEMMA PlanActionInv ==
  ASSUME IInv, NEW r \in Request, PlanAction(r)
  PROVE  IInv'
<1>1. PICK j : j = job[r]
  OBVIOUS
<1>2. PICK t \in NextStates(j) :
        /\ ActionAllowed(j, t)
        /\ Plan(r, ActionWrites(players[j.user], j.hand, hands[j.hand], t,
                                StatsOf(j.user, hands[j.hand].game)))
  BY <1>1 DEF PlanAction
<1>3. PICK w : w = ActionWrites(players[j.user], j.hand, hands[j.hand], t, StatsOf(j.user, hands[j.hand].game))
  OBVIOUS
<1>4. phase[r] = "locked" /\ j.op = "act" /\ Plan(r, w)
  BY <1>1, <1>2, <1>3 DEF PlanAction
<1>5. TypeOK
  BY DEF IInv
<1>6. j \in ActJob /\ Needs(j) \subseteq DOMAIN players
  BY <1>1, <1>4, JobOf
<1>7. /\ j.user \in Player /\ j.hand \in HandId /\ j.action \in ActionType
      /\ Needs(j) = {j.user} /\ j.user \in DOMAIN players
  BY <1>4, <1>6 DEF ActJob, Needs
<1>8. j.hand \in DOMAIN hands
  BY <1>2 DEF NextStates
<1>9. PICK hand : hand = hands[j.hand]
  OBVIOUS
<1>10. hand \in HandRow /\ hand.state \in EngineState /\ hand.game \in Game
  BY <1>5, <1>8, <1>9 DEF TypeOK, IsTable, HandRow
<1>11. t \in EngineState
  <2>1. t \in Act[<<hand.state, j.action>>]
    BY <1>2, <1>8, <1>9 DEF NextStates
  <2>2. <<hand.state, j.action>> \in EngineState \X ActionType
    BY <1>7, <1>10
  <2>3. Act[<<hand.state, j.action>>] \in SUBSET EngineState
    BY <2>2, EngineAssumption
  <2> QED BY <2>1, <2>3
<1>12. hand.user = j.user /\ hand.status = "active"
       /\ (ExtraStake(hand, t) > 0 => Affords(players[hand.user], -ExtraStake(hand, t)))
  BY <1>2, <1>9 DEF ActionAllowed
<1>13. PICK h, st : h = j.hand /\ st = StatsOf(j.user, hand.game)
  OBVIOUS
<1>14. /\ hand.user \in DOMAIN players /\ h \in HandId /\ st \in StatsRow
       /\ IsTable(players, Player, PlayerRow)
  BY <1>5, <1>7, <1>10, <1>12, <1>13, StatsType DEF TypeOK
<1>15. w = ActionWrites(players[hand.user], h, hand, t, st)
  BY <1>3, <1>9, <1>12, <1>13
<1>16. PlansHand(w, hand.user, h, hand.game, players)
  BY <1>10, <1>11, <1>12, <1>14, <1>15, ActionPlans
<1>17. PlansFor(w, Needs(job[r]), players)
  BY <1>1, <1>7, <1>12, <1>16 DEF PlansHand
<1>18. HandFits(w, job[r])
  <2>1. h \in HandIdsOf[j.user]
    BY <1>8, <1>9, <1>12, <1>13 DEF IInv, RowsOwned
  <2> QED BY <1>1, <1>4, <1>8, <1>9, <1>12, <1>13, <1>16, <2>1 DEF HandFits, PlansHand
<1>19. GiftFits(w, job[r])
  BY <1>16 DEF PlansHand, GiftFits
<1> QED BY <1>4, <1>17, <1>18, <1>19, PlanInv

(* A plan without a hand or a gift, on the one row its request needs.       *)
LEMMA PlanClaimInv ==
  ASSUME IInv, NEW r \in Request, phase[r] = "locked", NEW w, Plan(r, w),
         PlansFor(w, Needs(job[r]), players), WithoutHand(w), DOMAIN w.gifts = {}
  PROVE  IInv'
<1>1. HandFits(w, job[r])
  BY DEF HandFits, WithoutHand
<1>2. GiftFits(w, job[r])
  BY DEF GiftFits
<1> QED BY <1>1, <1>2, PlanInv

LEMMA PlanDailyInv ==
  ASSUME IInv, NEW r \in Request, PlanDaily(r)
  PROVE  IInv'
<1>1. PICK j, u, day : j = job[r] /\ u = j.user /\ day = j.day
  OBVIOUS
<1>2. PICK w : w = DailyWrites(u, players[u], day)
  OBVIOUS
<1>3. phase[r] = "locked" /\ j.op = "daily_bonus" /\ Plan(r, w)
  BY <1>1, <1>2 DEF PlanDaily
<1>4. j \in ClaimJob /\ Needs(j) \subseteq DOMAIN players
  BY <1>1, <1>3, JobOf DEF ClaimKind
<1>5. Needs(j) = {u} /\ day \in Day /\ u \in DOMAIN players
  BY <1>1, <1>3, <1>4 DEF ClaimJob, Needs
<1>6. IsTable(players, Player, PlayerRow) /\ u \in DOMAIN players /\ day \in Day
  BY <1>5 DEF IInv, TypeOK
<1>7. PlansFor(w, {u}, players) /\ WithoutHand(w) /\ DOMAIN w.gifts = {}
  BY <1>2, <1>6, DailyPlans
<1> QED BY <1>1, <1>3, <1>5, <1>7, PlanClaimInv

LEMMA PlanBailoutInv ==
  ASSUME IInv, NEW r \in Request, PlanBailout(r)
  PROVE  IInv'
<1>1. PICK j, u, day : j = job[r] /\ u = j.user /\ day = j.day
  OBVIOUS
<1>2. PICK w : w = BailoutWrites(u, players[u], day)
  OBVIOUS
<1>3. phase[r] = "locked" /\ j.op = "bailout" /\ Plan(r, w) /\ players[u].balance < BailoutFloor
  BY <1>1, <1>2 DEF PlanBailout, BailoutAllowed
<1>4. j \in ClaimJob /\ Needs(j) \subseteq DOMAIN players
  BY <1>1, <1>3, JobOf DEF ClaimKind
<1>5. Needs(j) = {u} /\ day \in Day /\ u \in DOMAIN players
  BY <1>1, <1>3, <1>4 DEF ClaimJob, Needs
<1>6. IsTable(players, Player, PlayerRow) /\ u \in DOMAIN players /\ day \in Day
  BY <1>5 DEF IInv, TypeOK
<1>7. PlansFor(w, {u}, players) /\ WithoutHand(w) /\ DOMAIN w.gifts = {}
  BY <1>2, <1>3, <1>6, BailoutPlans
<1> QED BY <1>1, <1>3, <1>5, <1>7, PlanClaimInv

LEMMA PlanGiftInv ==
  ASSUME IInv, NEW r \in Request, PlanGift(r)
  PROVE  IInv'
<1>1. PICK j, p, q, id, g : j = job[r] /\ p = j.user /\ q = j.to /\ id = j.gift /\ g = GiftRowOf(j)
  OBVIOUS
<1>2. PICK w : w = GiftWrites(players[p], players[q], id, g)
  OBVIOUS
<1>3. phase[r] = "locked" /\ j.op = "gift" /\ SendAllowed(j) /\ Plan(r, w)
  BY <1>1, <1>2 DEF PlanGift
<1>4. j \in GiftJob /\ Needs(j) \subseteq DOMAIN players
  BY <1>1, <1>3, JobOf
<1>5. /\ Needs(j) = {p, q} /\ p \in DOMAIN players /\ q \in DOMAIN players /\ id \in GiftId
      /\ g \in GiftRow /\ p = g.from /\ q = g.to
  BY <1>1, <1>3, <1>4 DEF GiftJob, GiftRow, GiftRowOf, Needs
<1>6. p # q /\ id \in GiftIdsOf[j.user]
  BY <1>1, <1>4 DEF IInv, RowsOwned
<1>7. GiftAllowed(players[p], players[q], g) /\ id \notin DOMAIN gifts
  BY <1>1, <1>3 DEF SendAllowed
<1>8. IsTable(players, Player, PlayerRow)
  BY DEF IInv, TypeOK
<1>9. PlansFor(w, {p, q}, players) /\ WithoutHand(w) /\ DOMAIN w.gifts = {id}
  BY <1>2, <1>5, <1>6, <1>7, <1>8, GiftPlans, SMTT(40)
<1>10. PlansFor(w, Needs(job[r]), players)
  BY <1>1, <1>5, <1>9
<1>11. HandFits(w, job[r])
  BY <1>9 DEF HandFits, WithoutHand
<1>12. GiftFits(w, job[r])
  BY <1>1, <1>3, <1>6, <1>7, <1>9 DEF GiftFits
<1> QED BY <1>3, <1>10, <1>11, <1>12, PlanInv

(* The row of the jackpot is locked by whoever has planned a hit.           *)
LEMMA LockJackpotInv ==
  ASSUME IInv, NEW r \in Request, LockJackpot(r)
  PROVE  IInv'
<1>1. PICK j, w, u, h : j = job[r] /\ w = writes[r] /\ u = job[r].user /\ h = job[r].hand
  OBVIOUS
<1>2. PICK v : v = PayJackpot(w, u, h, pot)
  OBVIOUS
<1>3. /\ UNCHANGED tables /\ UNCHANGED <<playerLock, job, clock>>
      /\ phase[r] = "planned" /\ w.hit /\ potLock = Free /\ potLock' = r
      /\ phase' = [phase EXCEPT ![r] = "jackpot"] /\ writes' = [writes EXCEPT ![r] = v]
  BY <1>1, <1>2 DEF LockJackpot
<1>4. TypeOK /\ LocksHeld /\ PlanFits(r)
  BY <1>3 DEF IInv, PlansFit, Planned
<1>5. /\ phase'[r] = "jackpot" /\ writes'[r] = v
      /\ \A s \in Request : s # r => phase'[s] = phase[s] /\ writes'[s] = writes[s]
  BY <1>3, <1>4 DEF TypeOK
<1>6. /\ DOMAIN w.hands = {h} /\ h \in HandId /\ u \in DOMAIN w.players /\ pot \in Nat
      /\ IsTable(players, Player, PlayerRow) /\ PlansFor(w, Needs(j), players)
  <2>1. IsWrites(w) /\ LedgerFits(w, players) /\ DOMAIN w.players = Needs(j) /\ u \in Needs(j)
    BY <1>1, <1>4 DEF PlanFits, TypeOK, Needs
  <2>2. \A k \in DOMAIN w.hands : k = h /\ k \in HandId
    BY <1>1, <1>4, <2>1 DEF PlanFits, HandFits, IsWrites, IsTable
  <2>3. DOMAIN w.hands # {}
    BY <1>1, <1>3, <1>4 DEF PlanFits, HandFits
  <2> QED BY <1>4, <2>1, <2>2, <2>3 DEF TypeOK, PlansFor
<1>7. /\ PlansFor(v, Needs(j), players) /\ v.hands = w.hands /\ v.gifts = w.gifts
      /\ DOMAIN v.hits = {h} /\ v.hit = w.hit
  BY <1>2, <1>6, JackpotPlans
<1>8. TypeOK'
  <2>1. IsWrites(v)
    BY <1>7 DEF PlansFor
  <2>2. \A s \in Request : IsWrites(writes'[s])
    BY <1>4, <1>5, <2>1 DEF TypeOK
  <2>3. phase' \in [Request -> Phase] /\ DOMAIN writes' = Request
    BY <1>3, <1>4 DEF TypeOK, Phase
  <2> QED BY <1>3, <1>4, <2>2, <2>3 DEF TypeOK, tables
<1>9. LocksHeld'
  <2>1. ASSUME NEW s \in Request
        PROVE  /\ phase'[s] = "idle" => job'[s] = NoJob
               /\ phase'[s] # "idle" => job'[s] \in Job /\ Needs(job'[s]) \subseteq DOMAIN players'
               /\ phase'[s] \in {"locked", "planned", "jackpot"} =>
                    \A q \in Needs(job'[s]) : playerLock'[q] = s
               /\ phase'[s] = "locking" => ~(Needs(job'[s]) \subseteq Held(s)')
               /\ potLock' = s <=> phase'[s] = "jackpot"
               /\ ~Planned(s)' => writes'[s] = NoWrites
    <3>1. phase[s] # "jackpot"
      BY <1>3, <1>4, RequestAssumption DEF LocksHeld
    <3> QED BY <1>3, <1>4, <1>5, <3>1 DEF LocksHeld, Planned, Held, tables
  <2>2. ASSUME NEW q \in Player, NEW s \in Request, playerLock'[q] = s
        PROVE  phase'[s] # "idle" /\ q \in Needs(job'[s])
    BY <1>3, <1>4, <1>5, <2>2 DEF LocksHeld
  <2> QED BY <2>1, <2>2 DEF LocksHeld, Planned
<1>10. PlansFit'
  <2> SUFFICES ASSUME NEW s \in Request, Planned(s)' PROVE PlanFits(s)'
    BY DEF PlansFit
  <2>1. CASE s # r
    <3>1. phase'[s] = phase[s] /\ job'[s] = job[s] /\ writes'[s] = writes[s] /\ UNCHANGED tables
      BY <1>3, <1>5, <2>1
    <3> QED BY <3>1, PlanKept
  <2>2. CASE s = r
    <3>1. writes'[s] = v /\ job'[s] = j /\ players' = players /\ hands' = hands /\ gifts' = gifts
      BY <1>1, <1>3, <1>5, <2>2 DEF tables
    <3>2. HandFits(w, j) /\ GiftFits(w, j)
      BY <1>1, <1>4 DEF PlanFits
    <3>5. v.hit
      BY <1>3, <1>7
    <3>6. \A k \in DOMAIN v.hands : v.hands[k].status = "settled"
      BY <1>3, <1>7, <3>2 DEF HandFits
    <3>7. HandFits(v, j)
      BY <1>6, <1>7, <3>2, <3>5, <3>6 DEF HandFits
    <3>3. HandFits(writes[s], job[s])'
      BY <3>1, <3>7 DEF HandFits, ActiveHand
    <3>4. GiftFits(writes[s], job[s])'
      BY <1>7, <3>1, <3>2 DEF GiftFits
    <3> QED BY <1>7, <3>1, <3>3, <3>4 DEF PlanFits, PlansFor
  <2> QED BY <2>1, <2>2
<1>11. RowsOwned'
  BY <1>3 DEF IInv, RowsOwned, tables
<1>12. OneActive(hands)' /\ LedgerExplainsBalance'
  BY <1>3, TablesKept
<1> QED BY <1>8, <1>9, <1>10, <1>11, <1>12 DEF IInv

------------------------------------------------------------------------------
(* Committed rows continue the ledger.                                      *)

LEMMA CommitLedger ==
  ASSUME TypeOK, LedgerExplainsBalance, NEW w, IsWrites(w), LedgerFits(w, players),
         players' = [p \in DOMAIN players |->
                       IF p \in DOMAIN w.players THEN w.players[p] ELSE players[p]],
         ledger' = Overlay(ledger, w.ledger)
  PROVE  LedgerExplainsBalance'
<1>1. DOMAIN w.players \subseteq DOMAIN players
  BY DEF LedgerFits
<1>2. players' = Overlay(players, w.players)
  BY <1>1 DEF Overlay
<1> QED BY <1>2, LedgerGoesOn DEF TypeOK, LedgerExplainsBalance

(* What a plan that fits would write meets no key and no active hand.       *)
LEMMA PlanMeetsNothing ==
  ASSUME IInv, NEW r \in Request, PlanFits(r)
  PROVE  ~Conflicts(writes[r])
<1> DEFINE w == writes[r]
           j == job[r]
<1>1. /\ LedgerFits(w, players) /\ HandFits(w, j) /\ GiftFits(w, j)
      /\ TypeOK /\ LedgerExplainsBalance /\ OneActive(hands) /\ RowsOwned
  BY DEF IInv, PlanFits
<1> HIDE DEF w, j
<1>2. DOMAIN w.ledger \cap DOMAIN ledger = {}
  <2> SUFFICES ASSUME NEW k \in DOMAIN w.ledger, k \in DOMAIN ledger PROVE FALSE
    OBVIOUS
  <2>1. k[1] \in DOMAIN players /\ k[2] \in 1 .. players[k[1]].ledgerSeq
    BY <1>1 DEF LedgerExplainsBalance, Explains
  <2>2. k[2] \in players[k[1]].ledgerSeq + 1 .. w.players[k[1]].ledgerSeq
    BY <1>1 DEF LedgerFits
  <2>3. players[k[1]].ledgerSeq \in Nat
    BY <1>1, <2>1 DEF TypeOK, IsTable, PlayerRow
  <2> QED BY <2>1, <2>2, <2>3
<1>3. DOMAIN w.gifts \cap DOMAIN gifts = {}
  BY <1>1 DEF GiftFits
<1>4. DOMAIN w.hits \cap DOMAIN hits = {}
  BY <1>1 DEF HandFits, RowsOwned
<1>5. OneActive(Upsert(hands, w.hands))
  <2> DEFINE t == Upsert(hands, w.hands)
  <2>1. /\ DOMAIN t = DOMAIN hands \cup DOMAIN w.hands
        /\ \A h \in DOMAIN hands \ DOMAIN w.hands : t[h] = hands[h]
    BY DEF Upsert
  <2>2. \A h \in DOMAIN w.hands :
          /\ h = j.hand /\ t[h].user = j.user
          /\ h \in DOMAIN hands => /\ hands[h].user = j.user /\ hands[h].game = t[h].game
                                   /\ hands[h].status = "active"
          /\ h \notin DOMAIN hands => ~ActiveHand(j.user, t[h].game)
    <3> TAKE h \in DOMAIN w.hands
    <3>1. /\ h = j.hand /\ w.hands[h].user = j.user
          /\ h \in DOMAIN hands => /\ hands[h].user = j.user /\ hands[h].game = w.hands[h].game
                                   /\ hands[h].status = "active"
          /\ h \notin DOMAIN hands => ~ActiveHand(j.user, w.hands[h].game)
      BY <1>1 DEF HandFits
    <3>2. CASE h \in DOMAIN hands
      <4>1. t[h] = [w.hands[h] EXCEPT !.user = hands[h].user, !.game = hands[h].game]
        BY <3>2 DEF Upsert
      <4>2. hands[h] \in HandRow /\ w.hands[h] \in HandRow
        BY <1>1, <3>2 DEF TypeOK, IsTable, IsWrites, w
      <4>3. t[h].user = hands[h].user /\ t[h].game = hands[h].game
        BY <4>1, <4>2 DEF HandRow
      <4> QED BY <3>1, <3>2, <4>3
    <3>3. CASE h \notin DOMAIN hands
      <4>1. t[h] = w.hands[h]
        BY <3>3 DEF Upsert
      <4> QED BY <3>1, <3>3, <4>1
    <3> QED BY <3>2, <3>3
  <2> HIDE DEF t
  <2>3. ASSUME NEW h \in DOMAIN t, NEW k \in DOMAIN t,
               t[h].status = "active", t[k].status = "active",
               t[h].user = t[k].user, t[h].game = t[k].game,
               h \in DOMAIN w.hands, k \notin DOMAIN w.hands
        PROVE  h = k
    <3>1. k \in DOMAIN hands /\ hands[k].status = "active" /\ hands[k].user = j.user /\ hands[k].game = t[h].game
      BY <2>1, <2>2, <2>3
    <3>2. CASE h \in DOMAIN hands
      BY <1>1, <2>2, <2>3, <3>1, <3>2 DEF OneActive
    <3>3. CASE h \notin DOMAIN hands
      BY <2>2, <2>3, <3>1, <3>3 DEF ActiveHand
    <3> QED BY <3>2, <3>3
  <2>4. ASSUME NEW h \in DOMAIN t, NEW k \in DOMAIN t,
               t[h].status = "active", t[k].status = "active",
               t[h].user = t[k].user, t[h].game = t[k].game
        PROVE  h = k
    <3>1. CASE h \in DOMAIN w.hands /\ k \in DOMAIN w.hands
      BY <2>2, <3>1
    <3>2. CASE h \in DOMAIN w.hands /\ k \notin DOMAIN w.hands
      BY <2>3, <2>4, <3>2
    <3>3. CASE h \notin DOMAIN w.hands /\ k \in DOMAIN w.hands
      <4>1. k = h
        BY <2>3, <2>4, <3>3
      <4> QED BY <4>1
    <3>4. CASE h \notin DOMAIN w.hands /\ k \notin DOMAIN w.hands
      BY <1>1, <2>1, <2>4, <3>4 DEF OneActive
    <3> QED BY <3>1, <3>2, <3>3, <3>4
  <2> QED BY <2>4 DEF OneActive, t
<1> QED BY <1>2, <1>3, <1>4, <1>5 DEF Conflicts, w

(* Requests that hold rows at the same time are of different players.       *)
LEMMA OthersDiffer ==
  ASSUME IInv, NEW r \in Request, NEW s \in Request, r # s, Planned(r), Planned(s)
  PROVE  Needs(job[r]) \cap Needs(job[s]) = {}
<1>1. /\ \A p \in Needs(job[r]) : playerLock[p] = r
      /\ \A p \in Needs(job[s]) : playerLock[p] = s
  BY DEF IInv, LocksHeld, Planned
<1> QED BY <1>1

(* The tables after a commit have their types.                              *)
LEMMA CommitTypes ==
  ASSUME TypeOK, NEW r \in Request, Commit(r), LedgerFits(writes[r], players)
  PROVE  /\ IsTable(players, Player, PlayerRow)' /\ IsTable(ledger, Player \X Nat, Entry)'
         /\ IsTable(hands, HandId, HandRow)' /\ IsTable(gifts, GiftId, GiftRow)'
         /\ IsTable(stats, Player \X Game, StatsRow)' /\ IsTable(hits, HandId, Nat)'
         /\ pot' \in Nat
<1> DEFINE w == writes[r]
<1>1. IsWrites(w)
  BY DEF TypeOK
<1>2. IsTable(players, Player, PlayerRow)'
  <2>1. DOMAIN players' = DOMAIN players
    BY DEF Commit
  <2>2. \A p \in DOMAIN players : players'[p] \in PlayerRow
    BY <1>1 DEF Commit, TypeOK, IsWrites, IsTable
  <2>3. players' = [p \in DOMAIN players' |-> players'[p]]
    BY DEF Commit
  <2> QED BY <2>1, <2>2, <2>3 DEF TypeOK, IsTable
<1>3. IsTable(ledger, Player \X Nat, Entry)'
  <2>1. IsTable(ledger, Player \X Nat, Entry) /\ IsTable(w.ledger, Player \X Nat, Entry)
    BY <1>1 DEF TypeOK, IsWrites
  <2>2. ledger' = Overlay(ledger, w.ledger)
    BY DEF Commit
  <2> QED BY <2>1, <2>2, OverlayTable
<1>4. IsTable(hands, HandId, HandRow)'
  <2>1. hands' = Upsert(hands, w.hands)
    BY DEF Commit
  <2>2. \A h \in DOMAIN w.hands : w.hands[h] \in HandRow /\ h \in HandId
    BY <1>1 DEF IsWrites, IsTable
  <2>3. \A h \in DOMAIN hands : hands[h] \in HandRow /\ h \in HandId
    BY DEF TypeOK, IsTable
  <2>4. ASSUME NEW h \in DOMAIN hands'
        PROVE  hands'[h] \in HandRow
    <3>1. CASE h \notin DOMAIN w.hands
      BY <2>1, <2>3, <3>1 DEF Upsert
    <3>2. CASE h \in DOMAIN w.hands /\ h \in DOMAIN hands
      <4>1. hands'[h] = [w.hands[h] EXCEPT !.user = hands[h].user, !.game = hands[h].game]
        BY <2>1, <3>2 DEF Upsert
      <4> QED BY <2>2, <2>3, <3>2, <4>1 DEF HandRow
    <3>3. CASE h \in DOMAIN w.hands /\ h \notin DOMAIN hands
      BY <2>1, <2>2, <3>3 DEF Upsert
    <3> QED BY <3>1, <3>2, <3>3
  <2>5. DOMAIN hands' \subseteq HandId
    BY <2>1, <2>2, <2>3 DEF Upsert
  <2>6. hands' = [h \in DOMAIN hands' |-> hands'[h]]
    BY <2>1 DEF Upsert
  <2> QED BY <2>4, <2>5, <2>6 DEF IsTable
<1>5. IsTable(gifts, GiftId, GiftRow)'
  <2>1. IsTable(gifts, GiftId, GiftRow) /\ IsTable(w.gifts, GiftId, GiftRow)
    BY <1>1 DEF TypeOK, IsWrites
  <2>2. gifts' = Overlay(gifts, w.gifts)
    BY DEF Commit
  <2> QED BY <2>1, <2>2, OverlayTable
<1>6. IsTable(stats, Player \X Game, StatsRow)'
  <2>1. IsTable(stats, Player \X Game, StatsRow) /\ IsTable(w.stats, Player \X Game, StatsRow)
    BY <1>1 DEF TypeOK, IsWrites
  <2>2. stats' = Overlay(stats, w.stats)
    BY DEF Commit
  <2> QED BY <2>1, <2>2, OverlayTable
<1>7. IsTable(hits, HandId, Nat)'
  <2>1. IsTable(hits, HandId, Nat) /\ IsTable(w.hits, HandId, Nat)
    BY <1>1 DEF TypeOK, IsWrites
  <2>2. hits' = Overlay(hits, w.hits)
    BY DEF Commit
  <2> QED BY <2>1, <2>2, OverlayTable
<1>8. pot' \in Nat
  BY <1>1, EconomyAssumption DEF Commit, TypeOK, IsWrites
<1> QED BY <1>2, <1>3, <1>4, <1>5, <1>6, <1>7, <1>8

LEMMA CommitInv ==
  ASSUME DistinctIds, IInv, NEW r \in Request, Commit(r)
  PROVE  IInv'
<1> DEFINE w == writes[r]
           j == job[r]
<1>1. Planned(r) /\ ~Conflicts(w) /\ End(r) /\ clock' = clock
  BY DEF Commit, MayCommit, Planned
<1>2. TypeOK /\ LocksHeld /\ PlanFits(r) /\ RowsOwned
  BY <1>1 DEF IInv, PlansFit
<1>3. /\ IsWrites(w) /\ LedgerFits(w, players) /\ HandFits(w, j) /\ GiftFits(w, j)
      /\ DOMAIN w.players = Needs(j)
  BY <1>2 DEF TypeOK, PlanFits
<1>4. /\ phase'[r] = "idle" /\ job'[r] = NoJob /\ writes'[r] = NoWrites
      /\ \A s \in Request : s # r => phase'[s] = phase[s] /\ job'[s] = job[s] /\ writes'[s] = writes[s]
  BY <1>1, <1>2 DEF End, TypeOK
<1>5. /\ \A q \in Player : playerLock'[q] = IF playerLock[q] = r THEN Free ELSE playerLock[q]
      /\ potLock' = IF potLock = r THEN Free ELSE potLock
  BY <1>1 DEF End
<1>6. /\ DOMAIN players' = DOMAIN players
      /\ \A p \in DOMAIN players : p \notin DOMAIN w.players => players'[p] = players[p]
  BY DEF Commit
<1>7. TypeOK'
  <2>1. IsWrites(NoWrites)
    <3>1. IsTable(NoRows, Player, PlayerRow)
      BY TableTypes
    <3> QED BY <3>1, DraftWrites DEF NoWrites
  <2>2. \A s \in Request : IsWrites(writes'[s])
    BY <1>2, <1>4, <2>1 DEF TypeOK
  <2>3. phase' \in [Request -> Phase] /\ job' \in [Request -> Job \cup {NoJob}] /\ DOMAIN writes' = Request
    BY <1>1, <1>2 DEF TypeOK, End, Phase
  <2>4. playerLock' \in [Player -> Request \cup {Free}] /\ potLock' \in Request \cup {Free}
    BY <1>1, <1>2 DEF TypeOK, End
  <2>5. /\ IsTable(players, Player, PlayerRow)' /\ IsTable(ledger, Player \X Nat, Entry)'
        /\ IsTable(hands, HandId, HandRow)' /\ IsTable(gifts, GiftId, GiftRow)'
        /\ IsTable(stats, Player \X Game, StatsRow)' /\ IsTable(hits, HandId, Nat)'
        /\ pot' \in Nat
    BY <1>2, <1>3, CommitTypes
  <2>6. clock' \in Nat
    BY <1>1, <1>2 DEF TypeOK
  <2> QED BY <2>2, <2>3, <2>4, <2>5, <2>6 DEF TypeOK
<1>8. LocksHeld'
  <2>1. \A s \in Request : s # r => Held(s)' = Held(s)
    BY <1>5, RequestAssumption DEF Held
  <2>2. ASSUME NEW s \in Request
        PROVE  /\ phase'[s] = "idle" => job'[s] = NoJob
               /\ phase'[s] # "idle" => job'[s] \in Job /\ Needs(job'[s]) \subseteq DOMAIN players'
               /\ phase'[s] \in {"locked", "planned", "jackpot"} =>
                    \A q \in Needs(job'[s]) : playerLock'[q] = s
               /\ phase'[s] = "locking" => ~(Needs(job'[s]) \subseteq Held(s)')
               /\ potLock' = s <=> phase'[s] = "jackpot"
               /\ ~Planned(s)' => writes'[s] = NoWrites
    <3>1. CASE s = r
      BY <1>4, <1>5, <3>1, RequestAssumption DEF Planned
    <3>2. CASE s # r
      <4>1. phase[s] # "idle" => Needs(job[s]) \subseteq Player
        BY <1>2 DEF LocksHeld, TypeOK, IsTable
      <4>2. potLock' = s <=> potLock = s
        BY <1>5, <3>2, RequestAssumption
      <4> QED BY <1>2, <1>4, <1>5, <1>6, <2>1, <3>2, <4>1, <4>2 DEF LocksHeld, Planned
    <3> QED BY <3>1, <3>2
  <2>3. ASSUME NEW q \in Player, NEW s \in Request, playerLock'[q] = s
        PROVE  phase'[s] # "idle" /\ q \in Needs(job'[s])
    BY <1>2, <1>4, <1>5, <2>3, RequestAssumption DEF LocksHeld
  <2> QED BY <2>2, <2>3 DEF LocksHeld, Planned
<1>9. /\ hands' = Upsert(hands, w.hands)
      /\ DOMAIN hands' = DOMAIN hands \cup DOMAIN w.hands
      /\ \A h \in DOMAIN hands : h \notin DOMAIN w.hands => hands'[h] = hands[h]
  BY DEF Commit, Upsert
<1>10. \A h \in DOMAIN w.hands :
         /\ h = j.hand /\ h \in HandIdsOf[j.user] /\ hands'[h].user = j.user
         /\ hands'[h].status = w.hands[h].status
         /\ h \in DOMAIN hands => hands[h].status = "active" /\ hands[h].user = j.user
  <2> TAKE h \in DOMAIN w.hands
  <2>1. /\ h = j.hand /\ h \in HandIdsOf[j.user] /\ w.hands[h].user = j.user
        /\ h \in DOMAIN hands => hands[h].status = "active" /\ hands[h].user = j.user
    BY <1>3 DEF HandFits
  <2>2. CASE h \in DOMAIN hands
    <3>1. hands'[h] = [w.hands[h] EXCEPT !.user = hands[h].user, !.game = hands[h].game]
      BY <1>9, <2>2 DEF Upsert
    <3>2. w.hands[h] \in HandRow /\ hands[h] \in HandRow
      BY <1>2, <1>3, <2>2 DEF TypeOK, IsTable, IsWrites
    <3>3. hands'[h].user = hands[h].user /\ hands'[h].status = w.hands[h].status
      BY <3>1, <3>2 DEF HandRow
    <3> QED BY <2>1, <2>2, <3>3
  <2>3. CASE h \notin DOMAIN hands
    <3>1. hands'[h] = w.hands[h]
      BY <1>9, <2>3 DEF Upsert
    <3> QED BY <2>1, <2>3, <3>1
  <2> QED BY <2>2, <2>3
<1>11. j \in Job /\ j.user \in Needs(j) /\ j.user \in Player
  <2>1. j \in Job
    BY <1>1, <1>2 DEF LocksHeld, Planned
  <2>2. j.user \in Needs(j)
    BY DEF Needs
  <2> QED BY <2>1, <2>2, NeedsPlayers
<1>12. PlansFit'
  <2> SUFFICES ASSUME NEW s \in Request, Planned(s)' PROVE PlanFits(s)'
    BY DEF PlansFit
  <2>12. PICK x, k : x = writes[s] /\ k = job[s]
    OBVIOUS
  <2>1. s # r
    BY <1>4 DEF Planned
  <2>2. writes'[s] = x /\ job'[s] = k /\ Planned(s)
    BY <1>4, <2>1, <2>12 DEF Planned
  <2>3. /\ DOMAIN x.players = Needs(k) /\ LedgerFits(x, players) /\ HandFits(x, k) /\ GiftFits(x, k)
    BY <2>2, <2>12 DEF IInv, PlansFit, PlanFits
  <2>4. Needs(j) \cap Needs(k) = {}
    BY <1>1, <2>1, <2>2, <2>12, OthersDiffer
  <2>5. k \in Job /\ k.user \in Player /\ k.user # j.user
    <3>1. k \in Job
      BY <1>2, <2>2, <2>12 DEF LocksHeld, Planned
    <3>2. k.user \in Needs(k)
      BY DEF Needs
    <3> QED BY <1>11, <2>4, <3>1, <3>2, NeedsPlayers
  <2>6. HandIdsOf[j.user] \cap HandIdsOf[k.user] = {} /\ GiftIdsOf[j.user] \cap GiftIdsOf[k.user] = {}
    BY <1>11, <2>5 DEF DistinctIds
  <2> HIDE DEF w, j
  <2>7. LedgerFits(x, players')
    <3>1. \A p \in DOMAIN x.players : p \in DOMAIN players /\ players'[p] = players[p]
      BY <1>3, <1>6, <2>3, <2>4 DEF LedgerFits
    <3> QED BY <1>6, <2>3, <3>1 DEF LedgerFits, Continues, After
  <2>8. HandFits(x, k)'
    <3>1. \A h \in DOMAIN x.hands : h \notin DOMAIN w.hands
      BY <1>10, <2>3, <2>6 DEF HandFits
    <3>2. \A h \in DOMAIN x.hands : h \in DOMAIN hands' <=> h \in DOMAIN hands
      BY <1>9, <3>1
    <3>3. \A h \in DOMAIN x.hands : h \in DOMAIN hands => hands'[h] = hands[h]
      BY <1>9, <3>1
    <3>4. \A g : ~ActiveHand(k.user, g) => ~ActiveHand(k.user, g)'
      BY <1>9, <1>10, <2>5 DEF ActiveHand
    <3> QED BY <2>2, <2>3, <3>2, <3>3, <3>4 DEF HandFits
  <2>9. GiftFits(x, k)'
    <3>1. DOMAIN gifts' = DOMAIN gifts \cup DOMAIN w.gifts
      BY DEF Commit, Overlay, w
    <3>2. \A id \in DOMAIN x.gifts : id \notin DOMAIN w.gifts
      BY <1>3, <2>3, <2>6 DEF GiftFits
    <3> QED BY <2>2, <2>3, <3>1, <3>2 DEF GiftFits
  <2>10. writes'[s] = x /\ job'[s] = k
    BY <2>2
  <2>11. HandFits(writes[s], job[s])' /\ GiftFits(writes[s], job[s])'
    BY <2>8, <2>9, <2>10 DEF HandFits, GiftFits, ActiveHand
  <2> QED BY <2>3, <2>7, <2>10, <2>11 DEF PlanFits
<1>13. RowsOwned'
  <2>1. \A h \in DOMAIN hands' : h \in HandIdsOf[hands'[h].user]
    BY <1>2, <1>9, <1>10 DEF RowsOwned
  <2>2. DOMAIN hits' = DOMAIN hits \cup DOMAIN w.hits
    BY DEF Commit, Overlay
  <2>3. \A h \in DOMAIN hits : h \in DOMAIN hands /\ hands[h].status = "settled"
    BY <1>2 DEF RowsOwned
  <2>4. \A h \in DOMAIN w.hits : h \in DOMAIN w.hands /\ w.hands[h].status = "settled"
    BY <1>3 DEF HandFits
  <2>5. \A h \in DOMAIN hits' : h \in DOMAIN hands' /\ hands'[h].status = "settled"
    BY <1>9, <1>10, <2>2, <2>3, <2>4
  <2>6. /\ \A s \in Request : job'[s] \in StartJob => job'[s].hand \in HandIdsOf[job'[s].user]
        /\ \A s \in Request : job'[s] \in GiftJob =>
             job'[s].gift \in GiftIdsOf[job'[s].user] /\ job'[s].to # job'[s].user
    BY <1>2, <1>4 DEF RowsOwned, NoJob, StartJob, GiftJob
  <2> QED BY <2>1, <2>5, <2>6 DEF RowsOwned
<1>14. OneActive(hands)'
  BY <1>1, <1>9 DEF Conflicts
<1>15. LedgerExplainsBalance'
  <2>1. /\ players' = [p \in DOMAIN players |-> IF p \in DOMAIN w.players THEN w.players[p] ELSE players[p]]
        /\ ledger' = Overlay(ledger, w.ledger)
    BY DEF Commit
  <2>2. LedgerExplainsBalance
    BY DEF IInv
  <2> QED BY <1>2, <1>3, <2>1, <2>2, CommitLedger
<1> QED BY <1>7, <1>8, <1>12, <1>13, <1>14, <1>15 DEF IInv

------------------------------------------------------------------------------

LEMMA EnsurePlayerInv ==
  ASSUME IInv, NEW p \in Player, EnsurePlayer(p)
  PROVE  IInv'
<1>1. PICK new : new = NewPlayer(p)
  OBVIOUS
<1>2. /\ IsWrites(new) /\ DOMAIN new.players = {p} /\ DOMAIN new.ledger = {<<p, 1>>}
      /\ new.players[p].ledgerSeq = 1 /\ new.players[p].balance = StartingBalance
      /\ new.ledger[<<p, 1>>].balanceAfter = StartingBalance
      /\ new.ledger[<<p, 1>>].amount = StartingBalance
  BY <1>1, NewPlayerRows
<1>3. /\ p \notin DOMAIN players
      /\ players' = Overlay(players, new.players) /\ ledger' = Overlay(ledger, new.ledger)
      /\ UNCHANGED <<hands, gifts, stats, hits, pot, locks, phase, job, writes, clock>>
  BY <1>1 DEF EnsurePlayer
<1>4. TypeOK /\ LocksHeld /\ RowsOwned /\ OneActive(hands) /\ LedgerExplainsBalance
  BY DEF IInv
<1>5. /\ DOMAIN players' = DOMAIN players \cup {p} /\ players'[p] = new.players[p]
      /\ \A q \in DOMAIN players : players'[q] = players[q]
  BY <1>2, <1>3 DEF Overlay
<1>6. TypeOK'
  <2>1. IsTable(players', Player, PlayerRow)
    <3>1. IsTable(players, Player, PlayerRow) /\ IsTable(new.players, Player, PlayerRow)
      BY <1>2, <1>4 DEF TypeOK, IsWrites
    <3> QED BY <1>3, <3>1, OverlayTable
  <2>2. IsTable(ledger', Player \X Nat, Entry)
    <3>1. IsTable(ledger, Player \X Nat, Entry) /\ IsTable(new.ledger, Player \X Nat, Entry)
      BY <1>2, <1>4 DEF TypeOK, IsWrites
    <3> QED BY <1>3, <3>1, OverlayTable
  <2> QED BY <1>3, <1>4, <2>1, <2>2 DEF TypeOK, locks
<1>7. LocksHeld'
  BY <1>3, <1>4, <1>5 DEF LocksHeld, Planned, Held, locks
<1>8. PlansFit'
  <2> SUFFICES ASSUME NEW s \in Request, Planned(s)' PROVE PlanFits(s)'
    BY DEF PlansFit
  <2>1. PlanFits(s)
    BY <1>3 DEF Planned, IInv, PlansFit
  <2>2. PICK x, k : x = writes[s] /\ k = job[s]
    OBVIOUS
  <2>3. writes'[s] = x /\ job'[s] = k
    BY <1>3, <2>2
  <2>4. LedgerFits(x, players')
    <3>1. LedgerFits(x, players)
      BY <2>1, <2>2 DEF PlanFits
    <3>2. \A q \in DOMAIN x.players : q \in DOMAIN players /\ players'[q] = players[q]
      BY <1>5, <3>1 DEF LedgerFits
    <3> QED BY <1>5, <3>1, <3>2 DEF LedgerFits, Continues, After
  <2>5. HandFits(writes[s], job[s])' /\ GiftFits(writes[s], job[s])'
    BY <1>3, <2>1 DEF PlanFits, HandFits, GiftFits, ActiveHand
  <2> QED BY <2>1, <2>2, <2>3, <2>4, <2>5 DEF PlanFits
<1>9. RowsOwned'
  BY <1>3, <1>4 DEF RowsOwned
<1>10. OneActive(hands)'
  BY <1>3, <1>4 DEF OneActive
<1>11. LedgerExplainsBalance'
  <2>1. /\ IsTable(players, Player, PlayerRow) /\ IsTable(ledger, Player \X Nat, Entry)
        /\ Explains(ledger, players)
    BY <1>4 DEF TypeOK, LedgerExplainsBalance
  <2>2. PICK rows, book : rows = players' /\ book = ledger'
    OBVIOUS
  <2>3. Explains(book, rows)
    BY <1>1, <1>3, <2>1, <2>2, LedgerOpens
  <2> QED BY <2>2, <2>3 DEF LedgerExplainsBalance
<1> QED BY <1>6, <1>7, <1>8, <1>9, <1>10, <1>11 DEF IInv

------------------------------------------------------------------------------
(* Every step keeps IInv, provided clients never share an id.               *)
LEMMA NextInv ==
  ASSUME DistinctIds, IInv, [Next]_vars
  PROVE  IInv'
<1>1. ASSUME NEW p \in Player, EnsurePlayer(p) PROVE IInv'
  BY <1>1, EnsurePlayerInv
<1>2. ASSUME NEW r \in Request, Begin(r) PROVE IInv'
  BY <1>2, BeginInv
<1>3. ASSUME NEW r \in Request, Step(r) PROVE IInv'
  <2>1. CASE LockPlayer(r)
    BY <2>1, LockPlayerInv
  <2>2. CASE PlanStart(r)
    BY <2>2, PlanStartInv
  <2>3. CASE PlanAction(r)
    BY <2>3, PlanActionInv
  <2>4. CASE PlanDaily(r)
    BY <2>4, PlanDailyInv
  <2>5. CASE PlanBailout(r)
    BY <2>5, PlanBailoutInv
  <2>6. CASE PlanGift(r)
    BY <2>6, PlanGiftInv
  <2>7. CASE Answer(r)
    BY <2>7, EndInv DEF Answer
  <2>8. CASE LockJackpot(r)
    BY <2>8, LockJackpotInv
  <2>9. CASE Commit(r)
    BY <2>9, CommitInv
  <2> QED BY <1>3, <2>1, <2>2, <2>3, <2>4, <2>5, <2>6, <2>7, <2>8, <2>9 DEF Step
<1>4. ASSUME NEW r \in Request, Abort(r) PROVE IInv'
  BY <1>4, EndInv DEF Abort
<1>5. ASSUME Tick PROVE IInv'
  BY <1>5, TickInv
<1>6. ASSUME UNCHANGED vars PROVE IInv'
  <2>1. UNCHANGED tables /\ UNCHANGED locks /\ UNCHANGED <<phase, job, writes, clock>>
    BY <1>6 DEF vars
  <2>2. TypeOK'
    BY <2>1 DEF IInv, TypeOK, tables, locks
  <2>3. LocksHeld'
    BY <2>1 DEF IInv, LocksHeld, Planned, Held, tables, locks
  <2>4. PlansFit'
    <3> SUFFICES ASSUME NEW s \in Request, Planned(s)' PROVE PlanFits(s)'
      BY DEF PlansFit
    <3> QED BY <2>1, PlanKept
  <2>5. RowsOwned'
    BY <2>1 DEF IInv, RowsOwned, tables
  <2>6. OneActive(hands)' /\ LedgerExplainsBalance'
    BY <2>1, TablesKept
  <2> QED BY <2>2, <2>3, <2>4, <2>5, <2>6 DEF IInv
<1> QED BY <1>1, <1>2, <1>3, <1>4, <1>5, <1>6 DEF Next

(* The inductive invariant holds throughout: a request's plan still fits    *)
(* the tables when it commits, because it holds its players' rows from its  *)
(* reads to its commit (postgres.ts:329 and 659, FOR UPDATE).               *)
THEOREM AlwaysIInv ==
  ASSUME DistinctIds
  PROVE  Spec => []IInv
<1>1. Init => IInv
  BY InitInv
<1>2. IInv /\ [Next]_vars => IInv'
  BY NextInv
<1> QED BY <1>1, <1>2, PTL DEF Spec

(* Every table keeps its types, so no balance is ever negative (the check   *)
(* "balance >= 0" of migrations/0001_init.sql never fires).                 *)
THEOREM AlwaysTypeOK ==
  ASSUME DistinctIds
  PROVE  Spec => []TypeOK
<1>1. IInv => TypeOK
  BY DEF IInv
<1> QED BY <1>1, AlwaysIInv, PTL

(* For any number of players, games and concurrent requests, the ledger     *)
(* explains every balance (economy.ts:76-80).                               *)
THEOREM AlwaysLedgerExplainsBalance ==
  ASSUME DistinctIds
  PROVE  Spec => []LedgerExplainsBalance
<1>1. IInv => LedgerExplainsBalance
  BY DEF IInv
<1> QED BY <1>1, AlwaysIInv, PTL

(* No transaction reaches a write that a primary key or the one-active-hand *)
(* index refuses (postgres.ts:31-34, 351-359).                              *)
THEOREM AlwaysNothingConflicts ==
  ASSUME DistinctIds
  PROVE  Spec => []NothingConflicts
<1>1. IInv => NothingConflicts
  BY PlanMeetsNothing DEF IInv, PlansFit, Planned, NothingConflicts
<1> QED BY <1>1, AlwaysIInv, PTL

(* A settled hand is never changed again, whatever requests, retries and    *)
(* rollbacks follow (hands.ts:179, postgres.ts:365-381).                    *)
THEOREM AlwaysSettledForGood ==
  ASSUME DistinctIds
  PROVE  Spec => SettledForGood
<1> DEFINE Kept == \A h \in DOMAIN hands :
                     hands[h].status = "settled" => h \in DOMAIN hands' /\ hands'[h] = hands[h]
<1>1. ASSUME IInv, [Next]_vars PROVE [Kept]_vars
  <2>1. ASSUME NEW r \in Request, Commit(r) PROVE Kept
    <3>1. PlanFits(r)
      BY <1>1, <2>1 DEF IInv, PlansFit, Planned, Commit, MayCommit
    <3>2. \A h \in DOMAIN writes[r].hands : h \in DOMAIN hands => hands[h].status = "active"
      BY <3>1 DEF PlanFits, HandFits
    <3>3. hands' = Upsert(hands, writes[r].hands)
      BY <2>1 DEF Commit
    <3>4. /\ DOMAIN hands \subseteq DOMAIN hands'
          /\ \A h \in DOMAIN hands : h \notin DOMAIN writes[r].hands => hands'[h] = hands[h]
      BY <3>3 DEF Upsert
    <3> QED BY <3>2, <3>4
  <2>2. ASSUME hands' = hands PROVE Kept
    BY <2>2
  <2>3. (\E r \in Request : Commit(r)) \/ hands' = hands
    BY <1>1 DEF Next, Begin, Step, EnsurePlayer, PostHands, PostAction, PostClaim, PostGift, Arrive,
                LockPlayer, PlanStart, PlanAction, PlanDaily, PlanBailout, PlanGift, Plan, Answer,
                LockJackpot, Abort, Tick, vars, tables
  <2> QED BY <2>1, <2>2, <2>3
<1>2. IInv /\ [Next]_vars => [Kept]_vars
  BY <1>1
<1> QED BY <1>2, AlwaysIInv, PTL DEF Spec, SettledForGood

------------------------------------------------------------------------------
(* Three promises that only interleaving could break, for any number of     *)
(* players, hands and requests: a hand moves one version at a time, and     *)
(* only for a request that saw the version it moves on from; a gift never   *)
(* takes its sender under the bailout floor; requests never wait for each   *)
(* other in a ring.                                                         *)

(* What a request planned for a stored hand is the step after the version   *)
(* the hand has now, which is the version its client saw.                   *)
ActFits(r) ==
  \A h \in DOMAIN writes[r].hands : h \in DOMAIN hands =>
    /\ job[r].op = "act" /\ job[r].hand = h
    /\ job[r].version = hands[h].version
    /\ writes[r].hands[h].version = hands[h].version + 1

ActsFit == \A r \in Request : Planned(r) => ActFits(r)

------------------------------------------------------------------------------
(* A credit keeps the shape of a draft.                                     *)
LEMMA PostDomain ==
  ASSUME NEW w, NEW u, NEW kind, NEW amount, NEW ref, NEW v, v = Post(w, u, kind, amount, ref)
  PROVE  DOMAIN v = DOMAIN w
  BY DEF Post

(* Settling a hand, or not, keeps its version.                              *)
LEMMA FinishVersion ==
  ASSUME NEW hand \in HandRow, NEW h \in HandId, NEW tally,
         NEW w, "hands" \in DOMAIN w, NEW v, v = Finish(w, h, hand, tally)
  PROVE  DOMAIN v.hands = {h} /\ v.hands[h].version = hand.version
<1>1. CASE hand.state.finished
  <2>1. PICK s : s = hand.state
    OBVIOUS
  <2>2. PICK kept : kept = [hand EXCEPT !.status = "settled", !.returned = s.returned]
    OBVIOUS
  <2>3. PICK paid : paid = IF RestToPay(s) > 0 THEN Post(w, hand.user, "payout", RestToPay(s), h) ELSE w
    OBVIOUS
  <2>4. DOMAIN paid = DOMAIN w
    BY <2>3, PostDomain
  <2>5. v = [paid EXCEPT !.hands = Row(h, kept),
                         !.stats = Row(<<hand.user, hand.game>>, Folded(tally, hand)),
                         !.contribution = 2 * s.jackpotStake,
                         !.hit = s.jackpotEligible]
    BY <1>1, <2>1, <2>2, <2>3 DEF Finish, SettleHand
  <2>6. v.hands = Row(h, kept)
    BY <2>4, <2>5
  <2>7. kept.version = hand.version
    BY <2>2 DEF HandRow
  <2> QED BY <2>6, <2>7 DEF Row
<1>2. CASE ~hand.state.finished
  <2>1. v = [w EXCEPT !.hands = Row(h, hand)]
    BY <1>2 DEF Finish
  <2>2. v.hands = Row(h, hand)
    BY <2>1
  <2> QED BY <2>2 DEF Row
<1> QED BY <1>1, <1>2

(* planAction plans the next version of the hand it read (hands.ts:210).     *)
LEMMA ActionVersion ==
  ASSUME NEW row, NEW hand \in HandRow, NEW h \in HandId, NEW t \in EngineState, NEW st,
         NEW v, v = ActionWrites(row, h, hand, t, st)
  PROVE  DOMAIN v.hands = {h} /\ v.hands[h].version = hand.version + 1
<1> DEFINE extra == ExtraStake(hand, t)
           more  == ExtraEarly(hand, t)
<1>1. PICK none : none = Draft(Row(hand.user, row))
  OBVIOUS
<1>2. PICK bet : bet = IF extra > 0 THEN Post(none, hand.user, "bet", -extra, h) ELSE none
  OBVIOUS
<1>3. PICK early : early = IF more > 0 THEN Post(bet, hand.user, "payout", more, h) ELSE bet
  OBVIOUS
<1>4. PICK next : next = [hand EXCEPT !.version = hand.version + 1, !.state = t,
                            !.wagered = IF extra > 0 THEN hand.wagered + extra ELSE hand.wagered]
  OBVIOUS
<1>5. v = Finish(early, h, next, st)
  BY <1>1, <1>2, <1>3, <1>4 DEF ActionWrites
<1>6. /\ hand.wagered \in Nat /\ hand.version \in Nat /\ extra \in Int
  BY EngineAssumption DEF HandRow, EngineView, ExtraStake
<1> HIDE DEF extra, more
<1>7. "hands" \in DOMAIN early
  <2>1. "hands" \in DOMAIN none
    BY <1>1 DEF Draft
  <2>2. DOMAIN bet = DOMAIN none
    BY <1>2, PostDomain
  <2>3. DOMAIN early = DOMAIN bet
    BY <1>3, PostDomain
  <2> QED BY <2>1, <2>2, <2>3
<1>8. next \in HandRow /\ next.version = hand.version + 1
  <2>1. (IF extra > 0 THEN hand.wagered + extra ELSE hand.wagered) \in Nat
    BY <1>6
  <2>2. hand.version + 1 \in Nat
    BY <1>6
  <2> QED BY <1>4, <2>1, <2>2 DEF HandRow
<1> QED BY <1>5, <1>7, <1>8, FinishVersion

------------------------------------------------------------------------------
(* The tables and the plan a step leaves alone still fit each other.        *)
LEMMA ActKept ==
  ASSUME NEW r \in Request, ActFits(r), UNCHANGED hands,
         job'[r] = job[r], writes'[r].hands = writes[r].hands
  PROVE  ActFits(r)'
  BY DEF ActFits

(* A step that plans nothing new and keeps the hands keeps ActsFit.         *)
LEMMA ActsKept ==
  ASSUME ActsFit, UNCHANGED hands,
         \A s \in Request : Planned(s)' => /\ Planned(s) /\ job'[s] = job[s]
                                           /\ writes'[s].hands = writes[s].hands
  PROVE  ActsFit'
<1> SUFFICES ASSUME NEW s \in Request, Planned(s)' PROVE ActFits(s)'
  BY DEF ActsFit
<1>1. ActFits(s)
  BY DEF ActsFit
<1> QED BY <1>1, ActKept

(* A request plans: only its own plan is new.                               *)
LEMMA PlanActs ==
  ASSUME IInv, ActsFit, NEW r \in Request, NEW w, Plan(r, w),
         \A h \in DOMAIN w.hands : h \in DOMAIN hands =>
           /\ job[r].op = "act" /\ job[r].hand = h
           /\ job[r].version = hands[h].version
           /\ w.hands[h].version = hands[h].version + 1
  PROVE  ActsFit'
<1>1. /\ UNCHANGED <<hands, job>>
      /\ phase' = [phase EXCEPT ![r] = "planned"] /\ writes' = [writes EXCEPT ![r] = w]
  BY DEF Plan, tables
<1>2. /\ writes'[r] = w
      /\ \A s \in Request : s # r => phase'[s] = phase[s] /\ writes'[s] = writes[s]
  BY <1>1 DEF IInv, TypeOK
<1> SUFFICES ASSUME NEW s \in Request, Planned(s)' PROVE ActFits(s)'
  BY DEF ActsFit
<1>3. CASE s = r
  BY <1>1, <1>2, <1>3 DEF ActFits
<1>4. CASE s # r
  <2>1. ActFits(s)
    BY <1>2, <1>4 DEF ActsFit, Planned
  <2> QED BY <1>1, <1>2, <1>4, <2>1, ActKept
<1> QED BY <1>3, <1>4

(* Only an action plans a hand that is stored already.                      *)
LEMMA PlanElseActs ==
  ASSUME IInv, IInv', ActsFit, NEW r \in Request, NEW w, Plan(r, w), job[r].op # "act",
         job[r].op = "start" => job[r].hand \notin DOMAIN hands
  PROVE  ActsFit'
<1>1. phase'[r] = "planned" /\ writes'[r] = w /\ job'[r] = job[r]
  BY DEF Plan, IInv, TypeOK
<1>2. PlanFits(r)'
  BY <1>1 DEF IInv, PlansFit, Planned
<1>3. \A h \in DOMAIN w.hands : job[r].op \in {"start", "act"} /\ h = job[r].hand
  BY <1>1, <1>2 DEF PlanFits, HandFits
<1> QED BY <1>3, PlanActs

LEMMA PlanActionActs ==
  ASSUME IInv, ActsFit, NEW r \in Request, PlanAction(r)
  PROVE  ActsFit'
<1>1. PICK j : j = job[r]
  OBVIOUS
<1>2. PICK t \in NextStates(j) :
        /\ ActionAllowed(j, t)
        /\ Plan(r, ActionWrites(players[j.user], j.hand, hands[j.hand], t,
                                StatsOf(j.user, hands[j.hand].game)))
  BY <1>1 DEF PlanAction
<1>3. PICK row, h, hand, st :
        row = players[j.user] /\ h = j.hand /\ hand = hands[h] /\ st = StatsOf(j.user, hand.game)
  OBVIOUS
<1>4. PICK w : w = ActionWrites(row, h, hand, t, st)
  OBVIOUS
<1>5. phase[r] = "locked" /\ j.op = "act" /\ Plan(r, w) /\ hand.version = j.version
  BY <1>1, <1>2, <1>3, <1>4 DEF PlanAction, ActionAllowed
<1>6. h \in DOMAIN hands /\ h \in HandId /\ hand \in HandRow /\ hand.state \in EngineState
  BY <1>2, <1>3 DEF NextStates, IInv, TypeOK, IsTable, HandRow
<1>7. t \in EngineState
  <2>1. j.action \in ActionType
    BY <1>1, <1>5, JobOf DEF ActJob
  <2>2. <<hand.state, j.action>> \in EngineState \X ActionType
    BY <1>6, <2>1
  <2>3. Act[<<hand.state, j.action>>] \in SUBSET EngineState
    BY <2>2, EngineAssumption
  <2>4. t \in Act[<<hand.state, j.action>>]
    BY <1>2, <1>3, <1>6 DEF NextStates
  <2> QED BY <2>3, <2>4
<1>8. DOMAIN w.hands = {h} /\ w.hands[h].version = hand.version + 1
  BY <1>4, <1>6, <1>7, ActionVersion
<1> QED BY <1>1, <1>3, <1>5, <1>8, PlanActs

(* The jackpot's share of a plan leaves its hand alone.                     *)
LEMMA LockJackpotActs ==
  ASSUME IInv, ActsFit, NEW r \in Request, LockJackpot(r)
  PROVE  ActsFit'
<1>1. PICK w, v : w = writes[r] /\ v = PayJackpot(w, job[r].user, job[r].hand, pot)
  OBVIOUS
<1>2. /\ UNCHANGED <<hands, job>> /\ phase[r] = "planned"
      /\ phase' = [phase EXCEPT ![r] = "jackpot"] /\ writes' = [writes EXCEPT ![r] = v]
  BY <1>1 DEF LockJackpot, tables
<1>3. v.hands = w.hands
  BY <1>1 DEF PayJackpot, Post, IInv, TypeOK, IsWrites
<1>4. \A s \in Request : s # r => phase'[s] = phase[s] /\ writes'[s] = writes[s]
  BY <1>2 DEF IInv, TypeOK
<1>5. writes'[r] = v
  BY <1>2 DEF IInv, TypeOK
<1> QED BY <1>1, <1>2, <1>3, <1>4, <1>5, ActsKept DEF Planned

------------------------------------------------------------------------------
(* What a commit does to a stored hand it writes.                           *)
LEMMA CommitHand ==
  ASSUME IInv, NEW r \in Request, Commit(r), NEW h \in DOMAIN hands, h \in DOMAIN writes[r].hands
  PROVE  hands'[h].version = writes[r].hands[h].version
<1>1. PICK new : new = writes[r].hands[h]
  OBVIOUS
<1>2. hands'[h] = [new EXCEPT !.user = hands[h].user, !.game = hands[h].game]
  BY <1>1 DEF Commit, Upsert
<1>3. new \in HandRow
  BY <1>1 DEF IInv, TypeOK, IsWrites, IsTable
<1> QED BY <1>1, <1>2, <1>3 DEF HandRow

(* The hands of the requests still running are not the ones this one writes. *)
LEMMA CommitActs ==
  ASSUME DistinctIds, IInv, ActsFit, NEW r \in Request, Commit(r)
  PROVE  ActsFit'
<1>1. Planned(r) /\ End(r) /\ hands' = Upsert(hands, writes[r].hands)
  BY DEF Commit, MayCommit, Planned
<1>2. /\ phase'[r] = "idle"
      /\ \A s \in Request : s # r => phase'[s] = phase[s] /\ job'[s] = job[s] /\ writes'[s] = writes[s]
  BY <1>1 DEF End, IInv, TypeOK
<1> SUFFICES ASSUME NEW s \in Request, Planned(s)' PROVE ActFits(s)'
  BY DEF ActsFit
<1>3. s # r /\ Planned(s)
  BY <1>2 DEF Planned
<1>4. ActFits(s) /\ PlanFits(r) /\ PlanFits(s)
  BY <1>1, <1>3 DEF ActsFit, IInv, PlansFit
<1>5. HandIdsOf[job[r].user] \cap HandIdsOf[job[s].user] = {}
  <2>1. Needs(job[r]) \cap Needs(job[s]) = {}
    BY <1>1, <1>3, OthersDiffer
  <2>2. /\ job[r].user \in Needs(job[r]) /\ job[s].user \in Needs(job[s])
    BY DEF Needs
  <2>3. Needs(job[r]) \subseteq Player /\ Needs(job[s]) \subseteq Player
    BY <1>1, <1>3, NeedsPlayers DEF IInv, LocksHeld, Planned
  <2> QED BY <2>1, <2>2, <2>3 DEF DistinctIds
<1>6. \A h \in DOMAIN writes[s].hands : h \notin DOMAIN writes[r].hands
  BY <1>4, <1>5 DEF PlanFits, HandFits
<1>7. \A h \in DOMAIN writes[s].hands : /\ h \in DOMAIN hands' <=> h \in DOMAIN hands
                                        /\ h \in DOMAIN hands => hands'[h] = hands[h]
  BY <1>1, <1>6 DEF Upsert
<1> QED BY <1>2, <1>3, <1>4, <1>7 DEF ActFits

------------------------------------------------------------------------------
LEMMA NextActs ==
  ASSUME DistinctIds, IInv, IInv', ActsFit, [Next]_vars
  PROVE  ActsFit'
<1>1. ASSUME NEW p \in Player, EnsurePlayer(p) PROVE ActsFit'
  BY <1>1, ActsKept DEF EnsurePlayer, Planned
<1>2. ASSUME NEW r \in Request, Begin(r) PROVE ActsFit'
  <2>1. PICK j : Arrive(r, j)
    BY <1>2 DEF Begin, PostHands, PostAction, PostClaim, PostGift
  <2>2. UNCHANGED <<hands, writes>> /\ phase[r] = "idle"
        /\ phase' = [phase EXCEPT ![r] = "locking"] /\ job' = [job EXCEPT ![r] = j]
    BY <2>1 DEF Arrive, tables
  <2>3. \A s \in Request : /\ s # r => phase'[s] = phase[s] /\ job'[s] = job[s]
                           /\ phase'[r] = "locking"
    BY <2>2 DEF IInv, TypeOK
  <2> QED BY <2>2, <2>3, ActsKept DEF Planned
<1>3. ASSUME NEW r \in Request, LockPlayer(r) PROVE ActsFit'
  <2>1. PICK to \in {"locked", "locking"} : phase' = [phase EXCEPT ![r] = to]
    BY <1>3 DEF LockPlayer
  <2>2. UNCHANGED <<hands, job, writes>>
    BY <1>3 DEF LockPlayer, tables
  <2>3. \A s \in Request : Planned(s)' => Planned(s)
    BY <2>1 DEF Planned, IInv, TypeOK
  <2> QED BY <2>2, <2>3, ActsKept
<1>4. ASSUME NEW r \in Request, PlanStart(r) PROVE ActsFit'
  BY <1>4, PlanElseActs DEF PlanStart, StartAllowed
<1>5. ASSUME NEW r \in Request, PlanDaily(r) \/ PlanBailout(r) \/ PlanGift(r) PROVE ActsFit'
  BY <1>5, PlanElseActs DEF PlanDaily, PlanBailout, PlanGift
<1>6. ASSUME NEW r \in Request, End(r), UNCHANGED hands PROVE ActsFit'
  <2>1. /\ phase'[r] = "idle"
        /\ \A s \in Request : s # r => phase'[s] = phase[s] /\ job'[s] = job[s] /\ writes'[s] = writes[s]
    BY <1>6 DEF End, IInv, TypeOK
  <2> QED BY <1>6, <2>1, ActsKept DEF Planned
<1>7. ASSUME NEW r \in Request, Answer(r) \/ Abort(r) PROVE ActsFit'
  BY <1>6, <1>7 DEF Answer, Abort, tables
<1>8. ASSUME NEW r \in Request, Step(r) PROVE ActsFit'
  BY <1>3, <1>4, <1>5, <1>7, <1>8, PlanActionActs, LockJackpotActs, CommitActs DEF Step
<1>9. ASSUME Tick \/ UNCHANGED vars PROVE ActsFit'
  BY <1>9, ActsKept DEF Tick, vars, tables, Planned
<1> QED BY <1>1, <1>2, <1>7, <1>8, <1>9 DEF Next

(* What a request is about to store for a hand is always the step after the *)
(* version it saw and the table still has (hands.ts:176 and 210).           *)
THEOREM AlwaysActsFit ==
  ASSUME DistinctIds
  PROVE  Spec => [](IInv /\ ActsFit)
<1>1. Init => IInv /\ ActsFit
  BY InitInv DEF Init, ActsFit, Planned
<1>2. IInv /\ ActsFit /\ [Next]_vars => (IInv /\ ActsFit)'
  BY NextInv, NextActs
<1> QED BY <1>1, <1>2, PTL DEF Spec

(* A double tap never acts twice, and no action is lost under another: each *)
(* change of a hand moves it by one version, and is the end of an action    *)
(* whose client saw the version before (hands.ts:176 and 210).              *)
THEOREM AlwaysStaleNeverActs ==
  ASSUME DistinctIds
  PROVE  Spec => StaleNeverActs
<1> DEFINE Acts == \A h \in DOMAIN hands :
                     hands'[h] # hands[h] =>
                       /\ hands'[h].version = hands[h].version + 1
                       /\ \E r \in Request : /\ job[r].op = "act" /\ job[r].hand = h
                                             /\ job[r].version = hands[h].version
                                             /\ phase[r] # "idle" /\ phase'[r] = "idle"
<1>1. ASSUME IInv, ActsFit, [Next]_vars PROVE [Acts]_vars
  <2>1. ASSUME NEW r \in Request, Commit(r) PROVE Acts
    <3> SUFFICES ASSUME NEW h \in DOMAIN hands, hands'[h] # hands[h]
                 PROVE  /\ hands'[h].version = hands[h].version + 1
                        /\ job[r].op = "act" /\ job[r].hand = h /\ job[r].version = hands[h].version
                        /\ phase[r] # "idle" /\ phase'[r] = "idle"
      OBVIOUS
    <3>1. h \in DOMAIN writes[r].hands
      BY <2>1 DEF Commit, Upsert
    <3>2. Planned(r) /\ phase[r] # "idle" /\ phase'[r] = "idle"
      BY <1>1, <2>1 DEF Commit, MayCommit, Planned, End, IInv, TypeOK
    <3>3. ActFits(r)
      BY <1>1, <3>2 DEF ActsFit
    <3>4. hands'[h].version = writes[r].hands[h].version
      BY <1>1, <2>1, <3>1, CommitHand
    <3> QED BY <3>1, <3>2, <3>3, <3>4 DEF ActFits
  <2>2. ASSUME hands' = hands PROVE Acts
    BY <2>2
  <2>3. (\E r \in Request : Commit(r)) \/ hands' = hands
    BY <1>1 DEF Next, Begin, Step, EnsurePlayer, PostHands, PostAction, PostClaim, PostGift, Arrive,
                LockPlayer, PlanStart, PlanAction, PlanDaily, PlanBailout, PlanGift, Plan, Answer,
                LockJackpot, Abort, Tick, vars, tables
  <2> QED BY <2>1, <2>2, <2>3
<1>2. IInv /\ ActsFit /\ [Next]_vars => [Acts]_vars
  BY <1>1
<1> QED BY <1>2, AlwaysActsFit, PTL DEF Spec, StaleNeverActs

------------------------------------------------------------------------------
(* A draft whose gifts leave their senders at the floor or above.           *)
Sound(w) ==
  /\ "ledger" \in DOMAIN w
  /\ \A k \in DOMAIN w.ledger :
       w.ledger[k].kind = "gift_out" => w.ledger[k].balanceAfter >= BailoutFloor

PlansSound == \A r \in Request : Planned(r) => Sound(writes[r])

LEMMA DraftSound == ASSUME NEW rows PROVE Sound(Draft(rows))
  BY DEF Sound, Draft, NoRows

LEMMA PostSound ==
  ASSUME NEW w, Sound(w), NEW u, NEW kind, NEW amount, NEW ref,
         kind = "gift_out" => w.players[u].balance + amount >= BailoutFloor,
         NEW v, v = Post(w, u, kind, amount, ref)
  PROVE  Sound(v)
<1>1. PICK key, entry : /\ key = <<u, w.players[u].ledgerSeq + 1>>
                        /\ entry = [kind |-> kind, amount |-> amount,
                                    balanceAfter |-> w.players[u].balance + amount, ref |-> ref]
  OBVIOUS
<1>2. "ledger" \in DOMAIN v /\ v.ledger = Put(w.ledger, key, entry)
  BY <1>1 DEF Post, Sound
<1>3. entry.kind = "gift_out" => entry.balanceAfter >= BailoutFloor
  BY <1>1
<1>4. DOMAIN v.ledger = DOMAIN w.ledger \cup {key}
      /\ \A k \in DOMAIN v.ledger : v.ledger[k] = IF k = key THEN entry ELSE w.ledger[k]
  BY <1>2 DEF Put
<1> QED BY <1>2, <1>3, <1>4 DEF Sound

(* Hands write bets and payouts, claims write bonuses.                      *)
LEMMA FinishSound ==
  ASSUME NEW w, Sound(w), NEW h, NEW hand, NEW tally, NEW v, v = Finish(w, h, hand, tally)
  PROVE  Sound(v)
<1>1. CASE hand.state.finished
  <2>1. PICK paid : paid = IF RestToPay(hand.state) > 0
                           THEN Post(w, hand.user, "payout", RestToPay(hand.state), h) ELSE w
    OBVIOUS
  <2>2. Sound(paid)
    BY <2>1, PostSound
  <2>3. "ledger" \in DOMAIN v /\ v.ledger = paid.ledger
    BY <1>1, <2>1, <2>2 DEF Finish, SettleHand, Sound
  <2> QED BY <2>2, <2>3 DEF Sound
<1>2. CASE ~hand.state.finished
  BY <1>2 DEF Finish, Sound
<1> QED BY <1>1, <1>2

LEMMA StartSound ==
  ASSUME NEW u, NEW row, NEW h, NEW g, NEW s, NEW tally, NEW v, v = StartWrites(u, row, h, g, s, tally)
  PROVE  Sound(v)
<1>1. PICK bet : bet = Post(Draft(Row(u, row)), u, "bet", -s.staked, h)
  OBVIOUS
<1>2. PICK early : early = IF s.paidEarly > 0 THEN Post(bet, u, "payout", s.paidEarly, h) ELSE bet
  OBVIOUS
<1>3. Sound(early)
  BY <1>1, <1>2, DraftSound, PostSound
<1>4. \E hand : v = Finish(early, h, hand, tally)
  BY <1>1, <1>2 DEF StartWrites
<1> QED BY <1>3, <1>4, FinishSound

LEMMA ActionSound ==
  ASSUME NEW row, NEW h, NEW hand, NEW t, NEW tally, NEW v, v = ActionWrites(row, h, hand, t, tally)
  PROVE  Sound(v)
<1>1. PICK none : none = Draft(Row(hand.user, row))
  OBVIOUS
<1>2. PICK bet : bet = IF ExtraStake(hand, t) > 0
                       THEN Post(none, hand.user, "bet", -ExtraStake(hand, t), h) ELSE none
  OBVIOUS
<1>3. PICK early : early = IF ExtraEarly(hand, t) > 0
                           THEN Post(bet, hand.user, "payout", ExtraEarly(hand, t), h) ELSE bet
  OBVIOUS
<1>4. Sound(early)
  BY <1>1, <1>2, <1>3, DraftSound, PostSound
<1>5. \E next : v = Finish(early, h, next, tally)
  BY <1>1, <1>2, <1>3 DEF ActionWrites
<1> QED BY <1>4, <1>5, FinishSound

(* planGift refuses a gift that would take its sender under the floor, on   *)
(* the row the debit is written to (economy.ts:191).                        *)
LEMMA GiftSound ==
  ASSUME NEW from \in PlayerRow, NEW to \in PlayerRow, NEW id, NEW g, g.from # g.to, g.amount \in Nat,
         GiftAllowed(from, to, g), NEW v, v = GiftWrites(from, to, id, g)
  PROVE  Sound(v)
<1>1. PICK sender : sender = [from EXCEPT !.giftsSentToday = SentOn(from, g.senderDay) + g.amount,
                                          !.giftsSentOn = g.senderDay]
  OBVIOUS
<1>2. PICK receiver : receiver = [to EXCEPT !.giftsReceivedToday = ReceivedOn(to, g.utcDay) + g.amount,
                                            !.giftsReceivedOn = g.utcDay]
  OBVIOUS
<1>3. PICK rows : rows = Put(Row(g.from, sender), g.to, receiver)
  OBVIOUS
<1>4. PICK out : out = Post(Draft(rows), g.from, "gift_out", -g.amount, g.to)
  OBVIOUS
<1>5. PICK both : both = Post(out, g.to, "gift_in", g.amount, g.from)
  OBVIOUS
<1>6. sender.balance = from.balance /\ from.balance \in Nat
  BY <1>1 DEF PlayerRow
<1>7. rows[g.from] = sender
  BY <1>3 DEF Put, Row
<1>8. Draft(rows).players[g.from].balance + (-g.amount) >= BailoutFloor
  <2>1. Draft(rows).players = rows
    BY DEF Draft
  <2> QED BY <1>6, <1>7, <2>1 DEF GiftAllowed
<1>9. Sound(out)
  BY <1>4, <1>8, DraftSound, PostSound
<1>10. Sound(both)
  BY <1>5, <1>9, PostSound
<1>11. v = [both EXCEPT !.gifts = Row(id, g)]
  BY <1>1, <1>2, <1>3, <1>4, <1>5 DEF GiftWrites
<1> QED BY <1>10, <1>11 DEF Sound

LEMMA JackpotSound ==
  ASSUME NEW w, Sound(w), NEW u, NEW h, NEW amountInPot, NEW v, v = PayJackpot(w, u, h, amountInPot)
  PROVE  Sound(v)
<1>1. PICK amount : amount = (amountInPot + w.contribution) \div 100
  OBVIOUS
<1>2. PICK paid : paid = Post(w, u, "jackpot", amount, h)
  OBVIOUS
<1>3. Sound(paid)
  BY <1>2, PostSound
<1>4. v = [paid EXCEPT !.hits = Row(h, amount)]
  BY <1>1, <1>2 DEF PayJackpot
<1> QED BY <1>3, <1>4 DEF Sound

------------------------------------------------------------------------------
LEMMA SoundKept ==
  ASSUME PlansSound, \A s \in Request : Planned(s)' => Planned(s) /\ writes'[s] = writes[s]
  PROVE  PlansSound'
  BY DEF PlansSound, Sound

LEMMA PlanSound ==
  ASSUME TypeOK, PlansSound, NEW r \in Request, NEW w, Plan(r, w), Sound(w)
  PROVE  PlansSound'
<1>1. /\ writes'[r] = w
      /\ \A s \in Request : s # r => phase'[s] = phase[s] /\ writes'[s] = writes[s]
  BY DEF Plan, TypeOK
<1> QED BY <1>1 DEF PlansSound, Sound, Planned

LEMMA PlanGiftSound ==
  ASSUME IInv, PlansSound, NEW r \in Request, PlanGift(r)
  PROVE  PlansSound'
<1>1. PICK j, g, from, to, w : /\ j = job[r] /\ g = GiftRowOf(j)
                               /\ from = players[j.user] /\ to = players[j.to]
                               /\ w = GiftWrites(from, to, j.gift, g)
  OBVIOUS
<1>2. phase[r] = "locked" /\ j.op = "gift" /\ GiftAllowed(from, to, g) /\ Plan(r, w)
  BY <1>1 DEF PlanGift, SendAllowed
<1>3. j \in GiftJob /\ Needs(j) \subseteq DOMAIN players /\ j.user # j.to
  BY <1>1, <1>2, JobOf DEF IInv, RowsOwned
<1>4. from \in PlayerRow /\ to \in PlayerRow
  BY <1>1, <1>2, <1>3 DEF Needs, IInv, TypeOK, IsTable
<1>5. g.from # g.to /\ g.amount \in Nat
  BY <1>1, <1>3 DEF GiftRowOf, GiftJob
<1>6. Sound(w)
  BY <1>1, <1>2, <1>4, <1>5, GiftSound
<1> QED BY <1>2, <1>6, PlanSound DEF IInv

LEMMA NextSound ==
  ASSUME IInv, PlansSound, [Next]_vars
  PROVE  PlansSound'
<1>0. TypeOK
  BY DEF IInv
<1>1. ASSUME NEW p \in Player, EnsurePlayer(p) PROVE PlansSound'
  BY <1>1, SoundKept DEF EnsurePlayer, Planned
<1>2. ASSUME NEW r \in Request, Begin(r) PROVE PlansSound'
  <2>1. writes' = writes /\ phase' = [phase EXCEPT ![r] = "locking"]
    BY <1>2 DEF Begin, PostHands, PostAction, PostClaim, PostGift, Arrive
  <2> QED BY <1>0, <2>1, SoundKept DEF Planned, TypeOK
<1>3. ASSUME NEW r \in Request, LockPlayer(r) PROVE PlansSound'
  <2>1. PICK to \in {"locked", "locking"} : phase' = [phase EXCEPT ![r] = to] /\ writes' = writes
    BY <1>3 DEF LockPlayer
  <2> QED BY <1>0, <2>1, SoundKept DEF Planned, TypeOK
<1>4. ASSUME NEW r \in Request, PlanStart(r) PROVE PlansSound'
  <2>1. PICK w : Plan(r, w) /\ \E u, row, h, g, s, st : w = StartWrites(u, row, h, g, s, st)
    BY <1>4 DEF PlanStart
  <2> QED BY <1>0, <2>1, StartSound, PlanSound
<1>5. ASSUME NEW r \in Request, PlanAction(r) PROVE PlansSound'
  <2>1. PICK w : Plan(r, w) /\ \E row, h, hand, t, st : w = ActionWrites(row, h, hand, t, st)
    BY <1>5 DEF PlanAction
  <2> QED BY <1>0, <2>1, ActionSound, PlanSound
<1>6. ASSUME NEW r \in Request, PlanDaily(r) \/ PlanBailout(r) PROVE PlansSound'
  <2>1. ASSUME NEW rows, NEW u, NEW n, NEW day, NEW kind \in {"daily_bonus", "bailout"}
        PROVE  Sound(Post(Draft(rows), u, kind, n, day))
    BY DraftSound, PostSound
  <2>2. PICK w : Plan(r, w) /\ Sound(w)
    BY <1>6, <2>1 DEF PlanDaily, PlanBailout, DailyWrites, BailoutWrites
  <2> QED BY <1>0, <2>2, PlanSound
<1>7. ASSUME NEW r \in Request, LockJackpot(r) PROVE PlansSound'
  <2>1. PICK v : v = PayJackpot(writes[r], job[r].user, job[r].hand, pot)
    OBVIOUS
  <2>2. /\ phase[r] = "planned" /\ phase' = [phase EXCEPT ![r] = "jackpot"]
        /\ writes' = [writes EXCEPT ![r] = v]
    BY <1>7, <2>1 DEF LockJackpot
  <2>3. Sound(v)
    BY <2>1, <2>2, JackpotSound DEF PlansSound, Planned
  <2>4. /\ writes'[r] = v
        /\ \A s \in Request : s # r => phase'[s] = phase[s] /\ writes'[s] = writes[s]
    BY <1>0, <2>2 DEF TypeOK
  <2> QED BY <2>3, <2>4 DEF PlansSound, Sound, Planned
<1>8. ASSUME NEW r \in Request, End(r) PROVE PlansSound'
  <2>1. /\ phase'[r] = "idle"
        /\ \A s \in Request : s # r => phase'[s] = phase[s] /\ writes'[s] = writes[s]
    BY <1>0, <1>8 DEF End, TypeOK
  <2> QED BY <2>1, SoundKept DEF Planned
<1>9. ASSUME NEW r \in Request, Step(r) \/ Abort(r) PROVE PlansSound'
  BY <1>3, <1>4, <1>5, <1>6, <1>7, <1>8, <1>9, PlanGiftSound DEF Step, Abort, Answer, Commit
<1>10. ASSUME Tick \/ UNCHANGED vars PROVE PlansSound'
  BY <1>10, SoundKept DEF Tick, vars, Planned
<1> QED BY <1>1, <1>2, <1>9, <1>10 DEF Next

LEMMA NextFloor ==
  ASSUME PlansSound, GiftsStopAtFloor, [Next]_vars
  PROVE  GiftsStopAtFloor'
<1>1. ASSUME NEW w, Sound(w), ledger' = Overlay(ledger, w.ledger) PROVE GiftsStopAtFloor'
  BY <1>1 DEF GiftsStopAtFloor, Sound, Overlay
<1>2. ASSUME NEW p \in Player, EnsurePlayer(p) PROVE GiftsStopAtFloor'
  <2>1. Sound(NewPlayer(p))
    BY DraftSound, PostSound DEF NewPlayer
  <2> QED BY <1>1, <1>2, <2>1 DEF EnsurePlayer
<1>3. ASSUME NEW r \in Request, Commit(r) PROVE GiftsStopAtFloor'
  <2>1. Sound(writes[r])
    BY <1>3 DEF Commit, MayCommit, PlansSound, Planned
  <2> QED BY <1>1, <1>3, <2>1 DEF Commit
<1>4. ASSUME ledger' = ledger PROVE GiftsStopAtFloor'
  BY <1>4 DEF GiftsStopAtFloor
<1>5. \/ \E p \in Player : EnsurePlayer(p)
      \/ \E r \in Request : Commit(r)
      \/ ledger' = ledger
  BY DEF Next, Begin, Step, PostHands, PostAction, PostClaim, PostGift, Arrive,
         LockPlayer, PlanStart, PlanAction, PlanDaily, PlanBailout, PlanGift, Plan, Answer,
         LockJackpot, Abort, Tick, vars, tables
<1> QED BY <1>2, <1>3, <1>4, <1>5

(* Bets, gifts and claims of one sender may run beside a gift: it still     *)
(* leaves the sender at the bailout floor or above (economy.ts:191).        *)
THEOREM AlwaysGiftsStopAtFloor ==
  ASSUME DistinctIds
  PROVE  Spec => []GiftsStopAtFloor
<1>1. Init => PlansSound /\ GiftsStopAtFloor
  BY DEF Init, PlansSound, Planned, GiftsStopAtFloor, NoRows
<1>2. IInv /\ PlansSound /\ GiftsStopAtFloor /\ [Next]_vars => (PlansSound /\ GiftsStopAtFloor)'
  BY NextSound, NextFloor
<1> QED BY <1>1, <1>2, AlwaysIInv, PTL DEF Spec

------------------------------------------------------------------------------
(* A request that still locks players holds none beyond one it needs.       *)
LocksAscend ==
  \A r \in Request : phase[r] = "locking" =>
    \A p \in Held(r), q \in Needs(job[r]) \ Held(r) : p < q

------------------------------------------------------------------------------
LEMMA NeedsNat ==
  ASSUME IInv, NEW r \in Request, phase[r] # "idle"
  PROVE  Needs(job[r]) \subseteq Player /\ Needs(job[r]) \subseteq Nat
  BY NeedsPlayers, PlayerAssumption DEF IInv, LocksHeld

(* What keeps a request's locks and its phase keeps its place in the order. *)
LEMMA AscendKept ==
  ASSUME LocksAscend,
         \A s \in Request : phase'[s] = "locking" =>
           /\ phase[s] = "locking" /\ job'[s] = job[s]
           /\ \A p \in Player : playerLock'[p] = s <=> playerLock[p] = s
  PROVE  LocksAscend'
  BY DEF LocksAscend, Held

LEMMA ArriveAscends ==
  ASSUME IInv, LocksAscend, NEW r \in Request, NEW j, Arrive(r, j)
  PROVE  LocksAscend'
<1>1. /\ playerLock' = playerLock
      /\ \A s \in Request : s # r => phase'[s] = phase[s] /\ job'[s] = job[s]
  BY DEF Arrive, IInv, TypeOK, locks
<1>2. \A s \in Request : Held(s)' = Held(s)
  BY <1>1 DEF Held
<1>3. Held(r) = {}
  BY DEF Arrive, Held, IInv, LocksHeld
<1> QED BY <1>1, <1>2, <1>3 DEF LocksAscend

LEMMA LockPlayerAscends ==
  ASSUME IInv, LocksAscend, NEW r \in Request, LockPlayer(r)
  PROVE  LocksAscend'
<1>1. PICK p : p = NextLock(job[r], Held(r))
  OBVIOUS
<1>2. /\ phase[r] = "locking" /\ job' = job /\ playerLock[p] = Free
      /\ playerLock' = [playerLock EXCEPT ![p] = r]
      /\ \E to : phase' = [phase EXCEPT ![r] = to]
  BY <1>1 DEF LockPlayer, CanLock
<1>3. /\ p \in Needs(job[r]) \ Held(r)
      /\ \A q \in Needs(job[r]) \ Held(r) : p <= q
  BY <1>1, <1>2, NextLockNeeded
<1>4. Needs(job[r]) \subseteq Player /\ Needs(job[r]) \subseteq Nat
  BY <1>2, NeedsNat
<1>5. p \in Player /\ \A q \in Player : playerLock'[q] = IF q = p THEN r ELSE playerLock[q]
  BY <1>2, <1>3, <1>4 DEF IInv, TypeOK
<1>6. Held(r)' = Held(r) \cup {p}
  BY <1>5 DEF Held
<1>7. \A s \in Request : s # r => Held(s)' = Held(s) /\ phase'[s] = phase[s]
  BY <1>2, <1>5, RequestAssumption DEF Held, IInv, TypeOK
<1>8. ASSUME NEW x \in Held(r)', NEW q \in Needs(job[r]) \ Held(r)'
      PROVE  x < q
  <2>1. CASE x = p
    BY <1>3, <1>4, <1>6, <1>8, <2>1
  <2>2. CASE x \in Held(r)
    BY <1>2, <1>6, <1>8, <2>2 DEF LocksAscend
  <2> QED BY <1>6, <1>8, <2>1, <2>2
<1> QED BY <1>2, <1>7, <1>8 DEF LocksAscend

LEMMA NextAscends ==
  ASSUME IInv, LocksAscend, [Next]_vars
  PROVE  LocksAscend'
<1>0. TypeOK
  BY DEF IInv
<1>1. ASSUME NEW p \in Player, EnsurePlayer(p) PROVE LocksAscend'
  BY <1>1, AscendKept DEF EnsurePlayer, locks
<1>2. ASSUME NEW r \in Request, Begin(r) PROVE LocksAscend'
  <2>1. \E j : Arrive(r, j)
    BY <1>2 DEF Begin, PostHands, PostAction, PostClaim, PostGift
  <2> QED BY <2>1, ArriveAscends
<1>3. ASSUME NEW r \in Request, \E w : Plan(r, w) PROVE LocksAscend'
  <2>1. playerLock' = playerLock /\ job' = job /\ phase' = [phase EXCEPT ![r] = "planned"]
    BY <1>3 DEF Plan, locks
  <2> QED BY <1>0, <2>1, AscendKept DEF TypeOK
<1>4. ASSUME NEW r \in Request, LockJackpot(r) PROVE LocksAscend'
  <2>1. playerLock' = playerLock /\ job' = job /\ phase' = [phase EXCEPT ![r] = "jackpot"]
    BY <1>4 DEF LockJackpot
  <2> QED BY <1>0, <2>1, AscendKept DEF TypeOK
<1>5. ASSUME NEW r \in Request, End(r) PROVE LocksAscend'
  <2>1. /\ phase'[r] = "idle"
        /\ \A s \in Request : s # r => phase'[s] = phase[s] /\ job'[s] = job[s]
        /\ \A p \in Player : playerLock'[p] = IF playerLock[p] = r THEN Free ELSE playerLock[p]
    BY <1>0, <1>5 DEF End, TypeOK
  <2> QED BY <2>1, AscendKept, RequestAssumption
<1>6. ASSUME NEW r \in Request, PlanStart(r) \/ PlanAction(r) \/ PlanDaily(r) \/ PlanBailout(r) \/ PlanGift(r)
      PROVE  LocksAscend'
  BY <1>3, <1>6 DEF PlanStart, PlanAction, PlanDaily, PlanBailout, PlanGift
<1>7. ASSUME NEW r \in Request, Step(r) \/ Abort(r) PROVE LocksAscend'
  BY <1>4, <1>5, <1>6, <1>7, LockPlayerAscends DEF Step, Abort, Answer, Commit
<1>8. ASSUME Tick \/ UNCHANGED vars PROVE LocksAscend'
  BY <1>8, AscendKept DEF Tick, vars, locks
<1> QED BY <1>1, <1>2, <1>7, <1>8 DEF Next

------------------------------------------------------------------------------
(* Some request of any of them waits for none of the others: one that waits *)
(* for a row waits for a request that is itself after a row further on, and *)
(* finitely many requests cannot all do so.                                 *)
LEMMA NoRing ==
  ASSUME IInv, LocksAscend, IsFiniteSet(Request),
         NEW S, S \subseteq Request, S # {}, \A r \in S : \E s \in S : WaitsFor(r, s)
  PROVE  FALSE
<1> DEFINE N(r) == NextLock(job[r], Held(r))
           Beyond(r) == {s \in S : N(s) > N(r)}
<1>1. ASSUME NEW r \in S, NEW s \in S, WaitsFor(r, s)
      PROVE  phase[r] = "locking" /\ playerLock[N(r)] = s
  <2>1. potLock = s => phase[s] = "jackpot"
    BY DEF IInv, LocksHeld
  <2>2. phase[s] # "jackpot"
    BY DEF WaitsFor
  <2> QED BY <1>1, <2>1, <2>2 DEF WaitsFor
<1>2. \A r \in S : phase[r] = "locking"
  BY <1>1
<1>3. ASSUME NEW r \in S
      PROVE  N(r) \in Needs(job[r]) \ Held(r) /\ N(r) \in Player /\ N(r) \in Nat
  <2>1. N(r) \in Needs(job[r]) \ Held(r)
    BY <1>2, NextLockNeeded
  <2>2. Needs(job[r]) \subseteq Player /\ Needs(job[r]) \subseteq Nat
    BY <1>2, NeedsNat
  <2> QED BY <2>1, <2>2
<1>4. ASSUME NEW r \in S, NEW s \in S, WaitsFor(r, s)
      PROVE  N(r) < N(s)
  <2>1. N(r) \in Held(s)
    BY <1>1, <1>3, <1>4 DEF Held
  <2>2. N(s) \in Needs(job[s]) \ Held(s) /\ phase[s] = "locking"
    BY <1>2, <1>3
  <2> HIDE DEF N
  <2> QED BY <2>1, <2>2 DEF LocksAscend
<1> HIDE DEF N
<1>5. PICK T : T = {Beyond(r) : r \in S}
  OBVIOUS
<1>6. T # {} /\ T \subseteq SUBSET S
  BY <1>5
<1>7. T \subseteq FiniteSubsetsOf(S)
  <2>1. IsFiniteSet(S)
    BY FS_Subset
  <2> QED BY <1>6, <2>1, FS_FiniteSubsetsOfFinite
<1>8. PICK B \in T : \A C \in T : <<C, B>> \notin StrictSubsetOrdering(S)
  <2>1. IsWellFoundedOn(StrictSubsetOrdering(S), FiniteSubsetsOf(S))
    BY FS_StrictSubsetOrderingWellFounded
  <2> QED BY <1>6, <1>7, <2>1, WFMin
<1>9. PICK r \in S : B = Beyond(r)
  BY <1>5, <1>8
<1>10. PICK s \in S : WaitsFor(r, s)
  OBVIOUS
<1>11. N(r) < N(s) /\ N(r) \in Nat /\ N(s) \in Nat
  BY <1>3, <1>4, <1>10
<1>12. Beyond(s) \subseteq Beyond(r) /\ s \in Beyond(r) /\ s \notin Beyond(s)
  BY <1>3, <1>11
<1>13. <<Beyond(s), B>> \in StrictSubsetOrdering(S)
  BY <1>9, <1>12 DEF StrictSubsetOrdering
<1> QED BY <1>5, <1>8, <1>13

(* Transactions that lock crossing pairs of players, and the jackpot after  *)
(* them, never deadlock (postgres.ts:36-39 and 659).                        *)
THEOREM AlwaysNoDeadlock ==
  ASSUME DistinctIds, IsFiniteSet(Request)
  PROVE  Spec => []NoDeadlock
<1>1. Init => IInv /\ LocksAscend
  BY InitInv DEF Init, LocksAscend
<1>2. IInv /\ LocksAscend /\ [Next]_vars => (IInv /\ LocksAscend)'
  BY NextInv, NextAscends
<1>3. ASSUME IInv, LocksAscend PROVE NoDeadlock
  <2> SUFFICES ASSUME NEW S \in (SUBSET Request) \ {{}},
                      ~ \E r \in S : \A s \in S : ~WaitsFor(r, s)
               PROVE  FALSE
    BY DEF NoDeadlock
  <2>1. S \subseteq Request /\ S # {} /\ \A r \in S : \E s \in S : WaitsFor(r, s)
    OBVIOUS
  <2> QED BY <1>3, <2>1, NoRing
<1> QED BY <1>1, <1>2, <1>3, PTL DEF Spec

------------------------------------------------------------------------------
(* The refinement.  What a hand has moved so far.                           *)
NetSoFar(h) == IF h \in DOMAIN hands THEN NetOf(h) ELSE 0

(* What a plan moves is what its hand, its claim or its gift is to move,    *)
(* from the balances the tables have now.                                   *)
HandMoves(w, j) ==
  /\ DOMAIN w.hands = {j.hand}
  /\ w.contribution # 0 => w.hands[j.hand].status = "settled"
  /\ w.players[j.user].balance - players[j.user].balance = PlannedNet(w, j.hand) - NetSoFar(j.hand)

ClaimGrants(w, j) ==
  /\ DOMAIN w.hands = {} /\ w.contribution = 0
  /\ w.players[j.user].balance >= players[j.user].balance

GiftMovesOn(w, j) ==
  /\ DOMAIN w.hands = {} /\ w.contribution = 0
  /\ w.players[j.user].balance = players[j.user].balance - j.amount
  /\ w.players[j.to].balance = players[j.to].balance + j.amount

PlanMoves(w, j) ==
  /\ j.op \in {"start", "act"} => HandMoves(w, j)
  /\ j.op \in ClaimKind => ClaimGrants(w, j)
  /\ j.op = "gift" => GiftMovesOn(w, j)

(* The invariant of the refinement, beside IInv.                            *)
MovesFit(r) == /\ PlanMoves(writes[r], job[r])
               /\ phase[r] = "planned" => DOMAIN writes[r].hits = {}

BookFits ==
  /\ pot >= JackpotSeed
  /\ \A r \in Request : job[r].op = "gift" => job[r].amount > 0
  /\ \A r \in Request : Planned(r) => MovesFit(r)

LEMMA NetInt ==
  ASSUME TypeOK, NEW h
  PROVE  NetSoFar(h) \in Int
<1>1. CASE h \in DOMAIN hands
  <2>1. hands[h] \in HandRow /\ hands[h].state \in EngineView /\ (h \in DOMAIN hits => hits[h] \in Nat)
    BY <1>1, EngineAssumption DEF TypeOK, IsTable, HandRow
  <2> QED BY <1>1, <2>1 DEF NetSoFar, NetOf, HandRow, EngineView
<1>2. CASE h \notin DOMAIN hands
  BY <1>2 DEF NetSoFar
<1> QED BY <1>1, <1>2

LEMMA InitBookFits == Init => BookFits
<1> SUFFICES ASSUME Init PROVE BookFits
  OBVIOUS
<1> QED BY EconomyAssumption DEF Init, BookFits, NoJob, Planned

(* A planned request this step does not move keeps its plan's meaning, as   *)
(* long as nobody touches its rows or its hand.                             *)
LEMMA MovesKept ==
  ASSUME IInv, NEW s \in Request, Planned(s), MovesFit(s),
         phase'[s] = phase[s], job'[s] = job[s], writes'[s] = writes[s],
         \A p \in Needs(job[s]) : players'[p] = players[p],
         job[s].op \in {"start", "act"} => NetSoFar(job[s].hand)' = NetSoFar(job[s].hand)
  PROVE  MovesFit(s)'
<1>1. PICK w, j : w = writes[s] /\ j = job[s]
  OBVIOUS
<1>2. writes'[s] = w /\ job'[s] = j
  BY <1>1
<1>3. players'[j.user] = players[j.user]
  BY <1>1 DEF Needs
<1>4. j.op = "gift" => players'[j.to] = players[j.to]
  BY <1>1 DEF Needs
<1>5. PlanMoves(w, j) /\ (phase[s] = "planned" => DOMAIN w.hits = {})
  BY <1>1 DEF MovesFit
<1>6. j.op \in {"start", "act"} =>
        /\ DOMAIN w.hands = {j.hand}
        /\ w.contribution # 0 => w.hands[j.hand].status = "settled"
        /\ w.players[j.user].balance - players'[j.user].balance = PlannedNet(w, j.hand) - NetSoFar(j.hand)'
  BY <1>1, <1>3, <1>5 DEF PlanMoves, HandMoves
<1>7. j.op \in ClaimKind =>
        /\ DOMAIN w.hands = {} /\ w.contribution = 0
        /\ w.players[j.user].balance >= players'[j.user].balance
  BY <1>3, <1>5 DEF PlanMoves, ClaimGrants
<1>8. j.op = "gift" =>
        /\ DOMAIN w.hands = {} /\ w.contribution = 0
        /\ w.players[j.user].balance = players'[j.user].balance - j.amount
        /\ w.players[j.to].balance = players'[j.to].balance + j.amount
  BY <1>3, <1>4, <1>5 DEF PlanMoves, GiftMovesOn
<1>9. PlanMoves(w, j)'
  BY <1>2, <1>6, <1>7, <1>8 DEF PlanMoves, HandMoves, ClaimGrants, GiftMovesOn, NetSoFar, NetOf
<1> QED BY <1>1, <1>2, <1>5, <1>9 DEF MovesFit, PlanMoves, HandMoves, ClaimGrants, GiftMovesOn, NetSoFar, NetOf

(* A step of one request that leaves the tables alone keeps BookFits, if it *)
(* leaves that request with a plan that fits or with none.                  *)
LEMMA RequestStepFits ==
  ASSUME IInv, BookFits, UNCHANGED tables, NEW r \in Request,
         \A s \in Request : s # r => phase'[s] = phase[s] /\ job'[s] = job[s] /\ writes'[s] = writes[s],
         job'[r].op = "gift" => job'[r].amount > 0,
         Planned(r)' => MovesFit(r)'
  PROVE  BookFits'
<1>1. pot' >= JackpotSeed
  BY DEF BookFits, tables
<1>2. \A s \in Request : job'[s].op = "gift" => job'[s].amount > 0
  BY DEF BookFits
<1>3. ASSUME NEW s \in Request, Planned(s)' PROVE MovesFit(s)'
  <2>1. CASE s = r
    BY <1>3, <2>1 DEF MovesFit, Planned, PlanMoves, HandMoves, ClaimGrants, GiftMovesOn, NetSoFar, NetOf
  <2>2. CASE s # r
    <3>1. Planned(s) /\ MovesFit(s)
      BY <1>3, <2>2 DEF Planned, BookFits
    <3>2. players' = players /\ NetSoFar(job[s].hand)' = NetSoFar(job[s].hand)
      BY <2>2 DEF tables, NetSoFar, NetOf
    <3> QED BY <2>2, <3>1, <3>2, MovesKept
  <2> QED BY <2>1, <2>2
<1> QED BY <1>1, <1>2, <1>3 DEF BookFits

LEMMA BeginFits ==
  ASSUME IInv, BookFits, NEW r \in Request, Begin(r)
  PROVE  BookFits'
<1>1. TypeOK
  BY DEF IInv
<1>2. ASSUME NEW j, Arrive(r, j), j.op = "gift" => j.amount > 0 PROVE BookFits'
  <2>1. /\ UNCHANGED tables /\ phase'[r] = "locking" /\ job'[r] = j
        /\ \A s \in Request : s # r => phase'[s] = phase[s] /\ job'[s] = job[s] /\ writes'[s] = writes[s]
    BY <1>1, <1>2 DEF Arrive, TypeOK
  <2>2. ~Planned(r)'
    BY <2>1 DEF Planned
  <2> QED BY <1>2, <2>1, <2>2, RequestStepFits
<1>3. CASE PostHands(r)
  BY <1>2, <1>3 DEF PostHands
<1>4. CASE PostAction(r)
  BY <1>2, <1>4 DEF PostAction
<1>5. CASE PostClaim(r)
  <2>1. PICK p \in Player, kind \in Claim, z \in Zone : Arrive(r, [op |-> kind, user |-> p, day |-> DayIn(z)])
    BY <1>5 DEF PostClaim
  <2>2. kind # "gift"
    BY RequestAssumption DEF ClaimKind
  <2> QED BY <1>2, <2>1, <2>2
<1>6. CASE PostGift(r)
  <2>1. PICK p \in Player, q \in DOMAIN players, n \in GiftAmount, z \in Zone :
          \E id \in GiftIdsOf[p] :
            /\ p # q
            /\ Arrive(r, [op |-> "gift", user |-> p, to |-> q, gift |-> id, amount |-> n,
                          senderDay |-> DayIn(z), utcDay |-> DayIn(0)])
    BY <1>6 DEF PostGift
  <2>2. n > 0
    BY RequestAssumption
  <2> QED BY <1>2, <2>1, <2>2
<1> QED BY <1>3, <1>4, <1>5, <1>6 DEF Begin

LEMMA EndFits ==
  ASSUME IInv, BookFits, NEW r \in Request, End(r), UNCHANGED tables
  PROVE  BookFits'
<1>1. /\ phase'[r] = "idle" /\ job'[r] = NoJob
      /\ \A s \in Request : s # r => phase'[s] = phase[s] /\ job'[s] = job[s] /\ writes'[s] = writes[s]
  BY DEF IInv, TypeOK, End
<1>2. ~Planned(r)' /\ job'[r].op # "gift"
  BY <1>1 DEF Planned, NoJob
<1> QED BY <1>1, <1>2, RequestStepFits

LEMMA LockPlayerFits ==
  ASSUME IInv, BookFits, NEW r \in Request, LockPlayer(r)
  PROVE  BookFits'
<1>1. /\ UNCHANGED tables /\ job' = job /\ writes' = writes /\ phase'[r] \in {"locked", "locking"}
      /\ \A s \in Request : s # r => phase'[s] = phase[s]
  BY DEF IInv, TypeOK, LockPlayer
<1>2. ~Planned(r)'
  BY <1>1 DEF Planned
<1>3. job'[r].op = "gift" => job'[r].amount > 0
  BY <1>1 DEF BookFits
<1> QED BY <1>1, <1>2, <1>3, RequestStepFits

(* A plan made while the rows are locked.                                   *)
LEMMA PlanFitsBook ==
  ASSUME IInv, BookFits, NEW r \in Request, NEW w, Plan(r, w),
         PlanMoves(w, job[r]), DOMAIN w.hits = {}
  PROVE  BookFits'
<1>1. /\ UNCHANGED tables /\ job' = job /\ writes'[r] = w
      /\ \A s \in Request : s # r => phase'[s] = phase[s] /\ writes'[s] = writes[s]
  BY DEF IInv, TypeOK, Plan
<1>2. PICK j : j = job[r] /\ job'[r] = j
  BY <1>1
<1>3. players' = players /\ hands' = hands /\ hits' = hits
  BY <1>1 DEF tables
<1>4. PlanMoves(w, j)'
  BY <1>2, <1>3 DEF PlanMoves, HandMoves, ClaimGrants, GiftMovesOn, NetSoFar, NetOf
<1>5. MovesFit(r)'
  BY <1>1, <1>2, <1>4 DEF MovesFit, PlanMoves, HandMoves, ClaimGrants, GiftMovesOn, NetSoFar, NetOf
<1>6. job'[r].op = "gift" => job'[r].amount > 0
  BY <1>1 DEF BookFits
<1> QED BY <1>1, <1>5, <1>6, RequestStepFits

LEMMA PlanStartFits ==
  ASSUME IInv, BookFits, NEW r \in Request, PlanStart(r)
  PROVE  BookFits'
<1>1. PICK j : j = job[r]
  OBVIOUS
<1>2. PICK u, h, g, s, st : u = j.user /\ h = j.hand /\ g = j.game /\ s = j.dealt /\ st = StatsOf(u, g)
  OBVIOUS
<1>3. PICK w : w = StartWrites(u, players[u], h, g, s, st)
  OBVIOUS
<1>4. phase[r] = "locked" /\ j.op = "start" /\ StartAllowed(j) /\ Plan(r, w)
  BY <1>1, <1>2, <1>3 DEF PlanStart
<1>5. j \in StartJob /\ Needs(j) \subseteq DOMAIN players
  BY <1>1, <1>4, JobOf
<1>6. u \in Player /\ u \in DOMAIN players /\ h \in HandId /\ g \in Game /\ s \in EngineState
  BY <1>2, <1>4, <1>5 DEF StartJob, Needs
<1>7. players[u] \in PlayerRow
  BY <1>6 DEF IInv, TypeOK, IsTable
<1>13. PICK row : row = players[u]
  OBVIOUS
<1>14. row \in PlayerRow /\ w = StartWrites(u, row, h, g, s, st)
  BY <1>3, <1>7, <1>13
<1>15. /\ DOMAIN w.hands = {h} /\ DOMAIN w.hits = {}
       /\ w.contribution # 0 => w.hands[h].status = "settled"
       /\ w.players[u].balance - row.balance = PlannedNet(w, h)
       /\ PlannedNet(w, h) \in Int
  <2>1. st \in StatsRow
    BY <1>2, <1>6, StatsType DEF IInv
  <2> QED BY <1>6, <1>14, <2>1, StartMoves DEF PlannedFeed
<1>8. /\ DOMAIN w.hands = {h} /\ DOMAIN w.hits = {}
      /\ w.contribution # 0 => w.hands[h].status = "settled"
      /\ w.players[u].balance - players[u].balance = PlannedNet(w, h)
      /\ PlannedNet(w, h) \in Int
  BY <1>13, <1>15
<1>9. h \notin DOMAIN hands
  BY <1>2, <1>4 DEF StartAllowed
<1>10. NetSoFar(h) = 0
  BY <1>9 DEF NetSoFar
<1>11. w.players[u].balance - players[u].balance = PlannedNet(w, h) - NetSoFar(h)
  BY <1>8, <1>10
<1>12. PlanMoves(w, job[r])
  BY <1>1, <1>2, <1>4, <1>8, <1>11 DEF PlanMoves, HandMoves, ClaimKind
<1> QED BY <1>4, <1>8, <1>12, PlanFitsBook

LEMMA PlanActionFits ==
  ASSUME IInv, BookFits, NEW r \in Request, PlanAction(r)
  PROVE  BookFits'
<1>1. PICK j : j = job[r]
  OBVIOUS
<1>2. PICK t \in NextStates(j) :
        /\ ActionAllowed(j, t)
        /\ Plan(r, ActionWrites(players[j.user], j.hand, hands[j.hand], t,
                                StatsOf(j.user, hands[j.hand].game)))
  BY <1>1 DEF PlanAction
<1>3. PICK u, h, hand : u = j.user /\ h = j.hand /\ hand = hands[h]
  OBVIOUS
<1>4. PICK st : st = StatsOf(u, hand.game)
  OBVIOUS
<1>5. PICK w : w = ActionWrites(players[u], h, hand, t, st)
  OBVIOUS
<1>6. phase[r] = "locked" /\ j.op = "act" /\ Plan(r, w)
  BY <1>1, <1>2, <1>3, <1>4, <1>5 DEF PlanAction
<1>7. j \in ActJob /\ Needs(j) \subseteq DOMAIN players
  BY <1>1, <1>6, JobOf
<1>8. /\ u \in DOMAIN players /\ j.action \in ActionType /\ h \in DOMAIN hands
      /\ hand.user = u /\ hand.status = "active"
  BY <1>2, <1>3, <1>6, <1>7 DEF ActJob, Needs, NextStates, ActionAllowed
<1>9. hand \in HandRow /\ hand.state \in EngineState /\ players[u] \in PlayerRow
  BY <1>3, <1>8 DEF IInv, TypeOK, IsTable, HandRow
<1>10. t \in EngineState /\ hand.state.paidEarly <= t.paidEarly
  <2>1. t \in Act[<<hand.state, j.action>>]
    BY <1>2, <1>3, <1>8 DEF NextStates
  <2>2. Act[<<hand.state, j.action>>] \in SUBSET EngineState
    <3>1. <<hand.state, j.action>> \in EngineState \X ActionType
      BY <1>8, <1>9
    <3> QED BY <3>1, EngineAssumption
  <2> QED BY <1>8, <1>9, <2>1, <2>2, EngineAssumption
<1>11. /\ DOMAIN w.hands = {h} /\ DOMAIN w.hits = {}
       /\ w.contribution # 0 => w.hands[h].status = "settled"
       /\ w.players[u].balance - players[u].balance
            = PlannedNet(w, h) - (hand.state.paidEarly - hand.wagered)
  BY <1>5, <1>8, <1>9, <1>10, ActionMoves DEF PlannedFeed
<1>12. NetSoFar(h) = hand.state.paidEarly - hand.wagered
  BY <1>3, <1>8 DEF NetSoFar, NetOf
<1>13. PlanMoves(w, job[r])
  BY <1>1, <1>3, <1>6, <1>11, <1>12 DEF PlanMoves, HandMoves, ClaimKind
<1> QED BY <1>6, <1>11, <1>13, PlanFitsBook

LEMMA PlanDailyFits ==
  ASSUME IInv, BookFits, NEW r \in Request, PlanDaily(r)
  PROVE  BookFits'
<1>1. PICK j, u, day : j = job[r] /\ u = j.user /\ day = j.day
  OBVIOUS
<1>2. PICK streak : streak = StreakOn(players[u], day)
  OBVIOUS
<1>3. PICK row : row = [players[u] EXCEPT !.dailyStreak = streak, !.lastDailyOn = day]
  OBVIOUS
<1>4. PICK w : w = Post(Draft(Row(u, row)), u, "daily_bonus", BonusFor(streak), day)
  OBVIOUS
<1>5. phase[r] = "locked" /\ j.op = "daily_bonus" /\ Plan(r, w)
  BY <1>1, <1>2, <1>3, <1>4 DEF PlanDaily, DailyWrites
<1>6. j \in ClaimJob /\ Needs(j) \subseteq DOMAIN players
  BY <1>1, <1>5, JobOf DEF ClaimKind
<1>7. u \in DOMAIN players /\ day \in Day
  BY <1>1, <1>5, <1>6 DEF ClaimJob, Needs
<1>8. players[u] \in PlayerRow
  BY <1>7 DEF IInv, TypeOK, IsTable
<1>9. streak \in Nat
  BY <1>2, <1>8 DEF StreakOn, PlayerRow
<1>10. row \in PlayerRow /\ row.balance = players[u].balance
  BY <1>3, <1>7, <1>8, <1>9 DEF PlayerRow
<1>11. BonusFor(streak) \in Nat
  BY <1>9, BonusNat
<1>12. /\ w.players[u].balance >= row.balance
       /\ DOMAIN w.hands = {} /\ DOMAIN w.hits = {} /\ w.contribution = 0
  BY <1>4, <1>10, <1>11, ClaimMoves
<1>13. PlanMoves(w, job[r])
  BY <1>1, <1>5, <1>10, <1>12 DEF PlanMoves, ClaimGrants
<1> QED BY <1>5, <1>12, <1>13, PlanFitsBook

LEMMA PlanBailoutFits ==
  ASSUME IInv, BookFits, NEW r \in Request, PlanBailout(r)
  PROVE  BookFits'
<1>1. PICK j, u, day : j = job[r] /\ u = j.user /\ day = j.day
  OBVIOUS
<1>2. PICK row : row = [players[u] EXCEPT !.lastBailoutOn = day]
  OBVIOUS
<1>3. PICK amount : amount = BailoutTopUp - players[u].balance
  OBVIOUS
<1>4. PICK w : w = Post(Draft(Row(u, row)), u, "bailout", amount, day)
  OBVIOUS
<1>5. phase[r] = "locked" /\ j.op = "bailout" /\ players[u].balance < BailoutFloor /\ Plan(r, w)
  BY <1>1, <1>2, <1>3, <1>4 DEF PlanBailout, BailoutWrites, BailoutAllowed
<1>6. j \in ClaimJob /\ Needs(j) \subseteq DOMAIN players
  BY <1>1, <1>5, JobOf DEF ClaimKind
<1>7. u \in DOMAIN players /\ day \in Day
  BY <1>1, <1>5, <1>6 DEF ClaimJob, Needs
<1>8. players[u] \in PlayerRow
  BY <1>7 DEF IInv, TypeOK, IsTable
<1>9. row \in PlayerRow /\ row.balance = players[u].balance
  BY <1>2, <1>7, <1>8 DEF PlayerRow
<1>10. amount \in Nat
  BY <1>3, <1>5, <1>8, EconomyAssumption DEF PlayerRow
<1>11. /\ w.players[u].balance >= row.balance
       /\ DOMAIN w.hands = {} /\ DOMAIN w.hits = {} /\ w.contribution = 0
  BY <1>4, <1>9, <1>10, ClaimMoves
<1>12. PlanMoves(w, job[r])
  BY <1>1, <1>5, <1>9, <1>11 DEF PlanMoves, ClaimGrants
<1> QED BY <1>5, <1>11, <1>12, PlanFitsBook

LEMMA PlanGiftFits ==
  ASSUME IInv, BookFits, NEW r \in Request, PlanGift(r)
  PROVE  BookFits'
<1>1. PICK j, p, q, id, g : j = job[r] /\ p = j.user /\ q = j.to /\ id = j.gift /\ g = GiftRowOf(j)
  OBVIOUS
<1>2. PICK w : w = GiftWrites(players[p], players[q], id, g)
  OBVIOUS
<1>3. phase[r] = "locked" /\ j.op = "gift" /\ Plan(r, w)
  BY <1>1, <1>2 DEF PlanGift
<1>4. j \in GiftJob /\ Needs(j) \subseteq DOMAIN players
  BY <1>1, <1>3, JobOf
<1>5. /\ p \in DOMAIN players /\ q \in DOMAIN players
      /\ g \in GiftRow /\ id \in GiftId /\ p = g.from /\ q = g.to /\ g.amount = j.amount
  BY <1>1, <1>3, <1>4 DEF GiftJob, GiftRow, GiftRowOf, Needs
<1>6. p # q
  BY <1>1, <1>4 DEF IInv, RowsOwned
<1>7. players[p] \in PlayerRow /\ players[q] \in PlayerRow
  BY <1>5 DEF IInv, TypeOK, IsTable
<1>8. PICK from, to : from = players[p] /\ to = players[q]
  OBVIOUS
<1>9. /\ id \in GiftId /\ g \in GiftRow /\ from \in PlayerRow /\ to \in PlayerRow
      /\ p \in Player /\ q \in Player /\ p = g.from /\ q = g.to /\ p # q
      /\ w = GiftWrites(from, to, id, g)
  BY <1>2, <1>5, <1>6, <1>7, <1>8 DEF GiftRow
<1>10. /\ w.players[p].balance = from.balance - g.amount
       /\ w.players[q].balance = to.balance + g.amount
       /\ DOMAIN w.hands = {} /\ DOMAIN w.hits = {} /\ w.contribution = 0
  BY <1>9, GiftMoves
<1>11. PlanMoves(w, job[r])
  BY <1>1, <1>3, <1>5, <1>8, <1>10 DEF PlanMoves, GiftMovesOn, ClaimKind
<1> QED BY <1>3, <1>10, <1>11, PlanFitsBook

(* A hit is paid to the hand that made it.                                  *)
LEMMA LockJackpotFits ==
  ASSUME IInv, BookFits, NEW r \in Request, LockJackpot(r)
  PROVE  BookFits'
<1>1. PICK j, w, u, h : j = job[r] /\ w = writes[r] /\ u = j.user /\ h = j.hand
  OBVIOUS
<1>2. PICK v : v = PayJackpot(w, u, h, pot)
  OBVIOUS
<1>3. /\ UNCHANGED tables /\ job' = job /\ phase[r] = "planned" /\ w.hit
      /\ phase'[r] = "jackpot" /\ writes'[r] = v
      /\ \A s \in Request : s # r => phase'[s] = phase[s] /\ writes'[s] = writes[s]
  BY <1>1, <1>2 DEF LockJackpot, IInv, TypeOK
<1>4. PlanFits(r) /\ MovesFit(r) /\ TypeOK
  BY <1>3 DEF IInv, PlansFit, Planned, BookFits
<1>5. /\ DOMAIN w.hands = {h} /\ j.op \in {"start", "act"} /\ w.hands[h].status = "settled"
  BY <1>1, <1>3, <1>4 DEF PlanFits, HandFits
<1>6. /\ HandMoves(w, j) /\ DOMAIN w.hits = {}
  BY <1>1, <1>3, <1>4, <1>5 DEF MovesFit, PlanMoves
<1>7. IsWrites(w) /\ u \in DOMAIN w.players /\ pot \in Nat
  BY <1>1, <1>4 DEF TypeOK, PlanFits, Needs
<1>8. Shaped(w, u) /\ w.hands[h].returned \in Nat /\ w.hands[h].wagered \in Nat /\ w.contribution \in Nat
  <2>1. w.hands[h] \in HandRow /\ w.players[u] \in PlayerRow /\ w.contribution \in Nat
    BY <1>5, <1>7 DEF IsWrites, IsTable
  <2>2. {"players", "ledger", "hands", "stats", "hits", "contribution", "hit"} \subseteq DOMAIN w
    BY <1>7 DEF IsWrites
  <2> QED BY <1>7, <2>1, <2>2 DEF Shaped, HandRow, PlayerRow
<1>9. /\ v.hands = w.hands
      /\ v.players[u].balance - w.players[u].balance = PlannedNet(v, h) - PlannedNet(w, h)
      /\ v.contribution = w.contribution
      /\ v.players[u].balance \in Int /\ PlannedNet(v, h) \in Int /\ PlannedNet(w, h) \in Int
  BY <1>2, <1>5, <1>6, <1>7, <1>8, JackpotMoves
<1>10. w.players[u].balance - players[u].balance = PlannedNet(w, h) - NetSoFar(h)
  BY <1>1, <1>6 DEF HandMoves
<1>11. /\ players[u].balance \in Nat /\ NetSoFar(h) \in Int /\ w.players[u].balance \in Nat
  <2>1. u \in DOMAIN players
    BY <1>1, <1>3, JobOf DEF Needs
  <2>2. players[u] \in PlayerRow /\ w.players[u] \in PlayerRow
    BY <1>4, <1>7, <2>1 DEF TypeOK, IsTable, IsWrites
  <2>3. NetSoFar(h) \in Int
    BY <1>4, NetInt
  <2> QED BY <2>2, <2>3 DEF PlayerRow
<1>12. v.players[u].balance - players[u].balance = PlannedNet(v, h) - NetSoFar(h)
  BY <1>8, <1>9, <1>10, <1>11
<1>13. HandMoves(v, j)
  BY <1>1, <1>5, <1>6, <1>9, <1>12 DEF HandMoves
<1>14. PlanMoves(v, j)
  BY <1>5, <1>13 DEF PlanMoves, ClaimKind
<1>15. players' = players /\ hands' = hands /\ hits' = hits
  BY <1>3 DEF tables
<1>16. PlanMoves(v, j)'
  BY <1>14, <1>15 DEF PlanMoves, HandMoves, ClaimGrants, GiftMovesOn, NetSoFar, NetOf
<1>17. MovesFit(r)'
  BY <1>1, <1>3, <1>16 DEF MovesFit, PlanMoves, HandMoves, ClaimGrants, GiftMovesOn, NetSoFar, NetOf
<1>18. job'[r].op = "gift" => job'[r].amount > 0
  BY <1>3 DEF BookFits
<1> QED BY <1>3, <1>17, <1>18, RequestStepFits

------------------------------------------------------------------------------
(* What a commit does to the players' rows and to the hands, as the book    *)
(* reads them.                                                              *)
LEMMA CommitRows ==
  ASSUME IInv, NEW r \in Request, Commit(r), NEW w, w = writes[r], NEW j, j = job[r]
  PROVE  /\ IsWrites(w) /\ HandFits(w, j) /\ DOMAIN w.players = Needs(j)
         /\ j \in Job /\ Needs(j) \subseteq DOMAIN players
         /\ DOMAIN players' = DOMAIN players
         /\ \A p \in Needs(j) : players'[p] = w.players[p] /\ w.players[p] \in PlayerRow
         /\ \A p \in DOMAIN players \ Needs(j) : players'[p] = players[p]
         /\ \A h \in DOMAIN w.hands :
              /\ h \in HandId /\ h \in DOMAIN hands' /\ hands'[h].user = j.user
              /\ hands'[h].status = w.hands[h].status
              /\ NetSoFar(h)' = PlannedNet(w, h)
         /\ \A h : h \notin DOMAIN w.hands => BookHand(h)' = BookHand(h) /\ NetSoFar(h)' = NetSoFar(h)
<1>1. Planned(r) /\ TypeOK /\ LocksHeld /\ RowsOwned
  BY DEF Commit, MayCommit, Planned, IInv
<1>2. /\ IsWrites(w) /\ LedgerFits(w, players) /\ HandFits(w, j) /\ DOMAIN w.players = Needs(j)
  BY <1>1 DEF IInv, PlansFit, PlanFits, TypeOK
<1>3. j \in Job /\ Needs(j) \subseteq DOMAIN players
  BY <1>1 DEF LocksHeld, Planned
<1>4. players' = [p \in DOMAIN players |-> IF p \in DOMAIN w.players THEN w.players[p] ELSE players[p]]
  BY DEF Commit
<1>5. /\ DOMAIN players' = DOMAIN players
      /\ \A p \in Needs(j) : players'[p] = w.players[p] /\ w.players[p] \in PlayerRow
      /\ \A p \in DOMAIN players \ Needs(j) : players'[p] = players[p]
  BY <1>2, <1>3, <1>4 DEF IsWrites, IsTable
<1>6. /\ hands' = Upsert(hands, w.hands) /\ hits' = Overlay(hits, w.hits)
      /\ DOMAIN hands' = DOMAIN hands \cup DOMAIN w.hands
      /\ DOMAIN hits' = DOMAIN hits \cup DOMAIN w.hits
      /\ \A h \in DOMAIN hands : h \notin DOMAIN w.hands => hands'[h] = hands[h]
      /\ \A h \in DOMAIN w.hits : hits'[h] = w.hits[h]
      /\ \A h \in DOMAIN hits : h \notin DOMAIN w.hits => hits'[h] = hits[h]
  BY DEF Commit, Upsert, Overlay
<1>7. DOMAIN w.hits \subseteq DOMAIN w.hands
  BY <1>2 DEF HandFits
<1>8. ASSUME NEW h \in DOMAIN w.hands
      PROVE  /\ h \in HandId /\ h \in DOMAIN hands' /\ hands'[h].user = j.user
             /\ hands'[h].status = w.hands[h].status
             /\ NetSoFar(h)' = PlannedNet(w, h)
  <2>1. /\ w.hands[h] \in HandRow /\ h \in HandId /\ w.hands[h].user = j.user
        /\ h \in DOMAIN hands => hands[h] \in HandRow /\ hands[h].user = j.user /\ hands[h].status = "active"
    BY <1>1, <1>2 DEF IsWrites, IsTable, HandFits, TypeOK
  <2>2. /\ hands'[h].user = j.user /\ hands'[h].status = w.hands[h].status
        /\ hands'[h].state = w.hands[h].state /\ hands'[h].wagered = w.hands[h].wagered
        /\ hands'[h].returned = w.hands[h].returned
    <3>1. CASE h \in DOMAIN hands
      <4>1. hands'[h] = [w.hands[h] EXCEPT !.user = hands[h].user, !.game = hands[h].game]
        BY <1>6, <3>1 DEF Upsert
      <4> QED BY <2>1, <3>1, <4>1 DEF HandRow
    <3>2. CASE h \notin DOMAIN hands
      <4>1. hands'[h] = w.hands[h]
        BY <1>6, <3>2 DEF Upsert
      <4> QED BY <2>1, <4>1
    <3> QED BY <3>1, <3>2
  <2>3. h \notin DOMAIN hits
    BY <1>1, <2>1 DEF RowsOwned
  <2>4. (IF h \in DOMAIN hits' THEN hits'[h] ELSE 0) = IF h \in DOMAIN w.hits THEN w.hits[h] ELSE 0
    BY <1>6, <2>3
  <2>5. h \in DOMAIN hands'
    BY <1>6
  <2>6. NetSoFar(h)' = PlannedNet(w, h)
    BY <2>2, <2>4, <2>5 DEF NetSoFar, NetOf, PlannedNet
  <2> QED BY <2>1, <2>2, <2>5, <2>6
<1>9. ASSUME NEW h, h \notin DOMAIN w.hands
      PROVE  BookHand(h)' = BookHand(h) /\ NetSoFar(h)' = NetSoFar(h)
  <2>1. (h \in DOMAIN hands' <=> h \in DOMAIN hands) /\ (h \in DOMAIN hits' <=> h \in DOMAIN hits)
    BY <1>6, <1>7, <1>9
  <2>2. (h \in DOMAIN hands => hands'[h] = hands[h]) /\ (h \in DOMAIN hits => hits'[h] = hits[h])
    BY <1>6, <1>7, <1>9
  <2> QED BY <2>1, <2>2 DEF BookHand, NetSoFar, NetOf
<1> QED BY <1>2, <1>3, <1>5, <1>8, <1>9

LEMMA CommitFits ==
  ASSUME DistinctIds, IInv, BookFits, NEW r \in Request, Commit(r)
  PROVE  BookFits'
<1>1. PICK w, j : w = writes[r] /\ j = job[r]
  OBVIOUS
<1>2. /\ IsWrites(w) /\ HandFits(w, j) /\ j \in Job
      /\ \A p \in DOMAIN players \ Needs(j) : players'[p] = players[p]
      /\ \A h : h \notin DOMAIN w.hands => NetSoFar(h)' = NetSoFar(h)
  BY <1>1, CommitRows
<1>3. pot' >= JackpotSeed
  <2>1. pot' = IF w.hit THEN JackpotSeed ELSE pot + w.contribution
    BY <1>1 DEF Commit
  <2>2. pot \in Nat /\ pot >= JackpotSeed /\ w.contribution \in Nat
    BY <1>2 DEF IInv, TypeOK, BookFits, IsWrites
  <2> QED BY <2>1, <2>2, EconomyAssumption
<1>4. /\ phase'[r] = "idle" /\ job'[r] = NoJob
      /\ \A s \in Request : s # r => phase'[s] = phase[s] /\ job'[s] = job[s] /\ writes'[s] = writes[s]
  BY DEF Commit, End, IInv, TypeOK
<1>5. \A s \in Request : job'[s].op = "gift" => job'[s].amount > 0
  BY <1>4 DEF BookFits, NoJob
<1>6. ASSUME NEW s \in Request, Planned(s)' PROVE MovesFit(s)'
  <2>1. s # r /\ Planned(s)
    BY <1>4, <1>6 DEF Planned
  <2>2. MovesFit(s)
    BY <2>1 DEF BookFits
  <2>3. PICK k : k = job[s]
    OBVIOUS
  <2>4. Needs(j) \cap Needs(k) = {}
    <3>1. Planned(r)
      BY DEF Commit, MayCommit, Planned
    <3> QED BY <1>1, <2>1, <2>3, <3>1, OthersDiffer
  <2>5. k \in Job /\ Needs(k) \subseteq DOMAIN players
    BY <2>1, <2>3 DEF IInv, LocksHeld, Planned
  <2>6. \A p \in Needs(k) : players'[p] = players[p]
    BY <1>2, <2>4, <2>5
  <2>7. k.op \in {"start", "act"} => NetSoFar(k.hand)' = NetSoFar(k.hand)
    <3> SUFFICES ASSUME k.op \in {"start", "act"} PROVE k.hand \notin DOMAIN w.hands
      BY <1>2
    <3>1. k.hand \in DOMAIN writes[s].hands
      BY <2>2, <2>3 DEF MovesFit, PlanMoves, HandMoves
    <3>2. k.hand \in HandIdsOf[k.user]
      BY <2>1, <2>3, <3>1 DEF IInv, PlansFit, PlanFits, HandFits
    <3>3. \A h \in DOMAIN w.hands : h \in HandIdsOf[j.user]
      BY <1>2 DEF HandFits
    <3>4. k.user \in Player /\ j.user \in Player /\ k.user # j.user
      <4>1. k.user \in Needs(k) /\ j.user \in Needs(j)
        BY DEF Needs
      <4> QED BY <1>2, <2>4, <2>5, <4>1, NeedsPlayers
    <3>5. HandIdsOf[k.user] \cap HandIdsOf[j.user] = {}
      BY <3>4 DEF DistinctIds
    <3> QED BY <3>2, <3>3, <3>5
  <2>8. phase'[s] = phase[s] /\ job'[s] = job[s] /\ writes'[s] = writes[s]
    BY <1>4, <2>1
  <2> QED BY <2>1, <2>2, <2>3, <2>6, <2>7, <2>8, MovesKept
<1> QED BY <1>3, <1>5, <1>6 DEF BookFits

LEMMA EnsurePlayerFits ==
  ASSUME IInv, BookFits, NEW p \in Player, EnsurePlayer(p)
  PROVE  BookFits'
<1>1. /\ players' = Overlay(players, NewPlayer(p).players) /\ p \notin DOMAIN players
      /\ UNCHANGED <<hands, gifts, stats, hits, pot, locks, phase, job, writes, clock>>
  BY DEF EnsurePlayer
<1>2. \A q \in DOMAIN players : players'[q] = players[q]
  <2>1. DOMAIN NewPlayer(p).players = {p}
    BY NewPlayerRows
  <2> QED BY <1>1, <2>1 DEF Overlay
<1>3. ASSUME NEW s \in Request, Planned(s)' PROVE MovesFit(s)'
  <2>1. Planned(s) /\ MovesFit(s)
    BY <1>1, <1>3 DEF Planned, BookFits
  <2>2. Needs(job[s]) \subseteq DOMAIN players
    BY <2>1 DEF IInv, LocksHeld, Planned
  <2>3. NetSoFar(job[s].hand)' = NetSoFar(job[s].hand)
    BY <1>1 DEF NetSoFar, NetOf
  <2>4. phase'[s] = phase[s] /\ job'[s] = job[s] /\ writes'[s] = writes[s]
    BY <1>1
  <2>5. \A q \in Needs(job[s]) : players'[q] = players[q]
    BY <1>2, <2>2
  <2> QED BY <2>1, <2>3, <2>4, <2>5, MovesKept
<1> QED BY <1>1, <1>3 DEF BookFits

LEMMA NextBookFits ==
  ASSUME DistinctIds, IInv, BookFits, [Next]_vars
  PROVE  BookFits'
<1>1. ASSUME UNCHANGED <<tables, phase, job, writes>> PROVE BookFits'
  <2>1. tables' = tables /\ phase' = phase /\ job' = job /\ writes' = writes
    BY <1>1
  <2>2. ASSUME NEW s \in Request, Planned(s)' PROVE MovesFit(s)'
    <3>1. Planned(s) /\ MovesFit(s)
      BY <2>1, <2>2 DEF Planned, BookFits
    <3>2. players' = players /\ NetSoFar(job[s].hand)' = NetSoFar(job[s].hand)
      BY <2>1 DEF tables, NetSoFar, NetOf
    <3> QED BY <2>1, <3>1, <3>2, MovesKept
  <2> QED BY <2>1, <2>2 DEF BookFits, tables
<1>2. CASE UNCHANGED vars
  BY <1>1, <1>2 DEF vars
<1>3. CASE Tick
  BY <1>1, <1>3 DEF Tick
<1>4. ASSUME NEW p \in Player, EnsurePlayer(p) PROVE BookFits'
  BY <1>4, EnsurePlayerFits
<1>5. ASSUME NEW r \in Request, Begin(r) PROVE BookFits'
  BY <1>5, BeginFits
<1>6. ASSUME NEW r \in Request, Abort(r) PROVE BookFits'
  BY <1>6, EndFits DEF Abort
<1>7. ASSUME NEW r \in Request, Step(r) PROVE BookFits'
  <2>1. CASE LockPlayer(r)
    BY <2>1, LockPlayerFits
  <2>2. CASE PlanStart(r)
    BY <2>2, PlanStartFits
  <2>3. CASE PlanAction(r)
    BY <2>3, PlanActionFits
  <2>4. CASE PlanDaily(r)
    BY <2>4, PlanDailyFits
  <2>5. CASE PlanBailout(r)
    BY <2>5, PlanBailoutFits
  <2>6. CASE PlanGift(r)
    BY <2>6, PlanGiftFits
  <2>7. CASE Answer(r)
    BY <2>7, EndFits DEF Answer
  <2>8. CASE LockJackpot(r)
    BY <2>8, LockJackpotFits
  <2>9. CASE Commit(r)
    BY <2>9, CommitFits
  <2> QED BY <1>7, <2>1, <2>2, <2>3, <2>4, <2>5, <2>6, <2>7, <2>8, <2>9 DEF Step
<1> QED BY <1>2, <1>3, <1>4, <1>5, <1>6, <1>7 DEF Next

------------------------------------------------------------------------------
(* The book, as the tables show it.                                         *)
Balances == [p \in DOMAIN players |-> players[p].balance]
BookHands == [h \in HandId |-> BookHand(h)]

LEMMA InitBook == Init => Book!Init
<1> SUFFICES ASSUME Init PROVE Book!Init
  OBVIOUS
<1>1. DOMAIN players = {} /\ DOMAIN hands = {} /\ pot = JackpotSeed
  BY DEF Init, NoRows
<1>2. [p \in DOMAIN players |-> players[p].balance] = [p \in {} |-> 0]
  BY <1>1
<1>3. [h \in HandId |-> BookHand(h)] = [h \in HandId |-> [player |-> Free, closed |-> FALSE, net |-> 0]]
  BY <1>1 DEF BookHand
<1> QED BY <1>1, <1>2, <1>3 DEF Book!Init, Book!Unplayed

(* A step that leaves players, hands, jackpots and the pot alone is a       *)
(* stutter of the book.                                                     *)
LEMMA StutterBook ==
  ASSUME UNCHANGED <<players, hands, hits, pot>>
  PROVE  UNCHANGED Book!book
<1>1. [p \in DOMAIN players |-> players[p].balance]' = [p \in DOMAIN players |-> players[p].balance]
  OBVIOUS
<1>2. [h \in HandId |-> BookHand(h)]' = [h \in HandId |-> BookHand(h)]
  BY DEF BookHand, NetOf
<1> QED BY <1>1, <1>2 DEF Book!book

LEMMA JoinBook ==
  ASSUME NEW p \in Player, EnsurePlayer(p)
  PROVE  Book!Next
<1>1. PICK new : new = NewPlayer(p)
  OBVIOUS
<1>2. /\ p \notin DOMAIN players /\ players' = Overlay(players, new.players)
      /\ hands' = hands /\ hits' = hits /\ pot' = pot
  BY <1>1 DEF EnsurePlayer
<1>3. DOMAIN new.players = {p} /\ new.players[p].balance = StartingBalance
  BY <1>1, NewPlayerRows
<1>4. /\ DOMAIN players' = DOMAIN players \cup {p} /\ players'[p].balance = StartingBalance
      /\ \A q \in DOMAIN players : players'[q] = players[q]
  BY <1>2, <1>3 DEF Overlay
<1>5. PICK b : b = Balances
  OBVIOUS
<1>6. DOMAIN b = DOMAIN players /\ \A q \in DOMAIN players : b[q] = players[q].balance
  BY <1>5 DEF Balances
<1>7. Balances' = [q \in DOMAIN b \cup {p} |-> IF q = p THEN StartingBalance ELSE b[q]]
  BY <1>2, <1>4, <1>6 DEF Balances
<1>8. BookHands' = BookHands
  BY <1>2 DEF BookHands, BookHand, NetOf
<1>9. Book!Join(p)
  BY <1>2, <1>5, <1>6, <1>7, <1>8 DEF Book!Join, Balances, BookHands
<1> QED BY <1>9 DEF Book!Next

(* A commit is the move of one hand, one grant or one gift.                 *)
LEMMA CommitBook ==
  ASSUME IInv, BookFits, NEW r \in Request, Commit(r)
  PROVE  Book!Next
<1>1. PICK w, j : w = writes[r] /\ j = job[r]
  OBVIOUS
<1>2. /\ IsWrites(w) /\ HandFits(w, j) /\ DOMAIN w.players = Needs(j)
      /\ j \in Job /\ Needs(j) \subseteq DOMAIN players
      /\ DOMAIN players' = DOMAIN players
      /\ \A p \in Needs(j) : players'[p] = w.players[p] /\ w.players[p] \in PlayerRow
      /\ \A p \in DOMAIN players \ Needs(j) : players'[p] = players[p]
      /\ \A h \in DOMAIN w.hands :
           /\ h \in HandId /\ h \in DOMAIN hands' /\ hands'[h].user = j.user
           /\ hands'[h].status = w.hands[h].status
           /\ NetSoFar(h)' = PlannedNet(w, h)
      /\ \A h : h \notin DOMAIN w.hands => BookHand(h)' = BookHand(h) /\ NetSoFar(h)' = NetSoFar(h)
  BY <1>1, CommitRows
<1>3. PlanMoves(w, j)
  BY <1>1 DEF BookFits, MovesFit, Commit, MayCommit, Planned
<1>4. TypeOK
  BY DEF IInv
<1>5. PICK b, c : b = Balances /\ c = Balances'
  OBVIOUS
<1>6. /\ DOMAIN b = DOMAIN players /\ DOMAIN c = DOMAIN players
      /\ \A p \in DOMAIN players : b[p] = players[p].balance /\ c[p] = players'[p].balance
      /\ \A p \in DOMAIN players \ Needs(j) : c[p] = b[p]
      /\ \A p \in Needs(j) : c[p] = w.players[p].balance /\ c[p] \in Nat /\ b[p] \in Nat
  <2>1. /\ DOMAIN b = DOMAIN players /\ DOMAIN c = DOMAIN players
        /\ \A p \in DOMAIN players : b[p] = players[p].balance /\ c[p] = players'[p].balance
    BY <1>2, <1>5 DEF Balances
  <2>2. \A p \in DOMAIN players : players[p] \in PlayerRow
    BY <1>4 DEF TypeOK, IsTable
  <2> QED BY <1>2, <2>1, <2>2 DEF PlayerRow
<1>7. pot' = IF w.hit THEN JackpotSeed ELSE pot + w.contribution
  BY <1>1 DEF Commit
<1>8. pot \in Nat /\ pot >= JackpotSeed /\ w.contribution \in Nat /\ JackpotSeed \in Nat
  BY <1>2, <1>4, EconomyAssumption DEF TypeOK, BookFits, IsWrites
<1>9. j.user \in Needs(j) /\ j.user \in Player
  <2>1. j.user \in Needs(j)
    BY DEF Needs
  <2> QED BY <1>2, <2>1, NeedsPlayers
<1>10. CASE j.op \in {"start", "act"}
  <2>1. PICK u, h : u = j.user /\ h = j.hand
    OBVIOUS
  <2>2. /\ DOMAIN w.hands = {h} /\ Needs(j) = {u} /\ h \in HandId /\ u \in Player /\ u \in DOMAIN players
        /\ w.contribution # 0 => w.hands[h].status = "settled"
        /\ w.players[u].balance - players[u].balance = PlannedNet(w, h) - NetSoFar(h)
    BY <1>2, <1>3, <1>9, <1>10, <2>1 DEF PlanMoves, HandMoves, Needs
  <2>3. PICK x, y : x = BookHands /\ y = BookHands'
    OBVIOUS
  <2>4. /\ DOMAIN x = HandId /\ DOMAIN y = HandId
        /\ \A k \in HandId : x[k] = BookHand(k) /\ y[k] = BookHand(k)'
        /\ \A k \in HandId : k # h => y[k] = x[k]
    BY <1>2, <2>2, <2>3 DEF BookHands
  <2>5. /\ x[h].net = NetSoFar(h) /\ ~x[h].closed /\ x[h].player \in {Free, u}
    <3>1. h \in DOMAIN hands => hands[h].user = u /\ hands[h].status = "active"
      BY <1>2, <2>1, <2>2 DEF HandFits
    <3>2. CASE h \in DOMAIN hands
      <4>1. x[h] = [player |-> hands[h].user, closed |-> hands[h].status = "settled", net |-> NetOf(h)]
        BY <2>2, <2>4, <3>2 DEF BookHand
      <4>2. hands[h].user = u /\ ~(hands[h].status = "settled") /\ NetSoFar(h) = NetOf(h)
        BY <3>1, <3>2 DEF NetSoFar
      <4>3. x[h].net = NetSoFar(h) /\ x[h].player = u
        BY <4>1, <4>2
      <4>4. ~x[h].closed
        BY <4>1, <4>2, OpenField
      <4> QED BY <4>3, <4>4
    <3>3. CASE h \notin DOMAIN hands
      <4>1. x[h] = [player |-> Free, closed |-> FALSE, net |-> 0] /\ NetSoFar(h) = 0
        BY <2>2, <2>4, <3>3 DEF BookHand, NetSoFar
      <4>2. x[h].net = NetSoFar(h) /\ x[h].player = Free
        BY <4>1
      <4>3. ~x[h].closed
        BY <4>1, OpenField
      <4> QED BY <4>2, <4>3
    <3> QED BY <3>2, <3>3
  <2>6. y[h] = [player |-> u, closed |-> w.hands[h].status = "settled", net |-> PlannedNet(w, h)]
    <3>1. h \in DOMAIN hands' /\ hands'[h].user = u /\ hands'[h].status = w.hands[h].status
          /\ NetSoFar(h)' = PlannedNet(w, h)
      BY <1>2, <2>1, <2>2
    <3>2. BookHand(h)' = [player |-> u, closed |-> w.hands[h].status = "settled", net |-> PlannedNet(w, h)]
      BY <3>1 DEF BookHand, NetSoFar
    <3> QED BY <2>2, <2>4, <3>2
  <2>7. PlannedNet(w, h) = x[h].net + (c[u] - b[u])
    <3>1. c[u] = w.players[u].balance /\ b[u] = players[u].balance /\ c[u] \in Nat /\ b[u] \in Nat
      BY <1>6, <2>2
    <3>2. PlannedNet(w, h) \in Int /\ NetSoFar(h) \in Int
      <4>1. w.hands[h] \in HandRow /\ (h \in DOMAIN w.hits => w.hits[h] \in Nat)
        BY <1>2, <2>2 DEF IsWrites, IsTable
      <4>2. w.hands[h].state \in EngineView
        BY <4>1, EngineAssumption DEF HandRow
      <4>3. PlannedNet(w, h) \in Int
        BY <4>1, <4>2 DEF PlannedNet, HandRow, EngineView
      <4>4. NetSoFar(h) \in Int
        BY <1>4, NetInt
      <4> QED BY <4>3, <4>4
    <3> QED BY <2>2, <2>5, <3>1, <3>2
  <2>8. y = [x EXCEPT ![h] = [player |-> u, closed |-> y[h].closed, net |-> x[h].net + (c[u] - b[u])]]
    <3>1. y[h] = [player |-> u, closed |-> y[h].closed, net |-> x[h].net + (c[u] - b[u])]
      BY <2>6, <2>7
    <3>2. y = [k \in HandId |-> y[k]] /\ x = [k \in HandId |-> x[k]]
      BY <2>3 DEF BookHands
    <3> QED BY <2>2, <2>4, <3>1, <3>2
  <2>9. \/ pot' = pot
        \/ y[h].closed /\ pot' > pot
        \/ y[h].closed /\ pot' = JackpotSeed /\ pot >= JackpotSeed
    <3>1. w.hit => w.hands[h].status = "settled"
      BY <1>2, <2>2 DEF HandFits
    <3>2. w.hands[h].status = "settled" => y[h].closed
      BY <2>6, ClosedField
    <3>3. CASE w.hit
      <4>1. pot' = JackpotSeed /\ pot >= JackpotSeed
        BY <1>7, <1>8, <3>3
      <4> QED BY <3>1, <3>2, <3>3, <4>1, Zenon
    <3>4. CASE ~w.hit
      <4>1. pot' = pot \/ (w.contribution # 0 /\ pot' > pot)
        BY <1>7, <1>8, <3>4
      <4> QED BY <2>2, <3>2, <4>1, Zenon
    <3> QED BY <3>3, <3>4
  <2>10. /\ DOMAIN c = DOMAIN b /\ {u} \subseteq DOMAIN b
         /\ \A p \in DOMAIN b \ {u} : c[p] = b[p]
         /\ \A p \in {u} : c[p] >= 0
    BY <1>6, <2>2
  <2>11. Book!OnlyMoves({u})
    BY <1>5, <2>10 DEF Book!OnlyMoves, Balances
  <2>12. Book!Play(h, u)
    BY <1>5, <2>3, <2>5, <2>8, <2>9, <2>11 DEF Book!Play, Balances, BookHands
  <2> QED BY <2>2, <2>12 DEF Book!Next
<1>11. ASSUME DOMAIN w.hands = {}, w.contribution = 0 PROVE BookHands' = BookHands /\ pot' = pot
  <2>1. \A h \in HandId : BookHand(h)' = BookHand(h)
    BY <1>2, <1>11
  <2>2. ~w.hit
    BY <1>2, <1>11 DEF HandFits
  <2> QED BY <1>7, <1>8, <1>11, <2>1, <2>2 DEF BookHands
<1>12. CASE j.op \in ClaimKind
  <2>1. PICK u : u = j.user
    OBVIOUS
  <2>2. /\ DOMAIN w.hands = {} /\ w.contribution = 0 /\ w.players[u].balance >= players[u].balance
        /\ Needs(j) = {u} /\ u \in Player /\ u \in DOMAIN players
    BY <1>2, <1>3, <1>9, <1>12, <2>1 DEF PlanMoves, ClaimGrants, Needs, ClaimKind
  <2>3. /\ DOMAIN c = DOMAIN b /\ {u} \subseteq DOMAIN b
        /\ \A p \in DOMAIN b \ {u} : c[p] = b[p]
        /\ \A p \in {u} : c[p] >= 0
        /\ c[u] >= b[u]
    BY <1>6, <2>2
  <2>4. Book!OnlyMoves({u})
    BY <1>5, <2>3 DEF Book!OnlyMoves, Balances
  <2>5. BookHands' = BookHands /\ pot' = pot
    BY <1>11, <2>2
  <2>6. Book!Grant(u)
    BY <1>5, <2>3, <2>4, <2>5 DEF Book!Grant, Balances, BookHands
  <2> QED BY <2>2, <2>6 DEF Book!Next
<1>13. CASE j.op = "gift"
  <2>1. PICK p, q, n : p = j.user /\ q = j.to /\ n = j.amount
    OBVIOUS
  <2>2. j \in GiftJob
    BY <1>2, <1>13 DEF Job, StartJob, ActJob, ClaimJob, ClaimKind
  <2>3. /\ DOMAIN w.hands = {} /\ w.contribution = 0
        /\ w.players[p].balance = players[p].balance - n
        /\ w.players[q].balance = players[q].balance + n
        /\ Needs(j) = {p, q} /\ p \in Player /\ q \in Player /\ n \in Nat
        /\ p \in DOMAIN players /\ q \in DOMAIN players
    BY <1>2, <1>3, <1>13, <2>1, <2>2 DEF PlanMoves, GiftMovesOn, Needs, GiftJob
  <2>4. p # q /\ n > 0
    BY <1>1, <1>13, <2>1, <2>2 DEF IInv, RowsOwned, BookFits
  <2>5. /\ c[p] = b[p] - n /\ c[q] = b[q] + n
        /\ c[p] \in Nat /\ c[q] \in Nat /\ b[p] \in Nat /\ b[q] \in Nat
    BY <1>6, <2>3
  <2>6. /\ DOMAIN c = DOMAIN b /\ {p, q} \subseteq DOMAIN b
        /\ \A u \in DOMAIN b \ {p, q} : c[u] = b[u]
        /\ \A u \in {p, q} : c[u] >= 0
    BY <1>6, <2>3, <2>5
  <2>7. c[p] < b[p] /\ c[p] + c[q] = b[p] + b[q]
    BY <2>3, <2>4, <2>5
  <2>8. Book!OnlyMoves({p, q})
    BY <1>5, <2>6 DEF Book!OnlyMoves, Balances
  <2>9. BookHands' = BookHands /\ pot' = pot
    BY <1>11, <2>3
  <2>10. Book!Gift(p, q)
    BY <1>5, <2>4, <2>7, <2>8, <2>9 DEF Book!Gift, Balances, BookHands
  <2> QED BY <2>3, <2>10 DEF Book!Next
<1> QED BY <1>2, <1>10, <1>12, <1>13 DEF Job, StartJob, ActJob, ClaimJob, GiftJob

LEMMA StepBook ==
  ASSUME IInv, BookFits, [Next]_vars
  PROVE  [Book!Next]_(Book!book)
<1>1. ASSUME NEW p \in Player, EnsurePlayer(p) PROVE Book!Next
  BY <1>1, JoinBook
<1>2. ASSUME NEW r \in Request, Commit(r) PROVE Book!Next
  BY <1>2, CommitBook
<1>3. \/ \E p \in Player : EnsurePlayer(p)
      \/ \E r \in Request : Commit(r)
      \/ UNCHANGED <<players, hands, hits, pot>>
  BY DEF Next, Begin, Step, PostHands, PostAction, PostClaim, PostGift, Arrive,
         LockPlayer, PlanStart, PlanAction, PlanDaily, PlanBailout, PlanGift, Plan, Answer,
         LockJackpot, Abort, Tick, vars, tables
<1> QED BY <1>1, <1>2, <1>3, StutterBook

(* The transactions of Highroller implement the book of chips: whatever     *)
(* requests run together, retry, fail or are rolled back, every change of a *)
(* balance is one hand's move, one grant or one gift, and the hand's own    *)
(* row says exactly what it moved (economy.ts, hands.ts, settle.ts).        *)
THEOREM AlwaysImplementsBook ==
  ASSUME DistinctIds
  PROVE  Spec => ImplementsBook
<1>1. Init => BookFits /\ Book!Init
  BY InitBookFits, InitBook
<1>2. IInv /\ BookFits /\ [Next]_vars => BookFits' /\ [Book!Next]_(Book!book)
  BY NextBookFits, StepBook
<1> QED BY <1>1, <1>2, AlwaysIInv, PTL DEF Spec, ImplementsBook, Book!Spec

==============================================================================
