------------------------ MODULE ChipsFirestoreProofs ------------------------
(***************************************************************************)
(* ChipsFirestore's properties for any number of players, hands, shards and *)
(* requests, and any interleaving of attempts: the map of active hands      *)
(* agrees with the hands, what is created is never there already, the       *)
(* shards keep account of the jackpot, and the transactions implement the   *)
(* book of chips.                                                           *)
(***************************************************************************)
EXTENDS ChipsFirestoreInvariant, ChipsPlanProofs

------------------------------------------------------------------------------
(* Types.                                                                   *)

LEMMA JobOf ==
  ASSUME NEW j \in Job
  PROVE  /\ j.op = "start" => j \in StartJob
         /\ j.op = "act" => j \in ActJob
         /\ j.op \in ClaimKind => j \in ClaimJob
         /\ j.op = "gift" => j \in GiftJob
         /\ j.op \in {"start", "act", "gift"} \cup ClaimKind
         /\ j.op \in {"start", "act"} => j.hand \in HandId
         /\ j.user \in Player /\ PlayersOf(j) \subseteq Player /\ j.user \in PlayersOf(j)
         /\ j.op # "gift" => PlayersOf(j) = {j.user}
  BY DEF Job, StartJob, ActJob, ClaimJob, GiftJob, ClaimKind, PlayersOf

LEMMA StatsType ==
  ASSUME TypeOK, NEW p \in Player, NEW g \in Game
  PROVE  StatsOf(p, g) \in StatsRow
  BY DEF TypeOK, IsTable, StatsOf, NoStats, StatsRow

LEMMA PotNat ==
  ASSUME TypeOK
  PROVE  potOf \in Nat /\ potOf >= JackpotSeed
<1>1. SumFunctionOnSet(shards, Shard) \in Nat
  BY SumNat, FirestoreAssumption DEF TypeOK
<1> QED BY <1>1, EconomyAssumption DEF potOf

LEMMA NetInt ==
  ASSUME TypeOK, NEW h
  PROVE  NetSoFar(h) \in Int
<1>1. CASE h \in DOMAIN hands
  <2>1. hands[h] \in HandRow /\ hands[h].state \in EngineView /\ (h \in DOMAIN hits => hits[h] \in Nat)
    BY <1>1, EngineAssumption DEF TypeOK, IsTable, HandRow
  <2> QED BY <1>1, <2>1 DEF NetSoFar, NetOf, HandRow, EngineView
<1>2. CASE h \notin DOMAIN hands
  BY <1>2 DEF NetSoFar
<1> QED BY <1>1, <1>2

LEMMA NoWritesType == IsWrites(NoWrites)
<1>1. IsTable(NoRows, Player, PlayerRow)
  BY DEF IsTable, NoRows
<1> QED BY <1>1, DraftWrites DEF NoWrites

LEMMA InitInv == Init => IInv
<1> SUFFICES ASSUME Init PROVE IInv
  OBVIOUS
<1>1. TypeOK
  <2>1. /\ IsTable(players, Player, PlayerRow) /\ IsTable(ledger, Player \X Nat, Entry)
        /\ IsTable(hands, HandId, HandRow) /\ IsTable(gifts, GiftId, GiftRow)
        /\ IsTable(stats, Player \X Game, StatsRow) /\ IsTable(hits, HandId, Nat)
        /\ IsTable(activeHands, Player \X Game, HandId)
    BY DEF Init, IsTable, NoRows
  <2>2. /\ shards \in [Shard -> Nat] /\ today \in Nat /\ stale \in [Request -> BOOLEAN]
        /\ phase \in [Request -> {"idle", "ready", "planned", "paid"}]
        /\ job \in [Request -> Job \cup {NoJob}]
        /\ DOMAIN writes = Request /\ DOMAIN read = Request
    BY DEF Init
  <2> QED BY <2>1, <2>2 DEF TypeOK
<1>2. JobsAsk /\ PlansFit
  BY DEF Init, JobsAsk, PlansFit, Current, Attempting
<1>3. HitsSettled /\ ActiveHandsAgree /\ Explains(ledger, players)
  BY DEF Init, HitsSettled, ActiveHandsAgree, Explains, NoRows
<1> QED BY <1>1, <1>2, <1>3 DEF IInv

------------------------------------------------------------------------------
(* Whatever an attempt read is what it was.                                 *)

(* The plan's ledger rows are about its own players only.                   *)
LEMMA FitsElsewhere ==
  ASSUME NEW w, NEW rows, NEW rows2, LedgerFits(w, rows),
         \A p \in DOMAIN w.players : p \in DOMAIN rows2 /\ rows2[p] = rows[p]
  PROVE  LedgerFits(w, rows2)
  BY DEF LedgerFits

(* A plan still fits when nothing it read has changed.                      *)
LEMMA PlanKept ==
  ASSUME NEW w, NEW j, NEW map, NEW at, PlanFits(w, j, map, at),
         \A p \in PlayersOf(j) : p \in DOMAIN players' /\ players'[p] = players[p],
         j.user \in PlayersOf(j), j.op = "gift" => j.to \in PlayersOf(j),
         NEW h, h = j.hand,
         j.op \in {"start", "act"} => /\ h \in DOMAIN hands' <=> h \in DOMAIN hands
                                      /\ h \in DOMAIN hands => hands'[h] = hands[h]
                                      /\ NetSoFar(h)' = NetSoFar(h),
         j.op = "gift" => (j.gift \in DOMAIN gifts' => j.gift \in DOMAIN gifts),
         NEW u, u = j.user, OfPlayers(activeHands', {u}) = OfPlayers(activeHands, {u}),
         at = "paid" => potOf' = potOf
  PROVE  PlanFits(w, j, map, at)'
<1>1. IsWrites(w) /\ LedgerFits(w, players') /\ DOMAIN w.players = PlayersOf(j)
  BY FitsElsewhere DEF PlanFits
<1>2. map = OfPlayers(activeHands', {j.user})
  BY DEF PlanFits
<1>3. j.op \in {"start", "act"} => HandFits(w, j, map)'
  <2> SUFFICES ASSUME j.op \in {"start", "act"} PROVE HandFits(w, j, map)'
    OBVIOUS
  <2>1. HandFits(w, j, map) /\ players'[j.user] = players[j.user]
    BY DEF PlanFits
  <2>2. PICK n : n = NetSoFar(h)
    OBVIOUS
  <2>3. NetSoFar(h)' = n
    BY <2>2
  <2>4. /\ DOMAIN w.hands = {h} /\ w.hands[h].user = j.user /\ DOMAIN w.gifts = {}
        /\ h \in DOMAIN hands => /\ hands[h].user = j.user
                                 /\ hands[h].game = w.hands[h].game
                                 /\ hands[h].status = "active"
        /\ h \notin DOMAIN hands => <<j.user, w.hands[h].game>> \notin DOMAIN map
        /\ w.contribution = PlannedFeed(w, h)
        /\ w.hit => w.hands[h].status = "settled"
        /\ w.players[j.user].balance - players[j.user].balance = PlannedNet(w, h) - n
    BY <2>1, <2>2 DEF HandFits
  <2> QED BY <2>1, <2>3, <2>4 DEF HandFits, NetSoFar, NetOf
<1>4. j.op \in {"start", "act"} => HitFits(w, j.hand, at)'
  <2>1. PICK p : p = potOf
    OBVIOUS
  <2>2. at = "paid" => potOf' = p
    BY <2>1
  <2> QED BY <2>1, <2>2 DEF PlanFits, HitFits, potOf
<1>5. j.op \in ClaimKind => ClaimFits(w, j)' /\ at # "paid"
  BY DEF PlanFits, ClaimFits
<1>6. j.op = "gift" => GiftFits(w, j)' /\ at # "paid"
  BY DEF PlanFits, GiftFits
<1> QED BY <1>1, <1>2, <1>3, <1>4, <1>5, <1>6 DEF PlanFits

(* A request this step does not move.                                       *)
Still(q) ==
  /\ phase'[q] = phase[q] /\ job'[q] = job[q] /\ writes'[q] = writes[q] /\ read'[q] = read[q]
  /\ stale[q] => stale'[q]

LEMMA QuietPlan ==
  ASSUME UNCHANGED documents, NEW v, NEW i, NEW m, NEW a, PlanFits(v, i, m, a)
  PROVE  PlanFits(v, i, m, a)'
<1>1. /\ players' = players /\ hands' = hands /\ gifts' = gifts
      /\ hits' = hits /\ activeHands' = activeHands /\ shards' = shards
  BY DEF documents
<1> QED BY <1>1 DEF PlanFits, HandFits, HitFits, ClaimFits, GiftFits, NetSoFar, NetOf, potOf

(* A step of one request that leaves the documents alone.                   *)
LEMMA QuietInv ==
  ASSUME IInv, TypeOK', UNCHANGED documents, NEW r \in Request, \A q \in Request \ {r} : Still(q),
         phase'[r] # "idle" => Asks(job'[r]),
         NEW w, NEW j, NEW map, NEW at, w = writes'[r], j = job'[r], map = read'[r], at = phase'[r],
         Current(r)' => PlanFits(w, j, map, at)
  PROVE  IInv'
<1>1. /\ players' = players /\ ledger' = ledger /\ hands' = hands /\ gifts' = gifts
      /\ hits' = hits /\ activeHands' = activeHands /\ shards' = shards
  BY DEF documents
<1>2. JobsAsk'
  BY <1>1 DEF IInv, JobsAsk, Asks, Still
<1>3. HitsSettled' /\ ActiveHandsAgree' /\ Explains(ledger, players)'
  BY <1>1 DEF IInv, HitsSettled, ActiveHandsAgree, Explains, BalanceAt
<1>4. ASSUME NEW v, NEW i, NEW m, NEW a, PlanFits(v, i, m, a)
      PROVE  PlanFits(v, i, m, a)'
  BY <1>4, QuietPlan
<1>5. PlansFit'
  <2> SUFFICES ASSUME NEW q \in Request, Current(q)'
               PROVE  PlanFits(writes[q], job[q], read[q], phase[q])'
    BY DEF PlansFit
  <2>1. CASE q = r
    BY <1>4, <2>1
  <2>2. CASE q # r
    <3>1. Still(q)
      BY <2>2
    <3>2. PICK v, i, m, a : v = writes[q] /\ i = job[q] /\ m = read[q] /\ a = phase[q]
      OBVIOUS
    <3>3. PlanFits(v, i, m, a)
      BY <3>1, <3>2 DEF IInv, PlansFit, Current, Attempting, Still
    <3>4. PlanFits(v, i, m, a)'
      BY <1>4, <3>3
    <3> QED BY <3>1, <3>2, <3>4 DEF Still
  <2> QED BY <2>1, <2>2
<1> QED BY <1>2, <1>3, <1>5 DEF IInv

------------------------------------------------------------------------------
(* A request arrives.                                                       *)
LEMMA ArriveInv ==
  ASSUME IInv, NEW r \in Request, NEW j, Asks(j), Arrive(r, j)
  PROVE  IInv'
<1>1. /\ phase' = [phase EXCEPT ![r] = "ready"] /\ job' = [job EXCEPT ![r] = j]
      /\ UNCHANGED documents /\ UNCHANGED <<writes, read, stale, today>>
  BY DEF Arrive
<1>2. TypeOK /\ j \in Job
  BY DEF IInv, Asks
<1>3. /\ phase'[r] = "ready" /\ job'[r] = j
      /\ \A q \in Request \ {r} : Still(q)
  BY <1>1, <1>2 DEF TypeOK, Still
<1>4. TypeOK'
  BY <1>1, <1>2 DEF TypeOK, documents
<1>5. ~Current(r)'
  BY <1>3 DEF Current, Attempting
<1> QED BY <1>1, <1>3, <1>4, <1>5, QuietInv

LEMMA RequestInv ==
  ASSUME IInv, NEW r \in Request, PostHands(r) \/ PostAction(r) \/ PostClaim(r) \/ PostGift(r)
  PROVE  IInv'
<1>1. TypeOK
  BY DEF IInv
<1>2. CASE PostHands(r)
  <2>1. PICK p \in Player, g \in Game :
          \E h \in HandIdsOf[p], s \in Deals[g] :
            Arrive(r, [op |-> "start", user |-> p, hand |-> h, game |-> g, dealt |-> s])
    BY <1>2 DEF PostHands
  <2>2. PICK h \in HandIdsOf[p], s \in Deals[g] :
          Arrive(r, [op |-> "start", user |-> p, hand |-> h, game |-> g, dealt |-> s])
    BY <2>1
  <2>3. PICK j : j = [op |-> "start", user |-> p, hand |-> h, game |-> g, dealt |-> s]
    OBVIOUS
  <2>4. h \in HandId /\ s \in EngineState
    BY FirestoreAssumption, EngineAssumption
  <2>5. Asks(j)
    BY <2>2, <2>3, <2>4 DEF Asks, Arrive, Job, StartJob, PlayersOf
  <2> QED BY <2>2, <2>3, <2>5, ArriveInv
<1>3. CASE PostAction(r)
  <2>1. PICK p \in Player, h \in DOMAIN hands, a \in ActionType :
          \E v \in 0 .. hands[h].version :
            Arrive(r, [op |-> "act", user |-> p, hand |-> h, version |-> v, action |-> a])
    BY <1>3 DEF PostAction
  <2>2. PICK v \in 0 .. hands[h].version :
          Arrive(r, [op |-> "act", user |-> p, hand |-> h, version |-> v, action |-> a])
    BY <2>1
  <2>3. PICK j : j = [op |-> "act", user |-> p, hand |-> h, version |-> v, action |-> a]
    OBVIOUS
  <2>4. h \in HandId /\ v \in Nat
    BY <1>1 DEF TypeOK, IsTable
  <2>5. Asks(j)
    BY <2>2, <2>3, <2>4 DEF Asks, Arrive, Job, ActJob, PlayersOf
  <2> QED BY <2>2, <2>3, <2>5, ArriveInv
<1>4. CASE PostClaim(r)
  <2>1. PICK p \in Player, kind \in Claim : Arrive(r, [op |-> kind, user |-> p, day |-> today])
    BY <1>4 DEF PostClaim
  <2>2. PICK j : j = [op |-> kind, user |-> p, day |-> today]
    OBVIOUS
  <2>3. kind \in ClaimKind /\ today \in Day /\ kind # "gift"
    BY <1>1, FirestoreAssumption DEF TypeOK, Day, ClaimKind
  <2>4. Asks(j)
    BY <2>1, <2>2, <2>3 DEF Asks, Arrive, Job, ClaimJob, PlayersOf
  <2> QED BY <2>1, <2>2, <2>4, ArriveInv
<1>5. CASE PostGift(r)
  <2>1. PICK p \in Player, n \in GiftAmount :
          \E q \in DOMAIN players \ {p}, id \in GiftIdsOf[p] :
            Arrive(r, [op |-> "gift", user |-> p, to |-> q, gift |-> id, amount |-> n, day |-> today])
    BY <1>5 DEF PostGift
  <2>2. PICK q \in DOMAIN players \ {p}, id \in GiftIdsOf[p] :
          Arrive(r, [op |-> "gift", user |-> p, to |-> q, gift |-> id, amount |-> n, day |-> today])
    BY <2>1
  <2>3. PICK j : j = [op |-> "gift", user |-> p, to |-> q, gift |-> id, amount |-> n, day |-> today]
    OBVIOUS
  <2>4. id \in GiftId /\ n \in Nat /\ n > 0 /\ today \in Day /\ q \in Player /\ q # p /\ q \in DOMAIN players
    BY <1>1, FirestoreAssumption DEF TypeOK, IsTable, Day
  <2>5. j \in Job
    BY <2>3, <2>4 DEF Job, GiftJob
  <2>6. PlayersOf(j) = {p, q} /\ p \in DOMAIN players
    BY <2>2, <2>3 DEF Arrive, PlayersOf
  <2>7. Asks(j)
    BY <2>3, <2>4, <2>5, <2>6 DEF Asks
  <2> QED BY <2>2, <2>3, <2>7, ArriveInv
<1> QED BY <1>2, <1>3, <1>4, <1>5

------------------------------------------------------------------------------
(* An attempt ends without writing, or starts again.                        *)
LEMMA ReleaseInv ==
  ASSUME IInv, NEW r \in Request, UNCHANGED <<documents, today>>,
         End(r) \/ (Again(r) /\ phase[r] # "idle"),
         stale' = stale \/ stale' = [stale EXCEPT ![r] = FALSE]
  PROVE  IInv'
<1>1. TypeOK
  BY DEF IInv
<1>2. \A q \in Request \ {r} : Still(q)
  BY <1>1 DEF End, Again, TypeOK, Still
<1>3. phase'[r] \in {"idle", "ready"}
  BY <1>1 DEF End, Again, TypeOK
<1>4. phase'[r] # "idle" => Asks(job'[r])
  BY <1>1 DEF End, Again, TypeOK, IInv, JobsAsk
<1>5. TypeOK'
  <2>1. /\ phase' \in [Request -> {"idle", "ready", "planned", "paid"}]
        /\ job' \in [Request -> Job \cup {NoJob}]
        /\ DOMAIN writes' = Request /\ DOMAIN read' = Request /\ stale' \in [Request -> BOOLEAN]
    BY <1>1 DEF End, Again, TypeOK
  <2> QED BY <1>1, <2>1 DEF TypeOK, documents
<1>6. ~Current(r)'
  BY <1>3 DEF Current, Attempting
<1> QED BY <1>2, <1>4, <1>5, <1>6, QuietInv

LEMMA EndingInv ==
  ASSUME IInv, NEW r \in Request, Answer(r) \/ Rerun(r) \/ Fail(r)
  PROVE  IInv'
<1>1. CASE Answer(r)
  BY <1>1, ReleaseInv DEF Answer
<1>2. CASE Rerun(r)
  BY <1>2, ReleaseInv DEF Rerun, Attempting
<1>3. CASE Fail(r)
  BY <1>3, ReleaseInv DEF Fail
<1> QED BY <1>1, <1>2, <1>3

------------------------------------------------------------------------------
(* An attempt reads and plans.                                              *)
LEMMA PlanInv ==
  ASSUME IInv, NEW r \in Request, NEW w, Plan(r, w), phase[r] = "ready",
         NEW j, j = job[r], PlanFits(w, j, OfPlayers(activeHands, {j.user}), "planned")
  PROVE  IInv'
<1>1. TypeOK /\ Asks(j)
  BY DEF IInv, JobsAsk
<1>2. PICK map : map = OfPlayers(activeHands, {j.user})
  OBVIOUS
<1>3. /\ phase' = [phase EXCEPT ![r] = "planned"] /\ writes' = [writes EXCEPT ![r] = w]
      /\ read' = [read EXCEPT ![r] = map] /\ UNCHANGED documents /\ UNCHANGED <<job, stale, today>>
  BY <1>2 DEF Plan
<1>4. /\ phase'[r] = "planned" /\ writes'[r] = w /\ read'[r] = map /\ job'[r] = j
      /\ \A q \in Request \ {r} : Still(q)
  BY <1>1, <1>3 DEF TypeOK, Still
<1>5. TypeOK'
  BY <1>1, <1>3 DEF TypeOK, documents
<1>6. PICK at : at = "planned"
  OBVIOUS
<1>7. PlanFits(w, j, map, at) /\ phase'[r] = at
  BY <1>2, <1>4, <1>6
<1> QED BY <1>1, <1>3, <1>4, <1>5, <1>7, QuietInv

LEMMA PlanStartInv ==
  ASSUME IInv, NEW r \in Request, PlanStart(r)
  PROVE  IInv'
<1>1. PICK j : j = job[r]
  OBVIOUS
<1>2. PICK u, h, g, s, st, row : /\ u = j.user /\ h = j.hand /\ g = j.game /\ s = j.dealt
                                 /\ st = StatsOf(u, g) /\ row = players[u]
  OBVIOUS
<1>3. PICK w : w = StartWrites(u, row, h, g, s, st)
  OBVIOUS
<1>4. phase[r] = "ready" /\ j.op = "start" /\ StartAllowed(j) /\ Plan(r, w)
  BY <1>1, <1>2, <1>3 DEF PlanStart
<1>5. TypeOK /\ Asks(j)
  BY <1>1, <1>4 DEF IInv, JobsAsk
<1>6. j \in StartJob /\ PlayersOf(j) = {u} /\ u \in DOMAIN players
  BY <1>2, <1>4, <1>5, JobOf DEF Asks
<1>7. u \in Player /\ h \in HandId /\ g \in Game /\ s \in EngineState /\ row \in PlayerRow
  BY <1>2, <1>5, <1>6 DEF StartJob, TypeOK, IsTable
<1>8. st \in StatsRow
  BY <1>2, <1>5, <1>7, StatsType
<1>9. /\ h \notin DOMAIN hands /\ <<u, g>> \notin DOMAIN activeHands /\ Affords(row, -s.staked)
  BY <1>2, <1>4 DEF StartAllowed
<1>10. PlansHand(w, u, h, g, players)
  <2>1. PICK table : table = players
    OBVIOUS
  <2>2. IsTable(table, Player, PlayerRow) /\ u \in DOMAIN table /\ table[u] = row
    BY <1>2, <1>5, <1>6, <2>1 DEF TypeOK
  <2>3. Affords(table[u], -s.staked) /\ w = StartWrites(u, table[u], h, g, s, st)
    BY <1>3, <1>9, <2>2
  <2>4. PlansHand(w, u, h, g, table)
    BY <1>7, <1>8, <2>2, <2>3, StartPlans
  <2> QED BY <2>1, <2>4
<1>11. /\ DOMAIN w.hands = {h} /\ DOMAIN w.hits = {} /\ w.contribution = PlannedFeed(w, h)
       /\ w.players[u].balance - row.balance = PlannedNet(w, h) /\ PlannedNet(w, h) \in Int
  BY <1>3, <1>7, <1>8, StartMoves
<1>12. PICK map : map = OfPlayers(activeHands, {j.user})
  OBVIOUS
<1>13. <<u, g>> \notin DOMAIN map
  BY <1>9, <1>12 DEF OfPlayers
<1>14. w.players[u].balance - players[u].balance = PlannedNet(w, h) - NetSoFar(h)
  <2>1. NetSoFar(h) = 0
    BY <1>9 DEF NetSoFar
  <2> QED BY <1>2, <1>11, <2>1
<1>15. HandFits(w, j, map) /\ HitFits(w, j.hand, "planned")
  BY <1>2, <1>9, <1>10, <1>11, <1>13, <1>14 DEF PlansHand, HandFits, HitFits
<1>16. PlanFits(w, j, map, "planned")
  BY <1>4, <1>6, <1>10, <1>12, <1>15 DEF PlansHand, PlansFor, PlanFits, ClaimKind
<1> QED BY <1>1, <1>4, <1>12, <1>16, PlanInv

LEMMA PlanActionInv ==
  ASSUME IInv, NEW r \in Request, PlanAction(r)
  PROVE  IInv'
<1>1. PICK j : j = job[r]
  OBVIOUS
<1>2. PICK t \in NextStates(j) :
        /\ ActionAllowed(j, t)
        /\ Plan(r, ActionWrites(players[j.user], j.hand, hands[j.hand], t,
                                StatsOf(j.user, hands[j.hand].game)))
  BY <1>1 DEF PlanAction
<1>3. PICK u, h, hand, row : u = j.user /\ h = j.hand /\ hand = hands[h] /\ row = players[u]
  OBVIOUS
<1>4. PICK st : st = StatsOf(u, hand.game)
  OBVIOUS
<1>5. PICK w : w = ActionWrites(row, h, hand, t, st)
  OBVIOUS
<1>6. phase[r] = "ready" /\ j.op = "act" /\ Plan(r, w)
  BY <1>1, <1>2, <1>3, <1>4, <1>5 DEF PlanAction
<1>7. TypeOK /\ Asks(j)
  BY <1>1, <1>6 DEF IInv, JobsAsk
<1>8. j \in ActJob /\ PlayersOf(j) = {u} /\ u \in DOMAIN players
  BY <1>3, <1>6, <1>7, JobOf DEF Asks
<1>9. /\ u \in Player /\ j.action \in ActionType /\ h \in DOMAIN hands /\ h \in HandId
      /\ hand.user = u /\ hand.status = "active"
      /\ ExtraStake(hand, t) > 0 => Affords(row, -ExtraStake(hand, t))
  BY <1>2, <1>3, <1>8 DEF ActJob, NextStates, ActionAllowed
<1>10. hand \in HandRow /\ hand.state \in EngineState /\ row \in PlayerRow /\ hand.game \in Game
  BY <1>3, <1>7, <1>8, <1>9 DEF TypeOK, IsTable, HandRow
<1>11. t \in EngineState /\ hand.state.paidEarly <= t.paidEarly
  <2>1. t \in Act[<<hand.state, j.action>>]
    BY <1>2, <1>3, <1>9 DEF NextStates
  <2>2. Act[<<hand.state, j.action>>] \in SUBSET EngineState
    <3>1. <<hand.state, j.action>> \in EngineState \X ActionType
      BY <1>9, <1>10
    <3> QED BY <3>1, EngineAssumption
  <2> QED BY <1>9, <1>10, <2>1, <2>2, EngineAssumption
<1>12. st \in StatsRow
  BY <1>4, <1>7, <1>9, <1>10, StatsType
<1>13. PlansHand(w, u, h, hand.game, players)
  <2>1. PICK table, k : table = players /\ k = hand.user
    OBVIOUS
  <2>2. IsTable(table, Player, PlayerRow) /\ hand.user \in DOMAIN table /\ table[hand.user] = row
    BY <1>3, <1>7, <1>8, <1>9, <2>1 DEF TypeOK
  <2>3. /\ ExtraStake(hand, t) > 0 => Affords(table[hand.user], -ExtraStake(hand, t))
        /\ w = ActionWrites(table[hand.user], h, hand, t, st)
    BY <1>5, <1>9, <2>2
  <2>4. PlansHand(w, hand.user, h, hand.game, table)
    BY <1>9, <1>10, <1>11, <1>12, <2>2, <2>3, ActionPlans
  <2> QED BY <1>9, <2>1, <2>4
<1>14. /\ DOMAIN w.hands = {h} /\ DOMAIN w.hits = {} /\ w.contribution = PlannedFeed(w, h)
       /\ w.players[u].balance - row.balance = PlannedNet(w, h) - (hand.state.paidEarly - hand.wagered)
  BY <1>5, <1>9, <1>10, <1>11, <1>12, ActionMoves
<1>15. w.players[u].balance - players[u].balance = PlannedNet(w, h) - NetSoFar(h)
  <2>1. NetSoFar(h) = hand.state.paidEarly - hand.wagered
    BY <1>3, <1>9 DEF NetSoFar, NetOf
  <2> QED BY <1>3, <1>14, <2>1
<1>16. PICK map : map = OfPlayers(activeHands, {j.user})
  OBVIOUS
<1>17. HandFits(w, j, map) /\ HitFits(w, j.hand, "planned")
  BY <1>3, <1>9, <1>13, <1>14, <1>15 DEF PlansHand, HandFits, HitFits
<1>18. PlanFits(w, j, map, "planned")
  BY <1>6, <1>8, <1>13, <1>16, <1>17 DEF PlansHand, PlansFor, PlanFits, ClaimKind
<1> QED BY <1>1, <1>6, <1>16, <1>18, PlanInv

LEMMA PlanClaimInv ==
  ASSUME IInv, NEW r \in Request, PlanClaim(r)
  PROVE  IInv'
<1>1. PICK j, u, day, old : j = job[r] /\ u = j.user /\ day = j.day /\ old = players[u]
  OBVIOUS
<1>2. phase[r] = "ready" /\ j.op \in ClaimKind
  BY <1>1 DEF PlanClaim, ClaimKind
<1>3. TypeOK /\ Asks(j)
  BY <1>1, <1>2 DEF IInv, JobsAsk
<1>4. j \in ClaimJob /\ PlayersOf(j) = {u} /\ u \in DOMAIN players
  BY <1>1, <1>2, <1>3, JobOf DEF Asks, ClaimKind
<1>5. day \in Day /\ u \in Player /\ old \in PlayerRow
  BY <1>1, <1>3, <1>4 DEF ClaimJob, TypeOK, IsTable
<1>6. PICK table : table = players
  OBVIOUS
<1>7. IsTable(table, Player, PlayerRow) /\ u \in DOMAIN table /\ table[u] = old
  BY <1>1, <1>3, <1>4, <1>6 DEF TypeOK
<1>8. ASSUME NEW w, PlansFor(w, {u}, table), WithoutHand(w), DOMAIN w.gifts = {}, w.contribution = 0,
             w.players[u].balance >= old.balance, Plan(r, w)
      PROVE  IInv'
  <2>1. PICK map : map = OfPlayers(activeHands, {j.user})
    OBVIOUS
  <2>2. ClaimFits(w, j)
    BY <1>1, <1>8 DEF WithoutHand, ClaimFits, NoHand
  <2>3. j.op \notin {"start", "act", "gift"}
    BY <1>2 DEF ClaimKind
  <2>4. PlanFits(w, j, map, "planned")
    BY <1>4, <1>6, <1>8, <2>1, <2>2, <2>3 DEF PlansFor, PlanFits
  <2> QED BY <1>1, <1>2, <1>8, <2>1, <2>4, PlanInv
<1>9. CASE j.op = "daily_bonus" /\ DailyAllowed(old, day) /\ Plan(r, DailyWrites(u, old, day))
  <2>1. PICK w, streak : w = DailyWrites(u, old, day) /\ streak = StreakOn(old, day)
    OBVIOUS
  <2>2. PICK row : row = [old EXCEPT !.dailyStreak = streak, !.lastDailyOn = day]
    OBVIOUS
  <2>3. w = Post(Draft(Row(u, row)), u, "daily_bonus", BonusFor(streak), day)
    BY <2>1, <2>2 DEF DailyWrites
  <2>4. streak \in Nat
    BY <1>5, <2>1 DEF StreakOn, PlayerRow
  <2>5. row \in PlayerRow /\ row.balance = old.balance
    BY <1>5, <2>2, <2>4 DEF PlayerRow
  <2>6. BonusFor(streak) \in Nat
    BY <2>4, BonusNat
  <2>7. w.players[u].balance >= row.balance /\ w.contribution = 0
    BY <2>3, <2>5, <2>6, ClaimMoves
  <2>8. PlansFor(w, {u}, table) /\ WithoutHand(w) /\ DOMAIN w.gifts = {}
    BY <1>5, <1>7, <2>1, DailyPlans
  <2> QED BY <1>8, <1>9, <2>1, <2>5, <2>7, <2>8
<1>10. CASE j.op = "bailout" /\ BailoutAllowed(old, day) /\ Plan(r, BailoutWrites(u, old, day))
  <2>1. PICK w, amount : w = BailoutWrites(u, old, day) /\ amount = BailoutTopUp - old.balance
    OBVIOUS
  <2>2. PICK row : row = [old EXCEPT !.lastBailoutOn = day]
    OBVIOUS
  <2>3. w = Post(Draft(Row(u, row)), u, "bailout", amount, day)
    BY <2>1, <2>2 DEF BailoutWrites
  <2>4. old.balance < BailoutFloor
    BY <1>10 DEF BailoutAllowed
  <2>5. row \in PlayerRow /\ row.balance = old.balance
    BY <1>5, <2>2 DEF PlayerRow
  <2>6. amount \in Nat
    BY <1>5, <2>1, <2>4, EconomyAssumption DEF PlayerRow
  <2>7. w.players[u].balance >= row.balance /\ w.contribution = 0
    BY <2>3, <2>5, <2>6, ClaimMoves
  <2>8. PlansFor(w, {u}, table) /\ WithoutHand(w) /\ DOMAIN w.gifts = {}
    BY <1>5, <1>7, <2>1, <2>4, BailoutPlans
  <2> QED BY <1>8, <1>10, <2>1, <2>5, <2>7, <2>8
<1> QED BY <1>1, <1>9, <1>10 DEF PlanClaim

LEMMA PlanGiftInv ==
  ASSUME IInv, NEW r \in Request, PlanGift(r)
  PROVE  IInv'
<1>1. PICK j, p, q, id, g : j = job[r] /\ p = j.user /\ q = j.to /\ id = j.gift /\ g = GiftRowOf(j)
  OBVIOUS
<1>2. PICK from, to : from = players[p] /\ to = players[q]
  OBVIOUS
<1>3. PICK w : w = GiftWrites(from, to, id, g)
  OBVIOUS
<1>4. phase[r] = "ready" /\ j.op = "gift" /\ SendAllowed(j) /\ Plan(r, w)
  BY <1>1, <1>2, <1>3 DEF PlanGift
<1>5. TypeOK /\ Asks(j)
  BY <1>1, <1>4 DEF IInv, JobsAsk
<1>6. j \in GiftJob /\ PlayersOf(j) = {p, q} /\ p \in DOMAIN players /\ q \in DOMAIN players /\ p # q
  BY <1>1, <1>4, <1>5, JobOf DEF Asks, PlayersOf
<1>7. /\ g \in GiftRow /\ id \in GiftId /\ p = g.from /\ q = g.to /\ g.amount = j.amount
      /\ p \in Player /\ q \in Player
  BY <1>1, <1>6 DEF GiftJob, GiftRow, GiftRowOf
<1>8. from \in PlayerRow /\ to \in PlayerRow
  BY <1>2, <1>5, <1>6 DEF TypeOK, IsTable
<1>9. id \notin DOMAIN gifts /\ GiftAllowed(from, to, g)
  BY <1>1, <1>2, <1>4 DEF SendAllowed
<1>10. PICK table : table = players
  OBVIOUS
<1>11. /\ IsTable(table, Player, PlayerRow) /\ p \in DOMAIN table /\ q \in DOMAIN table
       /\ table[p] = from /\ table[q] = to
  BY <1>2, <1>5, <1>6, <1>10 DEF TypeOK
<1>12. PlansFor(w, {p, q}, table) /\ WithoutHand(w) /\ DOMAIN w.gifts = {id}
  <2>1. GiftAllowed(table[p], table[q], g) /\ w = GiftWrites(table[p], table[q], id, g)
    BY <1>3, <1>9, <1>11
  <2> QED BY <1>6, <1>7, <1>11, <2>1, GiftPlans
<1>13. /\ w.players[p].balance = from.balance - g.amount
       /\ w.players[q].balance = to.balance + g.amount
       /\ w.contribution = 0
  BY <1>3, <1>6, <1>7, <1>8, GiftMoves
<1>14. GiftFits(w, j)
  BY <1>1, <1>2, <1>7, <1>9, <1>12, <1>13 DEF GiftFits, NoHand, WithoutHand
<1>15. PICK map : map = OfPlayers(activeHands, {j.user})
  OBVIOUS
<1>16. PlanFits(w, j, map, "planned")
  BY <1>4, <1>6, <1>10, <1>12, <1>14, <1>15 DEF PlansFor, PlanFits, ClaimKind
<1> QED BY <1>1, <1>4, <1>15, <1>16, PlanInv

(* A hit reads the pot.                                                     *)
LEMMA ReadPotInv ==
  ASSUME IInv, NEW r \in Request, ReadPot(r)
  PROVE  IInv'
<1>1. PICK j, w, map, pot : j = job[r] /\ w = writes[r] /\ map = read[r] /\ pot = potOf
  OBVIOUS
<1>2. PICK u, h : u = j.user /\ h = j.hand
  OBVIOUS
<1>3. PICK v : v = PayJackpot(w, u, h, pot)
  OBVIOUS
<1>4. /\ phase[r] = "planned" /\ w.hit /\ phase' = [phase EXCEPT ![r] = "paid"]
      /\ writes' = [writes EXCEPT ![r] = v]
      /\ UNCHANGED documents /\ UNCHANGED <<job, read, stale, today>>
  BY <1>1, <1>2, <1>3 DEF ReadPot
<1>5. TypeOK /\ Asks(j)
  BY <1>1, <1>4 DEF IInv, JobsAsk
<1>6. /\ phase'[r] = "paid" /\ writes'[r] = v /\ job'[r] = j /\ read'[r] = map
      /\ \A q \in Request \ {r} : Still(q)
  BY <1>1, <1>4, <1>5 DEF TypeOK, Still
<1>7. TypeOK'
  BY <1>4, <1>5 DEF TypeOK, documents
<1>8. ASSUME Current(r)' PROVE PlanFits(v, j, map, "paid")
  <2>1. PlanFits(w, j, map, "planned")
    BY <1>1, <1>4, <1>8 DEF IInv, PlansFit, Current, Attempting
  <2>2. pot \in Nat
    BY <1>1, <1>5, PotNat
  <2>3. j.op \in {"start", "act"} /\ h \in HandId /\ PlayersOf(j) = {u} /\ u \in Player
    <3>1. j.op \notin ClaimKind /\ j.op # "gift"
      BY <1>4, <2>1 DEF PlanFits, ClaimFits, GiftFits, NoHand
    <3> QED BY <1>2, <1>5, <3>1, JobOf DEF Asks
  <2>4. HandFits(w, j, map) /\ DOMAIN w.hits = {}
    BY <2>1, <2>3 DEF PlanFits, HitFits
  <2>5. DOMAIN w.hands = {h} /\ w.hands[h].status = "settled" /\ DOMAIN w.gifts = {}
    BY <1>2, <1>4, <2>4 DEF HandFits
  <2>6. IsWrites(w) /\ LedgerFits(w, players) /\ DOMAIN w.players = {u}
    BY <2>1, <2>3 DEF PlanFits
  <2>7. w.hands[h] \in HandRow /\ w.contribution \in Nat /\ w.players[u] \in PlayerRow
    BY <2>5, <2>6 DEF IsWrites, IsTable
  <2>8. Shaped(w, u)
    <3>1. {"players", "ledger", "hands", "stats", "hits", "contribution", "hit"} \subseteq DOMAIN w
      BY <2>6 DEF IsWrites
    <3> QED BY <2>6, <2>7, <3>1 DEF Shaped, PlayerRow
  <2>9. PICK table : table = players
    OBVIOUS
  <2>10. IsTable(table, Player, PlayerRow) /\ PlansFor(w, {u}, table) /\ u \in DOMAIN w.players
    BY <1>5, <2>6, <2>9 DEF TypeOK, PlansFor
  <2>11. PlansFor(v, {u}, table) /\ v.hands = w.hands /\ v.gifts = w.gifts
    BY <1>3, <2>2, <2>3, <2>10, JackpotPlans
  <2>12. w.hands[h].returned \in Nat /\ w.hands[h].wagered \in Nat
    BY <2>7 DEF HandRow
  <2>13. /\ v.contribution = w.contribution
         /\ v.hits = Row(h, (pot + w.contribution) \div 100)
         /\ v.players[u].balance \in Int /\ PlannedNet(v, h) \in Int /\ PlannedNet(w, h) \in Int
         /\ v.players[u].balance - w.players[u].balance = PlannedNet(v, h) - PlannedNet(w, h)
    BY <1>3, <2>2, <2>4, <2>5, <2>7, <2>8, <2>12, JackpotMoves
  <2>14. v.hit
    <3>1. v.hit = w.hit
      BY <1>3, <2>2, <2>4, <2>5, <2>7, <2>8, <2>12, JackpotMoves
    <3> QED BY <1>4, <3>1
  <2>15. v.players[u].balance - players[u].balance = PlannedNet(v, h) - NetSoFar(h)
    <3>1. PICK a, b, c, d, e, f : /\ a = v.players[u].balance /\ b = w.players[u].balance
                                  /\ c = players[u].balance /\ d = PlannedNet(v, h)
                                  /\ e = PlannedNet(w, h) /\ f = NetSoFar(h)
      OBVIOUS
    <3>2. players[u] \in PlayerRow
      BY <1>5, <2>6 DEF TypeOK, IsTable, LedgerFits
    <3>3. a \in Int /\ b \in Int /\ c \in Int /\ d \in Int /\ e \in Int /\ f \in Int
      BY <1>5, <2>7, <2>13, <3>1, <3>2, NetInt DEF PlayerRow
    <3>4. a - b = d - e /\ b - c = e - f
      BY <1>2, <2>4, <2>13, <3>1 DEF HandFits
    <3>5. a - c = d - f
      BY <3>3, <3>4
    <3> QED BY <3>1, <3>5
  <2>16. PlannedFeed(v, h) = PlannedFeed(w, h)
    BY <2>11 DEF PlannedFeed
  <2>17. HandFits(v, j, map)
    <3>1. PICK n : n = NetSoFar(h)
      OBVIOUS
    <3>2. /\ DOMAIN w.hands = {h} /\ w.hands[h].user = u /\ DOMAIN w.gifts = {}
          /\ h \in DOMAIN hands => /\ hands[h].user = u
                                   /\ hands[h].game = w.hands[h].game
                                   /\ hands[h].status = "active"
          /\ h \notin DOMAIN hands => <<u, w.hands[h].game>> \notin DOMAIN map
          /\ w.contribution = PlannedFeed(w, h)
      BY <1>2, <2>4 DEF HandFits
    <3>3. v.contribution = PlannedFeed(v, h)
      BY <2>13, <2>16, <3>2
    <3>4. v.hands[h].status = "settled"
      BY <2>5, <2>11
    <3>5. v.players[u].balance - players[u].balance = PlannedNet(v, h) - n
      BY <2>15, <3>1
    <3>6. /\ DOMAIN v.hands = {h} /\ v.hands[h].user = u /\ DOMAIN v.gifts = {}
          /\ h \in DOMAIN hands => /\ hands[h].user = u
                                   /\ hands[h].game = v.hands[h].game
                                   /\ hands[h].status = "active"
          /\ h \notin DOMAIN hands => <<u, v.hands[h].game>> \notin DOMAIN map
      BY <2>11, <3>2
    <3> QED BY <1>2, <3>1, <3>3, <3>4, <3>5, <3>6 DEF HandFits
  <2>18. HitFits(v, h, "paid")
    BY <1>1, <2>13, <2>14 DEF HitFits
  <2> QED BY <1>2, <2>1, <2>3, <2>9, <2>11, <2>17, <2>18 DEF PlanFits, PlansFor, ClaimKind
<1>9. PICK at : at = "paid"
  OBVIOUS
<1>10. Current(r)' => PlanFits(v, j, map, at)
  BY <1>8, <1>9
<1>11. at = phase'[r] /\ v = writes'[r] /\ j = job'[r] /\ map = read'[r]
  BY <1>6, <1>9
<1> QED BY <1>4, <1>5, <1>6, <1>7, <1>10, <1>11, QuietInv

------------------------------------------------------------------------------
(* A day passes, or nothing happens.                                        *)
LEMMA StutterInv ==
  ASSUME IInv, UNCHANGED <<documents, attempts>>, today' \in Nat
  PROVE  IInv'
<1>1. /\ players' = players /\ ledger' = ledger /\ hands' = hands /\ gifts' = gifts /\ stats' = stats
      /\ hits' = hits /\ activeHands' = activeHands /\ shards' = shards
      /\ phase' = phase /\ job' = job /\ writes' = writes /\ read' = read /\ stale' = stale
  BY DEF documents, attempts
<1>2. TypeOK' /\ JobsAsk' /\ HitsSettled' /\ ActiveHandsAgree' /\ Explains(ledger, players)'
  BY <1>1 DEF IInv, TypeOK, JobsAsk, Asks, HitsSettled, ActiveHandsAgree
<1>3. PlansFit'
  <2> SUFFICES ASSUME NEW q \in Request, Current(q)'
               PROVE  PlanFits(writes[q], job[q], read[q], phase[q])'
    BY DEF PlansFit
  <2>1. PICK v, i, m, a : v = writes[q] /\ i = job[q] /\ m = read[q] /\ a = phase[q]
    OBVIOUS
  <2>2. PlanFits(v, i, m, a)
    BY <1>1, <2>1 DEF IInv, PlansFit, Current, Attempting
  <2>3. PlanFits(v, i, m, a)'
    BY <2>2, QuietPlan
  <2> QED BY <1>1, <2>1, <2>3
<1> QED BY <1>2, <1>3 DEF IInv

(* A new player is nobody's who is asking.                                  *)
LEMMA EnsurePlayerInv ==
  ASSUME IInv, NEW p \in Player, ensurePlayer(p)
  PROVE  IInv'
<1>1. PICK new : new = NewPlayer(p)
  OBVIOUS
<1>2. /\ p \notin DOMAIN players
      /\ players' = Overlay(players, new.players) /\ ledger' = Overlay(ledger, new.ledger)
      /\ hands' = hands /\ gifts' = gifts /\ stats' = stats /\ hits' = hits
      /\ activeHands' = activeHands /\ shards' = shards /\ today' = today
      /\ phase' = phase /\ job' = job /\ writes' = writes /\ read' = read /\ stale' = stale
  BY <1>1 DEF ensurePlayer, attempts
<1>3. TypeOK /\ JobsAsk
  BY DEF IInv
<1>4. IsWrites(new) /\ DOMAIN new.players = {p}
  BY <1>1, NewPlayerRows
<1>5. DOMAIN players \subseteq DOMAIN players' /\ \A q \in DOMAIN players : players'[q] = players[q]
  BY <1>2, <1>4 DEF Overlay
<1>6. TypeOK'
  <2>1. IsTable(players, Player, PlayerRow) /\ IsTable(new.players, Player, PlayerRow)
    BY <1>3, <1>4 DEF TypeOK, IsWrites
  <2>2. IsTable(players', Player, PlayerRow)
    BY <1>2, <2>1, OverlayTable
  <2>3. IsTable(ledger, Player \X Nat, Entry) /\ IsTable(new.ledger, Player \X Nat, Entry)
    BY <1>3, <1>4 DEF TypeOK, IsWrites
  <2>4. IsTable(ledger', Player \X Nat, Entry)
    BY <1>2, <2>3, OverlayTable
  <2> QED BY <1>2, <1>3, <2>2, <2>4 DEF TypeOK
<1>7. JobsAsk'
  BY <1>2, <1>3, <1>5 DEF JobsAsk, Asks
<1>8. HitsSettled' /\ ActiveHandsAgree'
  BY <1>2 DEF IInv, HitsSettled, ActiveHandsAgree
<1>9. Explains(ledger, players)'
  <2>1. /\ IsTable(players, Player, PlayerRow) /\ IsTable(ledger, Player \X Nat, Entry)
        /\ Explains(ledger, players)
    BY DEF IInv, TypeOK
  <2>2. PICK rows, book : rows = players' /\ book = ledger'
    OBVIOUS
  <2>3. Explains(book, rows)
    BY <1>1, <1>2, <2>1, <2>2, LedgerOpens
  <2> QED BY <2>2, <2>3
<1>10. PlansFit'
  <2> SUFFICES ASSUME NEW q \in Request, Current(q)'
               PROVE  PlanFits(writes[q], job[q], read[q], phase[q])'
    BY DEF PlansFit
  <2>1. PICK v, i, m, a : v = writes[q] /\ i = job[q] /\ m = read[q] /\ a = phase[q]
    OBVIOUS
  <2>2. PlanFits(v, i, m, a) /\ Asks(i)
    BY <1>2, <1>3, <2>1 DEF IInv, PlansFit, Current, Attempting, JobsAsk
  <2>3. PICK h, u : h = i.hand /\ u = i.user
    OBVIOUS
  <2>4. PlanFits(v, i, m, a)'
    <3>1. \A x \in PlayersOf(i) : x \in DOMAIN players' /\ players'[x] = players[x]
      BY <1>5, <2>2 DEF Asks
    <3>2. i.user \in PlayersOf(i) /\ (i.op = "gift" => i.to \in PlayersOf(i))
      BY DEF PlayersOf
    <3>3. NetSoFar(h)' = NetSoFar(h) /\ potOf' = potOf
      BY <1>2 DEF NetSoFar, NetOf, potOf
    <3>4. OfPlayers(activeHands', {u}) = OfPlayers(activeHands, {u})
      BY <1>2
    <3> QED BY <1>2, <2>2, <2>3, <3>1, <3>2, <3>3, <3>4, PlanKept
  <2> QED BY <1>2, <2>1, <2>4
<1> QED BY <1>6, <1>7, <1>8, <1>9, <1>10 DEF IInv

------------------------------------------------------------------------------
(* A commit.                                                                *)

(* What an undisturbed attempt planned is what the documents become.        *)
Becomes(w, j) ==
  /\ DOMAIN players' = DOMAIN players
  /\ \A p \in PlayersOf(j) : players'[p] = w.players[p] /\ w.players[p] \in PlayerRow
  /\ \A p \in DOMAIN players \ PlayersOf(j) : players'[p] = players[p]
  /\ DOMAIN hands' = DOMAIN hands \cup DOMAIN w.hands
  /\ \A h \in DOMAIN w.hands : hands'[h] = w.hands[h] /\ w.hands[h] \in HandRow /\ h \in HandId
  /\ \A h \in DOMAIN hands : h \notin DOMAIN w.hands => hands'[h] = hands[h]
  /\ DOMAIN hits' = DOMAIN hits \cup DOMAIN w.hits
  /\ \A h \in DOMAIN w.hits : hits'[h] = w.hits[h]
  /\ \A h \in DOMAIN hits : h \notin DOMAIN w.hits => hits'[h] = hits[h]
  /\ DOMAIN gifts' = DOMAIN gifts \cup DOMAIN w.gifts

LEMMA CommitRows ==
  ASSUME IInv, NEW r \in Request, Commit(r),
         NEW w, w = writes[r], NEW j, j = job[r], NEW map, map = read[r], NEW at, at = phase[r]
  PROVE  /\ PlanFits(w, j, map, at) /\ Asks(j) /\ at = (IF w.hit THEN "paid" ELSE "planned")
         /\ Becomes(w, j)
<1>1. /\ ReadyToCommit(r) /\ ~stale[r]
      /\ players' = Overlay(players, w.players) /\ hands' = Overlay(hands, w.hands)
      /\ hits' = Overlay(hits, w.hits) /\ gifts' = Overlay(gifts, w.gifts)
  BY DEF Commit
<1>2. PlanFits(w, j, map, at) /\ Asks(j)
  BY <1>1 DEF ReadyToCommit, IInv, JobsAsk, PlansFit, Current, Attempting
<1>3. at = IF w.hit THEN "paid" ELSE "planned"
  <2>1. at = "paid" => w.hit
    <3>1. at = "paid" => j.op \in {"start", "act"}
      BY <1>2, JobOf DEF PlanFits, Asks
    <3> QED BY <1>2, <3>1 DEF PlanFits, HitFits
  <2> QED BY <1>1, <2>1 DEF ReadyToCommit
<1>4. /\ DOMAIN w.players = PlayersOf(j) /\ PlayersOf(j) \subseteq DOMAIN players
      /\ \A p \in DOMAIN w.players : w.players[p] \in PlayerRow
      /\ \A h \in DOMAIN w.hands : w.hands[h] \in HandRow /\ h \in HandId
  BY <1>2 DEF PlanFits, Asks, IsWrites, IsTable
<1>5. Becomes(w, j)
  BY <1>1, <1>4 DEF Overlay, Becomes
<1> QED BY <1>2, <1>3, <1>5

LEMMA CommitTypes ==
  ASSUME IInv, NEW r \in Request, Commit(r)
  PROVE  TypeOK'
<1>1. PICK w, j, map, at : w = writes[r] /\ j = job[r] /\ map = read[r] /\ at = phase[r]
  OBVIOUS
<1>2. PlanFits(w, j, map, at) /\ Asks(j)
  BY <1>1, CommitRows
<1>3. IsWrites(w) /\ TypeOK /\ j \in Job /\ map = OfPlayers(activeHands, {j.user})
  BY <1>2 DEF PlanFits, IInv, Asks
<1>4. IsTable(players', Player, PlayerRow) /\ IsTable(ledger', Player \X Nat, Entry)
  <2>1. players' = Overlay(players, w.players) /\ ledger' = Overlay(ledger, w.ledger)
    BY <1>1 DEF Commit
  <2>2. /\ IsTable(players, Player, PlayerRow) /\ IsTable(w.players, Player, PlayerRow)
        /\ IsTable(ledger, Player \X Nat, Entry) /\ IsTable(w.ledger, Player \X Nat, Entry)
    BY <1>3 DEF TypeOK, IsWrites
  <2> QED BY <2>1, <2>2, OverlayTable
<1>5. IsTable(hands', HandId, HandRow) /\ IsTable(gifts', GiftId, GiftRow)
  <2>1. hands' = Overlay(hands, w.hands) /\ gifts' = Overlay(gifts, w.gifts)
    BY <1>1 DEF Commit
  <2>2. /\ IsTable(hands, HandId, HandRow) /\ IsTable(w.hands, HandId, HandRow)
        /\ IsTable(gifts, GiftId, GiftRow) /\ IsTable(w.gifts, GiftId, GiftRow)
    BY <1>3 DEF TypeOK, IsWrites
  <2> QED BY <2>1, <2>2, OverlayTable
<1>6. IsTable(stats', Player \X Game, StatsRow) /\ IsTable(hits', HandId, Nat)
  <2>1. stats' = Overlay(stats, w.stats) /\ hits' = Overlay(hits, w.hits)
    BY <1>1 DEF Commit
  <2>2. /\ IsTable(stats, Player \X Game, StatsRow) /\ IsTable(w.stats, Player \X Game, StatsRow)
        /\ IsTable(hits, HandId, Nat) /\ IsTable(w.hits, HandId, Nat)
    BY <1>3 DEF TypeOK, IsWrites
  <2> QED BY <2>1, <2>2, OverlayTable
<1>7. IsTable(activeHands', Player \X Game, HandId)
  <2>1. CASE w.hands = NoRows
    BY <1>1, <1>3, <2>1 DEF Commit, TypeOK
  <2>2. CASE w.hands # NoRows
    <3>1. PICK kept, news : kept = OfPlayers(activeHands, Player \ {j.user}) /\ news = ActiveAfter(w, map)
      OBVIOUS
    <3>2. activeHands' = Overlay(kept, news)
      BY <1>1, <2>2, <3>1 DEF Commit
    <3>3. IsTable(activeHands, Player \X Game, HandId)
      BY <1>3 DEF TypeOK
    <3>4. IsTable(kept, Player \X Game, HandId) /\ IsTable(map, Player \X Game, HandId)
      BY <1>3, <3>1, <3>3 DEF IsTable, OfPlayers
    <3>5. \A h \in ActiveIn(w) : h \in HandId /\ KeyOf(w, h) \in Player \X Game
      BY <1>3 DEF ActiveIn, KeyOf, IsWrites, IsTable, HandRow
    <3>6. PICK old, new :
            /\ old = [k \in {k \in DOMAIN map : map[k] \notin DOMAIN w.hands \ ActiveIn(w)} |-> map[k]]
            /\ new = [k \in {KeyOf(w, h) : h \in ActiveIn(w)}
                        |-> CHOOSE h \in ActiveIn(w) : KeyOf(w, h) = k]
      OBVIOUS
    <3>7. IsTable(old, Player \X Game, HandId)
      BY <3>4, <3>6 DEF IsTable
    <3>8. IsTable(new, Player \X Game, HandId)
      <4>1. \A k \in DOMAIN new : new[k] \in ActiveIn(w) /\ KeyOf(w, new[k]) = k
        BY <3>6
      <4>2. \A k \in DOMAIN new : new[k] \in HandId /\ k \in Player \X Game
        BY <3>5, <4>1
      <4> QED BY <3>6, <4>2 DEF IsTable
    <3>9. news = Overlay(old, new)
      BY <3>1, <3>6 DEF ActiveAfter
    <3>10. IsTable(news, Player \X Game, HandId)
      BY <3>7, <3>8, <3>9, OverlayTable
    <3> QED BY <3>2, <3>4, <3>10, OverlayTable
  <2> QED BY <2>1, <2>2
<1>8. shards' \in [Shard -> Nat]
  <2>1. \A s \in Shard : shards[s] \in Nat /\ shards[s] + w.contribution \in Nat
    BY <1>3 DEF TypeOK, IsWrites
  <2> QED BY <1>1, <2>1 DEF Commit
<1>9. /\ phase' \in [Request -> {"idle", "ready", "planned", "paid"}]
      /\ job' \in [Request -> Job \cup {NoJob}]
      /\ DOMAIN writes' = Request /\ DOMAIN read' = Request /\ today' \in Nat
  BY <1>3 DEF Commit, End, Again, TypeOK
<1>10. stale' \in [Request -> BOOLEAN]
  BY DEF Commit
<1> QED BY <1>4, <1>5, <1>6, <1>7, <1>8, <1>9, <1>10 DEF TypeOK

(* A map of active hands, after a hand that stays active and after one that *)
(* settles.                                                                 *)
Remapped(am, u, w) == Overlay(OfPlayers(am, Player \ {u}), ActiveAfter(w, OfPlayers(am, {u})))
Puts(am, am2, key, h) ==
  DOMAIN am2 = DOMAIN am \cup {key} /\ am2[key] = h /\ \A k \in DOMAIN am : k # key => am2[k] = am[k]
Frees(am, am2, u, h) ==
  DOMAIN am2 = {k \in DOMAIN am : k[1] # u \/ am[k] # h} /\ \A k \in DOMAIN am2 : am2[k] = am[k]

LEMMA MapActive ==
  ASSUME NEW am, DOMAIN am \subseteq Player \X Game, NEW w, NEW h, DOMAIN w.hands = {h},
         NEW u \in Player, w.hands[h].user = u, w.hands[h].status = "active",
         NEW key, key = KeyOf(w, h),
         NEW am2, am2 = Remapped(am, u, w)
  PROVE  Puts(am, am2, key, h)
<1>1. ActiveIn(w) = {h}
  BY DEF ActiveIn
<1>2. PICK mine, others : mine = OfPlayers(am, {u}) /\ others = OfPlayers(am, Player \ {u})
  OBVIOUS
<1>3. /\ DOMAIN mine = {k \in DOMAIN am : k[1] = u} /\ \A k \in DOMAIN mine : mine[k] = am[k]
      /\ DOMAIN others = {k \in DOMAIN am : k[1] # u} /\ \A k \in DOMAIN others : others[k] = am[k]
  BY <1>2 DEF OfPlayers
<1>4. PICK old, new :
        /\ old = [k \in {k \in DOMAIN mine : mine[k] \notin DOMAIN w.hands \ ActiveIn(w)} |-> mine[k]]
        /\ new = [k \in {KeyOf(w, x) : x \in ActiveIn(w)} |-> CHOOSE x \in ActiveIn(w) : KeyOf(w, x) = k]
  OBVIOUS
<1>5. DOMAIN old = DOMAIN mine /\ \A k \in DOMAIN mine : old[k] = mine[k]
  BY <1>1, <1>4
<1>6. DOMAIN new = {key} /\ new[key] = h
  BY <1>1, <1>4
<1>7. am2 = Overlay(others, Overlay(old, new))
  BY <1>2, <1>4 DEF ActiveAfter, Remapped
<1>8. key[1] = u
  BY DEF KeyOf
<1> QED BY <1>3, <1>5, <1>6, <1>7, <1>8 DEF Overlay, Puts

LEMMA MapSettled ==
  ASSUME NEW am, DOMAIN am \subseteq Player \X Game, NEW w, NEW h, DOMAIN w.hands = {h},
         NEW u \in Player, w.hands[h].status # "active",
         NEW am2, am2 = Remapped(am, u, w)
  PROVE  Frees(am, am2, u, h)
<1>1. ActiveIn(w) = {}
  BY DEF ActiveIn
<1>2. PICK mine, others : mine = OfPlayers(am, {u}) /\ others = OfPlayers(am, Player \ {u})
  OBVIOUS
<1>3. /\ DOMAIN mine = {k \in DOMAIN am : k[1] = u} /\ \A k \in DOMAIN mine : mine[k] = am[k]
      /\ DOMAIN others = {k \in DOMAIN am : k[1] # u} /\ \A k \in DOMAIN others : others[k] = am[k]
  BY <1>2 DEF OfPlayers
<1>4. PICK old, new :
        /\ old = [k \in {k \in DOMAIN mine : mine[k] \notin DOMAIN w.hands \ ActiveIn(w)} |-> mine[k]]
        /\ new = [k \in {KeyOf(w, x) : x \in ActiveIn(w)} |-> CHOOSE x \in ActiveIn(w) : KeyOf(w, x) = k]
  OBVIOUS
<1>5. DOMAIN old = {k \in DOMAIN mine : mine[k] # h} /\ \A k \in DOMAIN old : old[k] = mine[k]
  BY <1>1, <1>4
<1>6. DOMAIN new = {}
  BY <1>1, <1>4
<1>7. am2 = Overlay(others, Overlay(old, new))
  BY <1>2, <1>4 DEF ActiveAfter, Remapped
<1>8. DOMAIN am2 = DOMAIN others \cup DOMAIN old
  BY <1>6, <1>7 DEF Overlay
<1>9. \A k \in DOMAIN am2 : am2[k] = am[k]
  <2>1. \A k \in DOMAIN old : old[k] = am[k] /\ am2[k] = old[k]
    BY <1>3, <1>5, <1>6, <1>7 DEF Overlay
  <2>2. \A k \in DOMAIN others : k \notin DOMAIN old => am2[k] = others[k]
    BY <1>6, <1>7 DEF Overlay
  <2> QED BY <1>3, <1>8, <2>1, <2>2
<1>10. DOMAIN am2 = {k \in DOMAIN am : k[1] # u \/ am[k] # h}
  <2>1. \A k : k \in DOMAIN am2 <=> k \in DOMAIN am /\ (k[1] # u \/ am[k] # h)
    BY <1>3, <1>5, <1>8
  <2> QED BY <2>1
<1> QED BY <1>9, <1>10 DEF Frees

(* The map after a commit names the active hands, as it did before.         *)
LEMMA CommitMap ==
  ASSUME IInv, NEW r \in Request, Commit(r)
  PROVE  ActiveHandsAgree'
<1>1. PICK w, j, map, at : w = writes[r] /\ j = job[r] /\ map = read[r] /\ at = phase[r]
  OBVIOUS
<1>2. /\ PlanFits(w, j, map, at) /\ Asks(j)
      /\ DOMAIN hands' = DOMAIN hands \cup DOMAIN w.hands
      /\ \A h \in DOMAIN w.hands : hands'[h] = w.hands[h] /\ w.hands[h] \in HandRow
      /\ \A h \in DOMAIN hands : h \notin DOMAIN w.hands => hands'[h] = hands[h]
  <2>1. PlanFits(w, j, map, at) /\ Asks(j) /\ Becomes(w, j)
    BY <1>1, CommitRows
  <2> QED BY <2>1 DEF Becomes
<1>3. PICK u : u = j.user
  OBVIOUS
<1>4. /\ TypeOK /\ ActiveHandsAgree /\ u \in Player /\ map = OfPlayers(activeHands, {u})
      /\ DOMAIN activeHands \subseteq Player \X Game
  BY <1>2, <1>3, JobOf DEF IInv, Asks, PlanFits, TypeOK, IsTable
<1>5. PICK am, am2 : am = activeHands /\ am2 = activeHands'
  OBVIOUS
<1>6. am2 = IF w.hands = NoRows THEN am ELSE Remapped(am, u, w)
  BY <1>1, <1>3, <1>4, <1>5 DEF Commit, Remapped
<1>7. CASE j.op \notin {"start", "act"}
  <2>1. DOMAIN w.hands = {}
    BY <1>2, <1>7, JobOf DEF PlanFits, ClaimFits, GiftFits, NoHand, Asks
  <2>2. w.hands = NoRows
    BY <1>2, <2>1 DEF PlanFits, IsWrites, IsTable, NoRows
  <2>3. activeHands' = activeHands /\ DOMAIN hands' = DOMAIN hands /\ \A h \in DOMAIN hands : hands'[h] = hands[h]
    BY <1>2, <1>5, <1>6, <2>1, <2>2
  <2> QED BY <1>4, <2>3 DEF ActiveHandsAgree
<1>8. CASE j.op \in {"start", "act"}
  <2>1. PICK h, g : h = j.hand /\ g = w.hands[h].game
    OBVIOUS
  <2>2. /\ DOMAIN w.hands = {h} /\ w.hands[h].user = u /\ HandFits(w, j, map)
        /\ h \in DOMAIN hands => hands[h].user = u /\ hands[h].game = g /\ hands[h].status = "active"
        /\ h \notin DOMAIN hands => <<u, g>> \notin DOMAIN map
    BY <1>2, <1>3, <1>8, <2>1 DEF PlanFits, HandFits
  <2>3. w.hands # NoRows
    BY <2>2 DEF NoRows
  <2>4. PICK key : key = KeyOf(w, h)
    OBVIOUS
  <2>5. key = <<u, g>> /\ (h \notin DOMAIN hands => key \notin DOMAIN am)
    BY <1>4, <1>5, <2>1, <2>2, <2>4 DEF KeyOf, OfPlayers
  <2>6. h \in DOMAIN hands => key \in DOMAIN am /\ am[key] = h
    BY <1>4, <1>5, <2>2, <2>5 DEF ActiveHandsAgree
  <2>7. /\ \A k \in DOMAIN am :
             am[k] \in DOMAIN hands /\ hands[am[k]].status = "active"
             /\ k = <<hands[am[k]].user, hands[am[k]].game>>
        /\ \A x \in DOMAIN hands : hands[x].status = "active" =>
             <<hands[x].user, hands[x].game>> \in DOMAIN am /\ am[<<hands[x].user, hands[x].game>>] = x
    BY <1>4, <1>5 DEF ActiveHandsAgree
  <2>8. PICK rows : rows = hands'
    OBVIOUS
  <2>9. /\ DOMAIN rows = DOMAIN hands \cup {h} /\ rows[h] = w.hands[h]
        /\ \A x \in DOMAIN hands : x # h => rows[x] = hands[x]
        /\ rows[h].user = u /\ rows[h].game = g
    BY <1>2, <2>1, <2>2, <2>8
  <2>11. /\ DOMAIN am \subseteq Player \X Game
         /\ am2 = Remapped(am, u, w)
    BY <1>4, <1>5, <1>6, <2>3
  <2>10. /\ \A k \in DOMAIN am2 :
              am2[k] \in DOMAIN rows /\ rows[am2[k]].status = "active"
              /\ k = <<rows[am2[k]].user, rows[am2[k]].game>>
         /\ \A x \in DOMAIN rows : rows[x].status = "active" =>
              <<rows[x].user, rows[x].game>> \in DOMAIN am2 /\ am2[<<rows[x].user, rows[x].game>>] = x
    <3>1. CASE rows[h].status = "active"
      <4>1. /\ DOMAIN am2 = DOMAIN am \cup {key} /\ am2[key] = h
            /\ \A k \in DOMAIN am : k # key => am2[k] = am[k]
        <5>1. w.hands[h].status = "active" /\ w.hands[h].user = u /\ DOMAIN w.hands = {h}
          BY <2>2, <2>9, <3>1
        <5>2. Puts(am, am2, key, h)
          BY <1>4, <2>4, <2>11, <5>1, MapActive
        <5> QED BY <5>2 DEF Puts
      <4>2. ASSUME NEW k \in DOMAIN am2
            PROVE  am2[k] \in DOMAIN rows /\ rows[am2[k]].status = "active"
                   /\ k = <<rows[am2[k]].user, rows[am2[k]].game>>
        <5>1. CASE k = key
          BY <2>5, <2>9, <3>1, <4>1, <5>1
        <5>2. CASE k # key
          <6>1. k \in DOMAIN am /\ am2[k] = am[k]
            BY <4>1, <5>2
          <6>2. am[k] # h
            BY <2>2, <2>5, <2>7, <5>2, <6>1
          <6> QED BY <2>7, <2>9, <6>1, <6>2
        <5> QED BY <5>1, <5>2
      <4>3. ASSUME NEW x \in DOMAIN rows, rows[x].status = "active"
            PROVE  <<rows[x].user, rows[x].game>> \in DOMAIN am2 /\ am2[<<rows[x].user, rows[x].game>>] = x
        <5>1. CASE x = h
          BY <2>5, <2>9, <4>1, <5>1
        <5>2. CASE x # h
          <6>1. x \in DOMAIN hands /\ rows[x] = hands[x]
            BY <2>9, <5>2
          <6>2. PICK k : k = <<rows[x].user, rows[x].game>>
            OBVIOUS
          <6>3. k \in DOMAIN am /\ am[k] = x
            BY <2>7, <4>3, <6>1, <6>2
          <6>4. k # key
            BY <2>5, <2>6, <5>2, <6>3
          <6> QED BY <4>1, <6>2, <6>3, <6>4
        <5> QED BY <5>1, <5>2
      <4> QED BY <4>2, <4>3
    <3>2. CASE rows[h].status # "active"
      <4>1. /\ DOMAIN am2 = {k \in DOMAIN am : k[1] # u \/ am[k] # h}
            /\ \A k \in DOMAIN am2 : am2[k] = am[k]
        <5>1. w.hands[h].status # "active" /\ DOMAIN w.hands = {h}
          BY <2>2, <2>9, <3>2
        <5>2. Frees(am, am2, u, h)
          BY <1>4, <2>11, <5>1, MapSettled
        <5> QED BY <5>2 DEF Frees
      <4>2. ASSUME NEW k \in DOMAIN am2
            PROVE  am2[k] \in DOMAIN rows /\ rows[am2[k]].status = "active"
                   /\ k = <<rows[am2[k]].user, rows[am2[k]].game>>
        <5>1. k \in DOMAIN am /\ am2[k] = am[k] /\ (k[1] # u \/ am[k] # h)
          BY <4>1
        <5>2. am[k] # h
          BY <2>2, <2>7, <5>1
        <5> QED BY <2>7, <2>9, <5>1, <5>2
      <4>3. ASSUME NEW x \in DOMAIN rows, rows[x].status = "active"
            PROVE  <<rows[x].user, rows[x].game>> \in DOMAIN am2 /\ am2[<<rows[x].user, rows[x].game>>] = x
        <5>1. x # h /\ x \in DOMAIN hands /\ rows[x] = hands[x]
          BY <2>9, <3>2, <4>3
        <5>2. PICK k : k = <<rows[x].user, rows[x].game>>
          OBVIOUS
        <5>3. k \in DOMAIN am /\ am[k] = x
          BY <2>7, <4>3, <5>1, <5>2
        <5> QED BY <4>1, <5>1, <5>2, <5>3
      <4> QED BY <4>2, <4>3
    <3> QED BY <3>1, <3>2
  <2> QED BY <1>5, <2>8, <2>10 DEF ActiveHandsAgree
<1> QED BY <1>7, <1>8

(* Nobody may read what r writes and stay undisturbed.                      *)
LEMMA DocsApart ==
  /\ \A p, q : PlayerDoc(p) = PlayerDoc(q) <=> p = q
  /\ \A h, i : HandDoc(h) = HandDoc(i) <=> h = i
  /\ \A g, i : GiftDoc(g) = GiftDoc(i) <=> g = i
  /\ \A s, i : ShardDoc(s) = ShardDoc(i) <=> s = i
  BY DEF PlayerDoc, HandDoc, GiftDoc, ShardDoc

LEMMA ReadsApart ==
  ASSUME NEW q \in Request, NEW r \in Request, Reads(q) \cap Written(r) = {},
         NEW v, v = writes[q], NEW i, i = job[q], NEW w, w = writes[r], NEW j, j = job[r]
  PROVE  /\ \A p \in PlayersOf(i) : p \notin DOMAIN w.players
         /\ \A h \in DOMAIN v.hands : h \notin DOMAIN w.hands
         /\ \A g \in DOMAIN v.gifts : g \notin DOMAIN w.gifts
         /\ phase[q] = "paid" => \A s \in Shard : s \notin ShardsWritten(w, j)
<1>1. /\ \A p \in PlayersOf(i) : PlayerDoc(p) \in Reads(q)
      /\ \A h \in DOMAIN v.hands : HandDoc(h) \in Reads(q)
      /\ \A g \in DOMAIN v.gifts : GiftDoc(g) \in Reads(q)
      /\ phase[q] = "paid" => \A s \in Shard : ShardDoc(s) \in Reads(q)
  <2>1. /\ \A p \in PlayersOf(i) : PlayerDoc(p) \in Reads(q)
    BY DEF Reads
  <2>2. \A h \in DOMAIN v.hands : HandDoc(h) \in Reads(q)
    BY DEF Reads, HandDocs
  <2>3. \A g \in DOMAIN v.gifts : GiftDoc(g) \in Reads(q)
    BY DEF Reads, GiftDocs
  <2>4. phase[q] = "paid" => \A s \in Shard : ShardDoc(s) \in Reads(q)
    BY DEF Reads, PotDocs
  <2> QED BY <2>1, <2>2, <2>3, <2>4
<1>2. /\ \A p \in DOMAIN w.players : PlayerDoc(p) \in Written(r)
      /\ \A h \in DOMAIN w.hands : HandDoc(h) \in Written(r)
      /\ \A g \in DOMAIN w.gifts : GiftDoc(g) \in Written(r)
      /\ \A s \in ShardsWritten(w, j) : ShardDoc(s) \in Written(r)
  <2>1. \A p \in DOMAIN w.players : PlayerDoc(p) \in Written(r)
    BY DEF Written
  <2>2. \A h \in DOMAIN w.hands : HandDoc(h) \in Written(r)
    BY DEF Written, HandDocs
  <2>3. \A g \in DOMAIN w.gifts : GiftDoc(g) \in Written(r)
    BY DEF Written, GiftDocs
  <2>4. \A s \in ShardsWritten(w, j) : ShardDoc(s) \in Written(r)
    BY DEF Written
  <2> QED BY <2>1, <2>2, <2>3, <2>4
<1> QED BY <1>1, <1>2

(* What the commit leaves in the shards.                                    *)
LEMMA CommitPot ==
  ASSUME IInv, NEW r \in Request, Commit(r), NEW w, w = writes[r], NEW j, j = job[r]
  PROVE  potOf' = IF w.hit THEN JackpotSeed ELSE potOf + w.contribution
<1>1. PICK map, at : map = read[r] /\ at = phase[r]
  OBVIOUS
<1>2. PlanFits(w, j, map, at) /\ Asks(j) /\ TypeOK
  <2>1. PlanFits(w, j, map, at) /\ Asks(j)
    BY <1>1, CommitRows
  <2> QED BY <2>1 DEF IInv
<1>3. PICK old, new, c : old = shards /\ new = shards' /\ c = w.contribution
  OBVIOUS
<1>4. /\ new = [s \in Shard |-> IF w.hit THEN 0
                                ELSE IF s \in ShardsWritten(w, j) THEN old[s] + c ELSE old[s]]
  BY <1>3 DEF Commit
<1>5. c \in Nat /\ IsFiniteSet(Shard) /\ \A s \in Shard : old[s] \in Int
  BY <1>2, <1>3, FirestoreAssumption DEF PlanFits, IsWrites, TypeOK
<1>6. SumFunctionOnSet(new, Shard) = IF w.hit THEN 0 ELSE SumFunctionOnSet(old, Shard) + c
  <2>1. CASE w.hit
    <3>1. \A s \in Shard : new[s] = 0
      BY <1>4, <2>1
    <3> QED BY <1>5, <2>1, <3>1, SumZero
  <2>2. CASE ~w.hit /\ c = 0
    <3>1. \A s \in Shard : new[s] = old[s]
      BY <1>3, <1>4, <2>2 DEF ShardsWritten
    <3>2. SumFunctionOnSet(new, Shard) = SumFunctionOnSet(old, Shard)
      BY <1>5, <3>1, SumSame
    <3>3. SumFunctionOnSet(old, Shard) \in Int
      BY <1>5, SumInt
    <3> QED BY <2>2, <3>2, <3>3
  <2>3. CASE ~w.hit /\ c # 0
    <3>1. j.op \in {"start", "act"}
      BY <1>2, <1>3, <2>3, JobOf DEF PlanFits, ClaimFits, GiftFits, NoHand, Asks
    <3>2. PICK s : s = shardFor[j.hand]
      OBVIOUS
    <3>3. s \in Shard
      BY <1>2, <3>1, <3>2, JobOf, FirestoreAssumption DEF Asks
    <3>4. ShardsWritten(w, j) = {s}
      BY <1>3, <1>5, <2>3, <3>2 DEF ShardsWritten
    <3>5. new[s] = old[s] + c /\ \A x \in Shard \ {s} : new[x] = old[x]
      BY <1>4, <2>3, <3>3, <3>4
    <3> QED BY <1>5, <2>3, <3>3, <3>5, SumGrows
  <2> QED BY <2>1, <2>2, <2>3
<1>7. potOf = JackpotSeed + SumFunctionOnSet(old, Shard) /\ potOf' = JackpotSeed + SumFunctionOnSet(new, Shard)
  BY <1>3 DEF potOf
<1>8. SumFunctionOnSet(old, Shard) \in Int /\ JackpotSeed \in Int
  BY <1>5, SumInt, EconomyAssumption
<1> QED BY <1>3, <1>5, <1>6, <1>7, <1>8

LEMMA HandsOf ==
  ASSUME NEW w, NEW j \in Job, NEW map, NEW at, PlanFits(w, j, map, at)
  PROVE  /\ j.op \in {"start", "act"} => DOMAIN w.hands = {j.hand}
         /\ j.op \notin {"start", "act"} => DOMAIN w.hands = {} /\ ~w.hit /\ w.contribution = 0
         /\ j.op = "gift" => DOMAIN w.gifts = {j.gift}
         /\ DOMAIN w.hits \subseteq DOMAIN w.hands
         /\ DOMAIN w.hits # {} => at = "paid" /\ w.hit
         /\ w.hit => \A h \in DOMAIN w.hands : w.hands[h].status = "settled"
         /\ \A h \in DOMAIN w.hands : h \in DOMAIN hands => hands[h].status = "active"
<1>1. CASE j.op \in {"start", "act"}
  <2>1. HandFits(w, j, map) /\ HitFits(w, j.hand, at)
    BY <1>1 DEF PlanFits
  <2>2. DOMAIN w.hits \subseteq {j.hand}
    BY <2>1 DEF HitFits, Row
  <2>3. DOMAIN w.hits # {} => at = "paid" /\ w.hit
    BY <2>1 DEF HitFits
  <2> QED BY <1>1, <2>1, <2>2, <2>3 DEF HandFits
<1>2. CASE j.op \notin {"start", "act"}
  BY <1>2, JobOf DEF PlanFits, ClaimFits, GiftFits, NoHand
<1> QED BY <1>1, <1>2

(* A hand the commit does not touch has moved what it had moved.            *)
LEMMA NetKept ==
  ASSUME NEW w, NEW j, Becomes(w, j), DOMAIN w.hits \subseteq DOMAIN w.hands, NEW h, h \notin DOMAIN w.hands
  PROVE  /\ h \in DOMAIN hands' <=> h \in DOMAIN hands
         /\ h \in DOMAIN hands => hands'[h] = hands[h]
         /\ NetSoFar(h)' = NetSoFar(h) /\ BookHand(h)' = BookHand(h)
<1>1. (h \in DOMAIN hands' <=> h \in DOMAIN hands) /\ (h \in DOMAIN hits' <=> h \in DOMAIN hits)
  BY DEF Becomes
<1>2. (h \in DOMAIN hands => hands'[h] = hands[h]) /\ (h \in DOMAIN hits => hits'[h] = hits[h])
  BY DEF Becomes
<1> QED BY <1>1, <1>2 DEF NetSoFar, NetOf, BookHand

(* An attempt that was not made stale still fits.                           *)
LEMMA OtherFits ==
  ASSUME IInv, NEW r \in Request, Commit(r), NEW q \in Request, q # r, Current(q),
         Reads(q) \cap Written(r) = {},
         NEW v, v = writes[q], NEW i, i = job[q], NEW m, m = read[q], NEW a, a = phase[q]
  PROVE  PlanFits(v, i, m, a)'
<1>1. PICK w, j, map, at : w = writes[r] /\ j = job[r] /\ map = read[r] /\ at = phase[r]
  OBVIOUS
<1>2. PlanFits(w, j, map, at) /\ Asks(j) /\ Becomes(w, j)
  BY <1>1, CommitRows
<1>3. PlanFits(v, i, m, a) /\ Asks(i) /\ TypeOK
  BY DEF IInv, PlansFit, JobsAsk, Current, Attempting
<1>4. i \in Job /\ j \in Job
  BY <1>2, <1>3 DEF Asks
<1>5. /\ \A p \in PlayersOf(i) : p \notin DOMAIN w.players
      /\ \A h \in DOMAIN v.hands : h \notin DOMAIN w.hands
      /\ \A g \in DOMAIN v.gifts : g \notin DOMAIN w.gifts
      /\ a = "paid" => \A s \in Shard : s \notin ShardsWritten(w, j)
  BY <1>1, ReadsApart
<1>6. PICK h, u : h = i.hand /\ u = i.user
  OBVIOUS
<1>7. u \in PlayersOf(i) /\ u \in Player /\ (i.op = "gift" => i.to \in PlayersOf(i))
  BY <1>4, <1>6, JobOf DEF PlayersOf
<1>8. DOMAIN w.players = PlayersOf(j) /\ PlayersOf(i) \subseteq DOMAIN players
  BY <1>2, <1>3 DEF PlanFits, Asks
<1>9. \A p \in PlayersOf(i) : p \in DOMAIN players' /\ players'[p] = players[p]
  BY <1>2, <1>5, <1>8 DEF Becomes
<1>10. i.op \in {"start", "act"} => /\ h \in DOMAIN hands' <=> h \in DOMAIN hands
                                    /\ h \in DOMAIN hands => hands'[h] = hands[h]
                                    /\ NetSoFar(h)' = NetSoFar(h)
  <2> SUFFICES ASSUME i.op \in {"start", "act"}
               PROVE  /\ h \in DOMAIN hands' <=> h \in DOMAIN hands
                      /\ h \in DOMAIN hands => hands'[h] = hands[h]
                      /\ NetSoFar(h)' = NetSoFar(h)
    OBVIOUS
  <2>1. DOMAIN v.hands = {h}
    BY <1>3, <1>4, <1>6, HandsOf
  <2>2. h \notin DOMAIN w.hands
    BY <1>5, <2>1
  <2>3. DOMAIN w.hits \subseteq DOMAIN w.hands
    BY <1>2, <1>4, HandsOf
  <2> QED BY <1>2, <2>2, <2>3, NetKept
<1>11. i.op = "gift" => (i.gift \in DOMAIN gifts' => i.gift \in DOMAIN gifts)
  <2>1. i.op = "gift" => i.gift \notin DOMAIN w.gifts
    BY <1>3, <1>4, <1>5, HandsOf
  <2> QED BY <1>2, <2>1 DEF Becomes
<1>12. OfPlayers(activeHands', {u}) = OfPlayers(activeHands, {u})
  <2>1. PICK am, am2, x : am = activeHands /\ am2 = activeHands' /\ x = j.user
    OBVIOUS
  <2>2. am2 = IF w.hands = NoRows THEN am ELSE Remapped(am, x, w)
    BY <1>1, <1>2, <2>1 DEF Commit, Remapped, PlanFits
  <2>3. DOMAIN am \subseteq Player \X Game /\ x # u
    BY <1>3, <1>4, <1>5, <1>7, <1>8, <2>1, JobOf DEF TypeOK, IsTable
  <2>4. \A k : k[1] = u => /\ k \in DOMAIN am2 <=> k \in DOMAIN am
                           /\ k \in DOMAIN am => am2[k] = am[k]
    <3>1. CASE w.hands = NoRows
      BY <2>2, <3>1
    <3>2. CASE w.hands # NoRows
      <4>1. j.op \in {"start", "act"}
        <5>1. DOMAIN w.hands = {} => w.hands = NoRows
          BY <1>2 DEF PlanFits, IsWrites, IsTable, NoRows
        <5> QED BY <1>2, <1>4, <3>2, <5>1, HandsOf
      <4>2. PICK g : g = j.hand
        OBVIOUS
      <4>3. DOMAIN w.hands = {g} /\ w.hands[g].user = x /\ x \in Player
        BY <1>2, <1>4, <2>1, <4>1, <4>2, JobOf DEF PlanFits, HandFits
      <4>4. am2 = Remapped(am, x, w)
        BY <2>2, <3>2
      <4>5. CASE w.hands[g].status = "active"
        <5>1. PICK key : key = KeyOf(w, g)
          OBVIOUS
        <5>2. Puts(am, am2, key, g)
          BY <2>3, <4>3, <4>4, <4>5, <5>1, MapActive
        <5>3. key[1] = x
          BY <4>3, <5>1 DEF KeyOf
        <5> QED BY <2>3, <5>2, <5>3 DEF Puts
      <4>6. CASE w.hands[g].status # "active"
        <5>1. Frees(am, am2, x, g)
          BY <2>3, <4>3, <4>4, <4>6, MapSettled
        <5> QED BY <2>3, <5>1 DEF Frees
      <4> QED BY <4>5, <4>6
    <3> QED BY <3>1, <3>2
  <2>5. OfPlayers(am2, {u}) = OfPlayers(am, {u})
    <3>1. {k \in DOMAIN am2 : k[1] \in {u}} = {k \in DOMAIN am : k[1] \in {u}}
      BY <2>4
    <3>2. \A k \in {k \in DOMAIN am : k[1] \in {u}} : am2[k] = am[k]
      BY <2>4
    <3> QED BY <3>1, <3>2 DEF OfPlayers
  <2> QED BY <2>1, <2>5
<1>13. a = "paid" => potOf' = potOf
  <2>1. SUFFICES ASSUME a = "paid" PROVE potOf' = potOf
    OBVIOUS
  <2>2. \A s \in Shard : s \notin ShardsWritten(w, j)
    BY <1>5, <2>1
  <2>3. shards' = [s \in Shard |-> IF w.hit THEN 0
                                   ELSE IF s \in ShardsWritten(w, j) THEN shards[s] + w.contribution
                                   ELSE shards[s]]
    BY <1>1 DEF Commit
  <2>4. ~w.hit \/ Shard = {}
    BY <2>2 DEF ShardsWritten
  <2>5. shards' = [s \in Shard |-> shards[s]]
    BY <2>2, <2>3, <2>4
  <2>6. shards' = shards
    BY <1>3, <2>5 DEF TypeOK
  <2> QED BY <2>6 DEF potOf
<1> QED BY <1>3, <1>6, <1>7, <1>9, <1>10, <1>11, <1>12, <1>13, PlanKept

LEMMA CommitInv ==
  ASSUME IInv, NEW r \in Request, Commit(r)
  PROVE  IInv'
<1>1. PICK w, j, map, at : w = writes[r] /\ j = job[r] /\ map = read[r] /\ at = phase[r]
  OBVIOUS
<1>2. PlanFits(w, j, map, at) /\ Asks(j) /\ Becomes(w, j)
  BY <1>1, CommitRows
<1>3. TypeOK /\ JobsAsk /\ HitsSettled /\ j \in Job
  BY <1>2 DEF IInv, Asks
<1>4. /\ phase'[r] \in {"idle", "ready"} /\ (phase'[r] = "ready" => job'[r] = j)
      /\ \A q \in Request \ {r} :
           phase'[q] = phase[q] /\ job'[q] = job[q] /\ writes'[q] = writes[q] /\ read'[q] = read[q]
  BY <1>1, <1>3 DEF Commit, End, Again, TypeOK
<1>5. DOMAIN players' = DOMAIN players
  BY <1>2 DEF Becomes
<1>6. JobsAsk'
  BY <1>2, <1>3, <1>4, <1>5 DEF JobsAsk, Asks
<1>7. HitsSettled'
  <2>1. /\ DOMAIN w.hits \subseteq DOMAIN w.hands /\ (DOMAIN w.hits # {} => w.hit)
        /\ w.hit => \A h \in DOMAIN w.hands : w.hands[h].status = "settled"
        /\ \A h \in DOMAIN w.hands : h \in DOMAIN hands => hands[h].status = "active"
    BY <1>2, <1>3, HandsOf
  <2>2. ASSUME NEW h \in DOMAIN w.hits PROVE h \in DOMAIN hands' /\ hands'[h].status = "settled"
    BY <1>2, <2>1, <2>2 DEF Becomes
  <2>3. ASSUME NEW h \in DOMAIN hits PROVE h \in DOMAIN hands' /\ hands'[h].status = "settled"
    <3>1. h \in DOMAIN hands /\ hands[h].status = "settled"
      BY <1>3, <2>3 DEF HitsSettled
    <3>2. h \notin DOMAIN w.hands
      BY <2>1, <3>1
    <3> QED BY <1>2, <3>1, <3>2 DEF Becomes
  <2>4. DOMAIN hits' = DOMAIN hits \cup DOMAIN w.hits
    BY <1>2 DEF Becomes
  <2> QED BY <2>2, <2>3, <2>4 DEF HitsSettled
<1>8. Explains(ledger, players)'
  <2>1. /\ IsTable(players, Player, PlayerRow) /\ IsTable(ledger, Player \X Nat, Entry)
        /\ Explains(ledger, players) /\ IsWrites(w) /\ LedgerFits(w, players)
    BY <1>2 DEF IInv, TypeOK, PlanFits
  <2>2. PICK rows, book : rows = players' /\ book = ledger'
    OBVIOUS
  <2>3. rows = Overlay(players, w.players) /\ book = Overlay(ledger, w.ledger)
    BY <1>1, <2>2 DEF Commit
  <2>4. Explains(book, rows)
    BY <2>1, <2>3, LedgerGoesOn
  <2> QED BY <2>2, <2>4
<1>9. PlansFit'
  <2> SUFFICES ASSUME NEW q \in Request, Current(q)'
               PROVE  PlanFits(writes[q], job[q], read[q], phase[q])'
    BY DEF PlansFit
  <2>1. q # r
    BY <1>4 DEF Current, Attempting
  <2>2. PICK v, i, m, a : v = writes[q] /\ i = job[q] /\ m = read[q] /\ a = phase[q]
    OBVIOUS
  <2>3. stale'[q] = (stale[q] \/ (Attempting(q) /\ Reads(q) \cap Written(r) # {}))
    BY <2>1 DEF Commit
  <2>4. Attempting(q)
    BY <1>4, <2>1 DEF Current, Attempting
  <2>5. ~stale'[q]
    BY DEF Current
  <2>6. Current(q) /\ Reads(q) \cap Written(r) = {}
    BY <2>3, <2>4, <2>5 DEF Current
  <2>7. PlanFits(v, i, m, a)'
    BY <2>1, <2>2, <2>6, OtherFits
  <2> QED BY <1>4, <2>1, <2>2, <2>7
<1> QED BY <1>6, <1>7, <1>8, <1>9, CommitTypes, CommitMap DEF IInv

(* Documents change when a player is new or an attempt commits.             *)
LEMMA WritersOnly ==
  ASSUME [Next]_vars
  PROVE  \/ \E p \in Player : ensurePlayer(p)
         \/ \E r \in Request : Commit(r)
         \/ UNCHANGED documents
<1>1. ASSUME NEW r \in Request, PostHands(r) \/ PostAction(r) \/ PostClaim(r) \/ PostGift(r)
      PROVE  UNCHANGED documents
  BY <1>1 DEF PostHands, PostAction, PostClaim, PostGift, Arrive
<1>2. ASSUME NEW r \in Request, PlanStart(r) \/ PlanAction(r) \/ PlanClaim(r) \/ PlanGift(r)
      PROVE  UNCHANGED documents
  BY <1>2 DEF PlanStart, PlanAction, PlanClaim, PlanGift, Plan
<1>3. ASSUME NEW r \in Request, ReadPot(r) \/ Answer(r) \/ Rerun(r) \/ Fail(r)
      PROVE  UNCHANGED documents
  BY <1>3 DEF ReadPot, Answer, Rerun, Fail
<1>4. Tomorrow \/ UNCHANGED vars => UNCHANGED documents
  BY DEF Tomorrow, vars
<1> QED BY <1>1, <1>2, <1>3, <1>4 DEF Next

------------------------------------------------------------------------------
(* Every step keeps IInv.                                                   *)
LEMMA NextInv ==
  ASSUME IInv, [Next]_vars
  PROVE  IInv'
<1>1. ASSUME NEW p \in Player, ensurePlayer(p) PROVE IInv'
  BY <1>1, EnsurePlayerInv
<1>2. ASSUME NEW r \in Request,
             \/ PostHands(r) \/ PostAction(r) \/ PostClaim(r) \/ PostGift(r)
             \/ PlanStart(r) \/ PlanAction(r) \/ PlanClaim(r) \/ PlanGift(r)
             \/ ReadPot(r) \/ Answer(r) \/ Commit(r) \/ Rerun(r) \/ Fail(r)
      PROVE  IInv'
  BY <1>2, RequestInv, PlanStartInv, PlanActionInv, PlanClaimInv, PlanGiftInv, ReadPotInv,
     EndingInv, CommitInv
<1>3. today \in Nat
  BY DEF IInv, TypeOK
<1>4. CASE Tomorrow
  <2>1. UNCHANGED <<documents, attempts>> /\ today' \in Nat
    BY <1>3, <1>4 DEF Tomorrow
  <2> QED BY <2>1, StutterInv
<1>5. CASE UNCHANGED vars
  <2>1. UNCHANGED <<documents, attempts>> /\ today' \in Nat
    BY <1>3, <1>5 DEF vars
  <2> QED BY <2>1, StutterInv
<1> QED BY <1>1, <1>2, <1>4, <1>5 DEF Next

(* The inductive invariant: an attempt nobody has disturbed still fits the  *)
(* documents (firestore.ts:54-68).                                          *)
THEOREM AlwaysIInv == Spec => []IInv
<1>1. Init => IInv
  BY InitInv
<1>2. IInv /\ [Next]_vars => IInv'
  BY NextInv
<1> QED BY <1>1, <1>2, PTL DEF Spec

(* The map of active hands does what a unique index does on Postgres.       *)
THEOREM AlwaysActiveHandsAgree == Spec => []ActiveHandsAgree
<1>1. IInv => ActiveHandsAgree
  BY DEF IInv
<1> QED BY <1>1, AlwaysIInv, PTL

(* No request that is in its right is refused because what it creates is    *)
(* there already.                                                           *)
LEMMA CreatesFit == IInv => CreatesSucceed
<1> SUFFICES ASSUME IInv, NEW r \in Request, ReadyToCommit(r), ~stale[r]
             PROVE  ~CreateFails(writes[r])
  BY DEF CreatesSucceed
<1>1. PICK w, j, map, at : w = writes[r] /\ j = job[r] /\ map = read[r] /\ at = phase[r]
  OBVIOUS
<1>2. PlanFits(w, j, map, at) /\ Asks(j)
  BY <1>1 DEF ReadyToCommit, IInv, JobsAsk, PlansFit, Current, Attempting
<1>3. TypeOK /\ HitsSettled /\ Explains(ledger, players) /\ j \in Job
  BY <1>2 DEF IInv, Asks
<1>4. DOMAIN w.ledger \cap DOMAIN ledger = {}
  <2> SUFFICES ASSUME NEW k \in DOMAIN w.ledger, k \in DOMAIN ledger PROVE FALSE
    OBVIOUS
  <2>1. PICK last : last = players[k[1]].ledgerSeq
    OBVIOUS
  <2>2. k[2] \in last + 1 .. w.players[k[1]].ledgerSeq
    BY <1>2, <2>1 DEF PlanFits, LedgerFits
  <2>3. k[1] \in DOMAIN players /\ k[2] \in 1 .. last
    BY <1>3, <2>1 DEF Explains
  <2>4. last \in Nat
    BY <1>3, <2>1, <2>3 DEF TypeOK, IsTable, PlayerRow
  <2> QED BY <2>2, <2>3, <2>4
<1>5. DOMAIN w.gifts \cap DOMAIN gifts = {}
  BY <1>2, JobOf DEF PlanFits, HandFits, ClaimFits, GiftFits, Asks
<1>6. DOMAIN w.hits \cap DOMAIN hits = {}
  <2>1. /\ DOMAIN w.hits \subseteq DOMAIN w.hands
        /\ \A h \in DOMAIN w.hands : h \in DOMAIN hands => hands[h].status = "active"
    BY <1>2, <1>3, HandsOf
  <2> QED BY <1>3, <2>1 DEF HitsSettled
<1> QED BY <1>1, <1>4, <1>5, <1>6 DEF CreateFails

(* An attempt whose reads still hold never meets one of the documents it    *)
(* creates (firestore.ts:36-38).                                            *)
THEOREM AlwaysCreatesSucceed == Spec => []CreatesSucceed
  BY CreatesFit, AlwaysIInv, PTL

(* The ledger explains every balance on Firestore as well (economy.ts).     *)
THEOREM AlwaysExplains == Spec => []Explains(ledger, players)
<1>1. IInv => Explains(ledger, players)
  BY DEF IInv
<1> QED BY <1>1, AlwaysIInv, PTL

------------------------------------------------------------------------------
(* The jackpot.                                                             *)

(* What a commit adds to the settled hands it adds to the pot, or pays out  *)
(* with all of it.                                                          *)
LEMMA CommitFeeds ==
  ASSUME IInv, NEW r \in Request, Commit(r), NEW w, w = writes[r], NEW h, h = job[r].hand,
         NEW rows, rows = hands, NEW rows2, rows2 = hands'
  PROVE  Feeds(rows, rows2, h, w.contribution)
<1>1. PICK j, map, at : j = job[r] /\ map = read[r] /\ at = phase[r]
  OBVIOUS
<1>2. PlanFits(w, j, map, at) /\ Asks(j) /\ Becomes(w, j)
  BY <1>1, CommitRows
<1>3. TypeOK /\ j \in Job
  BY <1>2 DEF IInv, Asks
<1>4. /\ DOMAIN rows2 = DOMAIN rows \cup DOMAIN w.hands
      /\ \A k \in DOMAIN w.hands : rows2[k] = w.hands[k]
      /\ \A k \in DOMAIN rows : k \notin DOMAIN w.hands => rows2[k] = rows[k]
  BY <1>2 DEF Becomes
<1>5. /\ j.op \in {"start", "act"} => DOMAIN w.hands = {h} /\ w.contribution = PlannedFeed(w, h)
      /\ j.op \notin {"start", "act"} => DOMAIN w.hands = {} /\ w.contribution = 0
      /\ \A k \in DOMAIN w.hands : k \in DOMAIN rows => rows[k].status = "active"
  <2>1. /\ j.op \in {"start", "act"} => DOMAIN w.hands = {h}
        /\ j.op \notin {"start", "act"} => DOMAIN w.hands = {} /\ w.contribution = 0
        /\ \A k \in DOMAIN w.hands : k \in DOMAIN hands => hands[k].status = "active"
    BY <1>1, <1>2, <1>3, HandsOf
  <2>2. j.op \in {"start", "act"} => w.contribution = PlannedFeed(w, h)
    BY <1>1, <1>2 DEF PlanFits, HandFits
  <2> QED BY <2>1, <2>2
<1>6. \A k \in SettledIn(rows) : /\ k \in DOMAIN rows /\ k \notin DOMAIN w.hands /\ k \in DOMAIN rows2
                                 /\ rows2[k] = rows[k] /\ rows2[k].status = "settled"
  BY <1>4, <1>5 DEF SettledIn
<1>7. \A k \in DOMAIN rows : rows[k].state.jackpotStake \in Nat
  BY <1>3, EngineAssumption DEF TypeOK, IsTable, HandRow, EngineView
<1>8. \/ /\ h \notin SettledIn(rows) /\ h \in DOMAIN rows2
         /\ SettledIn(rows2) = SettledIn(rows) \cup {h}
         /\ w.contribution = 2 * rows2[h].state.jackpotStake
      \/ SettledIn(rows2) = SettledIn(rows) /\ w.contribution = 0
  <2>1. CASE j.op \in {"start", "act"} /\ w.hands[h].status = "settled"
    <3>1. h \in DOMAIN w.hands /\ DOMAIN w.hands = {h} /\ rows2[h] = w.hands[h]
      BY <1>4, <1>5, <2>1
    <3>2. \A k : k \in SettledIn(rows2) <=> k \in SettledIn(rows) \/ k = h
      BY <1>4, <1>6, <2>1, <3>1 DEF SettledIn
    <3>3. h \notin SettledIn(rows)
      BY <1>6, <3>1
    <3>4. w.contribution = 2 * rows2[h].state.jackpotStake
      BY <1>5, <2>1, <3>1 DEF PlannedFeed
    <3> QED BY <1>4, <3>1, <3>2, <3>3, <3>4
  <2>2. CASE j.op \in {"start", "act"} /\ w.hands[h].status # "settled"
    <3>1. DOMAIN w.hands = {h} /\ w.contribution = 0 /\ rows2[h] = w.hands[h]
      BY <1>4, <1>5, <2>2 DEF PlannedFeed
    <3>2. \A k : k \in SettledIn(rows2) <=> k \in SettledIn(rows)
      BY <1>4, <1>6, <2>2, <3>1 DEF SettledIn
    <3> QED BY <3>1, <3>2
  <2>3. CASE j.op \notin {"start", "act"}
    <3>1. DOMAIN w.hands = {} /\ w.contribution = 0
      BY <1>5, <2>3
    <3>2. \A k : k \in SettledIn(rows2) <=> k \in SettledIn(rows)
      BY <1>4, <3>1 DEF SettledIn
    <3> QED BY <3>1, <3>2
  <2> QED BY <2>1, <2>2, <2>3
<1>9. \A k \in SettledIn(rows) :
        k \in DOMAIN rows2 /\ rows2[k] = rows[k] /\ rows[k].state.jackpotStake \in Nat
  BY <1>6, <1>7
<1> QED BY <1>8, <1>9 DEF Feeds

LEMMA CommitPays ==
  ASSUME IInv, NEW r \in Request, Commit(r), NEW w, w = writes[r], NEW h, h = job[r].hand,
         NEW won, won = hits, NEW won2, won2 = hits', NEW in, in = potOf, NEW left, left = potOf'
  PROVE  Pays(won, won2, h, w.contribution, in, left)
<1>1. PICK j, map, at : j = job[r] /\ map = read[r] /\ at = phase[r]
  OBVIOUS
<1>2. /\ PlanFits(w, j, map, at) /\ Asks(j) /\ Becomes(w, j)
      /\ at = (IF w.hit THEN "paid" ELSE "planned")
  BY <1>1, CommitRows
<1>3. TypeOK /\ j \in Job /\ HitsSettled
  BY <1>2 DEF IInv, Asks
<1>4. /\ DOMAIN won2 = DOMAIN won \cup DOMAIN w.hits
      /\ \A k \in DOMAIN w.hits : won2[k] = w.hits[k]
      /\ \A k \in DOMAIN won : k \notin DOMAIN w.hits => won2[k] = won[k]
  BY <1>2 DEF Becomes
<1>5. left = IF w.hit THEN JackpotSeed ELSE in + w.contribution
  BY <1>1, CommitPot
<1>6. /\ DOMAIN w.hits \subseteq DOMAIN w.hands /\ (DOMAIN w.hits # {} => w.hit)
      /\ \A k \in DOMAIN w.hands : k \in DOMAIN hands => hands[k].status = "active"
  BY <1>2, <1>3, HandsOf
<1>7. \A k \in DOMAIN won : k \notin DOMAIN w.hits /\ won[k] \in Nat
  BY <1>3, <1>6 DEF HitsSettled, TypeOK, IsTable
<1>8. CASE w.hit
  <2>1. j.op \in {"start", "act"}
    BY <1>2, <1>3, <1>8, HandsOf
  <2>2. w.hits = Row(h, (in + w.contribution) \div 100)
    BY <1>1, <1>2, <1>8, <2>1 DEF PlanFits, HitFits
  <2>3. DOMAIN w.hits = {h} /\ w.hits[h] = (in + w.contribution) \div 100
    BY <2>2 DEF Row
  <2> QED BY <1>4, <1>5, <1>7, <1>8, <2>3 DEF Pays
<1>9. CASE ~w.hit
  <2>1. DOMAIN w.hits = {}
    BY <1>6, <1>9
  <2> QED BY <1>4, <1>5, <1>7, <1>9, <2>1 DEF Pays
<1> QED BY <1>8, <1>9

LEMMA CommitShards ==
  ASSUME IInv, PotInv, NEW r \in Request, Commit(r)
  PROVE  PotInv'
<1>1. PICK w, j, h, map, at : w = writes[r] /\ j = job[r] /\ h = j.hand /\ map = read[r] /\ at = phase[r]
  OBVIOUS
<1>2. PICK rows, rows2, won, won2, in, left :
        /\ rows = hands /\ rows2 = hands' /\ won = hits /\ won2 = hits' /\ in = potOf /\ left = potOf'
  OBVIOUS
<1>3. PlanFits(w, j, map, at) /\ Asks(j) /\ Becomes(w, j)
  BY <1>1, CommitRows
<1>4. TypeOK /\ j \in Job /\ w.contribution \in Nat
  BY <1>3 DEF IInv, Asks, PlanFits, IsWrites
<1>5. DOMAIN w.hands \subseteq {h} /\ DOMAIN w.hits \subseteq {h}
  BY <1>1, <1>3, <1>4, HandsOf
<1>6. IsFiniteSet({h}) /\ IsFiniteSet(DOMAIN rows) /\ IsFiniteSet(DOMAIN won)
  BY <1>2, FS_Singleton DEF PotInv
<1>7. IsFiniteSet(DOMAIN rows2) /\ IsFiniteSet(DOMAIN won2)
  <2>1. DOMAIN rows2 \subseteq DOMAIN rows \cup {h} /\ DOMAIN won2 \subseteq DOMAIN won \cup {h}
    BY <1>2, <1>3, <1>5 DEF Becomes
  <2>2. IsFiniteSet(DOMAIN rows \cup {h}) /\ IsFiniteSet(DOMAIN won \cup {h})
    BY <1>6, FS_Union
  <2> QED BY <2>1, <2>2, FS_Subset
<1>8. IsFiniteSet(SettledIn(rows))
  <2>1. SettledIn(rows) \subseteq DOMAIN rows
    BY DEF SettledIn
  <2> QED BY <1>6, <2>1, FS_Subset
<1>9. Feeds(rows, rows2, h, w.contribution) /\ Pays(won, won2, h, w.contribution, in, left)
  BY <1>1, <1>2, CommitFeeds, CommitPays
<1>10. in \in Nat /\ PotExplained(rows, won, in)
  BY <1>2, <1>4, PotNat DEF PotInv, ShardsBalance
<1>11. PotExplained(rows2, won2, left)
  BY <1>4, <1>6, <1>8, <1>9, <1>10, PotGoesOn
<1> QED BY <1>2, <1>7, <1>11 DEF PotInv, ShardsBalance

LEMMA NextPot ==
  ASSUME IInv, PotInv, [Next]_vars
  PROVE  PotInv'
<1>1. ASSUME NEW r \in Request, Commit(r) PROVE PotInv'
  BY <1>1, CommitShards
<1>2. ASSUME UNCHANGED <<hands, hits, shards>> PROVE PotInv'
  BY <1>2 DEF PotInv, ShardsBalance, potOf
<1>3. ASSUME NEW p \in Player, ensurePlayer(p) PROVE UNCHANGED <<hands, hits, shards>>
  BY <1>3 DEF ensurePlayer
<1>4. UNCHANGED documents => UNCHANGED <<hands, hits, shards>>
  BY DEF documents
<1> QED BY <1>1, <1>2, <1>3, <1>4, WritersOnly

LEMMA InitPot == Init => PotInv
<1> SUFFICES ASSUME Init PROVE PotInv
  OBVIOUS
<1>1. DOMAIN hands = {} /\ DOMAIN hits = {} /\ \A s \in Shard : shards[s] = 0
  BY DEF Init, NoRows
<1>2. SumFunctionOnSet(shards, Shard) = 0
  BY <1>1, SumZero, FirestoreAssumption
<1>3. potOf = JackpotSeed
  BY <1>2, EconomyAssumption DEF potOf
<1>4. PotExplained(hands, hits, potOf)
  BY <1>1, <1>3, NothingPaid
<1> QED BY <1>1, <1>4, FS_EmptySet DEF PotInv, ShardsBalance

(* The shards keep account of the jackpot, whatever commits to them unread, *)
(* reads and zeroes them, or runs again (firestore.ts:54-59).               *)
THEOREM AlwaysShardsBalance == Spec => []ShardsBalance
<1>1. IInv /\ PotInv /\ [Next]_vars => PotInv'
  BY NextPot
<1>2. PotInv => ShardsBalance
  BY DEF PotInv
<1> QED BY <1>1, <1>2, InitPot, AlwaysIInv, PTL DEF Spec

------------------------------------------------------------------------------
(* The book, as the documents show it.                                      *)
Balances == [p \in DOMAIN players |-> players[p].balance]
BookHands == [h \in HandId |-> BookHand(h)]

LEMMA InitBook == Init => Book!Init
<1> SUFFICES ASSUME Init PROVE Book!Init
  OBVIOUS
<1>1. DOMAIN players = {} /\ DOMAIN hands = {} /\ \A s \in Shard : shards[s] = 0
  BY DEF Init, NoRows
<1>2. [p \in DOMAIN players |-> players[p].balance] = [p \in {} |-> 0]
  BY <1>1
<1>3. [h \in HandId |-> BookHand(h)] = [h \in HandId |-> [player |-> Nobody, closed |-> FALSE, net |-> 0]]
  BY <1>1 DEF BookHand
<1>4. potOf = JackpotSeed
  <2>1. SumFunctionOnSet(shards, Shard) = 0
    BY <1>1, SumZero, FirestoreAssumption
  <2> QED BY <2>1, EconomyAssumption DEF potOf
<1> QED BY <1>2, <1>3, <1>4 DEF Book!Init, Book!Unplayed

LEMMA StutterBook ==
  ASSUME UNCHANGED documents
  PROVE  UNCHANGED Book!book
<1>1. players' = players /\ hands' = hands /\ hits' = hits /\ shards' = shards
  BY DEF documents
<1>2. [p \in DOMAIN players |-> players[p].balance]' = [p \in DOMAIN players |-> players[p].balance]
  BY <1>1
<1>3. [h \in HandId |-> BookHand(h)]' = [h \in HandId |-> BookHand(h)]
  BY <1>1 DEF BookHand, NetOf
<1>4. potOf' = potOf
  BY <1>1 DEF potOf
<1> QED BY <1>2, <1>3, <1>4 DEF Book!book

LEMMA JoinBook ==
  ASSUME NEW p \in Player, ensurePlayer(p)
  PROVE  Book!Next
<1>1. PICK new : new = NewPlayer(p)
  OBVIOUS
<1>2. /\ p \notin DOMAIN players /\ players' = Overlay(players, new.players)
      /\ hands' = hands /\ hits' = hits /\ shards' = shards
  BY <1>1 DEF ensurePlayer
<1>3. DOMAIN new.players = {p} /\ new.players[p].balance = StartingBalance
  BY <1>1, NewPlayerRows
<1>4. /\ DOMAIN players' = DOMAIN players \cup {p} /\ players'[p].balance = StartingBalance
      /\ \A q \in DOMAIN players : players'[q] = players[q]
  BY <1>2, <1>3 DEF Overlay
<1>5. PICK b : b = Balances
  OBVIOUS
<1>6. DOMAIN b = DOMAIN players /\ \A q \in DOMAIN players : b[q] = players[q].balance
  BY <1>5 DEF Balances
<1>7. Balances' = [q \in DOMAIN b \cup {p} |-> IF q = p THEN StartingBalance ELSE b[q]]
  BY <1>2, <1>4, <1>6 DEF Balances
<1>8. BookHands' = BookHands /\ potOf' = potOf
  BY <1>2 DEF BookHands, BookHand, NetOf, potOf
<1>9. Book!Join(p)
  BY <1>2, <1>5, <1>6, <1>7, <1>8 DEF Book!Join, Balances, BookHands
<1> QED BY <1>9 DEF Book!Next

(* A commit is the move of one hand, one grant or one gift.                 *)
LEMMA CommitBook ==
  ASSUME IInv, NEW r \in Request, Commit(r)
  PROVE  Book!Next
<1>1. PICK w, j, map, at : w = writes[r] /\ j = job[r] /\ map = read[r] /\ at = phase[r]
  OBVIOUS
<1>2. PlanFits(w, j, map, at) /\ Asks(j) /\ Becomes(w, j)
  BY <1>1, CommitRows
<1>3. TypeOK /\ j \in Job /\ IsWrites(w) /\ DOMAIN w.players = PlayersOf(j)
  BY <1>2 DEF IInv, Asks, PlanFits
<1>4. /\ DOMAIN players' = DOMAIN players /\ PlayersOf(j) \subseteq DOMAIN players
      /\ \A p \in PlayersOf(j) : players'[p] = w.players[p] /\ w.players[p] \in PlayerRow
      /\ \A p \in DOMAIN players \ PlayersOf(j) : players'[p] = players[p]
  BY <1>2 DEF Becomes, Asks
<1>5. PICK b, c : b = Balances /\ c = Balances'
  OBVIOUS
<1>6. /\ DOMAIN b = DOMAIN players /\ DOMAIN c = DOMAIN players
      /\ \A p \in DOMAIN players : b[p] = players[p].balance /\ c[p] = players'[p].balance
      /\ \A p \in DOMAIN players \ PlayersOf(j) : c[p] = b[p]
      /\ \A p \in PlayersOf(j) : c[p] = w.players[p].balance /\ c[p] \in Nat /\ b[p] \in Nat
  <2>1. /\ DOMAIN b = DOMAIN players /\ DOMAIN c = DOMAIN players
        /\ \A p \in DOMAIN players : b[p] = players[p].balance /\ c[p] = players'[p].balance
    BY <1>4, <1>5 DEF Balances
  <2>2. \A p \in DOMAIN players : players[p] \in PlayerRow
    BY <1>3 DEF TypeOK, IsTable
  <2> QED BY <1>4, <2>1, <2>2 DEF PlayerRow
<1>7. PICK pot, left : pot = potOf /\ left = potOf'
  OBVIOUS
<1>8. left = IF w.hit THEN JackpotSeed ELSE pot + w.contribution
  BY <1>1, <1>7, CommitPot
<1>9. pot \in Nat /\ pot >= JackpotSeed /\ w.contribution \in Nat /\ JackpotSeed \in Nat
  BY <1>3, <1>7, PotNat, EconomyAssumption DEF IsWrites
<1>10. j.user \in PlayersOf(j) /\ j.user \in Player /\ (j.op # "gift" => PlayersOf(j) = {j.user})
  BY <1>3, JobOf
<1>11. CASE j.op \in {"start", "act"}
  <2>1. PICK u, h : u = j.user /\ h = j.hand
    OBVIOUS
  <2>2. /\ DOMAIN w.hands = {h} /\ PlayersOf(j) = {u} /\ h \in HandId /\ u \in Player /\ u \in DOMAIN players
    BY <1>3, <1>4, <1>10, <1>11, <2>1, <1>2, HandsOf, JobOf
  <2>3. /\ w.players[u].balance - players[u].balance = PlannedNet(w, h) - NetSoFar(h)
        /\ w.hands[h].user = u /\ w.contribution = PlannedFeed(w, h)
        /\ h \in DOMAIN hands => hands[h].user = u /\ hands[h].status = "active"
    BY <1>2, <1>11, <2>1 DEF PlanFits, HandFits
  <2>4. w.hit => w.hands[h].status = "settled"
    BY <1>2, <1>3, <2>2, HandsOf
  <2>5. DOMAIN w.hits \subseteq DOMAIN w.hands
    BY <1>2, <1>3, HandsOf
  <2>6. PICK x, y : x = BookHands /\ y = BookHands'
    OBVIOUS
  <2>7. /\ DOMAIN x = HandId /\ DOMAIN y = HandId
        /\ \A k \in HandId : x[k] = BookHand(k) /\ y[k] = BookHand(k)'
        /\ \A k \in HandId : k # h => y[k] = x[k]
    <3>1. \A k \in HandId : k # h => BookHand(k)' = BookHand(k)
      BY <1>2, <2>2, <2>5, NetKept
    <3> QED BY <2>6, <3>1 DEF BookHands
  <2>8. /\ x[h].net = NetSoFar(h) /\ ~x[h].closed /\ x[h].player \in {Nobody, u}
    <3>1. CASE h \in DOMAIN hands
      <4>1. x[h] = [player |-> hands[h].user, closed |-> hands[h].status = "settled", net |-> NetOf(h)]
        BY <2>2, <2>7, <3>1 DEF BookHand
      <4>2. hands[h].user = u /\ ~(hands[h].status = "settled") /\ NetSoFar(h) = NetOf(h)
        BY <2>3, <3>1 DEF NetSoFar
      <4>3. x[h].net = NetSoFar(h) /\ x[h].player = u
        BY <4>1, <4>2
      <4>4. ~x[h].closed
        BY <4>1, <4>2, OpenField
      <4> QED BY <4>3, <4>4
    <3>2. CASE h \notin DOMAIN hands
      <4>1. x[h] = [player |-> Nobody, closed |-> FALSE, net |-> 0] /\ NetSoFar(h) = 0
        BY <2>2, <2>7, <3>2 DEF BookHand, NetSoFar
      <4>2. x[h].net = NetSoFar(h) /\ x[h].player = Nobody
        BY <4>1
      <4>3. ~x[h].closed
        BY <4>1, OpenField
      <4> QED BY <4>2, <4>3
    <3> QED BY <3>1, <3>2
  <2>9. y[h] = [player |-> u, closed |-> w.hands[h].status = "settled", net |-> PlannedNet(w, h)]
    <3>1. h \in DOMAIN hands' /\ hands'[h] = w.hands[h]
      BY <1>2, <2>2 DEF Becomes
    <3>2. h \notin DOMAIN hits
      BY <2>3 DEF IInv, HitsSettled
    <3>3. /\ h \in DOMAIN hits' <=> h \in DOMAIN w.hits
          /\ h \in DOMAIN w.hits => hits'[h] = w.hits[h]
      BY <1>2, <3>2 DEF Becomes
    <3>4. NetOf(h)' = PlannedNet(w, h)
      BY <3>1, <3>3 DEF NetOf, PlannedNet
    <3>5. BookHand(h)' = [player |-> u, closed |-> w.hands[h].status = "settled", net |-> PlannedNet(w, h)]
      BY <2>3, <3>1, <3>4 DEF BookHand
    <3> QED BY <2>2, <2>7, <3>5
  <2>10. PlannedNet(w, h) = x[h].net + (c[u] - b[u])
    <3>1. c[u] = w.players[u].balance /\ b[u] = players[u].balance /\ c[u] \in Nat /\ b[u] \in Nat
      BY <1>6, <2>2
    <3>2. PlannedNet(w, h) \in Int /\ NetSoFar(h) \in Int
      <4>1. w.hands[h] \in HandRow /\ (h \in DOMAIN w.hits => w.hits[h] \in Nat)
        BY <1>3, <2>2 DEF IsWrites, IsTable
      <4>2. w.hands[h].state \in EngineView
        BY <4>1, EngineAssumption DEF HandRow
      <4>3. PlannedNet(w, h) \in Int
        BY <4>1, <4>2 DEF PlannedNet, HandRow, EngineView
      <4>4. NetSoFar(h) \in Int
        BY <1>3, NetInt
      <4> QED BY <4>3, <4>4
    <3> QED BY <2>3, <2>8, <3>1, <3>2
  <2>11. y = [x EXCEPT ![h] = [player |-> u, closed |-> y[h].closed, net |-> x[h].net + (c[u] - b[u])]]
    <3>1. y[h] = [player |-> u, closed |-> y[h].closed, net |-> x[h].net + (c[u] - b[u])]
      BY <2>9, <2>10
    <3>2. y = [k \in HandId |-> y[k]] /\ x = [k \in HandId |-> x[k]]
      BY <2>6 DEF BookHands
    <3> QED BY <2>2, <2>7, <3>1, <3>2
  <2>12. \/ left = pot
         \/ y[h].closed /\ left > pot
         \/ y[h].closed /\ left = JackpotSeed /\ pot >= JackpotSeed
    <3>1. w.hands[h].status = "settled" => y[h].closed
      BY <2>9, ClosedField
    <3>2. w.contribution # 0 => w.hands[h].status = "settled"
      BY <2>3 DEF PlannedFeed
    <3>3. CASE w.hit
      <4>1. left = JackpotSeed /\ pot >= JackpotSeed
        BY <1>8, <1>9, <3>3
      <4> QED BY <2>4, <3>1, <3>3, <4>1, Zenon
    <3>4. CASE ~w.hit
      <4>1. left = pot \/ (w.contribution # 0 /\ left > pot)
        BY <1>8, <1>9, <3>4
      <4> QED BY <3>1, <3>2, <4>1, Zenon
    <3> QED BY <3>3, <3>4
  <2>13. /\ DOMAIN c = DOMAIN b /\ {u} \subseteq DOMAIN b
         /\ \A p \in DOMAIN b \ {u} : c[p] = b[p]
         /\ \A p \in {u} : c[p] >= 0
    BY <1>6, <2>2
  <2>14. Book!OnlyMoves({u})
    BY <1>5, <2>13 DEF Book!OnlyMoves, Balances
  <2>15. Book!Play(h, u)
    BY <1>5, <1>7, <2>6, <2>8, <2>11, <2>12, <2>14 DEF Book!Play, Balances, BookHands
  <2> QED BY <2>2, <2>15 DEF Book!Next
<1>12. ASSUME j.op \notin {"start", "act"} PROVE BookHands' = BookHands /\ potOf' = potOf
  <2>1. DOMAIN w.hands = {} /\ ~w.hit /\ w.contribution = 0 /\ DOMAIN w.hits \subseteq DOMAIN w.hands
    BY <1>2, <1>3, <1>12, HandsOf
  <2>2. \A h \in HandId : BookHand(h)' = BookHand(h)
    BY <1>2, <2>1, NetKept
  <2>3. left = pot
    BY <1>8, <1>9, <2>1
  <2> QED BY <1>7, <2>2, <2>3 DEF BookHands
<1>13. CASE j.op \in ClaimKind
  <2>1. PICK u : u = j.user
    OBVIOUS
  <2>2. j.op \notin {"start", "act", "gift"}
    BY <1>13 DEF ClaimKind
  <2>3. PlayersOf(j) = {u} /\ u \in Player /\ w.players[u].balance >= players[u].balance
    BY <1>2, <1>10, <1>13, <2>1, <2>2 DEF PlanFits, ClaimFits
  <2>4. /\ DOMAIN c = DOMAIN b /\ {u} \subseteq DOMAIN b
        /\ \A p \in DOMAIN b \ {u} : c[p] = b[p]
        /\ \A p \in {u} : c[p] >= 0
        /\ c[u] >= b[u]
    BY <1>4, <1>6, <2>3
  <2>5. Book!OnlyMoves({u})
    BY <1>5, <2>4 DEF Book!OnlyMoves, Balances
  <2>6. BookHands' = BookHands /\ potOf' = potOf
    BY <1>12, <2>2
  <2>7. Book!Grant(u)
    BY <1>5, <2>4, <2>5, <2>6 DEF Book!Grant, Balances, BookHands
  <2> QED BY <2>3, <2>7 DEF Book!Next
<1>14. CASE j.op = "gift"
  <2>1. PICK p, q, n : p = j.user /\ q = j.to /\ n = j.amount
    OBVIOUS
  <2>2. j \in GiftJob /\ p # q /\ n > 0
    BY <1>2, <1>3, <1>14, <2>1, JobOf DEF Asks
  <2>3. /\ w.players[p].balance = players[p].balance - n
        /\ w.players[q].balance = players[q].balance + n
    BY <1>2, <1>14, <2>1 DEF PlanFits, GiftFits
  <2>4. PlayersOf(j) = {p, q} /\ p \in Player /\ q \in Player /\ n \in Nat
    BY <1>14, <2>1, <2>2 DEF PlayersOf, GiftJob
  <2>5. /\ c[p] = b[p] - n /\ c[q] = b[q] + n
        /\ c[p] \in Nat /\ c[q] \in Nat /\ b[p] \in Nat /\ b[q] \in Nat
    BY <1>4, <1>6, <2>3, <2>4
  <2>6. /\ DOMAIN c = DOMAIN b /\ {p, q} \subseteq DOMAIN b
        /\ \A u \in DOMAIN b \ {p, q} : c[u] = b[u]
        /\ \A u \in {p, q} : c[u] >= 0
    BY <1>4, <1>6, <2>4, <2>5
  <2>7. c[p] < b[p] /\ c[p] + c[q] = b[p] + b[q]
    BY <2>2, <2>4, <2>5
  <2>8. Book!OnlyMoves({p, q})
    BY <1>5, <2>6 DEF Book!OnlyMoves, Balances
  <2>9. BookHands' = BookHands /\ potOf' = potOf
    BY <1>12, <1>14
  <2>10. Book!Gift(p, q)
    BY <1>5, <2>2, <2>7, <2>8, <2>9 DEF Book!Gift, Balances, BookHands
  <2> QED BY <2>4, <2>10 DEF Book!Next
<1> QED BY <1>3, <1>11, <1>13, <1>14, JobOf

(* The attempts of Firestore implement the same book of chips: whatever     *)
(* attempts run together, are thrown away or run again after they took      *)
(* effect, every change of a balance is one hand's move, one grant or one   *)
(* gift (firestore.ts:67-68).                                               *)
THEOREM AlwaysImplementsBook == Spec => ImplementsBook
<1>1. ASSUME IInv, [Next]_vars PROVE [Book!Next]_(Book!book)
  <2>1. ASSUME NEW p \in Player, ensurePlayer(p) PROVE Book!Next
    BY <2>1, JoinBook
  <2>2. ASSUME NEW r \in Request, Commit(r) PROVE Book!Next
    BY <1>1, <2>2, CommitBook
  <2> QED BY <1>1, <2>1, <2>2, WritersOnly, StutterBook
<1>2. IInv /\ [Next]_vars => [Book!Next]_(Book!book)
  BY <1>1
<1> QED BY <1>2, InitBook, AlwaysIInv, PTL DEF Spec, ImplementsBook, Book!Spec

==============================================================================
