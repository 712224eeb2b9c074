---------------------------- MODULE ChipsPostgres ----------------------------
(***************************************************************************)
(* Highroller on Postgres: requests that run concurrently, each inside one  *)
(* transaction of repo/postgres.ts.  A transaction locks its player rows    *)
(* (SELECT ... FOR UPDATE), runs a pure step on what it reads (Chips), takes *)
(* the jackpot row when its hand wins, and commits everything at once or    *)
(* not at all.                                                              *)
(***************************************************************************)
EXTENDS Chips, FiniteSets

CONSTANTS
  Request,            \* how many requests may be in flight at once
  Free,               \* a row nobody has locked
  HandIdsOf, GiftIdsOf,  \* the ids each player's client makes
  GiftAmount,         \* amounts a client asks to send
  Claim,              \* the claims clients make: a subset of ClaimKind
  Zone,               \* time zones a client sends, as offsets from UTC
  DayLength,          \* clock ticks in a day
  MaxClock,           \* the run ends on this tick
  SlowRequests        \* may a request still be running when the clock moves

ClaimKind == {"daily_bonus", "bailout"}

ASSUME RequestAssumption ==
  /\ Free \notin Request
  /\ HandIdsOf \in [Player -> SUBSET HandId]
  /\ GiftIdsOf \in [Player -> SUBSET GiftId]
  /\ GiftAmount \subseteq Nat \ {0}
  /\ Claim \subseteq ClaimKind
  /\ Zone \subseteq Nat
  /\ DayLength \in Nat \ {0}
  /\ MaxClock \in Nat
  /\ SlowRequests \in BOOLEAN

VARIABLES
  players, ledger, hands, gifts, stats, hits,   \* tables
  pot,                                          \* the jackpot row
  playerLock, potLock,                          \* who holds each row's lock
  phase, job, writes,                           \* per request
  clock

tables == <<players, ledger, hands, gifts, stats, hits, pot>>
locks  == <<playerLock, potLock>>
vars   == <<tables, locks, phase, job, writes, clock>>

StartJob == [op: {"start"}, user: Player, hand: HandId, game: Game, dealt: EngineState]
ActJob   == [op: {"act"}, user: Player, hand: HandId, version: Nat, action: ActionType]
ClaimJob == [op: ClaimKind, user: Player, day: Day]
GiftJob  == [op: {"gift"}, user: Player, to: Player, gift: GiftId, amount: Nat,
             senderDay: Day, utcDay: Day]
Job      == StartJob \cup ActJob \cup ClaimJob \cup GiftJob
NoJob    == [op |-> "none"]
NoWrites == Draft(NoRows)

Phase == {"idle", "locking", "locked", "planned", "jackpot"}

DayIn(zone) == (clock + zone) \div DayLength

Init ==
  /\ players = NoRows /\ ledger = NoRows /\ hands = NoRows
  /\ gifts = NoRows /\ stats = NoRows /\ hits = NoRows
  /\ pot = JackpotSeed
  /\ playerLock = [p \in Player |-> Free]
  /\ potLock = Free
  /\ phase = [r \in Request |-> "idle"]
  /\ job = [r \in Request |-> NoJob]
  /\ writes = [r \in Request |-> NoWrites]
  /\ clock = 0

------------------------------------------------------------------------------
(* Requests arrive.  Everything a route draws or reads before its           *)
(* transaction (the deal, the day, the recipient) is fixed here.            *)

(* ensurePlayer: INSERT ... ON CONFLICT DO NOTHING, with the opening row.   *)
EnsurePlayer(p) ==
  /\ p \notin DOMAIN players
  /\ players' = Overlay(players, NewPlayer(p).players)
  /\ ledger' = Overlay(ledger, NewPlayer(p).ledger)
  /\ UNCHANGED <<hands, gifts, stats, hits, pot, locks, phase, job, writes, clock>>

Arrive(r, j) ==
  /\ phase[r] = "idle"
  /\ j.user \in DOMAIN players
  /\ phase' = [phase EXCEPT ![r] = "locking"]
  /\ job' = [job EXCEPT ![r] = j]
  /\ UNCHANGED <<tables, locks, writes, clock>>

PostHands(r) ==
  \E p \in Player, g \in Game :
    \E h \in HandIdsOf[p], s \in Deals[g] :
      Arrive(r, [op |-> "start", user |-> p, hand |-> h, game |-> g, dealt |-> s])

(* A client acts on the version it last saw, which may be behind.           *)
PostAction(r) ==
  \E p \in Player, h \in DOMAIN hands, a \in ActionType :
    \E v \in 0 .. hands[h].version :
      Arrive(r, [op |-> "act", user |-> p, hand |-> h, version |-> v, action |-> a])

PostClaim(r) ==
  \E p \in Player, kind \in Claim, z \in Zone :
    Arrive(r, [op |-> kind, user |-> p, day |-> DayIn(z)])

PostGift(r) ==
  \E p \in Player, q \in DOMAIN players, n \in GiftAmount, z \in Zone :
    \E id \in GiftIdsOf[p] :
      /\ p # q
      /\ Arrive(r, [op |-> "gift", user |-> p, to |-> q, gift |-> id, amount |-> n,
                    senderDay |-> DayIn(z), utcDay |-> DayIn(0)])

------------------------------------------------------------------------------
(* Row locks.                                                               *)

Needs(j) == IF j.op = "gift" THEN {j.user, j.to} ELSE {j.user}
Held(r)  == {p \in Player : playerLock[p] = r}
Least(S) == CHOOSE p \in S : \A q \in S : p <= q

(* Mutant: the sender's row first.                                          *)
NextLockSender(j, held) == IF j.user \in held THEN Least(Needs(j) \ held) ELSE j.user

(* ... ORDER BY user_id FOR UPDATE: the next row a transaction locks.       *)
NextLock(j, held) == Least(Needs(j) \ held)

(* Mutant: a SELECT without FOR UPDATE.                                     *)
CanAlwaysLock(p) == TRUE

CanLock(p) == playerLock[p] = Free

LockPlayer(r) ==
  /\ phase[r] = "locking"
  /\ LET p == NextLock(job[r], Held(r)) IN
       /\ CanLock(p)
       /\ playerLock' = [playerLock EXCEPT ![p] = r]
       /\ phase' = [phase EXCEPT ![r] = IF Needs(job[r]) \subseteq Held(r) \cup {p}
                                        THEN "locked" ELSE "locking"]
  /\ UNCHANGED <<tables, potLock, job, writes, clock>>

(* Mutant: the jackpot row stays locked.                                    *)
EndKeepingPot(r) ==
  /\ playerLock' = [p \in Player |-> IF playerLock[p] = r THEN Free ELSE playerLock[p]]
  /\ potLock' = potLock
  /\ phase' = [phase EXCEPT ![r] = "idle"]
  /\ job' = [job EXCEPT ![r] = NoJob]
  /\ writes' = [writes EXCEPT ![r] = NoWrites]

(* Commit and rollback both end the request and free its rows.              *)
End(r) ==
  /\ playerLock' = [p \in Player |-> IF playerLock[p] = r THEN Free ELSE playerLock[p]]
  /\ potLock' = IF potLock = r THEN Free ELSE potLock
  /\ phase' = [phase EXCEPT ![r] = "idle"]
  /\ job' = [job EXCEPT ![r] = NoJob]
  /\ writes' = [writes EXCEPT ![r] = NoWrites]

------------------------------------------------------------------------------
(* The pure step, on what the transaction reads.                            *)

StatsOf(p, g) == IF <<p, g>> \in DOMAIN stats THEN stats[<<p, g>>] ELSE NoStats

ActiveHand(p, g) ==
  \E h \in DOMAIN hands : hands[h].user = p /\ hands[h].game = g /\ hands[h].status = "active"

(* Mutant: a retried start plays again.                                     *)
StartAllowedAgain(j) ==
  /\ ~ActiveHand(j.user, j.game)
  /\ Affords(players[j.user], -j.dealt.staked)

(* Mutant: a second hand of the game may start beside the first.            *)
StartAllowedBeside(j) ==
  /\ j.hand \notin DOMAIN hands
  /\ Affords(players[j.user], -j.dealt.staked)

(* Mutant: the stake is not checked against the balance.                    *)
StartAllowedUnfunded(j) ==
  /\ j.hand \notin DOMAIN hands
  /\ ~ActiveHand(j.user, j.game)

StartAllowed(j) ==
  /\ j.hand \notin DOMAIN hands
  /\ ~ActiveHand(j.user, j.game)
  /\ Affords(players[j.user], -j.dealt.staked)

(* Mutant: any version of the hand may act.                                 *)
ActionAllowedStale(j, t) ==
  LET hand == hands[j.hand] IN
    /\ hand.user = j.user
    /\ hand.status = "active"
    /\ ExtraStake(hand, t) > 0 => Affords(players[j.user], -ExtraStake(hand, t))

ActionAllowed(j, t) ==
  LET hand == hands[j.hand] IN
    /\ hand.user = j.user
    /\ hand.version = j.version
    /\ hand.status = "active"
    /\ ExtraStake(hand, t) > 0 => Affords(players[j.user], -ExtraStake(hand, t))

GiftRowOf(j) == [from |-> j.user, to |-> j.to, amount |-> j.amount,
                 senderDay |-> j.senderDay, utcDay |-> j.utcDay]

(* An existing gift is answered as it is (a retry) or refused: no writes.   *)
SendAllowed(j) ==
  /\ j.gift \notin DOMAIN gifts
  /\ GiftAllowed(players[j.user], players[j.to], GiftRowOf(j))

Plan(r, w) ==
  /\ phase' = [phase EXCEPT ![r] = "planned"]
  /\ writes' = [writes EXCEPT ![r] = w]
  /\ UNCHANGED <<tables, locks, job, clock>>

NextStates(j) == IF j.hand \in DOMAIN hands THEN Act[<<hands[j.hand].state, j.action>>] ELSE {}

PlanStart(r) ==
  LET j == job[r] IN
    /\ phase[r] = "locked" /\ j.op = "start"
    /\ StartAllowed(j)
    /\ Plan(r, StartWrites(j.user, players[j.user], j.hand, j.game, j.dealt, StatsOf(j.user, j.game)))

PlanAction(r) ==
  LET j == job[r] IN
    /\ phase[r] = "locked" /\ j.op = "act"
    /\ \E t \in NextStates(j) :
         /\ ActionAllowed(j, t)
         /\ Plan(r, ActionWrites(players[j.user], j.hand, hands[j.hand], t,
                                 StatsOf(j.user, hands[j.hand].game)))

PlanDaily(r) ==
  LET j == job[r] IN
    /\ phase[r] = "locked" /\ j.op = "daily_bonus"
    /\ DailyAllowed(players[j.user], j.day)
    /\ Plan(r, DailyWrites(j.user, players[j.user], j.day))

PlanBailout(r) ==
  LET j == job[r] IN
    /\ phase[r] = "locked" /\ j.op = "bailout"
    /\ BailoutAllowed(players[j.user], j.day)
    /\ Plan(r, BailoutWrites(j.user, players[j.user], j.day))

PlanGift(r) ==
  LET j == job[r] IN
    /\ phase[r] = "locked" /\ j.op = "gift"
    /\ SendAllowed(j)
    /\ Plan(r, GiftWrites(players[j.user], players[j.to], j.gift, GiftRowOf(j)))

(* The step throws, or answers a repeated start or gift: nothing is         *)
(* written.                                                                 *)
Answer(r) ==
  LET j == job[r] IN
    /\ phase[r] = "locked"
    /\ j.op = "start" => ~StartAllowed(j)
    /\ j.op = "act" => \A t \in NextStates(j) : ~ActionAllowed(j, t)
    /\ j.op = "daily_bonus" => ~DailyAllowed(players[j.user], j.day)
    /\ j.op = "bailout" => ~BailoutAllowed(players[j.user], j.day)
    /\ j.op = "gift" => ~SendAllowed(j)
    /\ End(r)
    /\ UNCHANGED <<tables, clock>>

(* A hit locks the jackpot row, after the player and before any write.      *)
LockJackpot(r) ==
  /\ phase[r] = "planned" /\ writes[r].hit
  /\ potLock = Free
  /\ potLock' = r
  /\ phase' = [phase EXCEPT ![r] = "jackpot"]
  /\ writes' = [writes EXCEPT ![r] = PayJackpot(writes[r], job[r].user, job[r].hand, pot)]
  /\ UNCHANGED <<tables, playerLock, job, clock>>

------------------------------------------------------------------------------
(* Commit.                                                                  *)

(* INSERT ... ON CONFLICT (id) DO UPDATE: a stored hand keeps its user and  *)
(* its game.                                                                *)
Upsert(t, u) ==
  [h \in DOMAIN t \cup DOMAIN u |->
     IF h \notin DOMAIN u THEN t[h]
     ELSE IF h \in DOMAIN t THEN [u[h] EXCEPT !.user = t[h].user, !.game = t[h].game]
     ELSE u[h]]

(* hands_one_active_idx.                                                    *)
OneActive(t) ==
  \A h, k \in DOMAIN t :
    /\ t[h].status = "active" /\ t[k].status = "active"
    /\ t[h].user = t[k].user /\ t[h].game = t[k].game
    => h = k

(* The primary keys, and the unique index.                                  *)
Conflicts(w) ==
  \/ DOMAIN w.ledger \cap DOMAIN ledger # {}
  \/ DOMAIN w.gifts \cap DOMAIN gifts # {}
  \/ DOMAIN w.hits \cap DOMAIN hits # {}
  \/ ~OneActive(Upsert(hands, w.hands))

(* Mutant: a contribution does not wait for the jackpot row.                *)
MayCommitAnyway(r) == phase[r] = "jackpot" \/ (phase[r] = "planned" /\ ~writes[r].hit)

(* A plain contribution is the last statement: it waits for the jackpot     *)
(* row while a hit holds it.                                                *)
MayCommit(r) ==
  \/ phase[r] = "jackpot"
  \/ /\ phase[r] = "planned" /\ ~writes[r].hit
     /\ writes[r].contribution > 0 => potLock = Free

Commit(r) ==
  LET w == writes[r] IN
    /\ MayCommit(r)
    /\ ~Conflicts(w)
    /\ players' = [p \in DOMAIN players |-> IF p \in DOMAIN w.players THEN w.players[p] ELSE players[p]]
    /\ ledger' = Overlay(ledger, w.ledger)
    /\ hands' = Upsert(hands, w.hands)
    /\ gifts' = Overlay(gifts, w.gifts)
    /\ stats' = Overlay(stats, w.stats)
    /\ hits' = Overlay(hits, w.hits)
    /\ pot' = IF w.hit THEN JackpotSeed ELSE pot + w.contribution
    /\ End(r)
    /\ UNCHANGED clock

(* The connection is lost, or a constraint refuses a write: rollback.       *)
Abort(r) ==
  /\ phase[r] # "idle"
  /\ End(r)
  /\ UNCHANGED <<tables, clock>>

Tick ==
  /\ clock < MaxClock
  /\ SlowRequests \/ \A r \in Request : phase[r] = "idle"
  /\ clock' = clock + 1
  /\ UNCHANGED <<tables, locks, phase, job, writes>>

Begin(r) == PostHands(r) \/ PostAction(r) \/ PostClaim(r) \/ PostGift(r)
Step(r)  == \/ LockPlayer(r)
            \/ PlanStart(r) \/ PlanAction(r) \/ PlanDaily(r) \/ PlanBailout(r) \/ PlanGift(r)
            \/ Answer(r) \/ LockJackpot(r) \/ Commit(r)

Next ==
  \/ \E p \in Player : EnsurePlayer(p)
  \/ \E r \in Request : Begin(r) \/ Step(r) \/ Abort(r)
  \/ Tick

Spec == Init /\ [][Next]_vars

(* A handler runs to its end, and Postgres queues the waiters of a row, so  *)
(* a request that can go on again and again does.                           *)
Fairness == \A r \in Request : SF_vars(Step(r))

FairSpec == Spec /\ Fairness

------------------------------------------------------------------------------
(* The type invariant.                                                      *)

(* Every table holds rows of its type, and no balance is negative.          *)
TypeOK ==
  /\ IsTable(players, Player, PlayerRow)
  /\ IsTable(ledger, Player \X Nat, Entry)
  /\ IsTable(hands, HandId, HandRow)
  /\ IsTable(gifts, GiftId, GiftRow)
  /\ IsTable(stats, Player \X Game, StatsRow)
  /\ IsTable(hits, HandId, Nat)
  /\ pot \in Nat
  /\ playerLock \in [Player -> Request \cup {Free}]
  /\ potLock \in Request \cup {Free}
  /\ phase \in [Request -> Phase]
  /\ job \in [Request -> Job \cup {NoJob}]
  /\ DOMAIN writes = Request /\ \A r \in Request : IsWrites(writes[r])
  /\ clock \in Nat

------------------------------------------------------------------------------
(* Safety.                                                                  *)

(* The ledger explains every balance: a player's rows are numbered 1, 2, 3  *)
(* without a gap, each starts from the balance the one before it left, and  *)
(* the last one leaves the balance on the player row, however requests of   *)
(* the player interleave (economy.ts:76-80, "the balance and its ledger row *)
(* always change together").                                                *)
LedgerExplainsBalance == Explains(ledger, players)

(* The rules alone keep the tables' keys and the one active hand per player *)
(* and game: no transaction ever gets as far as a write that a primary key  *)
(* or hands_one_active_idx refuses (postgres.ts:31-34 calls the index "a    *)
(* second guard").                                                          *)
NothingConflicts ==
  \A r \in Request : phase[r] \in {"planned", "jackpot"} => ~Conflicts(writes[r])

(* A gift never takes its sender under the bailout floor, whatever bets and *)
(* gifts of the same sender run beside it (economy.ts:191).                 *)
GiftsStopAtFloor ==
  \A k \in DOMAIN ledger : ledger[k].kind = "gift_out" => ledger[k].balanceAfter >= BailoutFloor

(* A daily bonus, and a bailout, is paid once per player and calendar day   *)
(* (economy.ts:51 and 60).                                                  *)
ClaimedOncePerDay ==
  \A k, l \in DOMAIN ledger :
    /\ ledger[k].kind \in ClaimKind
    /\ k[1] = l[1] /\ ledger[k].kind = ledger[l].kind /\ ledger[k].ref = ledger[l].ref
    => k = l

WaitsFor(r, s) ==
  /\ s # r
  /\ \/ phase[r] = "locking" /\ playerLock[NextLock(job[r], Held(r))] = s
     \/ phase[r] = "planned" /\ writes[r].hit /\ potLock = s
     \/ phase[r] = "planned" /\ writes[r].contribution > 0 /\ potLock = s

(* Requests never wait for each other in a ring: gifts that cross lock both *)
(* players in the same order, and the jackpot row is taken after the player *)
(* rows (postgres.ts:36-39 and 659).                                        *)
NoDeadlock ==
  \A S \in (SUBSET Request) \ {{}} : \E r \in S : \A s \in S : ~WaitsFor(r, s)

(* A settled hand never changes again, nor is it taken away (hands.ts:179). *)
SettledForGood ==
  [][\A h \in DOMAIN hands :
       hands[h].status = "settled" => h \in DOMAIN hands' /\ hands'[h] = hands[h]]_vars

(* A hand only moves on a request that saw its current version, and by one  *)
(* version, so a double tap can't act twice (hands.ts:176).                 *)
StaleNeverActs ==
  [][\A h \in DOMAIN hands :
       hands'[h] # hands[h] =>
         /\ hands'[h].version = hands[h].version + 1
         /\ \E r \in Request : /\ job[r].op = "act" /\ job[r].hand = h
                               /\ job[r].version = hands[h].version
                               /\ phase[r] # "idle" /\ phase'[r] = "idle"]_vars

(* Every request that arrives is answered: its locks are granted in turn    *)
(* and nothing it waits for is kept (postgres.ts:36-39).                    *)
RequestsEnd == \A r \in Request : (phase[r] # "idle") ~> (phase[r] = "idle")

------------------------------------------------------------------------------
(* The abstract book of chips this implements.                              *)

(* What a hand has moved so far, read off its own row and the jackpot it    *)
(* won.                                                                     *)
NetOf(h) ==
  IF hands[h].status = "settled"
  THEN hands[h].returned + (IF h \in DOMAIN hits THEN hits[h] ELSE 0) - hands[h].wagered
  ELSE hands[h].state.paidEarly - hands[h].wagered

BookHand(h) ==
  IF h \in DOMAIN hands
  THEN [player |-> hands[h].user, closed |-> hands[h].status = "settled", net |-> NetOf(h)]
  ELSE [player |-> Free, closed |-> FALSE, net |-> 0]

Book == INSTANCE ChipBook WITH
          Nobody  <- Free,
          balance <- [p \in DOMAIN players |-> players[p].balance],
          hand    <- [h \in HandId |-> BookHand(h)]

(* The tables, under any interleaving of transactions, behave as the book   *)
(* of chips: each balance change is one hand's, one grant's or one gift's,  *)
(* and the hand's own row says exactly what it moved.                       *)
ImplementsBook == Book!Spec
==============================================================================
