---------------------------- MODULE ChipsFirestore ----------------------------
(***************************************************************************)
(* Highroller on Firestore (repo/firestore.ts): the steps of Chips inside   *)
(* transactions that lock nothing.  A transaction reads documents, runs its *)
(* step, and commits if nobody wrote what it read; otherwise the client     *)
(* library runs it again from the start, and also when the answer to a      *)
(* commit is lost, so a transaction that took effect may run once more.     *)
(* The pot is the seed and a few shards that most transactions only         *)
(* increment, unread.                                                       *)
(***************************************************************************)
EXTENDS Chips

CONSTANTS
  Request,                \* how many requests may be in flight at once
  Nobody,
  HandIdsOf, GiftIdsOf,   \* the ids each player's client makes
  GiftAmount,             \* amounts a client asks to send
  Claim,                  \* the claims clients make: a subset of ClaimKind
  Shard,                  \* 0 .. JACKPOT_SHARDS - 1
  shardFor,               \* a hash of the hand's id
  MaxDay                  \* the run ends on this day

ClaimKind == {"daily_bonus", "bailout"}

ASSUME FirestoreAssumption ==
  /\ HandIdsOf \in [Player -> SUBSET HandId]
  /\ GiftIdsOf \in [Player -> SUBSET GiftId]
  /\ GiftAmount \subseteq Nat \ {0}
  /\ Claim \subseteq ClaimKind
  /\ IsFiniteSet(Shard) /\ shardFor \in [HandId -> Shard]
  /\ MaxDay \in Nat

VARIABLES
  players, ledger, hands, gifts, stats, hits,   \* collections
  activeHands,   \* the map of each player document; its keys are <<player, game>>
  shards,        \* hundredths of a chip added since the last hit
  phase, job,    \* per request
  writes,        \* what its attempt will write
  read,          \* the map activeHands as its attempt read it
  stale,         \* has somebody written what its attempt read
  today

documents == <<players, ledger, hands, gifts, stats, hits, activeHands, shards>>
attempts  == <<phase, job, writes, read, stale>>
vars      == <<documents, attempts, today>>

NoJob    == [op |-> "none"]
NoWrites == Draft(NoRows)

potOf == JackpotSeed + SumFunctionOnSet(shards, Shard)

Init ==
  /\ players = NoRows /\ ledger = NoRows /\ hands = NoRows
  /\ gifts = NoRows /\ stats = NoRows /\ hits = NoRows
  /\ activeHands = NoRows
  /\ shards = [s \in Shard |-> 0]
  /\ phase = [r \in Request |-> "idle"]
  /\ job = [r \in Request |-> NoJob]
  /\ writes = [r \in Request |-> NoWrites]
  /\ read = [r \in Request |-> NoRows]
  /\ stale = [r \in Request |-> FALSE]
  /\ today = 0

------------------------------------------------------------------------------
(* Requests arrive, with all that is drawn or read before the transaction.  *)

(* ensurePlayer: one document read, and it and its opening row created.     *)
ensurePlayer(p) ==
  /\ p \notin DOMAIN players
  /\ players' = Overlay(players, NewPlayer(p).players)
  /\ ledger' = Overlay(ledger, NewPlayer(p).ledger)
  /\ UNCHANGED <<hands, gifts, stats, hits, activeHands, shards, attempts, today>>

Arrive(r, j) ==
  /\ phase[r] = "idle"
  /\ j.user \in DOMAIN players
  /\ phase' = [phase EXCEPT ![r] = "ready"]
  /\ job' = [job EXCEPT ![r] = j]
  /\ UNCHANGED <<documents, writes, read, stale, today>>

PostHands(r) ==
  \E p \in Player, g \in Game :
    \E h \in HandIdsOf[p], s \in Deals[g] :
      Arrive(r, [op |-> "start", user |-> p, hand |-> h, game |-> g, dealt |-> s])

PostAction(r) ==
  \E p \in Player, h \in DOMAIN hands, a \in ActionType :
    \E v \in 0 .. hands[h].version :
      Arrive(r, [op |-> "act", user |-> p, hand |-> h, version |-> v, action |-> a])

PostClaim(r) ==
  \E p \in Player, kind \in Claim : Arrive(r, [op |-> kind, user |-> p, day |-> today])

PostGift(r) ==
  \E p \in Player, n \in GiftAmount :
    \E q \in DOMAIN players \ {p}, id \in GiftIdsOf[p] :
      Arrive(r, [op |-> "gift", user |-> p, to |-> q, gift |-> id, amount |-> n, day |-> today])

------------------------------------------------------------------------------
(* Documents read and written.                                              *)

PlayerDoc(p) == <<"player", p>>
HandDoc(h)   == <<"hand", h>>
StatsDoc(p, g) == <<"stats", p, g>>
GiftDoc(id)  == <<"gift", id>>
ShardDoc(s)  == <<"shard", s>>

PlayersOf(j) == IF j.op = "gift" THEN {j.user, j.to} ELSE {j.user}

HandDocs(w) ==
  UNION {{HandDoc(h), StatsDoc(w.hands[h].user, w.hands[h].game)} : h \in DOMAIN w.hands}
GiftDocs(w) == {GiftDoc(id) : id \in DOMAIN w.gifts}
PotDocs     == {ShardDoc(s) : s \in Shard}

(* Mutant: the receiver is looked up before the transaction.                *)
ReadsSender(r) ==
  {PlayerDoc(job[r].user)} \cup HandDocs(writes[r]) \cup GiftDocs(writes[r])
    \cup (IF phase[r] = "paid" THEN PotDocs ELSE {})

(* Mutant: a hit reads the pot outside its transaction.                     *)
ReadsNoShards(r) ==
  {PlayerDoc(p) : p \in PlayersOf(job[r])} \cup HandDocs(writes[r]) \cup GiftDocs(writes[r])

(* What r's attempt has read: all that it replaces, and for a hit the       *)
(* shards.  A plain contribution does not read its shard.                   *)
Reads(r) ==
  {PlayerDoc(p) : p \in PlayersOf(job[r])} \cup HandDocs(writes[r]) \cup GiftDocs(writes[r])
    \cup (IF phase[r] = "paid" THEN PotDocs ELSE {})

ShardsWritten(w, j) ==
  IF w.hit THEN Shard ELSE IF w.contribution > 0 THEN {shardFor[j.hand]} ELSE {}

Written(r) ==
  LET w == writes[r] IN
    {PlayerDoc(p) : p \in DOMAIN w.players} \cup HandDocs(w) \cup GiftDocs(w)
      \cup {ShardDoc(s) : s \in ShardsWritten(w, job[r])}

------------------------------------------------------------------------------
(* An attempt: the reads and the pure step.                                 *)

(* The maps of these players' documents.                                    *)
OfPlayers(map, P) == [k \in {k \in DOMAIN map : k[1] \in P} |-> map[k]]

Attempting(r) == phase[r] \in {"planned", "paid"}

Plan(r, w) ==
  /\ phase' = [phase EXCEPT ![r] = "planned"]
  /\ writes' = [writes EXCEPT ![r] = w]
  /\ read' = [read EXCEPT ![r] = OfPlayers(activeHands, {job[r].user})]
  /\ UNCHANGED <<documents, job, stale, today>>

StatsOf(p, g) == IF <<p, g>> \in DOMAIN stats THEN stats[<<p, g>>] ELSE NoStats

(* Mutant: a start that runs again plays again.                             *)
StartAllowedAgain(j) ==
  /\ <<j.user, j.game>> \notin DOMAIN activeHands
  /\ Affords(players[j.user], -j.dealt.staked)

StartAllowed(j) ==
  /\ j.hand \notin DOMAIN hands
  /\ <<j.user, j.game>> \notin DOMAIN activeHands
  /\ Affords(players[j.user], -j.dealt.staked)

NextStates(j) == IF j.hand \in DOMAIN hands THEN Act[<<hands[j.hand].state, j.action>>] ELSE {}

ActionAllowed(j, t) ==
  LET hand == hands[j.hand] IN
    /\ hand.user = j.user
    /\ hand.version = j.version
    /\ hand.status = "active"
    /\ ExtraStake(hand, t) > 0 => Affords(players[j.user], -ExtraStake(hand, t))

GiftRowOf(j) == [from |-> j.user, to |-> j.to, amount |-> j.amount,
                 senderDay |-> j.day, utcDay |-> j.day]

SendAllowed(j) ==
  /\ j.gift \notin DOMAIN gifts
  /\ GiftAllowed(players[j.user], players[j.to], GiftRowOf(j))

PlanStart(r) ==
  LET j == job[r] IN
    /\ phase[r] = "ready" /\ j.op = "start"
    /\ StartAllowed(j)
    /\ Plan(r, StartWrites(j.user, players[j.user], j.hand, j.game, j.dealt, StatsOf(j.user, j.game)))

PlanAction(r) ==
  LET j == job[r] IN
    /\ phase[r] = "ready" /\ j.op = "act"
    /\ \E t \in NextStates(j) :
         /\ ActionAllowed(j, t)
         /\ Plan(r, ActionWrites(players[j.user], j.hand, hands[j.hand], t,
                                 StatsOf(j.user, hands[j.hand].game)))

PlanClaim(r) ==
  LET j == job[r]
      row == players[j.user]
  IN
    /\ phase[r] = "ready"
    /\ \/ /\ j.op = "daily_bonus" /\ DailyAllowed(row, j.day)
          /\ Plan(r, DailyWrites(j.user, row, j.day))
       \/ /\ j.op = "bailout" /\ BailoutAllowed(row, j.day)
          /\ Plan(r, BailoutWrites(j.user, row, j.day))

PlanGift(r) ==
  LET j == job[r] IN
    /\ phase[r] = "ready" /\ j.op = "gift"
    /\ SendAllowed(j)
    /\ Plan(r, GiftWrites(players[j.user], players[j.to], j.gift, GiftRowOf(j)))

(* A hit reads the shards after its step, before any write.                 *)
ReadPot(r) ==
  /\ phase[r] = "planned" /\ writes[r].hit
  /\ phase' = [phase EXCEPT ![r] = "paid"]
  /\ writes' = [writes EXCEPT ![r] = PayJackpot(writes[r], job[r].user, job[r].hand, potOf)]
  /\ UNCHANGED <<documents, job, read, stale, today>>

End(r) ==
  /\ phase' = [phase EXCEPT ![r] = "idle"]
  /\ job' = [job EXCEPT ![r] = NoJob]
  /\ writes' = [writes EXCEPT ![r] = NoWrites]
  /\ read' = [read EXCEPT ![r] = NoRows]

Again(r) ==
  /\ phase' = [phase EXCEPT ![r] = "ready"]
  /\ writes' = [writes EXCEPT ![r] = NoWrites]
  /\ read' = [read EXCEPT ![r] = NoRows]
  /\ UNCHANGED job

(* The step throws, or answers a repeated start or gift: nothing is written. *)
Answer(r) ==
  LET j == job[r] IN
    /\ phase[r] = "ready"
    /\ j.op = "start" => ~StartAllowed(j)
    /\ j.op = "act" => \A t \in NextStates(j) : ~ActionAllowed(j, t)
    /\ j.op = "daily_bonus" => ~DailyAllowed(players[j.user], j.day)
    /\ j.op = "bailout" => ~BailoutAllowed(players[j.user], j.day)
    /\ j.op = "gift" => ~SendAllowed(j)
    /\ End(r)
    /\ UNCHANGED <<documents, stale, today>>

------------------------------------------------------------------------------
(* Its end.                                                                 *)

ActiveIn(w) == {h \in DOMAIN w.hands : w.hands[h].status = "active"}
KeyOf(w, h) == <<w.hands[h].user, w.hands[h].game>>

(* Mutant: a settled hand stays in the map.                                 *)
ActiveAfterKept(w, map) ==
  Overlay(map, [k \in {KeyOf(w, h) : h \in ActiveIn(w)} |-> CHOOSE h \in ActiveIn(w) : KeyOf(w, h) = k])

(* applyHandWrites: an active hand is put in its player's map, a settled    *)
(* one is taken out if it is the one there.                                 *)
ActiveAfter(w, map) ==
  LET kept == {k \in DOMAIN map : map[k] \notin DOMAIN w.hands \ ActiveIn(w)}
  IN Overlay([k \in kept |-> map[k]],
             [k \in {KeyOf(w, h) : h \in ActiveIn(w)} |-> CHOOSE h \in ActiveIn(w) : KeyOf(w, h) = k])

(* tx.create refuses a document that is there.                              *)
CreateFails(w) ==
  \/ DOMAIN w.ledger \cap DOMAIN ledger # {}
  \/ DOMAIN w.gifts \cap DOMAIN gifts # {}
  \/ DOMAIN w.hits \cap DOMAIN hits # {}

ReadyToCommit(r) == phase[r] = "paid" \/ (phase[r] = "planned" /\ ~writes[r].hit)

(* The commit takes effect; the answer reaches the library or is lost.      *)
Commit(r) ==
  LET w == writes[r] IN
    /\ ReadyToCommit(r)
    /\ ~stale[r]
    /\ ~CreateFails(w)
    /\ players' = Overlay(players, w.players)
    /\ ledger' = Overlay(ledger, w.ledger)
    /\ hands' = Overlay(hands, w.hands)
    /\ gifts' = Overlay(gifts, w.gifts)
    /\ stats' = Overlay(stats, w.stats)
    /\ hits' = Overlay(hits, w.hits)
    /\ activeHands' =
         IF w.hands = NoRows THEN activeHands
         ELSE Overlay(OfPlayers(activeHands, Player \ {job[r].user}), ActiveAfter(w, read[r]))
    /\ shards' = [s \in Shard |->
                    IF w.hit THEN 0
                    ELSE IF s \in ShardsWritten(w, job[r]) THEN shards[s] + w.contribution
                    ELSE shards[s]]
    /\ stale' = [q \in Request |->
                   /\ q # r
                   /\ stale[q] \/ (Attempting(q) /\ Reads(q) \cap Written(r) # {})]
    /\ End(r) \/ Again(r)
    /\ UNCHANGED today

(* Contention (writers that are not in this module too: a new name, the     *)
(* listing, equipment), or a failure the library takes for a passing one.   *)
Rerun(r) ==
  /\ Attempting(r)
  /\ Again(r)
  /\ stale' = [stale EXCEPT ![r] = FALSE]
  /\ UNCHANGED <<documents, today>>

(* A lasting failure, the attempts are used up, or the process dies.        *)
Fail(r) ==
  /\ phase[r] # "idle"
  /\ End(r)
  /\ stale' = [stale EXCEPT ![r] = FALSE]
  /\ UNCHANGED <<documents, today>>

Tomorrow ==
  /\ today < MaxDay
  /\ \A r \in Request : phase[r] = "idle"
  /\ today' = today + 1
  /\ UNCHANGED <<documents, attempts>>

Next ==
  \/ \E p \in Player : ensurePlayer(p)
  \/ \E r \in Request :
       \/ PostHands(r) \/ PostAction(r) \/ PostClaim(r) \/ PostGift(r)
       \/ PlanStart(r) \/ PlanAction(r) \/ PlanClaim(r) \/ PlanGift(r)
       \/ ReadPot(r) \/ Answer(r) \/ Commit(r) \/ Rerun(r) \/ Fail(r)
  \/ Tomorrow

Spec == Init /\ [][Next]_vars

------------------------------------------------------------------------------
(* Safety.                                                                  *)

(* The player's map and the hands agree: it names each active hand under    *)
(* its game, and nothing else.  So the map does what a unique index does on *)
(* Postgres: no player has two active hands of a game, and no settled hand  *)
(* keeps a game occupied (firestore.ts:28-31).                              *)
ActiveHandsAgree ==
  /\ \A k \in DOMAIN activeHands :
       LET h == activeHands[k] IN
         h \in DOMAIN hands /\ hands[h].status = "active" /\ k = <<hands[h].user, hands[h].game>>
  /\ \A h \in DOMAIN hands : hands[h].status = "active" =>
       LET k == <<hands[h].user, hands[h].game>> IN k \in DOMAIN activeHands /\ activeHands[k] = h

(* An attempt whose reads still hold never meets one of the documents it    *)
(* creates: a ledger number, a gift or a hit that is taken would refuse a   *)
(* request that is in its right (firestore.ts:36-38).                       *)
CreatesSucceed ==
  \A r \in Request : ReadyToCommit(r) /\ ~stale[r] => ~CreateFails(writes[r])

(* Every hundredth that settled hands added is in a shard or was paid, less *)
(* the fraction each hit rounds down, although contributions commit to      *)
(* single shards, unread, while a hit reads and zeroes them all, and        *)
(* although either may run again after it took effect (firestore.ts:54-59). *)
ShardsBalance == PotExplained(hands, hits, potOf)

------------------------------------------------------------------------------
(* The same book of chips as on Postgres.                                   *)

NetOf(h) ==
  IF hands[h].status = "settled"
  THEN hands[h].returned + (IF h \in DOMAIN hits THEN hits[h] ELSE 0) - hands[h].wagered
  ELSE hands[h].state.paidEarly - hands[h].wagered

BookHand(h) ==
  IF h \in DOMAIN hands
  THEN [player |-> hands[h].user, closed |-> hands[h].status = "settled", net |-> NetOf(h)]
  ELSE [player |-> Nobody, closed |-> FALSE, net |-> 0]

Book == INSTANCE ChipBook WITH
          balance <- [p \in DOMAIN players |-> players[p].balance],
          hand    <- [h \in HandId |-> BookHand(h)],
          pot     <- potOf

(* Attempts that lock nothing, are thrown away, or run again after they     *)
(* took effect, change the documents as the book of chips changes: each     *)
(* request at most once (firestore.ts:67-68, "contention retries are safe"; *)
(* repo/types.ts:26-28).                                                    *)
ImplementsBook == Book!Spec
==============================================================================
