----------------------- MODULE ChipsFirestoreInvariant -----------------------
(***************************************************************************)
(* Why ChipsFirestore is right without a lock: the inductive invariant      *)
(* behind its safety properties.  An attempt nobody has disturbed (Current)    *)
(* planned from the documents as they are now, because whoever changes one  *)
(* that it read makes it stale; of a stale attempt nothing is known, and    *)
(* nothing is needed.                                                       *)
(***************************************************************************)
EXTENDS ChipsFirestore, ChipsPlans

StartJob == [op: {"start"}, user: Player, hand: HandId, game: Game, dealt: EngineState]
ActJob   == [op: {"act"}, user: Player, hand: HandId, version: Nat, action: ActionType]
ClaimJob == [op: ClaimKind, user: Player, day: Day]
GiftJob  == [op: {"gift"}, user: Player, to: Player, gift: GiftId, amount: Nat, day: Day]
Job      == StartJob \cup ActJob \cup ClaimJob \cup GiftJob

TypeOK ==
  /\ IsTable(players, Player, PlayerRow)
  /\ IsTable(ledger, Player \X Nat, Entry)
  /\ IsTable(hands, HandId, HandRow)
  /\ IsTable(gifts, GiftId, GiftRow)
  /\ IsTable(stats, Player \X Game, StatsRow)
  /\ IsTable(hits, HandId, Nat)
  /\ IsTable(activeHands, Player \X Game, HandId)
  /\ shards \in [Shard -> Nat]
  /\ phase \in [Request -> {"idle", "ready", "planned", "paid"}]
  /\ job \in [Request -> Job \cup {NoJob}]
  /\ DOMAIN writes = Request /\ DOMAIN read = Request
  /\ stale \in [Request -> BOOLEAN]
  /\ today \in Nat

(* A request in flight is for players who are there.                        *)
Asks(j) ==
  /\ j \in Job /\ PlayersOf(j) \subseteq DOMAIN players
  /\ j.op = "gift" => j.to # j.user /\ j.amount > 0

JobsAsk == \A r \in Request : phase[r] # "idle" => Asks(job[r])

Current(r) == Attempting(r) /\ ~stale[r]

NetSoFar(h) == IF h \in DOMAIN hands THEN NetOf(h) ELSE 0

(* What an attempt will write for a hand: the hand is new where its game is *)
(* free, or the next state of the stored one, still active; it moves what   *)
(* the balance does; and its jackpot is the pot as it still is.             *)
HandFits(w, j, map) ==
  LET h == j.hand IN
    /\ DOMAIN w.hands = {h} /\ w.hands[h].user = j.user /\ DOMAIN w.gifts = {}
    /\ h \in DOMAIN hands => /\ hands[h].user = j.user
                             /\ hands[h].game = w.hands[h].game
                             /\ hands[h].status = "active"
    /\ h \notin DOMAIN hands => <<j.user, w.hands[h].game>> \notin DOMAIN map
    /\ w.contribution = PlannedFeed(w, h)
    /\ w.hit => w.hands[h].status = "settled"
    /\ w.players[j.user].balance - players[j.user].balance = PlannedNet(w, h) - NetSoFar(h)

HitFits(w, h, at) ==
  IF at = "paid" THEN w.hit /\ w.hits = Row(h, (potOf + w.contribution) \div 100)
  ELSE DOMAIN w.hits = {}

NoHand(w) == DOMAIN w.hands = {} /\ DOMAIN w.hits = {} /\ ~w.hit /\ w.contribution = 0

ClaimFits(w, j) ==
  /\ NoHand(w) /\ DOMAIN w.gifts = {}
  /\ w.players[j.user].balance >= players[j.user].balance

GiftFits(w, j) ==
  /\ NoHand(w) /\ DOMAIN w.gifts = {j.gift} /\ j.gift \notin DOMAIN gifts
  /\ w.players[j.user].balance = players[j.user].balance - j.amount
  /\ w.players[j.to].balance = players[j.to].balance + j.amount

PlanFits(w, j, map, at) ==
  /\ IsWrites(w) /\ LedgerFits(w, players) /\ DOMAIN w.players = PlayersOf(j)
  /\ map = OfPlayers(activeHands, {j.user})
  /\ j.op \in {"start", "act"} => HandFits(w, j, map) /\ HitFits(w, j.hand, at)
  /\ j.op \in ClaimKind => ClaimFits(w, j) /\ at # "paid"
  /\ j.op = "gift" => GiftFits(w, j) /\ at # "paid"

PlansFit == \A r \in Request : Current(r) => PlanFits(writes[r], job[r], read[r], phase[r])

(* Jackpots were won by settled hands.                                      *)
HitsSettled == \A h \in DOMAIN hits : h \in DOMAIN hands /\ hands[h].status = "settled"

IInv ==
  /\ TypeOK
  /\ JobsAsk
  /\ PlansFit
  /\ HitsSettled
  /\ ActiveHandsAgree
  /\ Explains(ledger, players)

(* What the sums need beside it.                                            *)
PotInv == IsFiniteSet(DOMAIN hands) /\ IsFiniteSet(DOMAIN hits) /\ ShardsBalance
==============================================================================
