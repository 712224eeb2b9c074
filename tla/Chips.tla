-------------------------------- MODULE Chips --------------------------------
(***************************************************************************)
(* Highroller's chip economy as pure rules: what one transaction reads, and *)
(* the rows it then writes.  These are the steps of economy.ts, hands.ts,   *)
(* settle.ts and jackpot.ts, which both repositories run inside their own   *)
(* transaction (ChipsPostgres is the Postgres one).                         *)
(*                                                                         *)
(* A game is only its contract (games/engine.ts): the states its engine can *)
(* deal and reach, with the money facts the lifecycle reads off a state.    *)
(* Chips that are not chips (xp, quests, the feed, the weekly board) are    *)
(* left to their own modules.                                               *)
(***************************************************************************)
EXTENDS Integers, FiniteSets, Functions

CONSTANTS
  Player,           \* user ids, ordered as Postgres orders them
  HandId, GiftId,   \* ids the client makes
  Game,             \* the registry's games
  NoRef,            \* a ledger row that refers to nothing
  EngineState,      \* every state of every engine
  ActionType,
  Deals,            \* Deals[g]: what engine g can deal for acceptable bets
  Act,              \* Act[<<s, a>>]: the next state, or {} when a is not legal in s
  StartingBalance, DailyBonusBase, DailyStreakCap, BailoutFloor, BailoutTopUp,
  GiftSendLimit, GiftReceiveLimit,
  JackpotSeed       \* in hundredths of a chip, the pot's unit

(* What the lifecycle asks an engine about a state (engine.ts:30-67).  The  *)
(* settlement and the summary are only read once the state is finished.     *)
EngineView == [staked: Nat, paidEarly: Nat, finished: BOOLEAN, returned: Nat,
               jackpotStake: Nat, jackpotEligible: BOOLEAN]

ASSUME PlayerAssumption == Player \subseteq Nat

ASSUME EconomyAssumption ==
  /\ StartingBalance \in Nat /\ DailyBonusBase \in Nat /\ DailyStreakCap \in Nat
  /\ BailoutFloor \in Nat /\ BailoutTopUp \in Nat /\ BailoutFloor <= BailoutTopUp
  /\ GiftSendLimit \in Nat /\ GiftReceiveLimit \in Nat /\ JackpotSeed \in Nat

(* The engine contract: legalActions is empty once the hand is finished,    *)
(* neither staked ("total chips wagered on the hand so far") nor paidEarly  *)
(* ever falls, and settle counts paidEarly in what it returns.              *)
ASSUME EngineAssumption ==
  /\ EngineState \subseteq EngineView
  /\ Deals \in [Game -> SUBSET EngineState]
  /\ Act \in [EngineState \X ActionType -> SUBSET EngineState]
  /\ \A s \in EngineState :
       /\ s.finished => s.paidEarly <= s.returned
       /\ \A a \in ActionType : \A t \in Act[<<s, a>>] :
            ~s.finished /\ s.staked <= t.staked /\ s.paidEarly <= t.paidEarly

Day   == Nat
NoDay == -2      \* a claim or a gift never made; not the day before any day
Ref   == HandId \cup Player \cup Day \cup {NoRef}
Kind  == {"initial_grant", "bet", "payout", "daily_bonus", "bailout",
          "gift_in", "gift_out", "jackpot"}

PlayerRow ==
  [balance: Nat, ledgerSeq: Nat,
   dailyStreak: Nat, lastDailyOn: Day \cup {NoDay}, lastBailoutOn: Day \cup {NoDay},
   giftsSentToday: Nat, giftsSentOn: Day \cup {NoDay},
   giftsReceivedToday: Nat, giftsReceivedOn: Day \cup {NoDay}]

(* One row of the ledger; its key is <<user, seq>>.                         *)
Entry == [kind: Kind, amount: Int, balanceAfter: Nat, ref: Ref]

HandRow == [user: Player, game: Game, status: {"active", "settled"}, version: Nat,
            state: EngineState, wagered: Nat, returned: Nat]

(* createdAt is kept as the two days the caps count by.                     *)
GiftRow == [from: Player, to: Player, amount: Nat, senderDay: Day, utcDay: Day]

StatsRow == [hands: Nat, wagered: Nat, returned: Nat]
NoStats  == [hands |-> 0, wagered |-> 0, returned |-> 0]

(* A table is a function from the keys of its rows.                         *)
IsTable(t, K, R) == DOMAIN t \subseteq K /\ t \in [DOMAIN t -> R]
NoRows         == [k \in {} |-> k]
Row(k, v)      == [x \in {k} |-> v]
Put(t, k, v)   == [x \in DOMAIN t \cup {k} |-> IF x = k THEN v ELSE t[x]]
Overlay(t, u)  == [x \in DOMAIN t \cup DOMAIN u |-> IF x \in DOMAIN u THEN u[x] ELSE t[x]]

(* What a transaction will write: the rows it replaces or adds in each      *)
(* table, and what its hand does to the jackpot.                            *)
Draft(rows) == [players |-> rows, ledger |-> NoRows, hands |-> NoRows, gifts |-> NoRows,
                stats |-> NoRows, hits |-> NoRows, contribution |-> 0, hit |-> FALSE]

IsWrites(w) ==
  /\ w = [players |-> w.players, ledger |-> w.ledger, hands |-> w.hands, gifts |-> w.gifts,
          stats |-> w.stats, hits |-> w.hits, contribution |-> w.contribution, hit |-> w.hit]
  /\ IsTable(w.players, Player, PlayerRow)
  /\ IsTable(w.ledger, Player \X Nat, Entry)
  /\ IsTable(w.hands, HandId, HandRow)
  /\ IsTable(w.gifts, GiftId, GiftRow)
  /\ IsTable(w.stats, Player \X Game, StatsRow)
  /\ IsTable(w.hits, HandId, Nat)
  /\ w.contribution \in Nat
  /\ w.hit \in BOOLEAN

------------------------------------------------------------------------------
(* The ledger (economy.ts).                                                 *)

(* applyCreditTo answers null when this is false.                           *)
Affords(row, amount) == row.balance + amount >= 0

(* applyCreditTo: the balance and its ledger row always change together.    *)
Post(w, u, kind, amount, ref) ==
  LET row == w.players[u]
      seq == row.ledgerSeq + 1
  IN [w EXCEPT
        !.players = Put(w.players, u, [row EXCEPT !.balance = row.balance + amount, !.ledgerSeq = seq]),
        !.ledger  = Put(w.ledger, <<u, seq>>, [kind |-> kind, amount |-> amount,
                                               balanceAfter |-> row.balance + amount, ref |-> ref])]

BalanceAt(t, p, n) == IF n = 0 THEN 0 ELSE t[<<p, n>>].balanceAfter

(* A player's rows are numbered 1, 2, 3 without a gap, each starts from the *)
(* balance the one before it left, and the last one leaves the balance on   *)
(* the player row.                                                          *)
Explains(entries, rows) ==
  /\ \A k \in DOMAIN entries : k[1] \in DOMAIN rows /\ k[2] \in 1 .. rows[k[1]].ledgerSeq
  /\ \A p \in DOMAIN rows :
       /\ \A n \in 1 .. rows[p].ledgerSeq :
            /\ <<p, n>> \in DOMAIN entries
            /\ entries[<<p, n>>].balanceAfter
                 = BalanceAt(entries, p, n - 1) + entries[<<p, n>>].amount
       /\ rows[p].balance = BalanceAt(entries, p, rows[p].ledgerSeq)

BlankPlayer ==
  [balance |-> 0, ledgerSeq |-> 0, dailyStreak |-> 0, lastDailyOn |-> NoDay, lastBailoutOn |-> NoDay,
   giftsSentToday |-> 0, giftsSentOn |-> NoDay, giftsReceivedToday |-> 0, giftsReceivedOn |-> NoDay]

NewPlayer(u) == Post(Draft(Row(u, BlankPlayer)), u, "initial_grant", StartingBalance, NoRef)

------------------------------------------------------------------------------
(* Hands (hands.ts, settle.ts).                                             *)

(* Mutant: what was paid early is paid again.                               *)
RestIsAll(s) == s.returned

RestToPay(s) == s.returned - s.paidEarly

(* Mutant: the statistics count the last payout, not the whole return.      *)
FoldedRest(stats, hand) ==
  [hands    |-> stats.hands + 1,
   wagered  |-> stats.wagered + hand.wagered,
   returned |-> stats.returned + RestToPay(hand.state)]

Folded(stats, hand) ==
  [hands    |-> stats.hands + 1,
   wagered  |-> stats.wagered + hand.wagered,
   returned |-> stats.returned + hand.state.returned]

(* settleHand: pays what is left to pay, folds the stats, and says what the *)
(* hand does to the jackpot.                                                *)
SettleHand(w, h, hand, stats) ==
  LET s    == hand.state
      paid == IF RestToPay(s) > 0 THEN Post(w, hand.user, "payout", RestToPay(s), h) ELSE w
  IN [paid EXCEPT
        !.hands = Row(h, [hand EXCEPT !.status = "settled", !.returned = s.returned]),
        !.stats = Row(<<hand.user, hand.game>>, Folded(stats, hand)),
        !.contribution = 2 * s.jackpotStake,
        !.hit = s.jackpotEligible]

Finish(w, h, hand, stats) ==
  IF hand.state.finished THEN SettleHand(w, h, hand, stats)
  ELSE [w EXCEPT !.hands = Row(h, hand)]

(* planStart once nothing refuses it: the stake, what the deal already pays *)
(* back, and the new hand.                                                  *)
StartWrites(u, row, h, g, s, stats) ==
  LET bet   == Post(Draft(Row(u, row)), u, "bet", -s.staked, h)
      early == IF s.paidEarly > 0 THEN Post(bet, u, "payout", s.paidEarly, h) ELSE bet
      hand  == [user |-> u, game |-> g, status |-> "active", version |-> 0, state |-> s,
                wagered |-> s.staked, returned |-> 0]
  IN Finish(early, h, hand, stats)

ExtraStake(hand, t) == t.staked - hand.state.staked
ExtraEarly(hand, t) == t.paidEarly - hand.state.paidEarly

(* planAction once nothing refuses it, t being the engine's next state.     *)
ActionWrites(row, h, hand, t, stats) ==
  LET extra == ExtraStake(hand, t)
      none  == Draft(Row(hand.user, row))
      bet   == IF extra > 0 THEN Post(none, hand.user, "bet", -extra, h) ELSE none
      early == IF ExtraEarly(hand, t) > 0 THEN Post(bet, hand.user, "payout", ExtraEarly(hand, t), h)
               ELSE bet
      next  == [hand EXCEPT !.version = hand.version + 1, !.state = t,
                            !.wagered = IF extra > 0 THEN hand.wagered + extra ELSE hand.wagered]
  IN Finish(early, h, next, stats)

(* Every hundredth of a chip that settled hands add to the jackpot is still *)
(* in the pot or was paid; a hit only loses the fraction of a chip it       *)
(* rounds down (jackpot.ts).                                                *)
SettledIn(rows) == {h \in DOMAIN rows : rows[h].status = "settled"}
AddedBy(rows)   == [h \in DOMAIN rows |-> 2 * rows[h].state.jackpotStake]
PaidBy(won)     == [h \in DOMAIN won |-> 100 * won[h]]

PotExplained(rows, won, inPot) ==
  LET lost == JackpotSeed * (1 + Cardinality(DOMAIN won))
              + SumFunctionOnSet(AddedBy(rows), SettledIn(rows))
              - inPot - SumFunctionOnSet(PaidBy(won), DOMAIN won)
  IN lost \in 0 .. 99 * Cardinality(DOMAIN won)

(* payJackpot: a hit pays the pot as it was read, and its own contribution, *)
(* in whole chips.                                                          *)
PayJackpot(w, u, h, pot) ==
  LET amount == (pot + w.contribution) \div 100
  IN [Post(w, u, "jackpot", amount, h) EXCEPT !.hits = Row(h, amount)]

------------------------------------------------------------------------------
(* Claims and gifts (economy.ts).                                           *)

DailyAllowed(row, day) == row.lastDailyOn # day
(* Mutant: a missed day does not start the streak again.                    *)
StreakOnward(row, day) == row.dailyStreak + 1

StreakOn(row, day) == IF row.lastDailyOn = day - 1 THEN row.dailyStreak + 1 ELSE 1
BonusFor(streak) == DailyBonusBase * (IF streak < DailyStreakCap THEN streak ELSE DailyStreakCap)

(* Mutant: the claim's day is not kept.                                     *)
DailyWritesUndated(u, row, day) ==
  LET streak == StreakOn(row, day)
  IN Post(Draft(Row(u, [row EXCEPT !.dailyStreak = streak])), u, "daily_bonus", BonusFor(streak), day)

DailyWrites(u, row, day) ==
  LET streak == StreakOn(row, day)
      dated  == [row EXCEPT !.dailyStreak = streak, !.lastDailyOn = day]
  IN Post(Draft(Row(u, dated)), u, "daily_bonus", BonusFor(streak), day)

BailoutAllowed(row, day) == row.lastBailoutOn # day /\ row.balance < BailoutFloor

BailoutWrites(u, row, day) ==
  Post(Draft(Row(u, [row EXCEPT !.lastBailoutOn = day])), u, "bailout", BailoutTopUp - row.balance, day)

SentOn(row, day)     == IF row.giftsSentOn = day THEN row.giftsSentToday ELSE 0
(* Mutant: the receiver's counter is dated by what they last sent.          *)
ReceivedOnSent(row, day) == IF row.giftsSentOn = day THEN row.giftsReceivedToday ELSE 0

ReceivedOn(row, day) == IF row.giftsReceivedOn = day THEN row.giftsReceivedToday ELSE 0

(* Mutant: any balance the gift leaves is enough.                           *)
GiftAllowedToZero(from, to, g) ==
  /\ SentOn(from, g.senderDay) + g.amount <= GiftSendLimit
  /\ ReceivedOn(to, g.utcDay) + g.amount <= GiftReceiveLimit
  /\ Affords(from, -g.amount)

(* planGift's refusals, in order: the sender's cap, the receiver's, the     *)
(* bailout floor.                                                           *)
GiftAllowed(from, to, g) ==
  /\ SentOn(from, g.senderDay) + g.amount <= GiftSendLimit
  /\ ReceivedOn(to, g.utcDay) + g.amount <= GiftReceiveLimit
  /\ from.balance - g.amount >= BailoutFloor

(* Mutant: the receiver is credited from a draft without the sender's debit. *)
GiftWritesUndebited(from, to, id, g) ==
  LET sender   == [from EXCEPT !.giftsSentToday = SentOn(from, g.senderDay) + g.amount,
                               !.giftsSentOn = g.senderDay]
      receiver == [to EXCEPT !.giftsReceivedToday = ReceivedOn(to, g.utcDay) + g.amount,
                             !.giftsReceivedOn = g.utcDay]
      rows     == Put(Row(g.from, sender), g.to, receiver)
  IN [Post(Draft(rows), g.to, "gift_in", g.amount, g.from) EXCEPT !.gifts = Row(id, g)]

(* Mutant: the receiver is written as it was read, without the credit.      *)
GiftWritesUncredited(from, to, id, g) ==
  LET sender == [from EXCEPT !.giftsSentToday = SentOn(from, g.senderDay) + g.amount,
                             !.giftsSentOn = g.senderDay]
      rows   == Put(Row(g.from, sender), g.to, to)
  IN [Post(Draft(rows), g.from, "gift_out", -g.amount, g.to) EXCEPT !.gifts = Row(id, g)]

GiftWrites(from, to, id, g) ==
  LET sender   == [from EXCEPT !.giftsSentToday = SentOn(from, g.senderDay) + g.amount,
                               !.giftsSentOn = g.senderDay]
      receiver == [to EXCEPT !.giftsReceivedToday = ReceivedOn(to, g.utcDay) + g.amount,
                             !.giftsReceivedOn = g.utcDay]
      rows     == Put(Row(g.from, sender), g.to, receiver)
      out      == Post(Draft(rows), g.from, "gift_out", -g.amount, g.to)
  IN [Post(out, g.to, "gift_in", g.amount, g.from) EXCEPT !.gifts = Row(id, g)]
==============================================================================
