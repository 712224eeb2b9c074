---------------------------- MODULE ChipsAccounts ----------------------------
(***************************************************************************)
(* What the chip economy promises about money, as sums over its tables: the *)
(* accounts a bookkeeper would draw up from the ledger and the hands.  TLC  *)
(* checks these on small instances, ChipsAccountsProofs proves them.  A sum  *)
(* is over a column, a function of a table's keys.                          *)
(***************************************************************************)
EXTENDS ChipsInvariant, Functions

Amounts == [k \in DOMAIN ledger |-> ledger[k].amount]

(* The entries a hand makes, and no claim or gift does.                     *)
HandKind == {"bet", "payout", "jackpot"}
EntriesAt(h)    == {k \in DOMAIN ledger : ledger[k].kind \in HandKind /\ ledger[k].ref = h}
EntriesOf(p, h) == {k \in EntriesAt(h) : k[1] = p}

PaidByJackpot(h) == IF h \in DOMAIN hits THEN hits[h] ELSE 0

(* Each hand moves exactly its own chips, once, through its owner's ledger: *)
(* the stakes it took, what it has paid so far, and at the end its return   *)
(* and the jackpot it won.  Retries, double taps, lost connections and      *)
(* concurrent requests of the same player add nothing (hands.ts planStart,  *)
(* planAction, settle.ts settleHand).                                       *)
HandsBalance ==
  \A h \in DOMAIN hands :
    LET hand  == hands[h]
        moved == SumFunctionOnSet(Amounts, EntriesOf(hand.user, h))
        paid  == IF hand.status = "settled" THEN hand.returned + PaidByJackpot(h)
                 ELSE hand.state.paidEarly
    IN /\ moved = paid - hand.state.staked
       /\ \A p \in Player \ {hand.user} : EntriesOf(p, h) = {}

(* Every hundredth of a chip that hands add to the jackpot is either still  *)
(* in the pot or was paid, whatever hits and contributions settle at once;  *)
(* a hit only loses the fraction of a chip it rounds down (jackpot.ts).     *)
JackpotBalances == PotExplained(hands, hits, pot)

SettledHands == SettledIn(hands)
SettledOf(p, g) == {h \in SettledHands : hands[h].user = p /\ hands[h].game = g}
Wagered  == [h \in DOMAIN hands |-> hands[h].wagered]
Returned == [h \in DOMAIN hands |-> hands[h].returned]

(* A player's statistics are exactly their settled hands, each folded once  *)
(* (settle.ts gameStats).                                                   *)
StatsCountHands ==
  \A p \in Player, g \in Game :
    StatsOf(p, g) = [hands    |-> Cardinality(SettledOf(p, g)),
                     wagered  |-> SumFunctionOnSet(Wagered, SettledOf(p, g)),
                     returned |-> SumFunctionOnSet(Returned, SettledOf(p, g))]

GiftAmounts == [id \in DOMAIN gifts |-> gifts[id].amount]
GiftsFrom(p) == {id \in DOMAIN gifts : gifts[id].from = p}
GiftsTo(p)   == {id \in DOMAIN gifts : gifts[id].to = p}
EntriesOfKind(p, kind) == {k \in DOMAIN ledger : k[1] = p /\ ledger[k].kind = kind}

(* A gift moves its amount once from its sender to its receiver: what the   *)
(* ledgers show leaving and arriving is what the gifts table says, however  *)
(* often a gift id is sent (economy.ts planGift).                           *)
GiftsBalance ==
  \A p \in Player :
    /\ SumFunctionOnSet(Amounts, EntriesOfKind(p, "gift_out")) = -SumFunctionOnSet(GiftAmounts, GiftsFrom(p))
    /\ SumFunctionOnSet(Amounts, EntriesOfKind(p, "gift_in")) = SumFunctionOnSet(GiftAmounts, GiftsTo(p))

SentInDay(p, d)     == {id \in GiftsFrom(p) : gifts[id].senderDay = d}
ReceivedInDay(p, d) == {id \in GiftsTo(p) : gifts[id].utcDay = d}

(* No player sends or receives more than the day's limit, the sender's day  *)
(* for one and the UTC day for the other (economy.ts GIFT_SEND_LIMIT and    *)
(* GIFT_RECEIVE_LIMIT).                                                     *)
GiftCaps ==
  \A p \in Player :
    /\ \A d \in {gifts[id].senderDay : id \in DOMAIN gifts} :
         SumFunctionOnSet(GiftAmounts, SentInDay(p, d)) <= GiftSendLimit
    /\ \A d \in {gifts[id].utcDay : id \in DOMAIN gifts} :
         SumFunctionOnSet(GiftAmounts, ReceivedInDay(p, d)) <= GiftReceiveLimit

(* The days on which a player was paid a daily bonus, and how long a run of *)
(* consecutive ones ends on day d.                                          *)
BonusDays(p) == {ledger[k].ref : k \in EntriesOfKind(p, "daily_bonus")}
RunEnding(p, d) == Cardinality({m \in BonusDays(p) : m .. d \subseteq BonusDays(p) /\ m <= d})

(* "Claiming on consecutive days grows the streak; missing a day starts it  *)
(* again from 1" (economy.ts:47-48): every bonus in the ledger is the one   *)
(* its run of days has earned, although the row keeps only a counter and    *)
(* the last day.                                                            *)
StreaksPayRuns ==
  \A p \in Player : \A k \in EntriesOfKind(p, "daily_bonus") :
    ledger[k].amount = BonusFor(RunEnding(p, ledger[k].ref))

------------------------------------------------------------------------------
(* Why the accounts balance: what each plan tells them while its request    *)
(* holds its locks, and what each table keeps of the entries behind it.     *)
(* ChipsAccountsProofs shows this inductive, beside IInv.                   *)

RowFields == {"balance", "ledgerSeq", "dailyStreak", "lastDailyOn", "lastBailoutOn",
              "giftsSentToday", "giftsSentOn", "giftsReceivedToday", "giftsReceivedOn"}

Whole(w, u) ==
  /\ DOMAIN w = {"players", "ledger", "hands", "gifts", "stats", "hits", "contribution", "hit"}
  /\ u \in DOMAIN w.players /\ DOMAIN w.players[u] = RowFields

SameClaims(row, old) == /\ row.dailyStreak = old.dailyStreak /\ row.lastDailyOn = old.lastDailyOn
                        /\ row.lastBailoutOn = old.lastBailoutOn
SameSent(row, old) == row.giftsSentToday = old.giftsSentToday /\ row.giftsSentOn = old.giftsSentOn
SameReceived(row, old) == row.giftsReceivedToday = old.giftsReceivedToday
                          /\ row.giftsReceivedOn = old.giftsReceivedOn
SameDays(row, old) == SameClaims(row, old) /\ SameSent(row, old) /\ SameReceived(row, old)

(* A hand's plan: entries of that hand alone, and, when it settles, one     *)
(* more hand in the statistics and its share for the pot.                   *)
HandEntries(w, h) == \A k \in DOMAIN w.ledger : w.ledger[k].ref = h /\ w.ledger[k].kind \in HandKind

Counted(tally, hand) == [hands    |-> tally.hands + 1,
                         wagered  |-> tally.wagered + hand.wagered,
                         returned |-> tally.returned + hand.returned]

Settles(w, h, tally) ==
  IF w.hands[h].status = "settled"
  THEN /\ w.contribution = 2 * w.hands[h].state.jackpotStake
       /\ w.stats = Row(<<w.hands[h].user, w.hands[h].game>>, Counted(tally, w.hands[h]))
  ELSE w.contribution = 0 /\ DOMAIN w.stats = {}

HandTells(w, u, h, row) ==
  /\ Whole(w, u) /\ HandEntries(w, h) /\ DOMAIN w.gifts = {} /\ SameDays(w.players[u], row)
  /\ DOMAIN w.hands = {h}

HandPlanned(w, j) ==
  /\ HandTells(w, j.user, j.hand, players[j.user])
  /\ Settles(w, j.hand, StatsOf(j.user, w.hands[j.hand].game))
  /\ w.hands[j.hand].wagered = w.hands[j.hand].state.staked

NextKey(p) == <<p, players[p].ledgerSeq + 1>>
NoHand(w)  == DOMAIN w.hands = {} /\ DOMAIN w.stats = {} /\ DOMAIN w.hits = {} /\ w.contribution = 0

(* A claim's plan: one entry, for a day the row did not have yet.           *)
ClaimPlanned(w, j) ==
  LET row == players[j.user]
      to  == w.players[j.user]
      key == NextKey(j.user)
  IN /\ NoHand(w) /\ DOMAIN w.gifts = {} /\ SameSent(to, row) /\ SameReceived(to, row)
     /\ DOMAIN w.ledger = {key} /\ w.ledger[key].kind = j.op /\ w.ledger[key].ref = j.day
     /\ j.op = "daily_bonus" =>
          /\ row.lastDailyOn # j.day /\ to.lastDailyOn = j.day /\ to.lastBailoutOn = row.lastBailoutOn
          /\ to.dailyStreak = StreakOn(row, j.day) /\ w.ledger[key].amount = BonusFor(to.dailyStreak)
     /\ j.op = "bailout" =>
          /\ row.lastBailoutOn # j.day /\ to.lastBailoutOn = j.day
          /\ to.lastDailyOn = row.lastDailyOn /\ to.dailyStreak = row.dailyStreak

(* A gift's plan: one entry for each of its two players, counted in their   *)
(* day's caps, which leave room for it.                                     *)
Counts(sender, receiver, from, to, g) ==
  /\ SameClaims(sender, from) /\ SameReceived(sender, from)
  /\ sender.giftsSentToday = SentOn(from, g.senderDay) + g.amount /\ sender.giftsSentOn = g.senderDay
  /\ SameClaims(receiver, to) /\ SameSent(receiver, to)
  /\ receiver.giftsReceivedToday = ReceivedOn(to, g.utcDay) + g.amount
  /\ receiver.giftsReceivedOn = g.utcDay

GiftPlanned(w, j) ==
  LET from == players[j.user]
      to   == players[j.to]
      out  == NextKey(j.user)
      in   == NextKey(j.to)
      g    == GiftRowOf(j)
  IN /\ NoHand(w) /\ w.gifts = Row(j.gift, g)
     /\ DOMAIN w.ledger = {out, in}
     /\ w.ledger[out].kind = "gift_out" /\ w.ledger[out].amount = -g.amount /\ w.ledger[out].ref = j.to
     /\ w.ledger[in].kind = "gift_in" /\ w.ledger[in].amount = g.amount /\ w.ledger[in].ref = j.user
     /\ Counts(w.players[j.user], w.players[j.to], from, to, g)
     /\ SentOn(from, g.senderDay) + g.amount <= GiftSendLimit
     /\ ReceivedOn(to, g.utcDay) + g.amount <= GiftReceiveLimit

(* A hit pays the pot as it still is.                                       *)
HitPlanned(r) ==
  phase[r] = "jackpot" => /\ writes[r].hit
                          /\ writes[r].hits = Row(job[r].hand, (pot + writes[r].contribution) \div 100)

AccountPlanned(r) ==
  /\ job[r].op \in {"start", "act"} => HandPlanned(writes[r], job[r])
  /\ job[r].op \in ClaimKind => ClaimPlanned(writes[r], job[r])
  /\ job[r].op = "gift" => GiftPlanned(writes[r], job[r])
  /\ HitPlanned(r)

StakesStored == \A h \in DOMAIN hands : hands[h].wagered = hands[h].state.staked

AccountsFit == StakesStored /\ \A r \in Request : Planned(r) => AccountPlanned(r)

(* Every entry a hand made belongs to a stored hand of that player, and     *)
(* together they are what the hand has moved.                               *)
HandsAccount ==
  /\ \A k \in DOMAIN ledger : ledger[k].kind \in HandKind =>
       ledger[k].ref \in DOMAIN hands /\ hands[ledger[k].ref].user = k[1]
  /\ \A h \in HandId :
       SumFunctionOnSet(Amounts, EntriesAt(h)) = IF h \in DOMAIN hands THEN NetOf(h) ELSE 0

FiniteTables == /\ IsFiniteSet(DOMAIN ledger) /\ IsFiniteSet(DOMAIN hands)
                /\ IsFiniteSet(DOMAIN gifts) /\ IsFiniteSet(DOMAIN hits)

AccountsInv ==
  /\ AccountsFit /\ FiniteTables /\ HandsAccount
  /\ StatsCountHands /\ JackpotBalances /\ GiftsBalance
------------------------------------------------------------------------------
(* Why a calendar day's limits hold: while a request answers on the day it  *)
(* arrived and all clients keep one time zone, days only move on, and the   *)
(* player row's counters, each with the day it counts, say all that the     *)
(* tables have for that day.  (Over midnight or across zones a row that     *)
(* keeps one day forgets another: run midnight.)                      *)

OneCalendar == ~SlowRequests /\ \A y, z \in Zone : y = z

Past(d) == d = NoDay \/ \E z \in Zone : d <= DayIn(z)

JobsToday ==
  \A r \in Request :
    /\ job[r] \in ClaimJob => \E z \in Zone : job[r].day = DayIn(z)
    /\ job[r] \in GiftJob => /\ \E z \in Zone : job[r].senderDay = DayIn(z)
                            /\ job[r].utcDay = DayIn(0)

DaysPast ==
  \A p \in DOMAIN players :
    LET row == players[p] IN
      /\ Past(row.lastDailyOn) /\ Past(row.lastBailoutOn) /\ Past(row.giftsSentOn)
      /\ row.giftsReceivedOn <= DayIn(0)

GiftsCounted ==
  /\ \A id \in DOMAIN gifts : /\ gifts[id].from \in DOMAIN players /\ gifts[id].to \in DOMAIN players
                            /\ gifts[id].senderDay <= players[gifts[id].from].giftsSentOn
                            /\ gifts[id].utcDay <= players[gifts[id].to].giftsReceivedOn
  /\ \A p \in DOMAIN players :
       LET row == players[p] IN
         /\ SumFunctionOnSet(GiftAmounts, SentInDay(p, row.giftsSentOn)) = row.giftsSentToday
         /\ SumFunctionOnSet(GiftAmounts, ReceivedInDay(p, row.giftsReceivedOn)) = row.giftsReceivedToday

LastOn(row, kind) == IF kind = "daily_bonus" THEN row.lastDailyOn ELSE row.lastBailoutOn

ClaimsCounted ==
  \A k \in DOMAIN ledger :
    ledger[k].kind \in ClaimKind =>
      ledger[k].ref \in Day /\ ledger[k].ref <= LastOn(players[k[1]], ledger[k].kind)

StreaksCounted ==
  \A p \in DOMAIN players :
    LET row == players[p] IN
      row.lastDailyOn # NoDay => /\ row.lastDailyOn \in BonusDays(p)
                                 /\ row.dailyStreak = RunEnding(p, row.lastDailyOn)

CalendarInv ==
  /\ JobsToday /\ DaysPast /\ GiftsCounted /\ ClaimsCounted /\ StreaksCounted
  /\ GiftCaps /\ ClaimedOncePerDay /\ StreaksPayRuns
==============================================================================
