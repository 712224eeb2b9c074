------------------------- MODULE ChipsAccountsProofs -------------------------
(***************************************************************************)
(* The accounts of the chip economy balance, for any number of players,     *)
(* games, hands, gifts and requests: the sums TLC checks over small tables  *)
(* are proved over tables of any size (AccountsInv).  Then what the         *)
(* calendar limits: the daily caps on gifts, claims once a day, and         *)
(* streaks.  While a request answers on the day it arrived and all clients  *)
(* keep one time zone (OneCalendar), the days of a player's row only move   *)
(* on, so the row's counters with their days say all that the tables have   *)
(* for the current day (CalendarInv).                                       *)
(***************************************************************************)
EXTENDS ChipsSafetyProofs, ChipsAccounts

------------------------------------------------------------------------------
(* What each rule writes, as far as the accounts read it: which entries it   *)
(* posts, what it counts, what it adds to the pot, and which day it keeps.   *)
Posted(v, w, u, kind, amount, ref) ==
  LET n == w.players[u].ledgerSeq + 1
  IN /\ Whole(v, u) /\ DOMAIN v.players = DOMAIN w.players
     /\ v.players[u].ledgerSeq = n /\ SameDays(v.players[u], w.players[u])
     /\ \A p \in DOMAIN w.players : p # u => v.players[p] = w.players[p]
     /\ DOMAIN v.ledger = DOMAIN w.ledger \cup {<<u, n>>}
     /\ v.ledger[<<u, n>>].kind = kind /\ v.ledger[<<u, n>>].amount = amount
     /\ v.ledger[<<u, n>>].ref = ref
     /\ \A k \in DOMAIN w.ledger : k # <<u, n>> => v.ledger[k] = w.ledger[k]
     /\ v.hands = w.hands /\ v.gifts = w.gifts /\ v.stats = w.stats /\ v.hits = w.hits
     /\ v.contribution = w.contribution /\ v.hit = w.hit

LEMMA PostTells ==
  ASSUME NEW w, NEW u, Whole(w, u), NEW kind, NEW amount, NEW ref,
         NEW v, v = Post(w, u, kind, amount, ref)
  PROVE  Posted(v, w, u, kind, amount, ref)
<1>0. PICK n : n = w.players[u].ledgerSeq + 1
  OBVIOUS
<1>1. PICK row : row = [w.players[u] EXCEPT !.balance = w.players[u].balance + amount,
                                            !.ledgerSeq = w.players[u].ledgerSeq + 1]
  OBVIOUS
<1>2. DOMAIN row = RowFields /\ row.ledgerSeq = n /\ SameDays(row, w.players[u])
  BY <1>0, <1>1 DEF Whole, RowFields, SameDays, SameClaims, SameSent, SameReceived
<1>3. PICK item : item = [kind |-> kind, amount |-> amount,
                          balanceAfter |-> w.players[u].balance + amount, ref |-> ref]
  OBVIOUS
<1>4. /\ DOMAIN v = DOMAIN w
      /\ v.players = Put(w.players, u, row) /\ v.ledger = Put(w.ledger, <<u, n>>, item)
      /\ v.hands = w.hands /\ v.gifts = w.gifts /\ v.stats = w.stats /\ v.hits = w.hits
      /\ v.contribution = w.contribution /\ v.hit = w.hit
  BY <1>0, <1>1, <1>3 DEF Post, Whole
<1>5. /\ DOMAIN v.players = DOMAIN w.players /\ v.players[u] = row
      /\ \A p \in DOMAIN w.players : p # u => v.players[p] = w.players[p]
  BY <1>4 DEF Put, Whole
<1>6. PICK key : key = <<u, n>>
  OBVIOUS
<1>7. /\ DOMAIN v.ledger = DOMAIN w.ledger \cup {key} /\ v.ledger[key] = item
      /\ \A k \in DOMAIN w.ledger : k # key => v.ledger[k] = w.ledger[k]
  BY <1>4, <1>6 DEF Put
<1>8. item.kind = kind /\ item.amount = amount /\ item.ref = ref
  BY <1>3
<1>9. Whole(v, u)
  BY <1>2, <1>4, <1>5 DEF Whole
<1> QED BY <1>0, <1>2, <1>4, <1>5, <1>6, <1>7, <1>8, <1>9 DEF Posted

(* A draft of one row has posted nothing.                                   *)
LEMMA DraftTells ==
  ASSUME NEW rows, NEW u \in DOMAIN rows, rows[u] \in PlayerRow, NEW v, v = Draft(rows)
  PROVE  /\ Whole(v, u) /\ v.players = rows /\ DOMAIN v.ledger = {} /\ DOMAIN v.gifts = {}
         /\ DOMAIN v.stats = {} /\ v.contribution = 0 /\ v.hit = FALSE /\ DOMAIN v.hits = {}
         /\ DOMAIN v.hands = {}
  BY DEF Draft, NoRows, Whole, PlayerRow, RowFields

LEMMA FinishTells ==
  ASSUME NEW hand \in HandRow, hand.status = "active", NEW u, u = hand.user,
         NEW w, Whole(w, u), NEW row, SameDays(w.players[u], row), NEW h, HandEntries(w, h),
         DOMAIN w.gifts = {}, DOMAIN w.stats = {}, w.contribution = 0, DOMAIN w.hits = {},
         NEW tally, NEW v, v = Finish(w, h, hand, tally)
  PROVE  /\ HandTells(v, u, h, row) /\ Settles(v, h, tally) /\ DOMAIN v.hits = {}
         /\ v.hands[h].user = hand.user /\ v.hands[h].game = hand.game
         /\ v.hands[h].state = hand.state /\ v.hands[h].wagered = hand.wagered
<1>1. CASE ~hand.state.finished
  <2>1. v = [w EXCEPT !.hands = Row(h, hand)]
    BY <1>1 DEF Finish
  <2>2. /\ DOMAIN v = DOMAIN w /\ v.players = w.players /\ v.ledger = w.ledger /\ v.hands = Row(h, hand)
        /\ v.gifts = w.gifts /\ v.stats = w.stats /\ v.hits = w.hits /\ v.contribution = w.contribution
    BY <2>1 DEF Whole
  <2>3. DOMAIN v.hands = {h} /\ v.hands[h] = hand
    BY <2>2 DEF Row
  <2> QED BY <2>2, <2>3 DEF HandTells, Whole, HandEntries, Settles
<1>2. CASE hand.state.finished
  <2>1. PICK s : s = hand.state
    OBVIOUS
  <2>2. PICK paid : paid = IF RestToPay(s) > 0 THEN Post(w, u, "payout", RestToPay(s), h) ELSE w
    OBVIOUS
  <2>3. PICK done : done = [hand EXCEPT !.status = "settled", !.returned = s.returned]
    OBVIOUS
  <2>4. PICK count : count = Folded(tally, hand)
    OBVIOUS
  <2>5. v = [paid EXCEPT !.hands = Row(h, done), !.stats = Row(<<u, hand.game>>, count),
                         !.contribution = 2 * s.jackpotStake, !.hit = s.jackpotEligible]
    BY <1>2, <2>1, <2>2, <2>3, <2>4 DEF Finish, SettleHand
  <2>6. /\ Whole(paid, u) /\ SameDays(paid.players[u], row) /\ HandEntries(paid, h)
        /\ paid.gifts = w.gifts /\ paid.hits = w.hits
    <3>1. CASE RestToPay(s) > 0
      <4>1. PICK n, rest : n = w.players[u].ledgerSeq + 1 /\ rest = RestToPay(s)
        OBVIOUS
      <4>2. paid = Post(w, u, "payout", rest, h)
        BY <2>2, <3>1, <4>1
      <4>6. Posted(paid, w, u, "payout", rest, h)
        BY <4>2, PostTells
      <4>3. /\ Whole(paid, u) /\ SameDays(paid.players[u], w.players[u])
            /\ DOMAIN paid.ledger = DOMAIN w.ledger \cup {<<u, n>>}
            /\ paid.ledger[<<u, n>>].kind = "payout" /\ paid.ledger[<<u, n>>].ref = h
            /\ \A k \in DOMAIN w.ledger : k # <<u, n>> => paid.ledger[k] = w.ledger[k]
            /\ paid.gifts = w.gifts /\ paid.hits = w.hits
        BY <4>1, <4>6 DEF Posted
      <4>4. HandEntries(paid, h)
        BY <4>3 DEF HandEntries, HandKind
      <4>5. SameDays(paid.players[u], row)
        BY <4>3 DEF SameDays, SameClaims, SameSent, SameReceived
      <4> QED BY <4>3, <4>4, <4>5
    <3> QED BY <2>2, <3>1
  <2>7. /\ DOMAIN v = DOMAIN paid /\ v.players = paid.players /\ v.ledger = paid.ledger
        /\ v.hands = Row(h, done) /\ v.gifts = paid.gifts /\ v.hits = paid.hits
        /\ v.stats = Row(<<u, hand.game>>, count) /\ v.contribution = 2 * s.jackpotStake
    BY <2>5, <2>6 DEF Whole
  <2>8. DOMAIN v.hands = {h} /\ v.hands[h] = done
    BY <2>7 DEF Row
  <2>9. /\ done.status = "settled" /\ done.returned = s.returned /\ done.user = u /\ done.game = hand.game
        /\ done.state = s /\ done.wagered = hand.wagered
    BY <2>1, <2>3 DEF HandRow
  <2>10. count = Counted(tally, done)
    BY <2>1, <2>4, <2>9 DEF Folded, Counted
  <2>11. HandTells(v, u, h, row) /\ DOMAIN v.hits = {}
    BY <2>6, <2>7, <2>8 DEF HandTells, Whole, HandEntries
  <2> QED BY <2>1, <2>7, <2>8, <2>9, <2>10, <2>11 DEF Settles
<1> QED BY <1>1, <1>2

(* What is known of a hand's plan while it is made, and after each credit.  *)
Opening(w, u, h, row) ==
  /\ Whole(w, u) /\ HandEntries(w, h) /\ SameDays(w.players[u], row)
  /\ DOMAIN w.gifts = {} /\ DOMAIN w.stats = {} /\ w.contribution = 0 /\ DOMAIN w.hits = {}

LEMMA OpeningDraft ==
  ASSUME NEW u, NEW row \in PlayerRow, NEW h, NEW w, w = Draft(Row(u, row))
  PROVE  Opening(w, u, h, row)
<1>1. PICK rows : rows = Row(u, row)
  OBVIOUS
<1>2. u \in DOMAIN rows /\ rows[u] = row /\ rows[u] \in PlayerRow /\ w = Draft(rows)
  BY <1>1 DEF Row
<1>3. /\ Whole(w, u) /\ w.players = rows /\ DOMAIN w.ledger = {} /\ DOMAIN w.gifts = {}
      /\ DOMAIN w.stats = {} /\ w.contribution = 0 /\ DOMAIN w.hits = {}
  BY <1>2, DraftTells
<1> QED BY <1>2, <1>3 DEF Opening, HandEntries, SameDays, SameClaims, SameSent, SameReceived

LEMMA OpeningPost ==
  ASSUME NEW w, NEW u, NEW h, NEW row, Opening(w, u, h, row), NEW kind \in HandKind, NEW amount,
         NEW v, v = Post(w, u, kind, amount, h)
  PROVE  Opening(v, u, h, row)
<1>1. PICK n : n = w.players[u].ledgerSeq + 1
  OBVIOUS
<1>5. Posted(v, w, u, kind, amount, h)
  BY PostTells DEF Opening
<1>2. /\ Whole(v, u) /\ SameDays(v.players[u], w.players[u])
      /\ DOMAIN v.ledger = DOMAIN w.ledger \cup {<<u, n>>}
      /\ v.ledger[<<u, n>>].kind = kind /\ v.ledger[<<u, n>>].ref = h
      /\ \A k \in DOMAIN w.ledger : k # <<u, n>> => v.ledger[k] = w.ledger[k]
      /\ v.gifts = w.gifts /\ v.stats = w.stats /\ v.hits = w.hits /\ v.contribution = w.contribution
  BY <1>1, <1>5 DEF Posted
<1>3. HandEntries(v, h)
  BY <1>2 DEF Opening, HandEntries
<1>4. SameDays(v.players[u], row)
  BY <1>2 DEF Opening, SameDays, SameClaims, SameSent, SameReceived
<1> QED BY <1>2, <1>3, <1>4 DEF Opening

LEMMA StartTells ==
  ASSUME NEW u \in Player, NEW row \in PlayerRow, NEW h, NEW g \in Game, NEW s \in EngineState,
         NEW tally, NEW v, v = StartWrites(u, row, h, g, s, tally)
  PROVE  /\ HandTells(v, u, h, row) /\ Settles(v, h, tally) /\ DOMAIN v.hits = {}
         /\ v.hands[h].user = u /\ v.hands[h].game = g
         /\ v.hands[h].wagered = v.hands[h].state.staked
<1>1. s \in EngineView /\ s.staked \in Nat
  BY EngineAssumption DEF EngineView
<1>2. PICK none, stake, soon : none = Draft(Row(u, row)) /\ stake = -s.staked /\ soon = s.paidEarly
  OBVIOUS
<1>3. PICK bet : bet = Post(none, u, "bet", stake, h)
  OBVIOUS
<1>4. PICK early : early = IF soon > 0 THEN Post(bet, u, "payout", soon, h) ELSE bet
  OBVIOUS
<1>5. Opening(none, u, h, row)
  BY <1>2, OpeningDraft
<1>6. Opening(bet, u, h, row)
  BY <1>3, <1>5, OpeningPost DEF HandKind
<1>7. Opening(early, u, h, row)
  BY <1>4, <1>6, OpeningPost DEF HandKind
<1>8. PICK hand : hand = [user |-> u, game |-> g, status |-> "active", version |-> 0, state |-> s,
                          wagered |-> s.staked, returned |-> 0]
  OBVIOUS
<1>9. /\ hand \in HandRow /\ hand.status = "active" /\ hand.user = u /\ hand.game = g /\ hand.state = s
      /\ hand.wagered = s.staked
  BY <1>1, <1>8 DEF HandRow
<1>10. v = Finish(early, h, hand, tally)
  BY <1>2, <1>3, <1>4, <1>8 DEF StartWrites
<1>11. /\ HandTells(v, u, h, row) /\ Settles(v, h, tally) /\ DOMAIN v.hits = {}
       /\ v.hands[h].user = hand.user /\ v.hands[h].game = hand.game
       /\ v.hands[h].state = hand.state /\ v.hands[h].wagered = hand.wagered
  BY <1>7, <1>9, <1>10, FinishTells DEF Opening
<1> QED BY <1>9, <1>11

LEMMA ActionTells ==
  ASSUME NEW hand \in HandRow, hand.status = "active", NEW u, u = hand.user, NEW row \in PlayerRow,
         NEW t \in EngineState, hand.wagered = hand.state.staked, hand.state.staked <= t.staked,
         NEW h, NEW tally, NEW v, v = ActionWrites(row, h, hand, t, tally)
  PROVE  /\ HandTells(v, u, h, row) /\ Settles(v, h, tally) /\ DOMAIN v.hits = {}
         /\ v.hands[h].user = u /\ v.hands[h].game = hand.game
         /\ v.hands[h].wagered = v.hands[h].state.staked
<1>1. PICK extra, more, fee : extra = ExtraStake(hand, t) /\ more = ExtraEarly(hand, t) /\ fee = -extra
  OBVIOUS
<1>2. /\ hand.state \in EngineView /\ t \in EngineView /\ hand.wagered \in Nat
      /\ hand.state.staked \in Nat /\ t.staked \in Nat /\ extra = t.staked - hand.state.staked
  BY <1>1, EngineAssumption DEF HandRow, EngineView, ExtraStake
<1>3. PICK none : none = Draft(Row(u, row))
  OBVIOUS
<1>4. PICK bet : bet = IF extra > 0 THEN Post(none, u, "bet", fee, h) ELSE none
  OBVIOUS
<1>5. PICK early : early = IF more > 0 THEN Post(bet, u, "payout", more, h) ELSE bet
  OBVIOUS
<1>6. Opening(none, u, h, row)
  BY <1>3, OpeningDraft
<1>7. Opening(bet, u, h, row)
  BY <1>4, <1>6, OpeningPost DEF HandKind
<1>8. Opening(early, u, h, row)
  BY <1>5, <1>7, OpeningPost DEF HandKind
<1>9. PICK n : n = IF extra > 0 THEN hand.wagered + extra ELSE hand.wagered
  OBVIOUS
<1>10. n \in Nat /\ n = t.staked /\ hand.version + 1 \in Nat
  BY <1>2, <1>9 DEF HandRow
<1>11. PICK next : next = [hand EXCEPT !.version = hand.version + 1, !.state = t, !.wagered = n]
  OBVIOUS
<1>12. /\ next \in HandRow /\ next.status = "active" /\ next.user = u /\ next.game = hand.game
       /\ next.state = t /\ next.wagered = t.staked
  BY <1>10, <1>11 DEF HandRow
<1>13. v = Finish(early, h, next, tally)
  BY <1>1, <1>3, <1>4, <1>5, <1>9, <1>11 DEF ActionWrites
<1>14. /\ HandTells(v, u, h, row) /\ Settles(v, h, tally) /\ DOMAIN v.hits = {}
       /\ v.hands[h].user = next.user /\ v.hands[h].game = next.game
       /\ v.hands[h].state = next.state /\ v.hands[h].wagered = next.wagered
  BY <1>8, <1>12, <1>13, FinishTells DEF Opening
<1> QED BY <1>12, <1>14

(* A hit adds one entry of its hand, and its record.                        *)
LEMMA JackpotTells ==
  ASSUME NEW w, NEW u, NEW h, NEW row, HandTells(w, u, h, row), NEW tally, Settles(w, h, tally),
         NEW inPot, NEW v, v = PayJackpot(w, u, h, inPot)
  PROVE  /\ HandTells(v, u, h, row) /\ Settles(v, h, tally) /\ v.hands = w.hands /\ v.hit = w.hit
         /\ v.hits = Row(h, (inPot + v.contribution) \div 100)
<1>1. PICK amount : amount = (inPot + w.contribution) \div 100
  OBVIOUS
<1>2. PICK paid, n : paid = Post(w, u, "jackpot", amount, h) /\ n = w.players[u].ledgerSeq + 1
  OBVIOUS
<1>3. Whole(w, u)
  BY DEF HandTells
<1>11. Posted(paid, w, u, "jackpot", amount, h)
  BY <1>2, <1>3, PostTells
<1>4. /\ Whole(paid, u) /\ SameDays(paid.players[u], w.players[u])
      /\ DOMAIN paid.ledger = DOMAIN w.ledger \cup {<<u, n>>}
      /\ paid.ledger[<<u, n>>].kind = "jackpot" /\ paid.ledger[<<u, n>>].ref = h
      /\ \A k \in DOMAIN w.ledger : k # <<u, n>> => paid.ledger[k] = w.ledger[k]
      /\ paid.hands = w.hands /\ paid.gifts = w.gifts /\ paid.stats = w.stats
      /\ paid.contribution = w.contribution /\ paid.hit = w.hit
  BY <1>2, <1>11 DEF Posted
<1>5. v = [paid EXCEPT !.hits = Row(h, amount)]
  BY <1>1, <1>2 DEF PayJackpot
<1>6. /\ DOMAIN v = DOMAIN paid /\ v.players = paid.players /\ v.ledger = paid.ledger
      /\ v.hands = w.hands /\ v.gifts = w.gifts /\ v.stats = w.stats
      /\ v.contribution = w.contribution /\ v.hit = w.hit /\ v.hits = Row(h, amount)
  BY <1>4, <1>5 DEF Whole
<1>7. HandEntries(v, h)
  BY <1>4, <1>6 DEF HandTells, HandEntries, HandKind
<1>8. SameDays(v.players[u], row)
  BY <1>4, <1>6 DEF HandTells, SameDays, SameClaims, SameSent, SameReceived
<1>9. HandTells(v, u, h, row)
  BY <1>4, <1>6, <1>7, <1>8 DEF HandTells, Whole
<1>10. Settles(v, h, tally)
  BY <1>6 DEF Settles
<1> QED BY <1>1, <1>6, <1>9, <1>10

(* A claim posts one entry, for its day.                                    *)
ClaimPosted(v, u, row, kind, amount, day) ==
  LET key == <<u, row.ledgerSeq + 1>> IN
    /\ Whole(v, u) /\ SameDays(v.players[u], row)
    /\ DOMAIN v.ledger = {key} /\ v.ledger[key].kind = kind
    /\ v.ledger[key].amount = amount /\ v.ledger[key].ref = day
    /\ DOMAIN v.gifts = {} /\ DOMAIN v.stats = {} /\ DOMAIN v.hands = {} /\ DOMAIN v.hits = {}
    /\ v.contribution = 0

LEMMA ClaimTells ==
  ASSUME NEW u, NEW row \in PlayerRow, NEW kind, NEW amount, NEW day,
         NEW v, v = Post(Draft(Row(u, row)), u, kind, amount, day)
  PROVE  ClaimPosted(v, u, row, kind, amount, day)
<1>10. PICK key : key = <<u, row.ledgerSeq + 1>>
  OBVIOUS
<1>1. PICK rows : rows = Row(u, row)
  OBVIOUS
<1>2. u \in DOMAIN rows /\ rows[u] = row
  BY <1>1 DEF Row
<1>3. PICK w : w = Draft(rows)
  OBVIOUS
<1>4. /\ Whole(w, u) /\ w.players = rows /\ DOMAIN w.ledger = {} /\ DOMAIN w.gifts = {}
      /\ DOMAIN w.stats = {} /\ w.contribution = 0 /\ DOMAIN w.hits = {} /\ DOMAIN w.hands = {}
  BY <1>2, <1>3, DraftTells
<1>5. PICK n : n = w.players[u].ledgerSeq + 1
  OBVIOUS
<1>6. key = <<u, n>> /\ w.players[u] = row
  BY <1>2, <1>4, <1>5, <1>10
<1>7. v = Post(w, u, kind, amount, day)
  BY <1>1, <1>3
<1>9. Posted(v, w, u, kind, amount, day)
  BY <1>4, <1>7, PostTells
<1>8. /\ Whole(v, u) /\ SameDays(v.players[u], w.players[u])
      /\ DOMAIN v.ledger = DOMAIN w.ledger \cup {<<u, n>>}
      /\ v.ledger[<<u, n>>].kind = kind /\ v.ledger[<<u, n>>].amount = amount
      /\ v.ledger[<<u, n>>].ref = day
      /\ v.hands = w.hands /\ v.gifts = w.gifts /\ v.stats = w.stats /\ v.hits = w.hits
      /\ v.contribution = w.contribution
  BY <1>5, <1>9 DEF Posted
<1> QED BY <1>4, <1>6, <1>8, <1>10 DEF ClaimPosted

LEMMA GiftTells ==
  ASSUME NEW from \in PlayerRow, NEW to \in PlayerRow, NEW id, NEW g \in GiftRow,
         NEW p, NEW q, p = g.from, q = g.to, p # q,
         NEW v, v = GiftWrites(from, to, id, g),
         NEW out, out = <<p, from.ledgerSeq + 1>>, NEW in, in = <<q, to.ledgerSeq + 1>>
  PROVE  /\ Counts(v.players[p], v.players[q], from, to, g)
         /\ DOMAIN v.ledger = {out, in}
         /\ v.ledger[out].kind = "gift_out" /\ v.ledger[out].amount = -g.amount /\ v.ledger[out].ref = q
         /\ v.ledger[in].kind = "gift_in" /\ v.ledger[in].amount = g.amount /\ v.ledger[in].ref = p
         /\ v.gifts = Row(id, g) /\ DOMAIN v.stats = {} /\ DOMAIN v.hands = {} /\ DOMAIN v.hits = {}
         /\ v.contribution = 0
<1>1. PICK sent, got : sent = SentOn(from, g.senderDay) + g.amount /\ got = ReceivedOn(to, g.utcDay) + g.amount
  OBVIOUS
<1>2. PICK sender : sender = [from EXCEPT !.giftsSentToday = sent, !.giftsSentOn = g.senderDay]
  OBVIOUS
<1>3. PICK receiver : receiver = [to EXCEPT !.giftsReceivedToday = got, !.giftsReceivedOn = g.utcDay]
  OBVIOUS
<1>4. /\ DOMAIN sender = RowFields /\ sender.ledgerSeq = from.ledgerSeq
      /\ SameClaims(sender, from) /\ SameReceived(sender, from)
      /\ sender.giftsSentToday = sent /\ sender.giftsSentOn = g.senderDay
  BY <1>2 DEF PlayerRow, RowFields, SameClaims, SameReceived
<1>5. /\ DOMAIN receiver = RowFields /\ receiver.ledgerSeq = to.ledgerSeq
      /\ SameClaims(receiver, to) /\ SameSent(receiver, to)
      /\ receiver.giftsReceivedToday = got /\ receiver.giftsReceivedOn = g.utcDay
  BY <1>3 DEF PlayerRow, RowFields, SameClaims, SameSent
<1>6. PICK rows : rows = Put(Row(p, sender), q, receiver)
  OBVIOUS
<1>7. DOMAIN rows = {p, q} /\ rows[p] = sender /\ rows[q] = receiver
  BY <1>6 DEF Put, Row
<1>8. PICK none : none = Draft(rows)
  OBVIOUS
<1>9. /\ Whole(none, p) /\ none.players = rows /\ DOMAIN none.ledger = {} /\ DOMAIN none.stats = {}
      /\ none.contribution = 0 /\ DOMAIN none.hits = {} /\ DOMAIN none.hands = {}
  BY <1>4, <1>7, <1>8 DEF Draft, NoRows, Whole
<1>10. PICK n, m : n = none.players[p].ledgerSeq + 1 /\ m = to.ledgerSeq + 1
  OBVIOUS
<1>11. out = <<p, n>> /\ in = <<q, m>> /\ out # in
  BY <1>4, <1>7, <1>9, <1>10
<1>12. PICK less : less = -g.amount
  OBVIOUS
<1>13. PICK half : half = Post(none, p, "gift_out", less, q)
  OBVIOUS
<1>25. Posted(half, none, p, "gift_out", less, q)
  BY <1>9, <1>13, PostTells
<1>14. /\ Whole(half, p) /\ DOMAIN half.players = DOMAIN none.players
       /\ SameDays(half.players[p], none.players[p])
       /\ \A u \in DOMAIN none.players : u # p => half.players[u] = none.players[u]
       /\ DOMAIN half.ledger = DOMAIN none.ledger \cup {<<p, n>>}
       /\ half.ledger[<<p, n>>].kind = "gift_out" /\ half.ledger[<<p, n>>].amount = less
       /\ half.ledger[<<p, n>>].ref = q
       /\ half.stats = none.stats /\ half.hands = none.hands /\ half.hits = none.hits
       /\ half.contribution = none.contribution
  BY <1>10, <1>25 DEF Posted
<1>15. half.players[q] = receiver /\ q \in DOMAIN half.players
  BY <1>7, <1>9, <1>14
<1>16. Whole(half, q) /\ m = half.players[q].ledgerSeq + 1
  BY <1>5, <1>10, <1>14, <1>15 DEF Whole
<1>17. PICK amount : amount = g.amount
  OBVIOUS
<1>18. PICK all : all = Post(half, q, "gift_in", amount, p)
  OBVIOUS
<1>26. Posted(all, half, q, "gift_in", amount, p)
  BY <1>16, <1>18, PostTells
<1>19. /\ Whole(all, q) /\ SameDays(all.players[q], half.players[q])
       /\ \A u \in DOMAIN half.players : u # q => all.players[u] = half.players[u]
       /\ DOMAIN all.ledger = DOMAIN half.ledger \cup {<<q, m>>}
       /\ all.ledger[<<q, m>>].kind = "gift_in" /\ all.ledger[<<q, m>>].amount = amount
       /\ all.ledger[<<q, m>>].ref = p
       /\ \A k \in DOMAIN half.ledger : k # <<q, m>> => all.ledger[k] = half.ledger[k]
       /\ all.stats = half.stats /\ all.hands = half.hands /\ all.hits = half.hits
       /\ all.contribution = half.contribution
  BY <1>16, <1>26 DEF Posted
<1>20. v = [all EXCEPT !.gifts = Row(id, g)]
  BY <1>1, <1>2, <1>3, <1>6, <1>8, <1>12, <1>13, <1>17, <1>18 DEF GiftWrites
<1>21. /\ v.players = all.players /\ v.ledger = all.ledger /\ v.gifts = Row(id, g) /\ v.stats = all.stats
       /\ v.hands = all.hands /\ v.hits = all.hits /\ v.contribution = all.contribution
  BY <1>19, <1>20 DEF Whole
<1>22. /\ DOMAIN v.ledger = {out, in}
       /\ v.ledger[out].kind = "gift_out" /\ v.ledger[out].amount = -g.amount /\ v.ledger[out].ref = q
       /\ v.ledger[in].kind = "gift_in" /\ v.ledger[in].amount = g.amount /\ v.ledger[in].ref = p
  BY <1>9, <1>11, <1>12, <1>14, <1>17, <1>19, <1>21
<1>23. SameDays(v.players[p], sender) /\ SameDays(v.players[q], receiver)
  <2>1. p \in DOMAIN half.players
    BY <1>7, <1>9, <1>14
  <2> QED BY <1>7, <1>9, <1>14, <1>15, <1>19, <1>21, <2>1
<1>24. Counts(v.players[p], v.players[q], from, to, g)
  BY <1>1, <1>4, <1>5, <1>23 DEF Counts, SameDays, SameClaims, SameSent, SameReceived
<1> QED BY <1>9, <1>14, <1>19, <1>21, <1>22, <1>24

------------------------------------------------------------------------------
(* What a request planned stays true of the tables until it commits.        *)

LEMMA HandKept ==
  ASSUME NEW w, NEW j, HandPlanned(w, j), players'[j.user] = players[j.user],
         \A g : StatsOf(j.user, g)' = StatsOf(j.user, g)
  PROVE  HandPlanned(w, j)'
<1>1. PICK row, tally : row = players[j.user] /\ tally = StatsOf(j.user, w.hands[j.hand].game)
  OBVIOUS
<1>2. players'[j.user] = row /\ StatsOf(j.user, w.hands[j.hand].game)' = tally
  BY <1>1
<1>3. /\ HandTells(w, j.user, j.hand, row) /\ Settles(w, j.hand, tally)
      /\ w.hands[j.hand].wagered = w.hands[j.hand].state.staked
  BY <1>1 DEF HandPlanned
<1> QED BY <1>2, <1>3 DEF HandPlanned, StatsOf

LEMMA ClaimKept ==
  ASSUME NEW w, NEW j, ClaimPlanned(w, j), players'[j.user] = players[j.user]
  PROVE  ClaimPlanned(w, j)'
<1>1. PICK row : row = players[j.user]
  OBVIOUS
<1>2. players'[j.user] = row
  BY <1>1
<1>3. PICK key : key = <<j.user, row.ledgerSeq + 1>>
  OBVIOUS
<1>4. NextKey(j.user) = key /\ NextKey(j.user)' = key
  BY <1>1, <1>2, <1>3 DEF NextKey
<1> QED BY <1>1, <1>2, <1>4 DEF ClaimPlanned

LEMMA GiftKept ==
  ASSUME NEW w, NEW j, GiftPlanned(w, j),
         players'[j.user] = players[j.user], players'[j.to] = players[j.to]
  PROVE  GiftPlanned(w, j)'
<1>1. PICK from, to : from = players[j.user] /\ to = players[j.to]
  OBVIOUS
<1>2. players'[j.user] = from /\ players'[j.to] = to
  BY <1>1
<1>3. PICK out, in : out = <<j.user, from.ledgerSeq + 1>> /\ in = <<j.to, to.ledgerSeq + 1>>
  OBVIOUS
<1>4. /\ NextKey(j.user) = out /\ NextKey(j.user)' = out
      /\ NextKey(j.to) = in /\ NextKey(j.to)' = in
  BY <1>1, <1>2, <1>3 DEF NextKey
<1> QED BY <1>1, <1>2, <1>4 DEF GiftPlanned

LEMMA AccountKept ==
  ASSUME IInv, NEW s \in Request, Planned(s), AccountPlanned(s),
         phase'[s] = phase[s], job'[s] = job[s], writes'[s] = writes[s],
         \A p \in Needs(job[s]) : players'[p] = players[p],
         job[s].op \in {"start", "act"} => \A g : StatsOf(job[s].user, g)' = StatsOf(job[s].user, g),
         phase[s] = "jackpot" => pot' = pot
  PROVE  AccountPlanned(s)'
<1>1. PICK w, j : w = writes[s] /\ j = job[s]
  OBVIOUS
<1>2. writes'[s] = w /\ job'[s] = j
  BY <1>1
<1>3. players'[j.user] = players[j.user]
  BY <1>1 DEF Needs
<1>4. j.op = "gift" => players'[j.to] = players[j.to]
  BY <1>1 DEF Needs
<1>5. j.op \in {"start", "act"} => HandPlanned(w, j)'
  BY <1>1, <1>3, HandKept DEF AccountPlanned
<1>6. j.op \in ClaimKind => ClaimPlanned(w, j)'
  BY <1>1, <1>3, ClaimKept DEF AccountPlanned
<1>7. j.op = "gift" => GiftPlanned(w, j)'
  BY <1>1, <1>3, <1>4, GiftKept DEF AccountPlanned
<1>8. HitPlanned(s)'
  BY <1>1, <1>2 DEF AccountPlanned, HitPlanned
<1> QED BY <1>2, <1>5, <1>6, <1>7, <1>8
    DEF AccountPlanned, HandPlanned, ClaimPlanned, GiftPlanned, NextKey, StatsOf

(* A step of one request that leaves the tables alone.                      *)
LEMMA RequestStepAccounts ==
  ASSUME IInv, AccountsFit, UNCHANGED tables, NEW r \in Request,
         \A s \in Request : s # r => phase'[s] = phase[s] /\ job'[s] = job[s] /\ writes'[s] = writes[s],
         Planned(r)' => AccountPlanned(r)'
  PROVE  AccountsFit'
<1>1. players' = players /\ stats' = stats /\ pot' = pot /\ hands' = hands
  BY DEF tables
<1>2. StakesStored'
  BY <1>1 DEF AccountsFit, StakesStored
<1>3. ASSUME NEW s \in Request, s # r, Planned(s)' PROVE AccountPlanned(s)'
  <2>1. phase'[s] = phase[s] /\ job'[s] = job[s] /\ writes'[s] = writes[s]
    BY <1>3
  <2>2. Planned(s) /\ AccountPlanned(s)
    BY <1>3, <2>1 DEF Planned, AccountsFit
  <2>3. \A g : StatsOf(job[s].user, g)' = StatsOf(job[s].user, g)
    BY <1>1, <2>1 DEF StatsOf
  <2> QED BY <1>1, <2>1, <2>2, <2>3, AccountKept
<1>4. ASSUME NEW s \in Request, s = r, Planned(s)' PROVE AccountPlanned(s)'
  BY <1>4
<1> QED BY <1>2, <1>3, <1>4 DEF AccountsFit

LEMMA BeginAccounts ==
  ASSUME IInv, AccountsFit, NEW r \in Request, Begin(r)
  PROVE  AccountsFit'
<1>1. ASSUME NEW j, Arrive(r, j) PROVE AccountsFit'
  <2>1. /\ UNCHANGED tables /\ phase'[r] = "locking"
        /\ \A s \in Request : s # r => phase'[s] = phase[s] /\ job'[s] = job[s] /\ writes'[s] = writes[s]
    BY <1>1 DEF Arrive, IInv, TypeOK
  <2>2. ~Planned(r)'
    BY <2>1 DEF Planned
  <2> QED BY <2>1, <2>2, RequestStepAccounts
<1> QED BY <1>1 DEF Begin, PostHands, PostAction, PostClaim, PostGift

LEMMA EndAccounts ==
  ASSUME IInv, AccountsFit, NEW r \in Request, End(r), UNCHANGED tables
  PROVE  AccountsFit'
<1>1. /\ phase'[r] = "idle"
      /\ \A s \in Request : s # r => phase'[s] = phase[s] /\ job'[s] = job[s] /\ writes'[s] = writes[s]
  BY DEF IInv, TypeOK, End
<1>2. ~Planned(r)'
  BY <1>1 DEF Planned
<1> QED BY <1>1, <1>2, RequestStepAccounts

LEMMA LockPlayerAccounts ==
  ASSUME IInv, AccountsFit, NEW r \in Request, LockPlayer(r)
  PROVE  AccountsFit'
<1>1. /\ UNCHANGED tables /\ job' = job /\ writes' = writes /\ phase'[r] \in {"locked", "locking"}
      /\ \A s \in Request : s # r => phase'[s] = phase[s]
  BY DEF IInv, TypeOK, LockPlayer
<1>2. ~Planned(r)'
  BY <1>1 DEF Planned
<1> QED BY <1>1, <1>2, RequestStepAccounts

(* A plan is made on the rows as they are.                                  *)
LEMMA PlanAccounts ==
  ASSUME IInv, AccountsFit, NEW r \in Request, NEW w, Plan(r, w), NEW j, j = job[r],
         j.op \in {"start", "act"} => HandPlanned(w, j),
         j.op \in ClaimKind => ClaimPlanned(w, j),
         j.op = "gift" => GiftPlanned(w, j)
  PROVE  AccountsFit'
<1>1. /\ UNCHANGED tables /\ job' = job /\ writes'[r] = w /\ phase'[r] = "planned"
      /\ \A s \in Request : s # r => phase'[s] = phase[s] /\ writes'[s] = writes[s]
  BY DEF IInv, TypeOK, Plan
<1>2. players' = players /\ stats' = stats /\ job'[r] = j
  BY <1>1 DEF tables
<1>3. \A g : StatsOf(j.user, g)' = StatsOf(j.user, g)
  BY <1>2 DEF StatsOf
<1>4. /\ j.op \in {"start", "act"} => HandPlanned(w, j)'
      /\ j.op \in ClaimKind => ClaimPlanned(w, j)'
      /\ j.op = "gift" => GiftPlanned(w, j)'
  BY <1>2, <1>3, HandKept, ClaimKept, GiftKept
<1>5. HitPlanned(r)'
  BY <1>1 DEF HitPlanned
<1>6. AccountPlanned(r)'
  <2>1. writes'[r] = w /\ job'[r] = j
    BY <1>1, <1>2
  <2>2. /\ job'[r].op \in {"start", "act"} => HandPlanned(w, j)'
        /\ job'[r].op \in ClaimKind => ClaimPlanned(w, j)'
        /\ job'[r].op = "gift" => GiftPlanned(w, j)'
    BY <2>1, <1>4
  <2>3. job'[r].op \in {"start", "act"} => HandPlanned(writes[r], job[r])'
    BY <2>1, <2>2 DEF HandPlanned, StatsOf
  <2>4. job'[r].op \in ClaimKind => ClaimPlanned(writes[r], job[r])'
    BY <2>1, <2>2 DEF ClaimPlanned, NextKey
  <2>5. job'[r].op = "gift" => GiftPlanned(writes[r], job[r])'
    BY <2>1, <2>2 DEF GiftPlanned, NextKey
  <2> QED BY <2>3, <2>4, <2>5, <1>5 DEF AccountPlanned
<1> QED BY <1>1, <1>6, RequestStepAccounts

LEMMA PlanStartAccounts ==
  ASSUME IInv, AccountsFit, NEW r \in Request, PlanStart(r)
  PROVE  AccountsFit'
<1>1. PICK j : j = job[r]
  OBVIOUS
<1>2. PICK u, h, g, s, st, row : /\ u = j.user /\ h = j.hand /\ g = j.game /\ s = j.dealt
                                 /\ st = StatsOf(u, g) /\ row = players[u]
  OBVIOUS
<1>3. PICK w : w = StartWrites(u, row, h, g, s, st)
  OBVIOUS
<1>4. phase[r] = "locked" /\ j.op = "start" /\ Plan(r, w)
  BY <1>1, <1>2, <1>3 DEF PlanStart
<1>5. j \in StartJob /\ Needs(j) \subseteq DOMAIN players
  BY <1>1, <1>4, JobOf
<1>6. u \in Player /\ u \in DOMAIN players /\ g \in Game /\ s \in EngineState
  BY <1>2, <1>4, <1>5 DEF StartJob, Needs
<1>7. row \in PlayerRow
  BY <1>2, <1>6 DEF IInv, TypeOK, IsTable
<1>8. /\ HandTells(w, u, h, row) /\ Settles(w, h, st) /\ w.hands[h].game = g
      /\ w.hands[h].wagered = w.hands[h].state.staked
  <2>1. u \in Player /\ g \in Game /\ s \in EngineState
    BY <1>6
  <2> QED BY <1>3, <1>7, <2>1, StartTells
<1>9. HandPlanned(w, j)
  BY <1>2, <1>8 DEF HandPlanned
<1> QED BY <1>1, <1>4, <1>9, PlanAccounts DEF ClaimKind

LEMMA PlanActionAccounts ==
  ASSUME IInv, AccountsFit, NEW r \in Request, PlanAction(r)
  PROVE  AccountsFit'
<1>1. PICK j : j = job[r]
  OBVIOUS
<1>2. PICK t \in NextStates(j) :
        /\ ActionAllowed(j, t)
        /\ Plan(r, ActionWrites(players[j.user], j.hand, hands[j.hand], t,
                                StatsOf(j.user, hands[j.hand].game)))
  BY <1>1 DEF PlanAction
<1>3. PICK u, h, hand, row : u = j.user /\ h = j.hand /\ hand = hands[h] /\ row = players[u]
  OBVIOUS
<1>4. PICK st : st = StatsOf(u, hand.game)
  OBVIOUS
<1>5. PICK w : w = ActionWrites(row, h, hand, t, st)
  OBVIOUS
<1>6. phase[r] = "locked" /\ j.op = "act" /\ Plan(r, w)
  BY <1>1, <1>2, <1>3, <1>4, <1>5 DEF PlanAction
<1>7. j \in ActJob /\ Needs(j) \subseteq DOMAIN players
  BY <1>1, <1>6, JobOf
<1>8. /\ u \in DOMAIN players /\ j.action \in ActionType /\ h \in DOMAIN hands
      /\ hand.user = u /\ hand.status = "active"
  BY <1>2, <1>3, <1>6, <1>7 DEF ActJob, Needs, NextStates, ActionAllowed
<1>9. hand \in HandRow /\ hand.state \in EngineState /\ row \in PlayerRow
  BY <1>3, <1>8 DEF IInv, TypeOK, IsTable, HandRow
<1>10. t \in EngineState /\ hand.state.staked <= t.staked
  <2>1. t \in Act[<<hand.state, j.action>>]
    BY <1>2, <1>3, <1>8 DEF NextStates
  <2>2. Act[<<hand.state, j.action>>] \in SUBSET EngineState
    <3>1. <<hand.state, j.action>> \in EngineState \X ActionType
      BY <1>8, <1>9
    <3> QED BY <3>1, EngineAssumption
  <2> QED BY <1>8, <1>9, <2>1, <2>2, EngineAssumption
<1>11. hand.wagered = hand.state.staked
  BY <1>3, <1>8 DEF AccountsFit, StakesStored
<1>12. /\ HandTells(w, u, h, row) /\ Settles(w, h, st) /\ w.hands[h].game = hand.game
       /\ w.hands[h].wagered = w.hands[h].state.staked
  BY <1>5, <1>8, <1>9, <1>10, <1>11, ActionTells
<1>13. HandPlanned(w, j)
  BY <1>3, <1>4, <1>12 DEF HandPlanned
<1> QED BY <1>1, <1>6, <1>13, PlanAccounts DEF ClaimKind

LEMMA PlanDailyAccounts ==
  ASSUME IInv, AccountsFit, NEW r \in Request, PlanDaily(r)
  PROVE  AccountsFit'
<1>1. PICK j, u, day, old : j = job[r] /\ u = j.user /\ day = j.day /\ old = players[u]
  OBVIOUS
<1>2. PICK streak : streak = StreakOn(old, day)
  OBVIOUS
<1>3. PICK row, amount : row = [old EXCEPT !.dailyStreak = streak, !.lastDailyOn = day] /\ amount = BonusFor(streak)
  OBVIOUS
<1>4. PICK w : w = Post(Draft(Row(u, row)), u, "daily_bonus", amount, day)
  OBVIOUS
<1>5. phase[r] = "locked" /\ j.op = "daily_bonus" /\ DailyAllowed(old, day) /\ Plan(r, w)
  BY <1>1, <1>2, <1>3, <1>4 DEF PlanDaily, DailyWrites
<1>6. j \in ClaimJob /\ Needs(j) \subseteq DOMAIN players
  BY <1>1, <1>5, JobOf DEF ClaimKind
<1>7. u \in DOMAIN players /\ day \in Day
  BY <1>1, <1>5, <1>6 DEF ClaimJob, Needs
<1>8. old \in PlayerRow
  BY <1>1, <1>7 DEF IInv, TypeOK, IsTable
<1>9. streak \in Nat
  BY <1>2, <1>8 DEF StreakOn, PlayerRow
<1>10. /\ row \in PlayerRow /\ row.ledgerSeq = old.ledgerSeq /\ SameSent(row, old) /\ SameReceived(row, old)
       /\ row.dailyStreak = streak /\ row.lastDailyOn = day /\ row.lastBailoutOn = old.lastBailoutOn
  BY <1>3, <1>7, <1>8, <1>9 DEF PlayerRow, SameSent, SameReceived
<1>11. PICK key : key = <<u, row.ledgerSeq + 1>>
  OBVIOUS
<1>12. /\ SameDays(w.players[u], row)
       /\ DOMAIN w.ledger = {key} /\ w.ledger[key].kind = "daily_bonus"
       /\ w.ledger[key].amount = amount /\ w.ledger[key].ref = day
       /\ DOMAIN w.gifts = {} /\ DOMAIN w.stats = {} /\ DOMAIN w.hands = {} /\ DOMAIN w.hits = {}
       /\ w.contribution = 0
  <2>1. row \in PlayerRow
    BY <1>10
  <2>2. ClaimPosted(w, u, row, "daily_bonus", amount, day)
    BY <1>4, <2>1, ClaimTells
  <2> QED BY <1>11, <2>2 DEF ClaimPosted
<1>13. key = NextKey(u)
  BY <1>1, <1>10, <1>11 DEF NextKey
<1>14. ClaimPlanned(w, j)
  BY <1>1, <1>2, <1>3, <1>5, <1>10, <1>12, <1>13
     DEF ClaimPlanned, NoHand, SameDays, SameClaims, SameSent, SameReceived, DailyAllowed
<1> QED BY <1>1, <1>5, <1>14, PlanAccounts

LEMMA PlanBailoutAccounts ==
  ASSUME IInv, AccountsFit, NEW r \in Request, PlanBailout(r)
  PROVE  AccountsFit'
<1>1. PICK j, u, day, old : j = job[r] /\ u = j.user /\ day = j.day /\ old = players[u]
  OBVIOUS
<1>2. PICK row, amount : row = [old EXCEPT !.lastBailoutOn = day] /\ amount = BailoutTopUp - old.balance
  OBVIOUS
<1>3. PICK w : w = Post(Draft(Row(u, row)), u, "bailout", amount, day)
  OBVIOUS
<1>4. phase[r] = "locked" /\ j.op = "bailout" /\ old.lastBailoutOn # day /\ Plan(r, w)
  BY <1>1, <1>2, <1>3 DEF PlanBailout, BailoutWrites, BailoutAllowed
<1>5. j \in ClaimJob /\ Needs(j) \subseteq DOMAIN players
  BY <1>1, <1>4, JobOf DEF ClaimKind
<1>6. u \in DOMAIN players /\ day \in Day
  BY <1>1, <1>4, <1>5 DEF ClaimJob, Needs
<1>7. old \in PlayerRow
  BY <1>1, <1>6 DEF IInv, TypeOK, IsTable
<1>8. /\ row \in PlayerRow /\ row.ledgerSeq = old.ledgerSeq /\ SameSent(row, old) /\ SameReceived(row, old)
      /\ row.dailyStreak = old.dailyStreak /\ row.lastDailyOn = old.lastDailyOn /\ row.lastBailoutOn = day
  BY <1>2, <1>6, <1>7 DEF PlayerRow, SameSent, SameReceived
<1>9. PICK key : key = <<u, row.ledgerSeq + 1>>
  OBVIOUS
<1>10. /\ SameDays(w.players[u], row)
       /\ DOMAIN w.ledger = {key} /\ w.ledger[key].kind = "bailout" /\ w.ledger[key].ref = day
       /\ DOMAIN w.gifts = {} /\ DOMAIN w.stats = {} /\ DOMAIN w.hands = {} /\ DOMAIN w.hits = {}
       /\ w.contribution = 0
  <2>1. row \in PlayerRow
    BY <1>8
  <2>2. ClaimPosted(w, u, row, "bailout", amount, day)
    BY <1>3, <2>1, ClaimTells
  <2> QED BY <1>9, <2>2 DEF ClaimPosted
<1>11. key = NextKey(u)
  BY <1>1, <1>8, <1>9 DEF NextKey
<1>12. ClaimPlanned(w, j)
  BY <1>1, <1>4, <1>8, <1>10, <1>11
     DEF ClaimPlanned, NoHand, SameDays, SameClaims, SameSent, SameReceived
<1> QED BY <1>1, <1>4, <1>12, PlanAccounts

LEMMA PlanGiftAccounts ==
  ASSUME IInv, AccountsFit, NEW r \in Request, PlanGift(r)
  PROVE  AccountsFit'
<1>1. PICK j, p, q, id, g : j = job[r] /\ p = j.user /\ q = j.to /\ id = j.gift /\ g = GiftRowOf(j)
  OBVIOUS
<1>2. PICK from, to : from = players[p] /\ to = players[q]
  OBVIOUS
<1>3. PICK w : w = GiftWrites(from, to, id, g)
  OBVIOUS
<1>4. phase[r] = "locked" /\ j.op = "gift" /\ GiftAllowed(from, to, g) /\ Plan(r, w)
  BY <1>1, <1>2, <1>3 DEF PlanGift, SendAllowed
<1>5. j \in GiftJob /\ Needs(j) \subseteq DOMAIN players
  BY <1>1, <1>4, JobOf
<1>6. /\ p \in DOMAIN players /\ q \in DOMAIN players /\ g \in GiftRow /\ p = g.from /\ q = g.to
  BY <1>1, <1>4, <1>5 DEF GiftJob, GiftRow, GiftRowOf, Needs
<1>7. p # q
  BY <1>1, <1>5 DEF IInv, RowsOwned
<1>8. from \in PlayerRow /\ to \in PlayerRow
  BY <1>2, <1>6 DEF IInv, TypeOK, IsTable
<1>9. PICK out, in : out = <<p, from.ledgerSeq + 1>> /\ in = <<q, to.ledgerSeq + 1>>
  OBVIOUS
<1>10. /\ Counts(w.players[p], w.players[q], from, to, g)
       /\ DOMAIN w.ledger = {out, in}
       /\ w.ledger[out].kind = "gift_out" /\ w.ledger[out].amount = -g.amount /\ w.ledger[out].ref = q
       /\ w.ledger[in].kind = "gift_in" /\ w.ledger[in].amount = g.amount /\ w.ledger[in].ref = p
       /\ w.gifts = Row(id, g) /\ DOMAIN w.stats = {} /\ DOMAIN w.hands = {} /\ DOMAIN w.hits = {}
       /\ w.contribution = 0
  BY <1>3, <1>6, <1>7, <1>8, <1>9, GiftTells
<1>11. out = NextKey(p) /\ in = NextKey(q)
  BY <1>2, <1>9 DEF NextKey
<1>12. GiftPlanned(w, j)
  BY <1>1, <1>2, <1>4, <1>10, <1>11 DEF GiftPlanned, NoHand, GiftAllowed
<1> QED BY <1>1, <1>4, <1>12, PlanAccounts DEF ClaimKind

LEMMA LockJackpotAccounts ==
  ASSUME IInv, AccountsFit, NEW r \in Request, LockJackpot(r)
  PROVE  AccountsFit'
<1>1. PICK j, w, u, h, row : j = job[r] /\ w = writes[r] /\ u = j.user /\ h = j.hand /\ row = players[u]
  OBVIOUS
<1>2. PICK v : v = PayJackpot(w, u, h, pot)
  OBVIOUS
<1>3. /\ UNCHANGED tables /\ job' = job /\ phase[r] = "planned" /\ w.hit
      /\ phase'[r] = "jackpot" /\ writes'[r] = v
      /\ \A s \in Request : s # r => phase'[s] = phase[s] /\ writes'[s] = writes[s]
  BY <1>1, <1>2 DEF LockJackpot, IInv, TypeOK
<1>4. PlanFits(r) /\ AccountPlanned(r)
  BY <1>3 DEF IInv, PlansFit, Planned, AccountsFit
<1>5. j.op \in {"start", "act"} /\ DOMAIN w.hands = {h}
  BY <1>1, <1>3, <1>4 DEF PlanFits, HandFits
<1>6. HandPlanned(w, j)
  BY <1>1, <1>4, <1>5 DEF AccountPlanned
<1>7. PICK tally : tally = StatsOf(u, w.hands[h].game)
  OBVIOUS
<1>8. /\ HandTells(w, u, h, row) /\ Settles(w, h, tally)
      /\ w.hands[h].wagered = w.hands[h].state.staked
  BY <1>1, <1>6, <1>7 DEF HandPlanned
<1>9. /\ HandTells(v, u, h, row) /\ Settles(v, h, tally) /\ v.hands = w.hands /\ v.hit = w.hit
      /\ v.hits = Row(h, (pot + v.contribution) \div 100)
  BY <1>2, <1>8, JackpotTells
<1>10. HandPlanned(v, j)
  BY <1>1, <1>7, <1>8, <1>9 DEF HandPlanned
<1>11. players' = players /\ stats' = stats /\ job'[r] = j /\ pot' = pot
  BY <1>1, <1>3 DEF tables
<1>12. \A g : StatsOf(j.user, g)' = StatsOf(j.user, g)
  BY <1>11 DEF StatsOf
<1>13. HandPlanned(v, j)'
  BY <1>10, <1>11, <1>12, HandKept
<1>14. HitPlanned(r)'
  BY <1>1, <1>3, <1>9, <1>11 DEF HitPlanned
<1>15. AccountPlanned(r)'
  BY <1>3, <1>5, <1>11, <1>13, <1>14
     DEF AccountPlanned, HandPlanned, ClaimKind, StatsOf
<1> QED BY <1>3, <1>15, RequestStepAccounts

(* A commit lays its rows over the tables, new entries, gifts and hits      *)
(* beside the old ones.                                                     *)
Laid(new, old, rows) ==
  /\ DOMAIN new = DOMAIN old \cup DOMAIN rows
  /\ \A k \in DOMAIN rows : new[k] = rows[k]
  /\ \A k \in DOMAIN old : k \notin DOMAIN rows => new[k] = old[k]

LEMMA OverlayLaid == ASSUME NEW old, NEW rows, NEW new, new = Overlay(old, rows) PROVE Laid(new, old, rows)
  BY DEF Overlay, Laid

LEMMA CommitTables ==
  ASSUME IInv, NEW r \in Request, Commit(r), NEW w, w = writes[r], NEW j, j = job[r]
  PROVE  /\ TypeOK /\ IsWrites(w) /\ LedgerFits(w, players) /\ HandFits(w, j) /\ GiftFits(w, j)
         /\ j \in Job /\ Needs(j) \subseteq DOMAIN players /\ DOMAIN w.players = Needs(j)
         /\ Laid(ledger', ledger, w.ledger) /\ DOMAIN w.ledger \cap DOMAIN ledger = {}
         /\ Laid(hands', hands, w.hands)
         /\ Laid(gifts', gifts, w.gifts) /\ DOMAIN w.gifts \cap DOMAIN gifts = {}
         /\ Laid(stats', stats, w.stats)
         /\ Laid(hits', hits, w.hits) /\ DOMAIN w.hits \cap DOMAIN hits = {}
         /\ pot' = IF w.hit THEN JackpotSeed ELSE pot + w.contribution
<1>1. Planned(r) /\ TypeOK /\ LocksHeld
  BY DEF Commit, MayCommit, Planned, IInv
<1>2. PlanFits(r) /\ IsWrites(w)
  BY <1>1 DEF IInv, PlansFit, TypeOK
<1>3. /\ LedgerFits(w, players) /\ HandFits(w, j) /\ GiftFits(w, j) /\ DOMAIN w.players = Needs(j)
  BY <1>2 DEF PlanFits
<1>4. j \in Job /\ Needs(j) \subseteq DOMAIN players
  BY <1>1 DEF LocksHeld, Planned
<1>5. /\ DOMAIN w.ledger \cap DOMAIN ledger = {} /\ DOMAIN w.gifts \cap DOMAIN gifts = {}
      /\ DOMAIN w.hits \cap DOMAIN hits = {}
  BY <1>2, PlanMeetsNothing DEF Conflicts
<1>6. /\ ledger' = Overlay(ledger, w.ledger) /\ hands' = Upsert(hands, w.hands)
      /\ gifts' = Overlay(gifts, w.gifts) /\ stats' = Overlay(stats, w.stats)
      /\ hits' = Overlay(hits, w.hits) /\ pot' = IF w.hit THEN JackpotSeed ELSE pot + w.contribution
  BY DEF Commit
<1>7. Laid(hands', hands, w.hands)
  <2>1. /\ DOMAIN hands' = DOMAIN hands \cup DOMAIN w.hands
        /\ \A h \in DOMAIN hands : h \notin DOMAIN w.hands => hands'[h] = hands[h]
    BY <1>6 DEF Upsert
  <2>2. ASSUME NEW h \in DOMAIN w.hands PROVE hands'[h] = w.hands[h]
    <3>1. w.hands[h] \in HandRow /\ w.hands[h].user = j.user
      BY <1>2, <1>3 DEF IsWrites, IsTable, HandFits
    <3>2. CASE h \in DOMAIN hands
      <4>1. hands[h].user = j.user /\ hands[h].game = w.hands[h].game
        BY <1>3, <3>2 DEF HandFits
      <4>2. hands'[h] = [w.hands[h] EXCEPT !.user = hands[h].user, !.game = hands[h].game]
        BY <1>6, <3>2 DEF Upsert
      <4>3. PICK row : row = w.hands[h]
        OBVIOUS
      <4>4. [row EXCEPT !.user = row.user, !.game = row.game] = row
        BY <3>1, <4>3 DEF HandRow
      <4>5. hands[h].user = row.user /\ hands[h].game = row.game
        BY <3>1, <4>1, <4>3
      <4>6. hands'[h] = [row EXCEPT !.user = row.user, !.game = row.game]
        BY <4>2, <4>3, <4>5
      <4> QED BY <4>3, <4>4, <4>6
    <3>3. CASE h \notin DOMAIN hands
      BY <1>6, <3>3 DEF Upsert
    <3> QED BY <3>2, <3>3
  <2> QED BY <2>1, <2>2 DEF Laid
<1> QED BY <1>1, <1>2, <1>3, <1>4, <1>5, <1>6, <1>7, OverlayLaid

(* While a request holds the jackpot row, no other commit moves the pot.    *)
LEMMA PotHeld ==
  ASSUME IInv, NEW r \in Request, Commit(r), NEW s \in Request, s # r, phase[s] = "jackpot"
  PROVE  pot' = pot
<1>1. PICK w : w = writes[r]
  OBVIOUS
<1>2. potLock = s /\ phase[r] # "jackpot" /\ potLock # Free
  BY RequestAssumption DEF IInv, LocksHeld
<1>3. ~w.hit /\ ~(w.contribution > 0)
  BY <1>1, <1>2 DEF Commit, MayCommit
<1>4. w.contribution \in Nat /\ pot \in Nat
  BY <1>1 DEF IInv, TypeOK, IsWrites
<1>5. w.contribution = 0
  BY <1>3, <1>4
<1>6. pot' = IF w.hit THEN JackpotSeed ELSE pot + w.contribution
  BY <1>1 DEF Commit
<1> QED BY <1>3, <1>4, <1>5, <1>6

(* A commit writes statistics of its own player alone.                      *)
LEMMA StatsHeld ==
  ASSUME IInv, AccountsFit, NEW r \in Request, Commit(r), NEW p, p \notin Needs(job[r])
  PROVE  \A g : StatsOf(p, g)' = StatsOf(p, g)
<1>1. PICK w, j : w = writes[r] /\ j = job[r]
  OBVIOUS
<1>2. AccountPlanned(r) /\ j \in Job
  BY <1>1, CommitTables DEF Commit, MayCommit, Planned, AccountsFit
<1>3. HandFits(w, j) /\ Laid(stats', stats, w.stats) /\ IsWrites(w)
  BY <1>1, CommitTables
<1>4. \A g : <<p, g>> \notin DOMAIN w.stats
  <2>1. CASE j.op \in {"start", "act"}
    <3>1. HandPlanned(w, j)
      BY <1>1, <1>2, <2>1 DEF AccountPlanned
    <3>2. w.hands[j.hand].user = j.user /\ j.user # p
      BY <1>1, <1>3, <3>1 DEF HandPlanned, HandTells, HandFits, Needs
    <3>3. DOMAIN w.stats \subseteq {<<j.user, w.hands[j.hand].game>>}
      BY <3>1, <3>2 DEF HandPlanned, Settles, Row
    <3> QED BY <3>2, <3>3
  <2>2. CASE j.op \in ClaimKind
    BY <1>1, <1>2, <2>2 DEF AccountPlanned, ClaimPlanned, NoHand
  <2>3. CASE j.op = "gift"
    BY <1>1, <1>2, <2>3 DEF AccountPlanned, GiftPlanned, NoHand
  <2> QED BY <1>2, <2>1, <2>2, <2>3 DEF Job, StartJob, ActJob, ClaimJob, GiftJob
<1> QED BY <1>3, <1>4 DEF StatsOf, Laid

LEMMA CommitAccounts ==
  ASSUME IInv, AccountsFit, NEW r \in Request, Commit(r)
  PROVE  AccountsFit'
<1>1. PICK w, j : w = writes[r] /\ j = job[r]
  OBVIOUS
<1>2. /\ HandFits(w, j) /\ Laid(hands', hands, w.hands) /\ Needs(j) \subseteq DOMAIN players
      /\ DOMAIN w.players = Needs(j)
  BY <1>1, CommitTables
<1>3. AccountPlanned(r) /\ Planned(r)
  BY DEF Commit, MayCommit, Planned, AccountsFit
<1>4. StakesStored'
  <2>1. ASSUME NEW h \in DOMAIN w.hands PROVE w.hands[h].wagered = w.hands[h].state.staked
    <3>1. j.op \in {"start", "act"} /\ h = j.hand
      BY <1>2 DEF HandFits
    <3> QED BY <1>1, <1>3, <3>1 DEF AccountPlanned, HandPlanned
  <2>2. \A h \in DOMAIN hands : hands[h].wagered = hands[h].state.staked
    BY DEF AccountsFit, StakesStored
  <2>3. \A h \in DOMAIN hands' : hands'[h].wagered = hands'[h].state.staked
    BY <1>2, <2>1, <2>2 DEF Laid
  <2> QED BY <2>3 DEF StakesStored
<1>5. /\ phase'[r] = "idle"
      /\ \A s \in Request : s # r => phase'[s] = phase[s] /\ job'[s] = job[s] /\ writes'[s] = writes[s]
  BY DEF Commit, End, IInv, TypeOK
<1>6. ASSUME NEW s \in Request, Planned(s)' PROVE AccountPlanned(s)'
  <2>1. s # r /\ Planned(s) /\ phase'[s] = phase[s] /\ job'[s] = job[s] /\ writes'[s] = writes[s]
    BY <1>5, <1>6 DEF Planned
  <2>2. AccountPlanned(s)
    BY <2>1 DEF AccountsFit
  <2>3. Needs(j) \cap Needs(job[s]) = {} /\ Needs(job[s]) \subseteq DOMAIN players
    BY <1>1, <1>3, <2>1, OthersDiffer DEF IInv, LocksHeld, Planned
  <2>4. \A p \in Needs(job[s]) : players'[p] = players[p]
    BY <1>1, <1>2, <2>3 DEF Commit
  <2>5. \A g : StatsOf(job[s].user, g)' = StatsOf(job[s].user, g)
    <3>1. job[s].user \notin Needs(job[r])
      BY <1>1, <2>3 DEF Needs
    <3>2. PICK p : p = job[s].user
      OBVIOUS
    <3>3. \A g : StatsOf(p, g)' = StatsOf(p, g)
      BY <1>1, <3>1, <3>2, StatsHeld
    <3> QED BY <2>1, <3>2, <3>3
  <2>6. phase[s] = "jackpot" => pot' = pot
    BY <2>1, PotHeld
  <2> QED BY <2>1, <2>2, <2>4, <2>5, <2>6, AccountKept
<1> QED BY <1>4, <1>6 DEF AccountsFit

LEMMA EnsurePlayerAccounts ==
  ASSUME IInv, AccountsFit, NEW p \in Player, EnsurePlayer(p)
  PROVE  AccountsFit'
<1>1. /\ players' = Overlay(players, NewPlayer(p).players) /\ p \notin DOMAIN players
      /\ UNCHANGED <<hands, gifts, stats, hits, pot, locks, phase, job, writes, clock>>
  BY DEF EnsurePlayer
<1>2. \A q \in DOMAIN players : players'[q] = players[q]
  <2>1. DOMAIN NewPlayer(p).players = {p}
    BY NewPlayerRows
  <2> QED BY <1>1, <2>1 DEF Overlay
<1>3. ASSUME NEW s \in Request, Planned(s)' PROVE AccountPlanned(s)'
  <2>1. Planned(s) /\ AccountPlanned(s)
    BY <1>1, <1>3 DEF Planned, AccountsFit
  <2>2. Needs(job[s]) \subseteq DOMAIN players
    BY <2>1 DEF IInv, LocksHeld, Planned
  <2>3. \A q \in Needs(job[s]) : players'[q] = players[q]
    BY <1>2, <2>2
  <2>4. \A g : StatsOf(job[s].user, g)' = StatsOf(job[s].user, g)
    BY <1>1 DEF StatsOf
  <2> QED BY <1>1, <2>1, <2>3, <2>4, AccountKept
<1>4. StakesStored'
  BY <1>1 DEF AccountsFit, StakesStored
<1> QED BY <1>3, <1>4 DEF AccountsFit

LEMMA NextAccountsFit ==
  ASSUME IInv, AccountsFit, [Next]_vars
  PROVE  AccountsFit'
<1>1. ASSUME UNCHANGED <<tables, phase, job, writes>> PROVE AccountsFit'
  <2>1. tables' = tables /\ phase' = phase /\ job' = job /\ writes' = writes
    BY <1>1
  <2>2. ASSUME NEW s \in Request, Planned(s)' PROVE AccountPlanned(s)'
    <3>1. Planned(s) /\ AccountPlanned(s)
      BY <2>1, <2>2 DEF Planned, AccountsFit
    <3>2. players' = players /\ pot' = pot /\ \A g : StatsOf(job[s].user, g)' = StatsOf(job[s].user, g)
      BY <2>1 DEF tables, StatsOf
    <3> QED BY <2>1, <3>1, <3>2, AccountKept
  <2>3. StakesStored'
    BY <2>1 DEF AccountsFit, StakesStored, tables
  <2> QED BY <2>2, <2>3 DEF AccountsFit
<1>2. CASE UNCHANGED vars
  BY <1>1, <1>2 DEF vars
<1>3. CASE Tick
  BY <1>1, <1>3 DEF Tick
<1>4. ASSUME NEW p \in Player, EnsurePlayer(p) PROVE AccountsFit'
  BY <1>4, EnsurePlayerAccounts
<1>5. ASSUME NEW r \in Request, Begin(r) PROVE AccountsFit'
  BY <1>5, BeginAccounts
<1>6. ASSUME NEW r \in Request, Abort(r) PROVE AccountsFit'
  BY <1>6, EndAccounts DEF Abort
<1>7. ASSUME NEW r \in Request, Step(r) PROVE AccountsFit'
  <2>1. CASE LockPlayer(r)
    BY <2>1, LockPlayerAccounts
  <2>2. CASE PlanStart(r)
    BY <2>2, PlanStartAccounts
  <2>3. CASE PlanAction(r)
    BY <2>3, PlanActionAccounts
  <2>4. CASE PlanDaily(r)
    BY <2>4, PlanDailyAccounts
  <2>5. CASE PlanBailout(r)
    BY <2>5, PlanBailoutAccounts
  <2>6. CASE PlanGift(r)
    BY <2>6, PlanGiftAccounts
  <2>7. CASE Answer(r)
    BY <2>7, EndAccounts DEF Answer
  <2>8. CASE LockJackpot(r)
    BY <2>8, LockJackpotAccounts
  <2>9. CASE Commit(r)
    BY <2>9, CommitAccounts
  <2> QED BY <1>7, <2>1, <2>2, <2>3, <2>4, <2>5, <2>6, <2>7, <2>8, <2>9 DEF Step
<1> QED BY <1>2, <1>3, <1>4, <1>5, <1>6, <1>7 DEF Next

------------------------------------------------------------------------------
(* The hands' account.                                                      *)

(* A plan for one player numbers its entries on from the player's last, and *)
(* together they are the change of the balance.                             *)
LEMMA PlanKeys ==
  ASSUME TypeOK, NEW w, IsWrites(w), LedgerFits(w, players), NEW u, DOMAIN w.players = {u},
         NEW f, \A k \in DOMAIN w.ledger : f[k] = w.ledger[k].amount
  PROVE  /\ IsFiniteSet(DOMAIN w.ledger) /\ \A k \in DOMAIN w.ledger : k[1] = u
         /\ SumFunctionOnSet(f, DOMAIN w.ledger) = w.players[u].balance - players[u].balance
<1>1. PICK row, to : row = players[u] /\ to = w.players[u]
  OBVIOUS
<1>2. row \in PlayerRow /\ to \in PlayerRow
  BY <1>1 DEF TypeOK, IsWrites, IsTable, LedgerFits
<1>3. PICK a, b : a = row.ledgerSeq /\ b = to.ledgerSeq
  OBVIOUS
<1>4. a \in Nat /\ b \in Nat /\ row.balance \in Nat /\ to.balance \in Nat
  BY <1>2, <1>3 DEF PlayerRow
<1>5. Continues(w, u, row)
  BY <1>1 DEF LedgerFits
<1>6. /\ a <= b
      /\ \A n \in a + 1 .. b :
           /\ <<u, n>> \in DOMAIN w.ledger
           /\ w.ledger[<<u, n>>].balanceAfter = After(w, u, n - 1, row) + w.ledger[<<u, n>>].amount
      /\ to.balance = After(w, u, b, row)
  BY <1>1, <1>3, <1>5 DEF Continues
<1>7. \A k \in DOMAIN w.ledger : k \in Player \X Nat /\ w.ledger[k] \in Entry
  BY DEF IsWrites, IsTable
<1>8. \A k \in DOMAIN w.ledger : k[1] = u /\ k[2] \in a + 1 .. b
  BY <1>1, <1>3 DEF LedgerFits
<1>9. DOMAIN w.ledger = {<<u, n>> : n \in a + 1 .. b}
  <2>1. \A k \in DOMAIN w.ledger : k = <<u, k[2]>> /\ k[2] \in a + 1 .. b
    BY <1>7, <1>8
  <2> QED BY <1>6, <2>1
<1>10. IsFiniteSet(DOMAIN w.ledger)
  <2>1. a + 1 \in Int /\ b \in Int
    BY <1>4
  <2>2. IsFiniteSet({<<u, n>> : n \in a + 1 .. b})
    BY <2>1, KeysFinite
  <2> QED BY <1>9, <2>2
<1>11. PICK at : at = [n \in a .. b |-> After(w, u, n, row)]
  OBVIOUS
<1>12. at[a] = row.balance /\ at[b] = to.balance
  BY <1>3, <1>4, <1>6, <1>11 DEF After
<1>13. \A n \in a + 1 .. b : at[n] = w.ledger[<<u, n>>].balanceAfter /\ at[n] \in Nat
  <2> SUFFICES ASSUME NEW n \in a + 1 .. b
               PROVE  at[n] = w.ledger[<<u, n>>].balanceAfter /\ at[n] \in Nat
    OBVIOUS
  <2>1. n \in a .. b /\ n # row.ledgerSeq
    BY <1>3, <1>4
  <2>2. w.ledger[<<u, n>>].balanceAfter \in Nat
    BY <1>6, <1>7 DEF Entry
  <2> QED BY <1>11, <2>1, <2>2 DEF After
<1>14. at \in [a .. b -> Int]
  <2>1. \A n \in a .. b : at[n] \in Int
    <3> SUFFICES ASSUME NEW n \in a .. b PROVE at[n] \in Int
      OBVIOUS
    <3>1. CASE n = a
      BY <1>4, <1>12, <3>1
    <3>2. CASE n # a
      <4>1. n \in a + 1 .. b
        BY <1>4, <3>2
      <4>2. at[n] \in Nat
        BY <1>13, <4>1
      <4> QED BY <4>2
    <3> QED BY <3>1, <3>2
  <2> QED BY <1>11, <2>1
<1>15. \A n \in a + 1 .. b : f[<<u, n>>] = at[n] - at[n - 1]
  <2> SUFFICES ASSUME NEW n \in a + 1 .. b PROVE f[<<u, n>>] = at[n] - at[n - 1]
    OBVIOUS
  <2>1. n - 1 \in a .. b
    BY <1>4
  <2>2. at[n - 1] = After(w, u, n - 1, row) /\ at[n - 1] \in Int
    BY <1>11, <1>14, <2>1
  <2>3. f[<<u, n>>] = w.ledger[<<u, n>>].amount /\ w.ledger[<<u, n>>].amount \in Int
    BY <1>6, <1>7 DEF Entry
  <2>4. w.ledger[<<u, n>>].balanceAfter = After(w, u, n - 1, row) + w.ledger[<<u, n>>].amount
    BY <1>6
  <2> QED BY <1>13, <2>2, <2>3, <2>4
<1>16. SumFunctionOnSet(f, KeysFrom(u, a, b)) = at[b] - at[a]
  <2>1. a \in Nat /\ b \in Nat /\ a <= b
    BY <1>4, <1>6
  <2> QED BY <1>14, <1>15, <2>1, Telescope
<1>17. DOMAIN w.ledger = KeysFrom(u, a, b)
  BY <1>9 DEF KeysFrom
<1> QED BY <1>1, <1>8, <1>10, <1>12, <1>16, <1>17

(* Which step may change the tables.                                        *)
LEMMA StepKinds ==
  ASSUME [Next]_vars
  PROVE  \/ \E r \in Request : Commit(r)
         \/ \E p \in Player : EnsurePlayer(p)
         \/ UNCHANGED tables
  BY DEF Next, Begin, Step, PostHands, PostAction, PostClaim, PostGift, Arrive,
         LockPlayer, PlanStart, PlanAction, PlanDaily, PlanBailout, PlanGift, Plan, Answer,
         LockJackpot, Abort, Tick, vars, tables

(* A new player's entry is beside the others, and is no hand's and no gift's. *)
LEMMA JoinTables ==
  ASSUME IInv, NEW p \in Player, EnsurePlayer(p), NEW key, key = <<p, 1>>
  PROVE  /\ DOMAIN ledger' = DOMAIN ledger \cup {key} /\ key \notin DOMAIN ledger
         /\ ledger'[key].kind = "initial_grant"
         /\ \A k \in DOMAIN ledger : ledger'[k] = ledger[k]
         /\ UNCHANGED <<hands, gifts, stats, hits, pot>>
<1>1. PICK new : new = NewPlayer(p)
  OBVIOUS
<1>2. /\ p \notin DOMAIN players /\ ledger' = Overlay(ledger, new.ledger)
      /\ UNCHANGED <<hands, gifts, stats, hits, pot>>
  BY <1>1 DEF EnsurePlayer
<1>3. DOMAIN new.ledger = {key}
  BY <1>1, NewPlayerRows
<1>4. new.ledger[key].kind = "initial_grant"
  <2>1. PICK rows : rows = Row(p, BlankPlayer)
    OBVIOUS
  <2>2. p \in DOMAIN rows /\ rows[p] = BlankPlayer /\ BlankPlayer \in PlayerRow /\ BlankPlayer.ledgerSeq = 0
    BY <2>1 DEF Row, BlankPlayer, PlayerRow
  <2>3. PICK none : none = Draft(rows)
    OBVIOUS
  <2>4. Whole(none, p) /\ none.players = rows
    BY <2>2, <2>3, DraftTells
  <2>5. Posted(new, none, p, "initial_grant", StartingBalance, NoRef)
    BY <1>1, <2>1, <2>3, <2>4, PostTells DEF NewPlayer
  <2>6. key = <<p, none.players[p].ledgerSeq + 1>>
    BY <2>2, <2>4
  <2> QED BY <2>5, <2>6 DEF Posted
<1>5. key \notin DOMAIN ledger
  BY <1>2 DEF IInv, LedgerExplainsBalance, Explains
<1> QED BY <1>2, <1>3, <1>4, <1>5 DEF Overlay

LEMMA CommitFinite ==
  ASSUME IInv, AccountsFit, FiniteTables, NEW r \in Request, Commit(r)
  PROVE  FiniteTables'
<1>1. PICK w, j : w = writes[r] /\ j = job[r]
  OBVIOUS
<1>2. /\ TypeOK /\ IsWrites(w) /\ LedgerFits(w, players) /\ HandFits(w, j)
      /\ j \in Job /\ DOMAIN w.players = Needs(j)
      /\ Laid(ledger', ledger, w.ledger) /\ Laid(hands', hands, w.hands)
      /\ Laid(gifts', gifts, w.gifts) /\ Laid(hits', hits, w.hits)
  BY <1>1, CommitTables
<1>3. AccountPlanned(r)
  BY DEF Commit, MayCommit, Planned, AccountsFit
<1>4. IsFiniteSet(DOMAIN w.hands) /\ IsFiniteSet(DOMAIN w.hits)
  <2>1. DOMAIN w.hands \subseteq {j.hand} /\ DOMAIN w.hits \subseteq DOMAIN w.hands
    BY <1>2 DEF HandFits
  <2> QED BY <2>1, FS_Singleton, FS_Subset
<1>5. IsFiniteSet(DOMAIN w.ledger) /\ IsFiniteSet(DOMAIN w.gifts)
  <2>1. CASE j.op \in {"start", "act"}
    <3>1. DOMAIN w.gifts = {}
      BY <1>1, <1>3, <2>1 DEF AccountPlanned, HandPlanned, HandTells
    <3>2. PICK u : u = j.user
      OBVIOUS
    <3>3. DOMAIN w.players = {u}
      BY <1>2, <2>1, <3>2 DEF Needs
    <3>4. PICK f : f = [k \in DOMAIN w.ledger |-> w.ledger[k].amount]
      OBVIOUS
    <3>5. \A k \in DOMAIN w.ledger : f[k] = w.ledger[k].amount
      BY <3>4
    <3> QED BY <1>2, <3>1, <3>3, <3>5, PlanKeys, FS_EmptySet
  <2>2. CASE j.op \in ClaimKind
    <3>1. DOMAIN w.gifts = {} /\ DOMAIN w.ledger = {NextKey(j.user)}
      BY <1>1, <1>3, <2>2 DEF AccountPlanned, ClaimPlanned
    <3>2. PICK key : key = NextKey(j.user)
      OBVIOUS
    <3>3. DOMAIN w.ledger = {key}
      BY <3>1, <3>2
    <3>4. IsFiniteSet({key}) /\ IsFiniteSet({})
      BY FS_EmptySet, FS_Singleton
    <3> QED BY <3>1, <3>3, <3>4
  <2>3. CASE j.op = "gift"
    <3>1. DOMAIN w.gifts = {j.gift} /\ DOMAIN w.ledger = {NextKey(j.user)} \cup {NextKey(j.to)}
      BY <1>1, <1>3, <2>3 DEF AccountPlanned, GiftPlanned, Row
    <3>2. PICK out, in, id : out = NextKey(j.user) /\ in = NextKey(j.to) /\ id = j.gift
      OBVIOUS
    <3>3. DOMAIN w.gifts = {id} /\ DOMAIN w.ledger = {out} \cup {in}
      BY <3>1, <3>2
    <3>4. IsFiniteSet({id}) /\ IsFiniteSet({out}) /\ IsFiniteSet({in})
      BY FS_Singleton
    <3>5. IsFiniteSet({out} \cup {in})
      BY <3>4, FS_Union
    <3>6. IsFiniteSet(DOMAIN w.gifts)
      BY <3>3, <3>4
    <3>7. IsFiniteSet(DOMAIN w.ledger)
      BY <3>3, <3>5
    <3> QED BY <3>6, <3>7
  <2> QED BY <1>2, <2>1, <2>2, <2>3 DEF Job, StartJob, ActJob, ClaimJob, GiftJob
<1>6. /\ IsFiniteSet(DOMAIN ledger \cup DOMAIN w.ledger) /\ IsFiniteSet(DOMAIN hands \cup DOMAIN w.hands)
      /\ IsFiniteSet(DOMAIN gifts \cup DOMAIN w.gifts) /\ IsFiniteSet(DOMAIN hits \cup DOMAIN w.hits)
  BY <1>4, <1>5, FS_Union DEF FiniteTables
<1> QED BY <1>2, <1>6 DEF FiniteTables, Laid

(* The entries a commit adds to a hand are the request's, and only to its   *)
(* own hand.                                                                *)
LEMMA CommitEntries ==
  ASSUME IInv, AccountsFit, NEW r \in Request, Commit(r), NEW w, w = writes[r], NEW j, j = job[r]
  PROVE  /\ j.op \in {"start", "act"} => HandEntries(w, j.hand) /\ DOMAIN w.hands = {j.hand}
         /\ j.op \notin {"start", "act"} =>
              DOMAIN w.hands = {} /\ \A k \in DOMAIN w.ledger : w.ledger[k].kind \notin HandKind
<1>1. AccountPlanned(r)
  BY DEF Commit, MayCommit, Planned, AccountsFit
<1>2. j \in Job
  BY CommitTables
<1>3. CASE j.op \in {"start", "act"}
  BY <1>1, <1>3 DEF AccountPlanned, HandPlanned, HandTells
<1>4. CASE j.op \in ClaimKind
  BY <1>1, <1>4 DEF AccountPlanned, ClaimPlanned, NoHand, HandKind, ClaimKind
<1>5. CASE j.op = "gift"
  BY <1>1, <1>5 DEF AccountPlanned, GiftPlanned, NoHand, HandKind
<1> QED BY <1>2, <1>3, <1>4, <1>5 DEF Job, StartJob, ActJob, ClaimJob, GiftJob

LEMMA AmountsInt ==
  ASSUME TypeOK
  PROVE  \A k \in DOMAIN ledger : Amounts[k] = ledger[k].amount /\ Amounts[k] \in Int
<1>1. \A k \in DOMAIN ledger : ledger[k] \in Entry
  BY DEF TypeOK, IsTable
<1> QED BY <1>1 DEF Amounts, Entry

LEMMA CommitHandsAccount ==
  ASSUME IInv, BookFits, AccountsFit, FiniteTables, HandsAccount, NEW r \in Request, Commit(r)
  PROVE  HandsAccount'
<1>1. PICK w, j : w = writes[r] /\ j = job[r]
  OBVIOUS
<1>2. /\ TypeOK /\ IsWrites(w) /\ LedgerFits(w, players) /\ HandFits(w, j)
      /\ j \in Job /\ DOMAIN w.players = Needs(j) /\ Needs(j) \subseteq DOMAIN players
      /\ Laid(ledger', ledger, w.ledger) /\ DOMAIN w.ledger \cap DOMAIN ledger = {}
      /\ Laid(hands', hands, w.hands)
  BY <1>1, CommitTables
<1>3. /\ \A h \in DOMAIN w.hands : h \in DOMAIN hands' /\ NetSoFar(h)' = PlannedNet(w, h)
      /\ \A h : h \notin DOMAIN w.hands => NetSoFar(h)' = NetSoFar(h)
  BY <1>1, CommitRows
<1>4. /\ j.op \in {"start", "act"} => HandEntries(w, j.hand) /\ DOMAIN w.hands = {j.hand}
      /\ j.op \notin {"start", "act"} =>
           DOMAIN w.hands = {} /\ \A k \in DOMAIN w.ledger : w.ledger[k].kind \notin HandKind
  BY <1>1, CommitEntries
<1>5. PICK old, new : old = Amounts /\ new = Amounts'
  OBVIOUS
<1>6. /\ \A k \in DOMAIN ledger : old[k] \in Int /\ new[k] = old[k]
      /\ \A k \in DOMAIN w.ledger : new[k] = w.ledger[k].amount /\ new[k] \in Int
  <2>1. \A k \in DOMAIN ledger : old[k] = ledger[k].amount /\ old[k] \in Int
    BY <1>2, <1>5, AmountsInt
  <2>2. \A k \in DOMAIN ledger' : new[k] = ledger'[k].amount
    BY <1>5 DEF Amounts
  <2>3. \A k \in DOMAIN w.ledger : w.ledger[k] \in Entry
    BY <1>2 DEF IsWrites, IsTable
  <2> QED BY <1>2, <2>1, <2>2, <2>3 DEF Laid, Entry
<1>7. \A h : EntriesAt(h) \subseteq DOMAIN ledger /\ IsFiniteSet(EntriesAt(h))
  <2>1. \A h : EntriesAt(h) \subseteq DOMAIN ledger
    BY DEF EntriesAt
  <2> QED BY <2>1, FS_Subset DEF FiniteTables
<1>8. \A h : SumFunctionOnSet(new, EntriesAt(h)) = SumFunctionOnSet(old, EntriesAt(h))
  <2> SUFFICES ASSUME NEW h PROVE SumFunctionOnSet(new, EntriesAt(h)) = SumFunctionOnSet(old, EntriesAt(h))
    OBVIOUS
  <2>1. \A k \in EntriesAt(h) : new[k] = old[k]
    BY <1>6, <1>7
  <2> QED BY <1>7, <2>1, SumSame
<1>9. \A h \in HandId : SumFunctionOnSet(old, EntriesAt(h)) = NetSoFar(h)
  BY <1>5 DEF HandsAccount, NetSoFar
<1>10. ASSUME NEW h \in HandId, h \notin DOMAIN w.hands
       PROVE  SumFunctionOnSet(new, EntriesAt(h)') = NetSoFar(h)'
  <2>1. \A k \in DOMAIN w.ledger : w.ledger[k].kind \in HandKind => w.ledger[k].ref # h
    BY <1>4, <1>10 DEF HandEntries
  <2>2. EntriesAt(h)' = EntriesAt(h)
    BY <1>2, <2>1 DEF EntriesAt, Laid
  <2> QED BY <1>3, <1>8, <1>9, <1>10, <2>2
<1>11. ASSUME NEW h \in HandId, h \in DOMAIN w.hands
       PROVE  SumFunctionOnSet(new, EntriesAt(h)') = NetSoFar(h)'
  <2>1. j.op \in {"start", "act"} /\ h = j.hand /\ HandEntries(w, h)
    BY <1>4, <1>11
  <2>2. PICK u : u = j.user
    OBVIOUS
  <2>3. DOMAIN w.players = {u} /\ u \in DOMAIN players
    BY <1>2, <2>1, <2>2 DEF Needs
  <2>4. w.players[u].balance - players[u].balance = PlannedNet(w, h) - NetSoFar(h)
    BY <1>1, <2>1, <2>2 DEF BookFits, MovesFit, PlanMoves, HandMoves, Commit, MayCommit, Planned
  <2>5. EntriesAt(h)' = EntriesAt(h) \cup DOMAIN w.ledger /\ EntriesAt(h) \cap DOMAIN w.ledger = {}
    BY <1>2, <2>1 DEF EntriesAt, Laid, HandEntries
  <2>6. /\ IsFiniteSet(DOMAIN w.ledger)
        /\ SumFunctionOnSet(new, DOMAIN w.ledger) = w.players[u].balance - players[u].balance
    BY <1>2, <1>6, <2>3, PlanKeys
  <2>7. \A k \in EntriesAt(h) \cup DOMAIN w.ledger : new[k] \in Int
    BY <1>6, <1>7
  <2>8. SumFunctionOnSet(new, EntriesAt(h)')
          = SumFunctionOnSet(new, EntriesAt(h)) + SumFunctionOnSet(new, DOMAIN w.ledger)
    BY <1>7, <2>5, <2>6, <2>7, SumUnion
  <2>9. SumFunctionOnSet(new, EntriesAt(h)) = NetSoFar(h)
    BY <1>8, <1>9
  <2>10. NetSoFar(h) \in Int /\ PlannedNet(w, h) \in Int
    <3>1. w.hands[h] \in HandRow /\ (h \in DOMAIN w.hits => w.hits[h] \in Nat)
      BY <1>2, <1>11 DEF IsWrites, IsTable
    <3>2. w.hands[h].state \in EngineView
      BY <3>1, EngineAssumption DEF HandRow
    <3>3. PlannedNet(w, h) \in Int
      BY <3>1, <3>2 DEF PlannedNet, HandRow, EngineView
    <3> QED BY <1>2, <3>3, NetInt
  <2>11. NetSoFar(h)' = PlannedNet(w, h)
    BY <1>3, <1>11
  <2> QED BY <2>4, <2>6, <2>8, <2>9, <2>10, <2>11
<1>12. \A h \in HandId : SumFunctionOnSet(Amounts, EntriesAt(h))' = NetSoFar(h)'
  BY <1>5, <1>10, <1>11
<1>13. ASSUME NEW k \in DOMAIN ledger', ledger'[k].kind \in HandKind
       PROVE  ledger'[k].ref \in DOMAIN hands' /\ hands'[ledger'[k].ref].user = k[1]
  <2>1. CASE k \in DOMAIN w.ledger
    <3>1. j.op \in {"start", "act"} /\ DOMAIN w.hands = {j.hand} /\ ledger'[k].ref = j.hand
      BY <1>2, <1>4, <1>13, <2>1 DEF Laid, HandEntries
    <3>2. k[1] = j.user
      BY <1>2, <2>1, <3>1 DEF LedgerFits, Needs
    <3> QED BY <1>2, <3>1, <3>2 DEF Laid, HandFits
  <2>2. CASE k \notin DOMAIN w.ledger
    <3>1. k \in DOMAIN ledger /\ ledger'[k] = ledger[k]
      BY <1>2, <2>2 DEF Laid
    <3>2. PICK h : h = ledger[k].ref
      OBVIOUS
    <3>3. h \in DOMAIN hands /\ hands[h].user = k[1]
      BY <1>13, <3>1, <3>2 DEF HandsAccount
    <3> QED BY <1>2, <3>1, <3>2, <3>3 DEF Laid, HandFits
  <2> QED BY <2>1, <2>2
<1> QED BY <1>12, <1>13 DEF HandsAccount, NetSoFar

LEMMA JoinHandsAccount ==
  ASSUME IInv, FiniteTables, HandsAccount, NEW p \in Player, EnsurePlayer(p)
  PROVE  HandsAccount' /\ FiniteTables'
<1>1. PICK key : key = <<p, 1>>
  OBVIOUS
<1>2. /\ DOMAIN ledger' = DOMAIN ledger \cup {key} /\ key \notin DOMAIN ledger
      /\ ledger'[key].kind = "initial_grant"
      /\ \A k \in DOMAIN ledger : ledger'[k] = ledger[k]
      /\ UNCHANGED <<hands, gifts, stats, hits, pot>>
  BY <1>1, JoinTables
<1>3. \A h : EntriesAt(h)' = EntriesAt(h)
  BY <1>2 DEF EntriesAt, HandKind
<1>4. \A h : SumFunctionOnSet(Amounts', EntriesAt(h)) = SumFunctionOnSet(Amounts, EntriesAt(h))
  <2> SUFFICES ASSUME NEW h
               PROVE  SumFunctionOnSet(Amounts', EntriesAt(h)) = SumFunctionOnSet(Amounts, EntriesAt(h))
    OBVIOUS
  <2>1. EntriesAt(h) \subseteq DOMAIN ledger /\ IsFiniteSet(EntriesAt(h))
    <3>1. EntriesAt(h) \subseteq DOMAIN ledger
      BY DEF EntriesAt
    <3> QED BY <3>1, FS_Subset DEF FiniteTables
  <2>2. PICK old, new : old = Amounts /\ new = Amounts'
    OBVIOUS
  <2>3. \A k \in EntriesAt(h) : old[k] = new[k]
    BY <1>2, <2>1, <2>2 DEF Amounts
  <2> QED BY <2>1, <2>2, <2>3, SumSame
<1>5. \A h \in HandId : SumFunctionOnSet(Amounts, EntriesAt(h))' = NetSoFar(h)'
  BY <1>2, <1>3, <1>4 DEF HandsAccount, NetSoFar, NetOf
<1>6. \A k \in DOMAIN ledger' : ledger'[k].kind \in HandKind =>
        ledger'[k].ref \in DOMAIN hands' /\ hands'[ledger'[k].ref].user = k[1]
  BY <1>2 DEF HandsAccount, HandKind
<1>7. FiniteTables'
  BY <1>2, FS_AddElement DEF FiniteTables
<1> QED BY <1>5, <1>6, <1>7 DEF HandsAccount, NetSoFar

------------------------------------------------------------------------------
(* The statistics.                                                          *)

Closes(w, h) == h \in DOMAIN w.hands /\ w.hands[h].status = "settled"

(* A commit settles at most the hand it plays, and leaves those that are    *)
(* settled as they are.                                                     *)
LEMMA CommitSettled ==
  ASSUME IInv, NEW r \in Request, Commit(r), NEW w, w = writes[r], NEW h, h = job[r].hand
  PROVE  /\ \A k \in SettledHands : hands'[k] = hands[k] /\ k \in DOMAIN hands
         /\ Closes(w, h) => /\ h \notin SettledHands /\ h \in DOMAIN hands' /\ hands'[h] = w.hands[h]
                            /\ SettledHands' = SettledHands \cup {h}
         /\ ~Closes(w, h) => SettledHands' = SettledHands
<1>1. PICK j : j = job[r]
  OBVIOUS
<1>2. HandFits(w, j) /\ Laid(hands', hands, w.hands)
  BY <1>1, CommitTables
<1>3. \A k \in DOMAIN w.hands : k = h /\ (k \in DOMAIN hands => hands[k].status = "active")
  BY <1>1, <1>2 DEF HandFits
<1>4. \A k \in SettledHands : k \in DOMAIN hands /\ hands[k].status = "settled" /\ k \notin DOMAIN w.hands
  BY <1>3 DEF SettledHands, SettledIn
<1>5. \A k \in SettledHands : k \in DOMAIN hands' /\ hands'[k] = hands[k]
  BY <1>2, <1>4 DEF Laid
<1>6. \A k \in SettledHands' : k \in SettledHands \/ (k = h /\ Closes(w, h))
  BY <1>2, <1>3 DEF SettledHands, SettledIn, Laid, Closes
<1>7. Closes(w, h) => /\ h \notin SettledHands /\ h \in DOMAIN hands' /\ hands'[h] = w.hands[h]
                      /\ h \in SettledHands'
  BY <1>2, <1>4 DEF SettledHands, SettledIn, Laid, Closes
<1>8. SettledHands \subseteq SettledHands'
  BY <1>4, <1>5 DEF SettledHands, SettledIn
<1> QED BY <1>4, <1>5, <1>6, <1>7, <1>8

LEMMA HandTypes ==
  ASSUME TypeOK, NEW h \in DOMAIN hands
  PROVE  /\ Wagered[h] = hands[h].wagered /\ Returned[h] = hands[h].returned
         /\ Wagered[h] \in Nat /\ Returned[h] \in Nat
<1>1. hands[h].wagered \in Nat /\ hands[h].returned \in Nat
  BY DEF TypeOK, IsTable, HandRow
<1> QED BY <1>1 DEF Wagered, Returned

LEMMA CommitStats ==
  ASSUME IInv, AccountsFit, FiniteTables, StatsCountHands, NEW r \in Request, Commit(r)
  PROVE  StatsCountHands'
<1>1. PICK w, j, h : w = writes[r] /\ j = job[r] /\ h = j.hand
  OBVIOUS
<1>2. /\ TypeOK /\ IsWrites(w) /\ HandFits(w, j) /\ Laid(stats', stats, w.stats) /\ j \in Job
      /\ Laid(hands', hands, w.hands)
  BY <1>1, CommitTables
<1>3. AccountPlanned(r)
  BY DEF Commit, MayCommit, Planned, AccountsFit
<1>4. /\ \A k \in SettledHands : hands'[k] = hands[k] /\ k \in DOMAIN hands
      /\ Closes(w, h) => /\ h \notin SettledHands /\ h \in DOMAIN hands' /\ hands'[h] = w.hands[h]
                         /\ SettledHands' = SettledHands \cup {h}
      /\ ~Closes(w, h) => SettledHands' = SettledHands
  BY <1>1, CommitSettled
<1>5. /\ Closes(w, h) => /\ j.op \in {"start", "act"} /\ w.hands[h].user = j.user /\ j.user \in Player
                         /\ w.stats = Row(<<j.user, w.hands[h].game>>,
                                          Counted(StatsOf(j.user, w.hands[h].game), w.hands[h]))
      /\ ~Closes(w, h) => DOMAIN w.stats = {}
  <2>1. CASE j.op \in {"start", "act"}
    <3>1. HandPlanned(w, j)
      BY <1>1, <1>3, <2>1 DEF AccountPlanned
    <3>2. DOMAIN w.hands = {h} /\ w.hands[h].user = j.user /\ j.user \in Player
      BY <1>1, <1>2, <2>1, <3>1 DEF HandPlanned, HandTells, HandFits, Job, StartJob, ActJob, ClaimJob, ClaimKind, GiftJob
    <3> QED BY <1>1, <2>1, <3>1, <3>2 DEF HandPlanned, Settles, Closes
  <2>2. CASE j.op \in ClaimKind
    BY <1>1, <1>3, <2>2 DEF AccountPlanned, ClaimPlanned, NoHand, Closes
  <2>3. CASE j.op = "gift"
    BY <1>1, <1>3, <2>3 DEF AccountPlanned, GiftPlanned, NoHand, Closes
  <2> QED BY <1>2, <2>1, <2>2, <2>3 DEF Job, StartJob, ActJob, ClaimJob, GiftJob
<1> SUFFICES ASSUME NEW p \in Player, NEW g \in Game
             PROVE  StatsOf(p, g)' = [hands    |-> Cardinality(SettledOf(p, g)'),
                                      wagered  |-> SumFunctionOnSet(Wagered', SettledOf(p, g)'),
                                      returned |-> SumFunctionOnSet(Returned', SettledOf(p, g)')]
  BY DEF StatsCountHands
<1>6. PICK S, T : S = SettledOf(p, g) /\ T = SettledOf(p, g)'
  OBVIOUS
<1>7. PICK bet, won, bet2, won2 : bet = Wagered /\ won = Returned /\ bet2 = Wagered' /\ won2 = Returned'
  OBVIOUS
<1>8. StatsOf(p, g) = [hands    |-> Cardinality(S),
                       wagered  |-> SumFunctionOnSet(bet, S),
                       returned |-> SumFunctionOnSet(won, S)]
  BY <1>6, <1>7 DEF StatsCountHands
<1>9. S \subseteq SettledHands /\ S \subseteq DOMAIN hands /\ IsFiniteSet(S)
  <2>1. S \subseteq SettledHands /\ S \subseteq DOMAIN hands
    BY <1>6 DEF SettledOf, SettledHands, SettledIn
  <2> QED BY <2>1, FS_Subset DEF FiniteTables
<1>10. \A k \in S : /\ bet2[k] = bet[k] /\ won2[k] = won[k] /\ bet[k] \in Int /\ won[k] \in Int
  <2> SUFFICES ASSUME NEW k \in S
               PROVE  bet2[k] = bet[k] /\ won2[k] = won[k] /\ bet[k] \in Int /\ won[k] \in Int
    OBVIOUS
  <2>1. k \in DOMAIN hands /\ k \in DOMAIN hands' /\ hands'[k] = hands[k]
    BY <1>2, <1>4, <1>9 DEF Laid
  <2>2. bet[k] = hands[k].wagered /\ won[k] = hands[k].returned /\ bet[k] \in Nat /\ won[k] \in Nat
    BY <1>2, <1>7, <2>1, HandTypes
  <2>3. bet2[k] = hands'[k].wagered /\ won2[k] = hands'[k].returned
    BY <1>7, <2>1 DEF Wagered, Returned
  <2> QED BY <2>1, <2>2, <2>3
<1>11. CASE Closes(w, h) /\ w.hands[h].user = p /\ w.hands[h].game = g
  <2>1. T = S \cup {h} /\ h \notin S
    <3>1. h \notin S
      BY <1>4, <1>9, <1>11
    <3>2. \A k \in SettledHands : hands'[k] = hands[k]
      BY <1>4
    <3>3. SettledHands' = SettledHands \cup {h} /\ hands'[h].user = p /\ hands'[h].game = g
      BY <1>4, <1>11
    <3>4. T = {k \in SettledHands' : hands'[k].user = p /\ hands'[k].game = g}
      BY <1>6 DEF SettledOf
    <3>5. S = {k \in SettledHands : hands[k].user = p /\ hands[k].game = g}
      BY <1>6 DEF SettledOf
    <3> QED BY <3>1, <3>2, <3>3, <3>4, <3>5
  <2>2. bet2[h] = w.hands[h].wagered /\ won2[h] = w.hands[h].returned /\ bet2[h] \in Int /\ won2[h] \in Int
    <3>1. w.hands[h] \in HandRow
      BY <1>2, <1>11 DEF Closes, IsWrites, IsTable
    <3> QED BY <1>4, <1>7, <1>11, <3>1 DEF Wagered, Returned, HandRow
  <2>3. SumFunctionOnSet(bet2, T) = SumFunctionOnSet(bet, S) + bet2[h]
    BY <1>9, <1>10, <2>1, <2>2, OneMore
  <2>4. SumFunctionOnSet(won2, T) = SumFunctionOnSet(won, S) + won2[h]
    BY <1>9, <1>10, <2>1, <2>2, OneMore
  <2>5. Cardinality(T) = Cardinality(S) + 1
    BY <1>9, <2>1, FS_AddElement
  <2>6. StatsOf(p, g)' = Counted(StatsOf(p, g), w.hands[h])
    <3>1. w.stats = Row(<<p, g>>, Counted(StatsOf(p, g), w.hands[h]))
      BY <1>5, <1>11
    <3>2. <<p, g>> \in DOMAIN w.stats /\ w.stats[<<p, g>>] = Counted(StatsOf(p, g), w.hands[h])
      BY <3>1 DEF Row
    <3> QED BY <1>2, <3>2 DEF StatsOf, Laid
  <2>7. StatsOf(p, g)' = [hands    |-> Cardinality(S) + 1,
                          wagered  |-> SumFunctionOnSet(bet, S) + w.hands[h].wagered,
                          returned |-> SumFunctionOnSet(won, S) + w.hands[h].returned]
    BY <1>8, <2>6 DEF Counted
  <2> QED BY <1>6, <1>7, <2>2, <2>3, <2>4, <2>5, <2>7
<1>12. CASE ~(Closes(w, h) /\ w.hands[h].user = p /\ w.hands[h].game = g)
  <2>1. T = S
    <3>1. T = {k \in SettledHands' : hands'[k].user = p /\ hands'[k].game = g}
      BY <1>6 DEF SettledOf
    <3>2. S = {k \in SettledHands : hands[k].user = p /\ hands[k].game = g}
      BY <1>6 DEF SettledOf
    <3> QED BY <1>4, <1>12, <3>1, <3>2
  <2>2. SumFunctionOnSet(bet2, S) = SumFunctionOnSet(bet, S) /\ SumFunctionOnSet(won2, S) = SumFunctionOnSet(won, S)
    BY <1>9, <1>10, SumSame
  <2>3. StatsOf(p, g)' = StatsOf(p, g)
    <3>1. <<p, g>> \notin DOMAIN w.stats
      BY <1>5, <1>12 DEF Row
    <3> QED BY <1>2, <3>1 DEF StatsOf, Laid
  <2> QED BY <1>6, <1>7, <1>8, <2>1, <2>2, <2>3
<1> QED BY <1>11, <1>12

------------------------------------------------------------------------------
(* The jackpot.                                                             *)

(* What the jackpot takes in and gives out by a commit.                     *)
LEMMA CommitPot ==
  ASSUME IInv, AccountsFit, NEW r \in Request, Commit(r), NEW w, w = writes[r], NEW h, h = job[r].hand
  PROVE  /\ w.contribution \in Nat /\ w.hit \in BOOLEAN
         /\ ~Closes(w, h) => w.contribution = 0 /\ ~w.hit
         /\ Closes(w, h) => w.contribution = 2 * w.hands[h].state.jackpotStake
         /\ w.hit => w.hits = Row(h, (pot + w.contribution) \div 100)
         /\ ~w.hit => DOMAIN w.hits = {}
<1>1. PICK j : j = job[r]
  OBVIOUS
<1>2. IsWrites(w) /\ HandFits(w, j) /\ j \in Job
  BY <1>1, CommitTables
<1>3. AccountPlanned(r)
  BY DEF Commit, MayCommit, Planned, AccountsFit
<1>4. w.contribution \in Nat /\ w.hit \in BOOLEAN
  BY <1>2 DEF IsWrites
<1>5. w.hit => phase[r] = "jackpot"
  BY DEF Commit, MayCommit
<1>6. w.hit => w.hits = Row(h, (pot + w.contribution) \div 100)
  BY <1>3, <1>5 DEF AccountPlanned, HitPlanned
<1>7. ~w.hit => DOMAIN w.hits = {}
  BY <1>2 DEF HandFits
<1>8. /\ ~Closes(w, h) => w.contribution = 0
      /\ Closes(w, h) => w.contribution = 2 * w.hands[h].state.jackpotStake
  <2>1. CASE j.op \in {"start", "act"}
    BY <1>1, <1>3, <2>1 DEF AccountPlanned, HandPlanned, HandTells, Settles, Closes
  <2>2. CASE j.op \in ClaimKind
    BY <1>1, <1>3, <2>2 DEF AccountPlanned, ClaimPlanned, NoHand, Closes
  <2>3. CASE j.op = "gift"
    BY <1>1, <1>3, <2>3 DEF AccountPlanned, GiftPlanned, NoHand, Closes
  <2> QED BY <1>2, <2>1, <2>2, <2>3 DEF Job, StartJob, ActJob, ClaimJob, GiftJob
<1>9. ~Closes(w, h) => ~w.hit
  BY <1>1, <1>2 DEF HandFits, Closes
<1> QED BY <1>4, <1>6, <1>7, <1>8, <1>9

LEMMA CommitJackpot ==
  ASSUME IInv, AccountsFit, FiniteTables, JackpotBalances, NEW r \in Request, Commit(r)
  PROVE  JackpotBalances'
<1>1. PICK w, h, c : w = writes[r] /\ h = job[r].hand /\ c = w.contribution
  OBVIOUS
<1>2. /\ TypeOK /\ IsWrites(w) /\ Laid(hands', hands, w.hands)
      /\ Laid(hits', hits, w.hits) /\ DOMAIN w.hits \cap DOMAIN hits = {}
      /\ pot' = IF w.hit THEN JackpotSeed ELSE pot + c
  BY <1>1, CommitTables
<1>3. /\ \A k \in SettledHands : hands'[k] = hands[k] /\ k \in DOMAIN hands
      /\ Closes(w, h) => /\ h \notin SettledHands /\ h \in DOMAIN hands' /\ hands'[h] = w.hands[h]
                         /\ SettledHands' = SettledHands \cup {h}
      /\ ~Closes(w, h) => SettledHands' = SettledHands
  BY <1>1, CommitSettled
<1>4. /\ c \in Nat /\ w.hit \in BOOLEAN
      /\ ~Closes(w, h) => c = 0 /\ ~w.hit
      /\ Closes(w, h) => c = 2 * w.hands[h].state.jackpotStake
      /\ w.hit => w.hits = Row(h, (pot + c) \div 100)
      /\ ~w.hit => DOMAIN w.hits = {}
  BY <1>1, CommitPot
<1>5. PICK rows, rows2, won, won2, in, left :
        rows = hands /\ rows2 = hands' /\ won = hits /\ won2 = hits' /\ in = pot /\ left = pot'
  OBVIOUS
<1>6. SettledHands = SettledIn(rows) /\ SettledHands' = SettledIn(rows2)
  BY <1>5 DEF SettledHands, SettledIn
<1>7. /\ IsFiniteSet(SettledIn(rows)) /\ IsFiniteSet(DOMAIN won)
      /\ in \in Nat /\ c \in Nat
  <2>1. SettledIn(rows) \subseteq DOMAIN hands
    BY <1>5 DEF SettledIn
  <2> QED BY <1>2, <1>4, <1>5, <2>1, FS_Subset DEF FiniteTables, TypeOK
<1>8. /\ \A k \in SettledIn(rows) :
           k \in DOMAIN rows2 /\ rows2[k] = rows[k] /\ rows[k].state.jackpotStake \in Nat
      /\ \/ /\ h \notin SettledIn(rows) /\ h \in DOMAIN rows2
            /\ SettledIn(rows2) = SettledIn(rows) \cup {h}
            /\ c = 2 * rows2[h].state.jackpotStake
         \/ SettledIn(rows2) = SettledIn(rows) /\ c = 0
  <2>1. \A k \in SettledIn(rows) : k \in DOMAIN rows2 /\ rows2[k] = rows[k] /\ k \in DOMAIN hands
    BY <1>2, <1>3, <1>5, <1>6 DEF Laid
  <2>2. \A k \in DOMAIN hands : hands[k].state.jackpotStake \in Nat
    BY <1>2, EngineAssumption DEF TypeOK, IsTable, HandRow, EngineView
  <2> QED BY <1>3, <1>4, <1>5, <1>6, <2>1, <2>2
<1>9. \A k \in DOMAIN won : k \in DOMAIN won2 /\ won2[k] = won[k] /\ won[k] \in Nat
  BY <1>2, <1>5 DEF Laid, TypeOK, IsTable
<1>10. w.hit => /\ h \notin DOMAIN won /\ DOMAIN won2 = DOMAIN won \cup {h}
                /\ won2[h] = (in + c) \div 100 /\ left = JackpotSeed
  <2>1. ASSUME w.hit PROVE DOMAIN w.hits = {h} /\ w.hits[h] = (in + c) \div 100
    BY <1>4, <1>5, <2>1 DEF Row
  <2> QED BY <1>2, <1>5, <2>1 DEF Laid
<1>11. ~w.hit => DOMAIN won2 = DOMAIN won /\ left = in + c
  BY <1>2, <1>4, <1>5 DEF Laid
<1>12. PotExplained(rows, won, in)
  BY <1>5 DEF JackpotBalances
<1>13. \/ /\ h \notin DOMAIN won /\ DOMAIN won2 = DOMAIN won \cup {h}
          /\ won2[h] = (in + c) \div 100 /\ left = JackpotSeed
       \/ DOMAIN won2 = DOMAIN won /\ left = in + c
  BY <1>10, <1>11
<1>14. Feeds(rows, rows2, h, c) /\ Pays(won, won2, h, c, in, left)
  BY <1>8, <1>9, <1>13 DEF Feeds, Pays
<1>15. PotExplained(rows2, won2, left)
  BY <1>7, <1>12, <1>14, PotGoesOn
<1> QED BY <1>5, <1>15 DEF JackpotBalances

------------------------------------------------------------------------------
(* Gifts.                                                                   *)

PlannedOf(w, p, kind) == {k \in DOMAIN w.ledger : k[1] = p /\ w.ledger[k].kind = kind}

(* What a commit adds to a player's entries of one kind.                    *)
LEMMA CommitOfKind ==
  ASSUME IInv, NEW r \in Request, Commit(r), NEW w, w = writes[r], NEW p, NEW kind
  PROVE  /\ EntriesOfKind(p, kind)' = EntriesOfKind(p, kind) \cup PlannedOf(w, p, kind)
         /\ EntriesOfKind(p, kind) \cap DOMAIN w.ledger = {}
         /\ EntriesOfKind(p, kind) \subseteq DOMAIN ledger
         /\ \A k \in EntriesOfKind(p, kind) : /\ ledger'[k] = ledger[k] /\ Amounts'[k] = Amounts[k]
                                              /\ Amounts[k] \in Int
         /\ \A k \in DOMAIN w.ledger : ledger'[k] = w.ledger[k] /\ Amounts'[k] = w.ledger[k].amount
<1>1. TypeOK /\ Laid(ledger', ledger, w.ledger) /\ DOMAIN w.ledger \cap DOMAIN ledger = {}
  BY CommitTables
<1>2. /\ EntriesOfKind(p, kind) \subseteq DOMAIN ledger
      /\ EntriesOfKind(p, kind) \cap DOMAIN w.ledger = {}
  BY <1>1 DEF EntriesOfKind
<1>3. \A k \in DOMAIN ledger : /\ k \in DOMAIN ledger' /\ k \notin DOMAIN w.ledger
                               /\ ledger'[k] = ledger[k]
  BY <1>1 DEF Laid
<1>4. \A k \in DOMAIN w.ledger : k \in DOMAIN ledger' /\ ledger'[k] = w.ledger[k]
  BY <1>1 DEF Laid
<1>5. PICK old, new : old = Amounts /\ new = Amounts'
  OBVIOUS
<1>6. \A k \in DOMAIN ledger' : new[k] = ledger'[k].amount
  BY <1>5 DEF Amounts
<1>7. \A k \in DOMAIN ledger : old[k] = ledger[k].amount /\ old[k] \in Int
  BY <1>1, <1>5, AmountsInt
<1>8. DOMAIN ledger' = DOMAIN ledger \cup DOMAIN w.ledger
  BY <1>1 DEF Laid
<1>9. EntriesOfKind(p, kind)' = EntriesOfKind(p, kind) \cup PlannedOf(w, p, kind)
  <2>1. EntriesOfKind(p, kind)' = {k \in DOMAIN ledger' : k[1] = p /\ ledger'[k].kind = kind}
    BY DEF EntriesOfKind
  <2>2. EntriesOfKind(p, kind) = {k \in DOMAIN ledger : k[1] = p /\ ledger[k].kind = kind}
    BY DEF EntriesOfKind
  <2> QED BY <1>3, <1>4, <1>8, <2>1, <2>2 DEF PlannedOf
<1> QED BY <1>2, <1>3, <1>4, <1>5, <1>6, <1>7, <1>9

LEMMA GiftTypes ==
  ASSUME TypeOK, NEW id \in DOMAIN gifts
  PROVE  /\ GiftAmounts[id] = gifts[id].amount /\ GiftAmounts[id] \in Nat
         /\ gifts[id] \in GiftRow
<1>1. gifts[id] \in GiftRow
  BY DEF TypeOK, IsTable
<1> QED BY <1>1 DEF GiftAmounts, GiftRow

(* The gift and the two entries of a commit, if it sends one.               *)
LEMMA CommitGift ==
  ASSUME IInv, AccountsFit, NEW r \in Request, Commit(r), NEW w, w = writes[r], NEW j, j = job[r]
  PROVE  /\ Laid(gifts', gifts, w.gifts) /\ DOMAIN w.gifts \cap DOMAIN gifts = {}
         /\ j.op # "gift" => /\ DOMAIN w.gifts = {}
                             /\ \A k \in DOMAIN w.ledger : w.ledger[k].kind \notin {"gift_out", "gift_in"}
         /\ j.op = "gift" => GiftPlanned(w, j) /\ GiftRowOf(j) \in GiftRow /\ j.user # j.to /\ j \in GiftJob
<1>1. AccountPlanned(r)
  BY DEF Commit, MayCommit, Planned, AccountsFit
<1>2. j \in Job
  BY CommitTables
<1>3. CASE j.op \in {"start", "act"}
  <2>1. DOMAIN w.gifts = {} /\ HandEntries(w, j.hand)
    BY <1>1, <1>3 DEF AccountPlanned, HandPlanned, HandTells
  <2> QED BY <1>3, <2>1, CommitTables DEF HandEntries, HandKind
<1>4. CASE j.op \in ClaimKind
  <2>1. DOMAIN w.gifts = {} /\ \A k \in DOMAIN w.ledger : w.ledger[k].kind = j.op
    BY <1>1, <1>4 DEF AccountPlanned, ClaimPlanned
  <2> QED BY <1>4, <2>1, CommitTables DEF ClaimKind
<1>5. CASE j.op = "gift"
  <2>1. GiftPlanned(w, j)
    BY <1>1, <1>5 DEF AccountPlanned
  <2>2. j \in GiftJob
    BY <1>2, <1>5 DEF Job, StartJob, ActJob, ClaimJob, ClaimKind
  <2>3. j.user # j.to
    BY <2>2 DEF IInv, RowsOwned
  <2>4. GiftRowOf(j) \in GiftRow
    BY <2>2 DEF GiftJob, GiftRowOf, GiftRow
  <2> QED BY <1>5, <2>1, <2>2, <2>3, <2>4, CommitTables
<1> QED BY <1>2, <1>3, <1>4, <1>5 DEF Job, StartJob, ActJob, ClaimJob, GiftJob

(* What is known of a gift's two entries and its row.                       *)
LEMMA GiftRows ==
  ASSUME IInv, NEW w, NEW j, GiftPlanned(w, j), j.user # j.to,
         NEW out, out = NextKey(j.user), NEW in, in = NextKey(j.to)
  PROVE  /\ out # in /\ out[1] = j.user /\ in[1] = j.to
         /\ w.gifts = Row(j.gift, GiftRowOf(j)) /\ DOMAIN w.ledger = {out, in}
         /\ w.ledger[out].kind = "gift_out" /\ w.ledger[out].amount = -j.amount
         /\ w.ledger[in].kind = "gift_in" /\ w.ledger[in].amount = j.amount
<1>1. out[1] = j.user /\ in[1] = j.to
  BY DEF NextKey
<1>2. GiftRowOf(j).amount = j.amount
  BY DEF GiftRowOf
<1> QED BY <1>1, <1>2 DEF GiftPlanned

LEMMA CommitGifts ==
  ASSUME IInv, AccountsFit, FiniteTables, GiftsBalance, NEW r \in Request, Commit(r)
  PROVE  GiftsBalance'
<1>1. PICK w, j, g : w = writes[r] /\ j = job[r] /\ g = GiftRowOf(j)
  OBVIOUS
<1>2. /\ Laid(gifts', gifts, w.gifts) /\ DOMAIN w.gifts \cap DOMAIN gifts = {}
      /\ j.op # "gift" => /\ DOMAIN w.gifts = {}
                          /\ \A k \in DOMAIN w.ledger : w.ledger[k].kind \notin {"gift_out", "gift_in"}
      /\ j.op = "gift" => GiftPlanned(w, j) /\ g \in GiftRow /\ j.user # j.to /\ j \in GiftJob
  BY <1>1, CommitGift
<1>3. TypeOK
  BY DEF IInv
<1>4. PICK e, e2, f, f2 : e = Amounts /\ e2 = Amounts' /\ f = GiftAmounts /\ f2 = GiftAmounts'
  OBVIOUS
<1>5. \A p, kind : /\ EntriesOfKind(p, kind)' = EntriesOfKind(p, kind) \cup PlannedOf(w, p, kind)
                   /\ EntriesOfKind(p, kind) \cap DOMAIN w.ledger = {}
                   /\ IsFiniteSet(EntriesOfKind(p, kind))
                   /\ \A k \in EntriesOfKind(p, kind) : e2[k] = e[k] /\ e[k] \in Int
  <2> TAKE p, kind
  <2>1. EntriesOfKind(p, kind) \subseteq DOMAIN ledger
    BY <1>1, CommitOfKind
  <2>2. IsFiniteSet(EntriesOfKind(p, kind))
    BY <2>1, FS_Subset DEF FiniteTables
  <2> QED BY <1>1, <1>4, <2>2, CommitOfKind
<1>6. \A k \in DOMAIN w.ledger : e2[k] = w.ledger[k].amount
  BY <1>1, <1>4, CommitOfKind
<1>7. \A id \in DOMAIN gifts : /\ id \in DOMAIN gifts' /\ gifts'[id] = gifts[id] /\ f2[id] = f[id]
                               /\ f[id] \in Int
  <2> TAKE id \in DOMAIN gifts
  <2>1. id \in DOMAIN gifts' /\ gifts'[id] = gifts[id]
    BY <1>2 DEF Laid
  <2>2. f[id] = gifts[id].amount /\ f[id] \in Nat
    BY <1>3, <1>4, GiftTypes
  <2>3. f2[id] = gifts'[id].amount
    BY <1>4, <2>1 DEF GiftAmounts
  <2> QED BY <2>1, <2>2, <2>3
<1>8. \A p : /\ GiftsFrom(p) \subseteq DOMAIN gifts /\ IsFiniteSet(GiftsFrom(p))
             /\ GiftsTo(p) \subseteq DOMAIN gifts /\ IsFiniteSet(GiftsTo(p))
  <2> TAKE p
  <2>1. GiftsFrom(p) \subseteq DOMAIN gifts /\ GiftsTo(p) \subseteq DOMAIN gifts
    BY DEF GiftsFrom, GiftsTo
  <2> QED BY <2>1, FS_Subset DEF FiniteTables
<1> SUFFICES ASSUME NEW p \in Player
             PROVE  /\ SumFunctionOnSet(e2, EntriesOfKind(p, "gift_out")') = -SumFunctionOnSet(f2, GiftsFrom(p)')
                    /\ SumFunctionOnSet(e2, EntriesOfKind(p, "gift_in")') = SumFunctionOnSet(f2, GiftsTo(p)')
  BY <1>4 DEF GiftsBalance
<1>9. PICK EO, EI, GF, GT : /\ EO = EntriesOfKind(p, "gift_out") /\ EI = EntriesOfKind(p, "gift_in")
                            /\ GF = GiftsFrom(p) /\ GT = GiftsTo(p)
  OBVIOUS
<1>10. /\ SumFunctionOnSet(e, EO) = -SumFunctionOnSet(f, GF)
       /\ SumFunctionOnSet(e, EI) = SumFunctionOnSet(f, GT)
  BY <1>4, <1>9 DEF GiftsBalance
<1>11. /\ IsFiniteSet(EO) /\ \A k \in EO : e2[k] = e[k] /\ e[k] \in Int
       /\ IsFiniteSet(EI) /\ \A k \in EI : e2[k] = e[k] /\ e[k] \in Int
       /\ IsFiniteSet(GF) /\ \A id \in GF : f2[id] = f[id] /\ f[id] \in Int
       /\ IsFiniteSet(GT) /\ \A id \in GT : f2[id] = f[id] /\ f[id] \in Int
  BY <1>5, <1>7, <1>8, <1>9
<1>12. /\ SumFunctionOnSet(e2, EO) = -SumFunctionOnSet(f2, GF)
       /\ SumFunctionOnSet(e2, EI) = SumFunctionOnSet(f2, GT)
  BY <1>10, <1>11, SumSame
<1>13. CASE j.op # "gift"
  <2>1. \A kind \in {"gift_out", "gift_in"} : PlannedOf(w, p, kind) = {}
    BY <1>2, <1>13 DEF PlannedOf
  <2>2. EntriesOfKind(p, "gift_out")' = EO /\ EntriesOfKind(p, "gift_in")' = EI
    BY <1>5, <1>9, <2>1
  <2>3. DOMAIN gifts' = DOMAIN gifts
    BY <1>2, <1>13 DEF Laid
  <2>4. GiftsFrom(p)' = GF /\ GiftsTo(p)' = GT
    BY <1>7, <1>9, <2>3 DEF GiftsFrom, GiftsTo
  <2> QED BY <1>12, <2>2, <2>4
<1>14. CASE j.op = "gift"
  <2>1. PICK out, in, id, n : out = NextKey(j.user) /\ in = NextKey(j.to) /\ id = j.gift /\ n = j.amount
    OBVIOUS
  <2>2. /\ out # in /\ out[1] = j.user /\ in[1] = j.to
        /\ w.gifts = Row(id, g) /\ DOMAIN w.ledger = {out, in}
        /\ w.ledger[out].kind = "gift_out" /\ w.ledger[out].amount = -n
        /\ w.ledger[in].kind = "gift_in" /\ w.ledger[in].amount = n
    BY <1>1, <1>2, <1>14, <2>1, GiftRows
  <2>3. g.from = j.user /\ g.to = j.to /\ g.amount = n /\ n \in Nat
    BY <1>1, <1>2, <1>14, <2>1 DEF GiftRowOf, GiftJob
  <2>4. DOMAIN w.gifts = {id} /\ w.gifts[id] = g
    BY <2>2 DEF Row
  <2>5. DOMAIN gifts' = DOMAIN gifts \cup {id} /\ id \notin DOMAIN gifts /\ gifts'[id] = g
    BY <1>2, <2>4 DEF Laid
  <2>6. f2[id] = n
    BY <1>4, <2>3, <2>5 DEF GiftAmounts
  <2>7. e2[out] = -n /\ e2[in] = n
    BY <1>6, <2>2
  <2>8. /\ out \notin EO /\ in \notin EI /\ id \notin GF /\ id \notin GT
    BY <1>5, <1>8, <1>9, <2>2, <2>5
  <2>9. /\ SumFunctionOnSet(e2, EO \cup {out}) = SumFunctionOnSet(e, EO) + (-n)
        /\ SumFunctionOnSet(f2, GF \cup {id}) = SumFunctionOnSet(f, GF) + n
        /\ SumFunctionOnSet(f, GF) \in Int
    BY <1>11, <2>3, <2>6, <2>7, <2>8, OneMore
  <2>10. /\ SumFunctionOnSet(e2, EI \cup {in}) = SumFunctionOnSet(e, EI) + n
         /\ SumFunctionOnSet(f2, GT \cup {id}) = SumFunctionOnSet(f, GT) + n
    BY <1>11, <2>3, <2>6, <2>7, <2>8, OneMore
  <2>11. PICK a, b, c, d : /\ a = SumFunctionOnSet(e, EO) /\ b = SumFunctionOnSet(f, GF)
                           /\ c = SumFunctionOnSet(e, EI) /\ d = SumFunctionOnSet(f, GT)
    OBVIOUS
  <2>12. PlannedOf(w, p, "gift_out") = IF p = j.user THEN {out} ELSE {}
    BY <2>2 DEF PlannedOf
  <2>13. PlannedOf(w, p, "gift_in") = IF p = j.to THEN {in} ELSE {}
    BY <2>2 DEF PlannedOf
  <2>14. GiftsFrom(p)' = IF p = j.user THEN GF \cup {id} ELSE GF
    <3>1. GiftsFrom(p)' = {x \in DOMAIN gifts \cup {id} : gifts'[x].from = p}
      BY <2>5 DEF GiftsFrom
    <3>2. GF = {x \in DOMAIN gifts : gifts[x].from = p}
      BY <1>9 DEF GiftsFrom
    <3> QED BY <1>7, <2>3, <2>5, <3>1, <3>2
  <2>15. GiftsTo(p)' = IF p = j.to THEN GT \cup {id} ELSE GT
    <3>1. GiftsTo(p)' = {x \in DOMAIN gifts \cup {id} : gifts'[x].to = p}
      BY <2>5 DEF GiftsTo
    <3>2. GT = {x \in DOMAIN gifts : gifts[x].to = p}
      BY <1>9 DEF GiftsTo
    <3> QED BY <1>7, <2>3, <2>5, <3>1, <3>2
  <2>16. SumFunctionOnSet(e2, EntriesOfKind(p, "gift_out")') = -SumFunctionOnSet(f2, GiftsFrom(p)')
    <3>1. CASE p = j.user
      <4>1. EntriesOfKind(p, "gift_out")' = EO \cup {out} /\ GiftsFrom(p)' = GF \cup {id}
        BY <1>5, <1>9, <2>12, <2>14, <3>1
      <4>2. a = -b /\ b \in Int
        BY <1>10, <2>9, <2>11
      <4>3. a + (-n) = -(b + n)
        BY <2>3, <4>2
      <4> QED BY <2>9, <2>11, <4>1, <4>3
    <3>2. CASE p # j.user
      <4>1. EntriesOfKind(p, "gift_out")' = EO /\ GiftsFrom(p)' = GF
        BY <1>5, <1>9, <2>12, <2>14, <3>2
      <4> QED BY <1>12, <4>1
    <3> QED BY <3>1, <3>2
  <2>17. SumFunctionOnSet(e2, EntriesOfKind(p, "gift_in")') = SumFunctionOnSet(f2, GiftsTo(p)')
    <3>1. CASE p = j.to
      <4>1. EntriesOfKind(p, "gift_in")' = EI \cup {in} /\ GiftsTo(p)' = GT \cup {id}
        BY <1>5, <1>9, <2>13, <2>15, <3>1
      <4> QED BY <1>10, <2>10, <4>1
    <3>2. CASE p # j.to
      <4>1. EntriesOfKind(p, "gift_in")' = EI /\ GiftsTo(p)' = GT
        BY <1>5, <1>9, <2>13, <2>15, <3>2
      <4> QED BY <1>12, <4>1
    <3> QED BY <3>1, <3>2
  <2> QED BY <2>16, <2>17
<1> QED BY <1>13, <1>14

LEMMA JoinGifts ==
  ASSUME IInv, FiniteTables, GiftsBalance, NEW q \in Player, EnsurePlayer(q)
  PROVE  GiftsBalance'
<1>1. PICK key : key = <<q, 1>>
  OBVIOUS
<1>2. /\ DOMAIN ledger' = DOMAIN ledger \cup {key} /\ ledger'[key].kind = "initial_grant"
      /\ \A k \in DOMAIN ledger : ledger'[k] = ledger[k]
      /\ gifts' = gifts
  BY <1>1, JoinTables
<1>3. \A p, kind : kind # "initial_grant" => EntriesOfKind(p, kind)' = EntriesOfKind(p, kind)
  BY <1>2 DEF EntriesOfKind
<1>4. PICK e, e2 : e = Amounts /\ e2 = Amounts'
  OBVIOUS
<1>5. \A k \in DOMAIN ledger : e[k] = e2[k]
  BY <1>2, <1>4 DEF Amounts
<1>6. \A p, kind : SumFunctionOnSet(e2, EntriesOfKind(p, kind)) = SumFunctionOnSet(e, EntriesOfKind(p, kind))
  <2> TAKE p, kind
  <2>1. EntriesOfKind(p, kind) \subseteq DOMAIN ledger
    BY DEF EntriesOfKind
  <2>2. IsFiniteSet(EntriesOfKind(p, kind))
    BY <2>1, FS_Subset DEF FiniteTables
  <2> QED BY <1>5, <2>1, <2>2, SumSame
<1> SUFFICES ASSUME NEW p \in Player
             PROVE  /\ SumFunctionOnSet(e2, EntriesOfKind(p, "gift_out")') = -SumFunctionOnSet(GiftAmounts', GiftsFrom(p)')
                    /\ SumFunctionOnSet(e2, EntriesOfKind(p, "gift_in")') = SumFunctionOnSet(GiftAmounts', GiftsTo(p)')
  BY <1>4 DEF GiftsBalance
<1>7. GiftAmounts' = GiftAmounts /\ GiftsFrom(p)' = GiftsFrom(p) /\ GiftsTo(p)' = GiftsTo(p)
  BY <1>2 DEF GiftAmounts, GiftsFrom, GiftsTo
<1>8. /\ SumFunctionOnSet(e, EntriesOfKind(p, "gift_out")) = -SumFunctionOnSet(GiftAmounts, GiftsFrom(p))
      /\ SumFunctionOnSet(e, EntriesOfKind(p, "gift_in")) = SumFunctionOnSet(GiftAmounts, GiftsTo(p))
  BY <1>4 DEF GiftsBalance
<1> QED BY <1>3, <1>6, <1>7, <1>8

------------------------------------------------------------------------------
(* The accounts balance throughout.                                         *)

LEMMA InitAccounts == Init => AccountsInv
<1> SUFFICES ASSUME Init PROVE AccountsInv
  OBVIOUS
<1>1. /\ DOMAIN ledger = {} /\ DOMAIN hands = {} /\ DOMAIN gifts = {} /\ DOMAIN stats = {}
      /\ DOMAIN hits = {} /\ pot = JackpotSeed
  BY DEF Init, NoRows
<1>2. StakesStored /\ \A r \in Request : ~Planned(r)
  BY <1>1 DEF Init, StakesStored, Planned
<1>3. FiniteTables
  BY <1>1, FS_EmptySet DEF FiniteTables
<1>4. HandsAccount
  <2>1. \A h : EntriesAt(h) = {}
    BY <1>1 DEF EntriesAt
  <2> QED BY <1>1, <2>1, SumEmpty DEF HandsAccount
<1>5. SettledHands = {} /\ \A p, g : SettledOf(p, g) = {}
  BY <1>1 DEF SettledHands, SettledIn, SettledOf
<1>6. StatsCountHands
  <2>1. \A p, g : StatsOf(p, g) = [hands |-> 0, wagered |-> 0, returned |-> 0]
    BY <1>1 DEF StatsOf, NoStats
  <2> QED BY <1>5, <2>1, SumEmpty, FS_EmptySet DEF StatsCountHands
<1>7. JackpotBalances
  BY <1>1, NothingPaid DEF JackpotBalances
<1>8. GiftsBalance
  <2>1. \A p, kind : EntriesOfKind(p, kind) = {} /\ GiftsFrom(p) = {} /\ GiftsTo(p) = {}
    BY <1>1 DEF EntriesOfKind, GiftsFrom, GiftsTo
  <2>2. SumFunctionOnSet(Amounts, {}) = 0 /\ SumFunctionOnSet(GiftAmounts, {}) = 0
    BY SumEmpty
  <2> SUFFICES ASSUME NEW p \in Player
               PROVE  /\ SumFunctionOnSet(Amounts, EntriesOfKind(p, "gift_out")) = -SumFunctionOnSet(GiftAmounts, GiftsFrom(p))
                      /\ SumFunctionOnSet(Amounts, EntriesOfKind(p, "gift_in")) = SumFunctionOnSet(GiftAmounts, GiftsTo(p))
    BY DEF GiftsBalance
  <2>3. PICK out, from : /\ out = SumFunctionOnSet(Amounts, EntriesOfKind(p, "gift_out"))
                         /\ from = SumFunctionOnSet(GiftAmounts, GiftsFrom(p))
    OBVIOUS
  <2>4. out = 0 /\ from = 0
    BY <2>1, <2>2, <2>3
  <2>5. out = -from
    <3>1. \A a, b \in Int : a + b = 0 => a = -b
      OBVIOUS
    <3>2. out \in Int /\ from \in Int /\ out + from = 0
      BY <2>4
    <3> QED BY <3>1, <3>2
  <2> QED BY <2>1, <2>2, <2>3, <2>5
<1> QED BY <1>2, <1>3, <1>4, <1>6, <1>7, <1>8 DEF AccountsInv, AccountsFit

LEMMA NextAccountsInv ==
  ASSUME IInv, BookFits, AccountsInv, [Next]_vars
  PROVE  AccountsInv'
<1>1. /\ AccountsFit /\ FiniteTables /\ HandsAccount
      /\ StatsCountHands /\ JackpotBalances /\ GiftsBalance
  BY DEF AccountsInv
<1>2. AccountsFit'
  BY <1>1, NextAccountsFit
<1>3. ASSUME NEW r \in Request, Commit(r) PROVE AccountsInv'
  BY <1>1, <1>2, <1>3, CommitFinite, CommitHandsAccount, CommitStats, CommitJackpot, CommitGifts DEF AccountsInv
<1>4. ASSUME NEW p \in Player, EnsurePlayer(p) PROVE AccountsInv'
  <2>1. HandsAccount' /\ FiniteTables' /\ GiftsBalance'
    BY <1>1, <1>4, JoinHandsAccount, JoinGifts
  <2>2. UNCHANGED <<hands, gifts, stats, hits, pot>>
    BY <1>4 DEF EnsurePlayer
  <2>3. StatsCountHands'
    BY <1>1, <2>2 DEF StatsCountHands, StatsOf, SettledOf, SettledHands, SettledIn, Wagered, Returned
  <2>4. JackpotBalances'
    BY <1>1, <2>2 DEF JackpotBalances
  <2> QED BY <1>2, <2>1, <2>3, <2>4 DEF AccountsInv
<1>5. CASE UNCHANGED tables
  <2>1. UNCHANGED <<ledger, hands, gifts, stats, hits, pot>>
    BY <1>5 DEF tables
  <2>2. FiniteTables'
    BY <1>1, <2>1 DEF FiniteTables
  <2>3. HandsAccount'
    BY <1>1, <2>1 DEF HandsAccount, EntriesAt, Amounts, NetOf
  <2>4. StatsCountHands'
    BY <1>1, <2>1 DEF StatsCountHands, StatsOf, SettledOf, SettledHands, SettledIn, Wagered, Returned
  <2>5. JackpotBalances'
    BY <1>1, <2>1 DEF JackpotBalances
  <2>6. GiftsBalance'
    BY <1>1, <2>1 DEF GiftsBalance, EntriesOfKind, Amounts, GiftAmounts, GiftsFrom, GiftsTo
  <2> QED BY <1>2, <2>2, <2>3, <2>4, <2>5, <2>6 DEF AccountsInv
<1> QED BY <1>3, <1>4, <1>5, StepKinds

(* The accounts' own inductive invariant holds throughout.                  *)
THEOREM AlwaysAccountsInv ==
  ASSUME DistinctIds
  PROVE  Spec => []AccountsInv
<1>1. Init => BookFits /\ AccountsInv
  BY InitBookFits, InitAccounts
<1>2. IInv /\ BookFits /\ AccountsInv /\ [Next]_vars => (BookFits /\ AccountsInv)'
  <2> SUFFICES ASSUME IInv, BookFits, AccountsInv, [Next]_vars PROVE (BookFits /\ AccountsInv)'
    OBVIOUS
  <2>1. BookFits'
    BY NextBookFits
  <2>2. AccountsInv'
    BY NextAccountsInv
  <2> QED BY <2>1, <2>2
<1> QED BY <1>1, <1>2, AlwaysIInv, PTL DEF Spec

(* For any number of players, hands and concurrent requests, a hand moves   *)
(* exactly its own chips, once, through its owner's ledger (hands.ts        *)
(* planStart, planAction, settle.ts settleHand).                            *)
THEOREM AlwaysHandsBalance ==
  ASSUME DistinctIds
  PROVE  Spec => []HandsBalance
<1>1. ASSUME IInv, AccountsInv PROVE HandsBalance
  <2>1. HandsAccount /\ StakesStored
    BY <1>1 DEF AccountsInv, AccountsFit
  <2> SUFFICES ASSUME NEW h \in DOMAIN hands
               PROVE  /\ SumFunctionOnSet(Amounts, EntriesOf(hands[h].user, h))
                           = (IF hands[h].status = "settled" THEN hands[h].returned + PaidByJackpot(h)
                              ELSE hands[h].state.paidEarly) - hands[h].state.staked
                      /\ \A p \in Player \ {hands[h].user} : EntriesOf(p, h) = {}
    BY DEF HandsBalance
  <2>2. \A k \in EntriesAt(h) : k[1] = hands[h].user
    BY <2>1 DEF HandsAccount, EntriesAt
  <2>3. EntriesOf(hands[h].user, h) = EntriesAt(h) /\ \A p \in Player \ {hands[h].user} : EntriesOf(p, h) = {}
    BY <2>2 DEF EntriesOf
  <2>4. h \in HandId
    BY <1>1 DEF IInv, TypeOK, IsTable
  <2>5. SumFunctionOnSet(Amounts, EntriesAt(h)) = NetOf(h)
    BY <2>1, <2>4 DEF HandsAccount
  <2>6. hands[h].wagered = hands[h].state.staked
    BY <2>1 DEF StakesStored
  <2>7. hands[h] \in HandRow /\ hands[h].state \in EngineView
    BY <1>1, EngineAssumption DEF IInv, TypeOK, IsTable, HandRow
  <2>8. hands[h].returned \in Nat /\ hands[h].state.paidEarly \in Nat /\ hands[h].state.staked \in Nat
    BY <2>7 DEF HandRow, EngineView
  <2>9. PaidByJackpot(h) = (IF h \in DOMAIN hits THEN hits[h] ELSE 0) /\ PaidByJackpot(h) \in Nat
    BY <1>1 DEF PaidByJackpot, IInv, TypeOK, IsTable
  <2>10. NetOf(h) = (IF hands[h].status = "settled" THEN hands[h].returned + PaidByJackpot(h)
                     ELSE hands[h].state.paidEarly) - hands[h].state.staked
    <3>1. CASE hands[h].status = "settled"
      <4>1. NetOf(h) = hands[h].returned + PaidByJackpot(h) - hands[h].wagered
        BY <2>9, <3>1 DEF NetOf
      <4> QED BY <2>6, <2>8, <2>9, <3>1, <4>1
    <3>2. CASE hands[h].status # "settled"
      BY <2>6, <3>2 DEF NetOf
    <3> QED BY <3>1, <3>2
  <2> QED BY <2>3, <2>5, <2>10
<1>2. IInv /\ AccountsInv => HandsBalance
  BY <1>1
<1> QED BY <1>2, AlwaysIInv, AlwaysAccountsInv, PTL

(* For every player and game, the statistics are exactly the settled hands, *)
(* each folded once (settle.ts gameStats).                                  *)
THEOREM AlwaysStatsCountHands ==
  ASSUME DistinctIds
  PROVE  Spec => []StatsCountHands
<1>1. AccountsInv => StatsCountHands
  BY DEF AccountsInv
<1> QED BY <1>1, AlwaysAccountsInv, PTL

(* However many hits and contributions settle at once, no hundredth of a    *)
(* chip is paid twice or lost but the fraction a hit rounds down            *)
(* (jackpot.ts, postgres.ts:641-670).                                       *)
THEOREM AlwaysJackpotBalances ==
  ASSUME DistinctIds
  PROVE  Spec => []JackpotBalances
<1>1. AccountsInv => JackpotBalances
  BY DEF AccountsInv
<1> QED BY <1>1, AlwaysAccountsInv, PTL

(* For every player, what the ledger shows leaving and arriving as gifts is *)
(* what the gifts table says, however often an id is sent (economy.ts       *)
(* planGift).                                                               *)
THEOREM AlwaysGiftsBalance ==
  ASSUME DistinctIds
  PROVE  Spec => []GiftsBalance
<1>1. AccountsInv => GiftsBalance
  BY DEF AccountsInv
<1> QED BY <1>1, AlwaysAccountsInv, PTL

------------------------------------------------------------------------------
(* Days.                                                                    *)

LEMMA LaterDay ==
  ASSUME NEW a \in Nat, NEW b \in Nat, a <= b, NEW n \in Nat \ {0}
  PROVE  a \div n <= b \div n
  OBVIOUS

LEMMA DayInNat ==
  ASSUME TypeOK, NEW z \in Nat
  PROVE  DayIn(z) \in Nat
<1>1. clock + z \in Nat /\ DayLength \in Nat \ {0}
  BY RequestAssumption DEF TypeOK
<1> QED BY <1>1, QuotientNat DEF DayIn

LEMMA OneDay ==
  ASSUME TypeOK, OneCalendar, NEW z \in Zone, NEW d \in Day \cup {NoDay}, Past(d)
  PROVE  d <= DayIn(z) /\ d \in Int
<1>1. z \in Nat /\ DayIn(z) \in Nat
  BY RequestAssumption, DayInNat
<1>4. d \in Int
  BY DEF Day, NoDay
<1>2. CASE d = NoDay
  BY <1>1, <1>2, <1>4 DEF NoDay
<1>3. CASE d # NoDay
  <2>1. PICK y \in Zone : d <= DayIn(y)
    BY <1>3 DEF Past
  <2>2. y = z
    BY DEF OneCalendar
  <2> QED BY <1>4, <2>1, <2>2
<1> QED BY <1>2, <1>3

(* The days on a stored row.                                                *)
LEMMA RowDays ==
  ASSUME TypeOK, NEW p \in DOMAIN players
  PROVE  /\ p \in Player /\ players[p] \in PlayerRow
         /\ players[p].lastDailyOn \in Day \cup {NoDay} /\ players[p].lastBailoutOn \in Day \cup {NoDay}
         /\ players[p].giftsSentOn \in Day \cup {NoDay} /\ players[p].giftsReceivedOn \in Day \cup {NoDay}
<1>1. p \in Player /\ players[p] \in PlayerRow
  BY DEF TypeOK, IsTable
<1> QED BY <1>1 DEF PlayerRow

------------------------------------------------------------------------------
(* Requests carry the current day.                                          *)

LEMMA ClockStands ==
  ASSUME [Next]_vars
  PROVE  Tick \/ clock' = clock
<1>1. ASSUME NEW r \in Request, Begin(r) PROVE clock' = clock
  BY <1>1 DEF Begin, PostHands, PostAction, PostClaim, PostGift, Arrive
<1>2. ASSUME NEW r \in Request, Step(r) PROVE clock' = clock
  <2>1. CASE PlanStart(r) \/ PlanAction(r) \/ PlanDaily(r) \/ PlanBailout(r) \/ PlanGift(r)
    BY <2>1 DEF PlanStart, PlanAction, PlanDaily, PlanBailout, PlanGift, Plan
  <2>2. CASE LockPlayer(r) \/ Answer(r) \/ LockJackpot(r) \/ Commit(r)
    BY <2>2 DEF LockPlayer, Answer, LockJackpot, Commit
  <2> QED BY <1>2, <2>1, <2>2 DEF Step
<1>3. ASSUME NEW p \in Player, EnsurePlayer(p) PROVE clock' = clock
  BY <1>3 DEF EnsurePlayer
<1>4. ASSUME NEW r \in Request, Abort(r) PROVE clock' = clock
  BY <1>4 DEF Abort
<1> QED BY <1>1, <1>2, <1>3, <1>4 DEF Next, vars

(* How a step may change a request's job.                                   *)
LEMMA JobSteps ==
  ASSUME IInv, [Next]_vars, NEW r \in Request
  PROVE  \/ job'[r] = job[r]
         \/ job'[r] = NoJob
         \/ job'[r].op \in {"start", "act"}
         \/ \E z \in Zone : job'[r].op \in ClaimKind /\ job'[r].day = DayIn(z) /\ clock' = clock
         \/ \E z \in Zone : job'[r].op = "gift" /\ job'[r].senderDay = DayIn(z)
                            /\ job'[r].utcDay = DayIn(0) /\ clock' = clock
<1>1. job \in [Request -> Job \cup {NoJob}]
  BY DEF IInv, TypeOK
<1>2. ASSUME NEW s \in Request, NEW j, Arrive(s, j), s # r \/ j.op \in {"start", "act"}
      PROVE  job'[r] = job[r] \/ job'[r].op \in {"start", "act"}
  BY <1>1, <1>2 DEF Arrive
<1>3. CASE UNCHANGED job
  BY <1>3
<1>4. ASSUME NEW s \in Request, End(s) PROVE job'[r] = job[r] \/ job'[r] = NoJob
  BY <1>1, <1>4 DEF End
<1>5. ASSUME NEW s \in Request, PostHands(s) PROVE job'[r] = job[r] \/ job'[r].op \in {"start", "act"}
  <2>1. PICK j : Arrive(s, j) /\ j.op = "start"
    BY <1>5 DEF PostHands
  <2> QED BY <1>2, <2>1
<1>6. ASSUME NEW s \in Request, PostAction(s) PROVE job'[r] = job[r] \/ job'[r].op \in {"start", "act"}
  <2>1. PICK j : Arrive(s, j) /\ j.op = "act"
    BY <1>6 DEF PostAction
  <2> QED BY <1>2, <2>1
<1>7. ASSUME NEW s \in Request, PostClaim(s)
      PROVE  \/ job'[r] = job[r]
             \/ \E z \in Zone : job'[r].op \in ClaimKind /\ job'[r].day = DayIn(z) /\ clock' = clock
  <2>1. PICK z \in Zone : \E j : Arrive(s, j) /\ j.op \in Claim /\ j.day = DayIn(z)
    BY <1>7 DEF PostClaim
  <2>2. Claim \subseteq ClaimKind
    BY RequestAssumption
  <2> QED BY <1>1, <2>1, <2>2 DEF Arrive
<1>8. ASSUME NEW s \in Request, PostGift(s)
      PROVE  \/ job'[r] = job[r]
             \/ \E z \in Zone : job'[r].op = "gift" /\ job'[r].senderDay = DayIn(z)
                                /\ job'[r].utcDay = DayIn(0) /\ clock' = clock
  <2>1. PICK z \in Zone : \E j : Arrive(s, j) /\ j.op = "gift" /\ j.senderDay = DayIn(z) /\ j.utcDay = DayIn(0)
    BY <1>8 DEF PostGift
  <2> QED BY <1>1, <2>1 DEF Arrive
<1>9. ASSUME NEW s \in Request, Step(s) PROVE End(s) \/ UNCHANGED job
  BY <1>9 DEF Step, LockPlayer, PlanStart, PlanAction, PlanDaily, PlanBailout, PlanGift, Plan, Answer,
              LockJackpot, Commit
<1>10. \/ UNCHANGED job
       \/ \E s \in Request : Begin(s) \/ Step(s) \/ End(s)
  BY DEF Next, EnsurePlayer, Tick, vars, Abort
<1> QED BY <1>3, <1>4, <1>5, <1>6, <1>7, <1>8, <1>9, <1>10 DEF Begin

LEMMA NextJobsToday ==
  ASSUME IInv, OneCalendar, JobsToday, [Next]_vars
  PROVE  JobsToday'
<1> SUFFICES ASSUME NEW r \in Request
             PROVE  /\ job'[r] \in ClaimJob => \E z \in Zone : job'[r].day = DayIn(z)'
                    /\ job'[r] \in GiftJob => /\ \E z \in Zone : job'[r].senderDay = DayIn(z)'
                                              /\ job'[r].utcDay = DayIn(0)'
  BY DEF JobsToday
<1>1. \A j \in ClaimJob : j.op \in ClaimKind
  BY DEF ClaimJob
<1>2. \A j \in GiftJob : j.op = "gift"
  BY DEF GiftJob
<1>3. NoJob \notin ClaimJob /\ NoJob \notin GiftJob
  BY <1>1, <1>2 DEF NoJob, ClaimKind
<1>4. CASE job'[r] = NoJob
  BY <1>3, <1>4
<1>5. CASE job'[r].op \in {"start", "act"}
  BY <1>1, <1>2, <1>5 DEF ClaimKind
<1>6. CASE \E z \in Zone : job'[r].op \in ClaimKind /\ job'[r].day = DayIn(z) /\ clock' = clock
  BY <1>2, <1>6 DEF ClaimKind, DayIn
<1>7. CASE \E z \in Zone : job'[r].op = "gift" /\ job'[r].senderDay = DayIn(z)
                           /\ job'[r].utcDay = DayIn(0) /\ clock' = clock
  BY <1>1, <1>7 DEF ClaimKind, DayIn
<1>8. CASE job'[r] = job[r]
  <2>1. CASE clock' = clock
    BY <1>8, <2>1 DEF JobsToday, DayIn
  <2>2. CASE Tick
    <3>1. phase[r] = "idle"
      BY <2>2 DEF Tick, OneCalendar
    <3>2. job[r] = NoJob
      BY <3>1 DEF IInv, LocksHeld
    <3> QED BY <1>3, <1>8, <3>2
  <2> QED BY <2>1, <2>2, ClockStands
<1> QED BY <1>4, <1>5, <1>6, <1>7, <1>8, JobSteps

------------------------------------------------------------------------------
(* What a commit does to the days and counters of the player rows.          *)

LEMMA CommitPlayers ==
  ASSUME IInv, NEW r \in Request, Commit(r), NEW w, w = writes[r], NEW j, j = job[r]
  PROVE  /\ TypeOK /\ j \in Job /\ j.user \in Needs(j) /\ Needs(j) \subseteq DOMAIN players
         /\ j.op = "gift" => j.to \in Needs(j) /\ j.user # j.to /\ j \in GiftJob
         /\ j.op \in ClaimKind => j \in ClaimJob
         /\ \A p \in Needs(j) : p = j.user \/ (j.op = "gift" /\ p = j.to)
         /\ DOMAIN players' = DOMAIN players
         /\ \A p \in Needs(j) : players'[p] = w.players[p]
         /\ \A p \in DOMAIN players : p \notin Needs(j) => players'[p] = players[p]
         /\ clock' = clock
<1>1. /\ TypeOK /\ j \in Job /\ Needs(j) \subseteq DOMAIN players /\ DOMAIN w.players = Needs(j)
  BY CommitTables
<1>2. phase[r] # "idle"
  BY DEF Commit, MayCommit
<1>3. /\ j.op = "gift" => j \in GiftJob
      /\ j.op \in ClaimKind => j \in ClaimJob
  BY <1>2, JobOf
<1>4. j.op = "gift" => j.user # j.to
  BY <1>3 DEF IInv, RowsOwned
<1>5. /\ players' = [p \in DOMAIN players |-> IF p \in DOMAIN w.players THEN w.players[p] ELSE players[p]]
      /\ clock' = clock
  BY DEF Commit
<1> QED BY <1>1, <1>3, <1>4, <1>5 DEF Needs

LEMMA CommitDays ==
  ASSUME IInv, AccountsFit, NEW r \in Request, Commit(r), NEW w, w = writes[r], NEW j, j = job[r]
  PROVE  /\ \A p \in DOMAIN players : (j.op # "gift" \/ p # j.user) => SameSent(players'[p], players[p])
         /\ \A p \in DOMAIN players : (j.op # "gift" \/ p # j.to) => SameReceived(players'[p], players[p])
         /\ \A p \in DOMAIN players : (j.op \notin ClaimKind \/ p # j.user) => SameClaims(players'[p], players[p])
         /\ j.op = "gift" => GiftPlanned(w, j)
         /\ j.op \in ClaimKind => ClaimPlanned(w, j)
<1>1. /\ j \in Job /\ j.user \in Needs(j) /\ Needs(j) \subseteq DOMAIN players
      /\ j.op = "gift" => j.to \in Needs(j) /\ j.user # j.to
      /\ \A p \in Needs(j) : p = j.user \/ (j.op = "gift" /\ p = j.to)
      /\ \A p \in Needs(j) : players'[p] = w.players[p]
      /\ \A p \in DOMAIN players : p \notin Needs(j) => players'[p] = players[p]
  BY CommitPlayers
<1>2. AccountPlanned(r)
  BY DEF Commit, MayCommit, Planned, AccountsFit
<1>3. \A p \in DOMAIN players : p \notin Needs(j) => SameDays(players'[p], players[p])
  BY <1>1 DEF SameDays, SameClaims, SameSent, SameReceived
<1>4. j.op \in {"start", "act", "gift"} \cup ClaimKind
  BY <1>1 DEF Job, StartJob, ActJob, ClaimJob, GiftJob
<1>5. CASE j.op \in {"start", "act"}
  <2>1. SameDays(w.players[j.user], players[j.user])
    BY <1>2, <1>5 DEF AccountPlanned, HandPlanned, HandTells
  <2>2. \A p \in DOMAIN players : SameDays(players'[p], players[p])
    BY <1>1, <1>3, <1>5, <2>1
  <2> QED BY <1>5, <2>2 DEF SameDays, ClaimKind
<1>6. CASE j.op \in ClaimKind
  <2>1. ClaimPlanned(w, j)
    BY <1>2, <1>6 DEF AccountPlanned
  <2>2. SameSent(w.players[j.user], players[j.user]) /\ SameReceived(w.players[j.user], players[j.user])
    BY <2>1 DEF ClaimPlanned
  <2>3. j.op # "gift"
    BY <1>6 DEF ClaimKind
  <2> QED BY <1>1, <1>3, <1>6, <2>1, <2>2, <2>3 DEF SameDays
<1>7. CASE j.op = "gift"
  <2>1. GiftPlanned(w, j)
    BY <1>2, <1>7 DEF AccountPlanned
  <2>2. Counts(w.players[j.user], w.players[j.to], players[j.user], players[j.to], GiftRowOf(j))
    BY <2>1 DEF GiftPlanned
  <2>3. /\ SameClaims(w.players[j.user], players[j.user]) /\ SameReceived(w.players[j.user], players[j.user])
        /\ SameClaims(w.players[j.to], players[j.to]) /\ SameSent(w.players[j.to], players[j.to])
    BY <2>2 DEF Counts
  <2>4. j.op \notin ClaimKind
    BY <1>7 DEF ClaimKind
  <2> QED BY <1>1, <1>3, <1>7, <2>1, <2>3, <2>4 DEF SameDays
<1> QED BY <1>4, <1>5, <1>6, <1>7

(* The two rows a gift updates.                                             *)
LEMMA GiftCounts ==
  ASSUME IInv, AccountsFit, JobsToday, NEW r \in Request, Commit(r), NEW w, w = writes[r], NEW j, j = job[r],
         j.op = "gift", NEW from, from = players[j.user], NEW to, to = players[j.to]
  PROVE  /\ players'[j.user].giftsSentToday = SentOn(from, j.senderDay) + j.amount
         /\ players'[j.user].giftsSentOn = j.senderDay
         /\ players'[j.to].giftsReceivedToday = ReceivedOn(to, j.utcDay) + j.amount
         /\ players'[j.to].giftsReceivedOn = j.utcDay
         /\ SentOn(from, j.senderDay) + j.amount <= GiftSendLimit
         /\ ReceivedOn(to, j.utcDay) + j.amount <= GiftReceiveLimit
         /\ \E z \in Zone : j.senderDay = DayIn(z)
         /\ j.utcDay = DayIn(0)
<1>1. /\ j.user \in Needs(j) /\ j.to \in Needs(j) /\ j \in GiftJob
      /\ \A p \in Needs(j) : players'[p] = w.players[p]
  BY CommitPlayers
<1>2. GiftPlanned(w, j)
  BY CommitDays
<1>3. PICK g : g = GiftRowOf(j)
  OBVIOUS
<1>4. g.amount = j.amount /\ g.senderDay = j.senderDay /\ g.utcDay = j.utcDay
  BY <1>3 DEF GiftRowOf
<1>5. /\ Counts(w.players[j.user], w.players[j.to], from, to, g)
      /\ SentOn(from, g.senderDay) + g.amount <= GiftSendLimit
      /\ ReceivedOn(to, g.utcDay) + g.amount <= GiftReceiveLimit
  BY <1>2, <1>3 DEF GiftPlanned
<1>6. (\E z \in Zone : j.senderDay = DayIn(z)) /\ j.utcDay = DayIn(0)
  BY <1>1 DEF JobsToday
<1> QED BY <1>1, <1>4, <1>5, <1>6 DEF Counts

(* A new player's row has no day yet, and keeps the others'.                *)
LEMMA JoinDays ==
  ASSUME IInv, NEW q \in Player, EnsurePlayer(q)
  PROVE  /\ q \notin DOMAIN players /\ DOMAIN players' = DOMAIN players \cup {q}
         /\ \A p \in DOMAIN players : players'[p] = players[p]
         /\ SameDays(players'[q], BlankPlayer)
         /\ clock' = clock
<1>1. PICK new : new = NewPlayer(q)
  OBVIOUS
<1>2. /\ q \notin DOMAIN players /\ players' = Overlay(players, new.players) /\ clock' = clock
  BY <1>1 DEF EnsurePlayer
<1>3. DOMAIN new.players = {q}
  BY <1>1, NewPlayerRows
<1>4. SameDays(new.players[q], BlankPlayer)
  <2>1. PICK rows : rows = Row(q, BlankPlayer)
    OBVIOUS
  <2>2. q \in DOMAIN rows /\ rows[q] = BlankPlayer /\ BlankPlayer \in PlayerRow
    BY <2>1 DEF Row, BlankPlayer, PlayerRow
  <2>3. PICK none : none = Draft(rows)
    OBVIOUS
  <2>4. Whole(none, q) /\ none.players = rows
    BY <2>2, <2>3, DraftTells
  <2>5. Posted(new, none, q, "initial_grant", StartingBalance, NoRef)
    BY <1>1, <2>1, <2>3, <2>4, PostTells DEF NewPlayer
  <2> QED BY <2>2, <2>4, <2>5 DEF Posted
<1> QED BY <1>2, <1>3, <1>4 DEF Overlay

------------------------------------------------------------------------------
(* Days only move on.                                                       *)

LEMMA DayMoves ==
  ASSUME TypeOK, [Next]_vars, NEW z \in Nat
  PROVE  DayIn(z) \in Nat /\ DayIn(z)' \in Nat /\ DayIn(z) <= DayIn(z)'
<1>1. DayIn(z) \in Nat /\ clock \in Nat /\ DayLength \in Nat \ {0}
  BY DayInNat, RequestAssumption DEF TypeOK
<1>2. CASE clock' = clock
  BY <1>1, <1>2 DEF DayIn
<1>3. CASE Tick
  <2>1. clock' = clock + 1
    BY <1>3 DEF Tick
  <2>2. PICK a, b : a = clock + z /\ b = clock' + z
    OBVIOUS
  <2>3. a \in Nat /\ b \in Nat /\ a <= b
    BY <1>1, <2>1, <2>2
  <2>4. a \div DayLength <= b \div DayLength /\ b \div DayLength \in Nat
    BY <1>1, <2>3, LaterDay, QuotientNat
  <2> QED BY <1>1, <2>2, <2>4 DEF DayIn
<1> QED BY <1>2, <1>3, ClockStands

(* A day is past after the step.                                            *)
PastThen(d) == d = NoDay \/ \E z \in Zone : d <= DayIn(z)'

LEMMA PastStays ==
  ASSUME TypeOK, [Next]_vars, NEW d \in Day \cup {NoDay}, Past(d)
  PROVE  PastThen(d)
<1>1. CASE d = NoDay
  BY <1>1 DEF PastThen
<1>2. CASE d # NoDay
  <2>1. PICK z \in Zone : d <= DayIn(z)
    BY <1>2 DEF Past
  <2>2. z \in Nat /\ d \in Nat
    BY <1>2, RequestAssumption DEF Day
  <2>3. DayIn(z) \in Nat /\ DayIn(z)' \in Nat /\ DayIn(z) <= DayIn(z)'
    BY <2>2, DayMoves
  <2>4. d <= DayIn(z)'
    BY <2>1, <2>2, <2>3
  <2> QED BY <2>4 DEF PastThen
<1> QED BY <1>1, <1>2

RowPast(row) == /\ PastThen(row.lastDailyOn) /\ PastThen(row.lastBailoutOn) /\ PastThen(row.giftsSentOn)
                /\ row.giftsReceivedOn <= DayIn(0)'

LEMMA RowStaysPast ==
  ASSUME TypeOK, DaysPast, [Next]_vars, NEW p \in DOMAIN players, NEW row, row = players[p]
  PROVE  RowPast(row)
<1>1. DayIn(0) \in Nat /\ DayIn(0)' \in Nat /\ DayIn(0) <= DayIn(0)'
  BY DayMoves
<1>2. /\ Past(row.lastDailyOn) /\ Past(row.lastBailoutOn) /\ Past(row.giftsSentOn)
      /\ row.giftsReceivedOn <= DayIn(0)
  BY DEF DaysPast
<1>3. /\ row.lastDailyOn \in Day \cup {NoDay} /\ row.lastBailoutOn \in Day \cup {NoDay}
      /\ row.giftsSentOn \in Day \cup {NoDay} /\ row.giftsReceivedOn \in Day \cup {NoDay}
  BY RowDays
<1>4. PastThen(row.lastDailyOn) /\ PastThen(row.lastBailoutOn) /\ PastThen(row.giftsSentOn)
  BY <1>2, <1>3, PastStays
<1>5. row.giftsReceivedOn <= DayIn(0)'
  BY <1>1, <1>2, <1>3 DEF Day, NoDay
<1> QED BY <1>4, <1>5 DEF RowPast

LEMMA NextDaysPast ==
  ASSUME IInv, AccountsFit, JobsToday, DaysPast, [Next]_vars
  PROVE  DaysPast'
<1>1. TypeOK
  BY DEF IInv
<1>2. ASSUME NEW p \in DOMAIN players PROVE RowPast(players[p])
  BY <1>1, RowStaysPast
<1>3. ASSUME \A p \in DOMAIN players' : RowPast(players'[p]) PROVE DaysPast'
  BY <1>3 DEF DaysPast, RowPast, Past, PastThen
<1>4. ASSUME NEW row, NEW old, RowPast(old), SameDays(row, old) PROVE RowPast(row)
  BY <1>4 DEF RowPast, SameDays, SameClaims, SameSent, SameReceived
<1>5. CASE UNCHANGED tables
  BY <1>2, <1>3, <1>5 DEF tables
<1>6. ASSUME NEW q \in Player, EnsurePlayer(q) PROVE DaysPast'
  <2>1. /\ DOMAIN players' = DOMAIN players \cup {q} /\ \A p \in DOMAIN players : players'[p] = players[p]
        /\ SameDays(players'[q], BlankPlayer)
    BY <1>6, JoinDays
  <2>2. RowPast(BlankPlayer)
    <3>1. DayIn(0)' \in Nat
      BY <1>1, DayMoves
    <3> QED BY <3>1 DEF RowPast, BlankPlayer, PastThen, NoDay
  <2>3. RowPast(players'[q])
    BY <1>4, <2>1, <2>2
  <2> QED BY <1>2, <1>3, <2>1, <2>3
<1>7. ASSUME NEW r \in Request, Commit(r) PROVE DaysPast'
  <2>1. PICK w, j : w = writes[r] /\ j = job[r]
    OBVIOUS
  <2>2. /\ DOMAIN players' = DOMAIN players /\ j.user \in DOMAIN players
        /\ j.op = "gift" => j.to \in DOMAIN players /\ j.user # j.to
        /\ j.op \in ClaimKind => j \in ClaimJob
        /\ j.user \in Needs(j) /\ \A p \in Needs(j) : players'[p] = w.players[p]
        /\ clock' = clock
    BY <1>7, <2>1, CommitPlayers
  <2>3. /\ \A p \in DOMAIN players : (j.op # "gift" \/ p # j.user) => SameSent(players'[p], players[p])
        /\ \A p \in DOMAIN players : (j.op # "gift" \/ p # j.to) => SameReceived(players'[p], players[p])
        /\ \A p \in DOMAIN players : (j.op \notin ClaimKind \/ p # j.user) => SameClaims(players'[p], players[p])
        /\ j.op \in ClaimKind => ClaimPlanned(w, j)
    BY <1>7, <2>1, CommitDays
  <2>4. \A z : DayIn(z)' = DayIn(z)
    BY <2>2 DEF DayIn
  <2>5. ASSUME j.op = "gift"
        PROVE  /\ PastThen(players'[j.user].giftsSentOn) /\ players'[j.to].giftsReceivedOn <= DayIn(0)'
    <3>1. /\ players'[j.user].giftsSentOn = j.senderDay /\ \E z \in Zone : j.senderDay = DayIn(z)
          /\ players'[j.to].giftsReceivedOn = j.utcDay /\ j.utcDay = DayIn(0)
      BY <1>7, <2>1, <2>5, GiftCounts
    <3>2. DayIn(0) \in Nat /\ \A z \in Zone : DayIn(z) \in Nat
      BY <1>1, DayInNat, RequestAssumption
    <3> QED BY <2>4, <3>1, <3>2 DEF PastThen
  <2>6. ASSUME j.op \in ClaimKind
        PROVE  PastThen(players'[j.user].lastDailyOn) /\ PastThen(players'[j.user].lastBailoutOn)
    <3>1. PICK z \in Zone : j.day = DayIn(z)
      BY <2>1, <2>2, <2>6 DEF JobsToday
    <3>2. PastThen(j.day)
      BY <1>1, <2>4, <3>1, DayInNat, RequestAssumption DEF PastThen
    <3>3. RowPast(players[j.user])
      BY <1>2, <2>2
    <3>4. PICK row, to : row = players[j.user] /\ to = w.players[j.user]
      OBVIOUS
    <3>5. /\ j.op = "daily_bonus" => to.lastDailyOn = j.day /\ to.lastBailoutOn = row.lastBailoutOn
          /\ j.op = "bailout" => to.lastBailoutOn = j.day /\ to.lastDailyOn = row.lastDailyOn
      BY <2>3, <2>6, <3>4 DEF ClaimPlanned
    <3> QED BY <2>2, <2>6, <3>2, <3>3, <3>4, <3>5 DEF RowPast, ClaimKind
  <2>7. ASSUME NEW p \in DOMAIN players PROVE RowPast(players'[p])
    <3>1. RowPast(players[p])
      BY <1>2
    <3>2. PastThen(players'[p].lastDailyOn) /\ PastThen(players'[p].lastBailoutOn)
      BY <2>3, <2>6, <3>1 DEF RowPast, SameClaims
    <3>3. PastThen(players'[p].giftsSentOn)
      BY <2>3, <2>5, <3>1 DEF RowPast, SameSent
    <3>4. players'[p].giftsReceivedOn <= DayIn(0)'
      BY <2>3, <2>5, <3>1 DEF RowPast, SameReceived
    <3> QED BY <3>2, <3>3, <3>4 DEF RowPast
  <2> QED BY <1>3, <2>2, <2>7
<1> QED BY <1>5, <1>6, <1>7, StepKinds

------------------------------------------------------------------------------
(* What a player has sent and received on a day.                            *)

LEMMA GiftsAfter ==
  ASSUME IInv, AccountsFit, NEW r \in Request, Commit(r), NEW j, j = job[r],
         NEW f, f = GiftAmounts, NEW f2, f2 = GiftAmounts', NEW id, id = j.gift
  PROVE  /\ \A k \in DOMAIN gifts : /\ k \in DOMAIN gifts' /\ gifts'[k] = gifts[k]
                                    /\ f2[k] = f[k] /\ f[k] \in Int
         /\ j.op # "gift" => DOMAIN gifts' = DOMAIN gifts
         /\ j.op = "gift" => /\ DOMAIN gifts' = DOMAIN gifts \cup {id} /\ id \notin DOMAIN gifts
                             /\ gifts'[id].from = j.user /\ gifts'[id].to = j.to
                             /\ gifts'[id].senderDay = j.senderDay /\ gifts'[id].utcDay = j.utcDay
                             /\ f2[id] = j.amount /\ j.amount \in Nat
                             /\ j.senderDay \in Nat /\ j.utcDay \in Nat
<1>1. PICK w, g : w = writes[r] /\ g = GiftRowOf(j)
  OBVIOUS
<1>2. /\ Laid(gifts', gifts, w.gifts) /\ DOMAIN w.gifts \cap DOMAIN gifts = {}
      /\ j.op # "gift" => DOMAIN w.gifts = {}
      /\ j.op = "gift" => GiftPlanned(w, j) /\ j \in GiftJob
  BY <1>1, CommitGift
<1>3. TypeOK
  BY DEF IInv
<1>4. \A k \in DOMAIN gifts : k \in DOMAIN gifts' /\ gifts'[k] = gifts[k]
  BY <1>2 DEF Laid
<1>5. \A k \in DOMAIN gifts' : f2[k] = gifts'[k].amount
  BY DEF GiftAmounts
<1>6. \A k \in DOMAIN gifts : f[k] = gifts[k].amount /\ f[k] \in Int
  BY <1>3, GiftTypes
<1>7. j.op = "gift" => DOMAIN w.gifts = {id} /\ w.gifts[id] = g
  <2>1. j.op = "gift" => w.gifts = Row(id, g)
    BY <1>1, <1>2 DEF GiftPlanned
  <2> QED BY <2>1 DEF Row
<1>8. j.op = "gift" => /\ g.from = j.user /\ g.to = j.to /\ g.amount = j.amount
                       /\ g.senderDay = j.senderDay /\ g.utcDay = j.utcDay
                       /\ j.amount \in Nat /\ j.senderDay \in Nat /\ j.utcDay \in Nat
  BY <1>1, <1>2 DEF GiftRowOf, GiftJob, Day
<1>9. j.op = "gift" => DOMAIN gifts' = DOMAIN gifts \cup {id} /\ id \notin DOMAIN gifts /\ gifts'[id] = g
  BY <1>2, <1>7 DEF Laid
<1>10. j.op # "gift" => DOMAIN gifts' = DOMAIN gifts
  BY <1>2 DEF Laid
<1> QED BY <1>4, <1>5, <1>6, <1>8, <1>9, <1>10

LEMMA DayGiftsFinite ==
  ASSUME FiniteTables, NEW p, NEW d
  PROVE  /\ SentInDay(p, d) \subseteq DOMAIN gifts /\ IsFiniteSet(SentInDay(p, d))
         /\ ReceivedInDay(p, d) \subseteq DOMAIN gifts /\ IsFiniteSet(ReceivedInDay(p, d))
<1>1. SentInDay(p, d) \subseteq DOMAIN gifts /\ ReceivedInDay(p, d) \subseteq DOMAIN gifts
  BY DEF SentInDay, ReceivedInDay, GiftsFrom, GiftsTo
<1> QED BY <1>1, FS_Subset DEF FiniteTables

SentSum(p, d)     == SumFunctionOnSet(GiftAmounts, SentInDay(p, d))
ReceivedSum(p, d) == SumFunctionOnSet(GiftAmounts, ReceivedInDay(p, d))

LEMMA CommitDaySums ==
  ASSUME IInv, AccountsFit, FiniteTables, NEW r \in Request, Commit(r), NEW j, j = job[r], NEW p, NEW d
  PROVE  /\ SentSum(p, d) \in Int /\ ReceivedSum(p, d) \in Int
         /\ SentSum(p, d)' = IF j.op = "gift" /\ p = j.user /\ d = j.senderDay
                             THEN SentSum(p, d) + j.amount ELSE SentSum(p, d)
         /\ ReceivedSum(p, d)' = IF j.op = "gift" /\ p = j.to /\ d = j.utcDay
                                 THEN ReceivedSum(p, d) + j.amount ELSE ReceivedSum(p, d)
<1>1. PICK f, f2, id : f = GiftAmounts /\ f2 = GiftAmounts' /\ id = j.gift
  OBVIOUS
<1>2. /\ \A k \in DOMAIN gifts : /\ k \in DOMAIN gifts' /\ gifts'[k] = gifts[k]
                                 /\ f2[k] = f[k] /\ f[k] \in Int
      /\ j.op # "gift" => DOMAIN gifts' = DOMAIN gifts
      /\ j.op = "gift" => /\ DOMAIN gifts' = DOMAIN gifts \cup {id} /\ id \notin DOMAIN gifts
                          /\ gifts'[id].from = j.user /\ gifts'[id].to = j.to
                          /\ gifts'[id].senderDay = j.senderDay /\ gifts'[id].utcDay = j.utcDay
                          /\ f2[id] = j.amount /\ j.amount \in Nat
  BY <1>1, GiftsAfter
<1>3. PICK S, T, S2, T2 : /\ S = SentInDay(p, d) /\ T = ReceivedInDay(p, d)
                          /\ S2 = SentInDay(p, d)' /\ T2 = ReceivedInDay(p, d)'
  OBVIOUS
<1>4. /\ S \subseteq DOMAIN gifts /\ IsFiniteSet(S) /\ T \subseteq DOMAIN gifts /\ IsFiniteSet(T)
  BY <1>3, DayGiftsFinite
<1>5. /\ \A k \in S : f2[k] = f[k] /\ f[k] \in Int
      /\ \A k \in T : f2[k] = f[k] /\ f[k] \in Int
  BY <1>2, <1>4
<1>6. /\ SumFunctionOnSet(f2, S) = SumFunctionOnSet(f, S) /\ SumFunctionOnSet(f, S) \in Int
      /\ SumFunctionOnSet(f2, T) = SumFunctionOnSet(f, T) /\ SumFunctionOnSet(f, T) \in Int
  BY <1>4, <1>5, SumSame, SumInt
<1>7. /\ SentSum(p, d) = SumFunctionOnSet(f, S) /\ SentSum(p, d)' = SumFunctionOnSet(f2, S2)
      /\ ReceivedSum(p, d) = SumFunctionOnSet(f, T) /\ ReceivedSum(p, d)' = SumFunctionOnSet(f2, T2)
  BY <1>1, <1>3 DEF SentSum, ReceivedSum
<1>8. /\ S = {k \in DOMAIN gifts : gifts[k].from = p /\ gifts[k].senderDay = d}
      /\ S2 = {k \in DOMAIN gifts' : gifts'[k].from = p /\ gifts'[k].senderDay = d}
      /\ T = {k \in DOMAIN gifts : gifts[k].to = p /\ gifts[k].utcDay = d}
      /\ T2 = {k \in DOMAIN gifts' : gifts'[k].to = p /\ gifts'[k].utcDay = d}
  BY <1>3 DEF SentInDay, ReceivedInDay, GiftsFrom, GiftsTo
<1>9. SentSum(p, d)' = IF j.op = "gift" /\ p = j.user /\ d = j.senderDay
                       THEN SentSum(p, d) + j.amount ELSE SentSum(p, d)
  <2>1. CASE j.op = "gift" /\ p = j.user /\ d = j.senderDay
    <3>1. S2 = S \cup {id} /\ id \notin S
      BY <1>2, <1>4, <1>8, <2>1
    <3>2. f2[id] \in Int /\ f2[id] = j.amount
      BY <1>2, <2>1
    <3>3. SumFunctionOnSet(f2, S \cup {id}) = SumFunctionOnSet(f, S) + f2[id]
      BY <1>4, <1>5, <3>1, <3>2, OneMore
    <3> QED BY <1>7, <2>1, <3>1, <3>2, <3>3
  <2>2. CASE ~(j.op = "gift" /\ p = j.user /\ d = j.senderDay)
    <3>1. S2 = S
      BY <1>2, <1>8, <2>2
    <3> QED BY <1>6, <1>7, <2>2, <3>1
  <2> QED BY <2>1, <2>2
<1>10. ReceivedSum(p, d)' = IF j.op = "gift" /\ p = j.to /\ d = j.utcDay
                            THEN ReceivedSum(p, d) + j.amount ELSE ReceivedSum(p, d)
  <2>1. CASE j.op = "gift" /\ p = j.to /\ d = j.utcDay
    <3>1. T2 = T \cup {id} /\ id \notin T
      BY <1>2, <1>4, <1>8, <2>1
    <3>2. f2[id] \in Int /\ f2[id] = j.amount
      BY <1>2, <2>1
    <3>3. SumFunctionOnSet(f2, T \cup {id}) = SumFunctionOnSet(f, T) + f2[id]
      BY <1>4, <1>5, <3>1, <3>2, OneMore
    <3> QED BY <1>7, <2>1, <3>1, <3>2, <3>3
  <2>2. CASE ~(j.op = "gift" /\ p = j.to /\ d = j.utcDay)
    <3>1. T2 = T
      BY <1>2, <1>8, <2>2
    <3> QED BY <1>6, <1>7, <2>2, <3>1
  <2> QED BY <2>1, <2>2
<1> QED BY <1>6, <1>7, <1>9, <1>10

(* While days only move on, a row's counter is what the player sent, or     *)
(* received, on the given day.                                              *)
LEMMA CountsTheDay ==
  ASSUME TypeOK, GiftsCounted, NEW p \in DOMAIN players, NEW row, row = players[p], NEW d \in Nat
  PROVE  /\ row.giftsSentOn <= d => SentSum(p, d) = SentOn(row, d)
         /\ row.giftsReceivedOn <= d => ReceivedSum(p, d) = ReceivedOn(row, d)
<1>1. row.giftsSentOn \in Int /\ row.giftsReceivedOn \in Int
  BY RowDays DEF Day, NoDay
<1>2. \A id \in DOMAIN gifts : gifts[id].senderDay \in Nat /\ gifts[id].utcDay \in Nat
  BY GiftTypes DEF GiftRow, Day
<1>3. row.giftsSentOn <= d => SentSum(p, d) = SentOn(row, d)
  <2>1. CASE row.giftsSentOn = d
    BY <2>1 DEF GiftsCounted, SentSum, SentOn
  <2>2. CASE row.giftsSentOn < d
    <3>1. SentInDay(p, d) = {}
      BY <1>1, <1>2, <2>2 DEF GiftsCounted, SentInDay, GiftsFrom
    <3>2. SentOn(row, d) = 0
      BY <1>1, <2>2 DEF SentOn
    <3> QED BY <3>1, <3>2, SumEmpty DEF SentSum
  <2> QED BY <1>1, <2>1, <2>2
<1>4. row.giftsReceivedOn <= d => ReceivedSum(p, d) = ReceivedOn(row, d)
  <2>1. CASE row.giftsReceivedOn = d
    BY <2>1 DEF GiftsCounted, ReceivedSum, ReceivedOn
  <2>2. CASE row.giftsReceivedOn < d
    <3>1. ReceivedInDay(p, d) = {}
      BY <1>1, <1>2, <2>2 DEF GiftsCounted, ReceivedInDay, GiftsTo
    <3>2. ReceivedOn(row, d) = 0
      BY <1>1, <2>2 DEF ReceivedOn
    <3> QED BY <3>1, <3>2, SumEmpty DEF ReceivedSum
  <2> QED BY <1>1, <2>1, <2>2
<1> QED BY <1>3, <1>4

LEMMA CapsAnyDay ==
  ASSUME GiftCaps, NEW p \in Player, NEW d
  PROVE  SentSum(p, d) <= GiftSendLimit /\ ReceivedSum(p, d) <= GiftReceiveLimit
<1>1. SentSum(p, d) <= GiftSendLimit
  <2>1. CASE SentInDay(p, d) = {}
    <3>1. SentSum(p, d) = 0
      BY <2>1, SumEmpty DEF SentSum
    <3> QED BY <3>1, EconomyAssumption
  <2>2. CASE SentInDay(p, d) # {}
    <3>1. d \in {gifts[id].senderDay : id \in DOMAIN gifts}
      BY <2>2 DEF SentInDay, GiftsFrom
    <3> QED BY <3>1 DEF GiftCaps, SentSum
  <2> QED BY <2>1, <2>2
<1>2. ReceivedSum(p, d) <= GiftReceiveLimit
  <2>1. CASE ReceivedInDay(p, d) = {}
    <3>1. ReceivedSum(p, d) = 0
      BY <2>1, SumEmpty DEF ReceivedSum
    <3> QED BY <3>1, EconomyAssumption
  <2>2. CASE ReceivedInDay(p, d) # {}
    <3>1. d \in {gifts[id].utcDay : id \in DOMAIN gifts}
      BY <2>2 DEF ReceivedInDay, GiftsTo
    <3> QED BY <3>1 DEF GiftCaps, ReceivedSum
  <2> QED BY <2>1, <2>2
<1> QED BY <1>1, <1>2

(* When a gift commits, its day is the latest that either row has counted,  *)
(* and the row's counter is what the tables have for it.                    *)
LEMMA GiftDay ==
  ASSUME IInv, OneCalendar, AccountsFit, JobsToday, DaysPast, GiftsCounted,
         NEW r \in Request, Commit(r), NEW j, j = job[r], j.op = "gift"
  PROVE  /\ j.user \in DOMAIN players /\ j.to \in DOMAIN players
         /\ j.senderDay \in Nat /\ j.utcDay \in Nat /\ j.amount \in Nat
         /\ players[j.user].giftsSentOn <= j.senderDay /\ players[j.user].giftsSentOn \in Int
         /\ players[j.to].giftsReceivedOn <= j.utcDay /\ players[j.to].giftsReceivedOn \in Int
         /\ SentSum(j.user, j.senderDay) = SentOn(players[j.user], j.senderDay)
         /\ ReceivedSum(j.to, j.utcDay) = ReceivedOn(players[j.to], j.utcDay)
<1>1. /\ TypeOK /\ j \in GiftJob /\ j.user \in DOMAIN players /\ j.to \in DOMAIN players
  BY CommitPlayers
<1>2. j.senderDay \in Nat /\ j.utcDay \in Nat /\ j.amount \in Nat
  BY <1>1 DEF GiftJob, Day
<1>3. PICK z \in Zone : j.senderDay = DayIn(z)
  BY <1>1 DEF JobsToday
<1>4. j.utcDay = DayIn(0)
  BY <1>1 DEF JobsToday
<1>5. PICK d, e : d = players[j.user].giftsSentOn /\ e = players[j.to].giftsReceivedOn
  OBVIOUS
<1>6. d \in Day \cup {NoDay} /\ e \in Day \cup {NoDay} /\ Past(d) /\ e <= DayIn(0)
  BY <1>1, <1>5, RowDays DEF DaysPast
<1>7. d <= DayIn(z) /\ d \in Int
  BY <1>1, <1>6, OneDay
<1>8. e \in Int
  BY <1>6 DEF Day, NoDay
<1>9. /\ SentSum(j.user, j.senderDay) = SentOn(players[j.user], j.senderDay)
      /\ ReceivedSum(j.to, j.utcDay) = ReceivedOn(players[j.to], j.utcDay)
  BY <1>1, <1>2, <1>3, <1>4, <1>5, <1>6, <1>7, CountsTheDay
<1> QED BY <1>1, <1>2, <1>3, <1>4, <1>5, <1>6, <1>7, <1>8, <1>9

LEMMA CommitCaps ==
  ASSUME IInv, OneCalendar, AccountsFit, FiniteTables, JobsToday, DaysPast, GiftsCounted, GiftCaps,
         NEW r \in Request, Commit(r)
  PROVE  GiftCaps'
<1>1. PICK j : j = job[r]
  OBVIOUS
<1>2. ASSUME NEW p \in Player, NEW d
      PROVE  SentSum(p, d)' <= GiftSendLimit /\ ReceivedSum(p, d)' <= GiftReceiveLimit
  <2>1. SentSum(p, d) <= GiftSendLimit /\ ReceivedSum(p, d) <= GiftReceiveLimit
    BY CapsAnyDay
  <2>2. /\ SentSum(p, d)' = IF j.op = "gift" /\ p = j.user /\ d = j.senderDay
                            THEN SentSum(p, d) + j.amount ELSE SentSum(p, d)
        /\ ReceivedSum(p, d)' = IF j.op = "gift" /\ p = j.to /\ d = j.utcDay
                                THEN ReceivedSum(p, d) + j.amount ELSE ReceivedSum(p, d)
    BY <1>1, CommitDaySums
  <2>3. j.op = "gift" => /\ SentSum(j.user, j.senderDay) + j.amount <= GiftSendLimit
                         /\ ReceivedSum(j.to, j.utcDay) + j.amount <= GiftReceiveLimit
    BY <1>1, GiftDay, GiftCounts
  <2> QED BY <2>1, <2>2, <2>3
<1>3. ASSUME NEW p \in Player, NEW d
      PROVE  /\ SumFunctionOnSet(GiftAmounts', SentInDay(p, d)') <= GiftSendLimit
             /\ SumFunctionOnSet(GiftAmounts', ReceivedInDay(p, d)') <= GiftReceiveLimit
  BY <1>2 DEF SentSum, ReceivedSum
<1>4. ASSUME NEW p \in Player
      PROVE  /\ \A d \in {gifts'[id].senderDay : id \in DOMAIN gifts'} :
                  SumFunctionOnSet(GiftAmounts', SentInDay(p, d)') <= GiftSendLimit
             /\ \A d \in {gifts'[id].utcDay : id \in DOMAIN gifts'} :
                  SumFunctionOnSet(GiftAmounts', ReceivedInDay(p, d)') <= GiftReceiveLimit
  BY <1>3
<1> QED BY <1>4 DEF GiftCaps

LEMMA CommitGiftsCounted ==
  ASSUME IInv, OneCalendar, AccountsFit, FiniteTables, JobsToday, DaysPast, GiftsCounted,
         NEW r \in Request, Commit(r)
  PROVE  GiftsCounted'
<1>1. PICK w, j, id : w = writes[r] /\ j = job[r] /\ id = j.gift
  OBVIOUS
<1>2. TypeOK /\ DOMAIN players' = DOMAIN players
  BY <1>1, CommitPlayers
<1>3. /\ \A k \in DOMAIN gifts : k \in DOMAIN gifts' /\ gifts'[k] = gifts[k]
      /\ j.op # "gift" => DOMAIN gifts' = DOMAIN gifts
      /\ j.op = "gift" => /\ DOMAIN gifts' = DOMAIN gifts \cup {id}
                          /\ gifts'[id].from = j.user /\ gifts'[id].to = j.to
                          /\ gifts'[id].senderDay = j.senderDay /\ gifts'[id].utcDay = j.utcDay
  BY <1>1, GiftsAfter
<1>4. /\ \A p \in DOMAIN players : (j.op # "gift" \/ p # j.user) => SameSent(players'[p], players[p])
      /\ \A p \in DOMAIN players : (j.op # "gift" \/ p # j.to) => SameReceived(players'[p], players[p])
  BY <1>1, CommitDays
<1>5. j.op = "gift" =>
        /\ j.user \in DOMAIN players /\ j.to \in DOMAIN players
        /\ j.senderDay \in Nat /\ j.utcDay \in Nat
        /\ players[j.user].giftsSentOn <= j.senderDay /\ players[j.user].giftsSentOn \in Int
        /\ players[j.to].giftsReceivedOn <= j.utcDay /\ players[j.to].giftsReceivedOn \in Int
        /\ SentSum(j.user, j.senderDay) = SentOn(players[j.user], j.senderDay)
        /\ ReceivedSum(j.to, j.utcDay) = ReceivedOn(players[j.to], j.utcDay)
  BY <1>1, GiftDay
<1>6. j.op = "gift" =>
        /\ players'[j.user].giftsSentToday = SentOn(players[j.user], j.senderDay) + j.amount
        /\ players'[j.user].giftsSentOn = j.senderDay
        /\ players'[j.to].giftsReceivedToday = ReceivedOn(players[j.to], j.utcDay) + j.amount
        /\ players'[j.to].giftsReceivedOn = j.utcDay
  BY <1>1, GiftCounts
<1>7. ASSUME NEW k \in DOMAIN gifts'
      PROVE  /\ gifts'[k].from \in DOMAIN players' /\ gifts'[k].to \in DOMAIN players'
             /\ gifts'[k].senderDay <= players'[gifts'[k].from].giftsSentOn
             /\ gifts'[k].utcDay <= players'[gifts'[k].to].giftsReceivedOn
  <2>1. CASE k \in DOMAIN gifts
    <3>1. PICK p, q, d, e : /\ p = gifts[k].from /\ q = gifts[k].to
                            /\ d = gifts[k].senderDay /\ e = gifts[k].utcDay
      OBVIOUS
    <3>2. /\ gifts'[k].from = p /\ gifts'[k].to = q /\ gifts'[k].senderDay = d /\ gifts'[k].utcDay = e
      BY <1>3, <2>1, <3>1
    <3>3. /\ p \in DOMAIN players /\ q \in DOMAIN players /\ d \in Nat /\ e \in Nat
          /\ d <= players[p].giftsSentOn /\ e <= players[q].giftsReceivedOn
      BY <1>2, <2>1, <3>1, GiftTypes DEF GiftsCounted, GiftRow, Day
    <3>4. d <= players'[p].giftsSentOn
      BY <1>4, <1>5, <1>6, <3>3 DEF SameSent
    <3>5. e <= players'[q].giftsReceivedOn
      BY <1>4, <1>5, <1>6, <3>3 DEF SameReceived
    <3> QED BY <1>2, <3>2, <3>3, <3>4, <3>5
  <2>2. CASE k \notin DOMAIN gifts
    BY <1>2, <1>3, <1>5, <1>6, <2>2
  <2> QED BY <2>1, <2>2
<1>8. ASSUME NEW p \in DOMAIN players
      PROVE  /\ SumFunctionOnSet(GiftAmounts', SentInDay(p, players[p].giftsSentOn)') = players'[p].giftsSentToday
             /\ SumFunctionOnSet(GiftAmounts', ReceivedInDay(p, players[p].giftsReceivedOn)')
                  = players'[p].giftsReceivedToday
  <2>1. PICK d, e : d = players'[p].giftsSentOn /\ e = players'[p].giftsReceivedOn
    OBVIOUS
  <2>2. /\ SumFunctionOnSet(GiftAmounts', SentInDay(p, players[p].giftsSentOn)') = SentSum(p, d)'
        /\ SumFunctionOnSet(GiftAmounts', ReceivedInDay(p, players[p].giftsReceivedOn)') = ReceivedSum(p, e)'
    BY <2>1 DEF SentSum, ReceivedSum, SentInDay, ReceivedInDay
  <2>3. /\ SentSum(p, d)' = IF j.op = "gift" /\ p = j.user /\ d = j.senderDay
                            THEN SentSum(p, d) + j.amount ELSE SentSum(p, d)
        /\ ReceivedSum(p, e)' = IF j.op = "gift" /\ p = j.to /\ e = j.utcDay
                                THEN ReceivedSum(p, e) + j.amount ELSE ReceivedSum(p, e)
    BY <1>1, CommitDaySums
  <2>4. SentSum(p, d)' = players'[p].giftsSentToday
    <3>1. CASE j.op = "gift" /\ p = j.user
      BY <1>5, <1>6, <2>1, <2>3, <3>1
    <3>2. CASE ~(j.op = "gift" /\ p = j.user)
      <4>1. d = players[p].giftsSentOn /\ players'[p].giftsSentToday = players[p].giftsSentToday
        BY <1>4, <2>1, <3>2 DEF SameSent
      <4>2. SentSum(p, d) = players[p].giftsSentToday
        BY <4>1 DEF GiftsCounted, SentSum
      <4> QED BY <2>3, <3>2, <4>1, <4>2
    <3> QED BY <3>1, <3>2
  <2>5. ReceivedSum(p, e)' = players'[p].giftsReceivedToday
    <3>1. CASE j.op = "gift" /\ p = j.to
      BY <1>5, <1>6, <2>1, <2>3, <3>1
    <3>2. CASE ~(j.op = "gift" /\ p = j.to)
      <4>1. e = players[p].giftsReceivedOn /\ players'[p].giftsReceivedToday = players[p].giftsReceivedToday
        BY <1>4, <2>1, <3>2 DEF SameReceived
      <4>2. ReceivedSum(p, e) = players[p].giftsReceivedToday
        BY <4>1 DEF GiftsCounted, ReceivedSum
      <4> QED BY <2>3, <3>2, <4>1, <4>2
    <3> QED BY <3>1, <3>2
  <2> QED BY <2>2, <2>4, <2>5
<1> QED BY <1>2, <1>7, <1>8 DEF GiftsCounted

(* A new player has sent and received nothing.                              *)
LEMMA JoinGiftDays ==
  ASSUME IInv, GiftsCounted, GiftCaps, NEW q \in Player, EnsurePlayer(q)
  PROVE  GiftsCounted' /\ GiftCaps'
<1>1. /\ q \notin DOMAIN players /\ DOMAIN players' = DOMAIN players \cup {q}
      /\ \A p \in DOMAIN players : players'[p] = players[p]
      /\ SameDays(players'[q], BlankPlayer)
  BY JoinDays
<1>2. gifts' = gifts
  BY DEF EnsurePlayer
<1>4. /\ GiftAmounts' = GiftAmounts
      /\ \A p, d : SentInDay(p, d)' = SentInDay(p, d) /\ ReceivedInDay(p, d)' = ReceivedInDay(p, d)
  BY <1>2 DEF SentInDay, ReceivedInDay, GiftsFrom, GiftsTo, GiftAmounts
<1>3. GiftCaps'
  BY <1>2, <1>4 DEF GiftCaps
<1>5. \A d : SentInDay(q, d) = {} /\ ReceivedInDay(q, d) = {}
  BY <1>1 DEF GiftsCounted, SentInDay, ReceivedInDay, GiftsFrom, GiftsTo
<1>6. players'[q].giftsSentToday = 0 /\ players'[q].giftsReceivedToday = 0
  BY <1>1 DEF SameDays, SameSent, SameReceived, BlankPlayer
<1>7. /\ SumFunctionOnSet(GiftAmounts', SentInDay(q, players[q].giftsSentOn)') = players'[q].giftsSentToday
      /\ SumFunctionOnSet(GiftAmounts', ReceivedInDay(q, players[q].giftsReceivedOn)')
           = players'[q].giftsReceivedToday
  <2>1. PICK d, e : d = players'[q].giftsSentOn /\ e = players'[q].giftsReceivedOn
    OBVIOUS
  <2>2. /\ SentInDay(q, players[q].giftsSentOn)' = SentInDay(q, d)'
        /\ ReceivedInDay(q, players[q].giftsReceivedOn)' = ReceivedInDay(q, e)'
    BY <2>1 DEF SentInDay, ReceivedInDay
  <2>3. SentInDay(q, d)' = {} /\ ReceivedInDay(q, e)' = {}
    BY <1>4, <1>5
  <2> QED BY <1>6, <2>2, <2>3, SumEmpty
<1>8. \A p \in DOMAIN players :
        /\ SumFunctionOnSet(GiftAmounts', SentInDay(p, players[p].giftsSentOn)') = players'[p].giftsSentToday
        /\ SumFunctionOnSet(GiftAmounts', ReceivedInDay(p, players[p].giftsReceivedOn)')
             = players'[p].giftsReceivedToday
  <2> SUFFICES ASSUME NEW p \in DOMAIN players
               PROVE  /\ SumFunctionOnSet(GiftAmounts', SentInDay(p, players[p].giftsSentOn)')
                           = players'[p].giftsSentToday
                      /\ SumFunctionOnSet(GiftAmounts', ReceivedInDay(p, players[p].giftsReceivedOn)')
                           = players'[p].giftsReceivedToday
    OBVIOUS
  <2>1. players'[p] = players[p]
    BY <1>1
  <2>2. /\ SumFunctionOnSet(GiftAmounts, SentInDay(p, players[p].giftsSentOn)) = players[p].giftsSentToday
        /\ SumFunctionOnSet(GiftAmounts, ReceivedInDay(p, players[p].giftsReceivedOn))
             = players[p].giftsReceivedToday
    BY DEF GiftsCounted
  <2>3. /\ SentInDay(p, players[p].giftsSentOn)' = SentInDay(p, players[p].giftsSentOn)
        /\ ReceivedInDay(p, players[p].giftsReceivedOn)' = ReceivedInDay(p, players[p].giftsReceivedOn)
    BY <1>2, <2>1 DEF SentInDay, ReceivedInDay, GiftsFrom, GiftsTo
  <2> QED BY <1>4, <2>1, <2>2, <2>3
<1>9. \A id \in DOMAIN gifts' :
        /\ gifts'[id].from \in DOMAIN players' /\ gifts'[id].to \in DOMAIN players'
        /\ gifts'[id].senderDay <= players'[gifts'[id].from].giftsSentOn
        /\ gifts'[id].utcDay <= players'[gifts'[id].to].giftsReceivedOn
  BY <1>1, <1>2 DEF GiftsCounted
<1>10. GiftsCounted'
  BY <1>1, <1>7, <1>8, <1>9 DEF GiftsCounted
<1> QED BY <1>3, <1>10

------------------------------------------------------------------------------
(* Claims.                                                                  *)

(* The ledger rows a commit adds are no claim, or one claim's.              *)
LEMMA CommitClaim ==
  ASSUME IInv, AccountsFit, NEW r \in Request, Commit(r), NEW w, w = writes[r], NEW j, j = job[r],
         NEW key, key = NextKey(j.user)
  PROVE  /\ \A k \in DOMAIN ledger : k \in DOMAIN ledger' /\ ledger'[k] = ledger[k]
         /\ j.op \notin ClaimKind =>
              \A k \in DOMAIN ledger' : k \in DOMAIN ledger \/ ledger'[k].kind \notin ClaimKind
         /\ j.op \in ClaimKind => /\ \A k \in DOMAIN ledger' : k \in DOMAIN ledger \/ k = key
                                  /\ key \in DOMAIN ledger' /\ key \notin DOMAIN ledger
                                  /\ key[1] = j.user /\ ledger'[key] = w.ledger[key]
                                  /\ ledger'[key].kind = j.op /\ ledger'[key].ref = j.day
                                  /\ ClaimPlanned(w, j)
<1>1. /\ Laid(ledger', ledger, w.ledger) /\ DOMAIN w.ledger \cap DOMAIN ledger = {} /\ j \in Job
  BY CommitTables
<1>2. \A k \in DOMAIN ledger : k \in DOMAIN ledger' /\ ledger'[k] = ledger[k]
  BY <1>1 DEF Laid
<1>3. /\ DOMAIN ledger' = DOMAIN ledger \cup DOMAIN w.ledger
      /\ \A k \in DOMAIN w.ledger : k \in DOMAIN ledger' /\ k \notin DOMAIN ledger /\ ledger'[k] = w.ledger[k]
  BY <1>1 DEF Laid
<1>4. j.op \in {"start", "act", "gift"} \cup ClaimKind
  BY <1>1 DEF Job, StartJob, ActJob, ClaimJob, GiftJob
<1>5. CASE j.op \in {"start", "act"}
  <2>1. \A k \in DOMAIN w.ledger : w.ledger[k].kind \in HandKind
    BY <1>5, CommitEntries DEF HandEntries
  <2> QED BY <1>2, <1>3, <1>5, <2>1 DEF HandKind, ClaimKind
<1>6. CASE j.op = "gift"
  <2>1. GiftPlanned(w, j) /\ j.user # j.to
    BY <1>6, CommitGift
  <2>2. PICK out, in : out = NextKey(j.user) /\ in = NextKey(j.to)
    OBVIOUS
  <2>3. DOMAIN w.ledger = {out, in} /\ w.ledger[out].kind = "gift_out" /\ w.ledger[in].kind = "gift_in"
    BY <2>1, <2>2, GiftRows
  <2>4. \A k \in DOMAIN w.ledger : w.ledger[k].kind \notin ClaimKind
    BY <2>3 DEF ClaimKind
  <2> QED BY <1>2, <1>3, <1>6, <2>4 DEF ClaimKind
<1>7. CASE j.op \in ClaimKind
  <2>1. ClaimPlanned(w, j)
    BY <1>7, CommitDays
  <2>2. DOMAIN w.ledger = {key} /\ w.ledger[key].kind = j.op /\ w.ledger[key].ref = j.day
    BY <2>1 DEF ClaimPlanned
  <2>3. key[1] = j.user
    BY DEF NextKey
  <2> QED BY <1>2, <1>3, <1>7, <2>1, <2>2, <2>3
<1> QED BY <1>4, <1>5, <1>6, <1>7

(* A claim's day is later than any its row had for that claim.              *)
LEMMA ClaimDay ==
  ASSUME IInv, OneCalendar, AccountsFit, JobsToday, DaysPast, NEW r \in Request, Commit(r),
         NEW j, j = job[r], j.op \in ClaimKind, NEW row, row = players[j.user], NEW to, to = players'[j.user]
  PROVE  /\ j.user \in DOMAIN players /\ j.day \in Nat /\ LastOn(row, j.op) \in Int
         /\ LastOn(row, j.op) < j.day /\ LastOn(to, j.op) = j.day
         /\ \A kind \in ClaimKind : kind # j.op => LastOn(to, kind) = LastOn(row, kind)
<1>1. PICK w : w = writes[r]
  OBVIOUS
<1>2. /\ TypeOK /\ j \in ClaimJob /\ j.user \in DOMAIN players /\ to = w.players[j.user]
  BY <1>1, CommitPlayers
<1>3. ClaimPlanned(w, j)
  BY <1>1, CommitDays
<1>4. j.day \in Nat
  BY <1>2 DEF ClaimJob, Day
<1>5. PICK z \in Zone : j.day = DayIn(z)
  BY <1>2 DEF JobsToday
<1>6. PICK d, e : d = row.lastDailyOn /\ e = row.lastBailoutOn
  OBVIOUS
<1>7. d \in Day \cup {NoDay} /\ e \in Day \cup {NoDay} /\ Past(d) /\ Past(e)
  BY <1>2, <1>6, RowDays DEF DaysPast
<1>8. d \in Int /\ e \in Int /\ d <= j.day /\ e <= j.day
  BY <1>2, <1>5, <1>7, OneDay
<1>9. j.op = "daily_bonus" => d # j.day /\ to.lastDailyOn = j.day /\ to.lastBailoutOn = e
  BY <1>2, <1>3, <1>6 DEF ClaimPlanned
<1>10. j.op = "bailout" => e # j.day /\ to.lastBailoutOn = j.day /\ to.lastDailyOn = d
  BY <1>2, <1>3, <1>6 DEF ClaimPlanned
<1> QED BY <1>2, <1>4, <1>6, <1>8, <1>9, <1>10 DEF LastOn, ClaimKind

LEMMA EntryPlayer ==
  ASSUME IInv, NEW k \in DOMAIN ledger
  PROVE  k[1] \in DOMAIN players
BY DEF IInv, LedgerExplainsBalance, Explains

(* A row's last day for a claim never goes back.                            *)
LEMMA LastGrows ==
  ASSUME IInv, OneCalendar, AccountsFit, JobsToday, DaysPast, NEW r \in Request, Commit(r),
         NEW p \in DOMAIN players, NEW kind \in ClaimKind
  PROVE  /\ LastOn(players[p], kind) \in Int /\ LastOn(players'[p], kind) \in Int
         /\ LastOn(players[p], kind) <= LastOn(players'[p], kind)
<1>1. PICK w, j : w = writes[r] /\ j = job[r]
  OBVIOUS
<1>2. TypeOK
  BY DEF IInv
<1>3. LastOn(players[p], kind) \in Int
  BY <1>2, RowDays DEF LastOn, Day, NoDay
<1>4. (j.op \notin ClaimKind \/ p # j.user) => SameClaims(players'[p], players[p])
  BY <1>1, CommitDays
<1>5. CASE j.op \notin ClaimKind \/ p # j.user
  BY <1>3, <1>4, <1>5 DEF SameClaims, LastOn
<1>6. CASE j.op \in ClaimKind /\ p = j.user
  <2>1. /\ j.day \in Nat /\ LastOn(players[p], j.op) < j.day /\ LastOn(players'[p], j.op) = j.day
        /\ kind # j.op => LastOn(players'[p], kind) = LastOn(players[p], kind)
    BY <1>1, <1>6, ClaimDay
  <2> QED BY <1>3, <2>1
<1> QED BY <1>5, <1>6

LEMMA CommitClaims ==
  ASSUME IInv, OneCalendar, AccountsFit, JobsToday, DaysPast, ClaimsCounted, ClaimedOncePerDay,
         NEW r \in Request, Commit(r)
  PROVE  ClaimsCounted' /\ ClaimedOncePerDay'
<1>1. PICK w, j : w = writes[r] /\ j = job[r]
  OBVIOUS
<1>2. PICK key : key = NextKey(j.user)
  OBVIOUS
<1>3. /\ \A k \in DOMAIN ledger : k \in DOMAIN ledger' /\ ledger'[k] = ledger[k]
      /\ j.op \notin ClaimKind =>
           \A k \in DOMAIN ledger' : k \in DOMAIN ledger \/ ledger'[k].kind \notin ClaimKind
      /\ j.op \in ClaimKind => /\ \A k \in DOMAIN ledger' : k \in DOMAIN ledger \/ k = key
                               /\ key \in DOMAIN ledger' /\ key \notin DOMAIN ledger
                               /\ key[1] = j.user
                               /\ ledger'[key].kind = j.op /\ ledger'[key].ref = j.day
  BY <1>1, <1>2, CommitClaim
<1>4. j.op \in ClaimKind => /\ j.day \in Nat /\ LastOn(players[j.user], j.op) \in Int
                            /\ LastOn(players[j.user], j.op) < j.day
                            /\ LastOn(players'[j.user], j.op) = j.day
  BY <1>1, ClaimDay
<1>5. ClaimsCounted'
  <2> SUFFICES ASSUME NEW k \in DOMAIN ledger', ledger'[k].kind \in ClaimKind
               PROVE  ledger'[k].ref \in Day /\ ledger'[k].ref <= LastOn(players'[k[1]], ledger'[k].kind)
    BY DEF ClaimsCounted, LastOn
  <2>1. CASE k \in DOMAIN ledger
    <3>1. ledger'[k] = ledger[k] /\ ledger[k].kind \in ClaimKind
      BY <1>3, <2>1
    <3>2. ledger[k].ref \in Nat /\ ledger[k].ref <= LastOn(players[k[1]], ledger[k].kind)
      BY <2>1, <3>1 DEF ClaimsCounted, Day
    <3>3. /\ LastOn(players[k[1]], ledger[k].kind) \in Int /\ LastOn(players'[k[1]], ledger[k].kind) \in Int
          /\ LastOn(players[k[1]], ledger[k].kind) <= LastOn(players'[k[1]], ledger[k].kind)
      BY <2>1, <3>1, EntryPlayer, LastGrows
    <3> QED BY <3>1, <3>2, <3>3 DEF Day
  <2>2. CASE k \notin DOMAIN ledger
    BY <1>3, <1>4, <2>2 DEF Day
  <2> QED BY <2>1, <2>2
<1>6. ClaimedOncePerDay'
  <2> SUFFICES ASSUME NEW k \in DOMAIN ledger', NEW l \in DOMAIN ledger', ledger'[k].kind \in ClaimKind,
                      k[1] = l[1], ledger'[k].kind = ledger'[l].kind, ledger'[k].ref = ledger'[l].ref
               PROVE  k = l
    BY DEF ClaimedOncePerDay
  <2>1. ASSUME j.op \in ClaimKind, NEW m \in DOMAIN ledger, m[1] = j.user, ledger[m].kind = j.op
        PROVE  ledger[m].ref # j.day
    BY <1>4, <2>1 DEF ClaimsCounted, Day
  <2>2. CASE k \in DOMAIN ledger /\ l \in DOMAIN ledger
    BY <1>3, <2>2 DEF ClaimedOncePerDay
  <2>3. CASE k \in DOMAIN ledger /\ l \notin DOMAIN ledger
    BY <1>3, <2>1, <2>3
  <2>4. CASE k \notin DOMAIN ledger /\ l \in DOMAIN ledger
    BY <1>3, <2>1, <2>4
  <2>5. CASE k \notin DOMAIN ledger /\ l \notin DOMAIN ledger
    BY <1>3, <2>5
  <2> QED BY <2>2, <2>3, <2>4, <2>5
<1> QED BY <1>5, <1>6

------------------------------------------------------------------------------
(* Streaks.  RunIn(B, d): how long a run of days of B ends on day d.        *)

RunDays(B, d) == {m \in B : m .. d \subseteq B /\ m <= d}
RunIn(B, d)   == Cardinality(RunDays(B, d))
With(B, e)    == B \cup {e}
Before(B, e)  == B \subseteq Nat /\ e \in Nat /\ \A m \in B : m < e

(* A later day changes no run that ends before it, lengthens the one that   *)
(* ends the day before, and else starts one.                                *)
LEMMA LaterDayRuns ==
  ASSUME NEW B, NEW e, Before(B, e), NEW C, C = With(B, e)
  PROVE  /\ \A d \in B : RunIn(C, d) = RunIn(B, d)
         /\ RunIn(C, e) = IF e - 1 \in B THEN RunIn(B, e - 1) + 1 ELSE 1
         /\ RunIn(C, e) \in Nat
<1>0. C = B \cup {e} /\ B \subseteq Nat /\ e \in Nat /\ \A m \in B : m < e
  BY DEF With, Before
<1>1. ASSUME NEW d \in B PROVE RunDays(C, d) = RunDays(B, d)
  BY <1>0, <1>1 DEF RunDays
<1>2. \A d \in Nat : IsFiniteSet(RunDays(B, d))
  <2> TAKE d \in Nat
  <2>1. ASSUME NEW m \in RunDays(B, d) PROVE m \in 0 .. d
    <3>1. m \in Nat /\ m <= d
      BY <1>0, <2>1 DEF RunDays
    <3> QED BY <3>1
  <2>2. IsFiniteSet(0 .. d)
    BY FS_Interval
  <2>3. RunDays(B, d) \subseteq 0 .. d
    BY <2>1
  <2> QED BY <2>2, <2>3, FS_Subset
<1>3. ASSUME e - 1 \in B PROVE RunIn(C, e) = RunIn(B, e - 1) + 1 /\ RunIn(C, e) \in Nat
  <2>1. RunDays(C, e) = RunDays(B, e - 1) \cup {e}
    <3>1. ASSUME NEW m \in RunDays(C, e), m # e PROVE m \in RunDays(B, e - 1)
      <4>1. m \in B /\ m < e /\ m .. e \subseteq C
        BY <1>0, <3>1 DEF RunDays
      <4> QED BY <1>0, <1>3, <4>1 DEF RunDays
    <3>2. ASSUME NEW m \in RunDays(B, e - 1) PROVE m \in RunDays(C, e)
      <4>1. m \in B /\ m \in Nat /\ m .. e - 1 \subseteq B /\ m <= e - 1
        BY <1>0, <3>2 DEF RunDays
      <4>2. \A n \in m .. e : n = e \/ n \in m .. e - 1
        BY <1>0, <4>1
      <4> QED BY <1>0, <4>1, <4>2 DEF RunDays
    <3>3. e \in RunDays(C, e)
      BY <1>0 DEF RunDays
    <3> QED BY <3>1, <3>2, <3>3
  <2>2. e \notin RunDays(B, e - 1) /\ e - 1 \in Nat
    BY <1>0, <1>3 DEF RunDays
  <2>3. IsFiniteSet(RunDays(B, e - 1))
    BY <1>2, <2>2
  <2>4. Cardinality(RunDays(B, e - 1) \cup {e}) = Cardinality(RunDays(B, e - 1)) + 1
    BY <2>2, <2>3, FS_AddElement
  <2>5. Cardinality(RunDays(B, e - 1)) \in Nat
    BY <2>3, FS_CardinalityType
  <2>6. Cardinality(RunDays(C, e)) = Cardinality(RunDays(B, e - 1)) + 1
    BY <2>1, <2>4, Zenon
  <2>7. RunIn(C, e) = Cardinality(RunDays(C, e)) /\ RunIn(B, e - 1) = Cardinality(RunDays(B, e - 1))
    BY DEF RunIn
  <2> QED BY <2>5, <2>6, <2>7
<1>4. ASSUME e - 1 \notin B PROVE RunIn(C, e) = 1
  <2>1. RunDays(C, e) = {e}
    <3>1. ASSUME NEW m \in RunDays(C, e) PROVE m = e
      <4>1. m \in C /\ m .. e \subseteq C /\ m <= e
        BY <3>1 DEF RunDays
      <4>2. m \in Nat
        BY <1>0, <4>1
      <4>3. m # e => e - 1 \in m .. e /\ e - 1 # e
        BY <1>0, <4>1, <4>2
      <4>4. e - 1 \in C => e - 1 \in B \/ e - 1 = e
        BY <1>0
      <4> QED BY <1>4, <4>1, <4>3, <4>4
    <3>2. e \in RunDays(C, e)
      BY <1>0 DEF RunDays
    <3> QED BY <3>1, <3>2
  <2>2. Cardinality({e}) = 1
    BY FS_Singleton
  <2> QED BY <2>1, <2>2, Zenon DEF RunIn
<1>5. \A d \in B : RunIn(C, d) = RunIn(B, d)
  BY <1>1 DEF RunIn
<1>6. RunIn(C, e) = (IF e - 1 \in B THEN RunIn(B, e - 1) + 1 ELSE 1) /\ RunIn(C, e) \in Nat
  <2>1. CASE e - 1 \in B
    BY <1>3, <2>1
  <2>2. CASE e - 1 \notin B
    BY <1>4, <2>2
  <2> QED BY <2>1, <2>2
<1> QED BY <1>5, <1>6

LEMMA RunsOfDays ==
  ASSUME NEW p, NEW d
  PROVE  RunEnding(p, d) = RunIn(BonusDays(p), d) /\ RunEnding(p, d)' = RunIn(BonusDays(p)', d)
BY DEF RunEnding, RunIn, RunDays

(* What a commit does to the days of a player's bonuses.                    *)
LEMMA CommitBonusDays ==
  ASSUME IInv, AccountsFit, NEW r \in Request, Commit(r), NEW j, j = job[r], NEW p
  PROVE  BonusDays(p)' = IF j.op = "daily_bonus" /\ p = j.user THEN BonusDays(p) \cup {j.day}
                         ELSE BonusDays(p)
<1>1. PICK w, key : w = writes[r] /\ key = NextKey(j.user)
  OBVIOUS
<1>2. /\ \A k \in DOMAIN ledger : k \in DOMAIN ledger' /\ ledger'[k] = ledger[k]
      /\ j.op \notin ClaimKind =>
           \A k \in DOMAIN ledger' : k \in DOMAIN ledger \/ ledger'[k].kind \notin ClaimKind
      /\ j.op \in ClaimKind => /\ \A k \in DOMAIN ledger' : k \in DOMAIN ledger \/ k = key
                               /\ key \in DOMAIN ledger' /\ key \notin DOMAIN ledger
                               /\ key[1] = j.user
                               /\ ledger'[key].kind = j.op /\ ledger'[key].ref = j.day
  BY <1>1, CommitClaim
<1>3. "daily_bonus" \in ClaimKind
  BY DEF ClaimKind
<1>4. /\ BonusDays(p) = {ledger[k].ref : k \in EntriesOfKind(p, "daily_bonus")}
      /\ BonusDays(p)' = {ledger'[k].ref : k \in EntriesOfKind(p, "daily_bonus")'}
  BY DEF BonusDays
<1>5. /\ \A k : k \in EntriesOfKind(p, "daily_bonus") <=>
                  k \in DOMAIN ledger /\ k[1] = p /\ ledger[k].kind = "daily_bonus"
      /\ \A k : k \in EntriesOfKind(p, "daily_bonus")' <=>
                  k \in DOMAIN ledger' /\ k[1] = p /\ ledger'[k].kind = "daily_bonus"
  BY DEF EntriesOfKind
<1>6. CASE j.op = "daily_bonus" /\ p = j.user
  <2>1. \A k : k \in EntriesOfKind(p, "daily_bonus")' <=> k \in EntriesOfKind(p, "daily_bonus") \/ k = key
    BY <1>2, <1>3, <1>5, <1>6
  <2>2. ledger'[key].ref = j.day
    BY <1>2, <1>3, <1>6
  <2>3. \A k \in EntriesOfKind(p, "daily_bonus") : ledger'[k].ref = ledger[k].ref
    BY <1>2, <1>5
  <2> QED BY <1>4, <1>6, <2>1, <2>2, <2>3
<1>7. CASE ~(j.op = "daily_bonus" /\ p = j.user)
  <2>1. \A k : k \in EntriesOfKind(p, "daily_bonus")' <=> k \in EntriesOfKind(p, "daily_bonus")
    BY <1>2, <1>3, <1>5, <1>7
  <2>2. \A k \in EntriesOfKind(p, "daily_bonus") : ledger'[k].ref = ledger[k].ref
    BY <1>2, <1>5
  <2> QED BY <1>4, <1>7, <2>1, <2>2
<1> QED BY <1>6, <1>7

(* Bonuses are dated by days up to the row's last.                          *)
LEMMA BonusDaysPast ==
  ASSUME ClaimsCounted, NEW p
  PROVE  /\ BonusDays(p) \subseteq Nat
         /\ \A d \in BonusDays(p) : d <= players[p].lastDailyOn
<1>1. ASSUME NEW d \in BonusDays(p) PROVE d \in Nat /\ d <= players[p].lastDailyOn
  <2>1. PICK k \in EntriesOfKind(p, "daily_bonus") : d = ledger[k].ref
    BY <1>1 DEF BonusDays
  <2>2. k \in DOMAIN ledger /\ k[1] = p /\ ledger[k].kind = "daily_bonus"
    BY DEF EntriesOfKind
  <2> QED BY <2>1, <2>2 DEF ClaimsCounted, ClaimKind, LastOn, Day
<1> QED BY <1>1

(* A bonus's day lengthens its player's run or starts one, as the row's     *)
(* streak says.                                                             *)
LEMMA BonusRuns ==
  ASSUME IInv, OneCalendar, AccountsFit, JobsToday, DaysPast, ClaimsCounted, StreaksCounted,
         NEW r \in Request, Commit(r), NEW j, j = job[r], j.op = "daily_bonus", NEW p, p = j.user
  PROVE  /\ p \in DOMAIN players /\ j.day \in Nat
         /\ \A d \in BonusDays(p) : RunEnding(p, d)' = RunEnding(p, d)
         /\ RunEnding(p, j.day)' = players'[p].dailyStreak
         /\ players'[p].lastDailyOn = j.day
<1>1. PICK w, row, to : w = writes[r] /\ row = players[p] /\ to = players'[p]
  OBVIOUS
<1>2. /\ p \in DOMAIN players /\ to = w.players[p]
  BY <1>1, CommitPlayers
<1>3. ClaimPlanned(w, j)
  BY <1>1, CommitDays DEF ClaimKind
<1>4. to.dailyStreak = StreakOn(row, j.day) /\ to.lastDailyOn = j.day
  BY <1>1, <1>2, <1>3 DEF ClaimPlanned
<1>5. /\ j.day \in Nat /\ row.lastDailyOn \in Int /\ row.lastDailyOn < j.day
  <2>1. /\ j.day \in Nat /\ LastOn(row, j.op) \in Int /\ LastOn(row, j.op) < j.day
    BY <1>1, ClaimDay DEF ClaimKind
  <2> QED BY <2>1 DEF LastOn
<1>6. PICK B, C, e : B = BonusDays(p) /\ C = BonusDays(p)' /\ e = j.day
  OBVIOUS
<1>7. C = With(B, e)
  BY <1>6, CommitBonusDays DEF With
<1>8. B \subseteq Nat /\ \A m \in B : m <= row.lastDailyOn
  BY <1>1, <1>6, BonusDaysPast
<1>9. \A m \in B : m < e
  BY <1>5, <1>6, <1>8
<1>10. /\ \A d \in B : RunIn(C, d) = RunIn(B, d)
       /\ RunIn(C, e) = IF e - 1 \in B THEN RunIn(B, e - 1) + 1 ELSE 1
  <2>1. Before(B, e)
    BY <1>5, <1>6, <1>8, <1>9 DEF Before
  <2> QED BY <1>7, <2>1, LaterDayRuns
<1>11. \A d : RunEnding(p, d) = RunIn(B, d) /\ RunEnding(p, d)' = RunIn(C, d)
  BY <1>6, RunsOfDays
<1>12. row.lastDailyOn # NoDay => row.lastDailyOn \in B /\ row.dailyStreak = RunIn(B, row.lastDailyOn)
  BY <1>1, <1>2, <1>6, <1>11 DEF StreaksCounted
<1>13. RunIn(C, e) = StreakOn(row, e)
  <2>1. CASE row.lastDailyOn = e - 1
    <3>1. row.lastDailyOn # NoDay
      BY <1>5, <1>6, <2>1 DEF NoDay
    <3>2. e - 1 \in B /\ row.dailyStreak = RunIn(B, e - 1)
      BY <1>12, <2>1, <3>1
    <3> QED BY <1>10, <2>1, <3>2 DEF StreakOn
  <2>2. CASE row.lastDailyOn # e - 1
    <3>1. e - 1 \notin B
      BY <1>5, <1>6, <1>8, <2>2
    <3> QED BY <1>10, <2>2, <3>1 DEF StreakOn
  <2> QED BY <2>1, <2>2
<1> QED BY <1>1, <1>2, <1>4, <1>5, <1>6, <1>10, <1>11, <1>13

LEMMA CommitStreaks ==
  ASSUME IInv, OneCalendar, AccountsFit, JobsToday, DaysPast, ClaimsCounted, StreaksCounted, StreaksPayRuns,
         NEW r \in Request, Commit(r)
  PROVE  StreaksCounted' /\ StreaksPayRuns'
<1>1. PICK w, j : w = writes[r] /\ j = job[r]
  OBVIOUS
<1>2. PICK key : key = NextKey(j.user)
  OBVIOUS
<1>3. /\ DOMAIN players' = DOMAIN players
      /\ \A p \in DOMAIN players : (j.op \notin ClaimKind \/ p # j.user) => SameClaims(players'[p], players[p])
      /\ j.user \in DOMAIN players /\ players'[j.user] = w.players[j.user]
  BY <1>1, CommitPlayers, CommitDays
<1>4. j.op = "daily_bonus" =>
        /\ j.day \in Nat
        /\ \A d \in BonusDays(j.user) : RunEnding(j.user, d)' = RunEnding(j.user, d)
        /\ RunEnding(j.user, j.day)' = players'[j.user].dailyStreak
        /\ players'[j.user].lastDailyOn = j.day
  BY <1>1, BonusRuns
<1>5. \A p : BonusDays(p)' = IF j.op = "daily_bonus" /\ p = j.user THEN BonusDays(p) \cup {j.day}
                             ELSE BonusDays(p)
  BY <1>1, CommitBonusDays
<1>6. \A p, d : RunEnding(p, d) = RunIn(BonusDays(p), d) /\ RunEnding(p, d)' = RunIn(BonusDays(p)', d)
  BY RunsOfDays
<1>7. \A p, d : ~(j.op = "daily_bonus" /\ p = j.user) => RunEnding(p, d)' = RunEnding(p, d)
  BY <1>5, <1>6
<1>8. j.op = "bailout" => /\ players'[j.user].lastDailyOn = players[j.user].lastDailyOn
                          /\ players'[j.user].dailyStreak = players[j.user].dailyStreak
  <2> SUFFICES ASSUME j.op = "bailout"
               PROVE  /\ players'[j.user].lastDailyOn = players[j.user].lastDailyOn
                      /\ players'[j.user].dailyStreak = players[j.user].dailyStreak
    OBVIOUS
  <2>1. ClaimPlanned(w, j)
    BY <1>1, CommitDays DEF ClaimKind
  <2> QED BY <1>3, <2>1 DEF ClaimPlanned
<1>9. \A p \in DOMAIN players : ~(j.op = "daily_bonus" /\ p = j.user) =>
        /\ players'[p].lastDailyOn = players[p].lastDailyOn
        /\ players'[p].dailyStreak = players[p].dailyStreak
  BY <1>3, <1>8 DEF SameClaims, ClaimKind
<1>10. ASSUME NEW p \in DOMAIN players', NEW row, row = players'[p], row.lastDailyOn # NoDay
       PROVE  /\ row.lastDailyOn \in BonusDays(p)'
              /\ row.dailyStreak = RunIn(BonusDays(p)', row.lastDailyOn)
  <2>1. CASE j.op = "daily_bonus" /\ p = j.user
    BY <1>4, <1>5, <1>6, <1>10, <2>1
  <2>2. CASE ~(j.op = "daily_bonus" /\ p = j.user)
    <3>1. /\ players[p].lastDailyOn = row.lastDailyOn /\ players[p].dailyStreak = row.dailyStreak
          /\ p \in DOMAIN players
      BY <1>3, <1>9, <1>10, <2>2
    <3>2. row.lastDailyOn \in BonusDays(p) /\ row.dailyStreak = RunEnding(p, row.lastDailyOn)
      BY <1>10, <3>1 DEF StreaksCounted
    <3> QED BY <1>5, <1>6, <2>2, <3>2
  <2> QED BY <2>1, <2>2
<1>11. StreaksCounted'
  <2>1. ASSUME NEW p \in DOMAIN players'
        PROVE  RunEnding(p, players[p].lastDailyOn)' = RunIn(BonusDays(p)', players'[p].lastDailyOn)
    BY DEF RunEnding, RunIn, RunDays
  <2> QED BY <1>10, <2>1 DEF StreaksCounted
<1>12. StreaksPayRuns'
  <2> SUFFICES ASSUME NEW p \in Player, NEW k \in EntriesOfKind(p, "daily_bonus")'
               PROVE  ledger'[k].amount = BonusFor(RunIn(BonusDays(p)', ledger'[k].ref))
    <3>1. \A q, k : RunEnding(q, ledger[k].ref)' = RunIn(BonusDays(q)', ledger'[k].ref)
      BY DEF RunEnding, RunIn, RunDays
    <3> QED BY <3>1 DEF StreaksPayRuns
  <2>1. /\ \A l \in DOMAIN ledger : l \in DOMAIN ledger' /\ ledger'[l] = ledger[l]
        /\ j.op \notin ClaimKind =>
             \A l \in DOMAIN ledger' : l \in DOMAIN ledger \/ ledger'[l].kind \notin ClaimKind
        /\ j.op \in ClaimKind => /\ \A l \in DOMAIN ledger' : l \in DOMAIN ledger \/ l = key
                                 /\ key[1] = j.user /\ ledger'[key] = w.ledger[key]
                                 /\ ledger'[key].kind = j.op /\ ledger'[key].ref = j.day
                                 /\ ClaimPlanned(w, j)
    BY <1>1, <1>2, CommitClaim
  <2>2. k \in DOMAIN ledger' /\ k[1] = p /\ ledger'[k].kind = "daily_bonus"
    BY DEF EntriesOfKind
  <2>3. CASE k \in DOMAIN ledger
    <3>1. ledger'[k] = ledger[k] /\ k \in EntriesOfKind(p, "daily_bonus")
      BY <2>1, <2>2, <2>3 DEF EntriesOfKind
    <3>2. PICK d : d = ledger[k].ref
      OBVIOUS
    <3>3. d \in BonusDays(p) /\ ledger[k].amount = BonusFor(RunEnding(p, d))
      BY <3>1, <3>2 DEF BonusDays, StreaksPayRuns
    <3>4. RunEnding(p, d) = RunIn(BonusDays(p)', d)
      BY <1>4, <1>6, <1>7, <3>3
    <3> QED BY <3>1, <3>2, <3>3, <3>4
  <2>4. CASE k \notin DOMAIN ledger
    <3>1. j.op = "daily_bonus" /\ k = key /\ p = j.user
      BY <2>1, <2>2, <2>4 DEF ClaimKind
    <3>2. w.ledger[key].amount = BonusFor(w.players[j.user].dailyStreak)
      BY <1>2, <2>1, <3>1 DEF ClaimPlanned, ClaimKind
    <3>3. ledger'[k].amount = w.ledger[key].amount /\ ledger'[k].ref = j.day
      BY <2>1, <3>1 DEF ClaimKind
    <3>4. RunIn(BonusDays(p)', j.day) = w.players[j.user].dailyStreak
      BY <1>3, <1>4, <1>6, <3>1
    <3> QED BY <3>2, <3>3, <3>4
  <2> QED BY <2>3, <2>4
<1> QED BY <1>11, <1>12

(* A new player has claimed nothing.                                        *)
LEMMA JoinClaims ==
  ASSUME IInv, ClaimsCounted, StreaksCounted, ClaimedOncePerDay, StreaksPayRuns,
         NEW q \in Player, EnsurePlayer(q)
  PROVE  ClaimsCounted' /\ StreaksCounted' /\ ClaimedOncePerDay' /\ StreaksPayRuns'
<1>1. /\ q \notin DOMAIN players /\ DOMAIN players' = DOMAIN players \cup {q}
      /\ \A p \in DOMAIN players : players'[p] = players[p]
      /\ SameDays(players'[q], BlankPlayer)
  BY JoinDays
<1>2. PICK key : key = <<q, 1>>
  OBVIOUS
<1>3. /\ DOMAIN ledger' = DOMAIN ledger \cup {key} /\ key \notin DOMAIN ledger
      /\ ledger'[key].kind = "initial_grant"
      /\ \A k \in DOMAIN ledger : ledger'[k] = ledger[k]
  BY <1>2, JoinTables
<1>4. \A k \in DOMAIN ledger' : ledger'[k].kind \in ClaimKind =>
        k \in DOMAIN ledger /\ ledger'[k] = ledger[k] /\ k[1] \in DOMAIN players
  BY <1>3, EntryPlayer DEF ClaimKind
<1>5. ClaimsCounted'
  <2> SUFFICES ASSUME NEW k \in DOMAIN ledger', ledger'[k].kind \in ClaimKind
               PROVE  ledger'[k].ref \in Day /\ ledger'[k].ref <= LastOn(players'[k[1]], ledger'[k].kind)
    BY DEF ClaimsCounted, LastOn
  <2>1. k \in DOMAIN ledger /\ ledger'[k] = ledger[k] /\ players'[k[1]] = players[k[1]]
    BY <1>1, <1>4
  <2> QED BY <2>1 DEF ClaimsCounted
<1>6. ClaimedOncePerDay'
  BY <1>4 DEF ClaimedOncePerDay
<1>7. \A p : EntriesOfKind(p, "daily_bonus")' = EntriesOfKind(p, "daily_bonus")
  <2> TAKE p
  <2>1. \A k : k \in EntriesOfKind(p, "daily_bonus")' <=> k \in EntriesOfKind(p, "daily_bonus")
    BY <1>3, <1>4 DEF EntriesOfKind, ClaimKind
  <2>2. PICK S, T : S = EntriesOfKind(p, "daily_bonus") /\ T = EntriesOfKind(p, "daily_bonus")'
    OBVIOUS
  <2> QED BY <2>1, <2>2
<1>8. \A p : \A k \in EntriesOfKind(p, "daily_bonus") : ledger'[k] = ledger[k]
  BY <1>3 DEF EntriesOfKind
<1>9. \A p : BonusDays(p)' = BonusDays(p)
  <2> TAKE p
  <2>1. BonusDays(p)' = {ledger'[k].ref : k \in EntriesOfKind(p, "daily_bonus")'}
    BY DEF BonusDays
  <2> QED BY <1>7, <1>8, <2>1 DEF BonusDays
<1>10. StreaksCounted'
  <2> SUFFICES ASSUME NEW p \in DOMAIN players', players'[p].lastDailyOn # NoDay
               PROVE  /\ players'[p].lastDailyOn \in BonusDays(p)'
                      /\ players'[p].dailyStreak = RunIn(BonusDays(p)', players'[p].lastDailyOn)
    <3>1. \A p : RunEnding(p, players[p].lastDailyOn)' = RunIn(BonusDays(p)', players'[p].lastDailyOn)
      BY DEF RunEnding, RunIn, RunDays
    <3> QED BY <3>1 DEF StreaksCounted
  <2>1. p # q
    BY <1>1 DEF SameDays, SameClaims, BlankPlayer
  <2>2. p \in DOMAIN players /\ players'[p] = players[p]
    BY <1>1, <2>1
  <2> QED BY <1>9, <2>2, RunsOfDays DEF StreaksCounted
<1>11. StreaksPayRuns'
  <2> SUFFICES ASSUME NEW p \in Player, NEW k \in EntriesOfKind(p, "daily_bonus")'
               PROVE  ledger'[k].amount = BonusFor(RunIn(BonusDays(p)', ledger'[k].ref))
    <3>1. \A p, k : RunEnding(p, ledger[k].ref)' = RunIn(BonusDays(p)', ledger'[k].ref)
      BY DEF RunEnding, RunIn, RunDays
    <3> QED BY <3>1 DEF StreaksPayRuns
  <2>1. k \in EntriesOfKind(p, "daily_bonus") /\ ledger'[k] = ledger[k]
    BY <1>7, <1>8
  <2> QED BY <1>9, <2>1, RunsOfDays DEF StreaksPayRuns
<1> QED BY <1>5, <1>6, <1>10, <1>11

LEMMA InitCalendar == Init => CalendarInv
<1> SUFFICES ASSUME Init PROVE CalendarInv
  OBVIOUS
<1>1. DOMAIN players = {} /\ DOMAIN ledger = {} /\ DOMAIN gifts = {}
  BY DEF Init, NoRows
<1>2. JobsToday
  BY DEF Init, JobsToday, NoJob, ClaimJob, GiftJob, ClaimKind
<1>3. DaysPast /\ GiftsCounted /\ ClaimsCounted /\ StreaksCounted /\ GiftCaps /\ ClaimedOncePerDay
  BY <1>1 DEF DaysPast, GiftsCounted, ClaimsCounted, StreaksCounted, GiftCaps, ClaimedOncePerDay
<1>4. StreaksPayRuns
  BY <1>1 DEF StreaksPayRuns, EntriesOfKind
<1> QED BY <1>2, <1>3, <1>4 DEF CalendarInv

LEMMA NextCalendarInv ==
  ASSUME OneCalendar, IInv, AccountsFit, FiniteTables, CalendarInv, [Next]_vars
  PROVE  CalendarInv'
<1>1. /\ JobsToday /\ DaysPast /\ GiftsCounted /\ ClaimsCounted /\ StreaksCounted
      /\ GiftCaps /\ ClaimedOncePerDay /\ StreaksPayRuns
  BY DEF CalendarInv
<1>2. JobsToday' /\ DaysPast'
  BY <1>1, NextJobsToday, NextDaysPast
<1>3. ASSUME NEW r \in Request, Commit(r) PROVE CalendarInv'
  BY <1>1, <1>2, <1>3, CommitCaps, CommitGiftsCounted, CommitClaims, CommitStreaks DEF CalendarInv
<1>4. ASSUME NEW q \in Player, EnsurePlayer(q) PROVE CalendarInv'
  BY <1>1, <1>2, <1>4, JoinGiftDays, JoinClaims DEF CalendarInv
<1>5. CASE UNCHANGED tables
  <2>1. UNCHANGED <<players, ledger, gifts>>
    BY <1>5 DEF tables
  <2>2. GiftsCounted' /\ GiftCaps'
    <3>1. /\ GiftAmounts' = GiftAmounts
          /\ \A p, d : SentInDay(p, d)' = SentInDay(p, d) /\ ReceivedInDay(p, d)' = ReceivedInDay(p, d)
      BY <2>1 DEF GiftAmounts, SentInDay, ReceivedInDay, GiftsFrom, GiftsTo
    <3>2. \A p : /\ SentInDay(p, players[p].giftsSentOn)' = SentInDay(p, players[p].giftsSentOn)
                /\ ReceivedInDay(p, players[p].giftsReceivedOn)' = ReceivedInDay(p, players[p].giftsReceivedOn)
      BY <2>1 DEF SentInDay, ReceivedInDay, GiftsFrom, GiftsTo
    <3>3. GiftsCounted'
      BY <1>1, <2>1, <3>1, <3>2 DEF GiftsCounted
    <3>4. GiftCaps'
      BY <1>1, <2>1, <3>1 DEF GiftCaps
    <3> QED BY <3>3, <3>4
  <2>3. ClaimsCounted' /\ ClaimedOncePerDay'
    BY <1>1, <2>1 DEF ClaimsCounted, ClaimedOncePerDay
  <2>4. StreaksCounted' /\ StreaksPayRuns'
    <3>1. \A p, kind : EntriesOfKind(p, kind)' = EntriesOfKind(p, kind)
      BY <2>1 DEF EntriesOfKind
    <3>2. \A p : BonusDays(p)' = BonusDays(p)
      BY <2>1, <3>1 DEF BonusDays
    <3>3. \A p, k : /\ RunEnding(p, players[p].lastDailyOn)' = RunEnding(p, players[p].lastDailyOn)
                   /\ RunEnding(p, ledger[k].ref)' = RunEnding(p, ledger[k].ref)
      BY <2>1, <3>2 DEF RunEnding
    <3> QED BY <1>1, <2>1, <3>1, <3>2, <3>3 DEF StreaksCounted, StreaksPayRuns
  <2> QED BY <1>2, <2>2, <2>3, <2>4 DEF CalendarInv
<1> QED BY <1>3, <1>4, <1>5, StepKinds

(* While requests answer on the day they arrive and clients keep one time   *)
(* zone, the days and counters on a player's row say what the tables have   *)
(* for the current day (economy.ts planClaim and planGift).                 *)
THEOREM AlwaysCalendarInv ==
  ASSUME DistinctIds, OneCalendar
  PROVE  Spec => []CalendarInv
<1>1. IInv /\ AccountsInv /\ CalendarInv /\ [Next]_vars => CalendarInv'
  BY NextCalendarInv DEF AccountsInv
<1> QED BY <1>1, InitCalendar, AlwaysIInv, AlwaysAccountsInv, PTL DEF Spec

(* No player ever sends or receives more on a day than the day's limits     *)
(* (economy.ts GIFT_SEND_LIMIT and GIFT_RECEIVE_LIMIT).                     *)
THEOREM AlwaysGiftCaps ==
  ASSUME DistinctIds, OneCalendar
  PROVE  Spec => []GiftCaps
<1>1. CalendarInv => GiftCaps
  BY DEF CalendarInv
<1> QED BY <1>1, AlwaysCalendarInv, PTL

(* A daily bonus, and a bailout, is paid once per player and day            *)
(* (economy.ts:51 and 60).                                                  *)
THEOREM AlwaysClaimedOncePerDay ==
  ASSUME DistinctIds, OneCalendar
  PROVE  Spec => []ClaimedOncePerDay
<1>1. CalendarInv => ClaimedOncePerDay
  BY DEF CalendarInv
<1> QED BY <1>1, AlwaysCalendarInv, PTL

(* Every bonus is what its run of consecutive days has earned               *)
(* (economy.ts:47-48).                                                      *)
THEOREM AlwaysStreaksPayRuns ==
  ASSUME DistinctIds, OneCalendar
  PROVE  Spec => []StreaksPayRuns
<1>1. CalendarInv => StreaksPayRuns
  BY DEF CalendarInv
<1> QED BY <1>1, AlwaysCalendarInv, PTL

==============================================================================
