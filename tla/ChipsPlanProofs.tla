--------------------------- MODULE ChipsPlanProofs ---------------------------
(***************************************************************************)
(* What the pure rules of Chips plan, whichever repository runs them: rows  *)
(* of their types, which continue the ledger of every player they touch and *)
(* move what they say they move.  And how sums over tables change when rows *)
(* are added.                                                              *)
(***************************************************************************)
EXTENDS ChipsPlans, Functions, TLAPS, FiniteSetTheorems, WellFoundedInduction

------------------------------------------------------------------------------
(* Plans.                                                                   *)

(* What fits the tables is decided by the rows of players and ledger alone. *)
LEMMA FitsTogether ==
  ASSUME NEW table, NEW w, NEW v, LedgerFits(w, table), v.players = w.players, v.ledger = w.ledger
  PROVE  LedgerFits(v, table)
BY DEF LedgerFits, Continues, After

(* Tables: Row, Put and Overlay keep a table's type.                        *)
LEMMA TableTypes ==
  ASSUME NEW K, NEW R
  PROVE  /\ IsTable(NoRows, K, R)
         /\ \A k \in K, v \in R : IsTable(Row(k, v), K, R)
  BY DEF IsTable, NoRows, Row

LEMMA PutTable ==
  ASSUME NEW K, NEW R, NEW t, IsTable(t, K, R), NEW k \in K, NEW v \in R
  PROVE  IsTable(Put(t, k, v), K, R)
  BY DEF IsTable, Put

LEMMA OverlayTable ==
  ASSUME NEW K, NEW R, NEW t, NEW u, IsTable(t, K, R), IsTable(u, K, R)
  PROVE  IsTable(Overlay(t, u), K, R)
  BY DEF IsTable, Overlay

LEMMA DraftWrites ==
  ASSUME NEW rows, IsTable(rows, Player, PlayerRow)
  PROVE  IsWrites(Draft(rows))
  BY TableTypes DEF IsWrites, Draft

------------------------------------------------------------------------------
(* What one credit does to a draft: its row, its entry, and nothing else.   *)
LEMMA PostEffect ==
  ASSUME NEW w, IsWrites(w), NEW u \in DOMAIN w.players,
         NEW kind \in Kind, NEW amount \in Int, NEW ref \in Ref,
         w.players[u].balance + amount >= 0,
         NEW v, v = Post(w, u, kind, amount, ref)
  PROVE  /\ IsWrites(v)
         /\ DOMAIN v.players = DOMAIN w.players
         /\ DOMAIN v.ledger = DOMAIN w.ledger \cup {<<u, w.players[u].ledgerSeq + 1>>}
         /\ v.players[u].balance = w.players[u].balance + amount
         /\ v.players[u].ledgerSeq = w.players[u].ledgerSeq + 1
         /\ \A p \in DOMAIN w.players : p # u => v.players[p] = w.players[p]
         /\ v.ledger[<<u, w.players[u].ledgerSeq + 1>>].balanceAfter = w.players[u].balance + amount
         /\ v.ledger[<<u, w.players[u].ledgerSeq + 1>>].amount = amount
         /\ \A k \in DOMAIN w.ledger : k # <<u, w.players[u].ledgerSeq + 1>> => v.ledger[k] = w.ledger[k]
         /\ v.hands = w.hands /\ v.gifts = w.gifts /\ v.stats = w.stats /\ v.hits = w.hits
         /\ v.contribution = w.contribution /\ v.hit = w.hit
<1> DEFINE row  == w.players[u]
           n    == row.ledgerSeq + 1
           seq  == n
           next == [row EXCEPT !.balance = row.balance + amount, !.ledgerSeq = seq]
           item == [kind |-> kind, amount |-> amount, balanceAfter |-> row.balance + amount, ref |-> ref]
           P    == Put(w.players, u, next)
           L    == Put(w.ledger, <<u, seq>>, item)
<1>1. u \in Player /\ row \in PlayerRow
  BY DEF IsWrites, IsTable
<1>2. row.balance + amount \in Nat /\ seq \in Nat
  BY <1>1 DEF PlayerRow
<1>3. next \in PlayerRow
  BY <1>1, <1>2 DEF PlayerRow
<1>4. item \in Entry
  BY <1>2 DEF Entry
<1>5. /\ IsTable(P, Player, PlayerRow) /\ DOMAIN P = DOMAIN w.players
      /\ P[u] = next /\ \A p \in DOMAIN w.players : p # u => P[p] = w.players[p]
  <2>1. IsTable(w.players, Player, PlayerRow)
    BY DEF IsWrites
  <2> HIDE DEF next
  <2>2. IsTable(P, Player, PlayerRow)
    BY <1>1, <1>3, <2>1, PutTable
  <2> QED BY <2>2 DEF Put
<1>6. /\ IsTable(L, Player \X Nat, Entry) /\ DOMAIN L = DOMAIN w.ledger \cup {<<u, seq>>}
      /\ L[<<u, seq>>] = item /\ \A k \in DOMAIN w.ledger : k # <<u, seq>> => L[k] = w.ledger[k]
  <2>1. <<u, seq>> \in Player \X Nat
    BY <1>1, <1>2
  <2>2. IsTable(w.ledger, Player \X Nat, Entry)
    BY DEF IsWrites
  <2> HIDE DEF item, seq
  <2>3. IsTable(L, Player \X Nat, Entry)
    BY <2>1, <2>2, <1>4, PutTable
  <2> QED BY <2>3 DEF Put
<1>7. v = [w EXCEPT !.players = P, !.ledger = L]
  BY DEF Post
<1>8. v = [players |-> P, ledger |-> L, hands |-> w.hands, gifts |-> w.gifts,
           stats |-> w.stats, hits |-> w.hits, contribution |-> w.contribution, hit |-> w.hit]
  BY <1>7 DEF IsWrites
<1>9. IsWrites(v)
  BY <1>8, <1>5, <1>6 DEF IsWrites
<1>10. /\ next.balance = row.balance + amount /\ next.ledgerSeq = n
       /\ item.balanceAfter = row.balance + amount /\ item.amount = amount
  BY <1>1 DEF PlayerRow
<1> HIDE DEF P, L, next, item
<1> QED BY <1>5, <1>6, <1>8, <1>9, <1>10

(* The same, without the ledger's rows.                                     *)
LEMMA PostRows ==
  ASSUME NEW w, IsWrites(w), NEW u \in DOMAIN w.players,
         NEW kind \in Kind, NEW amount \in Int, NEW ref \in Ref,
         w.players[u].balance + amount >= 0,
         NEW v, v = Post(w, u, kind, amount, ref)
  PROVE  /\ IsWrites(v)
         /\ DOMAIN v.players = DOMAIN w.players
         /\ v.players[u].balance = w.players[u].balance + amount
         /\ \A p \in DOMAIN w.players : p # u => v.players[p] = w.players[p]
         /\ v.hands = w.hands /\ v.gifts = w.gifts /\ v.stats = w.stats /\ v.hits = w.hits
         /\ v.contribution = w.contribution /\ v.hit = w.hit
<1> DEFINE n == w.players[u].ledgerSeq + 1
<1>1. /\ IsWrites(v)
      /\ DOMAIN v.players = DOMAIN w.players
      /\ DOMAIN v.ledger = DOMAIN w.ledger \cup {<<u, n>>}
      /\ v.players[u].balance = w.players[u].balance + amount
      /\ \A p \in DOMAIN w.players : p # u => v.players[p] = w.players[p]
      /\ v.ledger[<<u, n>>].amount = amount
      /\ v.hands = w.hands /\ v.gifts = w.gifts /\ v.stats = w.stats /\ v.hits = w.hits
      /\ v.contribution = w.contribution /\ v.hit = w.hit
  BY PostEffect
<1> QED BY <1>1

------------------------------------------------------------------------------
(* The rows of one player that a draft plans continue that player's ledger: *)
(* a draft that posted nothing yet does, and each credit keeps it so.       *)
LEMMA DraftFits ==
  ASSUME NEW rows, NEW table,
         DOMAIN rows \subseteq DOMAIN table,
         \A p \in DOMAIN rows : /\ rows[p].balance = table[p].balance
                                /\ rows[p].ledgerSeq = table[p].ledgerSeq
                                /\ table[p].ledgerSeq \in Nat
  PROVE  LedgerFits(Draft(rows), table)
  BY DEF LedgerFits, Continues, After, Draft, NoRows

LEMMA PostFits ==
  ASSUME NEW w, IsWrites(w), NEW u \in DOMAIN w.players,
         NEW kind \in Kind, NEW amount \in Int, NEW ref \in Ref,
         w.players[u].balance + amount >= 0,
         NEW v, v = Post(w, u, kind, amount, ref),
         NEW table, IsTable(table, Player, PlayerRow), LedgerFits(w, table)
  PROVE  LedgerFits(v, table)
<1> DEFINE n == w.players[u].ledgerSeq + 1
<1>1. /\ DOMAIN v.players = DOMAIN w.players
      /\ DOMAIN v.ledger = DOMAIN w.ledger \cup {<<u, n>>}
      /\ v.players[u].balance = w.players[u].balance + amount
      /\ v.players[u].ledgerSeq = n
      /\ \A p \in DOMAIN w.players : p # u => v.players[p] = w.players[p]
      /\ v.ledger[<<u, n>>].balanceAfter = w.players[u].balance + amount
      /\ v.ledger[<<u, n>>].amount = amount
      /\ \A k \in DOMAIN w.ledger : k # <<u, n>> => v.ledger[k] = w.ledger[k]
  BY PostEffect
<1>2. \A p \in DOMAIN w.players : /\ w.players[p] \in PlayerRow /\ table[p] \in PlayerRow
                                  /\ w.players[p].ledgerSeq \in Nat /\ table[p].ledgerSeq \in Nat
  BY DEF IsWrites, IsTable, LedgerFits, PlayerRow
<1>3. ASSUME NEW p \in DOMAIN v.players
      PROVE  Continues(v, p, table[p])
  <2> DEFINE row == table[p]
             top == w.players[p].ledgerSeq
  <2>1. /\ p \in DOMAIN w.players /\ row.ledgerSeq \in Nat /\ top \in Nat /\ row.ledgerSeq <= top
        /\ w.players[p].balance = After(w, p, top, row)
        /\ \A m \in row.ledgerSeq + 1 .. top :
             /\ <<p, m>> \in DOMAIN w.ledger
             /\ w.ledger[<<p, m>>].balanceAfter = After(w, p, m - 1, row) + w.ledger[<<p, m>>].amount
    BY <1>1, <1>2 DEF LedgerFits, Continues
  <2>2. ASSUME NEW m \in row.ledgerSeq + 1 .. top
        PROVE  <<p, m>> \in DOMAIN v.ledger /\ v.ledger[<<p, m>>] = w.ledger[<<p, m>>]
    <3>1. <<p, m>> # <<u, n>>
      BY <1>2, <2>1
    <3> QED BY <1>1, <2>1, <3>1
  <2>3. \A m \in row.ledgerSeq .. top : After(v, p, m, row) = After(w, p, m, row)
    BY <2>1, <2>2 DEF After
  <2>4. ASSUME NEW m \in row.ledgerSeq + 1 .. top
        PROVE  v.ledger[<<p, m>>].balanceAfter = After(v, p, m - 1, row) + v.ledger[<<p, m>>].amount
    <3>1. m - 1 \in row.ledgerSeq .. top
      BY <2>1
    <3> QED BY <2>1, <2>2, <2>3, <3>1
  <2>5. CASE p # u
    <3>1. v.players[p].ledgerSeq = top /\ v.players[p].balance = After(v, p, top, row)
      BY <1>1, <2>1, <2>3, <2>5
    <3> QED BY <2>1, <2>2, <2>4, <3>1 DEF Continues
  <2>6. CASE p = u
    <3>1. n = top + 1 /\ v.players[p].ledgerSeq = n
      BY <1>1, <2>6
    <3>2. After(v, p, top, row) = w.players[p].balance
      BY <2>1, <2>3
    <3>3. After(v, p, n, row) = v.ledger[<<p, n>>].balanceAfter
      BY <2>1, <3>1 DEF After
    <3>4. v.players[p].balance = After(v, p, n, row)
      BY <1>1, <2>6, <3>3
    <3>5. /\ <<p, n>> \in DOMAIN v.ledger
          /\ v.ledger[<<p, n>>].balanceAfter = After(v, p, n - 1, row) + v.ledger[<<p, n>>].amount
      BY <1>1, <2>1, <2>6, <3>1, <3>2
    <3>6. ASSUME NEW m \in row.ledgerSeq + 1 .. n
          PROVE  /\ <<p, m>> \in DOMAIN v.ledger
                 /\ v.ledger[<<p, m>>].balanceAfter = After(v, p, m - 1, row) + v.ledger[<<p, m>>].amount
      <4>1. m \in row.ledgerSeq + 1 .. top \/ m = n
        BY <2>1, <3>1
      <4> QED BY <2>2, <2>4, <3>5, <4>1
    <3> QED BY <2>1, <3>1, <3>4, <3>6 DEF Continues
  <2> QED BY <2>5, <2>6
<1>4. \A k \in DOMAIN v.ledger :
        /\ k[1] \in DOMAIN v.players
        /\ k[2] \in table[k[1]].ledgerSeq + 1 .. v.players[k[1]].ledgerSeq
  BY <1>1, <1>2 DEF LedgerFits, Continues
<1>5. DOMAIN v.players \subseteq DOMAIN table
  BY <1>1 DEF LedgerFits
<1> QED BY <1>3, <1>4, <1>5 DEF LedgerFits

------------------------------------------------------------------------------
(* What the rules plan, with `table` the player rows they read.             *)
PlansFor(v, S, table) ==
  IsWrites(v) /\ LedgerFits(v, table) /\ DOMAIN v.players = S

WithoutHand(v) == DOMAIN v.hands = {} /\ DOMAIN v.hits = {} /\ v.hit = FALSE

PlansHand(v, u, h, g, table) ==
  /\ PlansFor(v, {u}, table)
  /\ DOMAIN v.hands = {h} /\ v.hands[h].user = u /\ v.hands[h].game = g
  /\ DOMAIN v.gifts = {} /\ DOMAIN v.hits = {}
  /\ v.hit => v.hands[h].status = "settled"

LEMMA DraftPlans ==
  ASSUME NEW table, IsTable(table, Player, PlayerRow), NEW rows, IsTable(rows, Player, PlayerRow),
         DOMAIN rows \subseteq DOMAIN table,
         \A p \in DOMAIN rows : /\ rows[p].balance = table[p].balance
                                /\ rows[p].ledgerSeq = table[p].ledgerSeq,
         NEW v, v = Draft(rows)
  PROVE  /\ PlansFor(v, DOMAIN rows, table) /\ WithoutHand(v)
         /\ v.players = rows /\ DOMAIN v.gifts = {}
<1>1. \A p \in DOMAIN rows : table[p].ledgerSeq \in Nat
  BY DEF IsTable, PlayerRow
<1>2. LedgerFits(v, table)
  BY <1>1, DraftFits
<1>3. IsWrites(v)
  BY DraftWrites
<1> QED BY <1>2, <1>3 DEF PlansFor, WithoutHand, Draft, NoRows

LEMMA PostPlans ==
  ASSUME NEW table, IsTable(table, Player, PlayerRow),
         NEW w, NEW u \in DOMAIN w.players, NEW S, PlansFor(w, S, table),
         NEW kind \in Kind, NEW amount \in Int, NEW ref \in Ref,
         w.players[u].balance + amount >= 0,
         NEW v, v = Post(w, u, kind, amount, ref)
  PROVE  /\ PlansFor(v, S, table)
         /\ v.players[u].balance = w.players[u].balance + amount
         /\ \A p \in S : p # u => v.players[p] = w.players[p]
         /\ v.hands = w.hands /\ v.gifts = w.gifts /\ v.stats = w.stats /\ v.hits = w.hits
         /\ v.contribution = w.contribution /\ v.hit = w.hit
<1>1. IsWrites(w) /\ LedgerFits(w, table) /\ S = DOMAIN w.players
  BY DEF PlansFor
<1>2. LedgerFits(v, table)
  BY <1>1, PostFits
<1>3. /\ IsWrites(v)
      /\ DOMAIN v.players = DOMAIN w.players
      /\ v.players[u].balance = w.players[u].balance + amount
      /\ \A p \in DOMAIN w.players : p # u => v.players[p] = w.players[p]
      /\ v.hands = w.hands /\ v.gifts = w.gifts /\ v.stats = w.stats /\ v.hits = w.hits
      /\ v.contribution = w.contribution /\ v.hit = w.hit
  BY <1>1, PostRows
<1> QED BY <1>1, <1>2, <1>3 DEF PlansFor

LEMMA SettlePlans ==
  ASSUME NEW table, IsTable(table, Player, PlayerRow),
         NEW hand \in HandRow, NEW h \in HandId, NEW tally \in StatsRow,
         NEW w, PlansFor(w, {hand.user}, table), WithoutHand(w), DOMAIN w.gifts = {},
         NEW v, v = SettleHand(w, h, hand, tally)
  PROVE  PlansHand(v, hand.user, h, hand.game, table)
<1> DEFINE s    == hand.state
           rest == s.returned - s.paidEarly
           kept == [hand EXCEPT !.status = "settled", !.returned = s.returned]
           fold == [hands |-> tally.hands + 1, wagered |-> tally.wagered + hand.wagered,
                    returned |-> tally.returned + s.returned]
<1>1. /\ hand.user \in Player /\ hand.game \in Game /\ hand.wagered \in Nat
      /\ s \in EngineView /\ s.returned \in Nat /\ s.paidEarly \in Nat
      /\ s.jackpotStake \in Nat /\ s.jackpotEligible \in BOOLEAN
  BY EngineAssumption DEF HandRow, EngineView
<1>2. kept \in HandRow /\ kept.user = hand.user /\ kept.game = hand.game /\ kept.status = "settled"
  BY <1>1 DEF HandRow
<1>3. fold \in StatsRow
  BY <1>1 DEF StatsRow
<1>4. PICK paid : paid = IF rest > 0 THEN Post(w, hand.user, "payout", rest, h) ELSE w
  OBVIOUS
<1>5. /\ PlansFor(paid, {hand.user}, table) /\ WithoutHand(paid) /\ DOMAIN paid.gifts = {}
  <2>1. CASE rest > 0
    <3>1. hand.user \in DOMAIN w.players /\ w.players[hand.user].balance + rest >= 0
      <4>1. hand.user \in DOMAIN w.players /\ w.players[hand.user] \in PlayerRow
        BY <1>1 DEF PlansFor, IsWrites, IsTable
      <4>2. w.players[hand.user].balance \in Nat
        BY <4>1 DEF PlayerRow
      <4> QED BY <2>1, <4>1, <4>2, <1>1
    <3>2. rest \in Int /\ "payout" \in Kind /\ h \in Ref
      BY <1>1 DEF Kind, Ref
    <3>3. paid = Post(w, hand.user, "payout", rest, h)
      BY <1>4, <2>1
    <3> HIDE DEF rest
    <3> QED BY <3>1, <3>2, <3>3, PostPlans DEF WithoutHand
  <2>2. CASE ~(rest > 0)
    BY <1>4, <2>2
  <2> QED BY <2>1, <2>2
<1>6. v = [players |-> paid.players, ledger |-> paid.ledger, hands |-> Row(h, kept),
           gifts |-> paid.gifts, stats |-> Row(<<hand.user, hand.game>>, fold), hits |-> paid.hits,
           contribution |-> 2 * s.jackpotStake, hit |-> s.jackpotEligible]
  <2>1. v = [paid EXCEPT !.hands = Row(h, kept), !.stats = Row(<<hand.user, hand.game>>, fold),
                         !.contribution = 2 * s.jackpotStake, !.hit = s.jackpotEligible]
    BY <1>4 DEF SettleHand, RestToPay, Folded
  <2> HIDE DEF kept, fold
  <2> QED BY <1>5, <2>1 DEF PlansFor, IsWrites
<1> HIDE DEF kept, fold
<1>7. IsTable(Row(h, kept), HandId, HandRow)
  BY <1>2, TableTypes
<1>8. IsTable(Row(<<hand.user, hand.game>>, fold), Player \X Game, StatsRow)
  <2>1. <<hand.user, hand.game>> \in Player \X Game
    BY <1>1
  <2> QED BY <2>1, <1>3, TableTypes
<1>9. IsWrites(v)
  BY <1>1, <1>5, <1>6, <1>7, <1>8 DEF PlansFor, IsWrites
<1>10. LedgerFits(v, table)
  <2>1. v.players = paid.players /\ v.ledger = paid.ledger
    BY <1>6
  <2>2. LedgerFits(paid, table)
    BY <1>5 DEF PlansFor
  <2> QED BY <2>1, <2>2, FitsTogether
<1>11. /\ DOMAIN v.hands = {h} /\ v.hands[h] = kept
       /\ v.players = paid.players /\ v.gifts = paid.gifts /\ v.hits = paid.hits
  BY <1>6 DEF Row
<1> QED BY <1>2, <1>5, <1>9, <1>10, <1>11 DEF PlansHand, PlansFor, WithoutHand

LEMMA FinishPlans ==
  ASSUME NEW table, IsTable(table, Player, PlayerRow),
         NEW hand \in HandRow, NEW h \in HandId, NEW tally \in StatsRow,
         NEW w, PlansFor(w, {hand.user}, table), WithoutHand(w), DOMAIN w.gifts = {},
         NEW v, v = Finish(w, h, hand, tally)
  PROVE  PlansHand(v, hand.user, h, hand.game, table)
<1>1. CASE hand.state.finished
  BY <1>1, SettlePlans DEF Finish
<1>2. CASE ~hand.state.finished
  <2>1. v = [players |-> w.players, ledger |-> w.ledger, hands |-> Row(h, hand),
             gifts |-> w.gifts, stats |-> w.stats, hits |-> w.hits,
             contribution |-> w.contribution, hit |-> w.hit]
    BY <1>2 DEF Finish, PlansFor, IsWrites
  <2>2. IsTable(Row(h, hand), HandId, HandRow)
    BY TableTypes
  <2>3. IsWrites(v)
    BY <2>1, <2>2 DEF PlansFor, IsWrites
  <2>4. LedgerFits(v, table)
    BY <2>1 DEF PlansFor, LedgerFits, Continues, After
  <2>5. DOMAIN v.hands = {h} /\ v.hands[h] = hand /\ v.players = w.players
    BY <2>1 DEF Row
  <2> QED BY <2>1, <2>3, <2>4, <2>5 DEF PlansHand, PlansFor, WithoutHand
<1> QED BY <1>1, <1>2

(* A draft on one player's row, which may already be dated.                 *)
SameMoney(row, table, u) == row.balance = table[u].balance /\ row.ledgerSeq = table[u].ledgerSeq

LEMMA OneRowPlans ==
  ASSUME NEW table, IsTable(table, Player, PlayerRow), NEW u \in DOMAIN table,
         NEW row \in PlayerRow, SameMoney(row, table, u),
         NEW v, v = Draft(Row(u, row))
  PROVE  /\ PlansFor(v, {u}, table) /\ WithoutHand(v) /\ DOMAIN v.gifts = {}
         /\ v.players = Row(u, row)
<1>1. PICK rows : rows = Row(u, row)
  OBVIOUS
<1>2. u \in Player
  BY DEF IsTable
<1>3. IsTable(rows, Player, PlayerRow)
  BY <1>1, <1>2, TableTypes
<1>4. DOMAIN rows = {u} /\ rows[u] = row
  BY <1>1 DEF Row
<1>5. v = Draft(rows)
  BY <1>1
<1>6. \A p \in DOMAIN rows : rows[p].balance = table[p].balance /\ rows[p].ledgerSeq = table[p].ledgerSeq
  BY <1>4 DEF SameMoney
<1>7. DOMAIN rows \subseteq DOMAIN table
  BY <1>4
<1>8. /\ PlansFor(v, DOMAIN rows, table) /\ WithoutHand(v)
      /\ v.players = rows /\ DOMAIN v.gifts = {}
  BY <1>3, <1>5, <1>6, <1>7, DraftPlans
<1> QED BY <1>1, <1>4, <1>8

(* planStart's rows.                                                        *)
LEMMA StartPlans ==
  ASSUME NEW table, IsTable(table, Player, PlayerRow), NEW u \in DOMAIN table,
         NEW h \in HandId, NEW g \in Game, NEW s \in EngineState, NEW st \in StatsRow,
         Affords(table[u], -s.staked),
         NEW v, v = StartWrites(u, table[u], h, g, s, st)
  PROVE  PlansHand(v, u, h, g, table)
<1>1. /\ u \in Player /\ table[u] \in PlayerRow /\ table[u].balance \in Nat
      /\ s.staked \in Nat /\ s.paidEarly \in Nat
  BY EngineAssumption DEF IsTable, EngineView, PlayerRow
<1>2. PICK none : none = Draft(Row(u, table[u]))
  OBVIOUS
<1>20. PICK row : row = table[u]
  OBVIOUS
<1>3. PICK bet : bet = Post(none, u, "bet", -s.staked, h)
  OBVIOUS
<1>4. PICK early : early = IF s.paidEarly > 0 THEN Post(bet, u, "payout", s.paidEarly, h) ELSE bet
  OBVIOUS
<1>5. PICK hand : hand = [user |-> u, game |-> g, status |-> "active", version |-> 0, state |-> s,
                          wagered |-> s.staked, returned |-> 0]
  OBVIOUS
<1>6. v = Finish(early, h, hand, st)
  BY <1>2, <1>3, <1>4, <1>5 DEF StartWrites
<1>7. h \in Ref /\ "bet" \in Kind /\ "payout" \in Kind
  BY DEF Ref, Kind
<1>13. row \in PlayerRow /\ SameMoney(row, table, u) /\ none = Draft(Row(u, row))
  BY <1>1, <1>2, <1>20 DEF SameMoney
<1>14. /\ PlansFor(none, {u}, table) /\ WithoutHand(none) /\ DOMAIN none.gifts = {}
       /\ none.players = Row(u, row)
  BY <1>13, OneRowPlans
<1>8. /\ PlansFor(none, {u}, table) /\ WithoutHand(none) /\ u \in DOMAIN none.players
      /\ none.players[u] = table[u] /\ DOMAIN none.gifts = {}
  BY <1>14, <1>20 DEF Row
<1>9. /\ PlansFor(bet, {u}, table) /\ WithoutHand(bet) /\ DOMAIN bet.gifts = {}
      /\ u \in DOMAIN bet.players /\ bet.players[u].balance \in Nat
  <2>1. none.players[u].balance + (-s.staked) >= 0 /\ -s.staked \in Int
    BY <1>1, <1>8 DEF Affords
  <2>2. /\ PlansFor(bet, {u}, table) /\ bet.players[u].balance = none.players[u].balance + (-s.staked)
        /\ bet.hands = none.hands /\ bet.gifts = none.gifts /\ bet.hits = none.hits /\ bet.hit = none.hit
    BY <1>3, <1>7, <1>8, <2>1, PostPlans
  <2> QED BY <1>1, <1>8, <2>1, <2>2 DEF WithoutHand, PlansFor
<1>10. PlansFor(early, {u}, table) /\ WithoutHand(early) /\ DOMAIN early.gifts = {}
  <2>1. CASE s.paidEarly > 0
    <3>1. bet.players[u].balance + s.paidEarly >= 0 /\ s.paidEarly \in Int
      BY <1>1, <1>9
    <3>2. early = Post(bet, u, "payout", s.paidEarly, h)
      BY <1>4, <2>1
    <3>3. /\ PlansFor(early, {u}, table)
          /\ early.hands = bet.hands /\ early.gifts = bet.gifts /\ early.hits = bet.hits /\ early.hit = bet.hit
      BY <1>7, <1>9, <3>1, <3>2, PostPlans
    <3> QED BY <1>9, <3>3 DEF WithoutHand
  <2>2. CASE ~(s.paidEarly > 0)
    BY <1>4, <1>9, <2>2
  <2> QED BY <2>1, <2>2
<1>11. hand \in HandRow /\ hand.user = u /\ hand.game = g
  BY <1>1, <1>5 DEF HandRow
<1>12. PlansHand(v, hand.user, h, hand.game, table)
  BY <1>6, <1>10, <1>11, FinishPlans
<1> QED BY <1>11, <1>12

(* planAction's rows.                                                       *)
LEMMA ActionPlans ==
  ASSUME NEW table, IsTable(table, Player, PlayerRow), NEW hand \in HandRow, hand.user \in DOMAIN table,
         NEW h \in HandId, NEW t \in EngineState, NEW st \in StatsRow,
         ExtraStake(hand, t) > 0 => Affords(table[hand.user], -ExtraStake(hand, t)),
         NEW v, v = ActionWrites(table[hand.user], h, hand, t, st)
  PROVE  PlansHand(v, hand.user, h, hand.game, table)
<1> DEFINE extra == ExtraStake(hand, t)
           more  == ExtraEarly(hand, t)
<1>1. /\ hand.user \in Player /\ hand.state \in EngineState /\ hand.wagered \in Nat /\ hand.version \in Nat
      /\ hand.state.staked \in Nat /\ hand.state.paidEarly \in Nat
      /\ t.staked \in Nat /\ t.paidEarly \in Nat /\ extra \in Int /\ more \in Int
  BY EngineAssumption DEF HandRow, EngineView, ExtraStake, ExtraEarly
<1>2. PICK u : u = hand.user
  OBVIOUS
<1>3. u \in DOMAIN table /\ table[u] \in PlayerRow /\ table[u].balance \in Nat
  BY <1>2 DEF IsTable, PlayerRow
<1>4. PICK none : none = Draft(Row(u, table[u]))
  OBVIOUS
<1>20. PICK row : row = table[u]
  OBVIOUS
<1>5. PICK bet : bet = IF extra > 0 THEN Post(none, u, "bet", -extra, h) ELSE none
  OBVIOUS
<1>6. PICK early : early = IF more > 0 THEN Post(bet, u, "payout", more, h) ELSE bet
  OBVIOUS
<1>7. PICK next : next = [hand EXCEPT !.version = hand.version + 1, !.state = t,
                            !.wagered = IF extra > 0 THEN hand.wagered + extra ELSE hand.wagered]
  OBVIOUS
<1>8. v = Finish(early, h, next, st)
  BY <1>2, <1>4, <1>5, <1>6, <1>7 DEF ActionWrites
<1>9. h \in Ref /\ "bet" \in Kind /\ "payout" \in Kind
  BY DEF Ref, Kind
<1>18. u \in DOMAIN table
  BY <1>2
<1>16. row \in PlayerRow /\ SameMoney(row, table, u) /\ none = Draft(Row(u, row))
  BY <1>3, <1>4, <1>20 DEF SameMoney
<1>17. /\ PlansFor(none, {u}, table) /\ WithoutHand(none) /\ DOMAIN none.gifts = {}
       /\ none.players = Row(u, row)
  BY <1>18, <1>16, OneRowPlans
<1>10. /\ PlansFor(none, {u}, table) /\ WithoutHand(none) /\ u \in DOMAIN none.players
       /\ none.players[u] = table[u] /\ DOMAIN none.gifts = {}
  BY <1>17, <1>20 DEF Row
<1>11. extra > 0 => table[u].balance + (-extra) >= 0
  BY <1>2 DEF Affords
<1> HIDE DEF extra, more
<1>12. /\ PlansFor(bet, {u}, table) /\ WithoutHand(bet) /\ DOMAIN bet.gifts = {}
       /\ u \in DOMAIN bet.players /\ bet.players[u].balance \in Nat
  <2>1. CASE extra > 0
    <3>1. none.players[u].balance + (-extra) >= 0 /\ -extra \in Int
      BY <1>1, <1>10, <1>11, <2>1
    <3>2. bet = Post(none, u, "bet", -extra, h)
      BY <1>5, <2>1
    <3>3. /\ PlansFor(bet, {u}, table) /\ bet.players[u].balance = none.players[u].balance + (-extra)
          /\ bet.hands = none.hands /\ bet.gifts = none.gifts /\ bet.hits = none.hits /\ bet.hit = none.hit
      BY <1>9, <1>10, <3>1, <3>2, PostPlans
    <3> QED BY <1>1, <1>3, <1>10, <3>1, <3>3 DEF WithoutHand, PlansFor
  <2>2. CASE ~(extra > 0)
    BY <1>3, <1>5, <1>10, <2>2
  <2> QED BY <2>1, <2>2
<1>13. PlansFor(early, {u}, table) /\ WithoutHand(early) /\ DOMAIN early.gifts = {}
  <2>1. CASE more > 0
    <3>1. bet.players[u].balance + more >= 0
      BY <1>1, <1>12, <2>1
    <3>2. early = Post(bet, u, "payout", more, h)
      BY <1>6, <2>1
    <3>3. /\ PlansFor(early, {u}, table)
          /\ early.hands = bet.hands /\ early.gifts = bet.gifts /\ early.hits = bet.hits /\ early.hit = bet.hit
      BY <1>1, <1>9, <1>12, <3>1, <3>2, PostPlans
    <3> QED BY <1>12, <3>3 DEF WithoutHand
  <2>2. CASE ~(more > 0)
    BY <1>6, <1>12, <2>2
  <2> QED BY <2>1, <2>2
<1>14. next \in HandRow /\ next.user = u /\ next.game = hand.game
  <2>1. (IF extra > 0 THEN hand.wagered + extra ELSE hand.wagered) \in Nat
    BY <1>1
  <2>2. hand.version + 1 \in Nat
    BY <1>1
  <2> QED BY <1>2, <1>7, <2>1, <2>2 DEF HandRow
<1>15. PlansHand(v, next.user, h, next.game, table)
  BY <1>8, <1>13, <1>14, FinishPlans
<1> QED BY <1>2, <1>14, <1>15

LEMMA ProductNat == ASSUME NEW a \in Nat, NEW b \in Nat PROVE a * b \in Nat
  OBVIOUS

LEMMA BonusNat == ASSUME NEW streak \in Nat PROVE BonusFor(streak) \in Nat
  BY EconomyAssumption, ProductNat DEF BonusFor

LEMMA QuotientNat == ASSUME NEW a \in Nat, NEW b \in Nat \ {0} PROVE a \div b \in Nat
  OBVIOUS

(* One dated row and one credit: what a claim plans.                        *)
LEMMA ClaimPlans ==
  ASSUME NEW table, IsTable(table, Player, PlayerRow), NEW u \in DOMAIN table,
         NEW row \in PlayerRow, SameMoney(row, table, u),
         NEW kind \in Kind, NEW amount \in Nat, NEW day \in Day,
         NEW v, v = Post(Draft(Row(u, row)), u, kind, amount, day)
  PROVE  PlansFor(v, {u}, table) /\ WithoutHand(v) /\ DOMAIN v.gifts = {}
<1>1. PICK none : none = Draft(Row(u, row))
  OBVIOUS
<1>2. /\ PlansFor(none, {u}, table) /\ WithoutHand(none) /\ DOMAIN none.gifts = {}
      /\ none.players = Row(u, row)
  BY <1>1, OneRowPlans
<1>3. u \in DOMAIN none.players /\ none.players[u] = row
  BY <1>2 DEF Row
<1>4. none.players[u].balance + amount >= 0 /\ amount \in Int /\ day \in Ref
  BY <1>3 DEF PlayerRow, Ref
<1>5. /\ PlansFor(v, {u}, table)
      /\ v.hands = none.hands /\ v.gifts = none.gifts /\ v.hits = none.hits /\ v.hit = none.hit
  BY <1>1, <1>2, <1>3, <1>4, PostPlans
<1> QED BY <1>2, <1>5 DEF WithoutHand

LEMMA DailyPlans ==
  ASSUME NEW table, IsTable(table, Player, PlayerRow), NEW u \in DOMAIN table, NEW day \in Day,
         NEW v, v = DailyWrites(u, table[u], day)
  PROVE  PlansFor(v, {u}, table) /\ WithoutHand(v) /\ DOMAIN v.gifts = {}
<1>1. PICK row : row = table[u]
  OBVIOUS
<1>2. PICK streak : streak = StreakOn(row, day)
  OBVIOUS
<1>3. PICK dated : dated = [row EXCEPT !.dailyStreak = streak, !.lastDailyOn = day]
  OBVIOUS
<1>4. row \in PlayerRow
  BY <1>1 DEF IsTable
<1>5. streak \in Nat
  BY <1>2, <1>4 DEF StreakOn, PlayerRow
<1>6. dated \in PlayerRow /\ SameMoney(dated, table, u)
  BY <1>1, <1>3, <1>4, <1>5 DEF PlayerRow, SameMoney
<1>7. v = Post(Draft(Row(u, dated)), u, "daily_bonus", BonusFor(streak), day)
  BY <1>1, <1>2, <1>3 DEF DailyWrites
<1>8. BonusFor(streak) \in Nat /\ "daily_bonus" \in Kind
  BY <1>5, BonusNat DEF Kind
<1> QED BY <1>6, <1>7, <1>8, ClaimPlans

LEMMA BailoutPlans ==
  ASSUME NEW table, IsTable(table, Player, PlayerRow), NEW u \in DOMAIN table, NEW day \in Day,
         table[u].balance < BailoutFloor,
         NEW v, v = BailoutWrites(u, table[u], day)
  PROVE  PlansFor(v, {u}, table) /\ WithoutHand(v) /\ DOMAIN v.gifts = {}
<1>1. PICK row : row = table[u]
  OBVIOUS
<1>2. PICK dated : dated = [row EXCEPT !.lastBailoutOn = day]
  OBVIOUS
<1>3. PICK amount : amount = BailoutTopUp - row.balance
  OBVIOUS
<1>4. row \in PlayerRow
  BY <1>1 DEF IsTable
<1>5. dated \in PlayerRow /\ SameMoney(dated, table, u)
  BY <1>1, <1>2, <1>4 DEF PlayerRow, SameMoney
<1>6. v = Post(Draft(Row(u, dated)), u, "bailout", amount, day)
  BY <1>1, <1>2, <1>3 DEF BailoutWrites
<1>7. amount \in Nat /\ "bailout" \in Kind
  BY <1>1, <1>3, <1>4, EconomyAssumption DEF PlayerRow, Kind
<1> QED BY <1>5, <1>6, <1>7, ClaimPlans

(* planGift's rows.                                                         *)
LEMMA GiftPlans ==
  ASSUME NEW table, IsTable(table, Player, PlayerRow), NEW g \in GiftRow, NEW id \in GiftId,
         NEW p \in DOMAIN table, NEW q \in DOMAIN table, p = g.from, q = g.to, p # q,
         GiftAllowed(table[p], table[q], g),
         NEW v, v = GiftWrites(table[p], table[q], id, g)
  PROVE  PlansFor(v, {p, q}, table) /\ WithoutHand(v) /\ DOMAIN v.gifts = {id}
<1>1. PICK sender : sender = [table[p] EXCEPT !.giftsSentToday = SentOn(table[p], g.senderDay) + g.amount,
                                              !.giftsSentOn = g.senderDay]
  OBVIOUS
<1>2. PICK receiver : receiver = [table[q] EXCEPT !.giftsReceivedToday = ReceivedOn(table[q], g.utcDay) + g.amount,
                                                  !.giftsReceivedOn = g.utcDay]
  OBVIOUS
<1>3. PICK rows : rows = Put(Row(p, sender), q, receiver)
  OBVIOUS
<1>4. PICK none : none = Draft(rows)
  OBVIOUS
<1>5. PICK out : out = Post(none, p, "gift_out", -g.amount, q)
  OBVIOUS
<1>6. PICK in : in = Post(out, q, "gift_in", g.amount, p)
  OBVIOUS
<1>7. v = [in EXCEPT !.gifts = Row(id, g)]
  BY <1>1, <1>2, <1>3, <1>4, <1>5, <1>6 DEF GiftWrites
<1>8. /\ p \in Player /\ q \in Player /\ g.amount \in Nat /\ g.senderDay \in Day /\ g.utcDay \in Day
      /\ table[p] \in PlayerRow /\ table[q] \in PlayerRow
      /\ table[p].balance \in Nat /\ table[q].balance \in Nat
      /\ table[p].balance - g.amount >= 0
  BY EconomyAssumption DEF GiftAllowed, GiftRow, IsTable, PlayerRow
<1>9. sender \in PlayerRow /\ sender.balance = table[p].balance /\ sender.ledgerSeq = table[p].ledgerSeq
  <2>1. SentOn(table[p], g.senderDay) + g.amount \in Nat
    BY <1>8 DEF SentOn, PlayerRow
  <2> QED BY <1>1, <1>8, <2>1 DEF PlayerRow
<1>10. receiver \in PlayerRow /\ receiver.balance = table[q].balance /\ receiver.ledgerSeq = table[q].ledgerSeq
  <2>1. ReceivedOn(table[q], g.utcDay) + g.amount \in Nat
    BY <1>8 DEF ReceivedOn, PlayerRow
  <2> QED BY <1>2, <1>8, <2>1 DEF PlayerRow
<1>11. IsTable(rows, Player, PlayerRow)
  <2>1. IsTable(Row(p, sender), Player, PlayerRow)
    BY <1>8, <1>9, TableTypes
  <2> QED BY <1>3, <1>8, <1>10, <2>1, PutTable
<1>12. DOMAIN rows = {p, q} /\ rows[p] = sender /\ rows[q] = receiver
  BY <1>3 DEF Row, Put
<1>13. /\ DOMAIN rows \subseteq DOMAIN table
       /\ \A x \in DOMAIN rows : rows[x].balance = table[x].balance /\ rows[x].ledgerSeq = table[x].ledgerSeq
  BY <1>9, <1>10, <1>12
<1>14. PlansFor(none, DOMAIN rows, table) /\ WithoutHand(none) /\ none.players = rows
  BY <1>4, <1>11, <1>13, DraftPlans
<1>15. /\ p \in DOMAIN none.players /\ q \in DOMAIN none.players /\ PlansFor(none, {p, q}, table)
       /\ none.players[p].balance = table[p].balance /\ none.players[q].balance = table[q].balance
  BY <1>9, <1>10, <1>12, <1>14
<1>16. /\ q \in Ref /\ p \in Ref /\ "gift_out" \in Kind /\ "gift_in" \in Kind /\ -g.amount \in Int
       /\ none.players[p].balance + (-g.amount) >= 0
  BY <1>8, <1>15 DEF Ref, Kind
<1>17. /\ PlansFor(out, {p, q}, table)
       /\ \A x \in {p, q} : x # p => out.players[x] = none.players[x]
       /\ out.hands = none.hands /\ out.hits = none.hits /\ out.hit = none.hit
  BY <1>5, <1>15, <1>16, PostPlans
<1>18. q \in DOMAIN out.players /\ out.players[q].balance + g.amount >= 0 /\ g.amount \in Int
  BY <1>8, <1>15, <1>17 DEF PlansFor
<1>19. /\ PlansFor(in, {p, q}, table)
       /\ in.hands = out.hands /\ in.hits = out.hits /\ in.hit = out.hit
  BY <1>6, <1>16, <1>17, <1>18, PostPlans
<1>20. v = [players |-> in.players, ledger |-> in.ledger, hands |-> in.hands, gifts |-> Row(id, g),
            stats |-> in.stats, hits |-> in.hits, contribution |-> in.contribution, hit |-> in.hit]
  BY <1>7, <1>19 DEF PlansFor, IsWrites
<1>21. IsTable(Row(id, g), GiftId, GiftRow)
  BY TableTypes
<1>22. IsWrites(v)
  BY <1>19, <1>20, <1>21 DEF PlansFor, IsWrites
<1>23. LedgerFits(v, table)
  <2>1. v.players = in.players /\ v.ledger = in.ledger
    BY <1>20
  <2>2. LedgerFits(in, table)
    BY <1>19 DEF PlansFor
  <2> QED BY <2>1, <2>2, FitsTogether
<1>24. WithoutHand(v)
  BY <1>14, <1>17, <1>19, <1>20 DEF WithoutHand
<1>25. DOMAIN v.gifts = {id} /\ v.players = in.players
  BY <1>20 DEF Row
<1> QED BY <1>19, <1>22, <1>23, <1>24, <1>25 DEF PlansFor

(* The jackpot a planned hand wins.                                         *)
LEMMA JackpotPlans ==
  ASSUME NEW table, IsTable(table, Player, PlayerRow),
         NEW w, NEW u \in DOMAIN w.players, NEW S, PlansFor(w, S, table),
         NEW h \in HandId, NEW amountInPot \in Nat,
         NEW v, v = PayJackpot(w, u, h, amountInPot)
  PROVE  /\ PlansFor(v, S, table) /\ v.hands = w.hands /\ v.gifts = w.gifts
         /\ DOMAIN v.hits = {h} /\ v.hit = w.hit
<1>1. PICK amount : amount = (amountInPot + w.contribution) \div 100
  OBVIOUS
<1>2. PICK paid : paid = Post(w, u, "jackpot", amount, h)
  OBVIOUS
<1>3. v = [paid EXCEPT !.hits = Row(h, amount)]
  BY <1>1, <1>2 DEF PayJackpot
<1>4. w.contribution \in Nat /\ w.players[u].balance \in Nat
  BY DEF PlansFor, IsWrites, IsTable, PlayerRow
<1>5. amount \in Nat
  BY <1>1, <1>4, QuotientNat
<1>6. w.players[u].balance + amount >= 0 /\ amount \in Int /\ "jackpot" \in Kind /\ h \in Ref
  BY <1>4, <1>5 DEF Kind, Ref
<1>7. /\ PlansFor(paid, S, table) /\ paid.hands = w.hands /\ paid.gifts = w.gifts /\ paid.hit = w.hit
  BY <1>2, <1>6, PostPlans
<1>8. v = [players |-> paid.players, ledger |-> paid.ledger, hands |-> paid.hands, gifts |-> paid.gifts,
           stats |-> paid.stats, hits |-> Row(h, amount), contribution |-> paid.contribution, hit |-> paid.hit]
  BY <1>3, <1>7 DEF PlansFor, IsWrites
<1>9. IsTable(Row(h, amount), HandId, Nat)
  BY <1>5, TableTypes
<1>10. IsWrites(v)
  BY <1>7, <1>8, <1>9 DEF PlansFor, IsWrites
<1>11. LedgerFits(v, table)
  <2>1. v.players = paid.players /\ v.ledger = paid.ledger
    BY <1>8
  <2> QED BY <1>7, <2>1 DEF PlansFor, LedgerFits, Continues, After
<1>12. /\ v.players = paid.players /\ v.hands = paid.hands /\ v.gifts = paid.gifts /\ v.hit = paid.hit
       /\ DOMAIN v.hits = {h}
  BY <1>8 DEF Row
<1> QED BY <1>7, <1>10, <1>11, <1>12 DEF PlansFor

------------------------------------------------------------------------------
(* A new player's row and first ledger row.                                 *)
LEMMA NewPlayerRows ==
  ASSUME NEW p \in Player, NEW new, new = NewPlayer(p)
  PROVE  /\ IsWrites(new) /\ DOMAIN new.players = {p} /\ DOMAIN new.ledger = {<<p, 1>>}
         /\ new.players[p].ledgerSeq = 1 /\ new.players[p].balance = StartingBalance
         /\ new.ledger[<<p, 1>>].balanceAfter = StartingBalance
         /\ new.ledger[<<p, 1>>].amount = StartingBalance
<1>1. PICK rows, none : rows = Row(p, BlankPlayer) /\ none = Draft(rows)
  OBVIOUS
<1>2. BlankPlayer \in PlayerRow
  BY DEF BlankPlayer, PlayerRow
<1>3. IsTable(rows, Player, PlayerRow)
  BY <1>1, <1>2, TableTypes
<1>4. IsWrites(none)
  BY <1>1, <1>3, DraftWrites
<1>5. /\ DOMAIN none.players = {p} /\ none.players[p] = BlankPlayer /\ DOMAIN none.ledger = {}
  BY <1>1 DEF Draft, Row, NoRows
<1>6. /\ p \in DOMAIN none.players /\ none.players[p].balance = 0 /\ none.players[p].ledgerSeq = 0
  BY <1>5 DEF BlankPlayer
<1>7. "initial_grant" \in Kind /\ StartingBalance \in Int /\ StartingBalance >= 0 /\ NoRef \in Ref
  BY EconomyAssumption DEF Kind, Ref
<1>8. new = Post(none, p, "initial_grant", StartingBalance, NoRef)
  BY <1>1 DEF NewPlayer
<1> DEFINE n == none.players[p].ledgerSeq + 1
<1>9. none.players[p].balance + StartingBalance >= 0
  BY <1>6, <1>7
<1>10. /\ IsWrites(new)
       /\ DOMAIN new.players = DOMAIN none.players
       /\ DOMAIN new.ledger = DOMAIN none.ledger \cup {<<p, n>>}
       /\ new.players[p].balance = none.players[p].balance + StartingBalance
       /\ new.players[p].ledgerSeq = n
       /\ new.ledger[<<p, n>>].balanceAfter = none.players[p].balance + StartingBalance
       /\ new.ledger[<<p, n>>].amount = StartingBalance
  BY <1>4, <1>6, <1>7, <1>8, <1>9, PostEffect
<1>11. n = 1
  BY <1>6
<1> HIDE DEF n
<1> QED BY <1>5, <1>6, <1>7, <1>10, <1>11

(* A new player's ledger has one row, and the others' are as they were.     *)
LEMMA LedgerOpens ==
  ASSUME NEW rows, IsTable(rows, Player, PlayerRow), NEW book, IsTable(book, Player \X Nat, Entry),
         Explains(book, rows), NEW p \in Player, p \notin DOMAIN rows, NEW new, new = NewPlayer(p),
         NEW rows2, rows2 = Overlay(rows, new.players), NEW book2, book2 = Overlay(book, new.ledger)
  PROVE  Explains(book2, rows2)
<1>1. /\ DOMAIN new.players = {p} /\ DOMAIN new.ledger = {<<p, 1>>}
      /\ new.players[p].ledgerSeq = 1 /\ new.players[p].balance = StartingBalance
      /\ new.ledger[<<p, 1>>].balanceAfter = StartingBalance
      /\ new.ledger[<<p, 1>>].amount = StartingBalance
  BY NewPlayerRows
<1>2. /\ DOMAIN rows2 = DOMAIN rows \cup {p} /\ rows2[p] = new.players[p]
      /\ \A q \in DOMAIN rows : rows2[q] = rows[q]
  BY <1>1 DEF Overlay
<1>3. /\ DOMAIN book2 = DOMAIN book \cup {<<p, 1>>} /\ book2[<<p, 1>>] = new.ledger[<<p, 1>>]
      /\ \A k \in DOMAIN book : k # <<p, 1>> => book2[k] = book[k]
  BY <1>1 DEF Overlay
<1>4. \A k \in DOMAIN book2 : k[1] \in DOMAIN rows2 /\ k[2] \in 1 .. rows2[k[1]].ledgerSeq
  BY <1>1, <1>2, <1>3 DEF Explains
<1>5. ASSUME NEW q \in DOMAIN rows2
      PROVE  /\ \A n \in 1 .. rows2[q].ledgerSeq :
                  /\ <<q, n>> \in DOMAIN book2
                  /\ book2[<<q, n>>].balanceAfter = BalanceAt(book2, q, n - 1) + book2[<<q, n>>].amount
             /\ rows2[q].balance = BalanceAt(book2, q, rows2[q].ledgerSeq)
  <2>1. CASE q = p
    <3>1. rows2[q].ledgerSeq = 1 /\ rows2[q].balance = StartingBalance
      BY <1>1, <1>2, <2>1
    <3>2. BalanceAt(book2, q, 0) = 0 /\ BalanceAt(book2, q, 1) = StartingBalance
      BY <1>1, <1>3, <2>1 DEF BalanceAt
    <3>3. \A n \in 1 .. 1 : n = 1
      OBVIOUS
    <3>4. /\ <<q, 1>> \in DOMAIN book2
          /\ book2[<<q, 1>>].balanceAfter = BalanceAt(book2, q, 1 - 1) + book2[<<q, 1>>].amount
      BY <1>1, <1>3, <2>1, <3>2, EconomyAssumption
    <3> QED BY <3>1, <3>2, <3>3, <3>4
  <2>2. CASE q # p
    <3>1. q \in DOMAIN rows /\ rows2[q] = rows[q] /\ rows[q].ledgerSeq \in Nat
      BY <1>2, <2>2 DEF IsTable, PlayerRow
    <3>2. \A n \in 1 .. rows[q].ledgerSeq : <<q, n>> \in DOMAIN book
      BY <3>1 DEF Explains
    <3>3. \A n \in 1 .. rows[q].ledgerSeq : book2[<<q, n>>] = book[<<q, n>>]
      BY <1>3, <2>2, <3>2
    <3>4. \A n \in 0 .. rows[q].ledgerSeq : n = 0 \/ n \in 1 .. rows[q].ledgerSeq
      BY <3>1
    <3>5. \A n \in 0 .. rows[q].ledgerSeq : BalanceAt(book2, q, n) = BalanceAt(book, q, n)
      BY <3>3, <3>4 DEF BalanceAt
    <3>6. \A n \in 1 .. rows[q].ledgerSeq :
            book[<<q, n>>].balanceAfter = BalanceAt(book, q, n - 1) + book[<<q, n>>].amount
      BY <3>1 DEF Explains
    <3>7. \A n \in 1 .. rows[q].ledgerSeq : n - 1 \in 0 .. rows[q].ledgerSeq
      BY <3>1
    <3>8. rows[q].balance = BalanceAt(book, q, rows[q].ledgerSeq)
      BY <3>1 DEF Explains
    <3>9. rows[q].ledgerSeq \in 0 .. rows[q].ledgerSeq
      BY <3>1
    <3> QED BY <1>3, <3>1, <3>2, <3>3, <3>5, <3>6, <3>7, <3>8, <3>9
  <2> QED BY <2>1, <2>2
<1> QED BY <1>4, <1>5 DEF Explains

(* Rows that continue a ledger leave one that explains every balance.       *)
LEMMA LedgerGoesOn ==
  ASSUME NEW rows, IsTable(rows, Player, PlayerRow), NEW book, IsTable(book, Player \X Nat, Entry),
         Explains(book, rows), NEW w, IsWrites(w), LedgerFits(w, rows),
         NEW rows2, rows2 = Overlay(rows, w.players), NEW book2, book2 = Overlay(book, w.ledger)
  PROVE  Explains(book2, rows2)
<1>1. /\ \A p \in DOMAIN rows : p \in Player /\ rows[p].ledgerSeq \in Nat
      /\ \A p \in DOMAIN w.players : p \in DOMAIN rows /\ w.players[p].ledgerSeq \in Nat
      /\ \A k \in DOMAIN book \cup DOMAIN w.ledger : k[2] \in Nat
  BY DEF IsWrites, IsTable, PlayerRow, LedgerFits
<1>2. /\ DOMAIN rows2 = DOMAIN rows
      /\ \A p \in DOMAIN rows : p \notin DOMAIN w.players => rows2[p] = rows[p]
      /\ \A p \in DOMAIN w.players : rows2[p] = w.players[p]
  BY <1>1 DEF Overlay
<1>3. /\ DOMAIN book2 = DOMAIN book \cup DOMAIN w.ledger
      /\ \A k \in DOMAIN w.ledger : book2[k] = w.ledger[k]
      /\ \A k \in DOMAIN book : k \notin DOMAIN w.ledger => book2[k] = book[k]
  BY DEF Overlay
<1>4. /\ \A p \in DOMAIN w.players : Continues(w, p, rows[p])
      /\ \A k \in DOMAIN w.ledger :
           /\ k[1] \in DOMAIN w.players
           /\ k[2] \in rows[k[1]].ledgerSeq + 1 .. w.players[k[1]].ledgerSeq
  BY DEF LedgerFits
<1>5. \A p \in DOMAIN w.players : rows[p].ledgerSeq <= w.players[p].ledgerSeq
  BY <1>4 DEF Continues
<1>6. ASSUME NEW k \in DOMAIN book2
      PROVE  k[1] \in DOMAIN rows2 /\ k[2] \in 1 .. rows2[k[1]].ledgerSeq
  <2>1. CASE k \in DOMAIN w.ledger
    BY <1>1, <1>2, <1>4, <2>1
  <2>2. CASE k \notin DOMAIN w.ledger
    <3>1. k[1] \in DOMAIN rows /\ k[2] \in 1 .. rows[k[1]].ledgerSeq
      BY <1>3, <2>2 DEF Explains
    <3>2. rows2[k[1]].ledgerSeq \in Nat /\ rows[k[1]].ledgerSeq <= rows2[k[1]].ledgerSeq
      BY <1>1, <1>2, <1>5, <3>1
    <3> QED BY <1>1, <1>2, <3>1, <3>2
  <2> QED BY <2>1, <2>2
<1>7. ASSUME NEW p \in DOMAIN rows
      PROVE  /\ \A n \in 1 .. rows2[p].ledgerSeq :
                  /\ <<p, n>> \in DOMAIN book2
                  /\ book2[<<p, n>>].balanceAfter
                       = BalanceAt(book2, p, n - 1) + book2[<<p, n>>].amount
             /\ rows2[p].balance = BalanceAt(book2, p, rows2[p].ledgerSeq)
  <2> DEFINE old == rows[p].ledgerSeq
             new == rows2[p].ledgerSeq
  <2>1. old \in Nat /\ new \in Nat /\ old <= new
    BY <1>1, <1>2, <1>5
  <2>2. ASSUME NEW n \in 1 .. old
        PROVE  /\ <<p, n>> \in DOMAIN book /\ <<p, n>> \in DOMAIN book2
               /\ book2[<<p, n>>] = book[<<p, n>>]
               /\ book[<<p, n>>].balanceAfter = BalanceAt(book, p, n - 1) + book[<<p, n>>].amount
    <3>1. <<p, n>> \in DOMAIN book
      BY DEF Explains
    <3>2. <<p, n>> \notin DOMAIN w.ledger
      BY <1>4, <2>1
    <3>3. book[<<p, n>>].balanceAfter = BalanceAt(book, p, n - 1) + book[<<p, n>>].amount
      BY DEF Explains
    <3> QED BY <1>3, <3>1, <3>2, <3>3
  <2>3. \A n \in 0 .. old : BalanceAt(book2, p, n) = BalanceAt(book, p, n)
    <3>1. \A n \in 1 .. old : book2[<<p, n>>] = book[<<p, n>>]
      BY <2>2
    <3>2. \A n \in 0 .. old : n = 0 \/ n \in 1 .. old
      BY <2>1
    <3> QED BY <3>1, <3>2 DEF BalanceAt
  <2>4. \A n \in 1 .. old :
          /\ <<p, n>> \in DOMAIN book2
          /\ book2[<<p, n>>].balanceAfter = BalanceAt(book2, p, n - 1) + book2[<<p, n>>].amount
    <3>1. \A n \in 1 .. old : n - 1 \in 0 .. old
      BY <2>1
    <3> QED BY <2>2, <2>3, <3>1
  <2>5. rows[p].balance = BalanceAt(book2, p, old)
    BY <2>1, <2>3 DEF Explains
  <2>6. CASE p \notin DOMAIN w.players
    BY <1>2, <2>4, <2>5, <2>6
  <2>7. CASE p \in DOMAIN w.players
    <3>1. /\ \A n \in old + 1 .. new :
               /\ <<p, n>> \in DOMAIN w.ledger
               /\ w.ledger[<<p, n>>].balanceAfter
                    = After(w, p, n - 1, rows[p]) + w.ledger[<<p, n>>].amount
          /\ rows2[p].balance = After(w, p, new, rows[p])
      BY <1>2, <1>4, <2>7 DEF Continues
    <3>2. \A n \in old + 1 .. new : <<p, n>> \in DOMAIN book2 /\ book2[<<p, n>>] = w.ledger[<<p, n>>]
      BY <1>3, <3>1
    <3>3. \A n \in old .. new : After(w, p, n, rows[p]) = BalanceAt(book2, p, n)
      BY <2>1, <2>5, <3>2 DEF After, BalanceAt
    <3>4. \A n \in old + 1 .. new :
            book2[<<p, n>>].balanceAfter = BalanceAt(book2, p, n - 1) + book2[<<p, n>>].amount
      <4>1. \A n \in old + 1 .. new : n - 1 \in old .. new
        BY <2>1
      <4> QED BY <3>1, <3>2, <3>3, <4>1
    <3>5. rows2[p].balance = BalanceAt(book2, p, new)
      BY <2>1, <3>1, <3>3
    <3>6. \A n \in 1 .. new : n \in 1 .. old \/ n \in old + 1 .. new
      BY <2>1
    <3> QED BY <2>4, <3>2, <3>4, <3>5, <3>6
  <2> QED BY <2>6, <2>7
<1> QED BY <1>2, <1>6, <1>7 DEF Explains, BalanceAt

------------------------------------------------------------------------------
(* A draft, as far as a credit to u needs to know.                          *)
Shaped(w, u) ==
  /\ {"players", "ledger", "hands", "stats", "hits", "contribution", "hit"} \subseteq DOMAIN w
  /\ u \in DOMAIN w.players
  /\ {"balance", "ledgerSeq"} \subseteq DOMAIN w.players[u]
  /\ w.players[u].balance \in Int

(* One credit moves one balance.                                            *)
LEMMA PostMoves ==
  ASSUME NEW w, NEW u, Shaped(w, u), NEW kind, NEW amount \in Int, NEW ref,
         NEW v, v = Post(w, u, kind, amount, ref)
  PROVE  /\ Shaped(v, u)
         /\ DOMAIN v.players = DOMAIN w.players
         /\ v.players[u].balance = w.players[u].balance + amount
         /\ \A p \in DOMAIN w.players : p # u => v.players[p] = w.players[p]
         /\ v.hands = w.hands /\ v.hits = w.hits
         /\ v.contribution = w.contribution /\ v.hit = w.hit
<1>1. PICK row : row = [w.players[u] EXCEPT !.balance = w.players[u].balance + amount,
                                            !.ledgerSeq = w.players[u].ledgerSeq + 1]
  OBVIOUS
<1>2. row.balance = w.players[u].balance + amount /\ DOMAIN row = DOMAIN w.players[u]
  BY <1>1 DEF Shaped
<1>3. /\ DOMAIN v = DOMAIN w /\ v.players = Put(w.players, u, row)
      /\ v.hands = w.hands /\ v.hits = w.hits
      /\ v.contribution = w.contribution /\ v.hit = w.hit
  BY <1>1 DEF Post, Shaped
<1>4. /\ DOMAIN v.players = DOMAIN w.players /\ v.players[u] = row
      /\ \A p \in DOMAIN w.players : p # u => v.players[p] = w.players[p]
  BY <1>3 DEF Put, Shaped
<1> QED BY <1>2, <1>3, <1>4 DEF Shaped

LEMMA DraftMoves ==
  ASSUME NEW rows, NEW u \in DOMAIN rows, rows[u] \in PlayerRow, NEW v, v = Draft(rows)
  PROVE  /\ Shaped(v, u) /\ v.players = rows
         /\ DOMAIN v.hands = {} /\ DOMAIN v.hits = {} /\ v.contribution = 0 /\ v.hit = FALSE
  BY DEF Draft, NoRows, Shaped, PlayerRow

(* A finished hand is paid the rest of what it returns, and no more.        *)
LEMMA FinishMoves ==
  ASSUME NEW hand \in HandRow, hand.status = "active", NEW u, u = hand.user,
         hand.state.finished => hand.state.paidEarly <= hand.state.returned,
         NEW w, Shaped(w, u), DOMAIN w.hits = {}, w.contribution = 0,
         NEW h, NEW tally, NEW v, v = Finish(w, h, hand, tally)
  PROVE  /\ DOMAIN v.players = DOMAIN w.players /\ DOMAIN v.hands = {h} /\ DOMAIN v.hits = {}
         /\ v.contribution = PlannedFeed(v, h)
         /\ v.players[u].balance - w.players[u].balance
              = PlannedNet(v, h) - (hand.state.paidEarly - hand.wagered)
         /\ v.players[u].balance \in Int /\ PlannedNet(v, h) \in Int
<1>1. PICK s : s = hand.state
  OBVIOUS
<1>2. s \in EngineView /\ s.returned \in Nat /\ s.paidEarly \in Nat /\ hand.wagered \in Nat
  BY <1>1, EngineAssumption DEF HandRow, EngineView
<1>3. CASE s.finished
  <2>1. PICK paid : paid = IF RestToPay(s) > 0 THEN Post(w, u, "payout", RestToPay(s), h) ELSE w
    OBVIOUS
  <2>2. PICK kept : kept = [hand EXCEPT !.status = "settled", !.returned = s.returned]
    OBVIOUS
  <2>3. RestToPay(s) = s.returned - s.paidEarly /\ RestToPay(s) \in Nat
    BY <1>1, <1>2, <1>3 DEF RestToPay
  <2>4. /\ Shaped(paid, u) /\ paid.players[u].balance = w.players[u].balance + RestToPay(s)
        /\ DOMAIN paid.players = DOMAIN w.players /\ paid.hits = w.hits
    <3>1. CASE RestToPay(s) > 0
      BY <2>1, <2>3, <3>1, PostMoves
    <3>2. CASE ~(RestToPay(s) > 0)
      BY <2>1, <2>3, <3>2 DEF Shaped
    <3> QED BY <3>1, <3>2
  <2>5. v = [paid EXCEPT !.hands = Row(h, kept),
                         !.stats = Row(<<hand.user, hand.game>>, Folded(tally, hand)),
                         !.contribution = 2 * s.jackpotStake,
                         !.hit = s.jackpotEligible]
    BY <1>1, <1>3, <2>1, <2>2 DEF Finish, SettleHand
  <2>6. v.players = paid.players /\ v.hits = paid.hits /\ v.hands = Row(h, kept)
    BY <2>4, <2>5 DEF Shaped
  <2>7. kept.status = "settled" /\ kept.returned = s.returned /\ kept.wagered = hand.wagered
    BY <2>2 DEF HandRow
  <2>8. DOMAIN v.hands = {h} /\ v.hands[h] = kept /\ DOMAIN v.hits = {}
    BY <2>4, <2>6 DEF Row
  <2>9. PlannedNet(v, h) = s.returned - hand.wagered
    BY <1>2, <2>7, <2>8 DEF PlannedNet
  <2>11. v.contribution = PlannedFeed(v, h)
    <3>1. v.contribution = 2 * s.jackpotStake
      BY <2>4, <2>5 DEF Shaped
    <3>2. kept.state = s
      BY <1>1, <2>2 DEF HandRow
    <3> QED BY <2>7, <2>8, <3>1, <3>2 DEF PlannedFeed
  <2>10. w.players[u].balance \in Int
    BY DEF Shaped
  <2> QED BY <1>1, <1>2, <2>3, <2>4, <2>6, <2>7, <2>8, <2>9, <2>10, <2>11
<1>4. CASE ~s.finished
  <2>1. v = [w EXCEPT !.hands = Row(h, hand)]
    BY <1>1, <1>4 DEF Finish
  <2>2. /\ v.players = w.players /\ v.hits = w.hits /\ v.contribution = w.contribution
        /\ v.hands = Row(h, hand)
    BY <2>1 DEF Shaped
  <2>3. DOMAIN v.hands = {h} /\ v.hands[h] = hand
    BY <2>2 DEF Row
  <2>4. PlannedNet(v, h) = s.paidEarly - hand.wagered
    BY <1>1, <2>3 DEF PlannedNet
  <2>5. w.players[u].balance \in Int
    BY DEF Shaped
  <2>6. v.contribution = PlannedFeed(v, h)
    BY <2>2, <2>3 DEF PlannedFeed
  <2> QED BY <1>1, <1>2, <2>2, <2>3, <2>4, <2>5, <2>6
<1> QED BY <1>3, <1>4

(* A deal moves what its hand has moved.                                    *)
LEMMA StartMoves ==
  ASSUME NEW u \in Player, NEW row \in PlayerRow, NEW h \in HandId, NEW g \in Game, NEW s \in EngineState,
         NEW tally \in StatsRow, NEW v, v = StartWrites(u, row, h, g, s, tally)
  PROVE  /\ DOMAIN v.hands = {h} /\ DOMAIN v.hits = {}
         /\ v.contribution = PlannedFeed(v, h)
         /\ v.players[u].balance - row.balance = PlannedNet(v, h)
         /\ PlannedNet(v, h) \in Int
<1>1. s \in EngineView /\ s.staked \in Nat /\ s.paidEarly \in Nat /\ row.balance \in Nat
  BY EngineAssumption DEF EngineView, PlayerRow
<1>2. PICK none : none = Draft(Row(u, row))
  OBVIOUS
<1>3. /\ Shaped(none, u) /\ none.players[u].balance = row.balance
      /\ DOMAIN none.hits = {} /\ none.contribution = 0
  <2>1. u \in DOMAIN Row(u, row) /\ Row(u, row)[u] = row
    BY DEF Row
  <2> QED BY <1>2, <2>1, DraftMoves
<1>4. PICK bet : bet = Post(none, u, "bet", -s.staked, h)
  OBVIOUS
<1>5. /\ Shaped(bet, u) /\ bet.players[u].balance = row.balance - s.staked
      /\ DOMAIN bet.hits = {} /\ bet.contribution = 0
  BY <1>1, <1>3, <1>4, PostMoves
<1>6. PICK early : early = IF s.paidEarly > 0 THEN Post(bet, u, "payout", s.paidEarly, h) ELSE bet
  OBVIOUS
<1>7. /\ Shaped(early, u) /\ early.players[u].balance = row.balance - s.staked + s.paidEarly
      /\ DOMAIN early.hits = {} /\ early.contribution = 0
  <2>1. CASE s.paidEarly > 0
    BY <1>1, <1>5, <1>6, <2>1, PostMoves
  <2>2. CASE ~(s.paidEarly > 0)
    BY <1>1, <1>5, <1>6, <2>2
  <2> QED BY <2>1, <2>2
<1>8. PICK hand : hand = [user |-> u, game |-> g, status |-> "active", version |-> 0, state |-> s,
                          wagered |-> s.staked, returned |-> 0]
  OBVIOUS
<1>9. hand \in HandRow /\ hand.status = "active" /\ hand.user = u /\ hand.state = s /\ hand.wagered = s.staked
  BY <1>1, <1>8 DEF HandRow
<1>10. v = Finish(early, h, hand, tally)
  BY <1>2, <1>4, <1>6, <1>8 DEF StartWrites
<1>11. s.finished => s.paidEarly <= s.returned
  BY EngineAssumption
<1>12. /\ DOMAIN v.hands = {h} /\ DOMAIN v.hits = {}
       /\ v.contribution = PlannedFeed(v, h)
       /\ v.players[u].balance - early.players[u].balance = PlannedNet(v, h) - (s.paidEarly - s.staked)
       /\ v.players[u].balance \in Int /\ PlannedNet(v, h) \in Int
  BY <1>7, <1>9, <1>10, <1>11, FinishMoves
<1> QED BY <1>1, <1>7, <1>12

(* An action moves what its hand has moved since.                           *)
LEMMA ActionMoves ==
  ASSUME NEW hand \in HandRow, hand.status = "active", NEW u, u = hand.user, NEW row \in PlayerRow,
         NEW t \in EngineState, hand.state.paidEarly <= t.paidEarly,
         NEW h, NEW tally, NEW v, v = ActionWrites(row, h, hand, t, tally)
  PROVE  /\ DOMAIN v.hands = {h} /\ DOMAIN v.hits = {}
         /\ v.contribution = PlannedFeed(v, h)
         /\ v.players[u].balance - row.balance
              = PlannedNet(v, h) - (hand.state.paidEarly - hand.wagered)
         /\ PlannedNet(v, h) \in Int
<1>1. PICK extra, more : extra = ExtraStake(hand, t) /\ more = ExtraEarly(hand, t)
  OBVIOUS
<1>2. /\ hand.state \in EngineView /\ t \in EngineView /\ hand.wagered \in Nat /\ row.balance \in Nat
      /\ hand.state.paidEarly \in Nat /\ t.paidEarly \in Nat /\ extra \in Int
      /\ more \in Nat /\ more = t.paidEarly - hand.state.paidEarly
  BY <1>1, EngineAssumption DEF HandRow, EngineView, PlayerRow, ExtraStake, ExtraEarly
<1>3. PICK none : none = Draft(Row(u, row))
  OBVIOUS
<1>4. /\ Shaped(none, u) /\ none.players[u].balance = row.balance
      /\ DOMAIN none.hits = {} /\ none.contribution = 0
  <2>1. u \in DOMAIN Row(u, row) /\ Row(u, row)[u] = row
    BY DEF Row
  <2>2. PICK rows : rows = Row(u, row)
    OBVIOUS
  <2>3. u \in DOMAIN rows /\ rows[u] = row /\ rows[u] \in PlayerRow /\ none = Draft(rows)
    BY <1>3, <2>1, <2>2
  <2>4. /\ Shaped(none, u) /\ none.players = rows
        /\ DOMAIN none.hits = {} /\ none.contribution = 0
    BY <2>3, DraftMoves
  <2> QED BY <2>3, <2>4
<1>5. PICK next : next = [hand EXCEPT !.version = hand.version + 1, !.state = t,
                                      !.wagered = IF extra > 0 THEN hand.wagered + extra ELSE hand.wagered]
  OBVIOUS
<1>6. /\ next \in HandRow /\ next.status = "active" /\ next.user = u /\ next.state = t
      /\ next.wagered = IF extra > 0 THEN hand.wagered + extra ELSE hand.wagered
  <2>1. PICK n : n = IF extra > 0 THEN hand.wagered + extra ELSE hand.wagered
    OBVIOUS
  <2>2. n \in Nat /\ hand.version + 1 \in Nat
    BY <1>2, <2>1 DEF HandRow
  <2>3. next = [hand EXCEPT !.version = hand.version + 1, !.state = t, !.wagered = n]
    BY <1>5, <2>1
  <2>4. next \in HandRow /\ next.status = "active" /\ next.user = u /\ next.state = t /\ next.wagered = n
    BY <2>2, <2>3 DEF HandRow
  <2> QED BY <2>1, <2>4
<1>7. PICK bet : bet = IF extra > 0 THEN Post(none, u, "bet", -extra, h) ELSE none
  OBVIOUS
<1>8. /\ Shaped(bet, u) /\ bet.players[u].balance = row.balance - (next.wagered - hand.wagered)
      /\ next.wagered \in Nat /\ DOMAIN bet.hits = {} /\ bet.contribution = 0
  <2>1. CASE extra > 0
    BY <1>2, <1>4, <1>6, <1>7, <2>1, PostMoves
  <2>2. CASE ~(extra > 0)
    BY <1>2, <1>4, <1>6, <1>7, <2>2
  <2> QED BY <2>1, <2>2
<1>9. PICK early : early = IF more > 0 THEN Post(bet, u, "payout", more, h) ELSE bet
  OBVIOUS
<1>10. /\ Shaped(early, u)
       /\ early.players[u].balance = row.balance - (next.wagered - hand.wagered) + more
       /\ DOMAIN early.hits = {} /\ early.contribution = 0
  <2>1. CASE more > 0
    BY <1>2, <1>8, <1>9, <2>1, PostMoves
  <2>2. CASE ~(more > 0)
    BY <1>2, <1>8, <1>9, <2>2
  <2> QED BY <2>1, <2>2
<1>11. v = Finish(early, h, next, tally)
  BY <1>1, <1>3, <1>5, <1>7, <1>9 DEF ActionWrites
<1>12. next.state.finished => next.state.paidEarly <= next.state.returned
  BY <1>6, EngineAssumption
<1>13. /\ DOMAIN v.hands = {h} /\ DOMAIN v.hits = {}
       /\ v.contribution = PlannedFeed(v, h)
       /\ v.players[u].balance - early.players[u].balance = PlannedNet(v, h) - (t.paidEarly - next.wagered)
       /\ v.players[u].balance \in Int /\ PlannedNet(v, h) \in Int
  BY <1>6, <1>10, <1>11, <1>12, FinishMoves
<1>14. hand.state.paidEarly \in Nat /\ hand.wagered \in Nat /\ t.paidEarly \in Nat /\ row.balance \in Nat
  BY <1>2
<1>15. PICK b, c, d : b = v.players[u].balance /\ c = early.players[u].balance /\ d = PlannedNet(v, h)
  OBVIOUS
<1>16. PICK x, y, m, n, o : x = hand.state.paidEarly /\ y = t.paidEarly /\ m = hand.wagered
                             /\ n = next.wagered /\ o = row.balance
  OBVIOUS
<1>17. /\ b \in Int /\ d \in Int /\ x \in Nat /\ y \in Nat /\ m \in Nat /\ n \in Nat /\ o \in Nat
       /\ c = o - (n - m) + (y - x) /\ b - c = d - (y - n)
  BY <1>2, <1>8, <1>10, <1>13, <1>14, <1>15, <1>16
<1>18. c \in Int /\ n - m \in Int /\ y - x \in Int /\ y - n \in Int /\ x - m \in Int
  BY <1>17
<1>19. b = c + (d - (y - n))
  BY <1>17, <1>18
<1>20. b = o - (n - m) + (y - x) + (d - (y - n))
  BY <1>17, <1>19
<1>21. b - o = d - (x - m)
  BY <1>17, <1>20
<1> QED BY <1>13, <1>15, <1>16, <1>21

(* A bonus or a bailout takes nothing.                                      *)
LEMMA ClaimMoves ==
  ASSUME NEW u, NEW row \in PlayerRow, NEW kind, NEW amount \in Nat, NEW day,
         NEW v, v = Post(Draft(Row(u, row)), u, kind, amount, day)
  PROVE  /\ v.players[u].balance >= row.balance
         /\ DOMAIN v.hands = {} /\ DOMAIN v.hits = {} /\ v.contribution = 0
<1>1. PICK none : none = Draft(Row(u, row))
  OBVIOUS
<1>2. /\ Shaped(none, u) /\ none.players[u].balance = row.balance /\ row.balance \in Nat
      /\ DOMAIN none.hands = {} /\ DOMAIN none.hits = {} /\ none.contribution = 0 /\ none.hit = FALSE
  <2>1. u \in DOMAIN Row(u, row) /\ Row(u, row)[u] = row
    BY DEF Row
  <2> QED BY <1>1, <2>1, DraftMoves DEF PlayerRow
<1>3. v.players[u].balance = row.balance + amount
  BY <1>1, <1>2, PostMoves
<1>4. v.hands = none.hands /\ v.hits = none.hits /\ v.contribution = none.contribution /\ v.hit = none.hit
  BY <1>1, <1>2, PostMoves
<1> QED BY <1>2, <1>3, <1>4

(* A gift takes its amount from one player and gives it to the other.       *)
LEMMA GiftMoves ==
  ASSUME NEW from \in PlayerRow, NEW to \in PlayerRow, NEW id \in GiftId, NEW g \in GiftRow,
         NEW p \in Player, NEW q \in Player, p = g.from, q = g.to, p # q,
         NEW v, v = GiftWrites(from, to, id, g)
  PROVE  /\ v.players[p].balance = from.balance - g.amount
         /\ v.players[q].balance = to.balance + g.amount
         /\ DOMAIN v.hands = {} /\ DOMAIN v.hits = {} /\ v.contribution = 0
<1>1. PICK sender : sender = [from EXCEPT !.giftsSentToday = SentOn(from, g.senderDay) + g.amount,
                                          !.giftsSentOn = g.senderDay]
  OBVIOUS
<1>2. PICK receiver : receiver = [to EXCEPT !.giftsReceivedToday = ReceivedOn(to, g.utcDay) + g.amount,
                                            !.giftsReceivedOn = g.utcDay]
  OBVIOUS
<1>3. /\ sender.balance = from.balance /\ receiver.balance = to.balance
      /\ {"balance", "ledgerSeq"} \subseteq DOMAIN sender
      /\ {"balance", "ledgerSeq"} \subseteq DOMAIN receiver
      /\ from.balance \in Nat /\ to.balance \in Nat /\ g.amount \in Nat
  BY <1>1, <1>2 DEF PlayerRow, GiftRow
<1>4. PICK n : n = g.amount
  OBVIOUS
<1>5. PICK none : none = Draft(Put(Row(p, sender), q, receiver))
  OBVIOUS
<1>6. none.players = Put(Row(p, sender), q, receiver) /\ DOMAIN none.players = {p, q}
      /\ none.players[p] = sender /\ none.players[q] = receiver
  BY <1>4, <1>5 DEF Draft, Put, Row
<1>7. /\ Shaped(none, p) /\ DOMAIN none.hands = {} /\ DOMAIN none.hits = {}
      /\ none.contribution = 0 /\ none.hit = FALSE
  BY <1>3, <1>5, <1>6 DEF Shaped, Draft, NoRows
<1>8. PICK out : out = Post(none, p, "gift_out", -n, q)
  OBVIOUS
<1>15. n \in Int /\ -n \in Int /\ from.balance + (-n) = from.balance - n
  BY <1>3, <1>4
<1>9. /\ Shaped(out, p) /\ DOMAIN out.players = {p, q} /\ out.players[q] = receiver
      /\ out.players[p].balance = from.balance - n
      /\ out.hands = none.hands /\ out.hits = none.hits
      /\ out.contribution = none.contribution /\ out.hit = none.hit
  BY <1>3, <1>6, <1>7, <1>8, <1>15, PostMoves
<1>10. Shaped(out, q)
  BY <1>3, <1>9 DEF Shaped
<1>11. PICK all : all = Post(out, q, "gift_in", n, p)
  OBVIOUS
<1>12. /\ Shaped(all, q) /\ all.players[q].balance = to.balance + n
       /\ all.players[p] = out.players[p]
       /\ all.hands = none.hands /\ all.hits = none.hits
       /\ all.contribution = none.contribution /\ all.hit = none.hit
  BY <1>3, <1>4, <1>9, <1>10, <1>11, PostMoves
<1>13. v = [all EXCEPT !.gifts = Row(id, g)]
  BY <1>1, <1>2, <1>4, <1>5, <1>8, <1>11 DEF GiftWrites
<1>14. /\ v.players = all.players /\ v.hands = all.hands /\ v.hits = all.hits
       /\ v.contribution = all.contribution /\ v.hit = all.hit
  BY <1>12, <1>13 DEF Shaped
<1> QED BY <1>4, <1>7, <1>9, <1>12, <1>14

(* A hit adds what it pays to what its hand has moved.                      *)
LEMMA JackpotMoves ==
  ASSUME NEW w, NEW u, Shaped(w, u), NEW h, DOMAIN w.hands = {h}, DOMAIN w.hits = {},
         w.hands[h].status = "settled", w.hands[h].returned \in Nat, w.hands[h].wagered \in Nat,
         w.contribution \in Nat, NEW inPot \in Nat, NEW v, v = PayJackpot(w, u, h, inPot)
  PROVE  /\ v.hands = w.hands /\ v.contribution = w.contribution /\ v.hit = w.hit
         /\ v.hits = Row(h, (inPot + w.contribution) \div 100)
         /\ v.players[u].balance \in Int /\ PlannedNet(v, h) \in Int /\ PlannedNet(w, h) \in Int
         /\ v.players[u].balance - w.players[u].balance = PlannedNet(v, h) - PlannedNet(w, h)
<1>1. PICK amount : amount = (inPot + w.contribution) \div 100
  OBVIOUS
<1>2. amount \in Nat
  BY <1>1, QuotientNat
<1>3. PICK paid : paid = Post(w, u, "jackpot", amount, h)
  OBVIOUS
<1>4. Shaped(paid, u) /\ paid.players[u].balance = w.players[u].balance + amount /\ paid.hands = w.hands
      /\ paid.contribution = w.contribution
  BY <1>2, <1>3, PostMoves
<1>11. paid.hit = w.hit
  BY <1>2, <1>3, PostMoves
<1>5. v = [paid EXCEPT !.hits = Row(h, amount)]
  BY <1>1, <1>3 DEF PayJackpot
<1>6. v.players = paid.players /\ v.hands = w.hands /\ v.hits = Row(h, amount)
      /\ v.contribution = w.contribution
  BY <1>4, <1>5 DEF Shaped
<1>12. v.hit = w.hit
  BY <1>4, <1>5, <1>11 DEF Shaped
<1>7. h \in DOMAIN v.hits /\ v.hits[h] = amount
  BY <1>6 DEF Row
<1>8. PlannedNet(v, h) = w.hands[h].returned + amount - w.hands[h].wagered
  BY <1>6, <1>7 DEF PlannedNet
<1>9. PlannedNet(w, h) = w.hands[h].returned + 0 - w.hands[h].wagered
  BY DEF PlannedNet
<1>10. w.players[u].balance \in Int
  BY DEF Shaped
<1> QED BY <1>1, <1>2, <1>4, <1>6, <1>8, <1>9, <1>10, <1>12

------------------------------------------------------------------------------
(* Sums.  The fold behind SumFunctionOnSet takes away one element after the *)
(* other; what it adds up to does not depend on which.  Induction over the  *)
(* finite sets is the existence of a least counterexample.                  *)
Any(S) == CHOOSE x \in S : TRUE

(* g is what the fold computes for every subset of V.                      *)
Sums(g, f, V) == g = [s \in SUBSET V |-> IF s = {} THEN 0 ELSE f[Any(s)] + g[s \ {Any(s)}]]

LEMMA SumIsFold ==
  ASSUME NEW f, NEW S
  PROVE  SumFunctionOnSet(f, S) = (CHOOSE g : Sums(g, f, S))[S]
<1>1. SumFunctionOnSet(f, S)
        = (CHOOSE g : g = [s \in SUBSET S |-> IF s = {} THEN 0
                             ELSE f[CHOOSE x \in s : TRUE] + g[s \ {CHOOSE x \in s : TRUE}]])[S]
  BY Zenon DEF SumFunctionOnSet, FoldFunctionOnSet, MapThenFoldSet
<1> QED BY <1>1, Zenon DEF Sums, Any

(* Of sets over a finite set, one holds no other.                           *)
LEMMA Minimal ==
  ASSUME NEW S, IsFiniteSet(S), NEW B, B \subseteq SUBSET S, B # {}
  PROVE  \E T \in B : \A U \in B : ~(U \subseteq T /\ U # T)
<1>1. IsWellFoundedOn(StrictSubsetOrdering(S), SUBSET S)
  BY FS_StrictSubsetOrderingWellFounded, FS_FiniteSubsetsOfFinite
<1>2. PICK T \in B : \A U \in B : <<U, T>> \notin StrictSubsetOrdering(S)
  BY <1>1, WFMin
<1> QED BY <1>2 DEF StrictSubsetOrdering

(* What the fold computes for V it computes for V within any larger set.    *)
LEMMA SumsUnique ==
  ASSUME NEW V, IsFiniteSet(V), NEW W, IsFiniteSet(W), V \subseteq W,
         NEW f, NEW g, NEW h, Sums(g, f, V), Sums(h, f, W)
  PROVE  g[V] = h[V]
<1> DEFINE B == {s \in SUBSET V : g[s] # h[s]}
<1>1. SUFFICES ASSUME B # {} PROVE FALSE
  BY <1>1
<1>2. PICK T \in B : \A U \in B : ~(U \subseteq T /\ U # T)
  <2> HIDE DEF B
  <2>1. B \subseteq SUBSET V BY DEF B
  <2> QED BY <1>1, <2>1, Minimal
<1>3. T # {}
  BY <1>2 DEF Sums
<1>4. Any(T) \in T
  BY <1>3 DEF Any
<1>5. T \ {Any(T)} \notin B
  BY <1>2, <1>4
<1>6. g[T \ {Any(T)}] = h[T \ {Any(T)}]
  BY <1>5
<1> QED BY <1>2, <1>3, <1>6 DEF Sums

LEMMA SumsExist ==
  ASSUME NEW S, IsFiniteSet(S), NEW f
  PROVE  \E g : Sums(g, f, S)
<1> DEFINE B == {s \in SUBSET S : ~\E g : Sums(g, f, s)}
           G(V) == CHOOSE g : Sums(g, f, V)
<1>1. SUFFICES ASSUME B # {} PROVE FALSE
  BY <1>1
<1>2. PICK T \in B : \A U \in B : ~(U \subseteq T /\ U # T)
  <2> HIDE DEF B
  <2>1. B \subseteq SUBSET S BY DEF B
  <2> QED BY <1>1, <2>1, Minimal
<1>3. \A V \in SUBSET T : V # T => Sums(G(V), f, V)
  <2> SUFFICES ASSUME NEW V \in SUBSET T, V # T PROVE Sums(G(V), f, V)
    OBVIOUS
  <2>1. V \notin B
    BY <1>2
  <2>2. \E g : Sums(g, f, V)
    BY <2>1, <1>2
  <2> QED BY <2>2
<1>4. \A U, V \in SUBSET T : V # T /\ U \subseteq V => G(U)[U] = G(V)[U]
  <2> SUFFICES ASSUME NEW U \in SUBSET T, NEW V \in SUBSET T, V # T, U \subseteq V
               PROVE  G(U)[U] = G(V)[U]
    OBVIOUS
  <2>1. IsFiniteSet(U) /\ IsFiniteSet(V) /\ U # T
    BY <1>2, FS_Subset
  <2>2. Sums(G(U), f, U) /\ Sums(G(V), f, V)
    BY <1>3, <2>1
  <2> HIDE DEF G
  <2> QED BY <2>1, <2>2, SumsUnique
<1> DEFINE g == [s \in SUBSET T |-> IF s = {} THEN 0
                                   ELSE f[Any(s)] + G(s \ {Any(s)})[s \ {Any(s)}]]
<1>5. \A s \in SUBSET T : s # T => g[s] = G(s)[s]
  <2> SUFFICES ASSUME NEW s \in SUBSET T, s # T PROVE g[s] = G(s)[s]
    OBVIOUS
  <2>1. G(s)[s] = IF s = {} THEN 0 ELSE f[Any(s)] + G(s)[s \ {Any(s)}]
    <3>1. Sums(G(s), f, s)
      BY <1>3
    <3> HIDE DEF G
    <3> QED BY <3>1 DEF Sums
  <2>2. G(s \ {Any(s)})[s \ {Any(s)}] = G(s)[s \ {Any(s)}]
    <3> HIDE DEF G
    <3> QED BY <1>4
  <2> HIDE DEF G
  <2> QED BY <2>1, <2>2
<1>6. g = [s \in SUBSET T |-> IF s = {} THEN 0 ELSE f[Any(s)] + g[s \ {Any(s)}]]
  <2>1. \A s \in SUBSET T : s # {} => g[s \ {Any(s)}] = G(s \ {Any(s)})[s \ {Any(s)}]
    <3> SUFFICES ASSUME NEW s \in SUBSET T, s # {} PROVE g[s \ {Any(s)}] = G(s \ {Any(s)})[s \ {Any(s)}]
      OBVIOUS
    <3>1. Any(s) \in s
      BY DEF Any
    <3>2. s \ {Any(s)} \in SUBSET T /\ s \ {Any(s)} # T
      BY <3>1
    <3> HIDE DEF G, g
    <3> QED BY <3>2, <1>5
  <2> HIDE DEF G
  <2> QED BY <2>1
<1>7. Sums(g, f, T)
  <2> HIDE DEF g
  <2> QED BY <1>6 DEF Sums
<1>8. \E h : Sums(h, f, T)
  <2> HIDE DEF g
  <2> QED BY <1>7
<1> QED BY <1>2, <1>8

(* The equation of the fold.                                                *)
LEMMA SumStep ==
  ASSUME NEW S, IsFiniteSet(S), NEW f
  PROVE  SumFunctionOnSet(f, S) = IF S = {} THEN 0 ELSE f[Any(S)] + SumFunctionOnSet(f, S \ {Any(S)})
<1> DEFINE G(V) == CHOOSE g : Sums(g, f, V)
<1>1. \A V \in SUBSET S : IsFiniteSet(V) /\ Sums(G(V), f, V) /\ SumFunctionOnSet(f, V) = G(V)[V]
  BY SumsExist, SumIsFold, FS_Subset
<1> HIDE DEF G
<1>2. G(S)[S] = IF S = {} THEN 0 ELSE f[Any(S)] + G(S)[S \ {Any(S)}]
  BY <1>1 DEF Sums
<1>3. G(S)[S \ {Any(S)}] = G(S \ {Any(S)})[S \ {Any(S)}]
  BY <1>1, SumsUnique
<1> QED BY <1>1, <1>2, <1>3

LEMMA SumEmpty ==
  ASSUME NEW f
  PROVE  SumFunctionOnSet(f, {}) = 0
  BY SumStep, FS_EmptySet

LEMMA SumInt ==
  ASSUME NEW S, IsFiniteSet(S), NEW f, \A x \in S : f[x] \in Int
  PROVE  SumFunctionOnSet(f, S) \in Int
<1> DEFINE B == {s \in SUBSET S : SumFunctionOnSet(f, s) \notin Int}
<1>1. SUFFICES ASSUME B # {} PROVE FALSE
  BY <1>1
<1>2. PICK T \in B : \A U \in B : ~(U \subseteq T /\ U # T)
  <2> HIDE DEF B
  <2>1. B \subseteq SUBSET S BY DEF B
  <2> QED BY <1>1, <2>1, Minimal
<1>3. IsFiniteSet(T) /\ T \subseteq S
  BY <1>2, FS_Subset
<1>4. T # {}
  <2>1. SumFunctionOnSet(f, {}) \in Int
    BY SumEmpty
  <2> QED BY <1>2, <2>1
<1>5. Any(T) \in T
  BY <1>4 DEF Any
<1>6. T \ {Any(T)} \notin B
  BY <1>2, <1>5
<1>7. SumFunctionOnSet(f, T \ {Any(T)}) \in Int
  BY <1>6, <1>3
<1>8. SumFunctionOnSet(f, T) = f[Any(T)] + SumFunctionOnSet(f, T \ {Any(T)})
  BY <1>3, <1>4, SumStep
<1> QED BY <1>2, <1>3, <1>5, <1>7, <1>8

(* Any element may be taken first.                                          *)
LEMMA SumWithout ==
  ASSUME NEW S, IsFiniteSet(S), NEW f, \A x \in S : f[x] \in Int, NEW x \in S
  PROVE  SumFunctionOnSet(f, S) = f[x] + SumFunctionOnSet(f, S \ {x})
<1> DEFINE Total(s) == SumFunctionOnSet(f, s)
           B == {s \in SUBSET S : \E y \in s : Total(s) # f[y] + Total(s \ {y})}
<1>1. SUFFICES ASSUME B # {} PROVE FALSE
  BY <1>1
<1>2. PICK T \in B : \A U \in B : ~(U \subseteq T /\ U # T)
  <2> HIDE DEF B
  <2>1. B \subseteq SUBSET S BY DEF B
  <2> QED BY <1>1, <2>1, Minimal
<1>3. PICK y \in T : Total(T) # f[y] + Total(T \ {y})
  BY <1>2
<1> DEFINE c == Any(T)
           R == T \ {c, y}
<1>4. c \in T /\ T \subseteq S
  BY <1>2, <1>3 DEF Any
<1>5. \A V \in SUBSET S : IsFiniteSet(V) /\ Total(V) \in Int
  <2> SUFFICES ASSUME NEW V \in SUBSET S PROVE IsFiniteSet(V) /\ Total(V) \in Int
    OBVIOUS
  <2>1. IsFiniteSet(V) BY FS_Subset
  <2> QED BY <2>1, SumInt
<1> HIDE DEF c
<1>6. Total(T) = f[c] + Total(T \ {c})
  BY <1>3, <1>4, <1>5, SumStep DEF c
<1>7. y # c
  BY <1>3, <1>6
<1>8. T \ {c} \notin B /\ T \ {y} \notin B
  BY <1>2, <1>3, <1>4
<1>9. T \ {c} \in SUBSET S /\ T \ {y} \in SUBSET S /\ y \in T \ {c} /\ c \in T \ {y}
  BY <1>3, <1>4, <1>7
<1>10. Total(T \ {c}) = f[y] + Total((T \ {c}) \ {y}) /\ Total(T \ {y}) = f[c] + Total((T \ {y}) \ {c})
  BY <1>8, <1>9
<1>11. (T \ {c}) \ {y} = R /\ (T \ {y}) \ {c} = R /\ R \in SUBSET S
  BY <1>4
<1>12. f[y] \in Int /\ f[c] \in Int /\ Total(R) \in Int
  BY <1>3, <1>4, <1>5, <1>11
<1>13. Total(T \ {c}) = f[y] + Total(R) /\ Total(T \ {y}) = f[c] + Total(R)
  BY <1>10, <1>11
<1> QED BY <1>3, <1>6, <1>12, <1>13

LEMMA SumAdd ==
  ASSUME NEW S, IsFiniteSet(S), NEW f, NEW x, x \notin S, \A y \in S \cup {x} : f[y] \in Int
  PROVE  /\ SumFunctionOnSet(f, S \cup {x}) = f[x] + SumFunctionOnSet(f, S)
         /\ SumFunctionOnSet(f, S) \in Int
<1>1. IsFiniteSet(S \cup {x})
  BY FS_AddElement
<1>2. (S \cup {x}) \ {x} = S
  OBVIOUS
<1> QED BY <1>1, <1>2, SumWithout, SumInt

(* A sum only reads the column where it is taken.                           *)
LEMMA SumSame ==
  ASSUME NEW S, IsFiniteSet(S), NEW f, NEW g, \A x \in S : f[x] = g[x]
  PROVE  SumFunctionOnSet(f, S) = SumFunctionOnSet(g, S)
<1> DEFINE B == {s \in SUBSET S : SumFunctionOnSet(f, s) # SumFunctionOnSet(g, s)}
<1>1. SUFFICES ASSUME B # {} PROVE FALSE
  BY <1>1
<1>2. PICK T \in B : \A U \in B : ~(U \subseteq T /\ U # T)
  <2> HIDE DEF B
  <2>1. B \subseteq SUBSET S BY DEF B
  <2> QED BY <1>1, <2>1, Minimal
<1>3. IsFiniteSet(T) /\ T \subseteq S
  BY <1>2, FS_Subset
<1>4. T # {}
  BY <1>2, <1>3, SumStep
<1>5. Any(T) \in T
  BY <1>4 DEF Any
<1>6. T \ {Any(T)} \notin B
  BY <1>2, <1>5
<1>7. SumFunctionOnSet(f, T \ {Any(T)}) = SumFunctionOnSet(g, T \ {Any(T)})
  BY <1>6, <1>3
<1>8. /\ SumFunctionOnSet(f, T) = f[Any(T)] + SumFunctionOnSet(f, T \ {Any(T)})
      /\ SumFunctionOnSet(g, T) = g[Any(T)] + SumFunctionOnSet(g, T \ {Any(T)})
  BY <1>3, <1>4, SumStep
<1> QED BY <1>2, <1>3, <1>5, <1>7, <1>8

LEMMA SumUnion ==
  ASSUME NEW S, IsFiniteSet(S), NEW T, IsFiniteSet(T), S \cap T = {},
         NEW f, \A x \in S \cup T : f[x] \in Int
  PROVE  SumFunctionOnSet(f, S \cup T) = SumFunctionOnSet(f, S) + SumFunctionOnSet(f, T)
<1> DEFINE Total(s) == SumFunctionOnSet(f, s)
           B == {s \in SUBSET T : Total(S \cup s) # Total(S) + Total(s)}
<1>1. SUFFICES ASSUME B # {} PROVE FALSE
  BY <1>1
<1>2. PICK V \in B : \A U \in B : ~(U \subseteq V /\ U # V)
  <2> HIDE DEF B
  <2>1. B \subseteq SUBSET T BY DEF B
  <2> QED BY <1>1, <2>1, Minimal
<1>3. V \subseteq T /\ IsFiniteSet(V) /\ Total(S) \in Int
  BY <1>2, FS_Subset, SumInt
<1>4. V # {}
  <2>1. S \cup {} = S /\ Total({}) = 0
    BY SumEmpty
  <2>2. Total(S \cup {}) = Total(S) + Total({})
    BY <1>3, <2>1
  <2> QED BY <1>2, <2>2
<1>5. PICK x : x \in V
  BY <1>4
<1> DEFINE R == V \ {x}
<1>6. R \notin B
  BY <1>2, <1>5
<1>7. Total(S \cup R) = Total(S) + Total(R)
  BY <1>6, <1>3
<1>8. IsFiniteSet(S \cup V) /\ x \in S \cup V /\ (S \cup V) \ {x} = S \cup R
  BY <1>3, <1>5, FS_Union
<1>9. Total(S \cup V) = f[x] + Total(S \cup R)
  <2>1. Total(S \cup V) = f[x] + Total((S \cup V) \ {x})
    BY <1>3, <1>8, SumWithout
  <2> QED BY <2>1, <1>8
<1>10. Total(V) = f[x] + Total(R) /\ Total(R) \in Int
  <2>1. IsFiniteSet(R)
    BY <1>3, FS_Subset
  <2> QED BY <1>3, <1>5, <2>1, SumWithout, SumInt
<1>11. f[x] \in Int
  BY <1>3, <1>5
<1> HIDE DEF R, Total
<1> QED BY <1>2, <1>3, <1>7, <1>9, <1>10, <1>11 DEF B

LEMMA KeysFinite ==
  ASSUME NEW p, NEW a \in Int, NEW b \in Int
  PROVE  IsFiniteSet({<<p, n>> : n \in a .. b})
<1> DEFINE Keys == {<<p, n>> : n \in a .. b}
           key == [n \in a .. b |-> <<p, n>>]
<1>1. IsFiniteSet(a .. b)
  BY FS_Interval
<1>2. key \in Surjection(a .. b, Keys)
  BY DEF Surjection
<1> HIDE DEF key, Keys
<1>3. IsFiniteSet(Keys)
  BY <1>1, <1>2, FS_Surjection
<1> QED BY <1>3 DEF Keys

(* The keys of entries a + 1 to b of player p.                              *)
KeysFrom(p, a, b) == {<<p, n>> : n \in a + 1 .. b}

(* The amounts of consecutive entries of one key add up to the difference   *)
(* of the balances at their ends.                                           *)
LEMMA Telescope ==
  ASSUME NEW p, NEW a \in Nat, NEW b \in Nat, a <= b, NEW at \in [a .. b -> Int], NEW f,
         \A n \in a + 1 .. b : f[<<p, n>>] = at[n] - at[n - 1]
  PROVE  SumFunctionOnSet(f, KeysFrom(p, a, b)) = at[b] - at[a]
<1> USE DEF KeysFrom
<1> DEFINE Keys(m) == {<<p, n>> : n \in a + 1 .. m}
           Holds(m) == SumFunctionOnSet(f, Keys(m)) = at[m] - at[a]
           B == {s \in SUBSET (a .. b) : \E m \in a .. b : ~Holds(m) /\ s = a .. m}
<1>1. SUFFICES ASSUME ~Holds(b) PROVE FALSE
  OBVIOUS
<1>2. IsFiniteSet(a .. b)
  BY FS_Interval
<1>3. B # {} /\ B \subseteq SUBSET (a .. b)
  <2> HIDE DEF Holds
  <2>1. b \in a .. b /\ a .. b \in SUBSET (a .. b)
    OBVIOUS
  <2>2. a .. b \in B
    BY <1>1, <2>1
  <2> QED BY <2>2
<1>4. PICK T \in B : \A U \in B : ~(U \subseteq T /\ U # T)
  <2>1. PICK D : D = a .. b
    OBVIOUS
  <2>2. IsFiniteSet(D) /\ B # {} /\ B \subseteq SUBSET D
    BY <1>2, <1>3, <2>1
  <2> HIDE DEF B
  <2> QED BY <2>2, Minimal
<1>5. PICK m \in a .. b : ~Holds(m) /\ T = a .. m
  BY <1>4
<1>6. m # a
  <2>1. Keys(a) = {}
    OBVIOUS
  <2>2. SumFunctionOnSet(f, Keys(a)) = 0
    BY <2>1, SumEmpty
  <2>3. at[a] \in Int
    OBVIOUS
  <2> HIDE DEF Keys
  <2> QED BY <1>5, <2>2, <2>3
<1>7. m - 1 \in a .. b /\ m \in a + 1 .. b
  BY <1>5, <1>6
<1>8. Holds(m - 1)
  <2>1. a .. (m - 1) \subseteq a .. m /\ a .. (m - 1) # a .. m
    BY <1>7
  <2>2. a .. (m - 1) \notin B
    BY <1>4, <1>5, <2>1
  <2> HIDE DEF Holds
  <2> QED BY <1>7, <2>2
<1>9. Keys(m) = Keys(m - 1) \cup {<<p, m>>} /\ <<p, m>> \notin Keys(m - 1)
  BY <1>7
<1>10. IsFiniteSet(Keys(m - 1))
  <2>1. a + 1 \in Int /\ m - 1 \in Int
    BY <1>7
  <2> QED BY <2>1, KeysFinite
<1>11. \A k \in Keys(m) : f[k] \in Int
  <2>1. \A n \in a + 1 .. m : f[<<p, n>>] \in Int
    <3> SUFFICES ASSUME NEW n \in a + 1 .. m PROVE f[<<p, n>>] \in Int
      OBVIOUS
    <3>1. n \in a + 1 .. b /\ n \in a .. b /\ n - 1 \in a .. b
      BY <1>7
    <3> QED BY <3>1
  <2> QED BY <2>1
<1>12. SumFunctionOnSet(f, Keys(m)) = f[<<p, m>>] + SumFunctionOnSet(f, Keys(m - 1))
  <2> HIDE DEF Keys
  <2> QED BY <1>9, <1>10, <1>11, SumAdd
<1>13. f[<<p, m>>] = at[m] - at[m - 1] /\ at[m] \in Int /\ at[m - 1] \in Int /\ at[a] \in Int
  BY <1>7
<1> HIDE DEF Keys
<1> QED BY <1>5, <1>8, <1>12, <1>13

(* The sum over the settled hands of a column, before and after a commit    *)
(* that may settle one more.                                                *)
LEMMA OneMore ==
  ASSUME NEW S, IsFiniteSet(S), NEW old, NEW new, \A k \in S : new[k] = old[k] /\ old[k] \in Int,
         NEW h, h \notin S, new[h] \in Int
  PROVE  /\ SumFunctionOnSet(new, S \cup {h}) = SumFunctionOnSet(old, S) + new[h]
         /\ SumFunctionOnSet(old, S) \in Int
<1>1. SumFunctionOnSet(new, S) = SumFunctionOnSet(old, S) /\ SumFunctionOnSet(old, S) \in Int
  BY SumSame, SumInt
<1>2. \A y \in S \cup {h} : new[y] \in Int
  OBVIOUS
<1>3. SumFunctionOnSet(new, S \cup {h}) = new[h] + SumFunctionOnSet(new, S)
  BY <1>2, SumAdd
<1> QED BY <1>1, <1>3

LEMMA InWholeChips ==
  ASSUME NEW a \in Nat, NEW q, q = a \div 100
  PROVE  q \in Nat /\ 100 * q <= a /\ a <= 100 * q + 99
<1>1. q \in Nat
  BY QuotientNat
<1>2. 100 * q <= a /\ a <= 100 * q + 99
  OBVIOUS
<1> QED BY <1>1, <1>2

LEMMA OneMoreSeed == ASSUME NEW a \in Nat, NEW n \in Nat PROVE a * (1 + (n + 1)) = a * (1 + n) + a
  OBVIOUS

(* The pot stays explained when a hand settles: its contribution goes to    *)
(* the pot, or the hand hits, is paid the pot in whole chips with it, and   *)
(* the seed is left.                                                        *)
Feeds(rows, rows2, h, c) ==
  /\ \A k \in SettledIn(rows) :
       k \in DOMAIN rows2 /\ rows2[k] = rows[k] /\ rows[k].state.jackpotStake \in Nat
  /\ \/ /\ h \notin SettledIn(rows) /\ h \in DOMAIN rows2
        /\ SettledIn(rows2) = SettledIn(rows) \cup {h}
        /\ c = 2 * rows2[h].state.jackpotStake
     \/ SettledIn(rows2) = SettledIn(rows) /\ c = 0

Pays(won, won2, h, c, in, left) ==
  /\ \A k \in DOMAIN won : k \in DOMAIN won2 /\ won2[k] = won[k] /\ won[k] \in Nat
  /\ \/ /\ h \notin DOMAIN won /\ DOMAIN won2 = DOMAIN won \cup {h}
        /\ won2[h] = (in + c) \div 100 /\ left = JackpotSeed
     \/ DOMAIN won2 = DOMAIN won /\ left = in + c

LEMMA PotGoesOn ==
  ASSUME NEW rows, NEW won, NEW in \in Nat, PotExplained(rows, won, in),
         IsFiniteSet(SettledIn(rows)), IsFiniteSet(DOMAIN won),
         NEW rows2, NEW won2, NEW left, NEW h, NEW c \in Nat,
         Feeds(rows, rows2, h, c), Pays(won, won2, h, c, in, left)
  PROVE  PotExplained(rows2, won2, left)
<1>1. PICK S, S2, H, H2, fed, fed2, paid, paid2 :
        /\ S = SettledIn(rows) /\ S2 = SettledIn(rows2) /\ H = DOMAIN won /\ H2 = DOMAIN won2
        /\ fed = AddedBy(rows) /\ fed2 = AddedBy(rows2) /\ paid = PaidBy(won) /\ paid2 = PaidBy(won2)
  OBVIOUS
<1>2. PICK n, fees, out : n = Cardinality(H) /\ fees = SumFunctionOnSet(fed, S) /\ out = SumFunctionOnSet(paid, H)
  OBVIOUS
<1>3. IsFiniteSet(S) /\ IsFiniteSet(H) /\ n \in Nat /\ JackpotSeed \in Nat
  BY <1>1, <1>2, FS_CardinalityType, EconomyAssumption
<1>4. \A k \in S : fed2[k] = fed[k] /\ fed[k] \in Int
  <2> SUFFICES ASSUME NEW k \in S PROVE fed2[k] = fed[k] /\ fed[k] \in Int
    OBVIOUS
  <2>1. k \in DOMAIN rows /\ k \in DOMAIN rows2 /\ rows2[k] = rows[k] /\ rows[k].state.jackpotStake \in Nat
    BY <1>1 DEF SettledIn, Feeds
  <2>2. fed[k] = 2 * rows[k].state.jackpotStake /\ fed2[k] = 2 * rows2[k].state.jackpotStake
    BY <1>1, <2>1 DEF AddedBy
  <2> QED BY <2>1, <2>2
<1>5. \A k \in H : paid2[k] = paid[k] /\ paid[k] \in Int
  BY <1>1 DEF PaidBy, Pays
<1>6. fees \in Int /\ out \in Int
  BY <1>2, <1>3, <1>4, <1>5, SumInt
<1>7. JackpotSeed * (1 + n) + fees - in - out \in 0 .. 99 * n
  BY <1>1, <1>2 DEF PotExplained
<1>8. PICK seeds : seeds = JackpotSeed * (1 + n)
  OBVIOUS
<1>9. seeds \in Int /\ seeds + fees - in - out >= 0 /\ seeds + fees - in - out <= 99 * n
  <2>1. seeds \in Nat
    BY <1>3, <1>8, ProductNat
  <2> QED BY <1>3, <1>6, <1>7, <1>8, <2>1
<1>10. SumFunctionOnSet(fed2, S2) = fees + c
  <2>1. CASE /\ h \notin SettledIn(rows) /\ h \in DOMAIN rows2
             /\ SettledIn(rows2) = SettledIn(rows) \cup {h}
             /\ c = 2 * rows2[h].state.jackpotStake
    <3>1. h \notin S /\ S2 = S \cup {h} /\ fed2[h] = c
      BY <1>1, <2>1 DEF AddedBy
    <3>2. SumFunctionOnSet(fed2, S \cup {h}) = fees + fed2[h]
      BY <1>2, <1>3, <1>4, <3>1, OneMore
    <3> QED BY <3>1, <3>2
  <2>2. CASE SettledIn(rows2) = SettledIn(rows) /\ c = 0
    <3>1. SumFunctionOnSet(fed2, S) = fees
      BY <1>2, <1>3, <1>4, SumSame
    <3> QED BY <1>1, <1>6, <2>2, <3>1
  <2> QED BY <2>1, <2>2 DEF Feeds
<1>11. CASE DOMAIN won2 = DOMAIN won /\ left = in + c
  <2>1. SumFunctionOnSet(paid2, H) = out
    BY <1>2, <1>3, <1>5, SumSame
  <2>2. H2 = H /\ left = in + c
    BY <1>1, <1>11
  <2>3. seeds + (fees + c) - left - out \in 0 .. 99 * n
    BY <1>3, <1>6, <1>9, <2>2
  <2> QED BY <1>1, <1>2, <1>8, <1>10, <2>1, <2>2, <2>3 DEF PotExplained
<1>12. CASE /\ h \notin DOMAIN won /\ DOMAIN won2 = DOMAIN won \cup {h}
            /\ won2[h] = (in + c) \div 100 /\ left = JackpotSeed
  <2>1. PICK q : q = (in + c) \div 100
    OBVIOUS
  <2>2. q \in Nat /\ 100 * q <= in + c /\ in + c <= 100 * q + 99
    <3>1. in + c \in Nat
      OBVIOUS
    <3> QED BY <2>1, <3>1, InWholeChips
  <2>3. H2 = H \cup {h} /\ h \notin H /\ won2[h] = q /\ left = JackpotSeed
    BY <1>1, <1>12, <2>1
  <2>4. paid2[h] = 100 * q /\ paid2[h] \in Int
    BY <1>1, <2>2, <2>3 DEF PaidBy
  <2>5. SumFunctionOnSet(paid2, H2) = out + 100 * q
    BY <1>2, <1>3, <1>5, <2>3, <2>4, OneMore
  <2>6. Cardinality(H2) = n + 1
    BY <1>2, <1>3, <2>3, FS_AddElement
  <2>7. PICK more : more = JackpotSeed * (1 + (n + 1))
    OBVIOUS
  <2>8. more = seeds + JackpotSeed
    BY <1>3, <1>8, <2>7, OneMoreSeed
  <2>9. more + (fees + c) - JackpotSeed - (out + 100 * q) \in 0 .. 99 * (n + 1)
    BY <1>3, <1>6, <1>9, <2>2, <2>8
  <2> QED BY <1>1, <1>10, <2>3, <2>5, <2>6, <2>7, <2>9 DEF PotExplained
<1> QED BY <1>11, <1>12 DEF Pays

(* Before any hand, all of the pot is the seed.                             *)
LEMMA NothingPaid ==
  ASSUME NEW rows, NEW won, DOMAIN rows = {}, DOMAIN won = {}
  PROVE  PotExplained(rows, won, JackpotSeed)
<1>1. SettledIn(rows) = {} /\ Cardinality({}) = 0
  BY FS_EmptySet DEF SettledIn
<1>2. JackpotSeed * (1 + 0) + 0 - JackpotSeed - 0 \in 0 .. 99 * 0
  BY EconomyAssumption
<1> QED BY <1>1, <1>2, SumEmpty DEF PotExplained

(* Sums of natural numbers, and of nothing but zeros.                       *)
LEMMA SumNat ==
  ASSUME NEW S, IsFiniteSet(S), NEW f, \A x \in S : f[x] \in Nat
  PROVE  SumFunctionOnSet(f, S) \in Nat
<1> SUFFICES ASSUME SumFunctionOnSet(f, S) \notin Nat PROVE FALSE
  OBVIOUS
<1>1. PICK B : B = {T \in SUBSET S : SumFunctionOnSet(f, T) \notin Nat}
  OBVIOUS
<1>2. B \subseteq SUBSET S /\ B # {}
  BY <1>1
<1>3. PICK T \in B : \A U \in B : ~(U \subseteq T /\ U # T)
  BY <1>2, Minimal
<1>4. T \subseteq S /\ IsFiniteSet(T) /\ SumFunctionOnSet(f, T) \notin Nat
  BY <1>1, <1>3, FS_Subset
<1>5. T # {}
  BY <1>4, SumEmpty
<1>6. PICK x \in T : TRUE
  BY <1>5
<1>7. SumFunctionOnSet(f, T) = f[x] + SumFunctionOnSet(f, T \ {x})
  BY <1>4, <1>6, SumWithout
<1>8. SumFunctionOnSet(f, T \ {x}) \in Nat
  <2>1. T \ {x} \in SUBSET S /\ T \ {x} \subseteq T /\ T \ {x} # T
    BY <1>4, <1>6
  <2> QED BY <1>1, <1>3, <2>1
<1> QED BY <1>4, <1>6, <1>7, <1>8

LEMMA SumZero ==
  ASSUME NEW S, IsFiniteSet(S), NEW f, \A x \in S : f[x] = 0
  PROVE  SumFunctionOnSet(f, S) = 0
<1> SUFFICES ASSUME SumFunctionOnSet(f, S) # 0 PROVE FALSE
  OBVIOUS
<1>1. PICK B : B = {T \in SUBSET S : SumFunctionOnSet(f, T) # 0}
  OBVIOUS
<1>2. B \subseteq SUBSET S /\ B # {}
  BY <1>1
<1>3. PICK T \in B : \A U \in B : ~(U \subseteq T /\ U # T)
  BY <1>2, Minimal
<1>4. T \subseteq S /\ IsFiniteSet(T) /\ SumFunctionOnSet(f, T) # 0
  BY <1>1, <1>3, FS_Subset
<1>5. T # {}
  BY <1>4, SumEmpty
<1>6. PICK x \in T : TRUE
  BY <1>5
<1>7. SumFunctionOnSet(f, T) = f[x] + SumFunctionOnSet(f, T \ {x})
  BY <1>4, <1>6, SumWithout
<1>8. SumFunctionOnSet(f, T \ {x}) = 0
  <2>1. T \ {x} \in SUBSET S /\ T \ {x} \subseteq T /\ T \ {x} # T
    BY <1>4, <1>6
  <2> QED BY <1>1, <1>3, <2>1
<1> QED BY <1>4, <1>6, <1>7, <1>8

(* One number of a sum grows.                                               *)
LEMMA SumGrows ==
  ASSUME NEW S, IsFiniteSet(S), NEW f, NEW g, NEW s \in S, NEW c \in Int,
         \A x \in S : f[x] \in Int, g[s] = f[s] + c, \A x \in S \ {s} : g[x] = f[x]
  PROVE  SumFunctionOnSet(g, S) = SumFunctionOnSet(f, S) + c
<1>1. IsFiniteSet(S \ {s}) /\ \A x \in S : g[x] \in Int
  BY FS_Subset
<1>2. SumFunctionOnSet(f, S) = f[s] + SumFunctionOnSet(f, S \ {s})
  BY SumWithout
<1>3. SumFunctionOnSet(g, S) = g[s] + SumFunctionOnSet(g, S \ {s})
  BY <1>1, SumWithout
<1>4. SumFunctionOnSet(g, S \ {s}) = SumFunctionOnSet(f, S \ {s})
  BY <1>1, SumSame
<1>5. SumFunctionOnSet(f, S \ {s}) \in Int
  BY <1>1, SumInt
<1> QED BY <1>2, <1>3, <1>4, <1>5

------------------------------------------------------------------------------
(* A record's Boolean field.                                                *)
LEMMA ClosedField ==
  ASSUME NEW p, NEW e, NEW f, NEW n, NEW x, x = [player |-> p, closed |-> e = f, net |-> n], e = f
  PROVE  x.closed
<1>1. [player |-> p, closed |-> e = f, net |-> n] = [player |-> p, closed |-> TRUE, net |-> n]
  OBVIOUS
<1> QED BY <1>1

LEMMA OpenField ==
  ASSUME NEW p, NEW c \in BOOLEAN, ~c, NEW n, NEW x, x = [player |-> p, closed |-> c, net |-> n]
  PROVE  ~x.closed
<1>1. x = [player |-> p, closed |-> FALSE, net |-> n]
  OBVIOUS
<1> QED BY <1>1

==============================================================================
