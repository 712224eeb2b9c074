------------------------------- MODULE MCChips -------------------------------
(***************************************************************************)
(* Small instances of the chip economy on Postgres.                         *)
(***************************************************************************)
EXTENDS ChipsAccounts, MCGames, TLC

CONSTANTS h1, h2, h3, g1, g2, g3

OnePlayer  == {1}
TwoPlayers == {1, 2}
NoHands(P) == [p \in P |-> {}]
NoHandsOne == NoHands({1})
NoHandsTwo == NoHands({1, 2})
AllHandsOne == [p \in {1} |-> HandId]
HandEach   == (1 :> {h1}) @@ (2 :> {h2})
TwoAndOne  == (1 :> {h1, h2}) @@ (2 :> {h3})
GiftEach   == (1 :> {g1}) @@ (2 :> {g2})
GiftTwoOne == (1 :> {g1, g3}) @@ (2 :> {g2})
NoGiftsOne == [p \in {1} |-> {}]
NoGiftsTwo == [p \in {1, 2} |-> {}]

(* The bound of the run on the whole economy: its four kinds of business     *)
(* (the call game with its bailouts, the jackpot game, gifts, daily claims)  *)
(* each in full, but one of them in a behaviour, so that their instances add *)
(* up and do not multiply.  Days pass for gifts and claims only; the call    *)
(* game and the claims have one player.                                      *)
Business == {hands[h].game : h \in DOMAIN hands}
              \cup {job[r].game : r \in {q \in Request : job[q].op = "start"}}
              \cup ({ledger[k].kind : k \in DOMAIN ledger} \cap {"gift_out", "daily_bonus"})
              \cup ({job[r].op : r \in Request} \cap {"gift", "daily_bonus"})

OneBusiness ==
  /\ Business' \in {{}, {coinflip}, {slots}, {"gift"}, {"gift_out"}, {"gift", "gift_out"}, {"daily_bonus"}}
  /\ (\E r \in Request : job'[r].op = "bailout") => coinflip \in Business
  /\ Business' \cap {coinflip, "daily_bonus"} # {} => DOMAIN players' = {1}
  /\ clock' > 0 => Business' \cap {coinflip, slots} = {}
  /\ clock' > 2 => Business' \cap {"gift", "gift_out"} = {}

RequestSymmetry == Permutations(Request)
==============================================================================
