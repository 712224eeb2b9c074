----------------------------- MODULE MCFirestore -----------------------------
(***************************************************************************)
(* A small instance of the chip economy on Firestore.                       *)
(***************************************************************************)
EXTENDS ChipsFirestore, MCGames, TLC

CONSTANTS h1, h2, h3, g1, g2

TwoAndOne == (1 :> {h1, h2}) @@ (2 :> {h3})
GiftEach  == (1 :> {g1}) @@ (2 :> {g2})
MCShardFor == (h1 :> 0) @@ (h2 :> 1) @@ (h3 :> 0)

(* The bound of the run: the call game with its bailouts, the jackpot game,  *)
(* or gifts among daily claims, each in full, but one of them in a behaviour, *)
(* so that they add up and do not multiply.  Days pass for one player's      *)
(* claims only, and the call game has one player.                            *)
Business == {hands[h].game : h \in DOMAIN hands}
              \cup {job[r].game : r \in {q \in Request : job[q].op = "start"}}
              \cup ({ledger[k].kind : k \in DOMAIN ledger} \cap {"gift_out", "daily_bonus"})
              \cup ({job[r].op : r \in Request} \cap {"gift", "daily_bonus"})

OneBusiness ==
  /\ \/ Business' \subseteq {"gift", "gift_out", "daily_bonus"}
     \/ Business' \in {{coinflip}, {slots}}
  /\ (\E r \in Request : job'[r].op = "bailout") => coinflip \in Business
  /\ coinflip \in Business' => DOMAIN players' = {1}
  /\ today' > 0 => Business' \subseteq {"daily_bonus"} /\ DOMAIN players' = {1}

RequestSymmetry == Permutations(Request)
==============================================================================
