------------------------------- MODULE MCGames -------------------------------
(***************************************************************************)
(* Small games for TLC: the toy game of the tests (games/coinflip.testkit.ts)*)
(* and a spin that feeds the jackpot or wins it, in one-chip stakes.        *)
(***************************************************************************)
EXTENDS Integers

(* A hand on the table.  The coin is already flipped: `win` is what calling *)
(* it right returns.                                                        *)
Live(stake, win, early) ==
  [staked |-> stake, paidEarly |-> early, finished |-> FALSE, returned |-> win,
   jackpotStake |-> 0, jackpotEligible |-> FALSE]
Over(stake, win, early) == [Live(stake, win, early) EXCEPT !.finished = TRUE]
Spin(stake, win, hit) ==
  [Over(stake, win, 0) EXCEPT !.jackpotStake = stake, !.jackpotEligible = hit]

(* The call game: one double, then heads or tails.  One deal has a side bet *)
(* that paid on the deal, as blackjack's can.                               *)
CallDeals == {Live(1, 2, 0), Live(2, 3, 1)}
SpinDeals == {Spin(1, 0, FALSE), Spin(2, 2, FALSE), Spin(1, 0, TRUE)}

Doubled(s) == Live(2 * s.staked, 2 * s.returned, s.paidEarly)
Called(s, right) == Over(s.staked, IF right THEN s.returned ELSE s.paidEarly, s.paidEarly)

Reached(S) == S \cup {Doubled(s) : s \in S}

MCEngineState == LET live == Reached(CallDeals)
                 IN live \cup {Called(s, b) : s \in live, b \in BOOLEAN} \cup SpinDeals

MCActionType == {"double", "heads", "tails"}

MCAct == [k \in MCEngineState \X MCActionType |->
            IF k[1].finished THEN {}
            ELSE IF k[2] = "double" THEN IF k[1] \in CallDeals THEN {Doubled(k[1])} ELSE {}
            ELSE {Called(k[1], k[2] = "heads")}]

CONSTANTS coinflip, slots

NoGames    == [g \in {coinflip} |-> {}]
HitGame    == [g \in {slots} |-> {Spin(1, 0, FALSE), Spin(1, 0, TRUE)}]
BothGames  == [g \in {coinflip, slots} |-> IF g = coinflip THEN CallDeals ELSE SpinDeals]
==============================================================================
