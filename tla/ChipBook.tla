------------------------------- MODULE ChipBook -------------------------------
(***************************************************************************)
(* What Highroller promises about chips, without transactions, locks or     *)
(* retries: a book of balances in which every change has one cause, and in  *)
(* which a hand is played by one player and closed once.                    *)
(***************************************************************************)
EXTENDS Integers

CONSTANTS Player, HandId, Nobody, StartingBalance, JackpotSeed

VARIABLES
  balance,   \* of the players who have joined
  hand,      \* hand[h]: its player, whether it is closed, and the chips it has moved
  pot        \* the jackpot, in hundredths of a chip

book == <<balance, hand, pot>>

Unplayed == [player |-> Nobody, closed |-> FALSE, net |-> 0]

Init ==
  /\ balance = [p \in {} |-> 0]
  /\ hand = [h \in HandId |-> Unplayed]
  /\ pot = JackpotSeed

(* Only these players' balances change, and none falls below zero.          *)
OnlyMoves(S) ==
  /\ DOMAIN balance' = DOMAIN balance
  /\ S \subseteq DOMAIN balance
  /\ \A p \in DOMAIN balance \ S : balance'[p] = balance[p]
  /\ \A p \in S : balance'[p] >= 0

Join(p) ==
  /\ p \notin DOMAIN balance
  /\ balance' = [q \in DOMAIN balance \cup {p} |-> IF q = p THEN StartingBalance ELSE balance[q]]
  /\ UNCHANGED <<hand, pot>>

(* A hand that is not closed moves its own player's chips, and is charged   *)
(* for exactly what it moves.  Closing it may feed the pot or win it.       *)
Play(h, p) ==
  /\ ~hand[h].closed
  /\ hand[h].player \in {Nobody, p}
  /\ OnlyMoves({p})
  /\ hand' = [hand EXCEPT ![h] = [player |-> p, closed |-> hand'[h].closed,
                                  net |-> hand[h].net + (balance'[p] - balance[p])]]
  /\ \/ pot' = pot
     \/ hand'[h].closed /\ pot' > pot
     \/ hand'[h].closed /\ pot' = JackpotSeed /\ pot >= JackpotSeed

(* A bonus or a bailout.                                                    *)
Grant(p) ==
  /\ OnlyMoves({p})
  /\ balance'[p] >= balance[p]
  /\ UNCHANGED <<hand, pot>>

(* A gift: what one player loses the other gains.                           *)
Gift(p, q) ==
  /\ p # q
  /\ OnlyMoves({p, q})
  /\ balance'[p] < balance[p]
  /\ balance'[p] + balance'[q] = balance[p] + balance[q]
  /\ UNCHANGED <<hand, pot>>

Next ==
  \/ \E p \in Player : Join(p) \/ Grant(p)
  \/ \E p \in Player, h \in HandId : Play(h, p)
  \/ \E p, q \in Player : Gift(p, q)

Spec == Init /\ [][Next]_book
==============================================================================
