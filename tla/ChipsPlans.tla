----------------------------- MODULE ChipsPlans -----------------------------
(***************************************************************************)
(* When a plan still fits the tables: its rows continue each player's       *)
(* ledger from where the table has it.                                      *)
(***************************************************************************)
EXTENDS Chips

(* The balance a plan leaves after ledger row n of player p, whose row in   *)
(* the table is `row`.                                                      *)
After(w, p, n, row) == IF n = row.ledgerSeq THEN row.balance ELSE w.ledger[<<p, n>>].balanceAfter

(* The rows planned for a player continue that player's ledger from where   *)
(* the table now has it.                                                    *)
Continues(w, p, row) ==
  LET to == w.players[p] IN
    /\ row.ledgerSeq <= to.ledgerSeq
    /\ \A n \in row.ledgerSeq + 1 .. to.ledgerSeq :
         /\ <<p, n>> \in DOMAIN w.ledger
         /\ w.ledger[<<p, n>>].balanceAfter = After(w, p, n - 1, row) + w.ledger[<<p, n>>].amount
    /\ to.balance = After(w, p, to.ledgerSeq, row)

LedgerFits(w, table) ==
  /\ DOMAIN w.players \subseteq DOMAIN table
  /\ \A p \in DOMAIN w.players : Continues(w, p, table[p])
  /\ \A k \in DOMAIN w.ledger :
       /\ k[1] \in DOMAIN w.players
       /\ k[2] \in table[k[1]].ledgerSeq + 1 .. w.players[k[1]].ledgerSeq

(* What a planned hand will have moved, as NetOf reads it off the tables    *)
(* once it is committed.                                                    *)
PlannedNet(w, h) ==
  IF w.hands[h].status = "settled"
  THEN w.hands[h].returned + (IF h \in DOMAIN w.hits THEN w.hits[h] ELSE 0) - w.hands[h].wagered
  ELSE w.hands[h].state.paidEarly - w.hands[h].wagered

(* What it adds to the pot.                                                 *)
PlannedFeed(w, h) ==
  IF w.hands[h].status = "settled" THEN 2 * w.hands[h].state.jackpotStake ELSE 0
==============================================================================
