--------------------------- MODULE ChipsInvariant ---------------------------
(***************************************************************************)
(* Why ChipsPostgres is right: the inductive invariant behind its safety    *)
(* properties.  A request holds its locks from its reads to its commit, so  *)
(* what it planned still fits the tables when it commits.                   *)
(***************************************************************************)
EXTENDS ChipsPostgres, ChipsPlans

(* Clients make their own ids (uuids): no two players share one.            *)
DistinctIds ==
  \A p, q \in Player :
    p # q => /\ HandIdsOf[p] \cap HandIdsOf[q] = {}
             /\ GiftIdsOf[p] \cap GiftIdsOf[q] = {}

Planned(r) == phase[r] \in {"planned", "jackpot"}

(* A request that reads or writes its players holds all of their rows, and  *)
(* a lock belongs to a request that needs it.                               *)
LocksHeld ==
  /\ \A r \in Request :
       /\ phase[r] = "idle" => job[r] = NoJob
       /\ phase[r] # "idle" => job[r] \in Job /\ Needs(job[r]) \subseteq DOMAIN players
       /\ phase[r] \in {"locked", "planned", "jackpot"} =>
            \A p \in Needs(job[r]) : playerLock[p] = r
       /\ phase[r] = "locking" => ~(Needs(job[r]) \subseteq Held(r))
       /\ potLock = r <=> phase[r] = "jackpot"
       /\ ~Planned(r) => writes[r] = NoWrites
  /\ \A p \in Player, r \in Request :
       playerLock[p] = r => phase[r] # "idle" /\ p \in Needs(job[r])

(* A planned hand is the request's own: a new one where none is active, or  *)
(* the next state of the stored one, still active.                          *)
HandFits(w, j) ==
  /\ DOMAIN w.hits \subseteq DOMAIN w.hands
  /\ DOMAIN w.hits # {} => w.hit
  /\ w.hit => DOMAIN w.hands # {}
  /\ \A h \in DOMAIN w.hands :
       /\ j.op \in {"start", "act"} /\ h = j.hand
       /\ w.hands[h].user = j.user
       /\ h \in HandIdsOf[j.user]
       /\ h \in DOMAIN hands => /\ hands[h].user = j.user
                                /\ hands[h].game = w.hands[h].game
                                /\ hands[h].status = "active"
       /\ h \notin DOMAIN hands => ~ActiveHand(j.user, w.hands[h].game)
       /\ w.hit => w.hands[h].status = "settled"

GiftFits(w, j) ==
  \A id \in DOMAIN w.gifts :
    j.op = "gift" /\ id \in GiftIdsOf[j.user] /\ id \notin DOMAIN gifts

PlanFits(r) ==
  /\ DOMAIN writes[r].players = Needs(job[r])
  /\ LedgerFits(writes[r], players)
  /\ HandFits(writes[r], job[r])
  /\ GiftFits(writes[r], job[r])

PlansFit == \A r \in Request : Planned(r) => PlanFits(r)

(* Every id in use is one its player's client made, and every jackpot paid  *)
(* was won by a settled hand.                                               *)
RowsOwned ==
  /\ \A h \in DOMAIN hands : h \in HandIdsOf[hands[h].user]
  /\ \A h \in DOMAIN hits : h \in DOMAIN hands /\ hands[h].status = "settled"
  /\ \A r \in Request : job[r] \in StartJob => job[r].hand \in HandIdsOf[job[r].user]
  /\ \A r \in Request : job[r] \in GiftJob =>
       /\ job[r].gift \in GiftIdsOf[job[r].user]
       /\ job[r].to # job[r].user

IInv ==
  /\ TypeOK
  /\ LocksHeld
  /\ PlansFit
  /\ RowsOwned
  /\ OneActive(hands)
  /\ LedgerExplainsBalance
==============================================================================
