---------------------------- MODULE MCHouseholds ----------------------------
(* Small instances of Households.                                          *)
EXTENDS Households, TLC

CONSTANTS u1, u2, u3, h1, h2, i1, i2, r1, r2

Symmetry == Permutations(User) \cup Permutations(Household) \cup Permutations(Invite) \cup Permutations(Request)

(* Bound: households are created and invites made or revoked between        *)
(* requests; the clock moves once all invites are given out and none is     *)
(* accepted; one household has invites, and only it is left or deleted; one *)
(* user is unsure.                                                          *)
OneHousehold ==
  /\ born' # born \/ now' # now => \A r \in Request : job[r].pc \in {"idle", "invite"}
  /\ now' # now => Invite \subseteq born /\ \A i \in DOMAIN invites : invites[i].by = Nobody
  /\ \A i, j \in DOMAIN invites' : invites'[i].household = invites'[j].household
  /\ \A q, r \in Request : job'[r].pc \in {"invite", "revoke"} => q = r \/ job'[q] = Idle
  /\ \A r \in Request : job[r] = Idle /\ job'[r].pc \in {"role", "drop"} =>
        \E i \in DOMAIN invites' : invites'[i].household = job'[r].h
  /\ Cardinality(unsure') <= 1
=============================================================================
