------------------------------ MODULE MCDigest ------------------------------
(* Small instances of Digest.                                              *)
EXTENDS Digest, TLC

CONSTANTS u1, u2, c1, c2, p1, d1, d2

DailyOnly == {Daily}
DailyOrDayZero == {Daily, 0}

SecondChannel == {v \in Video : v[1] = c2}

(* The bound of the run: four instances that begin apart, so that they add  *)
(* up and do not multiply.  One user's weekly digest of one channel may be   *)
(* under way twice and sees the clock move; the user drops the channel on    *)
(* the first day, and subscribes again; two users of one channel subscribe   *)
(* before anything else happens and edit their cadences; one user subscribes *)
(* first to the second channel, then to the first.  From the second          *)
(* subscription on there is one digest at a time, and no poll beside it.     *)
Untouched == now = 1 /\ poll = [p \in Polls |-> Idle] /\ skipped = {}
             /\ digest = [d \in Digests |-> NoDigest] /\ published = [c \in Channels |-> 0]

Second == nextId = 2 /\ nextId' = 3
OneDigest ==
  LET active == {d \in Digests : digest'[d].pc # "idle"} IN
    now' = 1 /\ Cardinality(active) <= 1 /\ (active = {} \/ \A p \in Polls : poll'[p] = Idle)
HasUser2(d) == u2 \in digest'[d].users

Again == subs = {} /\ \A s \in subs' : s.user = u1 /\ s.cadence = 0

OneChannel ==
  /\ \A s \in subs' \ subs : nextId' = 2 => IF s.user = u2 THEN Untouched ELSE s.cadence = 0
  /\ Second => u2 \in Recipients \/ Again
  /\ nextId = 2 /\ u2 \in Recipients => Second
  /\ nextId' = 3 => OneDigest
  /\ nextId' < 3 => \A d \in Digests : ~HasUser2(d)

TwoChannels ==
  /\ \A s \in subs' : s.user = u1 /\ s.cadence = Daily
  /\ nextId' = 2 => Untouched
  /\ nextId = 2 => Second
  /\ OneDigest
  /\ \A d \in Digests : ~HasUser2(d)

Subscribed2 == \E s \in subs : s.channel = c2

Apart ==
  /\ IF Subscribed2' \/ published'[c2] > 0 THEN TwoChannels ELSE OneChannel
  /\ Subscribed2' /\ ~Subscribed2 => nextId' = 2
  /\ published'[c2] > published[c2] => Subscribed2

RunSymmetry == Permutations(Digests)

=============================================================================
