-------------------------- MODULE HouseholdsProofs --------------------------
(***************************************************************************)
(* Proofs about pantry's households, for any number of users, households,   *)
(* invites and requests, whatever fails or is deleted meanwhile.  First,    *)
(* that an invite lets one user in (IInv); then, from TablesInv, the types, *)
(* one owner for a household whose removals do not cross, why a user may    *)
(* have a household active that is not theirs, and who loses a household.   *)
(***************************************************************************)
EXTENDS Households, TLAPS, FiniteSetTheorems

Accepts(r) == job[r].pc = "accept"
Unused(i) == i \in DOMAIN invites => invites[i].by = Nobody

(* An invite being accepted is unused, and accepted by one request: what    *)
(* FOR UPDATE and the test after it give.  No id is given out twice.        *)
IInv ==
  /\ DOMAIN invites \subseteq born
  /\ DOMAIN job = Request
  /\ \A r \in Request : Accepts(r) => Unused(job[r].invite)
  /\ \A q, r \in Request : Accepts(q) /\ Accepts(r) /\ job[q].invite = job[r].invite => q = r

(* A step that begins no acceptance, and one that lets nobody in.           *)
NoneBegun ==
  /\ DOMAIN job' = Request
  /\ \A r \in Request : Accepts(r)' => Accepts(r) /\ job'[r] = job[r]
NobodyIn ==
  /\ DOMAIN invites' \subseteq born'
  /\ \A i \in DOMAIN invites' : invites'[i].by = IF i \in DOMAIN invites THEN invites[i].by ELSE Nobody

LEMMA QuietStep == IInv /\ NoneBegun /\ NobodyIn => IInv' /\ UsersKept
<1> SUFFICES ASSUME IInv, NoneBegun, NobodyIn PROVE IInv' /\ UsersKept
  OBVIOUS
<1>1. UsersKept
  BY DEF NobodyIn, UsersKept
<1>2. ASSUME NEW r \in Request, Accepts(r)'
      PROVE  Unused(job[r].invite)' /\ Accepts(r) /\ job'[r].invite = job[r].invite
  BY <1>2 DEF IInv, NoneBegun, NobodyIn, Unused
<1>3. \A q, r \in Request : Accepts(q)' /\ Accepts(r)' /\ job'[q].invite = job'[r].invite => q = r
  BY <1>2 DEF IInv
<1> QED  BY <1>1, <1>2, <1>3 DEF IInv, NoneBegun, NobodyIn

LEMMA InitInv == Init => IInv
BY DEF Init, IInv, Idle, Accepts

LEMMA Stopped ==
  ASSUME IInv, NEW r \in Request, Stop(r)
  PROVE  NoneBegun
BY DEF Stop, Idle, IInv, NoneBegun, Accepts

LEMMA Moved ==
  ASSUME IInv, NEW r \in Request, NEW pc, NEW role, NEW row, NEW next, NEW nextRole,
         Removal(r, pc, role, row, next, nextRole), pc # "accept"
  PROVE  NoneBegun
BY DEF Removal, IInv, NoneBegun, Accepts

(* What a household's deletion leaves of the invites is as it was.          *)
LEMMA Dropped == ASSUME IInv, NEW h, Drop(h) PROVE NobodyIn
BY DEF Drop, NobodyIn, IInv

LEMMA Same == IInv /\ invites' = invites /\ born \subseteq born' => NobodyIn
BY DEF NobodyIn, IInv

LEMMA AskStep ==
  ASSUME IInv, NEW r \in Request, Ask(r)
  PROVE  IInv' /\ UsersKept
<1>0. invites' = invites /\ born' = born
  BY DEF Ask, AskDelete, AskActivate, AskInvite, AskRevoke, AskRemove, OpenInvite, Begin, tables
<1>1. CASE AskDelete(r) \/ AskActivate(r) \/ AskInvite(r) \/ AskRevoke(r) \/ AskRemove(r)
  <2>1. NoneBegun
    BY <1>1 DEF AskDelete, AskActivate, AskInvite, AskRevoke, AskRemove, Begin, Job, IInv, NoneBegun, Accepts
  <2> QED  BY <2>1, <1>0, Same, QuietStep
<1>2. CASE OpenInvite(r)
  <2>1. PICK u \in User, i \in DOMAIN invites :
          /\ Accepting(i) = {} /\ Usable(i)
          /\ Begin(r, Job("accept", u, invites[i].household, i))
    BY <1>2 DEF OpenInvite
  <2>2. \A q \in Request : Accepts(q) => job[q].invite # i
    BY <2>1 DEF Accepting, Accepts
  <2>3. /\ DOMAIN job' = Request
        /\ job'[r].invite = i /\ \A q \in Request \ {r} : job'[q] = job[q]
    BY <2>1 DEF Begin, Job, IInv
  <2>4. invites[i].by = Nobody
    BY <2>1 DEF Usable
  <2>5. \A q \in Request : Accepts(q)' => Unused(job[q].invite)'
    BY <1>0, <2>3, <2>4 DEF IInv, Accepts, Unused
  <2>6. \A p, q \in Request : Accepts(p)' /\ Accepts(q)' /\ job'[p].invite = job'[q].invite => p = q
    BY <2>2, <2>3 DEF IInv, Accepts
  <2>7. UsersKept
    BY <1>0 DEF UsersKept
  <2> QED  BY <1>0, <2>3, <2>5, <2>6, <2>7 DEF IInv
<1> QED  BY <1>1, <1>2 DEF Ask

LEMMA ActStep ==
  ASSUME IInv, NEW r \in Request, Act(r)
  PROVE  IInv' /\ UsersKept
<1>1. CASE DeleteHousehold(r)
  BY <1>1, Stopped, Dropped, QuietStep DEF DeleteHousehold
<1>2. CASE SetActive(r)
  BY <1>2, Stopped, Same, QuietStep DEF SetActive
<1>3. CASE CreateInvite(r)
  <2>1. NobodyIn
    BY <1>3 DEF CreateInvite, NobodyIn, IInv
  <2> QED  BY <1>3, <2>1, Stopped, QuietStep DEF CreateInvite
<1>4. CASE RevokeInvite(r)
  <2>1. NobodyIn
    BY <1>4 DEF RevokeInvite, NobodyIn, IInv
  <2> QED  BY <1>4, <2>1, Stopped, QuietStep DEF RevokeInvite
<1>5. CASE AcceptInvite(r)
  <2> DEFINE i == job[r].invite
  <2>1. Accepts(r) /\ Unused(i)
    BY <1>5 DEF AcceptInvite, Accepts, IInv
  <2>2. /\ DOMAIN invites' = DOMAIN invites
        /\ \A j \in DOMAIN invites \ {i} : invites'[j] = invites[j]
    BY <1>5 DEF AcceptInvite
  <2>3. UsersKept
    BY <2>1, <2>2 DEF UsersKept, Unused
  <2>4. NoneBegun
    BY <1>5, Stopped DEF AcceptInvite
  <2>5. ~Accepts(r)'
    BY <1>5 DEF AcceptInvite, Stop, Idle, Accepts, IInv
  <2>6. \A q \in Request : Accepts(q)' => q # r /\ Accepts(q) /\ job'[q] = job[q] /\ job[q].invite # i
    BY <2>1, <2>4, <2>5 DEF NoneBegun, IInv
  <2>7. \A q \in Request : Accepts(q)' => Unused(job[q].invite)'
    BY <2>2, <2>6 DEF IInv, Unused
  <2>8. \A p, q \in Request : Accepts(p)' /\ Accepts(q)' /\ job'[p].invite = job'[q].invite => p = q
    BY <2>6 DEF IInv
  <2>9. DOMAIN invites' \subseteq born'
    BY <1>5, <2>2 DEF AcceptInvite, IInv
  <2> QED  BY <2>3, <2>4, <2>7, <2>8, <2>9 DEF IInv, NoneBegun
<1>6. CASE ReadRole(r)
  <2>1. NoneBegun
    BY <1>6, Stopped, Moved DEF ReadRole
  <2> QED  BY <1>6, <2>1, Same, QuietStep DEF ReadRole, tables
<1>7. CASE DeleteMember(r)
  BY <1>7, Moved, Same, QuietStep DEF DeleteMember, tables
<1>8. CASE Look(r)
  BY <1>8, Moved, Same, QuietStep DEF Look, tables
<1>9. CASE Settle(r)
  <2>1. NobodyIn
    BY <1>9, Dropped, Same DEF Settle
  <2> QED  BY <1>9, <2>1, Moved, QuietStep DEF Settle
<1>10. CASE FindOther(r)
  BY <1>10, Moved, Same, QuietStep DEF FindOther, tables
<1>11. CASE Repoint(r)
  BY <1>11, Stopped, Same, QuietStep DEF Repoint
<1> QED  BY <1>1, <1>2, <1>3, <1>4, <1>5, <1>6, <1>7, <1>8, <1>9, <1>10, <1>11 DEF Act

LEMMA NextInv == IInv /\ [Next]_vars => IInv' /\ [UsersKept]_vars
<1> SUFFICES ASSUME IInv, [Next]_vars PROVE IInv' /\ UsersKept
  OBVIOUS
<1>1. ASSUME job' = job, invites' = invites, born \subseteq born'
      PROVE  IInv' /\ UsersKept
  <2>1. NoneBegun
    BY <1>1 DEF IInv, NoneBegun, Accepts
  <2> QED  BY <1>1, <2>1, Same, QuietStep
<1>2. CASE UNCHANGED vars
  BY <1>1, <1>2 DEF vars, tables
<1>3. CASE CreateHousehold \/ Tick
  BY <1>1, <1>3 DEF CreateHousehold, Tick, tables
<1>4. ASSUME NEW r \in Request, Fail(r)
      PROVE  IInv' /\ UsersKept
  BY <1>4, Stopped, Same, QuietStep DEF Fail, tables
<1> QED  BY <1>2, <1>3, <1>4, AskStep, ActStep DEF Next

(* An invite lets one user in, whoever else opens it at the same moment and *)
(* whatever fails: acceptInvite holds the row it found unused until it is   *)
(* used.                                                                    *)
THEOREM InviteSingleUseHolds == Spec => InviteSingleUse
<1>1. Spec => []IInv
  BY InitInv, NextInv, PTL DEF Spec
<1> QED  BY <1>1, NextInv, PTL DEF Spec, InviteSingleUse

------------------------------------------------------------------------------
(* The other invariants: what each request in flight may still count on.    *)

Row      == [user: User, role: Role]
RowsIn(ms) == {ms[k] : k \in DOMAIN ms}
Keyed(ms) == ms \in Seq(Row) /\ \A j, k \in DOMAIN ms : ms[j].user = ms[k].user => j = k

Pc == {"idle", "drop", "activate", "invite", "revoke", "accept",
       "role", "remove", "look", "settle", "other", "repoint"}
OnUser == {"activate", "accept", "role", "remove", "look", "settle", "other", "repoint"}

(* The tables: one row per household and user, and ids once given out.      *)
TablesOK ==
  /\ TypeOK
  /\ households \subseteq born /\ active \in [User -> households \cup {NoHousehold}]
  /\ DOMAIN members = Household /\ \A h \in Household : Keyed(members[h])

(* A request is about a household there was; an invite being accepted is    *)
(* not revoked, nor its household deleted.                                  *)
JobOK(j) ==
  /\ j.pc \in Pc /\ j.role \in Role /\ j.nextRole \in Role /\ j.row \in BOOLEAN
  /\ j.pc # "idle" => j.h \in Household /\ j.h \in born
  /\ j.pc \in OnUser => j.on \in User
  /\ j.pc \notin OnUser => j.on = Nobody
  /\ j.row => j.pc \in {"look", "settle"}
  /\ j.pc = "settle" => j.next \in User \cup {Nobody}
  /\ j.pc = "repoint" => j.next \in (born \cap Household) \cup {NoHousehold}
  /\ j.pc = "accept" => j.invite \in DOMAIN invites /\ invites[j.invite].household = j.h

JobsOK == DOMAIN job = Request /\ \A r \in Request : JobOK(job[r])

(* A user nobody is unsure about has one request at most, and the household *)
(* it will make active is still theirs.                                     *)
Sure(u) == u \in User \ unsure
OneRequest == \A q, r \in Request : Sure(job[q].on) /\ job[q].on = job[r].on => q = r
Theirs(u, h) == IsMember(u, h) \/ h \notin households
TheirsToHave ==
  \A r \in Request : Sure(job[r].on) =>
    /\ job[r].pc = "activate" => Theirs(job[r].on, job[r].h)
    /\ job[r].pc = "repoint" => job[r].next = NoHousehold \/ Theirs(job[r].on, job[r].next)

(* Whoever is left where a removal saw nobody joined meanwhile.             *)
LatecomersRaced ==
  /\ lost \subseteq raced
  /\ \A r \in Request : job[r].pc = "settle" /\ job[r].next = Nobody =>
       \A u \in MembersOf(Left(r)) : <<job[r].h, u>> \in raced

(* Where no two removals crossed there is one owner, and the only removal   *)
(* knows the member's role and, once it looked, a member who remains and    *)
(* theirs.                                                                  *)
OneOwnerIn(rows) == \E u \in User : \A v \in User : [user |-> v, role |-> "owner"] \in rows <=> v = u
Knows(j, rows) ==
  /\ \E m \in rows : m.user = j.on
  /\ j.role = "owner" <=> [user |-> j.on, role |-> "owner"] \in rows
  /\ j.pc \in {"look", "settle"} => j.row
  /\ j.pc = "settle" /\ j.next # Nobody => j.next # j.on /\ [user |-> j.next, role |-> j.nextRole] \in rows
Uncrossed ==
  \A h \in households \ crossed :
    /\ \A q, r \in Removing(h) : q = r
    /\ OneOwnerIn(RowsIn(members[h]))
    /\ \A r \in Removing(h) : Knows(job[r], RowsIn(members[h]))

TablesInv == TablesOK /\ JobsOK /\ OneRequest /\ TheirsToHave /\ ActiveHasACause
             /\ LatecomersRaced /\ Uncrossed

LEMMA RowsAreOf ==
  ASSUME NEW ms, NEW u
  PROVE  u \in MembersOf(ms) <=> \E m \in RowsIn(ms) : m.user = u
BY DEF MembersOf, RowsIn

LEMMA KeyedRows ==
  ASSUME NEW ms, Keyed(ms)
  PROVE  /\ RowsIn(ms) \subseteq Row
         /\ \A m, n \in RowsIn(ms) : m.user = n.user => m = n
         /\ ms = <<>> <=> RowsIn(ms) = {}
         /\ ms # <<>> => ms[1] \in RowsIn(ms)
BY DEF Keyed, RowsIn

LEMMA OthersRows ==
  ASSUME NEW ms, Keyed(ms), NEW u, NEW ns, ns = OthersThan(ms, u)
  PROVE  Keyed(ns) /\ RowsIn(ns) = {m \in RowsIn(ms) : m.user # u}
<1>1. CASE u \notin MembersOf(ms)
  <2>1. ns = ms
    BY <1>1 DEF OthersThan
  <2> QED BY <1>1, <2>1, RowsAreOf
<1>2. CASE u \in MembersOf(ms)
  <2>1. PICK p : p = PlaceOf(ms, u)
    OBVIOUS
  <2>2. p \in DOMAIN ms /\ ms[p].user = u
    BY <1>2, <2>1 DEF PlaceOf, MembersOf
  <2>3. ms \in Seq(Row) /\ p \in 1 .. Len(ms) /\ \A j, k \in 1 .. Len(ms) : ms[j].user = ms[k].user => j = k
    BY <2>2 DEF Keyed
  <2>4. ns = SubSeq(ms, 1, p - 1) \o SubSeq(ms, p + 1, Len(ms))
    BY <1>2, <2>1 DEF OthersThan, RemoveAt
  <2>5. /\ ns \in Seq(Row) /\ Len(ns) = Len(ms) - 1
        /\ \A k \in 1 .. Len(ns) : ns[k] = ms[IF k < p THEN k ELSE k + 1]
    <3>1. PICK a, b : a = SubSeq(ms, 1, p - 1) /\ b = SubSeq(ms, p + 1, Len(ms))
      OBVIOUS
    <3>2. a \in Seq(Row) /\ Len(a) = p - 1 /\ \A k \in 1 .. p - 1 : a[k] = ms[k]
      BY <2>3, <3>1
    <3>3. b \in Seq(Row) /\ Len(b) = Len(ms) - p /\ \A k \in 1 .. Len(ms) - p : b[k] = ms[p + k]
      BY <2>3, <3>1
    <3>4. ns = a \o b
      BY <2>4, <3>1
    <3>5. /\ ns \in Seq(Row) /\ Len(ns) = Len(a) + Len(b)
          /\ \A k \in 1 .. Len(ns) : ns[k] = IF k <= Len(a) THEN a[k] ELSE b[k - Len(a)]
      BY <3>2, <3>3, <3>4
    <3>6. Len(ns) = Len(ms) - 1 /\ Len(ms) \in Nat
      BY <2>3, <3>2, <3>3, <3>5
    <3>7. ASSUME NEW k \in 1 .. Len(ns) PROVE ns[k] = ms[IF k < p THEN k ELSE k + 1]
      <4>1. CASE k < p
        BY <2>3, <3>2, <3>5, <3>6, <4>1
      <4>2. CASE ~(k < p)
        <5>1. k - (p - 1) \in 1 .. Len(ms) - p /\ p + (k - (p - 1)) = k + 1 /\ ~(k <= p - 1)
          BY <2>3, <3>6, <4>2
        <5>2. ns[k] = b[k - (p - 1)]
          BY <3>2, <3>5, <5>1
        <5> QED BY <3>3, <4>2, <5>1, <5>2
      <4> QED BY <4>1, <4>2
    <3> QED BY <3>5, <3>6, <3>7
  <2>6. Keyed(ns)
    <3> SUFFICES ASSUME NEW j \in 1 .. Len(ns), NEW k \in 1 .. Len(ns), ns[j].user = ns[k].user
                 PROVE  j = k
      BY <2>5 DEF Keyed
    <3>1. PICK f, g : f = (IF j < p THEN j ELSE j + 1) /\ g = (IF k < p THEN k ELSE k + 1)
      OBVIOUS
    <3>2. f \in 1 .. Len(ms) /\ ns[j] = ms[f]
      BY <2>3, <2>5, <3>1
    <3>3. g \in 1 .. Len(ms) /\ ns[k] = ms[g]
      BY <2>3, <2>5, <3>1
    <3>4. f = g
      BY <2>3, <3>2, <3>3
    <3> QED BY <2>3, <3>1, <3>4
  <2>7. ASSUME NEW m \in RowsIn(ns) PROVE m \in RowsIn(ms) /\ m.user # u
    <3>1. PICK k \in 1 .. Len(ns) : m = ns[k]
      BY <2>5, <2>7 DEF RowsIn
    <3>2. PICK l : l = IF k < p THEN k ELSE k + 1
      OBVIOUS
    <3>3. l \in 1 .. Len(ms) /\ l # p /\ m = ms[l]
      BY <2>3, <2>5, <3>1, <3>2
    <3> QED BY <2>2, <2>3, <3>3 DEF RowsIn
  <2>8. ASSUME NEW m \in RowsIn(ms), m.user # u PROVE m \in RowsIn(ns)
    <3>1. PICK l \in 1 .. Len(ms) : m = ms[l]
      BY <2>3, <2>8 DEF RowsIn
    <3>2. l # p
      BY <2>2, <2>8, <3>1
    <3>3. PICK k : k = IF l < p THEN l ELSE l - 1
      OBVIOUS
    <3>4. k \in 1 .. Len(ns) /\ (IF k < p THEN k ELSE k + 1) = l
      BY <2>3, <2>5, <3>1, <3>2, <3>3
    <3>5. ns[k] = m
      BY <2>5, <3>1, <3>4
    <3> QED BY <2>5, <3>4, <3>5 DEF RowsIn
  <2> QED BY <2>6, <2>7, <2>8
<1> QED BY <1>1, <1>2

LEMMA WithRows ==
  ASSUME NEW ms, Keyed(ms), NEW u \in User, NEW ns, ns = WithMember(ms, u)
  PROVE  /\ Keyed(ns)
         /\ RowsIn(ns) = RowsIn(ms) \cup (IF u \in MembersOf(ms) THEN {} ELSE {[user |-> u, role |-> "member"]})
<1>1. CASE u \in MembersOf(ms)
  BY <1>1 DEF WithMember
<1>2. CASE u \notin MembersOf(ms)
  <2>1. PICK m : m = [user |-> u, role |-> "member"]
    OBVIOUS
  <2>2. m \in Row /\ m.user = u
    BY <2>1 DEF Row, Role
  <2>3. /\ ms \in Seq(Row) /\ \A j, k \in 1 .. Len(ms) : ms[j].user = ms[k].user => j = k
        /\ \A k \in 1 .. Len(ms) : ms[k].user # u
    BY <1>2 DEF Keyed, MembersOf
  <2>4. /\ ns \in Seq(Row) /\ Len(ns) = Len(ms) + 1 /\ ns[Len(ms) + 1] = m
        /\ \A k \in 1 .. Len(ms) : ns[k] = ms[k]
    BY <1>2, <2>1, <2>2, <2>3 DEF WithMember
  <2>5. Keyed(ns)
    <3> SUFFICES ASSUME NEW j \in 1 .. Len(ns), NEW k \in 1 .. Len(ns), ns[j].user = ns[k].user
                 PROVE  j = k
      BY <2>4 DEF Keyed
    <3> QED BY <2>2, <2>3, <2>4
  <2>6. RowsIn(ns) = RowsIn(ms) \cup {m}
    <3>1. \A n : n \in RowsIn(ns) <=> \E k \in 1 .. Len(ms) + 1 : n = ns[k]
      BY <2>3, <2>4 DEF RowsIn
    <3>2. \A n : n \in RowsIn(ms) <=> \E k \in 1 .. Len(ms) : n = ms[k]
      BY <2>3 DEF RowsIn
    <3>3. Len(ms) \in Nat
      BY <2>3
    <3> QED BY <2>4, <3>1, <3>2, <3>3
  <2> QED BY <1>2, <2>1, <2>5, <2>6
<1> QED BY <1>1, <1>2

LEMMA PromotedRows ==
  ASSUME NEW ms, Keyed(ms), NEW u, NEW ns, ns = Promoted(ms, u)
  PROVE  /\ Keyed(ns) /\ MembersOf(ns) = MembersOf(ms)
         /\ \A v : [user |-> v, role |-> "owner"] \in RowsIn(ns) <=>
                     \/ [user |-> v, role |-> "owner"] \in RowsIn(ms)
                     \/ v = u /\ u \in MembersOf(ms)
<1>1. ms \in Seq(Row) /\ DOMAIN ms = 1 .. Len(ms) /\ \A j, k \in DOMAIN ms : ms[j].user = ms[k].user => j = k
  BY DEF Keyed
<1>2. /\ DOMAIN ns = DOMAIN ms
      /\ \A k \in DOMAIN ms : ns[k] = [user |-> ms[k].user, role |-> IF ms[k].user = u THEN "owner" ELSE ms[k].role]
  BY DEF Promoted
<1>3. ASSUME NEW k \in DOMAIN ms PROVE ms[k] \in Row /\ ns[k] \in Row /\ ns[k].user = ms[k].user
  <2>1. ms[k] \in Row
    BY <1>1
  <2>2. PICK role : role = IF ms[k].user = u THEN "owner" ELSE ms[k].role
    OBVIOUS
  <2>3. ms[k].user \in User /\ role \in Role
    BY <2>1, <2>2 DEF Row, Role
  <2>4. ns[k] = [user |-> ms[k].user, role |-> role]
    BY <1>2, <2>2
  <2> QED BY <2>1, <2>3, <2>4 DEF Row
<1>4. ns \in Seq(Row)
  <2>1. ns \in [1 .. Len(ms) -> Row] /\ Len(ms) \in Nat
    BY <1>1, <1>2, <1>3 DEF Promoted
  <2> QED BY <2>1
<1>5. Keyed(ns)
  BY <1>1, <1>2, <1>3, <1>4 DEF Keyed
<1>6. MembersOf(ns) = MembersOf(ms)
  BY <1>2, <1>3 DEF MembersOf
<1>7. ASSUME NEW v
      PROVE  [user |-> v, role |-> "owner"] \in RowsIn(ns) <=>
               [user |-> v, role |-> "owner"] \in RowsIn(ms) \/ (v = u /\ u \in MembersOf(ms))
  <2>1. \A k \in DOMAIN ms : ms[k] = [user |-> ms[k].user, role |-> ms[k].role]
    BY <1>3 DEF Row
  <2>2. [user |-> v, role |-> "owner"] \in RowsIn(ns) <=>
          \E k \in DOMAIN ms : ms[k].user = v /\ (ms[k].user = u \/ ms[k].role = "owner")
    BY <1>2 DEF RowsIn
  <2>3. [user |-> v, role |-> "owner"] \in RowsIn(ms) <=>
          \E k \in DOMAIN ms : ms[k].user = v /\ ms[k].role = "owner"
    BY <2>1 DEF RowsIn
  <2> QED BY <2>2, <2>3 DEF MembersOf
<1> QED BY <1>5, <1>6, <1>7

------------------------------------------------------------------------------
(* How a request's step changes the requests.                               *)
Moves(r) == DOMAIN job' = Request /\ \A q \in Request \ {r} : job'[q] = job[q]

LEMMA Began ==
  ASSUME JobsOK, NEW r \in Request, NEW next, Begin(r, next)
  PROVE  Moves(r) /\ job'[r] = next /\ job[r].pc = "idle"
BY DEF JobsOK, Begin, Moves

LEMMA Ended ==
  ASSUME JobsOK, NEW r \in Request, Stop(r)
  PROVE  Moves(r) /\ job'[r] = Idle
BY DEF JobsOK, Stop, Moves

LEMMA Continued ==
  ASSUME JobsOK, NEW r \in Request, NEW pc, NEW role, NEW row, NEW next, NEW nextRole,
         Removal(r, pc, role, row, next, nextRole)
  PROVE  /\ Moves(r)
         /\ job'[r].pc = pc /\ job'[r].on = job[r].on /\ job'[r].h = job[r].h
         /\ job'[r].role = role /\ job'[r].row = row
         /\ job'[r].next = next /\ job'[r].nextRole = nextRole
<1>1. PICK j : j = [pc |-> pc, on |-> job[r].on, h |-> job[r].h, role |-> role, row |-> row,
                    next |-> next, nextRole |-> nextRole, invite |-> NoInvite]
  OBVIOUS
<1>2. job' = [job EXCEPT ![r] = j]
  BY <1>1 DEF Removal
<1>3. Moves(r) /\ job'[r] = j
  BY <1>2 DEF Moves, JobsOK
<1> QED BY <1>1, <1>3

(* Whom and what each route's request is about.                             *)
Asks(r, pc, u, h, i) ==
  /\ job'[r] = Job(pc, u, h, i)
  /\ pc \in {"drop", "activate", "invite", "revoke", "accept", "role"}
  /\ h \in households
  /\ IF pc \in OnUser THEN u \in User /\ Meets(u) ELSE u = Nobody /\ UNCHANGED unsure
  /\ pc = "activate" => IsMember(u, h)
  /\ pc = "accept" => i \in DOMAIN invites /\ invites[i].household = h

LEMMA Asked ==
  ASSUME TablesOK, JobsOK, NEW r \in Request, Ask(r)
  PROVE  /\ Moves(r) /\ job[r].pc = "idle"
         /\ UNCHANGED <<now, tables, crossed, raced, lost>>
         /\ \E pc, u, h, i : Asks(r, pc, u, h, i)
<1> USE DEF Asks, OnUser
<1>1. ASSUME NEW pc, NEW u, NEW h, NEW i, Begin(r, Job(pc, u, h, i)), Asks(r, pc, u, h, i)
      PROVE  /\ Moves(r) /\ job[r].pc = "idle"
             /\ UNCHANGED <<now, tables, crossed, raced, lost>>
             /\ \E pcs, us, hs, is : Asks(r, pcs, us, hs, is)
  <2>1. \E pcs, us, hs, is : Asks(r, pcs, us, hs, is)
    BY Zenon, <1>1
  <2> QED BY <1>1, <2>1, Began DEF Begin
<1>2. CASE AskDelete(r)
  <2>1. PICK h \in households : Begin(r, Job("drop", Nobody, h, NoInvite)) /\ UNCHANGED unsure
    BY <1>2 DEF AskDelete
  <2>2. Asks(r, "drop", Nobody, h, NoInvite)
    BY <2>1, Began
  <2> QED BY <1>1, <2>1, <2>2
<1>3. CASE AskActivate(r)
  <2>1. PICK h \in households, u \in User : IsMember(u, h) /\ Begin(r, Job("activate", u, h, NoInvite)) /\ Meets(u)
    BY <1>3 DEF AskActivate
  <2>2. Asks(r, "activate", u, h, NoInvite)
    BY <2>1, Began
  <2> QED BY <1>1, <2>1, <2>2
<1>4. CASE AskInvite(r)
  <2>1. PICK h \in households : Begin(r, Job("invite", Nobody, h, NoInvite)) /\ UNCHANGED unsure
    BY <1>4 DEF AskInvite
  <2>2. Asks(r, "invite", Nobody, h, NoInvite)
    BY <2>1, Began
  <2> QED BY <1>1, <2>1, <2>2
<1>5. CASE AskRevoke(r)
  <2>1. PICK h \in households, i \in DOMAIN invites : Begin(r, Job("revoke", Nobody, h, i)) /\ UNCHANGED unsure
    BY <1>5 DEF AskRevoke
  <2>2. Asks(r, "revoke", Nobody, h, i)
    BY <2>1, Began
  <2> QED BY <1>1, <2>1, <2>2
<1>6. CASE AskRemove(r)
  <2>1. PICK h \in households, u \in User : Begin(r, Job("role", u, h, NoInvite)) /\ Meets(u)
    BY <1>6 DEF AskRemove
  <2>2. Asks(r, "role", u, h, NoInvite)
    BY <2>1, Began
  <2> QED BY <1>1, <2>1, <2>2
<1>7. CASE OpenInvite(r)
  <2>1. PICK u \in User, i \in DOMAIN invites : Begin(r, Job("accept", u, invites[i].household, i)) /\ Meets(u)
    BY <1>7 DEF OpenInvite
  <2>2. invites[i].household \in households
    BY DEF TablesOK, TypeOK
  <2>3. Asks(r, "accept", u, invites[i].household, i)
    BY <2>1, <2>2, Began
  <2> QED BY <1>1, <2>1, <2>3
<1> QED BY <1>2, <1>3, <1>4, <1>5, <1>6, <1>7 DEF Ask

------------------------------------------------------------------------------
(* Rows keep referring to households there are.                             *)
Rows(h) == RowsIn(members[h])

LEMMA RowsTyped ==
  ASSUME TablesOK, NEW h \in Household
  PROVE  /\ Keyed(members[h]) /\ Rows(h) \subseteq Row
         /\ \A m, n \in Rows(h) : m.user = n.user => m = n
         /\ h \notin households => members[h] = <<>> /\ Rows(h) = {}
         /\ \A u : IsMember(u, h) <=> \E m \in Rows(h) : m.user = u
         /\ \A u : IsOwner(u, h) <=> [user |-> u, role |-> "owner"] \in Rows(h)
         /\ \A u : IsMember(u, h) => h \in households /\ u \in User
<1>1. Keyed(members[h])
  BY DEF TablesOK
<1>2. Rows(h) # {} => h \in households
  BY DEF TablesOK, TypeOK, Rows, RowsIn
<1>3. \A u : IsMember(u, h) <=> \E m \in Rows(h) : m.user = u
  BY RowsAreOf DEF IsMember, Rows
<1>4. \A u : IsOwner(u, h) <=> [user |-> u, role |-> "owner"] \in Rows(h)
  BY DEF IsOwner, Rows, RowsIn
<1>5. Rows(h) \subseteq Row /\ (members[h] = <<>> <=> Rows(h) = {}) /\ \A m, n \in Rows(h) : m.user = n.user => m = n
  BY <1>1, KeyedRows DEF Rows
<1>6. \A m \in Row : m.user \in User
  BY DEF Row
<1> QED BY <1>1, <1>2, <1>3, <1>4, <1>5, <1>6

(* What a removal's transaction sees of its household.                      *)
LEMMA LeftRows ==
  ASSUME TablesOK, NEW r \in Request, job[r].h \in Household
  PROVE  /\ Keyed(Left(r))
         /\ RowsIn(Left(r)) = {m \in Rows(job[r].h) : job[r].row => m.user # job[r].on}
         /\ MembersOf(Left(r)) = {u \in MembersOf(members[job[r].h]) : job[r].row => u # job[r].on}
<1>1. Keyed(members[job[r].h])
  BY RowsTyped
<1>2. Keyed(Left(r)) /\ RowsIn(Left(r)) = {m \in Rows(job[r].h) : job[r].row => m.user # job[r].on}
  <2>1. CASE job[r].row
    BY <1>1, <2>1, OthersRows DEF Left, Rows
  <2>2. CASE ~job[r].row
    BY <1>1, <2>2 DEF Left, Rows
  <2> QED BY <2>1, <2>2
<1>3. \A u : u \in MembersOf(Left(r)) <=> u \in MembersOf(members[job[r].h]) /\ (job[r].row => u # job[r].on)
  BY <1>2, RowsAreOf DEF Rows
<1> QED BY <1>2, <1>3

(* One household's rows replaced by others of its own.                      *)
LEMMA MembersReplaced ==
  ASSUME TablesOK, NEW h \in Household, NEW ns, Keyed(ns), RowsIn(ns) # {} => h \in households,
         members' = [members EXCEPT ![h] = ns], UNCHANGED <<now, households, born>>,
         active' \in [User -> households \cup {NoHousehold}],
         DOMAIN invites' \subseteq DOMAIN invites,
         \A i \in DOMAIN invites' : invites'[i].household = invites[i].household
  PROVE  TablesOK'
<1>1. DOMAIN members' = Household
  BY DEF TablesOK
<1>2. \A g \in Household : members'[g] = IF g = h THEN ns ELSE members[g]
  BY <1>1 DEF TablesOK
<1>3. \A k \in DOMAIN ns : ns[k] \in [user: User, role: Role] /\ h \in households
  <2>1. RowsIn(ns) \subseteq Row
    BY KeyedRows
  <2> QED BY <2>1 DEF RowsIn, Row
<1>4. ASSUME NEW g \in Household
      PROVE  Keyed(members'[g]) /\ \A k \in DOMAIN members'[g] : members'[g][k] \in [user: User, role: Role] /\ g \in households
  <2>1. CASE g = h
    BY <1>2, <1>3, <2>1
  <2>2. CASE g # h
    BY <1>2, <2>2 DEF TablesOK, TypeOK
  <2> QED BY <2>1, <2>2
<1>5. \A i \in DOMAIN invites' : i \in Invite /\ invites'[i].household \in households
  BY DEF TablesOK, TypeOK
<1> QED BY <1>1, <1>4, <1>5 DEF TablesOK, TypeOK

LEMMA DroppedTables ==
  ASSUME TablesOK, NEW h \in Household, Drop(h), now' = now
  PROVE  TablesOK'
<1>1. /\ DOMAIN members' = Household /\ members'[h] = <<>>
      /\ \A g \in Household \ {h} : members'[g] = members[g]
  BY DEF TablesOK, Drop
<1>2. Keyed(<<>>)
  BY DEF Keyed
<1>3. \A g \in Household : Keyed(members'[g])
  BY <1>1, <1>2 DEF TablesOK
<1>4. \A g \in Household : \A k \in DOMAIN members'[g] : members'[g][k] \in [user: User, role: Role] /\ g \in households'
  BY <1>1 DEF TablesOK, TypeOK, Drop
<1>5. \A i \in DOMAIN invites' : i \in Invite /\ invites'[i].household \in households'
  BY DEF TablesOK, TypeOK, Drop
<1>6. active' \in [User -> households' \cup {NoHousehold}]
  BY DEF TablesOK, Drop
<1> QED BY <1>1, <1>3, <1>4, <1>5, <1>6 DEF TablesOK, TypeOK, Drop

(* The row a statement of a removal leaves or promotes.                     *)
LEMMA SettledRows ==
  ASSUME TablesOK, JobsOK, NEW r \in Request, Settle(r), job[r].next # Nobody
  PROVE  LET h == job[r].h
             promote == job[r].role = "owner" /\ job[r].nextRole # "owner"
             ns == IF promote THEN Promoted(Left(r), job[r].next) ELSE Left(r)
         IN /\ members' = [members EXCEPT ![h] = ns] /\ Keyed(ns)
            /\ UNCHANGED <<households, invites, active, born, lost>>
            /\ h \in Household
            /\ MembersOf(ns) = MembersOf(Left(r))
<1>1. job[r].h \in Household
  BY DEF Settle, JobsOK, JobOK
<1>2. Keyed(Left(r))
  BY <1>1, LeftRows
<1>3. PICK p : p = Promoted(Left(r), job[r].next)
  OBVIOUS
<1>4. Keyed(p) /\ MembersOf(p) = MembersOf(Left(r))
  BY <1>2, <1>3, PromotedRows
<1> QED BY <1>1, <1>2, <1>3, <1>4 DEF Settle

LEMMA AcceptedRows ==
  ASSUME TablesOK, JobsOK, NEW r \in Request, AcceptInvite(r)
  PROVE  LET h == job[r].h
             ns == WithMember(members[h], job[r].on)
         IN /\ h \in households /\ h \in Household /\ job[r].on \in User
            /\ members' = [members EXCEPT ![h] = ns] /\ Keyed(ns)
            /\ RowsIn(ns) = Rows(h) \cup (IF job[r].on \in MembersOf(members[h]) THEN {}
                                          ELSE {[user |-> job[r].on, role |-> "member"]})
            /\ MembersOf(ns) = MembersOf(members[h]) \cup {job[r].on}
<1>1. job[r].pc = "accept" /\ members' = [members EXCEPT ![job[r].h] = WithMember(members[job[r].h], job[r].on)]
  BY DEF AcceptInvite
<1>2. job[r].h \in households /\ job[r].on \in User
  BY <1>1 DEF TablesOK, TypeOK, JobsOK, JobOK, OnUser
<1>3. job[r].h \in Household
  BY <1>2 DEF TablesOK, TypeOK
<1>4. PICK ms, u, ns : ms = members[job[r].h] /\ u = job[r].on /\ ns = WithMember(ms, u)
  OBVIOUS
<1>5. Keyed(ms)
  BY <1>3, <1>4, RowsTyped
<1>6. /\ Keyed(ns)
      /\ RowsIn(ns) = RowsIn(ms) \cup (IF u \in MembersOf(ms) THEN {} ELSE {[user |-> u, role |-> "member"]})
  BY <1>2, <1>4, <1>5, WithRows
<1>7. ASSUME NEW v PROVE v \in MembersOf(ns) <=> v \in MembersOf(ms) \cup {u}
  <2>1. CASE u \in MembersOf(ms)
    BY <1>6, <2>1, RowsAreOf
  <2>2. CASE u \notin MembersOf(ms)
    <3>1. PICK m : m = [user |-> u, role |-> "member"]
      OBVIOUS
    <3>2. m.user = u /\ RowsIn(ns) = RowsIn(ms) \cup {m}
      BY <1>6, <2>2, <3>1
    <3> QED BY <3>2, RowsAreOf
  <2> QED BY <2>1, <2>2
<1>8. MembersOf(ns) = MembersOf(ms) \cup {u}
  BY <1>7
<1> QED BY <1>1, <1>2, <1>3, <1>4, <1>6, <1>8 DEF Rows

LEMMA ActTables ==
  ASSUME IInv, TablesOK, JobsOK, NEW r \in Request, Act(r)
  PROVE  TablesOK' /\ born \subseteq born'
<1>h. job[r].pc # "idle" => job[r].h \in Household
  BY DEF JobsOK, JobOK
<1>1. ASSUME UNCHANGED <<now, tables>>
      PROVE  TablesOK' /\ born \subseteq born'
  BY <1>1 DEF TablesOK, TypeOK, tables
<1>2. CASE DeleteHousehold(r)
  BY <1>2, <1>h, DroppedTables DEF DeleteHousehold, Drop
<1>3. ASSUME UNCHANGED <<now, households, members, invites, born>>, active' \in [User -> households \cup {NoHousehold}]
      PROVE  TablesOK' /\ born \subseteq born'
  BY <1>3 DEF TablesOK, TypeOK
<1>4. CASE SetActive(r)
  BY <1>3, <1>4 DEF SetActive, TablesOK
<1>5. CASE CreateInvite(r)
  <2>1. \A i \in DOMAIN invites' : i \in Invite /\ invites'[i].household \in households
    BY <1>5 DEF CreateInvite, TablesOK, TypeOK
  <2> QED BY <1>5, <2>1 DEF CreateInvite, TablesOK, TypeOK
<1>6. CASE RevokeInvite(r)
  <2>1. \A i \in DOMAIN invites' : i \in Invite /\ invites'[i].household \in households
    BY <1>6 DEF RevokeInvite, TablesOK, TypeOK
  <2> QED BY <1>6, <2>1 DEF RevokeInvite, TablesOK, TypeOK
<1>7. CASE AcceptInvite(r)
  <2>1. UNCHANGED <<now, households, born>> /\ DOMAIN invites' = DOMAIN invites
    BY <1>7 DEF AcceptInvite
  <2>2. \A i \in DOMAIN invites' : invites'[i].household = invites[i].household
    BY <1>7 DEF AcceptInvite
  <2>3. active' \in [User -> households \cup {NoHousehold}]
    BY <1>7, AcceptedRows DEF AcceptInvite, TablesOK
  <2>4. job[r].h \in Household /\ job[r].h \in households
    BY <1>7, AcceptedRows
  <2>5. PICK ns : ns = WithMember(members[job[r].h], job[r].on)
    OBVIOUS
  <2>6. members' = [members EXCEPT ![job[r].h] = ns] /\ Keyed(ns)
    BY <1>7, <2>5, AcceptedRows
  <2> QED BY <2>1, <2>2, <2>3, <2>4, <2>6, MembersReplaced
<1>8. CASE ReadRole(r) \/ DeleteMember(r) \/ Look(r) \/ FindOther(r)
  BY <1>1, <1>8 DEF ReadRole, DeleteMember, Look, FindOther
<1>9. CASE Settle(r)
  <2>1. CASE job[r].next = Nobody
    BY <1>9, <1>h, <2>1, DroppedTables DEF Settle, Drop
  <2>2. CASE job[r].next # Nobody
    <3>1. job[r].h \in Household /\ UNCHANGED <<now, households, invites, active, born>>
      BY <1>9, <1>h, <2>2 DEF Settle
    <3>2. PICK ns : ns = IF job[r].role = "owner" /\ job[r].nextRole # "owner" THEN Promoted(Left(r), job[r].next) ELSE Left(r)
      OBVIOUS
    <3>3. members' = [members EXCEPT ![job[r].h] = ns] /\ Keyed(ns) /\ MembersOf(ns) = MembersOf(Left(r))
      BY <1>9, <2>2, <3>2, SettledRows
    <3>4. RowsIn(ns) # {} => MembersOf(members[job[r].h]) # {}
      BY <3>1, <3>3, RowsAreOf, LeftRows
    <3>5. RowsIn(ns) # {} => job[r].h \in households
      BY <3>1, <3>4, RowsTyped DEF MembersOf
    <3> QED BY <3>1, <3>3, <3>5, MembersReplaced DEF TablesOK
  <2> QED BY <2>1, <2>2
<1>10. CASE Repoint(r)
  <2>1. active' \in [User -> households \cup {NoHousehold}]
    BY <1>10 DEF Repoint, TablesOK
  <2> QED BY <1>3, <1>10, <2>1 DEF Repoint
<1> QED BY <1>2, <1>4, <1>5, <1>6, <1>7, <1>8, <1>9, <1>10 DEF Act

LEMMA CreatedRows ==
  ASSUME TablesOK, NEW u \in User, NEW h \in Household \ born,
         members' = [members EXCEPT ![h] = <<[user |-> u, role |-> "owner"]>>]
  PROVE  /\ h \notin households /\ members[h] = <<>>
         /\ DOMAIN members' = Household /\ Keyed(members'[h])
         /\ RowsIn(members'[h]) = {[user |-> u, role |-> "owner"]}
         /\ \A g \in Household \ {h} : members'[g] = members[g]
<1>1. h \notin households /\ members[h] = <<>>
  BY RowsTyped DEF TablesOK
<1>2. PICK m : m = [user |-> u, role |-> "owner"]
  OBVIOUS
<1>3. m \in Row
  BY <1>2 DEF Row, Role
<1>4. members'[h] = <<m>> /\ DOMAIN members' = Household /\ \A g \in Household \ {h} : members'[g] = members[g]
  BY <1>2 DEF TablesOK
<1>5. Keyed(<<m>>) /\ RowsIn(<<m>>) = {m}
  BY <1>3 DEF Keyed, RowsIn
<1> QED BY <1>1, <1>2, <1>4, <1>5

LEMMA NextTables ==
  ASSUME IInv, TablesOK, JobsOK, [Next]_vars
  PROVE  TablesOK' /\ born \subseteq born'
<1>1. ASSUME UNCHANGED tables, now' \in 0 .. MaxClock
      PROVE  TablesOK' /\ born \subseteq born'
  BY <1>1 DEF TablesOK, TypeOK, tables
<1>2. CASE UNCHANGED vars
  BY <1>1, <1>2 DEF vars, TablesOK, TypeOK
<1>3. CASE Tick
  BY <1>1, <1>3, HouseholdsAssumption DEF Tick, TablesOK, TypeOK
<1>4. CASE CreateHousehold
  <2>1. PICK u \in User, h \in Household \ born :
          /\ born' = born \cup {h} /\ households' = households \cup {h}
          /\ members' = [members EXCEPT ![h] = <<[user |-> u, role |-> "owner"]>>]
          /\ active' = [active EXCEPT ![u] = h]
          /\ UNCHANGED <<now, invites>>
    BY <1>4 DEF CreateHousehold
  <2>2. ASSUME NEW g \in Household
        PROVE  Keyed(members'[g]) /\ \A k \in DOMAIN members'[g] : members'[g][k] \in [user: User, role: Role] /\ g \in households'
    <3>1. CASE g = h
      <4>1. Keyed(members'[g])
        BY <2>1, <3>1, CreatedRows
      <4>2. RowsIn(members'[g]) \subseteq Row
        BY <4>1, KeyedRows
      <4> QED BY <2>1, <3>1, <4>1, <4>2 DEF RowsIn, Row
    <3>2. CASE g # h
      BY <2>1, <3>2, CreatedRows DEF TablesOK, TypeOK
    <3> QED BY <3>1, <3>2
  <2>3. active' \in [User -> households' \cup {NoHousehold}] /\ DOMAIN members' = Household
    BY <2>1 DEF TablesOK
  <2> QED BY <2>1, <2>2, <2>3 DEF TablesOK, TypeOK
<1>5. ASSUME NEW r \in Request, Ask(r) \/ Fail(r)
      PROVE  TablesOK' /\ born \subseteq born'
  <2>1. UNCHANGED <<now, tables>>
    BY <1>5, Asked DEF Fail
  <2> QED BY <2>1, <1>1 DEF TablesOK, TypeOK
<1> QED BY <1>2, <1>3, <1>4, <1>5, ActTables DEF Next

------------------------------------------------------------------------------
(* What each request in flight is about stays as it was read.               *)
StillOpen(r) == \A q \in Request \ {r} : job[q].pc = "accept" =>
  job[q].invite \in DOMAIN invites' /\ invites'[job[q].invite].household = job[q].h

LEMMA JobsKept ==
  ASSUME JobsOK, NEW r \in Request, Moves(r), born \subseteq born', StillOpen(r), JobOK(job[r])'
  PROVE  JobsOK'
<1>1. ASSUME NEW q \in Request \ {r} PROVE JobOK(job[q])'
  <2>1. job'[q] = job[q] /\ JobOK(job[q])
    BY DEF Moves, JobsOK
  <2> QED BY <2>1 DEF JobOK, StillOpen
<1> QED BY <1>1 DEF JobsOK, Moves

LEMMA IdleOK == ASSUME NEW r \in Request, job'[r] = Idle PROVE JobOK(job[r])'
BY DEF Idle, JobOK, Pc, OnUser, Role

LEMMA InvitesSame ==
  ASSUME JobsOK, NEW r \in Request, invites' = invites
  PROVE  StillOpen(r)
BY DEF JobsOK, JobOK, StillOpen

(* A household is not deleted while an invite of it is being accepted.      *)
LEMMA DropWaits ==
  ASSUME JobsOK, NEW r \in Request, NEW h, NEW mine, ~DropBlocked(h, mine), Drop(h)
  PROVE  StillOpen(r)
<1> SUFFICES ASSUME NEW q \in Request, job[q].pc = "accept"
             PROVE  job[q].invite \in DOMAIN invites' /\ invites'[job[q].invite].household = job[q].h
  BY DEF StillOpen
<1>1. PICK i : i = job[q].invite
  OBVIOUS
<1>2. i \in DOMAIN invites /\ invites[i].household = job[q].h /\ Accepting(i) # {}
  BY <1>1 DEF JobsOK, JobOK, Accepting
<1>3. invites[i].household # h
  BY <1>2 DEF DropBlocked
<1>4. i \in DOMAIN invites' /\ invites'[i] = invites[i]
  BY <1>2, <1>3 DEF Drop
<1> QED BY <1>1, <1>2, <1>4

LEMMA AskJobs ==
  ASSUME TablesOK, JobsOK, NEW r \in Request, Ask(r)
  PROVE  JobsOK'
<1>1. PICK pc, u, h, i : Asks(r, pc, u, h, i)
  BY Asked
<1>2. Moves(r) /\ invites' = invites /\ born' = born
  BY Asked DEF tables
<1>3. h \in Household /\ h \in born
  BY <1>1 DEF Asks, TablesOK, TypeOK
<1>4. JobOK(job[r])'
  BY <1>1, <1>2, <1>3 DEF Asks, Job, JobOK, Pc, OnUser, Role
<1> QED BY <1>2, <1>4, InvitesSame, JobsKept

LEMMA ActJobs ==
  ASSUME IInv, TablesOK, JobsOK, NEW r \in Request, Act(r), born \subseteq born'
  PROVE  JobsOK'
<1>1. CASE DeleteHousehold(r)
  BY <1>1, DropWaits, Ended, IdleOK, JobsKept DEF DeleteHousehold
<1>2. CASE SetActive(r) \/ Repoint(r)
  BY <1>2, InvitesSame, Ended, IdleOK, JobsKept DEF SetActive, Repoint
<1>3. CASE CreateInvite(r)
  <2>1. StillOpen(r)
    BY <1>3 DEF CreateInvite, StillOpen, JobsOK, JobOK, IInv
  <2> QED BY <1>3, <2>1, Ended, IdleOK, JobsKept DEF CreateInvite
<1>4. CASE RevokeInvite(r)
  <2>1. \A q \in Request : job[q].pc = "accept" => job[q].invite # job[r].invite
    BY <1>4 DEF RevokeInvite, Accepting
  <2>2. StillOpen(r)
    BY <1>4, <2>1 DEF RevokeInvite, StillOpen, JobsOK, JobOK
  <2> QED BY <1>4, <2>2, Ended, IdleOK, JobsKept DEF RevokeInvite
<1>5. CASE AcceptInvite(r)
  <2>1. /\ DOMAIN invites' = DOMAIN invites
        /\ \A i \in DOMAIN invites : invites'[i].household = invites[i].household
    BY <1>5 DEF AcceptInvite
  <2>2. StillOpen(r)
    BY <2>1 DEF StillOpen, JobsOK, JobOK
  <2> QED BY <1>5, <2>2, Ended, IdleOK, JobsKept DEF AcceptInvite
<1>6. JobOK(job[r])
  BY DEF JobsOK
<1>7. ASSUME NEW pc, NEW role, NEW row, NEW next, NEW nextRole, Removal(r, pc, role, row, next, nextRole),
             job[r].pc \in {"role", "remove", "look", "settle", "other"},
             pc \in {"remove", "look", "settle", "other", "repoint"}, role \in Role, row \in BOOLEAN, nextRole \in Role,
             row => pc \in {"look", "settle"}, pc = "settle" => next \in User \cup {Nobody},
             pc = "repoint" => next \in (born \cap Household) \cup {NoHousehold}
      PROVE  JobOK(job[r])'
  <2>1. job[r].h \in Household /\ job[r].h \in born /\ job[r].on \in User
    BY <1>6, <1>7 DEF JobOK, OnUser
  <2> QED BY <1>7, <2>1, Continued DEF JobOK, Pc, OnUser
<1>8. CASE ReadRole(r)
  <2>1. JobOK(job[r])' /\ Moves(r)
    <3>1. CASE Stop(r)
      BY <3>1, Ended, IdleOK
    <3>2. CASE Removal(r, "remove", IF IsOwner(job[r].on, job[r].h) THEN "owner" ELSE "member", FALSE, Nobody, "member")
      BY <1>7, <1>8, <3>2, Continued DEF ReadRole, Role
    <3> QED BY <1>8, <3>1, <3>2 DEF ReadRole
  <2>2. invites' = invites
    BY <1>8 DEF ReadRole, tables
  <2> QED BY <2>1, <2>2, InvitesSame, JobsKept
<1>9. CASE DeleteMember(r)
  <2>1. IsMember(job[r].on, job[r].h) \in BOOLEAN
    BY DEF IsMember
  <2>2. JobOK(job[r])' /\ Moves(r)
    BY <1>6, <1>7, <1>9, <2>1, Continued DEF DeleteMember, JobOK, Role
  <2>3. invites' = invites
    BY <1>9 DEF DeleteMember, tables
  <2> QED BY <2>2, <2>3, InvitesSame, JobsKept
<1>10. CASE Look(r)
  <2>1. PICK next, nextRole : /\ next = (IF Left(r) = <<>> THEN Nobody ELSE Left(r)[1].user)
                              /\ nextRole = (IF Left(r) = <<>> THEN "member" ELSE Left(r)[1].role)
    OBVIOUS
  <2>2. Keyed(Left(r))
    BY <1>6, <1>10, LeftRows DEF Look, JobOK
  <2>3. next \in User \cup {Nobody} /\ nextRole \in Role
    BY <2>1, <2>2, KeyedRows DEF Row, Role
  <2>4. Removal(r, "settle", job[r].role, job[r].row, next, nextRole)
    BY <1>10, <2>1 DEF Look
  <2>5. JobOK(job[r])' /\ Moves(r)
    BY <1>6, <1>7, <1>10, <2>3, <2>4, Continued DEF Look, JobOK
  <2>6. invites' = invites
    BY <1>10 DEF Look, tables
  <2> QED BY <2>5, <2>6, InvitesSame, JobsKept
<1>11. CASE Settle(r)
  <2>0. Removal(r, "other", job[r].role, FALSE, Nobody, "member") /\ job[r].pc = "settle"
    BY <1>11 DEF Settle
  <2>1. JobOK(job[r])' /\ Moves(r)
    <3>1. job[r].role \in Role /\ "member" \in Role
      BY <1>6 DEF JobOK, Role
    <3> QED BY <1>7, <2>0, <3>1, Continued
  <2>2. StillOpen(r)
    BY <1>11, DropWaits, InvitesSame DEF Settle
  <2> QED BY <2>1, <2>2, JobsKept
<1>12. CASE FindOther(r)
  <2>1. PICK next : Removal(r, "repoint", job[r].role, FALSE, next, "member") /\ next \in households \cup {NoHousehold}
    BY <1>12 DEF FindOther
  <2>2. next \in (born \cap Household) \cup {NoHousehold}
    BY <2>1 DEF TablesOK, TypeOK
  <2>3. JobOK(job[r])' /\ Moves(r)
    <3>1. job[r].role \in Role /\ "member" \in Role /\ job[r].pc = "other"
      BY <1>6, <1>12 DEF FindOther, JobOK, Role
    <3> QED BY <1>7, <2>1, <2>2, <3>1, Continued
  <2>4. invites' = invites
    BY <1>12 DEF FindOther, tables
  <2> QED BY <2>3, <2>4, InvitesSame, JobsKept
<1> QED BY <1>1, <1>2, <1>3, <1>4, <1>5, <1>8, <1>9, <1>10, <1>11, <1>12 DEF Act

LEMMA NextJobs ==
  ASSUME IInv, TablesOK, JobsOK, [Next]_vars
  PROVE  JobsOK'
<1>0. born \subseteq born'
  BY NextTables
<1>1. ASSUME UNCHANGED <<invites, job>> PROVE JobsOK'
  BY <1>0, <1>1 DEF JobsOK, JobOK
<1>2. CASE UNCHANGED vars \/ Tick \/ CreateHousehold
  BY <1>1, <1>2 DEF vars, tables, Tick, CreateHousehold
<1>3. ASSUME NEW r \in Request, Fail(r) PROVE JobsOK'
  BY <1>0, <1>3, InvitesSame, Ended, IdleOK, JobsKept DEF Fail, tables
<1> QED BY <1>0, <1>2, <1>3, AskJobs, ActJobs DEF Next

------------------------------------------------------------------------------
(* How every step changes the requests: none, or one of them begins, moves  *)
(* on, or ends.                                                             *)
Begins(r) == job[r].pc = "idle" /\ \E pc, u, h, i : Asks(r, pc, u, h, i)
MovesOn(r) == \E pc, role, row, next, nextRole :
  /\ Removal(r, pc, role, row, next, nextRole)
  /\ <<job[r].pc, pc>> \in {<<"role", "remove">>, <<"remove", "look">>, <<"look", "settle">>,
                            <<"settle", "other">>, <<"other", "repoint">>}

LEMMA ActMoves ==
  ASSUME NEW r \in Request, Act(r) \/ Fail(r)
  PROVE  MovesOn(r) \/ Stop(r)
<1>1. ASSUME NEW pc, NEW role, NEW row, NEW next, NEW nextRole, Removal(r, pc, role, row, next, nextRole),
             <<job[r].pc, pc>> \in {<<"role", "remove">>, <<"remove", "look">>, <<"look", "settle">>,
                                    <<"settle", "other">>, <<"other", "repoint">>}
      PROVE  MovesOn(r)
  BY Zenon, <1>1 DEF MovesOn
<1>2. CASE ReadRole(r)
  BY <1>1, <1>2 DEF ReadRole
<1>3. CASE DeleteMember(r)
  BY <1>1, <1>3 DEF DeleteMember
<1>4. CASE Look(r)
  BY <1>1, <1>4 DEF Look
<1>5. CASE Settle(r)
  BY <1>1, <1>5 DEF Settle
<1>6. CASE FindOther(r)
  <2>1. PICK next : Removal(r, "repoint", job[r].role, FALSE, next, "member") /\ job[r].pc = "other"
    BY <1>6 DEF FindOther
  <2> QED BY <1>1, <2>1
<1> QED BY <1>2, <1>3, <1>4, <1>5, <1>6
        DEF Act, Fail, DeleteHousehold, SetActive, CreateInvite, RevokeInvite, AcceptInvite, Repoint

LEMMA JobMoves ==
  ASSUME TablesOK, JobsOK, [Next]_vars
  PROVE  /\ unsure \subseteq unsure' /\ raced \subseteq raced' /\ crossed \subseteq crossed'
         /\ \/ job' = job
            \/ \E r \in Request : Moves(r) /\ (Begins(r) \/ MovesOn(r) \/ job'[r] = Idle)
<1>1. CASE UNCHANGED vars \/ Tick \/ CreateHousehold
  BY <1>1 DEF vars, history, Tick, CreateHousehold
<1>2. ASSUME NEW r \in Request, Ask(r)
      PROVE  /\ unsure \subseteq unsure' /\ raced \subseteq raced' /\ crossed \subseteq crossed'
             /\ Moves(r) /\ Begins(r)
  BY <1>2, Asked DEF Begins, Asks, Meets
<1>3. ASSUME NEW r \in Request, Act(r) \/ Fail(r)
      PROVE  /\ unsure \subseteq unsure' /\ raced \subseteq raced' /\ crossed \subseteq crossed'
             /\ Moves(r) /\ (MovesOn(r) \/ job'[r] = Idle)
  <2>1. unsure \subseteq unsure' /\ raced \subseteq raced' /\ crossed \subseteq crossed'
    BY <1>3 DEF Act, Fail, history, DeleteHousehold, SetActive, CreateInvite, RevokeInvite, AcceptInvite,
                ReadRole, DeleteMember, Look, Settle, FindOther, Repoint
  <2>2. Moves(r) /\ (MovesOn(r) \/ job'[r] = Idle)
    <3>1. CASE Stop(r)
      BY <3>1, Ended
    <3>2. CASE MovesOn(r)
      BY <3>2, Continued DEF MovesOn
    <3> QED BY <1>3, <3>1, <3>2, ActMoves
  <2> QED BY <2>1, <2>2
<1> QED BY <1>1, <1>2, <1>3 DEF Next

(* A user nobody is unsure about keeps one request at most.                 *)
LEMMA NextOneRequest ==
  ASSUME TablesOK, JobsOK, OneRequest, [Next]_vars
  PROVE  OneRequest'
<1>1. unsure \subseteq unsure'
  BY JobMoves
<1>2. CASE job' = job
  BY <1>1, <1>2 DEF OneRequest, Sure
<1>3. ASSUME NEW r \in Request, Moves(r), Begins(r) \/ MovesOn(r) \/ job'[r] = Idle
      PROVE  OneRequest'
  <2>1. \/ job'[r].on \in {job[r].on, Nobody}
        \/ Meets(job'[r].on)
    <3>1. CASE Begins(r)
      BY <3>1 DEF Begins, Asks, Job
    <3>2. CASE MovesOn(r)
      BY <3>2, Continued DEF MovesOn
    <3>3. CASE job'[r] = Idle
      BY <3>3 DEF Idle
    <3> QED BY <1>3, <3>1, <3>2, <3>3
  <2>2. Nobody \notin User
    BY HouseholdsAssumption
  <2>3. \A u \in User \ unsure' : Sure(u)
    BY <1>1 DEF Sure
  <2>4. ASSUME NEW q \in Request \ {r}, job'[q].on \in User \ unsure', job'[q].on = job'[r].on
        PROVE  FALSE
    <3>1. job'[q] = job[q] /\ job'[r].on # Nobody
      BY <1>3, <2>2, <2>4 DEF Moves
    <3>2. CASE job'[r].on = job[r].on
      BY <2>3, <2>4, <3>1, <3>2 DEF OneRequest
    <3>3. CASE Meets(job'[r].on)
      <4>1. q \in About(job'[r].on)
        BY <2>4, <3>1 DEF About
      <4>2. job'[r].on \in unsure'
        BY <3>3, <4>1 DEF Meets
      <4> QED BY <2>4, <4>2
    <3> QED BY <2>1, <3>1, <3>2, <3>3
  <2>5. ASSUME NEW p \in Request \ {r}, NEW q \in Request \ {r}, job'[p].on \in User \ unsure', job'[p].on = job'[q].on
        PROVE  p = q
    BY <1>3, <2>3, <2>5 DEF Moves, OneRequest
  <2> QED BY <2>4, <2>5 DEF OneRequest, Sure
<1> QED BY <1>2, <1>3, JobMoves

------------------------------------------------------------------------------
(* What a step does to one household: nothing, deletes it, creates it, or   *)
(* is the commit of an acceptance or of a removal in it.                    *)
HouseholdSame(h) == members'[h] = members[h] /\ (h \in households' <=> h \in households)
HouseholdGone(h) == h \notin households' /\ members'[h] = <<>>
HouseholdNew(h)  ==
  /\ h \notin born /\ h \notin households /\ job' = job
  /\ \E u \in User : RowsIn(members'[h]) = {[user |-> u, role |-> "owner"]}
Joins(r, h)  == AcceptInvite(r) /\ h = job[r].h
Leaves(r, h) == Settle(r) /\ h = job[r].h /\ job[r].next # Nobody

LEMMA HouseholdMoves ==
  ASSUME TablesOK, JobsOK, [Next]_vars, NEW h \in Household
  PROVE  \/ HouseholdSame(h) \/ HouseholdGone(h) \/ HouseholdNew(h)
         \/ \E r \in Request : Joins(r, h) \/ Leaves(r, h)
<1>1. ASSUME UNCHANGED <<households, members>> PROVE HouseholdSame(h)
  BY <1>1 DEF HouseholdSame
<1>2. ASSUME NEW g, Drop(g) PROVE HouseholdSame(h) \/ HouseholdGone(h)
  <2>1. CASE g = h
    BY <1>2, <2>1 DEF Drop, HouseholdGone, TablesOK
  <2>2. CASE g # h
    BY <1>2, <2>2 DEF Drop, HouseholdSame, TablesOK
  <2> QED BY <2>1, <2>2
<1>3. CASE UNCHANGED vars \/ Tick
  BY <1>1, <1>3 DEF vars, tables, Tick
<1>4. CASE CreateHousehold
  <2>1. PICK u \in User, g \in Household \ born :
          /\ households' = households \cup {g} /\ job' = job
          /\ members' = [members EXCEPT ![g] = <<[user |-> u, role |-> "owner"]>>]
    BY <1>4 DEF CreateHousehold
  <2>2. CASE g = h
    BY <2>1, <2>2, CreatedRows DEF HouseholdNew
  <2>3. CASE g # h
    BY <2>1, <2>3, CreatedRows DEF HouseholdSame
  <2> QED BY <2>2, <2>3
<1>5. ASSUME NEW r \in Request, Ask(r) \/ Fail(r) PROVE HouseholdSame(h)
  BY <1>1, <1>5, Asked DEF Fail, tables
<1>6. ASSUME NEW r \in Request, Act(r)
      PROVE  HouseholdSame(h) \/ HouseholdGone(h) \/ Joins(r, h) \/ Leaves(r, h)
  <2>1. CASE DeleteHousehold(r)
    BY <1>2, <2>1 DEF DeleteHousehold
  <2>2. CASE AcceptInvite(r)
    <3>1. households' = households /\ (h # job[r].h => members'[h] = members[h])
      BY <2>2 DEF AcceptInvite, TablesOK
    <3> QED BY <2>2, <3>1 DEF Joins, HouseholdSame
  <2>3. CASE Settle(r)
    <3>1. CASE job[r].next = Nobody
      BY <1>2, <2>3, <3>1 DEF Settle
    <3>2. CASE job[r].next # Nobody
      <4>1. households' = households /\ (h # job[r].h => members'[h] = members[h])
        BY <2>3, <3>2 DEF Settle, TablesOK
      <4> QED BY <2>3, <3>2, <4>1 DEF Leaves, HouseholdSame
    <3> QED BY <3>1, <3>2
  <2>4. CASE SetActive(r) \/ CreateInvite(r) \/ RevokeInvite(r) \/ Repoint(r)
    BY <1>1, <2>4 DEF SetActive, CreateInvite, RevokeInvite, Repoint
  <2>5. CASE ReadRole(r) \/ DeleteMember(r) \/ Look(r) \/ FindOther(r)
    BY <1>1, <2>5 DEF ReadRole, DeleteMember, Look, FindOther, tables
  <2> QED BY <1>6, <2>1, <2>2, <2>3, <2>4, <2>5 DEF Act
<1> QED BY <1>3, <1>4, <1>5, <1>6 DEF Next

LEMMA Joined ==
  ASSUME TablesOK, JobsOK, NEW r \in Request, NEW h, Joins(r, h)
  PROVE  /\ h \in households /\ h \in Household /\ households' = households /\ job[r].on \in User
         /\ Keyed(members'[h])
         /\ RowsIn(members'[h]) = Rows(h) \cup (IF job[r].on \in MembersOf(members[h]) THEN {}
                                                ELSE {[user |-> job[r].on, role |-> "member"]})
         /\ MembersOf(members'[h]) = MembersOf(members[h]) \cup {job[r].on}
         /\ Moves(r) /\ job'[r] = Idle /\ job[r].pc = "accept"
<1>1. AcceptInvite(r) /\ h = job[r].h
  BY DEF Joins
<1>2. PICK ns : ns = WithMember(members[h], job[r].on)
  OBVIOUS
<1>3. /\ h \in households /\ h \in Household /\ job[r].on \in User
      /\ members' = [members EXCEPT ![h] = ns] /\ Keyed(ns)
      /\ RowsIn(ns) = Rows(h) \cup (IF job[r].on \in MembersOf(members[h]) THEN {}
                                    ELSE {[user |-> job[r].on, role |-> "member"]})
      /\ MembersOf(ns) = MembersOf(members[h]) \cup {job[r].on}
  BY <1>1, <1>2, AcceptedRows
<1>4. members'[h] = ns
  BY <1>3 DEF TablesOK
<1>5. households' = households /\ Moves(r) /\ job'[r] = Idle /\ job[r].pc = "accept"
  BY <1>1, Ended DEF AcceptInvite
<1> QED BY <1>3, <1>4, <1>5

LEMMA Departed ==
  ASSUME TablesOK, JobsOK, NEW r \in Request, NEW h, Leaves(r, h)
  PROVE  LET promote == job[r].role = "owner" /\ job[r].nextRole # "owner"
         IN /\ h \in Household /\ households' = households
            /\ members'[h] = IF promote THEN Promoted(Left(r), job[r].next) ELSE Left(r)
            /\ Keyed(members'[h])
            /\ MembersOf(members'[h]) = {u \in MembersOf(members[h]) : job[r].row => u # job[r].on}
            /\ Moves(r) /\ job[r].pc = "settle" /\ job'[r].pc = "other"
            /\ job'[r].on = job[r].on /\ job'[r].h = h
            /\ UNCHANGED active
<1>1. Settle(r) /\ h = job[r].h /\ job[r].next # Nobody
  BY DEF Leaves
<1>2. PICK ns : ns = IF job[r].role = "owner" /\ job[r].nextRole # "owner" THEN Promoted(Left(r), job[r].next) ELSE Left(r)
  OBVIOUS
<1>3. members' = [members EXCEPT ![h] = ns] /\ Keyed(ns) /\ MembersOf(ns) = MembersOf(Left(r)) /\ h \in Household
      /\ UNCHANGED <<households, active>>
  BY <1>1, <1>2, SettledRows
<1>4. members'[h] = ns
  BY <1>3 DEF TablesOK
<1>5. MembersOf(Left(r)) = {u \in MembersOf(members[h]) : job[r].row => u # job[r].on}
  BY <1>1, <1>3, LeftRows
<1>6. Moves(r) /\ job[r].pc = "settle" /\ job'[r].pc = "other" /\ job'[r].on = job[r].on /\ job'[r].h = h
  <2>1. PICK role, row : /\ role = job[r].role /\ row = FALSE /\ job[r].pc = "settle"
                          /\ Removal(r, "other", role, row, Nobody, "member")
    BY <1>1 DEF Settle
  <2> QED BY <1>1, <2>1, Continued
<1> QED BY <1>2, <1>3, <1>4, <1>5, <1>6

(* Only a removal of theirs takes a household from a user, while there is   *)
(* that household.                                                          *)
LEMMA TheirsKept ==
  ASSUME TablesOK, JobsOK, [Next]_vars, NEW u, NEW h \in Household, h \in born, Theirs(u, h),
         \A r \in Request : job[r].pc = "settle" => job[r].on # u
  PROVE  Theirs(u, h)'
<1> SUFFICES u \in MembersOf(members'[h]) \/ h \notin households'
  BY DEF Theirs, IsMember
<1>1. u \in MembersOf(members[h]) \/ h \notin households
  BY DEF Theirs, IsMember
<1>2. CASE HouseholdSame(h) \/ HouseholdGone(h)
  BY <1>1, <1>2 DEF HouseholdSame, HouseholdGone
<1>3. ~HouseholdNew(h)
  BY DEF HouseholdNew
<1>4. ASSUME NEW r \in Request, Joins(r, h) PROVE u \in MembersOf(members'[h]) \/ h \notin households'
  BY <1>1, <1>4, Joined
<1>5. ASSUME NEW r \in Request, Leaves(r, h) PROVE u \in MembersOf(members'[h]) \/ h \notin households'
  <2>1. job[r].on # u
    BY <1>5 DEF Leaves, Settle
  <2> QED BY <1>1, <1>5, <2>1, Departed
<1> QED BY <1>2, <1>3, <1>4, <1>5, HouseholdMoves

LEMMA Repointing ==
  ASSUME JobsOK, NEW r \in Request, Act(r) \/ Fail(r), job'[r].pc \in {"activate", "repoint"}
  PROVE  FindOther(r)
<1>1. ~Stop(r)
  BY Ended DEF Idle
<1>2. job[r].pc = "other"
  BY <1>1, ActMoves, Continued DEF MovesOn
<1> QED BY <1>1, <1>2 DEF Act, Fail, DeleteHousehold, SetActive, CreateInvite, RevokeInvite, AcceptInvite,
                        ReadRole, DeleteMember, Look, Settle, Repoint

(* The household a request will make active stays its user's, or is gone.   *)
LEMMA NextTheirs ==
  ASSUME TablesOK, JobsOK, OneRequest, TheirsToHave, [Next]_vars
  PROVE  TheirsToHave'
<1> SUFFICES ASSUME NEW r \in Request, job'[r].on \in User \ unsure'
             PROVE  /\ job'[r].pc = "activate" => Theirs(job[r].on, job[r].h)'
                    /\ job'[r].pc = "repoint" => job'[r].next = NoHousehold \/ Theirs(job[r].on, job[r].next)'
  BY DEF TheirsToHave, Sure
<1>1. CASE job'[r] = job[r]
  <2>1. Sure(job[r].on)
    BY <1>1, JobMoves DEF Sure
  <2>2. job[r].pc \in {"activate", "repoint"} => \A q \in Request : job[q].pc = "settle" => job[q].on # job[r].on
    BY <2>1 DEF OneRequest
  <2>3. JobOK(job[r])
    BY DEF JobsOK
  <2>4. ASSUME NEW u, NEW h, u = job[r].on, h \in Household, h \in born, Theirs(u, h), job[r].pc \in {"activate", "repoint"}
        PROVE  Theirs(u, h)'
    BY <2>2, <2>4, TheirsKept
  <2>5. ASSUME NEW u, NEW h, u = job[r].on, h = job[r].h, job[r].pc = "activate" PROVE Theirs(u, h)'
    BY <2>1, <2>3, <2>4, <2>5 DEF TheirsToHave, JobOK
  <2>6. ASSUME NEW u, NEW h, u = job[r].on, h = job[r].next, job[r].pc = "repoint", h # NoHousehold PROVE Theirs(u, h)'
    BY <2>1, <2>3, <2>4, <2>6 DEF TheirsToHave, JobOK
  <2> QED BY <1>1, <2>5, <2>6 DEF Theirs, IsMember
<1>2. CASE Ask(r)
  <2>1. PICK pc, u, h, i : Asks(r, pc, u, h, i)
    BY <1>2, Asked
  <2>2. UNCHANGED <<members, households>>
    BY <1>2, Asked DEF tables
  <2> QED BY <2>1, <2>2 DEF Asks, Job, Theirs, IsMember
<1>3. CASE Act(r) \/ Fail(r)
  <2>1. CASE job'[r].pc \notin {"activate", "repoint"}
    BY <2>1
  <2>2. CASE job'[r].pc \in {"activate", "repoint"}
    <3>1. FindOther(r)
      BY <1>3, <2>2, Repointing
    <3>2. PICK next \in households \cup {NoHousehold} :
            /\ next # NoHousehold => IsMember(job[r].on, next)
            /\ Removal(r, "repoint", job[r].role, FALSE, next, "member")
            /\ UNCHANGED <<members, households>>
      BY <3>1 DEF FindOther, tables
    <3>3. job'[r].pc = "repoint" /\ job'[r].on = job[r].on /\ job'[r].next = next
      <4>1. PICK role, row, nextRole : Removal(r, "repoint", role, row, next, nextRole)
        BY Zenon, <3>2
      <4> QED BY <4>1, Continued
    <3> QED BY <3>2, <3>3 DEF Theirs, IsMember
  <2> QED BY <2>1, <2>2
<1>4. job'[r] = job[r] \/ Ask(r) \/ Act(r) \/ Fail(r)
  <2>1. ASSUME NEW q \in Request, q # r, Ask(q) \/ Act(q) \/ Fail(q) PROVE job'[r] = job[r]
    <3>1. Moves(q)
      BY <2>1, Asked, ActMoves, Continued, Ended DEF MovesOn
    <3> QED BY <2>1, <3>1 DEF Moves
  <2>2. CASE UNCHANGED vars \/ CreateHousehold \/ Tick
    BY <2>2 DEF vars, CreateHousehold, Tick
  <2> QED BY <2>1, <2>2 DEF Next
<1> QED BY <1>1, <1>2, <1>3, <1>4

------------------------------------------------------------------------------
(* What a user has active.                                                  *)
HasCause(u) ==
  \/ active[u] = NoHousehold \/ IsMember(u, active[u]) \/ u \in unsure
  \/ \E r \in Request : job[r].pc \in {"other", "repoint"} /\ job[r].on = u /\ job[r].h = active[u]

(* A request that has yet to repoint its user does so, or fails.            *)
LEMMA StillToRepoint ==
  ASSUME TablesOK, JobsOK, [Next]_vars, NEW r \in Request, job[r].pc \in {"other", "repoint"}, job[r].on \notin unsure'
  PROVE  \/ job'[r].pc \in {"other", "repoint"} /\ job'[r].on = job[r].on /\ job'[r].h = job[r].h
         \/ Repoint(r)
<1>1. CASE UNCHANGED vars \/ CreateHousehold \/ Tick
  BY <1>1 DEF vars, CreateHousehold, Tick
<1>2. ASSUME NEW q \in Request, q # r, Ask(q) \/ Act(q) \/ Fail(q) PROVE job'[r] = job[r]
  <2>1. Moves(q)
    BY <1>2, Asked, ActMoves, Continued, Ended DEF MovesOn
  <2> QED BY <1>2, <2>1 DEF Moves
<1>3. ~Ask(r)
  BY Asked
<1>4. ~Fail(r)
  BY DEF Fail
<1>5. CASE Act(r)
  <2>1. FindOther(r) \/ Repoint(r)
    BY <1>5 DEF Act, DeleteHousehold, SetActive, CreateInvite, RevokeInvite, AcceptInvite,
                ReadRole, DeleteMember, Look, Settle
  <2>2. CASE FindOther(r)
    <3>1. PICK next, role, row : /\ role = job[r].role /\ row = FALSE
                                 /\ Removal(r, "repoint", role, row, next, "member")
      BY <2>2 DEF FindOther
    <3>2. job'[r].pc = "repoint" /\ job'[r].on = job[r].on /\ job'[r].h = job[r].h
      BY <3>1, Continued
    <3> QED BY <3>2
  <2> QED BY <2>1, <2>2
<1> QED BY <1>1, <1>2, <1>3, <1>4, <1>5 DEF Next

(* A step that leaves what the user has active alone.                       *)
LEMMA CauseKept ==
  ASSUME IInv, TablesOK, JobsOK, [Next]_vars, NEW u \in User, HasCause(u), active'[u] = active[u],
         \A r \in Request : Repoint(r) => job[r].on # u \/ job[r].h # active[u]
  PROVE  HasCause(u)'
<1>1. PICK h : h = active[u]
  OBVIOUS
<1>s. unsure \subseteq unsure'
  BY JobMoves
<1> SUFFICES ASSUME h # NoHousehold, u \notin unsure'
             PROVE  \/ u \in MembersOf(members'[h])
                    \/ \E r \in Request : job'[r].pc \in {"other", "repoint"} /\ job'[r].on = u /\ job'[r].h = h
  BY <1>1 DEF HasCause, IsMember
<1>2. h \in Household /\ h \in born /\ h \in households /\ h \in households'
  <2>1. h \in households
    BY <1>1 DEF TablesOK
  <2>2. active'[u] \in households' \cup {NoHousehold}
    BY NextTables DEF TablesOK
  <2> QED BY <1>1, <2>1, <2>2 DEF TablesOK, TypeOK
<1>3. CASE \E r \in Request : job[r].pc \in {"other", "repoint"} /\ job[r].on = u /\ job[r].h = h
  BY <1>1, <1>3, StillToRepoint
<1>4. CASE u \in MembersOf(members[h])
  <2>1. CASE HouseholdSame(h) \/ HouseholdGone(h) \/ HouseholdNew(h)
    BY <1>2, <1>4, <2>1 DEF HouseholdSame, HouseholdGone, HouseholdNew
  <2>2. ASSUME NEW r \in Request, Joins(r, h) PROVE u \in MembersOf(members'[h])
    BY <1>4, <2>2, Joined
  <2>3. ASSUME NEW r \in Request, Leaves(r, h)
        PROVE  \/ u \in MembersOf(members'[h])
               \/ job'[r].pc = "other" /\ job'[r].on = u /\ job'[r].h = h
    <3>1. /\ MembersOf(members'[h]) = {v \in MembersOf(members[h]) : job[r].row => v # job[r].on}
          /\ job'[r].pc = "other" /\ job'[r].on = job[r].on /\ job'[r].h = h
      BY <2>3, Departed
    <3> QED BY <1>4, <3>1
  <2>4. \/ HouseholdSame(h) \/ HouseholdGone(h) \/ HouseholdNew(h)
        \/ \E r \in Request : Joins(r, h) \/ Leaves(r, h)
    BY Zenon, <1>2, HouseholdMoves
  <2> QED BY <2>1, <2>2, <2>3, <2>4
<1> QED BY <1>1, <1>s, <1>3, <1>4 DEF HasCause, IsMember

(* A step that gives a user something else: a household of theirs.          *)
LEMMA NextActive ==
  ASSUME IInv, TablesOK, JobsOK, TheirsToHave, ActiveHasACause, [Next]_vars
  PROVE  ActiveHasACause'
<1> SUFFICES ASSUME NEW u \in User PROVE HasCause(u)'
  BY DEF ActiveHasACause, HasCause
<1>1. HasCause(u)
  BY DEF ActiveHasACause, HasCause
<1>2. unsure \subseteq unsure' /\ active'[u] \in households' \cup {NoHousehold} /\ active[u] \in households \cup {NoHousehold}
  BY JobMoves, NextTables DEF TablesOK
<1>3. ASSUME NEW r \in Request, Repoint(r), job[r].on = u, job[r].h = active[u]
      PROVE  HasCause(u)'
  <2>1. active'[u] = job[r].next /\ members' = members /\ households' = households
    BY <1>3 DEF Repoint, TablesOK
  <2>2. Sure(u) => job[r].next = NoHousehold \/ Theirs(u, job[r].next)
    BY <1>3 DEF Repoint, TheirsToHave
  <2> QED BY <1>2, <2>1, <2>2 DEF HasCause, Theirs, IsMember, Sure
<1>4. CASE active'[u] = active[u]
  BY <1>1, <1>3, <1>4, CauseKept
<1>5. ASSUME active'[u] # active[u], active'[u] # NoHousehold
      PROVE  HasCause(u)'
  <2>1. CASE UNCHANGED vars \/ Tick
    BY <1>5, <2>1 DEF vars, tables, Tick
  <2>2. CASE CreateHousehold
    <3>1. PICK v \in User, h \in Household \ born :
            /\ members' = [members EXCEPT ![h] = <<[user |-> v, role |-> "owner"]>>]
            /\ active' = [active EXCEPT ![v] = h]
      BY <2>2 DEF CreateHousehold
    <3>2. v = u /\ active'[u] = h
      BY <1>5, <3>1 DEF TablesOK
    <3>3. RowsIn(members'[h]) = {[user |-> u, role |-> "owner"]}
      BY <3>1, <3>2, CreatedRows
    <3>4. PICK m : m = [user |-> u, role |-> "owner"]
      OBVIOUS
    <3>5. m \in RowsIn(members'[h]) /\ m.user = u
      BY <3>3, <3>4
    <3>6. u \in MembersOf(members'[h])
      BY <3>5, RowsAreOf
    <3> QED BY <3>2, <3>6 DEF HasCause, IsMember
  <2>3. ASSUME NEW r \in Request, Ask(r) \/ Fail(r) PROVE FALSE
    BY <1>5, <2>3, Asked DEF Fail, tables
  <2>4. ASSUME NEW r \in Request, Act(r) PROVE HasCause(u)'
    <3>1. ASSUME NEW h, Drop(h) PROVE FALSE
      BY <1>5, <3>1 DEF Drop
    <3>2. CASE SetActive(r)
      <4>1. /\ job[r].on = u /\ active'[u] = job[r].h /\ job[r].h \in households /\ job[r].pc = "activate"
            /\ UNCHANGED <<members, households>>
        BY <1>5, <3>2 DEF SetActive, TablesOK
      <4>2. Sure(u) => Theirs(u, job[r].h)
        BY <4>1 DEF TheirsToHave
      <4> QED BY <1>2, <4>1, <4>2 DEF HasCause, Theirs, IsMember, Sure
    <3>3. CASE AcceptInvite(r)
      <4>1. job[r].on = u /\ active'[u] = job[r].h
        BY <1>5, <3>3 DEF AcceptInvite, TablesOK
      <4>2. u \in MembersOf(members'[job[r].h])
        BY <3>3, <4>1, Joined DEF Joins
      <4> QED BY <4>1, <4>2 DEF HasCause, IsMember
    <3>4. CASE Repoint(r)
      <4>1. job[r].on = u /\ job[r].h = active[u]
        BY <1>5, <3>4 DEF Repoint, TablesOK
      <4> QED BY <1>3, <3>4, <4>1
    <3>5. ~DeleteHousehold(r) /\ ~Settle(r)
      BY <1>5, <3>1 DEF DeleteHousehold, Settle
    <3>6. ~CreateInvite(r) /\ ~RevokeInvite(r) /\ ~ReadRole(r) /\ ~DeleteMember(r) /\ ~Look(r) /\ ~FindOther(r)
      BY <1>5 DEF CreateInvite, RevokeInvite, ReadRole, DeleteMember, Look, FindOther, tables
    <3> QED BY <2>4, <3>2, <3>3, <3>4, <3>5, <3>6 DEF Act
  <2> QED BY <2>1, <2>2, <2>3, <2>4 DEF Next
<1>6. CASE active'[u] = NoHousehold
  BY <1>6 DEF HasCause
<1> QED BY <1>4, <1>5, <1>6

------------------------------------------------------------------------------
(* Who is left where a removal saw nobody.                                  *)
LEMMA Turn ==
  ASSUME TablesOK, JobsOK, [Next]_vars, NEW r \in Request
  PROVE  job'[r] = job[r] \/ Ask(r) \/ Act(r) \/ Fail(r)
<1>1. ASSUME NEW q \in Request, q # r, Ask(q) \/ Act(q) \/ Fail(q) PROVE job'[r] = job[r]
  <2>1. Moves(q)
    BY <1>1, Asked, ActMoves, Continued, Ended DEF MovesOn
  <2> QED BY <1>1, <2>1 DEF Moves
<1>2. CASE UNCHANGED vars \/ CreateHousehold \/ Tick
  BY <1>2 DEF vars, CreateHousehold, Tick
<1> QED BY <1>1, <1>2 DEF Next

(* A removal inside its transaction came there by a read.                   *)
LEMMA RemovalMoves ==
  ASSUME TablesOK, JobsOK, [Next]_vars, NEW r \in Request, job'[r].pc \in {"remove", "look", "settle"}
  PROVE  /\ job'[r].on = job[r].on /\ job'[r].h = job[r].h
         /\ \/ job'[r] = job[r]
            \/ ReadRole(r) /\ job'[r].pc = "remove"
            \/ DeleteMember(r) /\ job'[r].pc = "look"
            \/ Look(r) /\ job'[r].pc = "settle"
<1>1. CASE job'[r] = job[r]
  BY <1>1
<1>2. ~Ask(r)
  <2> SUFFICES ASSUME Ask(r) PROVE FALSE
    OBVIOUS
  <2>1. PICK pc, u, h, i : Asks(r, pc, u, h, i)
    BY Asked
  <2> QED BY <2>1 DEF Asks, Job
<1>3. CASE Act(r) \/ Fail(r)
  <2>1. ~Stop(r)
    BY Ended DEF Idle
  <2>2. PICK pc, role, row, next, nextRole :
          /\ Removal(r, pc, role, row, next, nextRole)
          /\ <<job[r].pc, pc>> \in {<<"role", "remove">>, <<"remove", "look">>, <<"look", "settle">>,
                                    <<"settle", "other">>, <<"other", "repoint">>}
    BY <1>3, <2>1, ActMoves DEF MovesOn
  <2>3. job'[r].pc = pc /\ job'[r].on = job[r].on /\ job'[r].h = job[r].h
    BY <2>2, Continued
  <2>4. <<job[r].pc, pc>> \in {<<"role", "remove">>, <<"remove", "look">>, <<"look", "settle">>}
    BY <2>2, <2>3
  <2>5. Act(r)
    BY <1>3, <2>1 DEF Fail
  <2> QED BY <2>3, <2>4, <2>5 DEF Act, DeleteHousehold, SetActive, CreateInvite, RevokeInvite, AcceptInvite,
                                  ReadRole, DeleteMember, Look, Settle, FindOther, Repoint
<1> QED BY <1>1, <1>2, <1>3, Turn

(* Whom a removal would leave, for rows and a removal given.                *)
LEMMA LeavesBehind ==
  ASSUME NEW ms, Keyed(ms), NEW u, NEW row
  PROVE  MembersOf(IF row THEN OthersThan(ms, u) ELSE ms) = {v \in MembersOf(ms) : row => v # u}
<1>1. CASE row
  <2>1. PICK ns : ns = OthersThan(ms, u)
    OBVIOUS
  <2>2. RowsIn(ns) = {m \in RowsIn(ms) : m.user # u}
    BY <2>1, OthersRows
  <2>3. \A v : v \in MembersOf(ns) <=> v \in MembersOf(ms) /\ v # u
    BY <2>2, RowsAreOf
  <2> QED BY <1>1, <2>1, <2>3
<1>2. CASE ~row
  BY <1>2
<1> QED BY <1>1, <1>2

LEMMA NextLatecomers ==
  ASSUME IInv, TablesOK, JobsOK, LatecomersRaced, [Next]_vars
  PROVE  LatecomersRaced'
<1>0. raced \subseteq raced' /\ TablesOK' /\ JobsOK'
  BY JobMoves, NextTables, NextJobs
<1>1. lost' \subseteq raced'
  <2>1. CASE lost' = lost
    BY <1>0, <2>1 DEF LatecomersRaced
  <2>2. ASSUME NEW r \in Request, Settle(r) PROVE lost' \subseteq raced
    <3>1. CASE job[r].next = Nobody
      <4>1. job[r].pc = "settle" /\ lost' = lost \cup {<<job[r].h, u>> : u \in MembersOf(Left(r))}
        BY <2>2, <3>1 DEF Settle
      <4> QED BY <3>1, <4>1 DEF LatecomersRaced
    <3>2. CASE job[r].next # Nobody
      BY <2>2, <3>2 DEF Settle, LatecomersRaced
    <3> QED BY <3>1, <3>2
  <2>3. CASE UNCHANGED vars \/ Tick \/ CreateHousehold
    BY <2>1, <2>3 DEF vars, history, Tick, CreateHousehold
  <2>4. ASSUME NEW r \in Request, Ask(r) \/ Fail(r) PROVE lost' = lost
    BY <2>4, Asked DEF Fail
  <2>5. ASSUME NEW r \in Request, Act(r), ~Settle(r) PROVE lost' = lost
    BY <2>5 DEF Act, history, DeleteHousehold, SetActive, CreateInvite, RevokeInvite, AcceptInvite,
                ReadRole, DeleteMember, Look, FindOther, Repoint
  <2> QED BY <1>0, <2>1, <2>2, <2>3, <2>4, <2>5 DEF Next
<1>2. ASSUME NEW r \in Request, job'[r].pc = "settle", job'[r].next = Nobody, NEW u \in MembersOf(Left(r))'
      PROVE  <<job'[r].h, u>> \in raced'
  <2>1. job'[r].h = job[r].h /\ job'[r].on = job[r].on /\ (job'[r] = job[r] \/ Look(r))
    BY <1>2, RemovalMoves
  <2>2. PICK h : h = job[r].h
    OBVIOUS
  <2>3. h \in Household /\ h \in born
    <3>1. job[r].pc # "idle" /\ JobOK(job[r])
      BY <1>2, <2>1 DEF Look, JobsOK
    <3> QED BY <2>2, <3>1 DEF JobOK
  <2>4. Keyed(members[h]) /\ Keyed(members'[h])
    BY <1>0, <2>3 DEF TablesOK
  <2>5. u \in MembersOf(members'[h]) /\ (job'[r].row => u # job[r].on)
    <3>1. u \in MembersOf(IF job'[r].row THEN OthersThan(members'[h], job[r].on) ELSE members'[h])
      BY <1>2, <2>1, <2>2 DEF Left
    <3> QED BY <2>4, <3>1, LeavesBehind
  <2>6. CASE job'[r] = job[r]
    <3>1. u \in MembersOf(members[h]) => <<h, u>> \in raced
      <4>1. u \in MembersOf(members[h]) => u \in MembersOf(Left(r))
        BY <2>2, <2>3, <2>5, <2>6, LeftRows
      <4> QED BY <1>2, <2>2, <2>6, <4>1 DEF LatecomersRaced
    <3>2. CASE HouseholdSame(h) \/ HouseholdGone(h) \/ HouseholdNew(h)
      <4>1. u \in MembersOf(members[h])
        BY <2>3, <2>5, <3>2 DEF HouseholdSame, HouseholdGone, HouseholdNew, MembersOf
      <4> QED BY <1>0, <2>1, <2>2, <3>1, <4>1
    <3>3. ASSUME NEW q \in Request, Joins(q, h) PROVE <<h, u>> \in raced'
      <4>1. AcceptInvite(q) /\ h = job[q].h
        BY <3>3 DEF Joins
      <4>2. r \in Removing(h) /\ job[r].pc = "settle" /\ job[r].next = Nobody
        BY <1>2, <2>2, <2>6 DEF Removing
      <4>3. <<h, job[q].on>> \in raced'
        BY <4>1, <4>2 DEF AcceptInvite
      <4>4. u \in MembersOf(members[h]) \cup {job[q].on}
        BY <2>5, <3>3, Joined
      <4> QED BY <1>0, <3>1, <4>3, <4>4
    <3>4. ASSUME NEW q \in Request, Leaves(q, h) PROVE <<h, u>> \in raced'
      <4>1. MembersOf(members'[h]) \subseteq MembersOf(members[h])
        <5>1. MembersOf(members'[h]) = {v \in MembersOf(members[h]) : job[q].row => v # job[q].on}
          BY <3>4, Departed
        <5> QED BY <5>1
      <4> QED BY <1>0, <2>5, <3>1, <4>1
    <3>5. \/ HouseholdSame(h) \/ HouseholdGone(h) \/ HouseholdNew(h)
          \/ \E q \in Request : Joins(q, h) \/ Leaves(q, h)
      BY Zenon, <2>3, HouseholdMoves
    <3> QED BY <2>1, <2>2, <3>2, <3>3, <3>4, <3>5
  <2>7. CASE Look(r)
    <3>1. PICK next : next = IF Left(r) = <<>> THEN Nobody ELSE Left(r)[1].user
      OBVIOUS
    <3>2. Removal(r, "settle", job[r].role, job[r].row, next, IF Left(r) = <<>> THEN "member" ELSE Left(r)[1].role)
          /\ members' = members
      BY <2>7, <3>1 DEF Look, tables
    <3>3. job'[r].next = next /\ job'[r].row = job[r].row
      BY <3>2, Continued
    <3>4. Left(r) = <<>>
      <4>1. Keyed(Left(r))
        BY <2>2, <2>3, LeftRows
      <4>2. Left(r) # <<>> => Left(r)[1].user \in User
        BY <4>1, KeyedRows DEF Row
      <4> QED BY <1>2, <3>1, <3>3, <4>2, HouseholdsAssumption
    <3>5. u \in MembersOf(Left(r))
      BY <2>2, <2>3, <2>5, <3>2, <3>3, LeftRows
    <3> QED BY <3>4, <3>5 DEF MembersOf
  <2> QED BY <2>1, <2>6, <2>7
<1> QED BY <1>1, <1>2 DEF LatecomersRaced

------------------------------------------------------------------------------
(* The owner of a household in which no two removals crossed.               *)
LEMMA RemovalsThen ==
  ASSUME TablesOK, JobsOK, [Next]_vars, NEW h, \A p, q \in Removing(h) : p = q, h \notin crossed',
         NEW r \in Removing(h)'
  PROVE  /\ job'[r].h = h /\ job[r].h = h
         /\ \/ r \in Removing(h) /\ (job'[r] = job[r] \/ DeleteMember(r) \/ Look(r))
            \/ ReadRole(r) /\ Removing(h) = {}
<1>1. r \in Request /\ job'[r].pc \in {"remove", "look", "settle"} /\ job'[r].h = h
  BY DEF Removing
<1>2. /\ job[r].h = h
      /\ \/ job'[r] = job[r]
         \/ ReadRole(r) /\ job'[r].pc = "remove"
         \/ DeleteMember(r) /\ job'[r].pc = "look"
         \/ Look(r) /\ job'[r].pc = "settle"
  BY <1>1, RemovalMoves
<1>3. ASSUME ReadRole(r), job'[r].pc = "remove" PROVE Removing(h) = {}
  <2>1. ~Stop(r)
    BY <1>1, <1>3, Ended DEF Idle
  <2> QED BY <1>2, <1>3, <2>1 DEF ReadRole
<1>4. DeleteMember(r) \/ Look(r) \/ job'[r] = job[r] => r \in Removing(h)
  BY <1>1, <1>2 DEF Removing, DeleteMember, Look
<1> QED BY <1>1, <1>2, <1>3, <1>4

LEMMA OnlyRemoval ==
  ASSUME TablesOK, JobsOK, [Next]_vars, NEW h, \A p, q \in Removing(h) : p = q, h \notin crossed'
  PROVE  \A q, r \in Removing(h)' : q = r
<1> SUFFICES ASSUME NEW q \in Removing(h)', NEW r \in Removing(h)', q # r PROVE FALSE
  OBVIOUS
<1>1. /\ q \in Removing(h) \/ (ReadRole(q) /\ Removing(h) = {})
      /\ r \in Removing(h) \/ (ReadRole(r) /\ Removing(h) = {})
  BY RemovalsThen
<1>2. ReadRole(q) /\ ReadRole(r) /\ job'[r] # job[r] /\ job'[q] # job[q]
  <2>1. ReadRole(q) /\ ReadRole(r)
    BY <1>1
  <2>2. job'[q].pc # "role" /\ job'[r].pc # "role" /\ job[q].pc = "role" /\ job[r].pc = "role"
    BY <2>1 DEF Removing, ReadRole
  <2> QED BY <2>1, <2>2
<1>3. q \in Request /\ r \in Request
  BY DEF Removing
<1>4. job'[r] = job[r] \/ job'[q] = job[q]
  <2>1. CASE job' = job
    BY <2>1
  <2>2. ASSUME NEW p \in Request, Moves(p) PROVE job'[r] = job[r] \/ job'[q] = job[q]
    BY <1>3, <2>2 DEF Moves
  <2> QED BY <2>1, <2>2, JobMoves
<1> QED BY <1>2, <1>4

(* What the only removal knows stays true while the rows do.                *)
LEMMA KnowsThen ==
  ASSUME TablesOK, JobsOK, NEW h \in Household, NEW r \in Request, job[r].h = h,
         \/ r \in Removing(h) /\ Knows(job[r], Rows(h)) /\ (job'[r] = job[r] \/ DeleteMember(r) \/ Look(r))
         \/ ReadRole(r) /\ job'[r].pc = "remove"
  PROVE  Knows(job'[r], Rows(h))
<1>1. /\ \A u : IsMember(u, h) <=> \E m \in Rows(h) : m.user = u
      /\ \A u : IsOwner(u, h) <=> [user |-> u, role |-> "owner"] \in Rows(h)
      /\ Rows(h) \subseteq Row
  BY RowsTyped
<1>2. CASE job'[r] = job[r] /\ Knows(job[r], Rows(h))
  BY <1>2
<1>3. CASE ReadRole(r) /\ job'[r].pc = "remove"
  <2>1. ~Stop(r)
    BY <1>3, Ended DEF Idle
  <2>2. PICK role : role = IF IsOwner(job[r].on, h) THEN "owner" ELSE "member"
    OBVIOUS
  <2>3. IsMember(job[r].on, h) /\ Removal(r, "remove", role, FALSE, Nobody, "member")
    BY <1>3, <2>1, <2>2 DEF ReadRole
  <2>4. job'[r].on = job[r].on /\ job'[r].role = role /\ job'[r].pc = "remove"
    <3>1. PICK row, next, nextRole : Removal(r, "remove", role, row, next, nextRole)
      BY Zenon, <2>3
    <3> QED BY <3>1, Continued
  <2>5. role = "owner" <=> IsOwner(job[r].on, h)
    BY <2>2
  <2>6. \E m \in Rows(h) : m.user = job[r].on
    BY <1>1, <2>3
  <2>7. job'[r].role = "owner" <=> [user |-> job'[r].on, role |-> "owner"] \in Rows(h)
    BY <1>1, <2>4, <2>5
  <2> QED BY <2>4, <2>6, <2>7 DEF Knows
<1>4. CASE DeleteMember(r) /\ Knows(job[r], Rows(h))
  <2>1. PICK row : row = IsMember(job[r].on, h)
    OBVIOUS
  <2>2. Removal(r, "look", job[r].role, row, Nobody, "member")
    BY <1>4, <2>1 DEF DeleteMember
  <2>3. job'[r].on = job[r].on /\ job'[r].role = job[r].role /\ job'[r].pc = "look" /\ job'[r].row = row
    BY <2>2, Continued
  <2>4. row
    BY <1>1, <1>4, <2>1 DEF Knows
  <2> QED BY <1>4, <2>3, <2>4 DEF Knows
<1>5. CASE Look(r) /\ Knows(job[r], Rows(h))
  <2>1. PICK next, nextRole : /\ next = (IF Left(r) = <<>> THEN Nobody ELSE Left(r)[1].user)
                              /\ nextRole = (IF Left(r) = <<>> THEN "member" ELSE Left(r)[1].role)
    OBVIOUS
  <2>2. Removal(r, "settle", job[r].role, job[r].row, next, nextRole)
    BY <1>5, <2>1 DEF Look
  <2>3. /\ job'[r].on = job[r].on /\ job'[r].role = job[r].role /\ job'[r].pc = "settle" /\ job'[r].row = job[r].row
        /\ job'[r].next = next /\ job'[r].nextRole = nextRole
    BY <2>2, Continued
  <2>4. job[r].row
    BY <1>5 DEF Knows, Look
  <2>5. ASSUME next # Nobody PROVE next # job[r].on /\ [user |-> next, role |-> nextRole] \in Rows(h)
    <3>1. Keyed(Left(r)) /\ RowsIn(Left(r)) = {m \in Rows(job[r].h) : job[r].row => m.user # job[r].on}
      BY LeftRows
    <3>2. PICK m : m = Left(r)[1]
      OBVIOUS
    <3>3. m \in RowsIn(Left(r))
      BY <2>1, <2>5, <3>1, <3>2, KeyedRows
    <3>4. m \in Rows(h) /\ m.user # job[r].on
      BY <2>4, <3>1, <3>3
    <3>5. m.user = next /\ m.role = nextRole /\ m \in Row
      BY <1>1, <2>1, <2>5, <3>2, <3>4
    <3>6. m = [user |-> next, role |-> nextRole]
      BY <3>5 DEF Row
    <3> QED BY <3>4, <3>5, <3>6
  <2> QED BY <1>5, <2>3, <2>4, <2>5 DEF Knows
<1> QED BY <1>2, <1>3, <1>4, <1>5

(* A member more leaves who owns it, and what a removal knows.              *)
LEMMA JoinedKnows ==
  ASSUME NEW rows, NEW u, NEW more, more = rows \cup {[user |-> u, role |-> "member"]}
  PROVE  /\ \A v : [user |-> v, role |-> "owner"] \in more <=> [user |-> v, role |-> "owner"] \in rows
         /\ \A j : Knows(j, rows) => Knows(j, more)
<1>1. \A v : [user |-> v, role |-> "owner"] # [user |-> u, role |-> "member"]
  <2> SUFFICES ASSUME NEW v, [user |-> v, role |-> "owner"] = [user |-> u, role |-> "member"] PROVE FALSE
    OBVIOUS
  <2>1. [user |-> v, role |-> "owner"].role = [user |-> u, role |-> "member"].role
    OBVIOUS
  <2> QED BY <2>1
<1>2. \A v : [user |-> v, role |-> "owner"] \in more <=> [user |-> v, role |-> "owner"] \in rows
  BY <1>1
<1>3. rows \subseteq more
  OBVIOUS
<1> QED BY <1>2, <1>3 DEF Knows

(* The commit of the only removal: the household's owner stays or, if they  *)
(* left, whom it promotes is the new one.                                   *)
LEMMA DepartedOwner ==
  ASSUME TablesOK, JobsOK, NEW r \in Request, NEW h, Leaves(r, h), Knows(job[r], Rows(h)), OneOwnerIn(Rows(h))
  PROVE  OneOwnerIn(RowsIn(members'[h]))
<1> DEFINE j == job[r]
<1>1. /\ h \in Household /\ h = j.h /\ j.pc = "settle" /\ j.next # Nobody
      /\ members'[h] = IF j.role = "owner" /\ j.nextRole # "owner" THEN Promoted(Left(r), j.next) ELSE Left(r)
  BY Departed DEF Leaves
<1>2. PICK rows, left, on, next : rows = Rows(h) /\ left = RowsIn(Left(r)) /\ on = j.on /\ next = j.next
  OBVIOUS
<1>3. /\ j.row /\ (j.role = "owner" <=> [user |-> on, role |-> "owner"] \in rows)
      /\ next # on /\ [user |-> next, role |-> j.nextRole] \in rows
  BY <1>1, <1>2 DEF Knows
<1>4. Keyed(Left(r)) /\ left = {m \in rows : m.user # on}
  BY <1>1, <1>2, <1>3, LeftRows
<1>5. on \in User /\ next \in User
  <2>1. JobOK(j)
    BY DEF JobsOK
  <2> QED BY <1>1, <1>2, <2>1 DEF JobOK, OnUser
<1>6. \A v : [user |-> v, role |-> "owner"] \in left <=> [user |-> v, role |-> "owner"] \in rows /\ v # on
  BY <1>4
<1>7. PICK o \in User : \A v \in User : [user |-> v, role |-> "owner"] \in rows <=> v = o
  BY <1>2 DEF OneOwnerIn
<1>8. CASE j.role = "owner" /\ j.nextRole # "owner"
  <2>1. on = o
    BY <1>3, <1>5, <1>7, <1>8
  <2>2. next \in MembersOf(Left(r))
    <3>1. PICK m : m = [user |-> next, role |-> j.nextRole]
      OBVIOUS
    <3>2. m \in left /\ m.user = next
      BY <1>3, <1>4, <3>1
    <3> QED BY <1>2, <3>2, RowsAreOf
  <2>3. PICK ns : ns = Promoted(Left(r), next)
    OBVIOUS
  <2>4. \A v : [user |-> v, role |-> "owner"] \in RowsIn(ns) <=>
                 [user |-> v, role |-> "owner"] \in left \/ (v = next /\ next \in MembersOf(Left(r)))
    <3>1. PICK ms : ms = Left(r)
      OBVIOUS
    <3>2. Keyed(ms) /\ ns = Promoted(ms, next) /\ left = RowsIn(ms)
      BY <1>2, <1>4, <2>3, <3>1
    <3> QED BY Zenon, <3>1, <3>2, PromotedRows
  <2>5. \A v \in User : [user |-> v, role |-> "owner"] \in RowsIn(ns) <=> v = next
    BY <1>6, <1>7, <2>1, <2>2, <2>4
  <2> QED BY <1>1, <1>2, <1>5, <1>8, <2>3, <2>5 DEF OneOwnerIn
<1>9. CASE ~(j.role = "owner" /\ j.nextRole # "owner")
  <2>1. on # o
    BY <1>3, <1>5, <1>7, <1>9
  <2>2. \A v \in User : [user |-> v, role |-> "owner"] \in left <=> v = o
    BY <1>6, <1>7, <2>1
  <2>3. members'[h] = Left(r)
    BY <1>1, <1>9
  <2> QED BY <1>2, <2>2, <2>3 DEF OneOwnerIn
<1> QED BY <1>8, <1>9

LEMMA NextUncrossed ==
  ASSUME IInv, TablesOK, JobsOK, Uncrossed, [Next]_vars
  PROVE  Uncrossed'
<1>1. crossed \subseteq crossed'
  BY JobMoves
<1> SUFFICES ASSUME NEW h \in Household, h \in households', h \notin crossed'
             PROVE  /\ \A q, r \in Removing(h)' : q = r
                    /\ OneOwnerIn(RowsIn(members'[h]))
                    /\ \A r \in Removing(h)' : Knows(job'[r], RowsIn(members'[h]))
  <2>1. households' \subseteq Household
    BY NextTables DEF TablesOK, TypeOK
  <2> QED BY <2>1 DEF Uncrossed
<1>2. CASE HouseholdNew(h)
  <2>1. Removing(h)' = {}
    <3> SUFFICES ASSUME NEW r \in Request, job'[r].pc \in {"remove", "look", "settle"}, job'[r].h = h PROVE FALSE
      BY DEF Removing
    <3>1. job' = job /\ h \notin born
      BY <1>2 DEF HouseholdNew
    <3>2. JobOK(job[r])
      BY DEF JobsOK
    <3> QED BY <3>1, <3>2 DEF JobOK
  <2>2. PICK u \in User : RowsIn(members'[h]) = {[user |-> u, role |-> "owner"]}
    BY <1>2 DEF HouseholdNew
  <2>3. \A v : [user |-> v, role |-> "owner"] = [user |-> u, role |-> "owner"] <=> v = u
    <3>1. \A v : [user |-> v, role |-> "owner"].user = v
      OBVIOUS
    <3> QED BY <3>1
  <2> QED BY <2>1, <2>2, <2>3 DEF OneOwnerIn
<1>3. ASSUME h \in households
      PROVE  /\ \A q, r \in Removing(h) : q = r
             /\ OneOwnerIn(Rows(h))
             /\ \A r \in Removing(h) : Knows(job[r], Rows(h))
             /\ \A q, r \in Removing(h)' : q = r
             /\ \A r \in Removing(h)' :
                  /\ job[r].h = h
                  /\ \/ r \in Removing(h) /\ (job'[r] = job[r] \/ DeleteMember(r) \/ Look(r))
                     \/ ReadRole(r) /\ Removing(h) = {}
  <2>1. /\ \A q, r \in Removing(h) : q = r
        /\ OneOwnerIn(Rows(h))
        /\ \A r \in Removing(h) : Knows(job[r], Rows(h))
    BY <1>1, <1>3 DEF Uncrossed, Rows
  <2> QED BY <2>1, RemovalsThen, OnlyRemoval
<1>4. CASE HouseholdSame(h)
  <2>1. h \in households /\ RowsIn(members'[h]) = Rows(h)
    BY <1>4 DEF HouseholdSame, Rows
  <2>2. ASSUME NEW r \in Removing(h)' PROVE Knows(job'[r], Rows(h))
    <3>1. r \in Request /\ job'[r].pc \in {"remove", "look", "settle"}
      BY DEF Removing
    <3>2. ReadRole(r) => job'[r].pc = "remove"
      BY <3>1, RemovalMoves DEF ReadRole, DeleteMember, Look
    <3>3. /\ job[r].h = h
          /\ \/ r \in Removing(h) /\ Knows(job[r], Rows(h)) /\ (job'[r] = job[r] \/ DeleteMember(r) \/ Look(r))
             \/ ReadRole(r) /\ job'[r].pc = "remove"
      BY <1>3, <2>1, <3>2
    <3> QED BY <3>1, <3>3, KnowsThen
  <2> QED BY <1>3, <2>1, <2>2
<1>5. ASSUME NEW q \in Request, Joins(q, h)
      PROVE  /\ OneOwnerIn(RowsIn(members'[h]))
             /\ \A r \in Removing(h)' : Knows(job'[r], RowsIn(members'[h]))
             /\ h \in households
  <2>1. /\ h \in households /\ Moves(q) /\ job'[q] = Idle
        /\ RowsIn(members'[h]) = Rows(h) \cup (IF job[q].on \in MembersOf(members[h]) THEN {}
                                               ELSE {[user |-> job[q].on, role |-> "member"]})
    BY <1>5, Joined
  <2>2. ASSUME NEW r \in Removing(h)' PROVE Knows(job'[r], Rows(h))
    <3>1. r \in Request /\ r # q
      BY <2>1 DEF Removing, Idle
    <3>2. job'[r] = job[r]
      BY <2>1, <3>1 DEF Moves
    <3>3. r \in Removing(h)
      BY <3>1, <3>2 DEF Removing
    <3> QED BY <1>3, <2>1, <3>2, <3>3
  <2>3. CASE job[q].on \in MembersOf(members[h])
    BY <1>3, <2>1, <2>2, <2>3
  <2>4. CASE job[q].on \notin MembersOf(members[h])
    <3>1. RowsIn(members'[h]) = Rows(h) \cup {[user |-> job[q].on, role |-> "member"]}
      BY <2>1, <2>4
    <3>2. /\ \A v : [user |-> v, role |-> "owner"] \in RowsIn(members'[h]) <=> [user |-> v, role |-> "owner"] \in Rows(h)
          /\ \A j : Knows(j, Rows(h)) => Knows(j, RowsIn(members'[h]))
      BY <3>1, JoinedKnows
    <3> QED BY <1>3, <2>1, <2>2, <3>2 DEF OneOwnerIn
  <2> QED BY <2>3, <2>4
<1>6. ASSUME NEW q \in Request, Leaves(q, h)
      PROVE  OneOwnerIn(RowsIn(members'[h])) /\ Removing(h)' = {} /\ h \in households
  <2>1. households' = households /\ Moves(q) /\ job[q].pc = "settle" /\ job'[q].pc = "other" /\ h = job[q].h
    BY <1>6, Departed DEF Leaves
  <2>2. q \in Removing(h)
    BY <2>1 DEF Removing
  <2>3. OneOwnerIn(RowsIn(members'[h]))
    BY <1>3, <1>6, <2>1, <2>2, DepartedOwner
  <2>4. Removing(h)' = {}
    <3> SUFFICES ASSUME NEW r \in Removing(h)' PROVE FALSE
      OBVIOUS
    <3>1. r \in Request /\ r # q /\ job'[r].pc # job'[q].pc
      BY <2>1 DEF Removing
    <3>2. job'[r] = job[r]
      BY <2>1, <3>1 DEF Moves
    <3>3. r \in Removing(h)
      BY <3>1, <3>2 DEF Removing
    <3> QED BY <1>3, <2>1, <2>2, <3>1, <3>3
  <2> QED BY <2>1, <2>3, <2>4
<1>7. \/ HouseholdSame(h) \/ HouseholdGone(h) \/ HouseholdNew(h)
      \/ \E r \in Request : Joins(r, h) \/ Leaves(r, h)
  BY Zenon, HouseholdMoves
<1>8. ~HouseholdGone(h)
  BY DEF HouseholdGone
<1> QED BY <1>2, <1>3, <1>4, <1>5, <1>6, <1>7, <1>8

------------------------------------------------------------------------------
(* Together: what holds of the tables and of the requests in flight.        *)
LEMMA InitTables == Init => TablesInv
<1> SUFFICES ASSUME Init PROVE TablesInv
  OBVIOUS
<1>1. Keyed(<<>>) /\ \A r \in Request : job[r] = Idle
  BY DEF Init, Keyed
<1>2. TablesOK
  BY <1>1, HouseholdsAssumption DEF Init, TablesOK, TypeOK
<1>3. JobsOK
  BY <1>1 DEF Init, JobsOK, JobOK, Idle, Pc, OnUser, Role
<1>4. \A r \in Request : job[r].pc = "idle" /\ job[r].on = Nobody
  BY <1>1 DEF Idle
<1>5. OneRequest /\ TheirsToHave
  BY <1>4, HouseholdsAssumption DEF OneRequest, TheirsToHave, Sure
<1>6. ActiveHasACause
  BY DEF Init, ActiveHasACause
<1>7. LatecomersRaced
  BY <1>4 DEF Init, LatecomersRaced
<1>8. Uncrossed
  BY DEF Init, Uncrossed
<1> QED BY <1>2, <1>3, <1>5, <1>6, <1>7, <1>8 DEF TablesInv

LEMMA NextTablesInv == IInv /\ TablesInv /\ [Next]_vars => TablesInv'
BY NextTables, NextJobs, NextOneRequest, NextTheirs, NextActive, NextLatecomers, NextUncrossed DEF TablesInv

(* One owner of each household in which no two removals crossed.            *)
LEMMA UncrossedOwner == TablesInv => OneOwner
<1> SUFFICES ASSUME TablesInv, NEW h \in households \ crossed PROVE Cardinality(Owners(h)) = 1
  BY DEF OneOwner
<1>1. h \in Household
  BY DEF TablesInv, TablesOK, TypeOK
<1>2. PICK u \in User : \A v \in User : [user |-> v, role |-> "owner"] \in Rows(h) <=> v = u
  BY DEF TablesInv, Uncrossed, OneOwnerIn, Rows
<1>3. \A v : IsOwner(v, h) <=> [user |-> v, role |-> "owner"] \in Rows(h)
  BY <1>1, RowsTyped DEF TablesInv
<1>4. Owners(h) = {u}
  BY <1>2, <1>3 DEF Owners
<1> QED BY <1>4, FS_Singleton

LEMMA AlwaysTables == Spec => []TablesInv
<1>1. Spec => []IInv
  BY InitInv, NextInv, PTL DEF Spec
<1> QED BY <1>1, InitTables, NextTablesInv, PTL DEF Spec

(* Memberships, invites and what users have active are of households there  *)
(* are, whatever is deleted meanwhile: what the foreign keys and their      *)
(* cascades give.                                                           *)
THEOREM HouseholdsTypeOK == Spec => []TypeOK
<1>1. TablesInv => TypeOK
  BY DEF TablesInv, TablesOK
<1> QED BY <1>1, AlwaysTables, PTL

(* A household in which no two removals were in flight at once has exactly  *)
(* one owner, however many requests run: removeMember promotes whoever      *)
(* joined first when the owner leaves, and acceptInvite makes members only. *)
THEOREM AlwaysOneOwner == Spec => []OneOwner
BY UncrossedOwner, AlwaysTables, PTL

(* What a user has active is a household of theirs, unless a removal has    *)
(* yet to repoint them, or requests about them met or one failed.           *)
THEOREM AlwaysActiveHasACause == Spec => []ActiveHasACause
<1>1. TablesInv => ActiveHasACause
  BY DEF TablesInv
<1> QED BY <1>1, AlwaysTables, PTL

(* removeMember deletes a household under nobody but who joined between its *)
(* look at who is left and the end of its transaction.                      *)
THEOREM AlwaysLostOnlyInARace == Spec => []LostOnlyInARace
<1>1. TablesInv => LostOnlyInARace
  BY DEF TablesInv, LatecomersRaced, LostOnlyInARace
<1> QED BY <1>1, AlwaysTables, PTL

==============================================================================
