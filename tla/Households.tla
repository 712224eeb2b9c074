----------------------------- MODULE Households -----------------------------
(***************************************************************************)
(* Pantry's households on Postgres: members and their roles, single-use     *)
(* invites, and the household each user has active (domain/routes.ts,       *)
(* repo/postgres.ts).  A route reads the caller's role, then acts; removing *)
(* a member is a READ COMMITTED transaction of three statements and two     *)
(* more after it.  Every await is a step of its own and may fail.           *)
(***************************************************************************)
EXTENDS Integers, SequencesExt

CONSTANTS
  User, Household, Invite,   \* the ids there are; none is given out twice
  Request,                   \* requests that may be in flight at once
  TTL,                       \* INVITE_TTL_DAYS
  MaxClock                   \* bound: the clock

Nobody == "nobody"
NoHousehold == "no household"
NoInvite == "no invite"

ASSUME HouseholdsAssumption ==
  /\ Nobody \notin User /\ NoHousehold \notin Household /\ NoInvite \notin Invite
  /\ TTL \in Nat \ {0} /\ MaxClock \in Nat

Role == {"owner", "member"}

VARIABLES
  now,
  households,  \* table households
  members,     \* table household_members, by household: [user, role] in the order they joined
  invites,     \* table household_invites: [household, expires, by: who accepted it]
  active,      \* user_settings.active_household_id
  born,        \* the ids given out
  job,         \* the requests in flight
  crossed,     \* history: households with two removals in flight at once
  unsure,      \* history: users two requests were about at once, or one that failed halfway
  raced,       \* history: <<household, user>> who joined as the last member left
  lost         \* history: <<household, user>> whose household someone leaving deleted

tables == <<households, members, invites, active, born>>
history == <<crossed, unsure, raced, lost>>
vars == <<now, tables, job, history>>

(* A request at await pc, about user `on` in household h: the role it read  *)
(* of that user and whether it deleted their row; `next` the member it saw  *)
(* remain, or the household the user is to have active; the invite it       *)
(* accepts or revokes.                                                      *)
Idle == [pc |-> "idle", on |-> Nobody, h |-> NoHousehold, role |-> "member", row |-> FALSE,
         next |-> Nobody, nextRole |-> "member", invite |-> NoInvite]
Job(pc, u, h, i) == [pc |-> pc, on |-> u, h |-> h, role |-> "member", row |-> FALSE,
                     next |-> Nobody, nextRole |-> "member", invite |-> i]

Init ==
  /\ now = 0
  /\ households = {} /\ born = {}
  /\ members = [h \in Household |-> <<>>]
  /\ invites = [i \in {} |-> 0]
  /\ active = [u \in User |-> NoHousehold]
  /\ job = [r \in Request |-> Idle]
  /\ crossed = {} /\ unsure = {} /\ raced = {} /\ lost = {}

MembersOf(ms) == {ms[k].user : k \in DOMAIN ms}
PlaceOf(ms, u) == CHOOSE k \in DOMAIN ms : ms[k].user = u
OthersThan(ms, u) == IF u \in MembersOf(ms) THEN RemoveAt(ms, PlaceOf(ms, u)) ELSE ms
IsMember(u, h) == u \in MembersOf(members[h])
IsOwner(u, h) == [user |-> u, role |-> "owner"] \in {members[h][k] : k \in DOMAIN members[h]}

(* Removals past the read of the role; the rows they hold deleted.          *)
Removing(h) == {r \in Request : job[r].pc \in {"remove", "look", "settle"} /\ job[r].h = h}
Deleted(h) == {job[r].on : r \in {q \in Removing(h) : job[q].row}}
(* What a removal's transaction sees of its household.                      *)
Left(r) == IF job[r].row THEN OthersThan(members[job[r].h], job[r].on) ELSE members[job[r].h]
Accepting(i) == {r \in Request : job[r].pc = "accept" /\ job[r].invite = i}

(* DELETE FROM households waits for open transactions on rows it cascades to. *)
DropBlocked(h, mine) ==
  \/ \E r \in Request \ mine : job[r].row /\ job[r].h = h
  \/ \E i \in DOMAIN invites : invites[i].household = h /\ Accepting(i) # {}

(* Mutant: who had it active still does.                                    *)
DropOnly(h) ==
  /\ households' = households \ {h}
  /\ members' = [members EXCEPT ![h] = <<>>]
  /\ invites' = [i \in {j \in DOMAIN invites : invites[j].household # h} |-> invites[i]]
  /\ UNCHANGED <<active, born>>

(* CASCADE to members and invites, SET NULL where it is active.             *)
Drop(h) ==
  /\ households' = households \ {h}
  /\ members' = [members EXCEPT ![h] = <<>>]
  /\ invites' = [i \in {j \in DOMAIN invites : invites[j].household # h} |-> invites[i]]
  /\ active' = [u \in User |-> IF active[u] = h THEN NoHousehold ELSE active[u]]
  /\ UNCHANGED born

-----------------------------------------------------------------------------
(* One transaction: a household, its owner, and it is active.               *)
CreateHousehold == \E u \in User, h \in Household \ born :
  /\ born' = born \cup {h} /\ households' = households \cup {h}
  /\ members' = [members EXCEPT ![h] = <<[user |-> u, role |-> "owner"]>>]
  /\ active' = [active EXCEPT ![u] = h]
  /\ UNCHANGED <<now, invites, job, history>>

(* Requests that change what user u has active meet.                        *)
About(u) == {r \in Request : job[r].on = u}
Meets(u) == unsure' = IF About(u) = {} THEN unsure ELSE unsure \cup {u}

(* A request begins when requireOwner or requireMember let it pass.         *)
Begin(r, next) ==
  /\ job[r].pc = "idle"
  /\ job' = [job EXCEPT ![r] = next]
  /\ UNCHANGED <<now, tables, crossed, raced, lost>>

AskDelete(r) == \E h \in households, u \in User :
  IsOwner(u, h) /\ Begin(r, Job("drop", Nobody, h, NoInvite)) /\ UNCHANGED unsure

AskActivate(r) == \E h \in households, u \in User :
  IsMember(u, h) /\ Begin(r, Job("activate", u, h, NoInvite)) /\ Meets(u)

AskInvite(r) == \E h \in households, u \in User :
  IsOwner(u, h) /\ Begin(r, Job("invite", Nobody, h, NoInvite)) /\ UNCHANGED unsure

AskRevoke(r) == \E h \in households, u \in User, i \in DOMAIN invites :
  IsOwner(u, h) /\ Begin(r, Job("revoke", Nobody, h, i)) /\ UNCHANGED unsure

(* Members leave, and the owner removes others.                             *)
AskRemove(r) == \E h \in households, caller, u \in User :
  /\ IsMember(caller, h) /\ (u = caller \/ IsOwner(caller, h))
  /\ Begin(r, Job("role", u, h, NoInvite)) /\ Meets(u)

Stop(r) == job' = [job EXCEPT ![r] = Idle]
Removal(r, pc, role, row, next, nextRole) ==
  job' = [job EXCEPT ![r] = [pc |-> pc, on |-> job[r].on, h |-> job[r].h, role |-> role, row |-> row,
                             next |-> next, nextRole |-> nextRole, invite |-> NoInvite]]

DeleteHousehold(r) ==
  /\ job[r].pc = "drop" /\ ~DropBlocked(job[r].h, {})
  /\ Drop(job[r].h) /\ Stop(r)
  /\ UNCHANGED <<now, history>>

(* The foreign key refuses a household that is gone.                        *)
SetActive(r) ==
  /\ job[r].pc = "activate" /\ Stop(r)
  /\ active' = IF job[r].h \in households THEN [active EXCEPT ![job[r].on] = job[r].h] ELSE active
  /\ UNCHANGED <<now, households, members, invites, born, history>>

CreateInvite(r) == \E i \in Invite \ born :
  /\ job[r].pc = "invite" /\ Stop(r)
  /\ job[r].h \in households
  /\ born' = born \cup {i}
  /\ invites' = [j \in DOMAIN invites \cup {i} |->
       IF j = i THEN [household |-> job[r].h, expires |-> now + TTL, by |-> Nobody] ELSE invites[j]]
  /\ UNCHANGED <<now, households, members, active, history>>

(* Only an invite of that household; it waits while one is being accepted.  *)
RevokeInvite(r) ==
  LET i == job[r].invite
      hit == i \in DOMAIN invites /\ invites[i].household = job[r].h
  IN /\ job[r].pc = "revoke" /\ Accepting(i) = {} /\ Stop(r)
     /\ invites' = [j \in (IF hit THEN DOMAIN invites \ {i} ELSE DOMAIN invites) |-> invites[j]]
     /\ UNCHANGED <<now, households, members, active, born, history>>

-----------------------------------------------------------------------------
(* Accepting an invite: one transaction, begun by SELECT .. FOR UPDATE.     *)
Usable(i) == invites[i].by = Nobody /\ invites[i].expires > now

(* Mutant: without FOR UPDATE.                                              *)
OpenInviteUnlocked(r) == \E u \in User, i \in DOMAIN invites :
  /\ Usable(i)
  /\ Begin(r, Job("accept", u, invites[i].household, i)) /\ Meets(u)

OpenInvite(r) == \E u \in User, i \in DOMAIN invites :
  /\ Accepting(i) = {} /\ Usable(i)
  /\ Begin(r, Job("accept", u, invites[i].household, i)) /\ Meets(u)

(* Mutant: who accepts is a member, whatever they were.                     *)
WithMemberOnly(ms, u) == Append(OthersThan(ms, u), [user |-> u, role |-> "member"])

(* ON CONFLICT DO NOTHING.                                                  *)
WithMember(ms, u) == IF u \in MembersOf(ms) THEN ms ELSE Append(ms, [user |-> u, role |-> "member"])

(* The other statements and COMMIT; it waits for a removal of that member.  *)
AcceptInvite(r) ==
  LET u == job[r].on
      h == job[r].h
      i == job[r].invite
  IN /\ job[r].pc = "accept" /\ u \notin Deleted(h) /\ Stop(r)
     /\ members' = [members EXCEPT ![h] = WithMember(members[h], u)]
     /\ invites' = [j \in DOMAIN invites |-> IF j = i THEN [household |-> invites[j].household,
                      expires |-> invites[j].expires, by |-> u] ELSE invites[j]]
     /\ active' = [active EXCEPT ![u] = h]
     /\ raced' = IF \E q \in Removing(h) : job[q].pc = "settle" /\ job[q].next = Nobody
                 THEN raced \cup {<<h, u>>} ELSE raced
     /\ UNCHANGED <<now, households, born, crossed, unsure, lost>>

-----------------------------------------------------------------------------
(* Removing a member: the route reads the role the member has, then         *)
(* removeMember deletes the row, looks at who joined first of those left,   *)
(* and promotes them or drops the household; then it repoints the member.   *)
ReadRole(r) ==
  LET h == job[r].h
      u == job[r].on
  IN /\ job[r].pc = "role"
     /\ IF IsMember(u, h)
        THEN /\ Removal(r, "remove", IF IsOwner(u, h) THEN "owner" ELSE "member", FALSE, Nobody, "member")
             /\ crossed' = IF Removing(h) = {} THEN crossed ELSE crossed \cup {h}
        ELSE Stop(r) /\ UNCHANGED crossed
     /\ UNCHANGED <<now, tables, unsure, raced, lost>>

DeleteMember(r) ==
  /\ job[r].pc = "remove"
  /\ job[r].on \notin Deleted(job[r].h)
  /\ Removal(r, "look", job[r].role, IsMember(job[r].on, job[r].h), Nobody, "member")
  /\ UNCHANGED <<now, tables, history>>

(* Mutant: looks among owners only.                                         *)
LookForOwner(r) ==
  LET left == SelectSeq(Left(r), LAMBDA m : m.role = "owner")
  IN /\ job[r].pc = "look"
     /\ Removal(r, "settle", job[r].role, job[r].row, IF left = <<>> THEN Nobody ELSE left[1].user,
                IF left = <<>> THEN "member" ELSE left[1].role)
     /\ UNCHANGED <<now, tables, history>>

Look(r) ==
  LET left == Left(r)
  IN /\ job[r].pc = "look"
     /\ Removal(r, "settle", job[r].role, job[r].row, IF left = <<>> THEN Nobody ELSE left[1].user,
                IF left = <<>> THEN "member" ELSE left[1].role)
     /\ UNCHANGED <<now, tables, history>>

Promoted(ms, u) ==
  [k \in DOMAIN ms |-> [user |-> ms[k].user, role |-> IF ms[k].user = u THEN "owner" ELSE ms[k].role]]

(* The last statement of the transaction and COMMIT.  A row that another    *)
(* removal deleted is waited for, and then not promoted.                    *)
Settle(r) ==
  LET h == job[r].h
      left == Left(r)
      promote == job[r].role = "owner" /\ job[r].nextRole # "owner"
  IN /\ job[r].pc = "settle"
     /\ IF job[r].next = Nobody
        THEN /\ ~DropBlocked(h, {r}) /\ Drop(h)
             /\ lost' = lost \cup {<<h, u>> : u \in MembersOf(left)}
        ELSE /\ promote => job[r].next \notin Deleted(h)
             /\ members' = [members EXCEPT ![h] = IF promote THEN Promoted(left, job[r].next) ELSE left]
             /\ UNCHANGED <<households, invites, active, born, lost>>
     /\ Removal(r, "other", job[r].role, FALSE, Nobody, "member")
     /\ UNCHANGED <<now, crossed, unsure, raced>>

(* Mutant: whoever left keeps the household active.                         *)
FindOtherNot(r) ==
  /\ job[r].pc = "other" /\ Stop(r)
  /\ UNCHANGED <<now, tables, history>>

(* The oldest other membership; which one that is stays open.               *)
FindOther(r) ==
  LET mine == {h \in households : IsMember(job[r].on, h)}
  IN /\ job[r].pc = "other"
     /\ \E next \in IF mine = {} THEN {NoHousehold} ELSE mine :
          Removal(r, "repoint", job[r].role, FALSE, next, "member")
     /\ UNCHANGED <<now, tables, history>>

(* Where the one left is still active; the foreign key refuses one gone.    *)
Repoint(r) ==
  LET u == job[r].on
      hit == active[u] = job[r].h
  IN /\ job[r].pc = "repoint" /\ Stop(r)
     /\ hit => job[r].next \in households \cup {NoHousehold}
     /\ active' = IF hit THEN [active EXCEPT ![u] = job[r].next] ELSE active
     /\ UNCHANGED <<now, households, members, invites, born, history>>

(* A statement fails or the process goes down: a transaction is undone,     *)
(* what came before it stays.                                               *)
Fail(r) ==
  /\ job[r].pc # "idle" /\ Stop(r)
  /\ unsure' = IF job[r].pc \in {"other", "repoint"} THEN unsure \cup {job[r].on} ELSE unsure
  /\ UNCHANGED <<now, tables, crossed, raced, lost>>

Tick ==
  /\ now < MaxClock /\ now' = now + 1
  /\ UNCHANGED <<tables, job, history>>

Ask(r) == AskDelete(r) \/ AskActivate(r) \/ AskInvite(r) \/ AskRevoke(r) \/ AskRemove(r) \/ OpenInvite(r)
Act(r) ==
  \/ DeleteHousehold(r) \/ SetActive(r) \/ CreateInvite(r) \/ RevokeInvite(r) \/ AcceptInvite(r)
  \/ ReadRole(r) \/ DeleteMember(r) \/ Look(r) \/ Settle(r) \/ FindOther(r) \/ Repoint(r)

Next ==
  \/ CreateHousehold \/ Tick
  \/ \E r \in Request : Ask(r) \/ Act(r) \/ Fail(r)

Spec == Init /\ [][Next]_vars

-----------------------------------------------------------------------------
(* Rows refer to households there are: what the cascades are for.           *)
TypeOK ==
  /\ now \in 0 .. MaxClock /\ households \subseteq Household
  /\ \A h \in Household : \A k \in DOMAIN members[h] : members[h][k] \in [user: User, role: Role] /\ h \in households
  /\ \A i \in DOMAIN invites : i \in Invite /\ invites[i].household \in households
  /\ \A u \in User : active[u] \in households \cup {NoHousehold}

Owners(h) == {u \in User : IsOwner(u, h)}

(* A household has one owner, no more and no less, unless two removals in   *)
(* it crossed.                                                              *)
OneOwner == \A h \in households \ crossed : Cardinality(Owners(h)) = 1

UsersKept == \A i \in DOMAIN invites \cap DOMAIN invites' :
  invites[i].by # Nobody => invites'[i].by = invites[i].by

(* An invite lets one user in, whoever else opens it at the same moment.    *)
InviteSingleUse == [][UsersKept]_vars

(* What a user has active is a household of theirs, but while a removal has *)
(* yet to repoint them, or after requests about them met or one failed.     *)
ActiveHasACause == \A u \in User :
  \/ active[u] = NoHousehold \/ IsMember(u, active[u]) \/ u \in unsure
  \/ \E r \in Request : job[r].pc \in {"other", "repoint"} /\ job[r].on = u /\ job[r].h = active[u]

(* Someone leaving takes the household from nobody but who joined it        *)
(* between the look at who is left and the end of the transaction.          *)
LostOnlyInARace == lost \subseteq raced

(* repo/types.ts on removeMember: when the owner leaves, another member is  *)
(* promoted, and a household left empty is deleted.                         *)
OwnerRemains == \A h \in households : Removing(h) = {} => Owners(h) # {}
=============================================================================
