-------------------------------- MODULE Crumb --------------------------------
(***************************************************************************)
(* Crumb on Postgres: the routes that change starters, their feedings and   *)
(* bakes (domain/routes.ts), the reminders these imply, which a request     *)
(* stores a group at a time, and the dispatcher that claims and pushes them *)
(* (domain/reminders.ts).  A group is one starter's or one bake's.          *)
(* One user.  Every await is a step of its own; READ COMMITTED is modelled  *)
(* down to what a DELETE sees and waits for.                                *)
(***************************************************************************)
EXTENDS BakePlan, FiniteSets

CONSTANTS
  Starter, Bake,
  Request,       \* requests that may be in flight at once
  Dispatcher,    \* dispatches that may be under way at once
  Device,        \* push endpoints of the user
  MaxEdits,      \* bound: changes ever made
  MaxClock,      \* bound: the clock
  FeedEvery,     \* FEED_EVERY_H, by location
  PeakAfter,     \* how long after a feed it should peak, by whether a peak was ever logged
  ReadyIn,       \* how far ahead bakes are planned to be ready
  ShiftBy,       \* the minutes clients shift a bake by
  Late,          \* STALE_MS
  Batch          \* BATCH

Group == Starter \cup Bake
Location == {"counter", "fridge"}

ASSUME CrumbAssumption ==
  /\ Starter \cap Bake = {}
  /\ MaxEdits \in Nat /\ MaxClock \in Nat
  /\ FeedEvery \in [Location -> Nat \ {0}] /\ PeakAfter \in [BOOLEAN -> Nat \ {0}]
  /\ ReadyIn \subseteq Nat /\ ShiftBy \subseteq Int
  /\ Late \in Nat /\ Batch \in Nat \ {0}

VARIABLES
  now,
  starters,    \* table starters: where each is and since when, and whether it was moved
  feedings,    \* table feedings
  bakes,       \* table bakes: status and steps; ready_at is the end of the last step
  born,        \* the ids given out
  rows,        \* table reminders by <<group, key>>: [due, sent]
  devices,     \* table push_subscriptions
  job,         \* the requests in flight, each at an await of its own
  dispatch,    \* the dispatches under way
  edits,       \* how many changes were made; names feedings
  pushed,      \* history: <<device, <<id, due>>>> handed to the push service
  twice,       \* history: those handed over more than once
  raced,       \* history: reminders claimed while a request was about to store them
  alone,       \* history: requests in flight that met no other of their group
  unsure,      \* history: groups whose requests overlapped, or one of them failed
  strain       \* history: what happened to a bake's plan besides steps done in turn

tables == <<starters, feedings, bakes, born>>
history == <<pushed, twice, raced>>
vars == <<now, tables, rows, devices, job, dispatch, edits, history, alone, unsure, strain>>

None == [k \in {} |-> 0]
Put(t, k, v) == [x \in DOMAIN t \cup {k} |-> IF x = k THEN v ELSE t[x]]
Without(t, K) == [x \in DOMAIN t \ K |-> t[x]]

(* A request: which await it is at and its group; the starter it read, the  *)
(* reminders it is to store, and the rows its DELETE is to delete.          *)
NoStarter == [location |-> "none", since |-> 0, moved |-> FALSE]
Resting == [pc |-> "idle", on |-> "none", starter |-> NoStarter, put |-> None, saw |-> {}]

InFlight(g) == {r \in Request : job[r].pc # "idle" /\ job[r].on = g}

NoDispatch == [pc |-> "idle", batch |-> {}, todo |-> {}]

Init ==
  /\ now = 0 /\ edits = 0
  /\ born = {} /\ starters = None /\ feedings = {} /\ bakes = None
  /\ rows = None /\ devices = {}
  /\ job = [r \in Request |-> Resting]
  /\ dispatch = [d \in Dispatcher |-> NoDispatch]
  /\ pushed = {} /\ twice = {} /\ raced = {} /\ alone = {} /\ unsure = {} /\ strain = {}

-----------------------------------------------------------------------------
(* The reminders a starter or a bake implies (domain/starters.ts,           *)
(* domain/bakes.ts): functions from keys to due times.                      *)

FeedingsOf(s) == {f \in feedings : f.starter = s}

(* listFeedings: newest first by fed_at, then as created.                   *)
LastFed(F) == CHOOSE f \in F : \A e \in F : e.fedAt < f.fedAt \/ (e.fedAt = f.fedAt /\ e.id <= f.id)

(* predictedPeak says something.                                            *)
Peaks(starter, last) ==
  /\ ~last.peaked /\ starter.location = "counter"
  /\ starter.moved => last.fedAt >= starter.since

FeedKey == <<"feed", 0, 0>>
PeakKey == <<"peak", 0, 0>>

(* summarizeStarter and starterReminders.                                   *)
StarterPlan(starter, F) ==
  LET last == LastFed(F)
      base == IF F = {} THEN starter.since ELSE last.fedAt
      peak == last.fedAt + PeakAfter[\E f \in F : f.peaked]
      remind == F # {} /\ last.remind /\ Peaks(starter, last)
  IN [k \in {FeedKey} \cup (IF remind THEN {PeakKey} ELSE {}) |->
        IF k = FeedKey THEN base + FeedEvery[starter.location] ELSE peak]

(* bakeReminders.                                                           *)
BakeReminders(bake) ==
  LET steps == bake.steps
      open == {i \in DOMAIN steps : Open(steps[i])}
      fold == UNION {{<<"fold", i, k>> : k \in DOMAIN FoldsDue(steps[i])} : i \in open}
      step == {<<"step", i, 0>> : i \in open}
      ready == {<<"ready", 0, 0>> : i \in open}
      due(k) == CASE k \in fold -> FoldsDue(steps[k[2]])[k[3]]
                  [] k \in step -> steps[k[2]].start
                  [] OTHER -> steps[Len(steps)].end
  IN [k \in (IF bake.status = "active" THEN fold \cup step \cup ready ELSE {}) |-> due(k)]

(* Mutant: what is already due is stored again.                             *)
UpcomingAll(plan, t) == plan

(* Only future ones.                                                        *)
Upcoming(plan, t) == [k \in {j \in DOMAIN plan : plan[j] > t} |-> plan[k]]

-----------------------------------------------------------------------------
(* A request changes group g and goes on at pc, with a starter or a plan.   *)
Edit(r, g, pc, starter, plan) ==
  /\ job[r].pc = "idle"
  /\ edits < MaxEdits /\ edits' = edits + 1
  /\ job' = [job EXCEPT ![r] = [pc |-> pc, on |-> g, starter |-> starter, put |-> plan, saw |-> {}]]
  /\ IF InFlight(g) = {} THEN alone' = alone \cup {r} /\ UNCHANGED unsure
     ELSE alone' = alone \ InFlight(g) /\ unsure' = unsure \cup {g}
  /\ UNCHANGED <<now, rows, devices, dispatch, history>>

EditThenRead(r, s) == Edit(r, s, "record", NoStarter, None)
EditThenPlan(r, g, plan) == Edit(r, g, "plan", NoStarter, plan)

NewStarter(r) == \E s \in Starter \ born, where \in Location :
  LET starter == [location |-> where, since |-> now, moved |-> FALSE]
  IN /\ born' = born \cup {s}
     /\ starters' = Put(starters, s, starter)
     /\ EditThenPlan(r, s, StarterPlan(starter, {}))
     /\ UNCHANGED <<feedings, bakes, strain>>

(* updateStarter: a new location starts anew.                               *)
PatchStarter(r) == \E s \in DOMAIN starters, where \in Location :
  LET starter == IF where = starters[s].location THEN starters[s]
                 ELSE [location |-> where, since |-> now, moved |-> TRUE]
  IN /\ starters' = [starters EXCEPT ![s] = starter]
     /\ Edit(r, s, "feeds", starter, None)
     /\ UNCHANGED <<feedings, bakes, born, strain>>

(* Mutant: its feedings are left behind.                                    *)
DropStarterOnly(r) == \E s \in DOMAIN starters :
  /\ starters' = Without(starters, {s})
  /\ EditThenPlan(r, s, None)
  /\ UNCHANGED <<feedings, bakes, born, strain>>

(* Its feedings go with it.                                                 *)
DropStarter(r) == \E s \in DOMAIN starters :
  /\ starters' = Without(starters, {s})
  /\ feedings' = feedings \ FeedingsOf(s)
  /\ EditThenPlan(r, s, None)
  /\ UNCHANGED <<bakes, born, strain>>

(* Fed now or a while ago.                                                  *)
NewFeeding(r) == \E s \in DOMAIN starters, ago \in {0, 1}, remind \in BOOLEAN :
  /\ feedings' = feedings \cup {[id |-> edits, starter |-> s, fedAt |-> now - ago,
                                 remind |-> remind, peaked |-> FALSE]}
  /\ EditThenRead(r, s)
  /\ UNCHANGED <<starters, bakes, born, strain>>

(* Mutant: a logged peak leaves the reminders as they were.                 *)
PatchFeedingOnly(r) == \E f \in feedings, peaked \in BOOLEAN :
  /\ job[r].pc = "idle" /\ edits < MaxEdits /\ edits' = edits + 1
  /\ feedings' = (feedings \ {f}) \cup {[f EXCEPT !.peaked = peaked]}
  /\ UNCHANGED <<now, starters, bakes, born, rows, devices, job, dispatch, history, alone, unsure, strain>>

(* A peak is logged or taken back.                                          *)
PatchFeeding(r) == \E f \in feedings, peaked \in BOOLEAN :
  /\ feedings' = (feedings \ {f}) \cup {[f EXCEPT !.peaked = peaked]}
  /\ EditThenRead(r, f.starter)
  /\ UNCHANGED <<starters, bakes, born, strain>>

DropFeeding(r) == \E f \in feedings :
  /\ feedings' = feedings \ {f}
  /\ EditThenRead(r, f.starter)
  /\ UNCHANGED <<starters, bakes, born, strain>>

(* planNewBake.                                                             *)
NewBake(r) == \E b \in Bake \ born, recipe \in Recipe, ahead \in ReadyIn :
  LET bake == [status |-> "active", steps |-> PlanBake(recipe, now + ahead)]
  IN /\ born' = born \cup {b}
     /\ bakes' = Put(bakes, b, bake)
     /\ EditThenPlan(r, b, BakeReminders(bake))
     /\ UNCHANGED <<starters, feedings, strain>>

SaveBake(r, b, bake) ==
  /\ bakes' = [bakes EXCEPT ![b] = bake]
  /\ EditThenPlan(r, b, BakeReminders(bake))
  /\ UNCHANGED <<starters, feedings, born>>

PatchBake(r) == \E b \in DOMAIN bakes, status \in {"active", "done", "cancelled"} :
  /\ SaveBake(r, b, [bakes[b] EXCEPT !.status = status])
  /\ UNCHANGED strain

DropBake(r) == \E b \in DOMAIN bakes :
  /\ bakes' = Without(bakes, {b})
  /\ EditThenPlan(r, b, None)
  /\ strain' = {x \in strain : x[1] # b}
  /\ UNCHANGED <<starters, feedings, born>>

(* changeSteps, only of an active bake; the last step done ends it.         *)
ChangeSteps(r, b, steps) ==
  /\ bakes[b].status = "active"
  /\ SaveBake(r, b, [status |-> IF AnyOpen(steps) THEN "active" ELSE "done", steps |-> steps])

StepDone(r) == \E b \in DOMAIN bakes : \E k \in DOMAIN bakes[b].steps, ago \in {0, 1} :
  /\ ChangeSteps(r, b, CompleteStep(bakes[b].steps, k, now - ago))
  /\ strain' = IF Open(bakes[b].steps[k]) THEN strain ELSE strain \cup {<<b, "again">>}

StepFold(r) == \E b \in DOMAIN bakes : \E k \in DOMAIN bakes[b].steps, ago \in {0, 1} :
  /\ bakes[b].steps[k].folds > 0
  /\ ChangeSteps(r, b, LogFold(bakes[b].steps, k, now - ago))
  /\ UNCHANGED strain

Shift(r) == \E b \in DOMAIN bakes, minutes \in ShiftBy :
  LET steps == bakes[b].steps
      underWay == {i \in DOMAIN steps : UnderWay(steps[i], now)}
  IN /\ ChangeSteps(r, b, ShiftRemaining(steps, minutes, now))
     /\ strain' = strain \cup {<<b, "shift">>}
                         \cup {<<b, "overrun">> : i \in {j \in underWay : j + 1 \in underWay}}

-----------------------------------------------------------------------------
(* How a request goes on: it reads the starter again, unless it has the row *)
(* already, computes the reminders and replaces those of the group.         *)

Goto(r, pc, starter, put, saw) ==
  job' = [job EXCEPT ![r] = [pc |-> pc, on |-> job[r].on, starter |-> starter, put |-> put, saw |-> saw]]

Ends(r) ==
  /\ unsure' = IF r \in alone THEN unsure \ {job[r].on} ELSE unsure
  /\ alone' = alone \ {r}

Finish(r) ==
  /\ job' = [job EXCEPT ![r] = Resting]
  /\ Ends(r)

(* getStarter: deleted meanwhile, the request ends there.                   *)
ReadRecord(r) ==
  /\ job[r].pc = "record"
  /\ IF job[r].on \in DOMAIN starters
     THEN /\ Goto(r, "feeds", starters[job[r].on], None, {})
          /\ UNCHANGED <<alone, unsure>>
     ELSE Finish(r)
  /\ UNCHANGED <<now, tables, rows, devices, dispatch, edits, history, strain>>

ReadFeedings(r) ==
  /\ job[r].pc = "feeds"
  /\ Goto(r, "plan", NoStarter, StarterPlan(job[r].starter, FeedingsOf(job[r].on)), {})
  /\ UNCHANGED <<now, tables, rows, devices, dispatch, edits, history, alone, unsure, strain>>

(* The reminders as of now, and the DELETE of replaceReminders starts: it   *)
(* will delete the committed rows it sees.                                  *)
Plan(r) ==
  /\ job[r].pc = "plan"
  /\ Goto(r, "delete", NoStarter, Upcoming(job[r].put, now), {id \in DOMAIN rows : id[1] = job[r].on})
  /\ UNCHANGED <<now, tables, rows, devices, dispatch, edits, history, alone, unsure, strain>>

(* Rows that a transaction has deleted and not committed yet.               *)
Deleting(q) == IF job[q].pc = "insert" THEN job[q].saw ELSE {}
Locked == UNION {Deleting(q) : q \in Request}

(* It waits for such rows.                                                  *)
DeleteRows(r) ==
  /\ job[r].pc = "delete"
  /\ job[r].saw \cap Locked = {}
  /\ Goto(r, "insert", NoStarter, job[r].put, job[r].saw)
  /\ UNCHANGED <<now, tables, rows, devices, dispatch, edits, history, alone, unsure, strain>>

(* Once r has committed, the rows it deleted are skipped by the DELETEs     *)
(* that saw them; one that r stores under the same key is another row.      *)
Skip(r) ==
  job' = [q \in Request |-> IF q = r THEN Resting ELSE [job[q] EXCEPT !.saw = @ \ job[r].saw]]

(* INSERT .. ON CONFLICT DO UPDATE and COMMIT.                              *)
InsertRows(r) ==
  LET g == job[r].on
      put == job[r].put
      ids == {<<g, k>> : k \in DOMAIN put}
  IN /\ job[r].pc = "insert"
     /\ ids \cap UNION {Deleting(q) : q \in Request \ {r}} = {}
     /\ rows' = [id \in (DOMAIN rows \ job[r].saw) \cup ids |->
                   IF id \in ids THEN [due |-> put[id[2]], sent |-> FALSE] ELSE rows[id]]
     /\ Skip(r) /\ Ends(r)
     /\ UNCHANGED <<now, tables, devices, dispatch, edits, history, strain>>

(* A statement fails or the process goes down; the change stays.            *)
Fail(r) ==
  /\ job[r].pc # "idle"
  /\ job' = [job EXCEPT ![r] = Resting]
  /\ alone' = alone \ {r} /\ unsure' = unsure \cup {job[r].on}
  /\ UNCHANGED <<now, tables, rows, devices, dispatch, edits, history, strain>>

-----------------------------------------------------------------------------
(* The dispatcher.                                                          *)

DueRows == {id \in DOMAIN rows \ Locked : ~rows[id].sent /\ rows[id].due <= now}

Racing(id) == \E r \in InFlight(id[1]) :
  job[r].pc \in {"delete", "insert"} /\ id[2] \in DOMAIN job[r].put /\ job[r].put[id[2]] = rows[id].due

(* claimDueReminders is one statement: the oldest, passing over locked rows. *)
ClaimDueReminders(d) == \E ids \in SUBSET DueRows :
  /\ dispatch[d].pc = "idle"
  /\ ids # {} /\ Cardinality(ids) <= Batch
  /\ Cardinality(ids) = Batch \/ ids = DueRows
  /\ \A id \in ids, other \in DueRows \ ids : rows[id].due <= rows[other].due
  /\ rows' = [id \in DOMAIN rows |-> [due |-> rows[id].due, sent |-> rows[id].sent \/ id \in ids]]
  /\ raced' = raced \cup {<<id, rows[id].due>> : id \in {i \in ids : Racing(i)}}
  /\ dispatch' = [dispatch EXCEPT ![d] =
       [pc |-> "list", todo |-> {},
        batch |-> {<<id, rows[id].due>> : id \in {i \in ids : now - rows[i].due <= Late}}]]
  /\ UNCHANGED <<now, tables, devices, job, edits, pushed, twice, alone, unsure, strain>>

Pushing(d, todo) ==
  dispatch' = [dispatch EXCEPT ![d] = IF todo = {} THEN NoDispatch
                                      ELSE [pc |-> "push", batch |-> {}, todo |-> todo]]

(* listPushSubscriptions: each device gets each reminder of the batch.      *)
ListDevices(d) ==
  /\ dispatch[d].pc = "list"
  /\ Pushing(d, devices \X dispatch[d].batch)
  /\ UNCHANGED <<now, tables, rows, devices, job, edits, history, alone, unsure, strain>>

(* The push service takes it or fails it; or the device is gone, which      *)
(* forgets it and skips what is left for it.                                *)
Push(d) ==
  /\ dispatch[d].pc = "push"
  /\ \E x \in dispatch[d].todo :
       \/ /\ Pushing(d, dispatch[d].todo \ {x})
          /\ pushed' = pushed \cup {x}
          /\ twice' = IF x \in pushed THEN twice \cup {x} ELSE twice
          /\ UNCHANGED devices
       \/ /\ Pushing(d, {y \in dispatch[d].todo : y[1] # x[1]})
          /\ devices' = devices \ {x[1]}
          /\ UNCHANGED <<pushed, twice>>
  /\ UNCHANGED <<now, tables, rows, job, edits, raced, alone, unsure, strain>>

(* The database fails it, or its process goes down.                         *)
StopDispatch(d) ==
  /\ dispatch[d].pc # "idle"
  /\ dispatch' = [dispatch EXCEPT ![d] = NoDispatch]
  /\ UNCHANGED <<now, tables, rows, devices, job, edits, history, alone, unsure, strain>>

(* savePushSubscription.                                                    *)
Subscribe == \E e \in Device \ devices :
  /\ devices' = devices \cup {e}
  /\ UNCHANGED <<now, tables, rows, job, dispatch, edits, history, alone, unsure, strain>>

(* deletePushSubscription, or a test push that finds the device gone.       *)
Unsubscribe == \E e \in devices :
  /\ devices' = devices \ {e}
  /\ UNCHANGED <<now, tables, rows, job, dispatch, edits, history, alone, unsure, strain>>

Tick ==
  /\ now < MaxClock /\ now' = now + 1
  /\ UNCHANGED <<tables, rows, devices, job, dispatch, edits, history, alone, unsure, strain>>

StarterEdit(r) == NewStarter(r) \/ PatchStarter(r) \/ DropStarter(r) \/ NewFeeding(r) \/ PatchFeeding(r) \/ DropFeeding(r)
BakeEdit(r) == NewBake(r) \/ PatchBake(r) \/ DropBake(r) \/ StepDone(r) \/ StepFold(r) \/ Shift(r)
GoOn(r) == ReadRecord(r) \/ ReadFeedings(r) \/ Plan(r) \/ DeleteRows(r) \/ InsertRows(r)

Next ==
  \/ \E r \in Request : StarterEdit(r) \/ BakeEdit(r) \/ GoOn(r) \/ Fail(r)
  \/ \E d \in Dispatcher : ClaimDueReminders(d) \/ ListDevices(d) \/ Push(d) \/ StopDispatch(d)
  \/ Subscribe \/ Unsubscribe \/ Tick

Spec == Init /\ [][Next]_vars


-----------------------------------------------------------------------------
(* Every due time is a time, wherever it is kept, what is in flight belongs *)
(* to a group, and no feeding outlives its starter.                         *)
TypeOK ==
  /\ now \in 0 .. MaxClock /\ edits \in 0 .. MaxEdits
  /\ devices \subseteq Device /\ \A f \in feedings : f.starter \in DOMAIN starters
  /\ \A id \in DOMAIN rows : id[1] \in Group /\ rows[id].due \in Int /\ rows[id].sent \in BOOLEAN
  /\ \A r \in Request :
       /\ job[r].pc \in {"idle", "record", "feeds", "plan", "delete", "insert"}
       /\ job[r].pc # "idle" => job[r].on \in Group
       /\ \A k \in DOMAIN job[r].put : job[r].put[k] \in Int
  /\ \A d \in Dispatcher : dispatch[d].pc = "list" => dispatch[d].todo = {}

(* What the tables say of a group that is in neither is nothing.            *)
Implied(g) ==
  CASE g \in DOMAIN starters -> StarterPlan(starters[g], FeedingsOf(g))
    [] g \in DOMAIN bakes -> BakeReminders(bakes[g])
    [] OTHER -> None

(* Once the requests about a group are through, and they neither overlapped *)
(* nor failed since the last that ran alone, the reminders to come are      *)
(* those its starter or bake implies: no route leaves out the sync, and the *)
(* sync reads what it must.                                                 *)
RemindersCurrent ==
  \A g \in Group : InFlight(g) = {} /\ g \notin unsure =>
    {<<id[2], rows[id].due>> : id \in {i \in DOMAIN rows : i[1] = g /\ rows[i].due > now}}
      = {<<k, Implied(g)[k]>> : k \in {j \in DOMAIN Implied(g) : Implied(g)[j] > now}}

(* A device is handed the same reminder twice only if it was claimed while  *)
(* a request that had planned it before it was due was about to store it    *)
(* again; dispatchers that overlap, or crash, never do it.                  *)
TwiceOnlyInARace == \A x \in twice : x[2] \in raced

(* A bake's steps are done from the first on, whatever the client marks.    *)
DoneInOrder == \A b \in DOMAIN bakes : \A i, j \in DOMAIN bakes[b].steps :
  i < j /\ Open(bakes[b].steps[i]) => Open(bakes[b].steps[j])

(* Open steps overlap only if the plan was shifted while two of them were   *)
(* under way, the first overrunning.                                        *)
OverlapHasACause == \A b \in DOMAIN bakes :
  Overlap(bakes[b].steps) => <<b, "overrun">> \in strain

(* The step after the last one done starts when that was done, unless the   *)
(* plan was shifted or a step was marked done again.                        *)
NextStepFollows == \A b \in DOMAIN bakes : \A i \in DOMAIN bakes[b].steps \ {1} :
  LET steps == bakes[b].steps
  IN ~Open(steps[i - 1]) /\ Open(steps[i]) /\ {<<b, "again">>, <<b, "shift">>} \cap strain = {}
       => steps[i].start = steps[i - 1].done

(* repo/types.ts: what replaceReminders stores is all the group then has.   *)
ReplacesGroup == [][\A r \in Request : InsertRows(r) =>
  {id[2] : id \in {i \in DOMAIN rows' : i[1] = job[r].on}} = DOMAIN job[r].put]_vars
=============================================================================
