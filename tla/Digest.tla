------------------------------- MODULE Digest -------------------------------
(***************************************************************************)
(* The digest of ytdigest on Postgres (digest.ts, scheduler.ts, the        *)
(* run-now route) beside the poll.  The daily job goes through its users   *)
(* with one runDate; run-now is one user's digest, of every subscription.  *)
(* Every await is a step; any may be the last of its process.              *)
(***************************************************************************)
EXTENDS Poll

CONSTANTS
  Digests,    \* digests (the job or run-now) that may be under way at once
  Titled,     \* videos a user's rules match by their words alone
  DaysInWeek  \* 7

ASSUME DigestAssumption ==
  /\ Titled \subseteq Video
  /\ DaysInWeek \in Nat \ {0}

VARIABLES
  digest,      \* the digests under way
  notified,    \* table notified_videos
  mailed,      \* <<u, v>> that some mail to u listed (the outbox, external)
  again,       \* <<u, v>> that more than one mail to u listed
  rejected,    \* history: <<u, v>> a digest judged and did not take
  unsent,      \* history: <<u, v>> whose window closed, and whose mail never went
  unrecorded,  \* history: <<u, v>> mailed by a digest that could not record it
  doubled,     \* history: <<u, v>> that a digest read while another had it
  late         \* history: <<u, v>> whose row showed up behind a closed window

history == <<rejected, unsent, unrecorded, doubled, late>>
digestVars == <<digest, notified, mailed, again, history>>
vars == <<pollVars, digestVars>>

Pairs == Users \X Video

\* What a digest under way holds: users still to do; and of the user it is at,
\* the due rows as they were read and not marked yet, those of them whose
\* candidates are still to be read, the candidates still to be matched, as
\* <<video, row>>, and the matches as <<video, subscription id>>.
BetweenUsers(pc, users, runDate) ==
  [pc |-> pc, users |-> users, user |-> CHOOSE u \in Users : TRUE,
   runDate |-> runDate, due |-> {}, unread |-> {}, candidates |-> {}, lines |-> {}]

NoDigest == BetweenUsers("idle", {}, 0)

TypeOK ==
  /\ PollTypeOK
  /\ digest \in [Digests ->
       [pc: {"idle", "daily", "run-now", "build", "mark", "mail", "record"},
        users: SUBSET Users, user: Users, runDate: 0..MaxClock,
        due: SUBSET Subscription, unread: SUBSET Subscription,
        candidates: SUBSET (Video \X Subscription),
        lines: SUBSET (Video \X (1..MaxSubs))]]
  /\ \A d \in Digests :
       /\ \A s \in digest[d].due : s.user = digest[d].user
       /\ digest[d].unread \subseteq digest[d].due
       /\ digest[d].pc \in {"mail", "record"} => digest[d].due = {} /\ digest[d].lines # {}
       /\ digest[d].pc # "build" => digest[d].unread = {} /\ digest[d].candidates = {}
  /\ \A seen \in {notified, mailed, again, rejected, unsent, unrecorded, doubled, late} :
       seen \subseteq Pairs
  /\ again \subseteq mailed

Init ==
  /\ PollInit
  /\ digest = [d \in Digests |-> NoDigest]
  /\ notified = {} /\ mailed = {} /\ again = {}
  /\ rejected = {} /\ unsent = {} /\ unrecorded = {} /\ doubled = {} /\ late = {}

-----------------------------------------------------------------------------
(* Reads. *)

\* digestRecipients
Recipients == {s.user : s \in subs}

\* dueSubscriptions: a clock tick is a day here, as dayOfWeek reads it.
DueSubscriptions(u, runDate, force) ==
  {s \in SubsOf(u) : force \/ s.cadence \in {Daily, runDate % DaysInWeek}}

\* Mutant: NOT EXISTS over notified_videos left out.
CandidatesAll(u, s) ==
  {<<s.channel, n>> : n \in {m \in Known(s.channel) : firstSeen[<<s.channel, m>>] > s.last}}

\* Mutant: nv.user_id left out of the NOT EXISTS.
CandidatesNewToAll(u, s) ==
  {<<s.channel, n>> : n \in {m \in Known(s.channel) :
     /\ firstSeen[<<s.channel, m>>] > s.last
     /\ ~\E w \in Users : <<w, <<s.channel, m>>>> \in notified}}

\* candidateVideos: first seen since the last_digested_at that was read with
\* the subscription, and not notified.
CandidateVideos(u, s) ==
  {<<s.channel, n>> : n \in {m \in Known(s.channel) :
     firstSeen[<<s.channel, m>>] > s.last /\ <<u, <<s.channel, m>>>> \notin notified}}

\* matchVideo: what rules may say of v.  Words are all they have before the
\* first statistics; with these, they may say either.
Verdicts(s, v) ==
  IF s.mode = "all" \/ v \in Titled THEN {TRUE} ELSE {FALSE, (v \in counted)}

Ids(rows) == {s.id : s \in rows}

\* Under way for user u.
For(d, u) == digest[d].pc \in {"build", "mark", "mail", "record"} /\ digest[d].user = u

Taken(d) == {<<digest[d].user, line[1]>> : line \in digest[d].lines}
Pending(d) == {<<digest[d].user, x[1]>> : x \in digest[d].candidates}

\* Those whose subscription is marked.
TakenAndMarked(d) ==
  {<<digest[d].user, line[1]>> : line \in {l \in digest[d].lines : l[2] \notin Ids(digest[d].due)}}

\* The window of u's subscription to c is past time t: in the table, or because
\* a digest will mark it so that does not see rows from t any more.
Closed(u, c, t) ==
  \/ \E s \in SubsOf(u) : s.channel = c /\ s.last >= t
  \/ \E d \in Digests : \E s \in digest[d].due :
       /\ For(d, u) /\ s.channel = c /\ digest[d].runDate >= t
       /\ s \notin digest[d].unread \/ s.last >= t

-----------------------------------------------------------------------------
\* runDailyDigest starts, from the timer or from the scheduler.
StartDaily(d) ==
  /\ digest[d].pc = "idle"
  /\ Recipients # {}
  /\ digest' = [digest EXCEPT ![d] = BetweenUsers("daily", Recipients, now)]
  /\ UNCHANGED <<pollVars, notified, mailed, again, history>>

\* POST /digests/run-now
RunNow(d, u) ==
  /\ digest[d].pc = "idle"
  /\ digest' = [digest EXCEPT ![d] = BetweenUsers("run-now", {u}, now)]
  /\ UNCHANGED <<pollVars, notified, mailed, again, history>>

\* d with its user done: on to the daily job's other users, if any.
Rest(d, users) ==
  IF users = {} THEN NoDigest ELSE BetweenUsers("daily", users, digest[d].runDate)

\* sendDigest for u: dueSubscriptions, and nothing more when there is none or
\* the statement fails.
ReadDue(d, u) ==
  LET due == DueSubscriptions(u, digest[d].runDate, digest[d].pc = "run-now")
      others == digest[d].users \ {u}
  IN /\ digest[d].pc \in {"daily", "run-now"}
     /\ u \in digest[d].users
     /\ \/ digest' = [digest EXCEPT ![d] = Rest(d, others)]
        \/ /\ due # {}
           /\ digest' = [digest EXCEPT ![d].pc = "build", ![d].users = others,
                                       ![d].user = u, ![d].due = due, ![d].unread = due]
     /\ UNCHANGED <<pollVars, notified, mailed, again, history>>

\* Matching comes next, then the next subscription, then markDigested.
Building(d, unread, candidates) ==
  IF unread = {} /\ candidates = {} THEN "mark" ELSE "build"

\* candidateVideos of one subscription; after it enabledRules, whose rows
\* never change here.
ReadCandidates(d) ==
  /\ digest[d].pc = "build"
  /\ digest[d].candidates = {}
  /\ \E s \in digest[d].unread :
       LET u == digest[d].user
           videos == CandidateVideos(u, s)
       IN /\ digest' = [digest EXCEPT
               ![d].unread = @ \ {s},
               ![d].candidates = videos \X {s},
               ![d].pc = Building(d, digest[d].unread \ {s}, videos)]
          /\ doubled' = doubled \cup (({u} \X videos) \cap
               UNION {Pending(e) \cup Taken(e) : e \in {e \in Digests \ {d} : For(e, u)}})
  /\ UNCHANGED <<pollVars, notified, mailed, again, rejected, unsent, unrecorded, late>>

\* latestSnapshot of one candidate, the oldest, and what the rules say of it.
MatchVideo(d) ==
  /\ digest[d].pc = "build"
  /\ \E x \in digest[d].candidates : \E matched \in Verdicts(x[2], x[1]) :
       LET rest == digest[d].candidates \ {x}
       IN /\ \A y \in rest : x[1][2] <= y[1][2]
          /\ digest' = [digest EXCEPT
               ![d].candidates = rest,
               ![d].lines = IF matched THEN @ \cup {<<x[1], x[2].id>>} ELSE @,
               ![d].pc = Building(d, digest[d].unread, rest)]
          /\ rejected' = IF matched THEN rejected ELSE rejected \cup {<<digest[d].user, x[1]>>}
  /\ UNCHANGED <<pollVars, notified, mailed, again, unsent, unrecorded, doubled, late>>

\* Mutant: an empty digest is mailed too.
MarkedAlways(d, s) ==
  [digest EXCEPT ![d].due = @ \ {s}, ![d].pc = IF digest[d].due = {s} THEN "mail" ELSE "mark"]

\* What d goes on with once s is marked; with no line there is nothing to mail.
Marked(d, s) ==
  IF digest[d].due # {s} \/ digest[d].lines # {}
  THEN [digest EXCEPT ![d].due = @ \ {s},
                      ![d].pc = IF digest[d].due = {s} THEN "mail" ELSE "mark"]
  ELSE [digest EXCEPT ![d] = Rest(d, digest[d].users)]

\* markDigested, one UPDATE per id; one that is gone meanwhile updates nothing.
MarkDigested(d) ==
  /\ digest[d].pc = "mark"
  /\ \E s \in digest[d].due :
       /\ subs' = {IF row.id = s.id THEN [row EXCEPT !.last = digest[d].runDate] ELSE row :
                   row \in subs}
       /\ digest' = Marked(d, s)
  /\ UNCHANGED <<now, published, nextId, firstSeen, counted, leased, poll, skipped,
                 notified, mailed, again, history>>

\* mailer.send
SendMail(d) ==
  /\ digest[d].pc = "mail"
  /\ mailed' = mailed \cup Taken(d)
  /\ again' = again \cup (mailed \cap Taken(d))
  /\ digest' = [digest EXCEPT ![d].pc = "record"]
  /\ UNCHANGED <<pollVars, notified, history>>

\* recordDigest, one transaction: digest_items references subscriptions, so
\* it needs every line's subscription to be there still.
RecordDigest(d) ==
  /\ digest[d].pc = "record"
  /\ {line[2] : line \in digest[d].lines} \subseteq Ids(subs)
  /\ notified' = notified \cup Taken(d)
  /\ digest' = [digest EXCEPT ![d] = Rest(d, digest[d].users)]
  /\ UNCHANGED <<pollVars, mailed, again, history>>

\* What a digest that stops here leaves behind.
Abandon(d) ==
  /\ unsent' = unsent \cup (IF digest[d].pc # "record" THEN TakenAndMarked(d) ELSE {})
  /\ unrecorded' = unrecorded \cup (IF digest[d].pc = "record" THEN Taken(d) ELSE {})
  /\ UNCHANGED <<pollVars, notified, mailed, again, rejected, doubled, late>>

\* A statement or the mail fails: the loop logs it and takes the next user.
FailDigest(d) ==
  /\ digest[d].pc \in {"build", "mark", "mail", "record"}
  /\ digest' = [digest EXCEPT ![d] = Rest(d, digest[d].users)]
  /\ Abandon(d)

\* The process dies, or the platform kills it at its timeout.
CrashDigest(d) ==
  /\ digest[d].pc # "idle"
  /\ digest' = [digest EXCEPT ![d] = NoDigest]
  /\ Abandon(d)

\* The poll's and the users' steps, beside the digests.  A row of videos that
\* becomes visible with a first_seen_at some window has passed is late.
Beside ==
  /\ PollNext
  /\ late' = late \cup
       {pair \in Pairs : /\ firstSeen[pair[2]] = 0 /\ firstSeen'[pair[2]] # 0
                         /\ Closed(pair[1], pair[2][1], firstSeen'[pair[2]])}
  /\ UNCHANGED <<digest, notified, mailed, again, rejected, unsent, unrecorded, doubled>>

DigestStep(d) ==
  \/ StartDaily(d)
  \/ \E u \in Users : RunNow(d, u) \/ ReadDue(d, u)
  \/ ReadCandidates(d) \/ MatchVideo(d) \/ MarkDigested(d) \/ SendMail(d) \/ RecordDigest(d)
  \/ FailDigest(d) \/ CrashDigest(d)

Next == Beside \/ \E d \in Digests : DigestStep(d)

Spec == Init /\ [][Next]_vars

-----------------------------------------------------------------------------
(* A video behind a subscription's window is accounted for: recorded as     *)
(* notified, on its way, judged and not taken, or lost in one of the three  *)
(* ways the code has: its mail or its record failed after markDigested, or  *)
(* its row appeared with a first_seen_at from before the window's end.      *)
NoSilentLoss ==
  \A s \in subs : \A n \in Known(s.channel) :
    LET v == <<s.channel, n>>
    IN firstSeen[v] <= s.last =>
         \/ <<s.user, v>> \in notified \cup rejected \cup unsent \cup unrecorded \cup late
         \/ \E d \in Digests : For(d, s.user) /\ <<s.user, v>> \in Taken(d)

(* A video is mailed to a user again only after a digest that mailed it     *)
(* could not record it, or when two digests of the user had it at once.     *)
MailedAgainHasACause == again \subseteq unrecorded \cup doubled

(* "so a video is never sent to the same user twice" (repo/types.ts, of     *)
(* recordDigest; the contract test "never sends the same video twice").     *)
NeverTwice == again = {}

=============================================================================
