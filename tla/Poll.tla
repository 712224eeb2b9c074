-------------------------------- MODULE Poll --------------------------------
(***************************************************************************)
(* The poll job of ytdigest on Postgres (poll.ts, repo/postgres.ts) and the *)
(* tables it shares with the digest job.  Every await is a step of its own: *)
(* statements are autocommitted one by one and any of them may fail.        *)
(* A video is its channel and its rank there, 1 being the oldest upload.    *)
(***************************************************************************)
EXTENDS Integers, FiniteSets, FiniteSetsExt

CONSTANTS
  Users, Channels,
  Polls,        \* poll runs that may be under way at once
  MaxUploads,   \* bound: uploads per channel
  MaxClock,     \* bound: the clock
  MaxSubs,      \* bound: subscriptions ever made
  Modes,        \* notify modes a user picks from, among "all" and "rules"
  Cadences,     \* Daily, or the day of the week a weekly digest goes out on
  ListLimit,    \* uploads one poll lists at most: maxPages pages
  TrackLimit    \* MAX_TRACKED_VIDEOS_PER_CHANNEL

Daily == -1
Video == Channels \X (1..MaxUploads)

ASSUME PollAssumption ==
  /\ Users # {} /\ Channels # {}
  /\ MaxUploads \in Nat /\ MaxClock \in Nat \ {0} /\ MaxSubs \in Nat
  /\ Modes \subseteq {"all", "rules"}
  /\ Cadences \subseteq Nat \cup {Daily}
  /\ ListLimit \in Nat \ {0} /\ TrackLimit \in Nat \ {0}

Subscription ==
  [id: 1..MaxSubs, user: Users, channel: Channels, mode: Modes,
   cadence: Cadences, last: 0..MaxClock]

VARIABLES
  now,         \* the clock of the database and of the processes
  published,   \* YouTube: how many uploads each channel has (external)
  subs,        \* table subscriptions; last = 0 is last_digested_at NULL
  nextId,      \* the next subscription's id
  firstSeen,   \* table videos: first_seen_at, 0 for a video with no row
  counted,     \* videos with a row in video_stats_snapshots
  leased,      \* whether the lease's key exists
  poll,        \* the poll runs
  skipped      \* history: videos a poll left out or never got to insert

tables == <<subs, nextId, firstSeen, counted, leased>>
pollVars == <<now, published, subs, nextId, firstSeen, counted, leased, poll, skipped>>

Idle == [pc |-> "idle", todo |-> {}, channel |-> CHOOSE c \in Channels : TRUE,
         since |-> 0, rows |-> {}, asked |-> 0]

PollTypeOK ==
  /\ now \in 1..MaxClock
  /\ published \in [Channels -> 0..MaxUploads]
  /\ subs \subseteq Subscription
  /\ nextId \in 1..(MaxSubs + 1)
  /\ firstSeen \in [Video -> 0..MaxClock]
  /\ counted \subseteq Video
  /\ leased \in BOOLEAN
  /\ poll \in [Polls -> [pc: {"idle", "next", "list", "insert", "stats"},
                         todo: SUBSET Channels, channel: Channels,
                         since: 0..MaxUploads, rows: SUBSET (1..MaxUploads),
                         asked: 0..MaxClock]]
  /\ skipped \subseteq Video

PollInit ==
  /\ now = 1
  /\ published = [c \in Channels |-> 0]
  /\ subs = {}
  /\ nextId = 1
  /\ firstSeen = [v \in Video |-> 0]
  /\ counted = {}
  /\ leased = FALSE
  /\ poll = [p \in Polls |-> Idle]
  /\ skipped = {}

-----------------------------------------------------------------------------
(* Reads. *)

Known(c) == {n \in 1..MaxUploads : firstSeen[<<c, n>>] # 0}

\* Mutant: one past the latest.
LatestPlusOne(c) == Max({0} \cup {n + 1 : n \in Known(c)})

\* latestVideoId: the most recently published row of the channel, 0 for none.
LatestVideo(c) == Max({0} \cup Known(c))

\* trackedVideos: the channel's most recently published rows.
TrackedVideos(c) == {n \in Known(c) : Cardinality({m \in Known(c) : m > n}) < TrackLimit}

\* listNewUploads: newest first, down to the one known, through maxPages pages.
NewUploads(c, since) ==
  {n \in 1..published[c] : n > since /\ n > published[c] - ListLimit}

SubsOf(u) == {s \in subs : s.user = u}

\* channelsToPoll: channels with a subscriber.
ChannelsToPoll == {s.channel : s \in subs}

-----------------------------------------------------------------------------
(* The world around the jobs. *)

\* Time passes.
Tick ==
  /\ now < MaxClock
  /\ now' = now + 1
  /\ UNCHANGED <<published, tables, poll, skipped>>

\* A channel uploads a video (external).
Upload(c) ==
  /\ published[c] < MaxUploads
  /\ published' = [published EXCEPT ![c] = @ + 1]
  /\ UNCHANGED <<now, tables, poll, skipped>>

\* The lease's time to live runs out: a run died holding it, or takes too long.
Expire ==
  /\ leased
  /\ leased' = FALSE
  /\ UNCHANGED <<now, published, subs, nextId, firstSeen, counted, poll, skipped>>

\* POST /subscriptions: a conflict when the user has one for the channel.
Subscribe(u, c, mode, cadence) ==
  /\ nextId <= MaxSubs
  /\ ~\E s \in SubsOf(u) : s.channel = c
  /\ subs' = subs \cup {[id |-> nextId, user |-> u, channel |-> c, mode |-> mode,
                         cadence |-> cadence, last |-> 0]}
  /\ nextId' = nextId + 1
  /\ UNCHANGED <<now, published, firstSeen, counted, leased, poll, skipped>>

\* DELETE /subscriptions/:id
Unsubscribe(s) ==
  /\ s \in subs
  /\ subs' = subs \ {s}
  /\ UNCHANGED <<now, published, nextId, firstSeen, counted, leased, poll, skipped>>

\* PATCH /subscriptions/:id
EditSubscription(s, mode, cadence) ==
  /\ s \in subs
  /\ subs' = (subs \ {s}) \cup {[s EXCEPT !.mode = mode, !.cadence = cadence]}
  /\ UNCHANGED <<now, published, nextId, firstSeen, counted, leased, poll, skipped>>

-----------------------------------------------------------------------------
(* pollChannels and pollChannel. *)

\* Acquires the lease and reads the channels; without the lease it does nothing.
StartPoll(p) ==
  /\ poll[p].pc = "idle"
  /\ ~leased
  /\ leased' = TRUE
  /\ poll' = [poll EXCEPT ![p] = [Idle EXCEPT !.pc = "next", !.todo = ChannelsToPoll]]
  /\ UNCHANGED <<now, published, subs, nextId, firstSeen, counted, skipped>>

\* The loop comes to channel c: latestVideoId.
ReadLatest(p, c) ==
  /\ poll[p].pc = "next"
  /\ c \in poll[p].todo
  /\ poll' = [poll EXCEPT ![p].pc = "list", ![p].todo = @ \ {c},
                           ![p].channel = c, ![p].since = LatestVideo(c)]
  /\ UNCHANGED <<now, published, tables, skipped>>

\* youtube.listNewUploads; what lies beyond the last page is never listed again
\* once something newer is in the table.
ListUploads(p) ==
  LET c == poll[p].channel
      new == NewUploads(c, poll[p].since)
  IN /\ poll[p].pc = "list"
     /\ poll' = [poll EXCEPT ![p].pc = "insert", ![p].since = 0,
                              ![p].rows = new, ![p].asked = now]
     /\ skipped' = skipped \cup {<<c, n>> : n \in (poll[p].since + 1)..published[c] \ new}
     /\ UNCHANGED <<now, published, tables>>

\* Mutant: ON CONFLICT DO UPDATE SET first_seen_at.
InsertOver(p) ==
  LET v == <<poll[p].channel, Max(poll[p].rows)>>
  IN /\ poll[p].pc = "insert"
     /\ poll[p].rows # {}
     /\ firstSeen' = [firstSeen EXCEPT ![v] = now]
     /\ poll' = [poll EXCEPT ![p].rows = @ \ {v[2]}, ![p].asked = now]
     /\ UNCHANGED <<now, published, subs, nextId, counted, leased, skipped>>

\* Mutant: a return in the loop.
InsertNewest(p) ==
  LET v == <<poll[p].channel, Max(poll[p].rows)>>
  IN /\ poll[p].pc = "insert"
     /\ poll[p].rows # {}
     /\ \E t \in poll[p].asked..now :
          firstSeen' = [firstSeen EXCEPT ![v] = IF @ = 0 THEN t ELSE @]
     /\ poll' = [poll EXCEPT ![p].rows = {}, ![p].asked = now]
     /\ UNCHANGED <<now, published, subs, nextId, counted, leased, skipped>>

\* insertVideos, one statement per row, newest first, existing rows untouched.
\* first_seen_at is when the statement began, which may be before the row shows.
InsertVideo(p) ==
  LET v == <<poll[p].channel, Max(poll[p].rows)>>
  IN /\ poll[p].pc = "insert"
     /\ poll[p].rows # {}
     /\ \E t \in poll[p].asked..now :
          firstSeen' = [firstSeen EXCEPT ![v] = IF @ = 0 THEN t ELSE @]
     /\ poll' = [poll EXCEPT ![p].rows = @ \ {v[2]}, ![p].asked = now]
     /\ UNCHANGED <<now, published, subs, nextId, counted, leased, skipped>>

\* trackedVideos and their current stats from YouTube.
TrackVideos(p) ==
  /\ poll[p].pc = "insert"
  /\ poll[p].rows = {}
  /\ poll' = [poll EXCEPT ![p].pc = "stats", ![p].asked = 0,
                           ![p].rows = TrackedVideos(poll[p].channel)]
  /\ UNCHANGED <<now, published, tables, skipped>>

\* recordStats, one video after another, newest first; one that YouTube no
\* longer returns is passed over.
RecordStats(p) ==
  LET n == Max(poll[p].rows)
  IN /\ poll[p].pc = "stats"
     /\ poll[p].rows # {}
     /\ counted' \in {counted, counted \cup {<<poll[p].channel, n>>}}
     /\ poll' = [poll EXCEPT ![p].rows = @ \ {n}]
     /\ UNCHANGED <<now, published, subs, nextId, firstSeen, leased, skipped>>

\* markPolled, and on to the next channel.
MarkPolled(p) ==
  /\ poll[p].pc = "stats"
  /\ poll[p].rows = {}
  /\ poll' = [poll EXCEPT ![p].pc = "next"]
  /\ UNCHANGED <<now, published, tables, skipped>>

\* What a poll that stops here leaves uninserted.
Unfinished(p) ==
  IF poll[p].pc = "insert" THEN {<<poll[p].channel, n>> : n \in poll[p].rows} ELSE {}

\* YouTube or a statement fails: the channel is given up, the loop goes on.
FailChannel(p) ==
  /\ poll[p].pc \in {"list", "insert", "stats"}
  /\ poll' = [poll EXCEPT ![p] = [Idle EXCEPT !.pc = "next", !.todo = poll[p].todo]]
  /\ skipped' = skipped \cup Unfinished(p)
  /\ UNCHANGED <<now, published, tables>>

\* The finally: the key is deleted, whoever's it is by now.
EndPoll(p) ==
  /\ poll[p].pc = "next"
  /\ poll[p].todo = {}
  /\ leased' = FALSE
  /\ poll' = [poll EXCEPT ![p] = Idle]
  /\ UNCHANGED <<now, published, subs, nextId, firstSeen, counted, skipped>>

\* The process dies or is killed: the lease stays until it expires.
CrashPoll(p) ==
  /\ poll[p].pc # "idle"
  /\ poll' = [poll EXCEPT ![p] = Idle]
  /\ skipped' = skipped \cup Unfinished(p)
  /\ UNCHANGED <<now, published, tables>>

World ==
  \/ Tick
  \/ Expire
  \/ \E c \in Channels : Upload(c)
  \/ \E u \in Users, c \in Channels, mode \in Modes, cadence \in Cadences :
       Subscribe(u, c, mode, cadence)
  \/ \E s \in subs : Unsubscribe(s)
  \/ \E s \in subs, mode \in Modes, cadence \in Cadences :
       EditSubscription(s, mode, cadence)

PollStep(p) ==
  \/ StartPoll(p)
  \/ \E c \in Channels : ReadLatest(p, c)
  \/ ListUploads(p) \/ InsertVideo(p) \/ TrackVideos(p) \/ RecordStats(p)
  \/ MarkPolled(p) \/ FailChannel(p) \/ EndPoll(p) \/ CrashPoll(p)

PollNext == World \/ \E p \in Polls : PollStep(p)

PollSpec == PollInit /\ [][PollNext]_pollVars

-----------------------------------------------------------------------------
(* Triggers keep coming, an expired lease goes away, and what may fail does *)
(* not fail every time: YouTube, the database and the process are up again  *)
(* often enough.                                                            *)
PollFairSpec ==
  /\ PollSpec
  /\ WF_pollVars(Expire)
  /\ WF_pollVars(\E p \in Polls : StartPoll(p))
  /\ \A p \in Polls :
       /\ \A c \in Channels : SF_pollVars(ReadLatest(p, c))
       /\ SF_pollVars(ListUploads(p))
       /\ SF_pollVars(InsertVideo(p))
       /\ WF_pollVars(TrackVideos(p) \/ RecordStats(p) \/ MarkPolled(p) \/ EndPoll(p))

(* insertVideos goes from the newest to the oldest and the next poll stops  *)
(* at the newest row: so a video older than a known one is either there, or *)
(* about to be inserted, or some poll failed half way or listed too little. *)
(* Overlapping polls leave no gap of their own.                             *)
GapsHaveACause ==
  \A c \in Channels : \A m \in Known(c) : \A n \in 1..m :
    \/ n \in Known(c)
    \/ <<c, n>> \in skipped
    \/ \E p \in Polls : <<c, n>> \in Unfinished(p)

(* A row of videos keeps its first_seen_at, whoever inserts it again: a     *)
(* digest window that closed behind it does not open again.                 *)
FirstSeenIsKept ==
  [][\A v \in Video : firstSeen[v] # 0 => firstSeen'[v] = firstSeen[v]]_pollVars

(* While its channel has a subscriber, an upload is stored in the end, or   *)
(* an upload newer than it is (and then GapsHaveACause says why).           *)
UploadsArrive ==
  \A c \in Channels : \A n \in 1..MaxUploads :
    published[c] >= n ~> ((\E m \in Known(c) : m >= n) \/ c \notin ChannelsToPoll)

=============================================================================
