---------------------------- MODULE DigestProofs ----------------------------
(***************************************************************************)
(* Proofs about ytdigest, for any number of polls, digests, users,         *)
(* channels and videos.  In order: the types of the poll, and that a video *)
(* missing between two stored ones has a cause (PollInv); that a stored    *)
(* video keeps its first-seen time; the types of the digest; that no video *)
(* behind a closed window is lost in silence (WindowsInv); and that a      *)
(* video is mailed again only for the two causes MailedAgainHasACause      *)
(* names (MailInv).                                                        *)
(***************************************************************************)
EXTENDS Digest, TLAPS, WellFoundedInduction

-----------------------------------------------------------------------------
(* Of some natural numbers, one is the least; of some up to a bound, Max is *)
(* the greatest.                                                            *)
LEMMA Least ==
  ASSUME NEW N \in SUBSET Nat, N # {}
  PROVE  \E m \in N : \A k \in N : m <= k
<1>1. PICK m \in N : \A k \in N : <<k, m>> \notin OpToRel(<, Nat)
  BY NatLessThanWellFounded, WFMin
<1>2. \A k \in N : ~(k < m)
  BY <1>1 DEF OpToRel
<1> QED BY <1>2

LEMMA MaxIs ==
  ASSUME NEW b \in Nat, NEW S \in SUBSET (0 .. b), S # {}
  PROVE  Max(S) \in S /\ \A k \in S : k <= Max(S)
<1>1. PICK T : T = {k \in Nat : k <= b /\ b - k \in S}
  OBVIOUS
<1>2. T # {} /\ T \in SUBSET Nat
  <2>1. PICK k \in S : TRUE
    OBVIOUS
  <2>2. b - k \in Nat /\ b - k <= b /\ b - (b - k) = k
    BY <2>1
  <2> QED BY <1>1, <2>1, <2>2
<1>3. PICK m \in T : \A k \in T : m <= k
  BY <1>2, Least
<1>4. b - m \in S
  BY <1>1, <1>3
<1>5. \A k \in S : k <= b - m
  <2> SUFFICES ASSUME NEW k \in S PROVE k <= b - m
    OBVIOUS
  <2>1. b - k \in Nat /\ b - k <= b /\ b - (b - k) = k
    OBVIOUS
  <2>2. b - k \in T
    BY <1>1, <2>1
  <2>3. m \in Nat /\ m <= b - k
    BY <1>1, <1>3, <2>2
  <2> QED BY <2>3
<1>6. \A k \in S : b - m >= k
  BY <1>4, <1>5
<1>7. \E x \in S : \A k \in S : x >= k
  BY <1>4, <1>6
<1>8. Max(S) \in S /\ \A k \in S : Max(S) >= k
  BY <1>7 DEF Max
<1> QED BY <1>8

LEMMA LatestIs ==
  ASSUME PollTypeOK, NEW c \in Channels
  PROVE  LatestVideo(c) \in 0 .. MaxUploads /\ (LatestVideo(c) = 0 \/ LatestVideo(c) \in Known(c))
<1>1. {0} \cup Known(c) \in SUBSET (0 .. MaxUploads) /\ MaxUploads \in Nat
  BY PollAssumption DEF Known
<1>2. LatestVideo(c) \in {0} \cup Known(c)
  BY <1>1, MaxIs DEF LatestVideo
<1> QED BY <1>1, <1>2

-----------------------------------------------------------------------------
(* Types.                                                                   *)
PollRow ==
  [pc: {"idle", "next", "list", "insert", "stats"}, todo: SUBSET Channels, channel: Channels,
   since: 0 .. MaxUploads, rows: SUBSET (1 .. MaxUploads), asked: 0 .. MaxClock]

LEMMA IdleIs == Idle \in PollRow /\ Idle.pc = "idle" /\ Idle.rows = {}
<1>1. (CHOOSE c \in Channels : TRUE) \in Channels
  BY PollAssumption
<1>2. 0 \in 0 .. MaxUploads /\ 0 \in 0 .. MaxClock
  BY PollAssumption
<1> QED BY <1>1, <1>2 DEF Idle, PollRow

LEMMA InitPollTypes == PollInit => PollTypeOK
<1>1. 1 \in 1 .. MaxClock /\ 0 \in 0 .. MaxUploads /\ 1 \in 1 .. (MaxSubs + 1) /\ 0 \in 0 .. MaxClock
  BY PollAssumption
<1> QED BY <1>1, IdleIs DEF PollInit, PollTypeOK, PollRow

LEMMA WorldTypes ==
  ASSUME PollTypeOK, World
  PROVE  PollTypeOK'
<1>1. CASE Tick
  <2>1. now' \in 1 .. MaxClock
    BY <1>1, PollAssumption DEF Tick, PollTypeOK
  <2> QED BY <1>1, <2>1 DEF Tick, PollTypeOK, tables
<1>2. CASE Expire
  BY <1>2 DEF Expire, PollTypeOK
<1>3. ASSUME NEW c \in Channels, Upload(c) PROVE PollTypeOK'
  <2>1. published[c] + 1 \in 0 .. MaxUploads
    BY <1>3, PollAssumption DEF Upload, PollTypeOK
  <2> QED BY <1>3, <2>1 DEF Upload, PollTypeOK, tables
<1>4. ASSUME NEW u \in Users, NEW c \in Channels, NEW mode \in Modes, NEW cadence \in Cadences,
             Subscribe(u, c, mode, cadence)
      PROVE  PollTypeOK'
  <2>1. nextId \in 1 .. MaxSubs /\ nextId + 1 \in 1 .. (MaxSubs + 1) /\ 0 \in 0 .. MaxClock
    BY <1>4, PollAssumption DEF Subscribe, PollTypeOK
  <2>2. subs' \subseteq Subscription
    BY <1>4, <2>1 DEF Subscribe, PollTypeOK, Subscription
  <2> QED BY <1>4, <2>1, <2>2 DEF Subscribe, PollTypeOK
<1>5. ASSUME NEW s \in subs, Unsubscribe(s) PROVE PollTypeOK'
  BY <1>5 DEF Unsubscribe, PollTypeOK
<1>6. ASSUME NEW s \in subs, NEW mode \in Modes, NEW cadence \in Cadences, EditSubscription(s, mode, cadence)
      PROVE  PollTypeOK'
  <2>1. subs' \subseteq Subscription
    BY <1>6 DEF EditSubscription, PollTypeOK, Subscription
  <2> QED BY <1>6, <2>1 DEF EditSubscription, PollTypeOK
<1> QED BY <1>1, <1>2, <1>3, <1>4, <1>5, <1>6 DEF World

LEMMA PollStepTypes ==
  ASSUME PollTypeOK, NEW p \in Polls, PollStep(p)
  PROVE  PollTypeOK'
<1>0. poll \in [Polls -> PollRow] /\ now \in 1 .. MaxClock /\ MaxClock \in Nat /\ MaxUploads \in Nat
      /\ published \in [Channels -> 0 .. MaxUploads] /\ skipped \subseteq Video
      /\ firstSeen \in [Video -> 0 .. MaxClock] /\ counted \subseteq Video
  BY PollAssumption DEF PollTypeOK, PollRow
<1>1. poll[p] \in PollRow /\ poll[p].channel \in Channels /\ poll[p].todo \subseteq Channels
      /\ poll[p].rows \in SUBSET (1 .. MaxUploads) /\ poll[p].since \in 0 .. MaxUploads
      /\ poll[p].asked \in 0 .. MaxClock
  BY <1>0 DEF PollRow
<1>a. now \in 0 .. MaxClock /\ 0 \in 0 .. MaxClock /\ 0 \in 0 .. MaxUploads
  BY <1>0
<1> DEFINE Typed == poll' \in [Polls -> PollRow]
<1>2. ASSUME Typed, UNCHANGED <<now, published, tables, skipped>> PROVE PollTypeOK'
  BY <1>2 DEF PollTypeOK, PollRow, tables
<1>3. Unfinished(p) \subseteq Video
  BY <1>1 DEF Unfinished, Video
<1>4. CASE StartPoll(p)
  <2>1. ChannelsToPoll \subseteq Channels
    BY DEF PollTypeOK, ChannelsToPoll, Subscription
  <2>2. [Idle EXCEPT !.pc = "next", !.todo = ChannelsToPoll] \in PollRow
    BY <2>1, IdleIs DEF PollRow
  <2>3. Typed
    BY <1>0, <1>4, <2>2 DEF StartPoll
  <2> QED BY <1>4, <2>3 DEF StartPoll, PollTypeOK, PollRow
<1>5. ASSUME NEW c \in Channels, ReadLatest(p, c) PROVE PollTypeOK'
  <2>1. LatestVideo(c) \in 0 .. MaxUploads
    BY LatestIs
  <2>2. PICK n : n = LatestVideo(c)
    OBVIOUS
  <2>3. [poll[p] EXCEPT !.pc = "list", !.todo = @ \ {c}, !.channel = c, !.since = n] \in PollRow
    BY <1>1, <2>1, <2>2 DEF PollRow
  <2>4. Typed
    BY <1>0, <1>5, <2>2, <2>3 DEF ReadLatest
  <2> QED BY <1>5, <2>4, <1>2 DEF ReadLatest
<1>6. CASE ListUploads(p)
  <2>1. NewUploads(poll[p].channel, poll[p].since) \in SUBSET (1 .. MaxUploads)
    BY <1>0, <1>1 DEF NewUploads
  <2>2. PICK new : new = NewUploads(poll[p].channel, poll[p].since)
    OBVIOUS
  <2>3. [poll[p] EXCEPT !.pc = "insert", !.since = 0, !.rows = new, !.asked = now] \in PollRow
    BY <1>a, <1>1, <2>1, <2>2 DEF PollRow
  <2>4. Typed
    BY <1>0, <1>6, <2>2, <2>3 DEF ListUploads
  <2>5. skipped' \subseteq Video
    <3>1. \A n \in (poll[p].since + 1) .. published[poll[p].channel] : n \in 1 .. MaxUploads
      BY <1>0, <1>1
    <3>2. skipped' \subseteq skipped \cup
            {<<poll[p].channel, n>> : n \in (poll[p].since + 1) .. published[poll[p].channel]}
      BY <1>6 DEF ListUploads
    <3> QED BY <1>0, <1>1, <3>1, <3>2 DEF Video
  <2> QED BY <1>6, <2>4, <2>5 DEF ListUploads, PollTypeOK, PollRow, tables
<1>7. CASE InsertVideo(p)
  <2>1. PICK n : n = Max(poll[p].rows)
    OBVIOUS
  <2>2. PICK t \in poll[p].asked .. now :
          firstSeen' = [firstSeen EXCEPT ![<<poll[p].channel, n>>] = IF @ = 0 THEN t ELSE @]
    BY <1>7, <2>1 DEF InsertVideo
  <2>3. t \in 0 .. MaxClock
    BY <1>0, <1>1
  <2>4. firstSeen' \in [Video -> 0 .. MaxClock]
    BY <1>0, <2>2, <2>3
  <2>5. [poll[p] EXCEPT !.rows = @ \ {n}, !.asked = now] \in PollRow
    BY <1>a, <1>1 DEF PollRow
  <2>6. Typed
    BY <1>0, <1>7, <2>1, <2>5 DEF InsertVideo
  <2> QED BY <1>7, <2>4, <2>6 DEF InsertVideo, PollTypeOK, PollRow
<1>8. CASE TrackVideos(p)
  <2>1. PICK rows : rows = TrackedVideos(poll[p].channel)
    OBVIOUS
  <2>2. rows \in SUBSET (1 .. MaxUploads)
    BY <2>1 DEF TrackedVideos, Known
  <2>3. [poll[p] EXCEPT !.pc = "stats", !.asked = 0, !.rows = rows] \in PollRow
    BY <1>a, <1>1, <2>2 DEF PollRow
  <2>4. Typed
    BY <1>0, <1>8, <2>1, <2>3 DEF TrackVideos
  <2> QED BY <1>8, <2>4, <1>2 DEF TrackVideos
<1>9. CASE RecordStats(p)
  <2>1. PICK n : n = Max(poll[p].rows)
    OBVIOUS
  <2>2. n \in 1 .. MaxUploads
    <3>1. poll[p].rows \in SUBSET (0 .. MaxUploads) /\ poll[p].rows # {}
      BY <1>1, <1>9 DEF RecordStats
    <3> QED BY <1>0, <1>1, <2>1, <3>1, MaxIs
  <2>3. counted' \subseteq Video
    BY <1>0, <1>1, <1>9, <2>1, <2>2 DEF RecordStats, Video
  <2>4. [poll[p] EXCEPT !.rows = @ \ {n}] \in PollRow
    BY <1>1 DEF PollRow
  <2>5. Typed
    BY <1>0, <1>9, <2>1, <2>4 DEF RecordStats
  <2> QED BY <1>9, <2>3, <2>5 DEF RecordStats, PollTypeOK, PollRow
<1>10. CASE MarkPolled(p)
  <2>1. [poll[p] EXCEPT !.pc = "next"] \in PollRow
    BY <1>1 DEF PollRow
  <2>2. Typed
    BY <1>0, <1>10, <2>1 DEF MarkPolled
  <2> QED BY <1>10, <2>2, <1>2 DEF MarkPolled
<1>11. CASE FailChannel(p)
  <2>1. [Idle EXCEPT !.pc = "next", !.todo = poll[p].todo] \in PollRow
    BY <1>1, IdleIs DEF PollRow
  <2>2. Typed
    BY <1>0, <1>11, <2>1 DEF FailChannel
  <2> QED BY <1>0, <1>3, <1>11, <2>2 DEF FailChannel, PollTypeOK, PollRow, tables
<1>12. CASE EndPoll(p)
  <2>1. Typed
    BY <1>0, <1>12, IdleIs DEF EndPoll
  <2> QED BY <1>12, <2>1 DEF EndPoll, PollTypeOK, PollRow
<1>13. CASE CrashPoll(p)
  <2>1. Typed
    BY <1>0, <1>13, IdleIs DEF CrashPoll
  <2> QED BY <1>0, <1>3, <1>13, <2>1 DEF CrashPoll, PollTypeOK, PollRow, tables
<1> QED BY <1>4, <1>5, <1>6, <1>7, <1>8, <1>9, <1>10, <1>11, <1>12, <1>13 DEF PollStep

LEMMA NextPollTypes == PollTypeOK /\ PollNext => PollTypeOK'
BY WorldTypes, PollStepTypes DEF PollNext

-----------------------------------------------------------------------------
(* Gaps.                                                                    *)

(* What GapsHaveACause asks of an upload older than a stored one.           *)
Covered(c, n) ==
  \/ n \in Known(c)
  \/ <<c, n>> \in skipped
  \/ \E p \in Polls : <<c, n>> \in Unfinished(p)

(* A poll lists from a stored row on, or from the first; and below a row it *)
(* has yet to insert nothing is missing without a cause.                    *)
SinceStored(p) == poll[p].since = 0 \/ poll[p].since \in Known(poll[p].channel)
SinceIsKnown == \A p \in Polls : poll[p].pc = "list" => SinceStored(p)
RowsCovered(p) == \A m \in poll[p].rows : \A n \in 1 .. m : Covered(poll[p].channel, n)
InsertsCovered == \A p \in Polls :
  poll[p].pc = "insert" => poll[p].asked \in 1 .. now /\ RowsCovered(p)

PollInv == PollTypeOK /\ SinceIsKnown /\ InsertsCovered /\ GapsHaveACause

(* A step of one poll that leaves nothing stored, skipped or to be inserted *)
(* without a trace keeps what was covered so.                               *)
LEMMA CoveredStays ==
  ASSUME NEW p, \A q \in Polls : q # p => poll'[q] = poll[q],
         skipped \subseteq skipped', \A c \in Channels : Known(c) \subseteq Known(c)',
         \A c \in Channels : \A n : <<c, n>> \in Unfinished(p) =>
           <<c, n>> \in Unfinished(p)' \/ <<c, n>> \in skipped' \/ n \in Known(c)',
         NEW c \in Channels, NEW n, Covered(c, n)
  PROVE  Covered(c, n)'
<1>1. \A q \in Polls : q # p => Unfinished(q)' = Unfinished(q)
  BY DEF Unfinished
<1>2. CASE n \in Known(c) \/ <<c, n>> \in skipped
  BY <1>2 DEF Covered
<1>3. ASSUME NEW q \in Polls, <<c, n>> \in Unfinished(q) PROVE Covered(c, n)'
  BY <1>1, <1>3 DEF Covered
<1> QED BY <1>2, <1>3 DEF Covered

LEMMA StepCovers ==
  ASSUME PollInv, PollTypeOK', now <= now',
         NEW p, \A q \in Polls : q # p => poll'[q] = poll[q],
         skipped \subseteq skipped', \A c \in Channels : Known(c) \subseteq Known(c)',
         \A c \in Channels : \A n : <<c, n>> \in Unfinished(p) =>
           <<c, n>> \in Unfinished(p)' \/ <<c, n>> \in skipped' \/ n \in Known(c)',
         \A c \in Channels : \A m \in Known(c)' \ Known(c) :
           p \in Polls /\ poll[p].pc = "insert" /\ poll[p].channel = c /\ m \in poll[p].rows,
         p \in Polls /\ poll'[p].pc = "list" => SinceStored(p)',
         p \in Polls /\ poll'[p].pc = "insert" => poll'[p].asked \in 1 .. now' /\ RowsCovered(p)'
  PROVE  PollInv'
<1>1. \A c \in Channels : \A n : Covered(c, n) => Covered(c, n)'
  BY CoveredStays
<1>2. \A q \in Polls : poll[q].channel \in Channels /\ now \in Int /\ now' \in Int
  BY DEF PollInv, PollTypeOK
<1>3. GapsHaveACause'
  <2> SUFFICES ASSUME NEW c \in Channels, NEW m \in Known(c)', NEW n \in 1 .. m PROVE Covered(c, n)'
    BY DEF GapsHaveACause, Covered
  <2>1. CASE m \in Known(c)
    <3>1. Covered(c, n)
      BY <2>1 DEF PollInv, GapsHaveACause, Covered
    <3> QED BY <1>1, <3>1
  <2>2. CASE m \notin Known(c)
    <3>1. p \in Polls /\ poll[p].pc = "insert" /\ poll[p].channel = c /\ m \in poll[p].rows
      BY <2>2
    <3>2. Covered(c, n)
      BY <3>1 DEF PollInv, InsertsCovered, RowsCovered
    <3> QED BY <1>1, <3>2
  <2> QED BY <2>1, <2>2
<1>4. SinceIsKnown'
  <2> SUFFICES ASSUME NEW q \in Polls, q # p, poll'[q].pc = "list" PROVE SinceStored(q)'
    BY DEF SinceIsKnown
  <2>1. poll'[q] = poll[q] /\ poll[q].channel \in Channels
    BY <1>2
  <2>2. SinceStored(q)
    BY <2>1 DEF PollInv, SinceIsKnown
  <2>3. PICK c \in Channels : c = poll[q].channel
    BY <2>1
  <2>4. Known(c) \subseteq Known(c)'
    OBVIOUS
  <2> QED BY <2>1, <2>2, <2>3, <2>4 DEF SinceStored, Known
<1>5. InsertsCovered'
  <2> SUFFICES ASSUME NEW q \in Polls, q # p, poll'[q].pc = "insert"
               PROVE  poll'[q].asked \in 1 .. now' /\ RowsCovered(q)'
    BY DEF InsertsCovered
  <2>1. poll'[q] = poll[q]
    OBVIOUS
  <2>2. poll[q].asked \in 1 .. now /\ RowsCovered(q)
    BY <2>1 DEF PollInv, InsertsCovered
  <2>3. poll'[q].asked \in 1 .. now'
    BY <2>1, <2>2, <1>2
  <2>4. PICK c \in Channels : c = poll[q].channel /\ c = poll'[q].channel
    BY <1>2, <2>1
  <2>5. \A m \in poll'[q].rows : \A n \in 1 .. m : Covered(c, n)'
    BY <1>1, <2>1, <2>2, <2>4 DEF RowsCovered
  <2>6. RowsCovered(q)'
    BY <2>4, <2>5 DEF RowsCovered, Covered, Known
  <2> QED BY <2>3, <2>6
<1> QED BY <1>3, <1>4, <1>5 DEF PollInv

(* A step that changes none of this, and no poll.                           *)
LEMMA NoPollCovers ==
  ASSUME PollInv, PollTypeOK', now <= now', UNCHANGED <<poll, firstSeen, skipped>>
  PROVE  PollInv'
<1>1. \A c \in Channels : Known(c)' = Known(c)
  BY DEF Known
<1>2. PICK p : p \notin Polls
  BY NoSetContainsEverything
<1>3. \A c \in Channels : \A n : <<c, n>> \in Unfinished(p) => <<c, n>> \in Unfinished(p)'
  BY DEF Unfinished
<1> QED BY <1>1, <1>2, <1>3, StepCovers

LEMMA InitPollInv == PollInit => PollInv
<1> SUFFICES ASSUME PollInit PROVE PollInv
  OBVIOUS
<1>1. \A p \in Polls : poll[p].pc = "idle"
  BY IdleIs DEF PollInit
<1>2. \A c \in Channels : Known(c) = {}
  BY DEF PollInit, Known, Video
<1> QED BY <1>1, <1>2, InitPollTypes DEF PollInv, SinceIsKnown, InsertsCovered, GapsHaveACause

(* A step of a poll that stores nothing.                                    *)
LEMMA StoresNothing ==
  ASSUME PollInv, PollTypeOK', NEW p \in Polls, NEW row, poll' = [poll EXCEPT ![p] = row],
         UNCHANGED <<now, firstSeen>>, skipped \subseteq skipped',
         \A c \in Channels : \A n : <<c, n>> \in Unfinished(p) =>
           <<c, n>> \in Unfinished(p)' \/ <<c, n>> \in skipped',
         row.pc = "list" => SinceStored(p)',
         row.pc = "insert" => row.asked \in 1 .. now /\ RowsCovered(p)'
  PROVE  PollInv'
<1>1. \A c : Known(c)' = Known(c)
  BY DEF Known
<1>2. poll'[p] = row /\ \A q \in Polls : q # p => poll'[q] = poll[q]
  BY DEF PollInv, PollTypeOK
<1>3. now \in Int /\ now' = now
  BY DEF PollInv, PollTypeOK
<1> QED BY <1>1, <1>2, <1>3, StepCovers

LEMMA PollStepCovers ==
  ASSUME PollInv, PollTypeOK', NEW p \in Polls, PollStep(p)
  PROVE  PollInv'
<1>0. poll \in [Polls -> PollRow] /\ now \in Int /\ MaxClock \in Nat /\ MaxUploads \in Nat
      /\ published \in [Channels -> 0 .. MaxUploads] /\ firstSeen \in [Video -> 0 .. MaxClock]
      /\ \A c \in Channels : Known(c)' = {n \in 1 .. MaxUploads : firstSeen'[<<c, n>>] # 0}
  BY PollAssumption DEF PollInv, PollTypeOK, PollRow, Known
<1>1. /\ poll[p].channel \in Channels /\ poll[p].rows \in SUBSET (1 .. MaxUploads)
      /\ poll[p].since \in 0 .. MaxUploads
  BY <1>0 DEF PollRow
<1>2. \A row : poll' = [poll EXCEPT ![p] = row] => poll'[p] = row
  BY <1>0
<1>3. CASE StartPoll(p)
  <2>1. PICK row : row = [Idle EXCEPT !.pc = "next", !.todo = ChannelsToPoll]
    OBVIOUS
  <2>2. poll' = [poll EXCEPT ![p] = row] /\ row.pc = "next" /\ poll[p].pc = "idle"
        /\ UNCHANGED <<now, firstSeen, skipped>>
    BY <1>3, <2>1 DEF StartPoll, Idle
  <2>3. Unfinished(p) = {}
    BY <2>2 DEF Unfinished
  <2> QED BY <2>2, <2>3, StoresNothing
<1>4. ASSUME NEW c \in Channels, ReadLatest(p, c) PROVE PollInv'
  <2>1. PICK n : n = LatestVideo(c)
    OBVIOUS
  <2>2. PICK row : row = [poll[p] EXCEPT !.pc = "list", !.todo = @ \ {c}, !.channel = c, !.since = n]
    OBVIOUS
  <2>3. poll' = [poll EXCEPT ![p] = row] /\ poll[p].pc = "next" /\ UNCHANGED <<now, firstSeen, skipped>>
    BY <1>0, <1>4, <2>1, <2>2 DEF ReadLatest, tables
  <2>4. row.pc = "list" /\ row.since = n /\ row.channel = c
    BY <1>0, <2>2 DEF PollRow
  <2>5. n = 0 \/ n \in Known(c)
    BY <2>1, LatestIs DEF PollInv
  <2>6. SinceStored(p)'
    BY <2>3, <2>4, <2>5, <1>2 DEF SinceStored, Known
  <2>7. Unfinished(p) = {}
    BY <2>3 DEF Unfinished
  <2> QED BY <2>3, <2>4, <2>6, <2>7, StoresNothing
<1>5. CASE ListUploads(p)
  <2>1. PICK c \in Channels : c = poll[p].channel
    BY <1>1
  <2>2. PICK s \in 0 .. MaxUploads : s = poll[p].since
    BY <1>1
  <2>3. PICK new : new = NewUploads(c, s)
    OBVIOUS
  <2>4. PICK row : row = [poll[p] EXCEPT !.pc = "insert", !.since = 0, !.rows = new, !.asked = now]
    OBVIOUS
  <2>5. poll' = [poll EXCEPT ![p] = row] /\ poll[p].pc = "list" /\ UNCHANGED <<now, firstSeen>>
        /\ skipped' = skipped \cup {<<c, n>> : n \in (s + 1) .. published[c] \ new}
    BY <1>0, <1>5, <2>1, <2>2, <2>3, <2>4 DEF ListUploads, tables
  <2>6. row.pc = "insert" /\ row.rows = new /\ row.channel = c /\ row.asked = now
    BY <1>0, <2>1, <2>4 DEF PollRow
  <2>7. poll'[p] = row
    BY <1>2, <2>5
  <2>8. Unfinished(p) = {} /\ Unfinished(p)' = {<<c, n>> : n \in new}
    BY <2>5, <2>6, <2>7 DEF Unfinished
  <2>9. SinceStored(p)
    BY <2>5 DEF PollInv, SinceIsKnown
  <2>10. Known(c)' = Known(c)
    BY <2>5 DEF Known
  <2>11. \A m \in new : \A n \in 1 .. m : Covered(c, n)'
    <3> SUFFICES ASSUME NEW m \in new, NEW n \in 1 .. m PROVE Covered(c, n)'
      OBVIOUS
    <3>1. m \in 1 .. published[c] /\ published[c] \in Nat
      BY <1>0, <2>3 DEF NewUploads
    <3>2. CASE n > s
      <4>1. n \in (s + 1) .. published[c]
        BY <3>1, <3>2
      <4>2. CASE n \in new
        <5>1. <<c, n>> \in Unfinished(p)'
          BY <2>8, <4>2
        <5> QED BY <5>1 DEF Covered
      <4>3. CASE n \notin new
        <5>1. <<c, n>> \in skipped'
          BY <2>5, <4>1, <4>3
        <5> QED BY <5>1 DEF Covered
      <4> QED BY <4>2, <4>3
    <3>3. CASE ~(n > s)
      <4>1. s # 0 /\ n \in 1 .. s
        BY <3>1, <3>3
      <4>2. s \in Known(c)
        BY <2>1, <2>2, <2>9, <4>1 DEF SinceStored
      <4>3. Covered(c, n)
        BY <4>1, <4>2 DEF PollInv, GapsHaveACause, Covered
      <4>4. n \in Known(c) \/ <<c, n>> \in skipped \/ \E q \in Polls : q # p /\ <<c, n>> \in Unfinished(q)
        BY <4>3, <2>8 DEF Covered
      <4>5. \A q \in Polls : q # p => Unfinished(q)' = Unfinished(q)
        BY <1>0, <2>5 DEF Unfinished
      <4> QED BY <2>5, <2>10, <4>4, <4>5 DEF Covered
    <3> QED BY <3>2, <3>3
  <2>12. RowsCovered(p)'
    BY <2>6, <2>7, <2>11 DEF RowsCovered, Covered, Known
  <2>13. now \in 1 .. now
    BY DEF PollInv, PollTypeOK
  <2> QED BY <2>5, <2>6, <2>8, <2>12, <2>13, StoresNothing
<1>6. CASE InsertVideo(p)
  <2>1. PICK c \in Channels : c = poll[p].channel
    BY <1>1
  <2>2. PICK rows \in SUBSET (1 .. MaxUploads) : rows = poll[p].rows /\ rows # {}
    BY <1>1, <1>6 DEF InsertVideo
  <2>3. PICK m : m = Max(rows)
    OBVIOUS
  <2>4. m \in rows /\ m \in 1 .. MaxUploads
    <3>1. rows \in SUBSET (0 .. MaxUploads)
      OBVIOUS
    <3> QED BY <1>0, <2>2, <2>3, <3>1, MaxIs
  <2>5. PICK t \in poll[p].asked .. now :
          firstSeen' = [firstSeen EXCEPT ![<<c, m>>] = IF @ = 0 THEN t ELSE @]
    BY <1>6, <2>1, <2>2, <2>3 DEF InsertVideo
  <2>6. PICK row : row = [poll[p] EXCEPT !.rows = @ \ {m}, !.asked = now]
    OBVIOUS
  <2>7. poll' = [poll EXCEPT ![p] = row] /\ poll[p].pc = "insert" /\ UNCHANGED <<now, skipped>>
    BY <1>0, <1>6, <2>2, <2>3, <2>6 DEF InsertVideo
  <2>8. row.pc = "insert" /\ row.rows = rows \ {m} /\ row.channel = c /\ row.asked = now
    BY <1>0, <2>1, <2>2, <2>6, <2>7 DEF PollRow
  <2>9. poll'[p] = row /\ \A q \in Polls : q # p => poll'[q] = poll[q]
    BY <1>0, <1>2, <2>7
  <2>10. poll[p].asked \in 1 .. now /\ RowsCovered(p)
    BY <2>7 DEF PollInv, InsertsCovered
  <2>11. t # 0
    BY <2>5, <2>10, <1>0
  <2>12. <<c, m>> \in Video
    BY <2>4 DEF Video
  <2>13. \A d \in Channels : \A n \in 1 .. MaxUploads :
           firstSeen'[<<d, n>>] # 0 <=> firstSeen[<<d, n>>] # 0 \/ <<d, n>> = <<c, m>>
    BY <1>0, <2>5, <2>11, <2>12 DEF Video
  <2>14. \A d \in Channels : Known(d)' = Known(d) \cup {n \in 1 .. MaxUploads : <<d, n>> = <<c, m>>}
    BY <2>13 DEF Known
  <2>15. Unfinished(p) = {<<c, n>> : n \in rows} /\ Unfinished(p)' = {<<c, n>> : n \in rows \ {m}}
    BY <2>1, <2>2, <2>7, <2>8, <2>9 DEF Unfinished
  <2>16. \A d \in Channels : \A n : <<d, n>> \in Unfinished(p) => <<d, n>> \in Unfinished(p)' \/ n \in Known(d)'
    <3> SUFFICES ASSUME NEW d \in Channels, NEW n, <<d, n>> \in Unfinished(p), n = m
                 PROVE  n \in Known(d)'
      BY <2>15
    <3>1. d = c
      BY <2>15
    <3> QED BY <2>4, <2>14, <3>1
  <2>17. \A d \in Channels : Known(d) \subseteq Known(d)' /\ \A n \in Known(d)' \ Known(d) : d = c /\ n = m
    BY <2>14
  <2>18. RowsCovered(p)'
    <3>1. \A n : Covered(c, n) => Covered(c, n)'
      BY <2>7, <2>9, <2>16, <2>17, CoveredStays
    <3>2. \A k \in rows \ {m} : \A n \in 1 .. k : Covered(c, n)'
      BY <2>1, <2>2, <2>10, <3>1 DEF RowsCovered
    <3> QED BY <2>8, <2>9, <3>2 DEF RowsCovered, Covered, Known
  <2>19. row.asked \in 1 .. now /\ now' = now /\ now <= now'
    BY <2>7, <2>8 DEF PollInv, PollTypeOK
  <2> QED BY <2>1, <2>2, <2>4, <2>7, <2>8, <2>9, <2>16, <2>17, <2>18, <2>19, StepCovers
<1>7. CASE TrackVideos(p)
  <2>1. PICK row : row = [poll[p] EXCEPT !.pc = "stats", !.asked = 0, !.rows = TrackedVideos(poll[p].channel)]
    OBVIOUS
  <2>2. poll' = [poll EXCEPT ![p] = row] /\ poll[p].rows = {} /\ UNCHANGED <<now, firstSeen, skipped>>
    BY <1>0, <1>7, <2>1 DEF TrackVideos, tables
  <2>3. row.pc = "stats"
    BY <1>0, <2>1 DEF PollRow
  <2>4. Unfinished(p) = {}
    BY <2>2 DEF Unfinished
  <2> QED BY <2>2, <2>3, <2>4, StoresNothing
<1>8. CASE RecordStats(p)
  <2>1. PICK row : row = [poll[p] EXCEPT !.rows = @ \ {Max(poll[p].rows)}]
    OBVIOUS
  <2>2. poll' = [poll EXCEPT ![p] = row] /\ poll[p].pc = "stats" /\ UNCHANGED <<now, firstSeen, skipped>>
    BY <1>0, <1>8, <2>1 DEF RecordStats
  <2>3. row.pc = "stats"
    BY <1>0, <2>1, <2>2 DEF PollRow
  <2>4. Unfinished(p) = {}
    BY <2>2 DEF Unfinished
  <2> QED BY <2>2, <2>3, <2>4, StoresNothing
<1>9. CASE MarkPolled(p)
  <2>1. PICK row : row = [poll[p] EXCEPT !.pc = "next"]
    OBVIOUS
  <2>2. poll' = [poll EXCEPT ![p] = row] /\ poll[p].pc = "stats" /\ UNCHANGED <<now, firstSeen, skipped>>
    BY <1>0, <1>9, <2>1 DEF MarkPolled, tables
  <2>3. row.pc = "next"
    BY <1>0, <2>1 DEF PollRow
  <2>4. Unfinished(p) = {}
    BY <2>2 DEF Unfinished
  <2> QED BY <2>2, <2>3, <2>4, StoresNothing
<1>10. CASE FailChannel(p)
  <2>1. PICK row : row = [Idle EXCEPT !.pc = "next", !.todo = poll[p].todo]
    OBVIOUS
  <2>2. poll' = [poll EXCEPT ![p] = row] /\ skipped' = skipped \cup Unfinished(p) /\ UNCHANGED <<now, firstSeen>>
    BY <1>10, <2>1 DEF FailChannel, tables
  <2>3. row.pc = "next"
    BY <2>1 DEF Idle
  <2> QED BY <2>2, <2>3, StoresNothing
<1>11. CASE EndPoll(p)
  <2>1. poll' = [poll EXCEPT ![p] = Idle] /\ poll[p].pc = "next" /\ UNCHANGED <<now, firstSeen, skipped>>
    BY <1>11 DEF EndPoll
  <2>2. Unfinished(p) = {}
    BY <2>1 DEF Unfinished
  <2> QED BY <2>1, <2>2, IdleIs, StoresNothing
<1>12. CASE CrashPoll(p)
  <2>1. poll' = [poll EXCEPT ![p] = Idle] /\ skipped' = skipped \cup Unfinished(p) /\ UNCHANGED <<now, firstSeen>>
    BY <1>12 DEF CrashPoll, tables
  <2> QED BY <2>1, IdleIs, StoresNothing
<1> QED BY <1>3, <1>4, <1>5, <1>6, <1>7, <1>8, <1>9, <1>10, <1>11, <1>12 DEF PollStep

LEMMA NextPollInv == PollInv /\ [PollNext]_pollVars => PollInv'
<1> SUFFICES ASSUME PollInv, [PollNext]_pollVars PROVE PollInv'
  OBVIOUS
<1>1. CASE World
  <2>1. PollTypeOK'
    BY <1>1, WorldTypes DEF PollInv
  <2>2. UNCHANGED <<poll, firstSeen, skipped>>
    BY <1>1 DEF World, Tick, Expire, Upload, Subscribe, Unsubscribe, EditSubscription, tables
  <2>3. now <= now'
    <3>1. now \in Int
      BY DEF PollInv, PollTypeOK
    <3>2. CASE Tick
      BY <3>1, <3>2 DEF Tick
    <3>3. CASE ~Tick
      <4>1. now' = now
        BY <1>1, <3>3 DEF World, Expire, Upload, Subscribe, Unsubscribe, EditSubscription
      <4> QED BY <3>1, <4>1
    <3> QED BY <3>2, <3>3
  <2> QED BY <2>1, <2>2, <2>3, NoPollCovers
<1>2. ASSUME NEW p \in Polls, PollStep(p) PROVE PollInv'
  BY <1>2, PollStepTypes, PollStepCovers DEF PollInv
<1>3. CASE UNCHANGED pollVars
  <2>1. PollTypeOK'
    BY <1>3 DEF PollInv, PollTypeOK, pollVars
  <2>2. UNCHANGED <<poll, firstSeen, skipped>> /\ now <= now'
    BY <1>3 DEF pollVars, PollInv, PollTypeOK
  <2> QED BY <2>1, <2>2, NoPollCovers
<1> QED BY <1>1, <1>2, <1>3 DEF PollNext

(* An upload older than a stored one is stored, or a poll that still runs   *)
(* will insert it, or one failed or died before it did or listed too little *)
(* (poll.ts: pollChannel); polls side by side leave no gap of their own.    *)
THEOREM AlwaysGapsHaveACause == PollSpec => []GapsHaveACause
<1>1. PollInv => GapsHaveACause
  BY DEF PollInv
<1> QED BY InitPollInv, NextPollInv, <1>1, PTL DEF PollSpec

LEMMA SeenStays ==
  ASSUME PollTypeOK, PollNext, NEW v \in Video, firstSeen[v] # 0
  PROVE  firstSeen'[v] = firstSeen[v]
<1>1. firstSeen \in [Video -> 0 .. MaxClock]
  BY DEF PollTypeOK
<1>2. CASE World
  BY <1>2 DEF World, Tick, Expire, Upload, Subscribe, Unsubscribe, EditSubscription, tables
<1>3. ASSUME NEW p \in Polls, PollStep(p) PROVE firstSeen'[v] = firstSeen[v]
  <2>1. CASE InsertVideo(p)
    BY <1>1, <2>1 DEF InsertVideo
  <2>2. CASE ~InsertVideo(p)
    BY <1>3, <2>2 DEF PollStep, StartPoll, ReadLatest, ListUploads, TrackVideos, RecordStats, MarkPolled,
                      FailChannel, EndPoll, CrashPoll, tables
  <2> QED BY <2>1, <2>2
<1> QED BY <1>2, <1>3 DEF PollNext

(* A row of videos keeps its first_seen_at, whichever poll inserts the      *)
(* video again (repo/postgres.ts: insertVideos, ON CONFLICT DO NOTHING).    *)
THEOREM AlwaysFirstSeenIsKept == PollSpec => FirstSeenIsKept
<1>1. PollInv /\ [PollNext]_pollVars => [\A v \in Video : firstSeen[v] # 0 => firstSeen'[v] = firstSeen[v]]_pollVars
  BY SeenStays DEF PollInv
<1> QED BY InitPollInv, NextPollInv, <1>1, PTL DEF PollSpec, FirstSeenIsKept

-----------------------------------------------------------------------------
(* Types of the digests.                                                    *)
DigestRow ==
  [pc: {"idle", "daily", "run-now", "build", "mark", "mail", "record"},
   users: SUBSET Users, user: Users, runDate: 0 .. MaxClock,
   due: SUBSET Subscription, unread: SUBSET Subscription,
   candidates: SUBSET (Video \X Subscription), lines: SUBSET (Video \X (1 .. MaxSubs))]

\* What a digest holds at its place in sendDigest.
Fits(r) ==
  /\ \A s \in r.due : s.user = r.user
  /\ r.unread \subseteq r.due
  /\ r.pc \in {"mail", "record"} => r.due = {} /\ r.lines # {}
  /\ r.pc # "build" => r.unread = {} /\ r.candidates = {}

FitRow == {r \in DigestRow : Fits(r)}

SeenOK == \A seen \in {notified, mailed, again, rejected, unsent, unrecorded, doubled, late} : seen \subseteq Pairs

LEMMA BetweenType ==
  ASSUME NEW pc \in {"idle", "daily", "run-now"}, NEW users \in SUBSET Users, NEW t \in 0 .. MaxClock
  PROVE  BetweenUsers(pc, users, t) \in FitRow
<1>1. (CHOOSE u \in Users : TRUE) \in Users
  BY PollAssumption
<1>2. BetweenUsers(pc, users, t) \in DigestRow
  BY <1>1 DEF BetweenUsers, DigestRow
<1>3. Fits(BetweenUsers(pc, users, t))
  BY DEF BetweenUsers, Fits
<1> QED BY <1>2, <1>3 DEF FitRow

LEMMA NoDigestType == NoDigest \in FitRow
<1>1. 0 \in 0 .. MaxClock
  BY PollAssumption
<1> QED BY <1>1, BetweenType DEF NoDigest

LEMMA RestType ==
  ASSUME digest \in [Digests -> FitRow], NEW d \in Digests, NEW users \in SUBSET Users
  PROVE  Rest(d, users) \in FitRow
<1>1. digest[d].runDate \in 0 .. MaxClock
  BY DEF FitRow, DigestRow
<1> QED BY <1>1, NoDigestType, BetweenType DEF Rest

LEMMA RowWith ==
  ASSUME NEW old \in DigestRow, NEW pc \in {"build", "mark", "mail"}, NEW rows \in SUBSET Subscription,
         NEW candidates \in SUBSET (Video \X Subscription), NEW lines \in SUBSET (Video \X (1 .. MaxSubs))
  PROVE  /\ [old EXCEPT !.due = rows, !.pc = pc] \in DigestRow
         /\ [old EXCEPT !.unread = rows, !.candidates = candidates, !.pc = pc] \in DigestRow
         /\ [old EXCEPT !.candidates = candidates, !.lines = lines, !.pc = pc] \in DigestRow
<1>1. PICK C, T, S, V, L :
        /\ C = {"idle", "daily", "run-now", "build", "mark", "mail", "record"} /\ T = 0 .. MaxClock
        /\ S = SUBSET Subscription /\ V = SUBSET (Video \X Subscription) /\ L = SUBSET (Video \X (1 .. MaxSubs))
  OBVIOUS
<1>2. pc \in C /\ rows \in S /\ candidates \in V /\ lines \in L
  BY <1>1
<1>3. DigestRow = [pc: C, users: SUBSET Users, user: Users, runDate: T, due: S, unread: S, candidates: V, lines: L]
  BY <1>1 DEF DigestRow
<1>4. [old EXCEPT !.due = rows, !.pc = pc] \in DigestRow
  BY <1>2, <1>3
<1>5. [old EXCEPT !.unread = rows, !.candidates = candidates, !.pc = pc] \in DigestRow
  BY <1>2, <1>3
<1>6. [old EXCEPT !.candidates = candidates, !.lines = lines, !.pc = pc] \in DigestRow
  BY <1>2, <1>3
<1> QED BY <1>4, <1>5, <1>6

(* What ReadCandidates and MatchVideo make of their digest.                 *)
DigestIs == digest = [d \in Digests |-> digest[d]]

LEMMA ReadIs ==
  ASSUME DigestIs, NEW d \in Digests, ReadCandidates(d)
  PROVE  \E s, pc, videos :
           /\ s \in digest[d].unread /\ pc \in {"build", "mark"}
           /\ videos = CandidateVideos(digest[d].user, s)
           /\ pc = "mark" => digest[d].unread = {s} /\ videos = {}
           /\ digest' = [digest EXCEPT ![d] = [digest[d] EXCEPT
                            !.unread = digest[d].unread \ {s}, !.candidates = videos \X {s}, !.pc = pc]]
           /\ doubled' = doubled \cup (({digest[d].user} \X videos) \cap
                UNION {Pending(e) \cup Taken(e) : e \in {e \in Digests \ {d} : For(e, digest[d].user)}})
<1>1. PICK s \in digest[d].unread :
        /\ digest' = [digest EXCEPT
             ![d].unread = @ \ {s}, ![d].candidates = CandidateVideos(digest[d].user, s) \X {s},
             ![d].pc = Building(d, digest[d].unread \ {s}, CandidateVideos(digest[d].user, s))]
        /\ doubled' = doubled \cup (({digest[d].user} \X CandidateVideos(digest[d].user, s)) \cap
             UNION {Pending(e) \cup Taken(e) : e \in {e \in Digests \ {d} : For(e, digest[d].user)}})
  BY DEF ReadCandidates
<1>2. PICK videos, pc : /\ videos = CandidateVideos(digest[d].user, s)
                        /\ pc = Building(d, digest[d].unread \ {s}, videos)
  OBVIOUS
<1>3. pc \in {"build", "mark"} /\ (pc = "mark" => digest[d].unread = {s} /\ videos = {})
  BY <1>2 DEF Building
<1>4. digest' = [digest EXCEPT ![d] = [digest[d] EXCEPT
                   !.unread = digest[d].unread \ {s}, !.candidates = videos \X {s}, !.pc = pc]]
  BY <1>1, <1>2 DEF DigestIs
<1> QED BY <1>1, <1>2, <1>3, <1>4

LEMMA MatchIs ==
  ASSUME DigestIs, NEW d \in Digests, MatchVideo(d)
  PROVE  \E x, pc, lines :
           /\ x \in digest[d].candidates /\ pc \in {"build", "mark"}
           /\ pc = "mark" => digest[d].unread = {} /\ digest[d].candidates = {x}
           /\ digest' = [digest EXCEPT ![d] = [digest[d] EXCEPT
                            !.candidates = digest[d].candidates \ {x}, !.lines = lines, !.pc = pc]]
           /\ \/ lines = digest[d].lines \cup {<<x[1], x[2].id>>} /\ rejected' = rejected
              \/ lines = digest[d].lines /\ rejected' = rejected \cup {<<digest[d].user, x[1]>>}
<1>1. PICK x \in digest[d].candidates, matched \in BOOLEAN :
        /\ digest' = [digest EXCEPT
             ![d].candidates = digest[d].candidates \ {x},
             ![d].lines = IF matched THEN @ \cup {<<x[1], x[2].id>>} ELSE @,
             ![d].pc = Building(d, digest[d].unread, digest[d].candidates \ {x})]
        /\ rejected' = IF matched THEN rejected ELSE rejected \cup {<<digest[d].user, x[1]>>}
  BY DEF MatchVideo, Verdicts
<1>2. PICK lines, pc : /\ lines = IF matched THEN digest[d].lines \cup {<<x[1], x[2].id>>} ELSE digest[d].lines
                       /\ pc = Building(d, digest[d].unread, digest[d].candidates \ {x})
  OBVIOUS
<1>3. pc \in {"build", "mark"} /\ (pc = "mark" => digest[d].unread = {} /\ digest[d].candidates = {x})
  BY <1>2 DEF Building
<1>4. digest' = [digest EXCEPT ![d] = [digest[d] EXCEPT
                   !.candidates = digest[d].candidates \ {x}, !.lines = lines, !.pc = pc]]
  BY <1>1, <1>2 DEF DigestIs
<1>5. \/ lines = digest[d].lines \cup {<<x[1], x[2].id>>} /\ rejected' = rejected
      \/ lines = digest[d].lines /\ rejected' = rejected \cup {<<digest[d].user, x[1]>>}
  BY <1>1, <1>2
<1> QED BY <1>3, <1>4, <1>5

LEMMA TakenType ==
  ASSUME digest \in [Digests -> FitRow], NEW d \in Digests
  PROVE  Taken(d) \subseteq Pairs /\ TakenAndMarked(d) \subseteq Taken(d)
<1>1. digest[d].user \in Users /\ digest[d].lines \in SUBSET (Video \X (1 .. MaxSubs))
  BY DEF FitRow, DigestRow
<1>2. \A line \in digest[d].lines : line[1] \in Video
  BY <1>1
<1> QED BY <1>1, <1>2 DEF Taken, TakenAndMarked, Pairs

LEMMA InitTypes == Init => TypeOK
<1> SUFFICES ASSUME Init PROVE TypeOK
  OBVIOUS
<1>1. PollTypeOK
  BY InitPollTypes DEF Init
<1>2. digest \in [Digests -> FitRow]
  BY NoDigestType DEF Init
<1> QED BY <1>1, <1>2 DEF Init, TypeOK, FitRow, Fits, DigestRow

LEMMA BesideTypes ==
  ASSUME TypeOK, Beside
  PROVE  TypeOK'
<1>1. PollTypeOK'
  BY NextPollTypes DEF TypeOK, Beside
<1>2. late' \subseteq Pairs
  BY DEF TypeOK, Beside
<1> QED BY <1>1, <1>2 DEF TypeOK, Beside

(* A digest's step leaves the poll alone, but for the rows it marks.        *)
LEMMA DigestStepTypes ==
  ASSUME TypeOK, NEW d \in Digests, DigestStep(d)
  PROVE  TypeOK'
<1>0. digest \in [Digests -> FitRow] /\ PollTypeOK /\ SeenOK /\ again \subseteq mailed /\ now \in 0 .. MaxClock
      /\ MaxClock \in Nat /\ subs \subseteq Subscription
  <2>1. digest \in [Digests -> DigestRow]
    BY DEF TypeOK, DigestRow
  <2>2. \A e \in Digests : Fits(digest[e])
    BY DEF TypeOK, Fits
  <2>3. digest \in [Digests -> FitRow]
    BY <2>1, <2>2 DEF FitRow
  <2> QED BY <2>3, PollAssumption DEF TypeOK, PollTypeOK, SeenOK
<1>1. /\ digest[d].user \in Users /\ digest[d].users \in SUBSET Users /\ digest[d].runDate \in 0 .. MaxClock
      /\ digest[d].due \in SUBSET Subscription /\ digest[d].unread \in SUBSET Subscription
      /\ digest[d].candidates \in SUBSET (Video \X Subscription)
      /\ digest[d].lines \in SUBSET (Video \X (1 .. MaxSubs))
      /\ digest[d] \in DigestRow /\ Fits(digest[d]) /\ DigestIs
  BY <1>0 DEF FitRow, DigestRow, DigestIs
<1>2. Taken(d) \subseteq Pairs /\ TakenAndMarked(d) \subseteq Pairs
  BY <1>0, TakenType
<1> DEFINE Typed == digest' \in [Digests -> FitRow]
<1>3. ASSUME NEW row \in FitRow, digest' = [digest EXCEPT ![d] = row] PROVE Typed
  BY <1>0, <1>3
<1>4. ASSUME Typed, PollTypeOK', SeenOK', again' \subseteq mailed' PROVE TypeOK'
  <2>1. digest' \in [Digests -> DigestRow] /\ \A e \in Digests : Fits(digest'[e])
    BY <1>4 DEF FitRow
  <2> QED BY <1>4, <2>1 DEF TypeOK, DigestRow, Fits, SeenOK
<1>5. ASSUME UNCHANGED pollVars PROVE PollTypeOK'
  BY <1>0, <1>5 DEF pollVars, PollTypeOK
<1>6. ASSUME UNCHANGED <<notified, mailed, again, history>> PROVE SeenOK' /\ again' \subseteq mailed'
  BY <1>0, <1>6 DEF SeenOK, history
<1> HIDE DEF Typed
<1>7. CASE StartDaily(d)
  <2>1. Recipients \in SUBSET Users
    BY <1>0 DEF Recipients, Subscription
  <2>2. BetweenUsers("daily", Recipients, now) \in FitRow
    BY <1>0, <2>1, BetweenType
  <2> QED BY <1>3, <1>4, <1>5, <1>6, <1>7, <2>2 DEF StartDaily
<1>8. ASSUME NEW u \in Users, RunNow(d, u) PROVE TypeOK'
  <2>1. BetweenUsers("run-now", {u}, now) \in FitRow
    BY <1>0, BetweenType
  <2> QED BY <1>3, <1>4, <1>5, <1>6, <1>8, <2>1 DEF RunNow
<1>9. ASSUME NEW u \in Users, ReadDue(d, u) PROVE TypeOK'
  <2>1. PICK others : others = digest[d].users \ {u}
    OBVIOUS
  <2>2. PICK due : due = DueSubscriptions(u, digest[d].runDate, digest[d].pc = "run-now")
    OBVIOUS
  <2>3. others \in SUBSET Users /\ due \in SUBSET Subscription /\ \A s \in due : s.user = u
    BY <1>0, <1>1, <2>1, <2>2 DEF DueSubscriptions, SubsOf
  <2>4. Typed
    <3>1. CASE digest' = [digest EXCEPT ![d] = Rest(d, others)]
      BY <1>0, <1>3, <2>3, <3>1, RestType
    <3>2. CASE digest' = [digest EXCEPT ![d].pc = "build", ![d].users = others,
                                        ![d].user = u, ![d].due = due, ![d].unread = due]
      <4>1. PICK row : row = [digest[d] EXCEPT !.pc = "build", !.users = others, !.user = u, !.due = due, !.unread = due]
        OBVIOUS
      <4>2. row \in DigestRow
        BY <1>1, <2>3, <4>1 DEF DigestRow
      <4>3. row.pc = "build" /\ row.user = u /\ row.due = due /\ row.unread = due
        BY <1>1, <4>1 DEF DigestRow
      <4>4. row \in FitRow
        BY <2>3, <4>2, <4>3 DEF FitRow, Fits
      <4>5. digest' = [digest EXCEPT ![d] = row]
        BY <1>0, <3>2, <4>1
      <4> QED BY <1>3, <4>4, <4>5
    <3> QED BY <1>9, <2>1, <2>2, <3>1, <3>2 DEF ReadDue
  <2> QED BY <1>4, <1>5, <1>6, <1>9, <2>4 DEF ReadDue
<1>10. CASE ReadCandidates(d)
  <2>1. PICK s, pc, videos :
          /\ s \in digest[d].unread /\ pc \in {"build", "mark"}
          /\ videos = CandidateVideos(digest[d].user, s)
          /\ pc = "mark" => digest[d].unread = {s} /\ videos = {}
          /\ digest' = [digest EXCEPT ![d] = [digest[d] EXCEPT
                           !.unread = digest[d].unread \ {s}, !.candidates = videos \X {s}, !.pc = pc]]
          /\ doubled' = doubled \cup (({digest[d].user} \X videos) \cap
               UNION {Pending(e) \cup Taken(e) : e \in {e \in Digests \ {d} : For(e, digest[d].user)}})
    BY <1>1, <1>10, ReadIs
  <2>2. s \in Subscription /\ s.channel \in Channels
    BY <1>1, <2>1 DEF Subscription
  <2>3. videos \subseteq Video
    <3>1. ASSUME NEW v \in CandidateVideos(digest[d].user, s) PROVE v \in Video
      <4>1. PICK n \in Known(s.channel) : v = <<s.channel, n>>
        BY DEF CandidateVideos
      <4> QED BY <2>2, <4>1 DEF Known, Video
    <3> QED BY <2>1, <3>1
  <2>4. PICK rows, candidates, row :
          /\ rows = digest[d].unread \ {s} /\ candidates = videos \X {s}
          /\ row = [digest[d] EXCEPT !.unread = rows, !.candidates = candidates, !.pc = pc]
    OBVIOUS
  <2>5. row \in DigestRow
    <3>1. rows \in SUBSET Subscription /\ candidates \in SUBSET (Video \X Subscription)
      BY <1>1, <2>2, <2>3, <2>4
    <3>2. {} \in SUBSET (Video \X (1 .. MaxSubs)) /\ pc \in {"build", "mark", "mail"}
      BY <2>1
    <3> QED BY <1>1, <2>4, <3>1, <3>2, RowWith
  <2>6. row.pc = pc /\ row.unread = rows /\ row.candidates = candidates
        /\ row.due = digest[d].due /\ row.user = digest[d].user
    BY <1>1, <2>4 DEF DigestRow
  <2>7. Fits(row)
    <3>1. pc = "mark" => rows = {} /\ candidates = {}
      BY <2>1, <2>4
    <3>2. rows \subseteq digest[d].due
      BY <1>1, <2>4 DEF Fits
    <3> QED BY <1>1, <2>1, <2>6, <3>1, <3>2 DEF Fits
  <2>8. Typed
    <3>1. digest' = [digest EXCEPT ![d] = row]
      BY <2>1, <2>4
    <3> QED BY <1>3, <2>5, <2>7, <3>1 DEF FitRow
  <2>9. SeenOK' /\ again' \subseteq mailed'
    <3>1. UNCHANGED <<notified, mailed, again, rejected, unsent, unrecorded, late>>
      BY <1>10 DEF ReadCandidates
    <3>2. doubled' \subseteq Pairs
      BY <1>0, <1>1, <2>1, <2>3 DEF SeenOK, Pairs
    <3> QED BY <1>0, <3>1, <3>2 DEF SeenOK
  <2> QED BY <1>4, <1>5, <1>10, <2>8, <2>9 DEF ReadCandidates
<1>15. CASE MatchVideo(d)
  <2>1. PICK x, pc, lines :
          /\ x \in digest[d].candidates /\ pc \in {"build", "mark"}
          /\ pc = "mark" => digest[d].unread = {} /\ digest[d].candidates = {x}
          /\ digest' = [digest EXCEPT ![d] = [digest[d] EXCEPT
                           !.candidates = digest[d].candidates \ {x}, !.lines = lines, !.pc = pc]]
          /\ \/ lines = digest[d].lines \cup {<<x[1], x[2].id>>} /\ rejected' = rejected
             \/ lines = digest[d].lines /\ rejected' = rejected \cup {<<digest[d].user, x[1]>>}
    BY <1>1, <1>15, MatchIs
  <2>2. x[1] \in Video /\ x[2] \in Subscription /\ x[2].id \in 1 .. MaxSubs
    <3>1. x \in Video \X Subscription
      BY <1>1, <2>1
    <3>2. x[1] \in Video /\ x[2] \in Subscription
      BY <3>1
    <3> QED BY <3>2 DEF Subscription
  <2>3. PICK candidates, row :
          /\ candidates = digest[d].candidates \ {x}
          /\ row = [digest[d] EXCEPT !.candidates = candidates, !.lines = lines, !.pc = pc]
    OBVIOUS
  <2>4. row \in DigestRow
    <3>1. lines \in SUBSET (Video \X (1 .. MaxSubs)) /\ candidates \in SUBSET (Video \X Subscription)
      BY <1>1, <2>1, <2>2, <2>3
    <3>2. {} \in SUBSET Subscription /\ pc \in {"build", "mark", "mail"}
      BY <2>1
    <3> QED BY <1>1, <2>3, <3>1, <3>2, RowWith
  <2>5. row.pc = pc /\ row.unread = digest[d].unread /\ row.candidates = candidates
        /\ row.due = digest[d].due /\ row.user = digest[d].user
    BY <1>1, <2>3 DEF DigestRow
  <2>6. Fits(row)
    <3>1. pc = "mark" => digest[d].unread = {} /\ candidates = {}
      BY <2>1, <2>3
    <3> QED BY <1>1, <2>1, <2>5, <3>1 DEF Fits
  <2>7. Typed
    <3>1. digest' = [digest EXCEPT ![d] = row]
      BY <2>1, <2>3
    <3> QED BY <1>3, <2>4, <2>6, <3>1 DEF FitRow
  <2>8. SeenOK' /\ again' \subseteq mailed'
    <3>1. UNCHANGED <<notified, mailed, again, unsent, unrecorded, doubled, late>>
      BY <1>15 DEF MatchVideo
    <3>2. rejected' \subseteq Pairs
      BY <1>0, <1>1, <2>1, <2>2 DEF SeenOK, Pairs
    <3> QED BY <1>0, <3>1, <3>2 DEF SeenOK
  <2> QED BY <1>4, <1>5, <1>15, <2>7, <2>8 DEF MatchVideo
<1>11. CASE MarkDigested(d)
  <2>1. PICK s \in digest[d].due :
          /\ subs' = {IF row.id = s.id THEN [row EXCEPT !.last = digest[d].runDate] ELSE row : row \in subs}
          /\ digest' = Marked(d, s)
    BY <1>11 DEF MarkDigested
  <2>2. subs' \subseteq Subscription
    <3> SUFFICES ASSUME NEW row \in subs
                 PROVE  row \in Subscription /\ [row EXCEPT !.last = digest[d].runDate] \in Subscription
      BY <2>1
    <3>1. row \in Subscription
      BY <1>0
    <3> QED BY <1>1, <3>1 DEF Subscription
  <2>3. PollTypeOK'
    BY <1>0, <1>11, <2>2 DEF MarkDigested, PollTypeOK
  <2>4. Typed
    <3>1. CASE digest[d].due # {s} \/ digest[d].lines # {}
      <4>1. PICK pc \in {"mark", "mail"} : pc = IF digest[d].due = {s} THEN "mail" ELSE "mark"
        OBVIOUS
      <4>2. PICK row, due : due = digest[d].due \ {s} /\ row = [digest[d] EXCEPT !.due = due, !.pc = pc]
        OBVIOUS
      <4>3. row \in FitRow
        <5>1. due \in SUBSET Subscription
          BY <1>1, <4>2
        <5>2. digest[d] \in DigestRow /\ pc \in {"build", "mark", "mail"}
          BY <1>1, <4>1
        <5>3. {} \in SUBSET (Video \X (1 .. MaxSubs)) /\ {} \in SUBSET (Video \X Subscription)
          OBVIOUS
        <5>4. row \in DigestRow
          BY <4>2, <5>1, <5>2, <5>3, RowWith
        <5>5. /\ row.pc = pc /\ row.due = due /\ row.user = digest[d].user /\ row.lines = digest[d].lines
              /\ row.unread = digest[d].unread /\ row.candidates = digest[d].candidates
          BY <1>1, <4>2 DEF DigestRow
        <5>6. digest[d].unread = {} /\ digest[d].candidates = {}
          BY <1>1, <1>11 DEF Fits, MarkDigested
        <5>7. pc = "mail" => due = {} /\ digest[d].lines # {}
          BY <3>1, <4>1, <4>2
        <5> QED BY <1>1, <4>2, <5>4, <5>5, <5>6, <5>7 DEF FitRow, Fits
      <4>4. digest' = [digest EXCEPT ![d] = row]
        BY <1>0, <2>1, <3>1, <4>1, <4>2 DEF Marked
      <4> QED BY <1>3, <4>3, <4>4
    <3>2. CASE ~(digest[d].due # {s} \/ digest[d].lines # {})
      <4>1. digest' = [digest EXCEPT ![d] = Rest(d, digest[d].users)]
        BY <2>1, <3>2 DEF Marked
      <4> QED BY <1>0, <1>1, <1>3, <4>1, RestType
    <3> QED BY <3>1, <3>2
  <2> QED BY <1>4, <1>6, <1>11, <2>3, <2>4 DEF MarkDigested
<1>12. CASE SendMail(d)
  <2>1. PICK row : row = [digest[d] EXCEPT !.pc = "record"]
    OBVIOUS
  <2>2. row \in FitRow /\ digest' = [digest EXCEPT ![d] = row]
    <3>1. row \in DigestRow /\ digest' = [digest EXCEPT ![d] = row]
      BY <1>0, <1>1, <1>12, <2>1 DEF SendMail, DigestRow
    <3>2. /\ row.pc = "record" /\ row.due = digest[d].due /\ row.user = digest[d].user
          /\ row.lines = digest[d].lines /\ row.unread = digest[d].unread /\ row.candidates = digest[d].candidates
      BY <1>1, <2>1 DEF DigestRow
    <3>3. digest[d].pc = "mail"
      BY <1>12 DEF SendMail
    <3> QED BY <1>1, <3>1, <3>2, <3>3 DEF FitRow, Fits
  <2>3. SeenOK' /\ again' \subseteq mailed'
    BY <1>0, <1>2, <1>12 DEF SendMail, SeenOK, history
  <2> QED BY <1>3, <1>4, <1>5, <1>12, <2>2, <2>3 DEF SendMail
<1>13. CASE RecordDigest(d)
  <2>1. SeenOK' /\ again' \subseteq mailed'
    BY <1>0, <1>2, <1>13 DEF RecordDigest, SeenOK, history
  <2>2. Typed
    BY <1>0, <1>1, <1>3, <1>13, RestType DEF RecordDigest
  <2> QED BY <1>4, <1>5, <1>13, <2>1, <2>2 DEF RecordDigest
<1>14. CASE FailDigest(d) \/ CrashDigest(d)
  <2>1. Abandon(d)
    BY <1>14 DEF FailDigest, CrashDigest
  <2>2. SeenOK' /\ again' \subseteq mailed'
    BY <1>0, <1>2, <2>1 DEF Abandon, SeenOK
  <2>3. Typed
    BY <1>0, <1>1, <1>3, <1>14, RestType, NoDigestType DEF FailDigest, CrashDigest
  <2> QED BY <1>4, <1>5, <2>1, <2>2, <2>3 DEF Abandon
<1> QED BY <1>7, <1>8, <1>9, <1>10, <1>11, <1>12, <1>13, <1>14, <1>15 DEF DigestStep

LEMMA NextTypes == TypeOK /\ [Next]_vars => TypeOK'
<1> SUFFICES ASSUME TypeOK, [Next]_vars PROVE TypeOK'
  OBVIOUS
<1>1. CASE UNCHANGED vars
  BY <1>1 DEF vars, digestVars, history, pollVars, TypeOK, PollTypeOK
<1> QED BY <1>1, BesideTypes, DigestStepTypes DEF Next

(* What is stored, read, mailed and remembered is of users, subscriptions   *)
(* and videos there are; a digest marks only after it has read and matched  *)
(* all that is due, and mails only a match (digest.ts: sendDigest); what a  *)
(* mail repeats was mailed.                                                 *)
THEOREM DigestTypeOK == Spec => []TypeOK
BY InitTypes, NextTypes, PTL DEF Spec

-----------------------------------------------------------------------------
(* What is behind a window.                                                 *)

(* v is accounted for whatever becomes of a digest that is under way: but   *)
(* for those a digest has marked the subscription of, which its failure     *)
(* puts in unsent, a digest's matches are not.                              *)
Accounted(u, v) ==
  \/ <<u, v>> \in notified \cup rejected \cup unsent \cup unrecorded \cup late
  \/ \E d \in Digests : For(d, u) /\ <<u, v>> \in TakenAndMarked(d)

(* The rows a digest holds are those of its user as they were, each with an *)
(* id that no other row has or will have.                                   *)
SubsOK == \A s \in subs : s.id < nextId /\ \A t \in subs : s.id = t.id => s = t
SameSub(s, t) == s.id = t.id /\ s.user = t.user /\ s.channel = t.channel
RowsOf(d) ==
  /\ digest[d].unread \subseteq digest[d].due
  /\ \A s \in digest[d].due :
       /\ For(d, s.user) /\ s.id < nextId
       /\ \A t \in subs : s.id = t.id => SameSub(s, t)
       /\ \A t \in digest[d].due : s.id = t.id => s = t
  /\ digest[d].pc # "build" => digest[d].unread = {} /\ digest[d].candidates = {}
  /\ digest[d].pc \in {"mail", "record"} => digest[d].due = {}
  /\ digest[d].pc \notin {"build", "mark", "mail", "record"} => digest[d].lines = {}
RowsOK == SubsOK /\ \A d \in Digests : RowsOf(d)

(* Behind the end of a stored window, and behind the end of a window that a *)
(* digest will store, once it has read the candidates of that window: there *)
(* a video may wait as a candidate still, or as a line.                     *)
SubAccounted(s) == \A n \in Known(s.channel) :
  firstSeen[<<s.channel, n>>] <= s.last => Accounted(s.user, <<s.channel, n>>)
Passed(d, s, t) == t <= digest[d].runDate /\ (s \notin digest[d].unread \/ t <= s.last)
DueAccounted(d) == \A s \in digest[d].due : \A n \in Known(s.channel) :
  Passed(d, s, firstSeen[<<s.channel, n>>]) =>
    \/ Accounted(s.user, <<s.channel, n>>)
    \/ <<<<s.channel, n>>, s>> \in digest[d].candidates
    \/ <<<<s.channel, n>>, s.id>> \in digest[d].lines

WindowsInv ==
  /\ TypeOK /\ RowsOK /\ (\A s \in subs : SubAccounted(s)) /\ (\A d \in Digests : DueAccounted(d))

LEMMA WindowsNoLoss == WindowsInv => NoSilentLoss
<1> SUFFICES ASSUME WindowsInv, NEW s \in subs, NEW n \in Known(s.channel), NEW v, v = <<s.channel, n>>, firstSeen[v] <= s.last
             PROVE  \/ <<s.user, v>> \in notified \cup rejected \cup unsent \cup unrecorded \cup late
                    \/ \E d \in Digests : For(d, s.user) /\ <<s.user, v>> \in Taken(d)
  BY DEF NoSilentLoss
<1>1. Accounted(s.user, v)
  BY DEF WindowsInv, SubAccounted
<1>2. \A d \in Digests : TakenAndMarked(d) \subseteq Taken(d)
  BY DEF TakenAndMarked, Taken
<1> QED BY <1>1, <1>2 DEF Accounted

LEMMA InitWindows == Init => WindowsInv
<1> SUFFICES ASSUME Init PROVE WindowsInv
  OBVIOUS
<1>1. subs = {} /\ \A d \in Digests : digest[d] = NoDigest
  BY DEF Init, PollInit
<1>2. NoDigest.due = {} /\ NoDigest.unread = {} /\ NoDigest.candidates = {} /\ NoDigest.lines = {} /\ NoDigest.pc = "idle"
  BY DEF NoDigest, BetweenUsers
<1> QED BY <1>1, <1>2, InitTypes DEF WindowsInv, RowsOK, SubsOK, RowsOf, SubAccounted, DueAccounted

(* A digest's step keeps what is accounted for if it leaves nothing that it *)
(* has taken and marked without a trace.                                    *)
LEMMA AccountsStay ==
  ASSUME NEW d \in Digests, \A e \in Digests : e # d => digest'[e] = digest[e],
         notified \subseteq notified', rejected \subseteq rejected', unsent \subseteq unsent',
         unrecorded \subseteq unrecorded', late \subseteq late',
         \A u, v : For(d, u) /\ <<u, v>> \in TakenAndMarked(d) => Accounted(u, v)',
         NEW u, NEW v, Accounted(u, v)
  PROVE  Accounted(u, v)'
<1>1. CASE <<u, v>> \in notified \cup rejected \cup unsent \cup unrecorded \cup late
  BY <1>1 DEF Accounted
<1>2. ASSUME NEW e \in Digests, e # d, For(e, u), <<u, v>> \in TakenAndMarked(e)
      PROVE  Accounted(u, v)'
  <2>1. For(e, u)' /\ TakenAndMarked(e)' = TakenAndMarked(e)
    BY <1>2 DEF For, TakenAndMarked
  <2> QED BY <1>2, <2>1 DEF Accounted
<1> QED BY <1>1, <1>2 DEF Accounted

(* Such a step, when the tables' subscriptions are in order after it.       *)
LEMMA DigestWindows ==
  ASSUME WindowsInv, TypeOK', NEW d \in Digests, \A e \in Digests : e # d => digest'[e] = digest[e],
         UNCHANGED <<firstSeen, nextId>>,
         notified \subseteq notified', rejected \subseteq rejected', unsent \subseteq unsent',
         unrecorded \subseteq unrecorded', late \subseteq late',
         \A u, v : For(d, u) /\ <<u, v>> \in TakenAndMarked(d) => Accounted(u, v)',
         \A t \in subs' : \E s \in subs : SameSub(t, s),
         SubsOK', \A s \in subs' : SubAccounted(s)', RowsOf(d)', DueAccounted(d)'
  PROVE  WindowsInv'
<1>1. \A u, v : Accounted(u, v) => Accounted(u, v)'
  BY AccountsStay
<1>2. ASSUME NEW e \in Digests, e # d PROVE RowsOf(e)' /\ DueAccounted(e)'
  <2>1. digest'[e] = digest[e] /\ RowsOf(e) /\ DueAccounted(e)
    BY <1>2 DEF WindowsInv, RowsOK
  <2>2. ASSUME NEW s \in digest[e].due, NEW t \in subs', s.id = t.id PROVE SameSub(s, t)
    <3>1. PICK r \in subs : SameSub(t, r)
      OBVIOUS
    <3> QED BY <2>1, <2>2, <3>1 DEF RowsOf, SameSub
  <2>3. \A u : For(e, u)' <=> For(e, u)
    BY <2>1 DEF For
  <2>4. RowsOf(e)'
    BY <2>1, <2>2, <2>3 DEF RowsOf
  <2>5. DueAccounted(e)'
    <3>1. \A c : Known(c)' = Known(c)
      BY DEF Known
    <3> QED BY <1>1, <2>1, <3>1 DEF DueAccounted, Passed
  <2> QED BY <2>4, <2>5
<1> QED BY <1>2 DEF WindowsInv, RowsOK

LEMMA QuietWindows ==
  ASSUME WindowsInv, TypeOK', NEW d \in Digests, NEW row, digest' = [digest EXCEPT ![d] = row],
         UNCHANGED pollVars,
         notified \subseteq notified', rejected \subseteq rejected', unsent \subseteq unsent',
         unrecorded \subseteq unrecorded', late \subseteq late',
         \A u, v : For(d, u) /\ <<u, v>> \in TakenAndMarked(d) => Accounted(u, v)',
         RowsOf(d)', DueAccounted(d)'
  PROVE  WindowsInv'
<1>1. \A e \in Digests : e # d => digest'[e] = digest[e]
  BY DEF WindowsInv, TypeOK
<1>2. UNCHANGED <<firstSeen, nextId, subs>>
  BY DEF pollVars
<1>3. \A u, v : Accounted(u, v) => Accounted(u, v)'
  BY <1>1, AccountsStay
<1>4. \A c : Known(c)' = Known(c)
  BY <1>2 DEF Known
<1>5. \A s \in subs : SubAccounted(s)'
  BY <1>2, <1>3, <1>4 DEF WindowsInv, SubAccounted
<1>6. SubsOK' /\ subs' = subs /\ \A t \in subs' : \E s \in subs : SameSub(t, s)
  BY <1>2 DEF WindowsInv, RowsOK, SubsOK, SameSub
<1> QED BY <1>1, <1>2, <1>5, <1>6, DigestWindows

(* A digest begins, or leaves its user.                                     *)
LEMMA LeaveWindows ==
  ASSUME WindowsInv, TypeOK', NEW d \in Digests, NEW row, digest' = [digest EXCEPT ![d] = row],
         row.due = {}, row.unread = {}, row.candidates = {}, row.lines = {}, row.pc \in {"idle", "daily", "run-now"},
         UNCHANGED pollVars,
         notified \subseteq notified', rejected \subseteq rejected', unsent \subseteq unsent',
         unrecorded \subseteq unrecorded', late \subseteq late',
         For(d, digest[d].user) => TakenAndMarked(d) \subseteq notified' \cup unsent' \cup unrecorded'
  PROVE  WindowsInv'
<1>1. digest'[d] = row
  BY DEF WindowsInv, TypeOK
<1>2. RowsOf(d)' /\ DueAccounted(d)'
  BY <1>1 DEF RowsOf, DueAccounted
<1>3. \A u, v : For(d, u) /\ <<u, v>> \in TakenAndMarked(d) => Accounted(u, v)'
  BY DEF For, Accounted
<1> QED BY <1>2, <1>3, QuietWindows

LEMMA RestIs ==
  ASSUME NEW d, NEW users, NEW r, r = Rest(d, users) \/ r = NoDigest
  PROVE  r.due = {} /\ r.unread = {} /\ r.candidates = {} /\ r.lines = {} /\ r.pc \in {"idle", "daily", "run-now"}
BY DEF Rest, NoDigest, BetweenUsers

LEMMA StartWindows ==
  ASSUME WindowsInv, TypeOK', NEW d \in Digests, NEW u \in Users,
         StartDaily(d) \/ RunNow(d, u) \/ ReadDue(d, u)
  PROVE  WindowsInv'
<1>0. digest[d].pc \in {"idle", "daily", "run-now"} /\ UNCHANGED <<pollVars, notified, mailed, again, history>>
  BY DEF StartDaily, RunNow, ReadDue
<1>1. UNCHANGED <<notified, rejected, unsent, unrecorded, late>>
  BY <1>0 DEF history
<1>2. \A w : ~For(d, w)
  BY <1>0 DEF For
<1>3. CASE StartDaily(d) \/ RunNow(d, u)
  <2>1. PICK pc, users : pc \in {"daily", "run-now"} /\ digest' = [digest EXCEPT ![d] = BetweenUsers(pc, users, now)]
    BY <1>3 DEF StartDaily, RunNow
  <2>2. PICK row : row = BetweenUsers(pc, users, now)
    OBVIOUS
  <2>3. row.due = {} /\ row.unread = {} /\ row.candidates = {} /\ row.lines = {} /\ row.pc \in {"idle", "daily", "run-now"}
    BY <2>1, <2>2 DEF BetweenUsers
  <2> QED BY <1>0, <1>1, <1>2, <2>1, <2>2, <2>3, LeaveWindows
<1>4. CASE ReadDue(d, u)
  <2>1. PICK due : due = DueSubscriptions(u, digest[d].runDate, digest[d].pc = "run-now")
    OBVIOUS
  <2>2. PICK others : others = digest[d].users \ {u}
    OBVIOUS
  <2>3. CASE digest' = [digest EXCEPT ![d] = Rest(d, others)]
    BY <1>0, <1>1, <1>2, <2>3, RestIs, LeaveWindows
  <2>4. CASE digest' = [digest EXCEPT ![d].pc = "build", ![d].users = others,
                                      ![d].user = u, ![d].due = due, ![d].unread = due]
    <3>1. PICK row : row = [digest[d] EXCEPT !.pc = "build", !.users = others, !.user = u, !.due = due, !.unread = due]
      OBVIOUS
    <3>2. digest \in [Digests -> DigestRow]
      BY DEF WindowsInv, TypeOK, DigestRow
    <3>3. digest' = [digest EXCEPT ![d] = row] /\ digest'[d] = row
      BY <2>4, <3>1, <3>2
    <3>4. row.pc = "build" /\ row.user = u /\ row.due = due /\ row.unread = due
      BY <3>1, <3>2 DEF DigestRow
    <3>5. due \subseteq subs /\ \A s \in due : s.user = u
      BY <2>1 DEF DueSubscriptions, SubsOf
    <3>6. subs' = subs /\ nextId' = nextId /\ firstSeen' = firstSeen
      BY <1>0 DEF pollVars
    <3>7. RowsOf(d)'
      <4>1. For(d, u)'
        BY <3>3, <3>4 DEF For
      <4>2. \A s \in due : s.id < nextId /\ \A t \in subs : s.id = t.id => s = t
        BY <3>5 DEF WindowsInv, RowsOK, SubsOK
      <4> QED BY <3>3, <3>4, <3>5, <3>6, <4>1, <4>2 DEF RowsOf, SameSub
    <3>8. DueAccounted(d)'
      <4> SUFFICES ASSUME NEW s \in due, NEW n \in Known(s.channel), firstSeen[<<s.channel, n>>] <= s.last
                   PROVE  Accounted(s.user, <<s.channel, n>>)'
        BY <3>3, <3>4, <3>6 DEF DueAccounted, Passed, Known
      <4>1. Accounted(s.user, <<s.channel, n>>)
        BY <3>5 DEF WindowsInv, SubAccounted
      <4>2. \A e \in Digests : e # d => digest'[e] = digest[e]
        BY <3>2, <3>3
      <4> QED BY <1>1, <1>2, <4>1, <4>2, AccountsStay
    <3> QED BY <1>0, <1>1, <1>2, <3>3, <3>7, <3>8, QuietWindows
  <2> QED BY <1>4, <2>1, <2>2, <2>3, <2>4 DEF ReadDue
<1> QED BY <1>3, <1>4

LEMMA ReadWindows ==
  ASSUME WindowsInv, TypeOK', NEW d \in Digests, ReadCandidates(d)
  PROVE  WindowsInv'
<1>1. digest \in [Digests -> DigestRow] /\ DigestIs
  BY DEF WindowsInv, TypeOK, DigestRow, DigestIs
<1>2. PICK s, pc, videos :
        /\ s \in digest[d].unread /\ pc \in {"build", "mark"}
        /\ videos = CandidateVideos(digest[d].user, s)
        /\ pc = "mark" => digest[d].unread = {s} /\ videos = {}
        /\ digest' = [digest EXCEPT ![d] = [digest[d] EXCEPT
                         !.unread = digest[d].unread \ {s}, !.candidates = videos \X {s}, !.pc = pc]]
        /\ doubled' = doubled \cup (({digest[d].user} \X videos) \cap
             UNION {Pending(e) \cup Taken(e) : e \in {e \in Digests \ {d} : For(e, digest[d].user)}})
  BY <1>1, ReadIs
<1>3. digest[d].pc = "build" /\ digest[d].candidates = {}
      /\ UNCHANGED <<pollVars, notified, rejected, unsent, unrecorded, late>>
  BY DEF ReadCandidates
<1>4. PICK rows, row :
        /\ rows = digest[d].unread \ {s}
        /\ row = [digest[d] EXCEPT !.unread = rows, !.candidates = videos \X {s}, !.pc = pc]
  OBVIOUS
<1>5. digest' = [digest EXCEPT ![d] = row] /\ digest'[d] = row
  BY <1>1, <1>2, <1>4
<1>6. /\ row.pc = pc /\ row.unread = rows /\ row.candidates = videos \X {s} /\ row.lines = digest[d].lines
      /\ row.due = digest[d].due /\ row.user = digest[d].user /\ row.runDate = digest[d].runDate
  BY <1>1, <1>4 DEF DigestRow
<1>7. subs' = subs /\ nextId' = nextId /\ firstSeen' = firstSeen
  BY <1>3 DEF pollVars
<1>8. \A w : For(d, w)' <=> For(d, w)
  BY <1>2, <1>3, <1>5, <1>6 DEF For
<1>9. RowsOf(d) /\ DueAccounted(d)
  BY DEF WindowsInv, RowsOK
<1>10. RowsOf(d)'
  <2>1. rows \subseteq digest[d].due /\ (pc # "build" => rows = {} /\ videos \X {s} = {})
    BY <1>2, <1>4, <1>9 DEF RowsOf
  <2> QED BY <1>2, <1>5, <1>6, <1>7, <1>8, <1>9, <2>1 DEF RowsOf
<1>11. \A w, v : For(d, w) /\ <<w, v>> \in TakenAndMarked(d) => Accounted(w, v)'
  <2>1. TakenAndMarked(d)' = TakenAndMarked(d)
    BY <1>5, <1>6 DEF TakenAndMarked
  <2> QED BY <1>8, <2>1 DEF Accounted
<1>12. \A w, v : Accounted(w, v) => Accounted(w, v)'
  <2>1. \A e \in Digests : e # d => digest'[e] = digest[e]
    BY <1>1, <1>5
  <2> QED BY <1>3, <1>11, <2>1, AccountsStay
<1>13. DueAccounted(d)'
  <2> SUFFICES ASSUME NEW r \in digest[d].due, NEW n \in Known(r.channel),
                      NEW v, v = <<r.channel, n>>,
                      firstSeen[v] <= digest[d].runDate, r \notin rows \/ firstSeen[v] <= r.last
               PROVE  \/ Accounted(r.user, v)'
                      \/ <<v, r>> \in videos \X {s}
                      \/ <<v, r.id>> \in digest[d].lines
    BY <1>5, <1>6, <1>7 DEF DueAccounted, Passed, Known
  <2>1. CASE r \notin digest[d].unread \/ firstSeen[v] <= r.last
    <3>1. Accounted(r.user, v) \/ <<v, r.id>> \in digest[d].lines
      BY <1>3, <1>9, <2>1 DEF DueAccounted, Passed
    <3> QED BY <1>12, <3>1
  <2>2. CASE r \in digest[d].unread /\ ~(firstSeen[v] <= r.last)
    <3>1. r = s
      BY <1>4, <2>2
    <3>2. r.user = digest[d].user /\ r \in Subscription
      BY <1>1, <1>9 DEF RowsOf, For, DigestRow
    <3>3. firstSeen[v] > r.last
      <4>1. r.channel \in Channels /\ r.last \in 0 .. MaxClock /\ v \in Video
        BY <3>2 DEF Subscription, Known, Video
      <4>2. firstSeen[v] \in 0 .. MaxClock
        BY <4>1 DEF WindowsInv, TypeOK, PollTypeOK
      <4> QED BY <2>2, <4>1, <4>2
    <3>4. CASE <<digest[d].user, v>> \in notified
      BY <1>3, <3>2, <3>4 DEF Accounted
    <3>5. CASE <<digest[d].user, v>> \notin notified
      <4>1. v \in videos
        BY <1>2, <3>1, <3>3, <3>5 DEF CandidateVideos
      <4> QED BY <3>1, <4>1
    <3> QED BY <3>4, <3>5
  <2> QED BY <2>1, <2>2
<1> QED BY <1>3, <1>5, <1>10, <1>11, <1>13, QuietWindows

(* A candidate becomes a line, or is judged and not taken.                  *)
LEMMA MatchWindows ==
  ASSUME WindowsInv, TypeOK', NEW d \in Digests, MatchVideo(d)
  PROVE  WindowsInv'
<1>1. digest \in [Digests -> DigestRow] /\ DigestIs
  BY DEF WindowsInv, TypeOK, DigestRow, DigestIs
<1>2. PICK x, pc, lines :
        /\ x \in digest[d].candidates /\ pc \in {"build", "mark"}
        /\ pc = "mark" => digest[d].unread = {} /\ digest[d].candidates = {x}
        /\ digest' = [digest EXCEPT ![d] = [digest[d] EXCEPT
                         !.candidates = digest[d].candidates \ {x}, !.lines = lines, !.pc = pc]]
        /\ \/ lines = digest[d].lines \cup {<<x[1], x[2].id>>} /\ rejected' = rejected
           \/ lines = digest[d].lines /\ rejected' = rejected \cup {<<digest[d].user, x[1]>>}
  BY <1>1, MatchIs
<1>3. digest[d].pc = "build" /\ UNCHANGED <<pollVars, notified, unsent, unrecorded, late>>
      /\ rejected \subseteq rejected' /\ digest[d].lines \subseteq lines
  BY <1>2 DEF MatchVideo
<1>4. PICK candidates, row :
        /\ candidates = digest[d].candidates \ {x}
        /\ row = [digest[d] EXCEPT !.candidates = candidates, !.lines = lines, !.pc = pc]
  OBVIOUS
<1>5. digest' = [digest EXCEPT ![d] = row] /\ digest'[d] = row
  BY <1>1, <1>2, <1>4
<1>6. /\ row.pc = pc /\ row.unread = digest[d].unread /\ row.candidates = candidates /\ row.lines = lines
      /\ row.due = digest[d].due /\ row.user = digest[d].user /\ row.runDate = digest[d].runDate
  BY <1>1, <1>4 DEF DigestRow
<1>7. subs' = subs /\ nextId' = nextId /\ firstSeen' = firstSeen
  BY <1>3 DEF pollVars
<1>8. \A w : For(d, w)' <=> For(d, w)
  BY <1>2, <1>3, <1>5, <1>6 DEF For
<1>9. RowsOf(d) /\ DueAccounted(d)
  BY DEF WindowsInv, RowsOK
<1>10. RowsOf(d)'
  <2>1. pc # "build" => digest[d].unread = {} /\ candidates = {}
    BY <1>2, <1>4
  <2> QED BY <1>2, <1>5, <1>6, <1>7, <1>8, <1>9, <2>1 DEF RowsOf
<1>11. \A w, v : For(d, w) /\ <<w, v>> \in TakenAndMarked(d) => Accounted(w, v)'
  <2>1. TakenAndMarked(d) \subseteq TakenAndMarked(d)'
    BY <1>3, <1>5, <1>6 DEF TakenAndMarked
  <2> QED BY <1>8, <2>1 DEF Accounted
<1>12. \A w, v : Accounted(w, v) => Accounted(w, v)'
  <2>1. \A e \in Digests : e # d => digest'[e] = digest[e]
    BY <1>1, <1>5
  <2> QED BY <1>3, <1>11, <2>1, AccountsStay
<1>13. DueAccounted(d)'
  <2> SUFFICES ASSUME NEW r \in digest[d].due, NEW n \in Known(r.channel),
                      NEW v, v = <<r.channel, n>>, Passed(d, r, firstSeen[v])
               PROVE  \/ Accounted(r.user, v)' \/ <<v, r>> \in candidates \/ <<v, r.id>> \in lines
    BY <1>5, <1>6, <1>7 DEF DueAccounted, Passed, Known
  <2>1. Accounted(r.user, v) \/ <<v, r>> \in digest[d].candidates \/ <<v, r.id>> \in digest[d].lines
    BY <1>9 DEF DueAccounted
  <2>2. CASE <<v, r>> = x
    <3>1. r.user = digest[d].user /\ x[1] = v /\ x[2] = r
      BY <1>9, <2>2 DEF RowsOf, For
    <3>2. <<v, r.id>> \in lines \/ <<r.user, v>> \in rejected'
      BY <1>2, <3>1
    <3> QED BY <3>2 DEF Accounted
  <2>3. CASE <<v, r>> # x
    BY <1>3, <1>4, <1>12, <2>1, <2>3
  <2> QED BY <2>2, <2>3
<1> QED BY <1>3, <1>5, <1>10, <1>11, <1>13, QuietWindows

(* One UPDATE: what the window passes has been read before.                 *)
LEMMA MarkWindows ==
  ASSUME WindowsInv, TypeOK', NEW d \in Digests, MarkDigested(d)
  PROVE  WindowsInv'
<1>1. PICK s \in digest[d].due :
        /\ subs' = {IF row.id = s.id THEN [row EXCEPT !.last = digest[d].runDate] ELSE row : row \in subs}
        /\ digest' = Marked(d, s)
  BY DEF MarkDigested
<1>2. /\ digest[d].pc = "mark"
      /\ UNCHANGED <<nextId, firstSeen, notified, mailed, again, rejected, unsent, unrecorded, late>>
  BY DEF MarkDigested, history
<1>3. digest \in [Digests -> DigestRow] /\ subs \subseteq Subscription /\ subs' \subseteq Subscription
  BY DEF WindowsInv, TypeOK, PollTypeOK, DigestRow
<1>4. RowsOf(d) /\ SubsOK /\ DueAccounted(d)
  BY DEF WindowsInv, RowsOK
<1>5. digest[d].unread = {} /\ digest[d].candidates = {}
  BY <1>2, <1>4 DEF RowsOf
<1>6. \A e \in Digests : e # d => digest'[e] = digest[e]
  BY <1>1, <1>3 DEF Marked
<1>7. \A c : Known(c)' = Known(c)
  BY <1>2 DEF Known
(* Either d goes on with s marked, or it had taken nothing.                 *)
<1>8. \/ /\ For(d, digest[d].user)' /\ digest'[d].user = digest[d].user /\ digest'[d].lines = digest[d].lines
         /\ digest'[d].due = digest[d].due \ {s} /\ digest'[d].unread = {} /\ digest'[d].candidates = {}
         /\ digest'[d].runDate = digest[d].runDate
         /\ digest'[d].pc \in {"mark", "mail"} /\ (digest'[d].pc = "mail" => digest[d].due = {s})
      \/ /\ digest[d].lines = {} /\ digest'[d].due = {} /\ digest'[d].unread = {} /\ digest'[d].candidates = {}
         /\ digest'[d].lines = {} /\ digest'[d].pc \in {"idle", "daily", "run-now"}
  <2>1. CASE digest[d].due # {s} \/ digest[d].lines # {}
    <3>1. PICK pc \in {"mark", "mail"} : pc = IF digest[d].due = {s} THEN "mail" ELSE "mark"
      OBVIOUS
    <3>2. PICK row, due : due = digest[d].due \ {s} /\ row = [digest[d] EXCEPT !.due = due, !.pc = pc]
      OBVIOUS
    <3>3. digest'[d] = row
      BY <1>1, <1>3, <2>1, <3>1, <3>2 DEF Marked
    <3>4. /\ row.user = digest[d].user /\ row.lines = digest[d].lines /\ row.due = due
          /\ row.unread = digest[d].unread /\ row.candidates = digest[d].candidates
          /\ row.runDate = digest[d].runDate /\ row.pc = pc
      BY <1>3, <3>2 DEF DigestRow
    <3>5. pc = "mail" => digest[d].due = {s}
      BY <3>1
    <3> QED BY <1>5, <3>2, <3>3, <3>4, <3>5 DEF For
  <2>2. CASE ~(digest[d].due # {s} \/ digest[d].lines # {})
    <3>1. digest'[d] = Rest(d, digest[d].users)
      BY <1>1, <1>3, <2>2 DEF Marked
    <3> QED BY <2>2, <3>1, RestIs
  <2> QED BY <2>1, <2>2
<1>9. \A r \in digest[d].due : s.id = r.id => s = r
  BY <1>4 DEF RowsOf
<1>10. \A u, v : For(d, u) /\ <<u, v>> \in TakenAndMarked(d) => Accounted(u, v)'
  <2> SUFFICES ASSUME NEW u, NEW v, For(d, u), <<u, v>> \in TakenAndMarked(d) PROVE Accounted(u, v)'
    OBVIOUS
  <2>1. digest[d].lines # {} /\ u = digest[d].user
    BY DEF TakenAndMarked, For
  <2>2. TakenAndMarked(d) \subseteq TakenAndMarked(d)'
    BY <1>8, <2>1 DEF TakenAndMarked, Ids
  <2> QED BY <1>8, <2>1, <2>2 DEF Accounted
<1>11. \A u, v : Accounted(u, v) => Accounted(u, v)'
  BY <1>2, <1>6, <1>10, AccountsStay
<1>12. \A t \in subs' : \E r \in subs :
         SameSub(t, r) /\ t = IF r.id = s.id THEN [r EXCEPT !.last = digest[d].runDate] ELSE r
  <2> SUFFICES ASSUME NEW t \in subs'
               PROVE  \E r \in subs : SameSub(t, r) /\ t = IF r.id = s.id THEN [r EXCEPT !.last = digest[d].runDate] ELSE r
    OBVIOUS
  <2>1. PICK r \in subs : t = IF r.id = s.id THEN [r EXCEPT !.last = digest[d].runDate] ELSE r
    BY <1>1
  <2>2. r \in Subscription
    BY <1>3
  <2>3. SameSub(t, r)
    BY <2>1, <2>2 DEF SameSub, Subscription
  <2> QED BY <2>1, <2>3
<1>13. SubsOK'
  <2>1. \A t, r \in subs' : t.id = r.id => t = r
    BY <1>4, <1>12 DEF SubsOK, SameSub
  <2>2. \A t \in subs' : t.id < nextId
    BY <1>4, <1>12 DEF SubsOK, SameSub
  <2> QED BY <1>2, <2>1, <2>2 DEF SubsOK
<1>14. \A t \in subs' : SubAccounted(t)'
  <2> SUFFICES ASSUME NEW t \in subs', NEW n \in Known(t.channel), NEW v, v = <<t.channel, n>>, firstSeen[v] <= t.last
               PROVE  Accounted(t.user, v)'
    BY <1>2, <1>7 DEF SubAccounted
  <2>1. PICK r \in subs : SameSub(t, r) /\ t = IF r.id = s.id THEN [r EXCEPT !.last = digest[d].runDate] ELSE r
    BY <1>12
  <2>2. CASE r.id # s.id
    <3>1. t = r
      BY <2>1, <2>2
    <3>2. Accounted(t.user, v)
      BY <3>1 DEF WindowsInv, SubAccounted
    <3> QED BY <1>11, <3>2
  <2>3. CASE r.id = s.id
    <3>1. t.last = digest[d].runDate
      <4>1. r \in Subscription
        BY <1>3
      <4> QED BY <2>1, <2>3, <4>1 DEF Subscription
    <3>2. SameSub(s, r) /\ For(d, s.user)
      BY <1>4, <2>3 DEF RowsOf
    <3>3. t.channel = s.channel /\ t.user = s.user
      BY <2>1, <3>2 DEF SameSub
    <3>4. Accounted(s.user, v) \/ <<v, s.id>> \in digest[d].lines
      BY <1>4, <1>5, <3>1, <3>3 DEF DueAccounted, Passed
    <3>5. CASE Accounted(s.user, v)
      BY <1>11, <3>3, <3>5
    <3>6. CASE <<v, s.id>> \in digest[d].lines
      <4>1. For(d, s.user)' /\ s.user = digest[d].user
        BY <1>8, <3>2, <3>6 DEF For
      <4>2. s.id \notin Ids(digest'[d].due)
        BY <1>8, <1>9, <3>6 DEF Ids
      <4>3. PICK line \in digest'[d].lines : line = <<v, s.id>>
        BY <1>8, <3>6
      <4>4. line[1] = v /\ line[2] \notin Ids(digest'[d].due)
        BY <4>2, <4>3
      <4>5. <<s.user, v>> \in TakenAndMarked(d)'
        BY <1>8, <3>6, <4>1, <4>3, <4>4 DEF TakenAndMarked, Ids
      <4> QED BY <3>3, <4>1, <4>5 DEF Accounted
    <3> QED BY <3>4, <3>5, <3>6
  <2> QED BY <2>2, <2>3
<1>15. \A t \in subs' : \E r \in subs : SameSub(t, r)
  BY <1>12
<1>16. RowsOf(d)'
  <2>1. CASE digest'[d].due = {}
    BY <1>8, <2>1 DEF RowsOf
  <2>2. CASE digest'[d].due # {}
    <3>1. digest'[d].due \subseteq digest[d].due /\ digest'[d].unread = {} /\ digest'[d].candidates = {}
          /\ digest'[d].pc = "mark" /\ digest'[d].user = digest[d].user
      BY <1>8, <2>2
    <3>2. \A u : For(d, u) => For(d, u)'
      BY <3>1 DEF For
    <3>3. ASSUME NEW r \in digest'[d].due, NEW t \in subs', r.id = t.id PROVE SameSub(r, t)
      <4>1. PICK q \in subs : SameSub(t, q)
        BY <1>15
      <4>2. SameSub(r, q)
        BY <1>4, <3>1, <3>3, <4>1 DEF RowsOf, SameSub
      <4> QED BY <4>1, <4>2 DEF SameSub
    <3> QED BY <1>2, <1>4, <3>1, <3>2, <3>3 DEF RowsOf
  <2> QED BY <2>1, <2>2
<1>17. DueAccounted(d)'
  <2>1. CASE digest'[d].due = {}
    BY <2>1 DEF DueAccounted
  <2>2. CASE digest'[d].due # {}
    <3>1. digest'[d].due \subseteq digest[d].due /\ digest'[d].unread = digest[d].unread
          /\ digest'[d].candidates = digest[d].candidates
          /\ digest'[d].lines = digest[d].lines /\ digest'[d].runDate = digest[d].runDate
      BY <1>5, <1>8, <2>2
    <3> QED BY <1>2, <1>4, <1>7, <1>11, <3>1 DEF DueAccounted, Passed
  <2> QED BY <2>1, <2>2
<1> QED BY <1>2, <1>6, <1>10, <1>13, <1>14, <1>15, <1>16, <1>17, DigestWindows

LEMMA EndWindows ==
  ASSUME WindowsInv, TypeOK', NEW d \in Digests,
         SendMail(d) \/ RecordDigest(d) \/ FailDigest(d) \/ CrashDigest(d)
  PROVE  WindowsInv'
<1>1. TakenAndMarked(d) \subseteq Taken(d)
  BY DEF TakenAndMarked, Taken
<1>2. digest \in [Digests -> DigestRow] /\ RowsOf(d)
  BY DEF WindowsInv, TypeOK, DigestRow, RowsOK
<1>3. CASE RecordDigest(d)
  <2>1. digest' = [digest EXCEPT ![d] = Rest(d, digest[d].users)] /\ notified' = notified \cup Taken(d)
        /\ UNCHANGED <<pollVars, rejected, unsent, unrecorded, late>>
    BY <1>3 DEF RecordDigest, history
  <2> QED BY <1>1, <2>1, RestIs, LeaveWindows
<1>4. CASE FailDigest(d) \/ CrashDigest(d)
  <2>1. PICK row : digest' = [digest EXCEPT ![d] = row] /\ (row = Rest(d, digest[d].users) \/ row = NoDigest)
    BY <1>4 DEF FailDigest, CrashDigest
  <2>2. /\ UNCHANGED <<pollVars, notified, rejected, late>>
        /\ unsent' = unsent \cup (IF digest[d].pc # "record" THEN TakenAndMarked(d) ELSE {})
        /\ unrecorded' = unrecorded \cup (IF digest[d].pc = "record" THEN Taken(d) ELSE {})
    BY <1>4 DEF FailDigest, CrashDigest, Abandon
  <2>3. TakenAndMarked(d) \subseteq unsent' \cup unrecorded'
    BY <1>1, <2>2
  <2>4. row.due = {} /\ row.unread = {} /\ row.candidates = {} /\ row.lines = {} /\ row.pc \in {"idle", "daily", "run-now"}
    BY <2>1, RestIs
  <2> QED BY <2>1, <2>2, <2>3, <2>4, LeaveWindows
<1>5. CASE SendMail(d)
  <2>1. PICK row : row = [digest[d] EXCEPT !.pc = "record"]
    OBVIOUS
  <2>2. digest' = [digest EXCEPT ![d] = row] /\ digest[d].pc = "mail"
        /\ UNCHANGED <<pollVars, notified, rejected, unsent, unrecorded, late>>
    BY <1>2, <1>5, <2>1 DEF SendMail, history
  <2>3. digest'[d] = row
    BY <1>2, <2>2
  <2>4. /\ row.pc = "record" /\ row.due = digest[d].due /\ row.unread = digest[d].unread
        /\ row.candidates = digest[d].candidates /\ row.lines = digest[d].lines /\ row.user = digest[d].user
    BY <1>2, <2>1 DEF DigestRow
  <2>5. digest[d].due = {} /\ digest[d].unread = {} /\ digest[d].candidates = {}
    BY <1>2, <2>2 DEF RowsOf
  <2>6. RowsOf(d)' /\ DueAccounted(d)'
    BY <2>3, <2>4, <2>5 DEF RowsOf, DueAccounted
  <2>7. \A u, v : For(d, u) /\ <<u, v>> \in TakenAndMarked(d) => Accounted(u, v)'
    <3>1. TakenAndMarked(d)' = TakenAndMarked(d) /\ \A u : For(d, u) => For(d, u)'
      BY <2>3, <2>4 DEF TakenAndMarked, For
    <3> QED BY <3>1 DEF Accounted
  <2> QED BY <2>2, <2>6, <2>7, QuietWindows
<1> QED BY <1>3, <1>4, <1>5

(* Rows appear, behind a window only as late; subscriptions come with no    *)
(* window, are edited and go.                                               *)
LEMMA BesideWindows ==
  ASSUME WindowsInv, TypeOK', Beside
  PROVE  WindowsInv'
<1>0. TypeOK /\ PollTypeOK /\ firstSeen \in [Video -> 0 .. MaxClock] /\ subs \subseteq Subscription
      /\ digest \in [Digests -> DigestRow]
  BY DEF WindowsInv, TypeOK, PollTypeOK, DigestRow
<1>1. PollNext /\ UNCHANGED <<digest, notified, mailed, again, rejected, unsent, unrecorded, doubled>>
  BY DEF Beside
<1>2. late' = late \cup {pair \in Pairs : /\ firstSeen[pair[2]] = 0 /\ firstSeen'[pair[2]] # 0
                                          /\ Closed(pair[1], pair[2][1], firstSeen'[pair[2]])}
  BY DEF Beside
<1>3. \A u, v : Accounted(u, v) => Accounted(u, v)'
  BY <1>1, <1>2 DEF Accounted, For, TakenAndMarked
<1>4. \A e \in Digests : digest'[e] = digest[e] /\ \A u : For(e, u)' <=> For(e, u)
  BY <1>1 DEF For
(* A step stores a row, or touches subscriptions, or neither.               *)
<1>5. (subs' = subs /\ nextId' = nextId) \/ firstSeen' = firstSeen
  <2>1. CASE World
    BY <2>1 DEF World, Tick, Expire, Upload, Subscribe, Unsubscribe, EditSubscription, tables
  <2>2. ASSUME NEW p \in Polls, PollStep(p) PROVE subs' = subs /\ nextId' = nextId
    BY <2>2 DEF PollStep, StartPoll, ReadLatest, ListUploads, InsertVideo, TrackVideos, RecordStats, MarkPolled,
                FailChannel, EndPoll, CrashPoll, tables
  <2> QED BY <1>1, <2>1, <2>2 DEF PollNext
<1>6. \A v \in Video : firstSeen[v] # 0 => firstSeen'[v] = firstSeen[v]
  BY <1>0, <1>1, SeenStays
<1>7. CASE subs' = subs /\ nextId' = nextId
  <2>1. RowsOK'
    BY <1>4, <1>7 DEF WindowsInv, RowsOK, SubsOK, RowsOf
  <2>2. ASSUME NEW s \in Subscription, NEW n \in Known(s.channel)', NEW v, v = <<s.channel, n>>,
               n \notin Known(s.channel), Closed(s.user, s.channel, firstSeen'[v])
        PROVE  Accounted(s.user, v)'
    <3>1. s.user \in Users /\ s.channel \in Channels /\ n \in 1 .. MaxUploads
      BY DEF Subscription, Known
    <3>2. v \in Video /\ <<s.user, v>> \in Pairs
      BY <2>2, <3>1 DEF Video, Pairs
    <3>3. firstSeen[v] = 0 /\ firstSeen'[v] # 0
      BY <2>2, <3>1 DEF Known
    <3>4. <<s.user, v>> \in late'
      <4>1. PICK pair : pair = <<s.user, v>>
        OBVIOUS
      <4>2. pair \in Pairs /\ pair[1] = s.user /\ pair[2] = v /\ v[1] = s.channel
        BY <2>2, <3>2, <4>1
      <4> QED BY <1>2, <2>2, <3>3, <4>1, <4>2
    <3> QED BY <3>4 DEF Accounted
  <2>3. \A c \in Channels : \A n \in Known(c) : n \in Known(c)' => firstSeen'[<<c, n>>] = firstSeen[<<c, n>>]
    BY <1>6 DEF Known, Video
  <2>4. ASSUME NEW s \in subs PROVE SubAccounted(s)'
    <3>1. s \in Subscription /\ s.channel \in Channels
      BY <1>0 DEF Subscription
    <3> SUFFICES ASSUME NEW n \in Known(s.channel)', NEW v, v = <<s.channel, n>>, firstSeen'[v] <= s.last
                 PROVE  Accounted(s.user, v)'
      BY DEF SubAccounted
    <3>2. CASE n \in Known(s.channel)
      <4>1. Accounted(s.user, v)
        BY <2>3, <3>1, <3>2 DEF WindowsInv, SubAccounted
      <4> QED BY <1>3, <4>1
    <3>3. CASE n \notin Known(s.channel)
      <4>1. s.last >= firstSeen'[v]
        <5>1. n \in 1 .. MaxUploads /\ v \in Video
          BY <3>1 DEF Known, Video
        <5>2. firstSeen'[v] \in 0 .. MaxClock /\ s.last \in 0 .. MaxClock
          BY <3>1, <5>1 DEF TypeOK, PollTypeOK, Subscription
        <5> QED BY <5>2
      <4>2. Closed(s.user, s.channel, firstSeen'[v])
        BY <4>1 DEF Closed, SubsOf
      <4> QED BY <2>2, <3>1, <3>3, <4>2
    <3> QED BY <3>2, <3>3
  <2>5. ASSUME NEW d \in Digests PROVE DueAccounted(d)'
    <3> SUFFICES ASSUME NEW s \in digest[d].due, NEW n \in Known(s.channel)', NEW v, v = <<s.channel, n>>,
                        firstSeen'[v] <= digest[d].runDate, s \notin digest[d].unread \/ firstSeen'[v] <= s.last
                 PROVE  Accounted(s.user, v)' \/ <<v, s>> \in digest[d].candidates \/ <<v, s.id>> \in digest[d].lines
      BY <1>4 DEF DueAccounted, Passed
    <3>1. s \in Subscription /\ digest[d].runDate \in 0 .. MaxClock
      BY <1>0 DEF DigestRow
    <3>2. s.channel \in Channels /\ s.last \in 0 .. MaxClock
      BY <3>1 DEF Subscription
    <3>3. CASE n \in Known(s.channel)
      <4>1. Accounted(s.user, v) \/ <<v, s>> \in digest[d].candidates \/ <<v, s.id>> \in digest[d].lines
        BY <2>3, <3>2, <3>3 DEF WindowsInv, DueAccounted, Passed
      <4> QED BY <1>3, <4>1
    <3>4. CASE n \notin Known(s.channel)
      <4>1. For(d, s.user)
        BY DEF WindowsInv, RowsOK, RowsOf
      <4>2. firstSeen'[v] \in 0 .. MaxClock
        <5>1. v \in Video
          BY <3>2 DEF Known, Video
        <5> QED BY <5>1 DEF TypeOK, PollTypeOK
      <4>3. digest[d].runDate >= firstSeen'[v] /\ (s \notin digest[d].unread \/ s.last >= firstSeen'[v])
        BY <3>1, <3>2, <4>2
      <4>4. Closed(s.user, s.channel, firstSeen'[v])
        BY <4>1, <4>3 DEF Closed
      <4> QED BY <2>2, <3>1, <3>4, <4>4
    <3> QED BY <3>3, <3>4
  <2> QED BY <1>7, <2>1, <2>4, <2>5 DEF WindowsInv
<1>8. CASE firstSeen' = firstSeen
  <2>1. \A c : Known(c)' = Known(c)
    BY <1>8 DEF Known
  (* Every row is new, with no window, or was there but for mode and cadence. *)
  <2>2. /\ nextId' \in Int /\ nextId <= nextId'
        /\ \A t \in subs' : \/ t.id = nextId /\ t.id < nextId' /\ t.last = 0 /\ t \in Subscription
                            \/ \E s \in subs : SameSub(t, s) /\ t.last = s.last
        /\ SubsOK'
    <3>1. nextId \in Nat /\ SubsOK /\ \A s \in subs : s \in Subscription /\ s.id \in Nat
      BY <1>0 DEF WindowsInv, RowsOK, PollTypeOK, Subscription
    <3>2. CASE subs' \subseteq subs /\ nextId' = nextId
      BY <3>1, <3>2 DEF SubsOK, SameSub
    <3>3. ASSUME NEW u \in Users, NEW c \in Channels, NEW mode \in Modes, NEW cadence \in Cadences,
                 Subscribe(u, c, mode, cadence)
          PROVE  <2>2!1 /\ <2>2!2 /\ <2>2!3
      <4>1. PICK t : t = [id |-> nextId, user |-> u, channel |-> c, mode |-> mode, cadence |-> cadence, last |-> 0]
        OBVIOUS
      <4>2. t.id = nextId /\ t.last = 0 /\ subs' = subs \cup {t} /\ nextId' = nextId + 1
        BY <3>3, <4>1 DEF Subscribe
      <4>3. t \in Subscription
        BY <4>2 DEF TypeOK, PollTypeOK
      <4>4. \A s \in subs : s.id # nextId /\ s.id < nextId + 1
        BY <3>1 DEF SubsOK
      <4>5. SubsOK'
        BY <3>1, <4>2, <4>4 DEF SubsOK
      <4> QED BY <3>1, <4>2, <4>3, <4>5 DEF SameSub
    <3>4. ASSUME NEW s \in subs, NEW mode \in Modes, NEW cadence \in Cadences, EditSubscription(s, mode, cadence)
          PROVE  <2>2!1 /\ <2>2!2 /\ <2>2!3
      <4>1. PICK t : t = [s EXCEPT !.mode = mode, !.cadence = cadence]
        OBVIOUS
      <4>2. subs' = (subs \ {s}) \cup {t} /\ nextId' = nextId
        BY <3>4, <4>1 DEF EditSubscription
      <4>3. SameSub(t, s) /\ t.last = s.last
        BY <3>1, <4>1 DEF SameSub, Subscription
      <4>4. SubsOK'
        BY <3>1, <4>2, <4>3 DEF SubsOK, SameSub
      <4> QED BY <3>1, <4>2, <4>3, <4>4 DEF SameSub
    <3>5. CASE World
      <4>1. CASE subs' \subseteq subs /\ nextId' = nextId
        BY <3>2, <4>1
      <4>2. CASE ~(subs' \subseteq subs /\ nextId' = nextId)
        <5>1. \/ \E u \in Users, c \in Channels, mode \in Modes, cadence \in Cadences : Subscribe(u, c, mode, cadence)
              \/ \E s \in subs, mode \in Modes, cadence \in Cadences : EditSubscription(s, mode, cadence)
          BY <3>5, <4>2 DEF World, Tick, Expire, Upload, Unsubscribe, tables
        <5> QED BY <5>1, <3>3, <3>4
      <4> QED BY <4>1, <4>2
    <3>6. ASSUME NEW p \in Polls, PollStep(p) PROVE subs' \subseteq subs /\ nextId' = nextId
      BY <3>6 DEF PollStep, StartPoll, ReadLatest, ListUploads, InsertVideo, TrackVideos, RecordStats, MarkPolled,
                  FailChannel, EndPoll, CrashPoll, tables
    <3> QED BY <1>1, <3>2, <3>5, <3>6 DEF PollNext
  <2>3. ASSUME NEW d \in Digests PROVE RowsOf(d)'
    <3>1. RowsOf(d) /\ digest'[d] = digest[d] /\ \A u : For(d, u)' <=> For(d, u)
      BY <1>4 DEF WindowsInv, RowsOK
    <3>2. nextId \in Int /\ \A s \in digest[d].due : s.id \in Int
      BY <1>0 DEF PollTypeOK, DigestRow, Subscription
    <3>3. \A s \in digest[d].due : s.id < nextId'
      BY <2>2, <3>1, <3>2 DEF RowsOf
    <3>4. ASSUME NEW s \in digest[d].due, NEW t \in subs', s.id = t.id PROVE SameSub(s, t)
      <4>1. s.id # nextId
        BY <3>1, <3>2 DEF RowsOf
      <4>2. PICK r \in subs : SameSub(t, r)
        BY <2>2, <3>4, <4>1
      <4> QED BY <3>1, <3>4, <4>2 DEF RowsOf, SameSub
    <3> QED BY <3>1, <3>3, <3>4 DEF RowsOf
  <2>4. ASSUME NEW t \in subs' PROVE SubAccounted(t)'
    <3> SUFFICES ASSUME NEW n \in Known(t.channel), NEW v, v = <<t.channel, n>>, firstSeen[v] <= t.last
                 PROVE  Accounted(t.user, v)'
      BY <1>8, <2>1 DEF SubAccounted
    <3>1. CASE t.last = 0 /\ t \in Subscription
      <4>1. v \in Video /\ firstSeen[v] # 0
        BY <3>1 DEF Known, Video, Subscription
      <4>2. firstSeen[v] \in Nat
        BY <1>0, <4>1
      <4> QED BY <3>1, <4>1, <4>2
    <3>2. ASSUME NEW s \in subs, SameSub(t, s), t.last = s.last PROVE Accounted(t.user, v)'
      <4>1. Accounted(s.user, v)
        BY <3>2 DEF WindowsInv, SubAccounted, SameSub
      <4> QED BY <1>3, <3>2, <4>1 DEF SameSub
    <3> QED BY <2>2, <3>1, <3>2
  <2>5. ASSUME NEW d \in Digests PROVE DueAccounted(d)'
    <3>1. DueAccounted(d) /\ digest'[d] = digest[d]
      BY <1>4 DEF WindowsInv
    <3> QED BY <1>3, <1>8, <2>1, <3>1 DEF DueAccounted, Passed
  <2> QED BY <2>2, <2>3, <2>4, <2>5 DEF WindowsInv, RowsOK
<1> QED BY <1>5, <1>7, <1>8

LEMMA NextWindows == WindowsInv /\ [Next]_vars => WindowsInv'
<1> SUFFICES ASSUME WindowsInv, [Next]_vars PROVE WindowsInv'
  OBVIOUS
<1>1. TypeOK'
  BY NextTypes DEF WindowsInv
<1>2. CASE Beside
  BY <1>1, <1>2, BesideWindows
<1>3. ASSUME NEW d \in Digests, DigestStep(d) PROVE WindowsInv'
  <2>1. CASE StartDaily(d)
    <3>1. PICK u \in Users : TRUE
      BY PollAssumption
    <3> QED BY <1>1, <2>1, StartWindows
  <2>2. CASE \E u \in Users : RunNow(d, u) \/ ReadDue(d, u)
    BY <1>1, <2>2, StartWindows
  <2> QED BY <1>1, <1>3, <2>1, <2>2, ReadWindows, MatchWindows, MarkWindows, EndWindows DEF DigestStep
<1>4. CASE UNCHANGED vars
  <2>1. UNCHANGED <<subs, nextId, firstSeen, digest, notified, rejected, unsent, unrecorded, late>>
    BY <1>4 DEF vars, digestVars, history, pollVars
  <2>2. \A c : Known(c)' = Known(c)
    BY <2>1 DEF Known
  <2>3. \A u, v : Accounted(u, v) => Accounted(u, v)'
    BY <2>1 DEF Accounted, For, TakenAndMarked, Ids
  <2>4. RowsOK'
    BY <2>1 DEF WindowsInv, RowsOK, SubsOK, RowsOf, For
  <2>5. ASSUME NEW s \in subs' PROVE SubAccounted(s)'
    BY <2>1, <2>2, <2>3, <2>5 DEF WindowsInv, SubAccounted
  <2>6. ASSUME NEW d \in Digests PROVE DueAccounted(d)'
    BY <2>1, <2>2, <2>3, <2>6 DEF WindowsInv, DueAccounted, Passed
  <2> QED BY <1>1, <2>4, <2>5, <2>6 DEF WindowsInv
<1> QED BY <1>2, <1>3, <1>4 DEF Next

(* A stored video behind a subscription's window is notified, on its way,   *)
(* was judged and refused, or lost in one of the ways NoSilentLoss names    *)
(* (digest.ts: markDigested comes before the mail and its record).          *)
THEOREM AlwaysNoSilentLoss == Spec => []NoSilentLoss
BY InitWindows, NextWindows, WindowsNoLoss, PTL DEF Spec

-----------------------------------------------------------------------------
(* What mails and records hold.                                            *)

\* digest is a function to records; before a digest comes to a user it holds
\* nothing, and no candidate once it has matched all.
Shape ==
  /\ DigestIs
  /\ \A d \in Digests :
       /\ DOMAIN digest[d] = {"pc", "users", "user", "runDate", "due", "unread", "candidates", "lines"}
       /\ digest[d].pc \notin {"build", "mark", "mail", "record"} => digest[d].lines = {}
       /\ digest[d].pc # "build" => digest[d].candidates = {}

\* What was mailed is recorded, could not be, or is about to be.
MailedIsKept ==
  \A x \in mailed :
    \/ x \in notified \cup unrecorded
    \/ \E d \in Digests : digest[d].pc = "record" /\ x \in Taken(d)

\* What a digest may mail yet: its matches, and the candidates it has read.
Held(d) == Pending(d) \cup Taken(d)

\* A digest that has not mailed yet holds no notified video, unless another
\* digest held it at the same time.
HeldIsNew ==
  \A d \in Digests : digest[d].pc # "record" => Held(d) \cap notified \subseteq doubled

\* What two digests hold is doubled.
SharedIsDoubled ==
  \A d, e \in Digests : d # e => Held(d) \cap Held(e) \subseteq doubled

MailInv == Shape /\ MailedIsKept /\ HeldIsNew /\ SharedIsDoubled /\ MailedAgainHasACause

-----------------------------------------------------------------------------
(* A step that leaves the digests, the outbox and notified_videos alone keeps *)
(* the invariant: every step of the poll and of the users.                    *)
LEMMA BesideKeeps ==
  ASSUME MailInv, UNCHANGED <<digest, notified, mailed, again, unrecorded, doubled>>
  PROVE  MailInv'
BY DEF MailInv, Shape, DigestIs, MailedIsKept, HeldIsNew, SharedIsDoubled, MailedAgainHasACause, Held, Pending, Taken

(* Steps that start a digest, or come to its next user, take nothing.       *)
LEMMA NothingTaken ==
  ASSUME MailInv, NEW d \in Digests, Shape',
         \A e \in Digests \ {d} : digest'[e] = digest[e],
         digest'[d].lines = {}, digest'[d].candidates = {}, digest'[d].pc # "record",
         UNCHANGED <<mailed, again, doubled>>,
         notified \subseteq notified', unrecorded \subseteq unrecorded',
         notified' \subseteq notified \cup Taken(d),
         digest[d].pc = "record" => Taken(d) \subseteq notified' \cup unrecorded'
  PROVE  MailInv'
<1>1. \A e \in Digests \ {d} : digest'[e] = digest[e] /\ Taken(e)' = Taken(e) /\ Held(e)' = Held(e)
  BY DEF Taken, Pending, Held
<1> Held(d)' = {} /\ Taken(d) \subseteq Held(d)
  BY DEF Taken, Pending, Held
<1>2. MailedIsKept'
  <2> SUFFICES ASSUME NEW x \in mailed
               PROVE  \/ x \in notified' \cup unrecorded'
                      \/ \E e \in Digests : digest'[e].pc = "record" /\ x \in Taken(e)'
    BY DEF MailedIsKept
  <2>1. CASE x \in notified \cup unrecorded
    BY <2>1
  <2>2. CASE \E e \in Digests : digest[e].pc = "record" /\ x \in Taken(e)
    BY <2>2, <1>1
  <2> QED  BY <2>1, <2>2 DEF MailInv, MailedIsKept
<1>3. HeldIsNew'
  <2> SUFFICES ASSUME NEW e \in Digests, digest'[e].pc # "record"
               PROVE  Held(e)' \cap notified' \subseteq doubled
    BY DEF HeldIsNew
  <2>1. CASE e = d
    BY <2>1, <1>1
  <2>2. CASE e # d
    <3>1. Held(e) \cap notified \subseteq doubled
      BY <1>1, <2>2 DEF MailInv, HeldIsNew
    <3>2. Held(e) \cap Taken(d) \subseteq doubled
      BY <2>2 DEF MailInv, SharedIsDoubled
    <3> QED  BY <1>1, <2>2, <3>1, <3>2
  <2> QED  BY <2>1, <2>2
<1>4. SharedIsDoubled'
  BY <1>1 DEF MailInv, SharedIsDoubled
<1>5. MailedAgainHasACause'
  BY DEF MailInv, MailedAgainHasACause
<1> QED  BY <1>2, <1>3, <1>4, <1>5 DEF MailInv

(* Steps that move a digest on with what it has taken, before it records.   *)
LEMMA TakenStays ==
  ASSUME MailInv, NEW d \in Digests, Shape',
         \A e \in Digests \ {d} : digest'[e] = digest[e],
         digest'[d].user = digest[d].user \/ digest[d].lines = {},
         digest'[d].lines = digest[d].lines, digest'[d].candidates = {}, digest[d].candidates = {},
         digest[d].pc # "record",
         UNCHANGED <<notified, unrecorded, doubled>>,
         \/ digest'[d].pc # "record" /\ UNCHANGED <<mailed, again>>
         \/ /\ digest'[d].pc = "record"
            /\ mailed' = mailed \cup Taken(d)
            /\ again' = again \cup (mailed \cap Taken(d))
  PROVE  MailInv'
<1>1. \A e \in Digests \ {d} : digest'[e] = digest[e] /\ Taken(e)' = Taken(e) /\ Held(e)' = Held(e)
  BY DEF Taken, Pending, Held
<1> Taken(d)' = Taken(d) /\ Held(d)' = Taken(d) /\ Held(d) = Taken(d) /\ \A e \in Digests : Taken(e) \subseteq Held(e)
  BY DEF Taken, Pending, Held
<1>2. MailedIsKept'
  <2> SUFFICES ASSUME NEW x \in mailed'
               PROVE  \/ x \in notified \cup unrecorded
                      \/ \E e \in Digests : digest'[e].pc = "record" /\ x \in Taken(e)'
    BY DEF MailedIsKept
  <2>1. CASE x \in mailed
    BY <2>1, <1>1 DEF MailInv, MailedIsKept
  <2>2. CASE x \notin mailed
    BY <2>2, <1>1
  <2> QED  BY <2>1, <2>2
<1>3. HeldIsNew'
  BY <1>1 DEF MailInv, HeldIsNew
<1>4. SharedIsDoubled'
  BY <1>1 DEF MailInv, SharedIsDoubled
<1>5. mailed \cap Taken(d) \subseteq unrecorded \cup doubled
  <2> SUFFICES ASSUME NEW x \in mailed, x \in Taken(d), x \notin unrecorded
               PROVE  x \in doubled
    OBVIOUS
  <2>1. CASE x \in notified
    BY <2>1 DEF MailInv, HeldIsNew
  <2>2. CASE \E e \in Digests : digest[e].pc = "record" /\ x \in Taken(e)
    BY <2>2 DEF MailInv, SharedIsDoubled
  <2> QED  BY <2>1, <2>2 DEF MailInv, MailedIsKept
<1>6. MailedAgainHasACause'
  BY <1>5 DEF MailInv, MailedAgainHasACause
<1> QED  BY <1>2, <1>3, <1>4, <1>6 DEF MailInv

(* A digest that reads candidates, or matches one, holds new ones: none of  *)
(* them notified, and those another digest holds are doubled from now on.   *)
LEMMA BuildKeeps ==
  ASSUME MailInv, NEW d \in Digests, Shape', NEW new,
         \A e \in Digests \ {d} : digest'[e] = digest[e],
         digest[d].pc = "build", Held(d)' \subseteq Held(d) \cup new,
         new \cap notified = {}, \A e \in Digests \ {d} : new \cap Held(e) \subseteq doubled',
         doubled \subseteq doubled', UNCHANGED <<notified, mailed, again, unrecorded>>
  PROVE  MailInv'
<1>1. \A e \in Digests \ {d} : digest'[e] = digest[e] /\ Taken(e)' = Taken(e) /\ Held(e)' = Held(e)
  BY DEF Taken, Pending, Held
<1>2. MailedIsKept'
  BY <1>1 DEF MailInv, MailedIsKept
<1>3. HeldIsNew'
  <2>1. Held(d) \cap notified \subseteq doubled
    BY DEF MailInv, HeldIsNew
  <2> QED BY <1>1, <2>1 DEF MailInv, HeldIsNew
<1>4. SharedIsDoubled'
  BY <1>1 DEF MailInv, SharedIsDoubled
<1>5. MailedAgainHasACause'
  BY DEF MailInv, MailedAgainHasACause
<1> QED BY <1>2, <1>3, <1>4, <1>5 DEF MailInv

LEMMA ReadKeeps ==
  ASSUME MailInv, NEW d \in Digests, ReadCandidates(d)
  PROVE  MailInv'
<1>1. PICK s, pc, videos :
        /\ s \in digest[d].unread /\ pc \in {"build", "mark"}
        /\ videos = CandidateVideos(digest[d].user, s)
        /\ pc = "mark" => digest[d].unread = {s} /\ videos = {}
        /\ digest' = [digest EXCEPT ![d] = [digest[d] EXCEPT
                         !.unread = digest[d].unread \ {s}, !.candidates = videos \X {s}, !.pc = pc]]
        /\ doubled' = doubled \cup (({digest[d].user} \X videos) \cap
             UNION {Pending(e) \cup Taken(e) : e \in {e \in Digests \ {d} : For(e, digest[d].user)}})
  BY ReadIs DEF MailInv, Shape
<1>2. digest[d].pc = "build" /\ digest[d].candidates = {} /\ UNCHANGED <<notified, mailed, again, unrecorded>>
  BY DEF ReadCandidates
<1>3. PICK u, row, new :
        /\ u = digest[d].user /\ new = {u} \X videos
        /\ row = [digest[d] EXCEPT !.unread = digest[d].unread \ {s}, !.candidates = videos \X {s}, !.pc = pc]
  OBVIOUS
<1>4. digest'[d] = row /\ \A e \in Digests \ {d} : digest'[e] = digest[e]
  BY <1>1, <1>3 DEF MailInv, Shape, DigestIs
<1>5. /\ DOMAIN row = DOMAIN digest[d] /\ row.user = u /\ row.pc = pc
      /\ row.lines = digest[d].lines /\ row.candidates = videos \X {s}
  BY <1>3 DEF MailInv, Shape
<1>6. Shape'
  <2>1. DigestIs'
    BY <1>1 DEF MailInv, Shape, DigestIs
  <2>2. pc # "build" => videos \X {s} = {}
    BY <1>1
  <2> QED BY <1>1, <1>4, <1>5, <2>1, <2>2 DEF MailInv, Shape
<1>7. Held(d)' \subseteq Held(d) \cup new
  <2>1. Taken(d)' = Taken(d)
    BY <1>3, <1>4, <1>5 DEF Taken
  <2>2. Pending(d)' \subseteq new
    <3>1. \A x \in videos \X {s} : x[1] \in videos
      OBVIOUS
    <3> QED BY <1>3, <1>4, <1>5, <3>1 DEF Pending
  <2> QED BY <2>1, <2>2 DEF Held
<1>8. new \cap notified = {}
  <2>1. \A v \in CandidateVideos(u, s) : <<u, v>> \notin notified
    BY DEF CandidateVideos
  <2> QED BY <1>1, <1>3, <2>1
<1>9. ASSUME NEW e \in Digests \ {d} PROVE new \cap Held(e) \subseteq doubled'
  <2> SUFFICES ASSUME NEW x \in new, x \in Held(e) PROVE x \in doubled'
    OBVIOUS
  <2>1. x[1] = u
    BY <1>3
  <2>2. x \in Pending(e) \cup Taken(e)
    BY DEF Held
  <2>3. digest[e].user = u /\ (digest[e].candidates # {} \/ digest[e].lines # {})
    BY <2>1, <2>2 DEF Pending, Taken
  <2>4. For(e, u)
    BY <2>3 DEF MailInv, Shape, For
  <2> QED BY <1>1, <1>3, <2>2, <2>4
<1> QED BY <1>1, <1>2, <1>4, <1>6, <1>7, <1>8, <1>9, BuildKeeps

LEMMA MatchKeeps ==
  ASSUME MailInv, NEW d \in Digests, MatchVideo(d)
  PROVE  MailInv'
<1>1. PICK x, pc, lines :
        /\ x \in digest[d].candidates /\ pc \in {"build", "mark"}
        /\ pc = "mark" => digest[d].unread = {} /\ digest[d].candidates = {x}
        /\ digest' = [digest EXCEPT ![d] = [digest[d] EXCEPT
                         !.candidates = digest[d].candidates \ {x}, !.lines = lines, !.pc = pc]]
        /\ \/ lines = digest[d].lines \cup {<<x[1], x[2].id>>} /\ rejected' = rejected
           \/ lines = digest[d].lines /\ rejected' = rejected \cup {<<digest[d].user, x[1]>>}
  BY MatchIs DEF MailInv, Shape
<1>2. digest[d].pc = "build" /\ UNCHANGED <<notified, mailed, again, unrecorded, doubled>>
  BY DEF MatchVideo
<1>3. PICK row, rest :
        /\ rest = digest[d].candidates \ {x}
        /\ row = [digest[d] EXCEPT !.candidates = rest, !.lines = lines, !.pc = pc]
  OBVIOUS
<1>4. digest'[d] = row /\ \A e \in Digests \ {d} : digest'[e] = digest[e]
  BY <1>1, <1>3 DEF MailInv, Shape, DigestIs
<1>5. /\ DOMAIN row = DOMAIN digest[d] /\ row.user = digest[d].user /\ row.pc = pc
      /\ row.lines = lines /\ row.candidates = rest
  BY <1>3 DEF MailInv, Shape
<1>6. Shape'
  <2>1. DigestIs'
    BY <1>1 DEF MailInv, Shape, DigestIs
  <2>2. pc # "build" => rest = {}
    BY <1>1, <1>3
  <2> QED BY <1>1, <1>4, <1>5, <2>1, <2>2 DEF MailInv, Shape
<1>7. Held(d)' \subseteq Held(d) \cup {}
  <2>1. Pending(d)' \subseteq Pending(d)
    BY <1>3, <1>4, <1>5 DEF Pending
  <2>2. <<digest[d].user, x[1]>> \in Pending(d)
    BY <1>1 DEF Pending
  <2>3. \A line \in lines : line \in digest[d].lines \/ line[1] = x[1]
    BY <1>1
  <2>4. Taken(d)' \subseteq Taken(d) \cup {<<digest[d].user, x[1]>>}
    BY <1>4, <1>5, <2>3 DEF Taken
  <2> QED BY <2>1, <2>2, <2>4 DEF Held
<1>8. PICK new : new = {}
  OBVIOUS
<1>9. Held(d)' \subseteq Held(d) \cup new /\ new \cap notified = {}
      /\ \A e \in Digests \ {d} : new \cap Held(e) \subseteq doubled'
  BY <1>7, <1>8
<1> QED BY <1>2, <1>4, <1>6, <1>9, BuildKeeps

-----------------------------------------------------------------------------
(* What Rest and NoDigest are, for the steps below.                         *)
LEMMA RestIsEmpty ==
  ASSUME NEW d, NEW users, NEW r, r = Rest(d, users) \/ r = NoDigest
  PROVE  /\ DOMAIN r = {"pc", "users", "user", "runDate", "due", "unread", "candidates", "lines"}
         /\ r.lines = {} /\ r.candidates = {}
         /\ r.pc \in {"idle", "daily"}
BY DEF Rest, NoDigest, BetweenUsers

(* A digest leaves its user: MailInv holds again if what it had mailed is    *)
(* accounted for.                                                            *)
LEMMA LeavingKeeps ==
  ASSUME MailInv, NEW d \in Digests, NEW users, NEW r,
         r = Rest(d, users) \/ r = NoDigest,
         digest' = [digest EXCEPT ![d] = r],
         UNCHANGED <<mailed, again, doubled>>,
         notified \subseteq notified', unrecorded \subseteq unrecorded',
         notified' \subseteq notified \cup Taken(d),
         digest[d].pc = "record" => Taken(d) \subseteq notified' \cup unrecorded'
  PROVE  MailInv'
<1>1. /\ DOMAIN r = {"pc", "users", "user", "runDate", "due", "unread", "candidates", "lines"}
      /\ r.lines = {} /\ r.candidates = {}
      /\ r.pc \in {"idle", "daily"}
  BY RestIsEmpty
<1>2. /\ \A e \in Digests \ {d} : digest'[e] = digest[e]
      /\ digest'[d] = r
  BY DEF MailInv, Shape, DigestIs
<1>3. Shape'
  BY <1>1, <1>2 DEF MailInv, Shape, DigestIs
<1> QED  BY <1>1, <1>2, <1>3, NothingTaken

(* Every step of a digest keeps the invariant.                              *)
LEMMA DigestStepKeeps ==
  ASSUME MailInv, NEW d \in Digests, DigestStep(d)
  PROVE  MailInv'
<1> USE DEF history
<1>1. CASE StartDaily(d) \/ \E u \in Users : RunNow(d, u)
  <2>1. /\ digest[d].pc = "idle"
        /\ \E pc \in {"daily", "run-now"} : \E users :
             digest' = [digest EXCEPT ![d] = BetweenUsers(pc, users, now)]
        /\ UNCHANGED <<notified, mailed, again, unrecorded, doubled>>
    BY <1>1 DEF StartDaily, RunNow
  <2> PICK pc \in {"daily", "run-now"} :
        \E users : digest' = [digest EXCEPT ![d] = BetweenUsers(pc, users, now)]
    BY <2>1
  <2> PICK users : digest' = [digest EXCEPT ![d] = BetweenUsers(pc, users, now)]
    OBVIOUS
  <2>2. /\ Shape'
        /\ \A e \in Digests \ {d} : digest'[e] = digest[e]
        /\ digest'[d].lines = {} /\ digest'[d].candidates = {}
        /\ digest'[d].pc # "record"
    BY DEF MailInv, Shape, DigestIs, BetweenUsers
  <2> QED  BY <2>1, <2>2, NothingTaken
<1>2. ASSUME NEW u \in Users, ReadDue(d, u)
      PROVE  MailInv'
  <2>1. /\ digest[d].pc \in {"daily", "run-now"}
        /\ UNCHANGED <<notified, mailed, again, unrecorded, doubled>>
    BY <1>2 DEF ReadDue
  <2>2. CASE digest' = [digest EXCEPT ![d] = Rest(d, digest[d].users \ {u})]
    BY <2>1, <2>2, LeavingKeeps
  <2>3. ASSUME NEW due,
               digest' = [digest EXCEPT ![d].pc = "build", ![d].users = digest[d].users \ {u},
                                        ![d].user = u, ![d].due = due, ![d].unread = due]
        PROVE  MailInv'
    <3>1. /\ Shape'
          /\ \A e \in Digests \ {d} : digest'[e] = digest[e]
          /\ digest'[d].lines = digest[d].lines
          /\ digest'[d].candidates = {} /\ digest[d].candidates = {}
          /\ digest[d].lines = {}
          /\ digest'[d].pc = "build"
      BY <2>1, <2>3 DEF MailInv, Shape, DigestIs
    <3> QED  BY <2>1, <3>1, TakenStays
  <2> QED  BY <1>2, <2>2, <2>3 DEF ReadDue
<1>3. CASE ReadCandidates(d)
  BY <1>3, ReadKeeps
<1>8. CASE MatchVideo(d)
  BY <1>8, MatchKeeps
<1>4. CASE MarkDigested(d)
  <2>1. PICK s \in digest[d].due : digest' = Marked(d, s)
    BY <1>4 DEF MarkDigested
  <2>2. /\ digest[d].pc = "mark"
        /\ UNCHANGED <<notified, mailed, again, unrecorded, doubled>>
    BY <1>4 DEF MarkDigested
  <2>3. CASE digest[d].due # {s} \/ digest[d].lines # {}
    <3>1. /\ Shape'
          /\ \A e \in Digests \ {d} : digest'[e] = digest[e]
          /\ digest'[d].lines = digest[d].lines
          /\ digest'[d].candidates = {} /\ digest[d].candidates = {}
          /\ digest'[d].user = digest[d].user
          /\ digest'[d].pc \in {"mail", "mark"}
      BY <2>1, <2>2, <2>3 DEF MailInv, Shape, DigestIs, Marked
    <3> QED  BY <2>2, <3>1, TakenStays
  <2>4. CASE ~(digest[d].due # {s} \/ digest[d].lines # {})
    BY <2>1, <2>2, <2>4, LeavingKeeps DEF Marked
  <2> QED  BY <2>3, <2>4
<1>5. CASE SendMail(d)
  <2>1. /\ Shape'
        /\ \A e \in Digests \ {d} : digest'[e] = digest[e]
        /\ digest'[d].lines = digest[d].lines
        /\ digest'[d].candidates = {} /\ digest[d].candidates = {}
        /\ digest'[d].user = digest[d].user
        /\ digest'[d].pc = "record"
    BY <1>5 DEF SendMail, MailInv, Shape, DigestIs
  <2> QED  BY <1>5, <2>1, TakenStays DEF SendMail
<1>6. CASE RecordDigest(d)
  BY <1>6, LeavingKeeps DEF RecordDigest
<1>7. CASE FailDigest(d) \/ CrashDigest(d)
  <2>1. /\ UNCHANGED <<notified, mailed, again, doubled>>
        /\ unrecorded' = unrecorded \cup (IF digest[d].pc = "record" THEN Taken(d) ELSE {})
    BY <1>7 DEF FailDigest, CrashDigest, Abandon
  <2>2. CASE digest' = [digest EXCEPT ![d] = Rest(d, digest[d].users)]
    BY <2>1, <2>2, LeavingKeeps
  <2>3. CASE digest' = [digest EXCEPT ![d] = NoDigest]
    BY <2>1, <2>3, LeavingKeeps
  <2> QED  BY <1>7, <2>2, <2>3 DEF FailDigest, CrashDigest
<1> QED  BY <1>1, <1>2, <1>3, <1>4, <1>5, <1>6, <1>7, <1>8 DEF DigestStep

LEMMA MailInvInit == Init => MailInv
BY DEF Init, MailInv, Shape, DigestIs, MailedIsKept, HeldIsNew, SharedIsDoubled, MailedAgainHasACause,
       Held, Pending, Taken, NoDigest, BetweenUsers

LEMMA MailInvNext == MailInv /\ [Next]_vars => MailInv'
<1> SUFFICES ASSUME MailInv, [Next]_vars PROVE MailInv'
  OBVIOUS
<1>1. CASE Beside
  BY <1>1, BesideKeeps DEF Beside
<1>2. CASE \E d \in Digests : DigestStep(d)
  BY <1>2, DigestStepKeeps
<1>3. CASE UNCHANGED vars
  BY <1>3, BesideKeeps DEF vars, digestVars, history
<1> QED  BY <1>1, <1>2, <1>3 DEF Next

(* A user is mailed a video again only after a digest that mailed it could  *)
(* not record it, or when two of the user's digests held it at once: with   *)
(* neither, NeverTwice holds (digest.ts: sendDigest).                       *)
THEOREM AlwaysMailedAgainHasACause == Spec => []MailedAgainHasACause
<1>1. MailInv => MailedAgainHasACause
  BY DEF MailInv
<1> QED  BY MailInvInit, MailInvNext, <1>1, PTL DEF Spec

=============================================================================
