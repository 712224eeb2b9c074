SPECIFICATION PollFairSpec

CONSTANTS
  u1 = u1
  c1 = c1
  p1 = p1
  p2 = p2
  Users = {u1}
  Channels = {c1}
  Polls = {p1, p2}
  MaxUploads = 2
  MaxClock = 2
  MaxSubs = 1
  Modes = {"all"}
  Cadences <- DailyOnly
  ListLimit = 2
  TrackLimit = 1

INVARIANTS
  GapsHaveACause

PROPERTIES
  FirstSeenIsKept
  UploadsArrive
