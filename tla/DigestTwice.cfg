SPECIFICATION Spec

CONSTANTS
  u1 = u1
  u2 = u2
  c1 = c1
  c2 = c2
  p1 = p1
  d1 = d1
  d2 = d2
  Users = {u1}
  Channels = {c1}
  Polls = {p1}
  Digests = {d1, d2}
  MaxUploads = 2
  MaxClock = 2
  MaxSubs = 1
  Modes = {"all"}
  Cadences <- DailyOnly
  DaysInWeek = 2
  Titled <- SecondChannel
  ListLimit = 2
  TrackLimit = 2

SYMMETRY RunSymmetry

INVARIANTS
  NeverTwice
