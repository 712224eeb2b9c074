SPECIFICATION FairSpec

CONSTANTS
  a = a
  b = b
  c = c
  Runs = {a, b, c}
  Ttl = 10
  Timeout = 9
  Enforced = TRUE

INVARIANTS
  OneAtATime

PROPERTIES
  NobodyElseReleases
  JobRunsAgain
