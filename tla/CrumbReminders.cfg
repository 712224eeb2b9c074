SPECIFICATION Spec

CONSTANTS
  s1 = s1
  b1 = b1
  r1 = r1
  r2 = r2
  d1 = d1
  d2 = d2
  e1 = e1
  Starter = {s1}
  Bake = {b1}
  Request = {r1, r2}
  Dispatcher = {d1, d2}
  Device = {e1}
  MaxEdits = 3
  MaxClock = 3
  MinStep = 1
  Recipe <- TwoSteps
  FeedEvery <- Every
  PeakAfter <- Peak
  ReadyIn <- Ahead
  ShiftBy <- Shifts
  Late = 1
  Batch = 1

INVARIANTS
  TypeOK
  RemindersCurrent
  TwiceOnlyInARace
  DoneInOrder
  OverlapHasACause
  NextStepFollows

ACTION_CONSTRAINT Apart

SYMMETRY Symmetry
