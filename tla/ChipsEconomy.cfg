SPECIFICATION Spec

CONSTANTS
  r1 = r1
  r2 = r2
  h1 = h1
  h2 = h2
  h3 = h3
  g1 = g1
  g2 = g2
  g3 = g3
  coinflip = coinflip
  slots = slots
  NoRef = NoRef
  Free = Free
  EngineState <- MCEngineState
  ActionType <- MCActionType
  Act <- MCAct
  Player <- TwoPlayers
  Deals <- BothGames
  HandIdsOf <- TwoAndOne
  GiftIdsOf <- GiftTwoOne
  HandId = {h1, h2, h3}
  GiftId = {g1, g2, g3}
  Game = {coinflip, slots}
  GiftAmount = {1, 2}
  Claim = {"daily_bonus", "bailout"}
  Zone = {1}
  DayLength = 2
  MaxClock = 5
  SlowRequests = FALSE
  Request = {r1, r2}
  StartingBalance = 3
  DailyBonusBase = 1
  DailyStreakCap = 2
  BailoutFloor = 1
  BailoutTopUp = 3
  GiftSendLimit = 2
  GiftReceiveLimit = 3
  JackpotSeed = 197

ACTION_CONSTRAINT OneBusiness

SYMMETRY RequestSymmetry

INVARIANTS
  TypeOK
  LedgerExplainsBalance
  NothingConflicts
  HandsBalance
  StatsCountHands
  JackpotBalances
  GiftsBalance
  GiftCaps
  GiftsStopAtFloor
  NoDeadlock
  ClaimedOncePerDay
  StreaksPayRuns

PROPERTIES
  SettledForGood
  StaleNeverActs
  ImplementsBook
