SPECIFICATION Spec

CONSTANTS
  r1 = r1
  r2 = r2
  h1 = h1
  h2 = h2
  h3 = h3
  g1 = g1
  g2 = g2
  g3 = g3
  coinflip = coinflip
  slots = slots
  NoRef = NoRef
  Free = Free
  EngineState <- MCEngineState
  ActionType <- MCActionType
  Act <- MCAct
  Player <- OnePlayer
  Deals <- NoGames
  HandIdsOf <- NoHandsOne
  GiftIdsOf <- NoGiftsOne
  HandId = {}
  GiftId = {}
  Game = {coinflip}
  GiftAmount = {}
  Claim = {"daily_bonus"}
  Zone = {0}
  DayLength = 1
  MaxClock = 2
  SlowRequests = TRUE
  Request = {r1, r2}
  StartingBalance = 0
  DailyBonusBase = 1
  DailyStreakCap = 2
  BailoutFloor = 1
  BailoutTopUp = 3
  GiftSendLimit = 2
  GiftReceiveLimit = 3
  JackpotSeed = 150

SYMMETRY RequestSymmetry

INVARIANTS
  ClaimedOncePerDay
