SPECIFICATION FairSpec

CONSTANTS
  r1 = r1
  r2 = r2
  h1 = h1
  h2 = h2
  h3 = h3
  g1 = g1
  g2 = g2
  g3 = g3
  coinflip = coinflip
  slots = slots
  NoRef = NoRef
  Free = Free
  EngineState <- MCEngineState
  ActionType <- MCActionType
  Act <- MCAct
  Player <- TwoPlayers
  Deals <- HitGame
  HandIdsOf <- HandEach
  GiftIdsOf <- GiftEach
  HandId = {h1, h2}
  GiftId = {g1, g2}
  Game = {slots}
  GiftAmount = {1}
  Claim = {}
  Zone = {0}
  DayLength = 1
  MaxClock = 0
  SlowRequests = FALSE
  Request = {r1, r2}
  StartingBalance = 2
  DailyBonusBase = 1
  DailyStreakCap = 2
  BailoutFloor = 1
  BailoutTopUp = 3
  GiftSendLimit = 2
  GiftReceiveLimit = 3
  JackpotSeed = 197

PROPERTIES
  RequestsEnd
