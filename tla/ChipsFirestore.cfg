SPECIFICATION Spec

CONSTANTS
  r1 = r1
  r2 = r2
  h1 = h1
  h2 = h2
  h3 = h3
  g1 = g1
  g2 = g2
  coinflip = coinflip
  slots = slots
  NoRef = NoRef
  Nobody = Nobody
  EngineState <- MCEngineState
  ActionType <- MCActionType
  Act <- MCAct
  Player = {1, 2}
  Deals <- BothGames
  HandIdsOf <- TwoAndOne
  GiftIdsOf <- GiftEach
  HandId = {h1, h2, h3}
  GiftId = {g1, g2}
  Game = {coinflip, slots}
  GiftAmount = {1, 2}
  Claim = {"daily_bonus", "bailout"}
  Shard = {0, 1}
  shardFor <- MCShardFor
  MaxDay = 1
  Request = {r1, r2}
  StartingBalance = 3
  DailyBonusBase = 1
  DailyStreakCap = 2
  BailoutFloor = 1
  BailoutTopUp = 3
  GiftSendLimit = 2
  GiftReceiveLimit = 3
  JackpotSeed = 197

ACTION_CONSTRAINT OneBusiness

SYMMETRY RequestSymmetry

INVARIANTS
  ActiveHandsAgree
  CreatesSucceed
  ShardsBalance

PROPERTY ImplementsBook
