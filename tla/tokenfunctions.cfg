SPECIFICATION MCSpec
CONSTANTS
  a1 = a1
  a2 = a2
  b1 = b1
  Holders = {a1, a2, b1}
  HolderShards = {1, 2}
  ShardOf <- MCShardOf
  BatchTokens = {"egld", "ft", "sft"}
  Native = "egld"
  Nonced = {"sft"}
  Regulated <- MCRegulated
  Freezable <- MCFreezable
  NotPayable = {a2}
  Start <- MCStart
  Values = {1, 2}
  MaxBatch = 2
  Gases = {1, 2}
  ReadCost = 1
  Slots = {1}
  NoMessage = NoMessage
  NoSlot = NoSlot
  NoBook = NoBook
  SettingTokens = {tokA}
  Width = 4
  ListTokens = {tokA, tokB}
  TokenNumber = 3
  Numbers = {0, 1, 2, 3, 7, 8, 15}
  Lists <- AllLists
  Additions <- OneOrTwoItems
  MetaNonces = {1, 2, 3}
  Contents = {contX, contY}
  Starts <- MCStarts
  MaxLists = 2
  tokA = tokA
  tokB = tokB
  contX = contX
  contY = contY
  NoEntry = NoEntry
  Bare = Bare
INVARIANTS LiquidityCounted
PROPERTIES BatchesAreWhole OnlyTheGateStrands FreezeHolds ListsDoWhatTheyName CallsEnd SettingsAreIndependent
CHECK_DEADLOCK FALSE
