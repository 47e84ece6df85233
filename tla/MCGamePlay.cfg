\* One match of two players whose datagrams come from two addresses, with
\* overdue ticks and the event loop's fairness; and the rules of a match of three
\* ticks, which start with two points of health each.
SPECIFICATION PlaySpec
CONSTANTS
  p1 = p1
  p2 = p2
  a = a
  b = b
  None = None
  Players = {p1, p2}
  Peers = {a, b}
  MaxConnection = 2
  MaxMatch = 1
  Lifetime = 1
  CatchUp = 2
  HardTimeout = 3
  MaxInput = 2
  Contenders <- ContendersDef
  NeutralSpawns <- NeutralSpawnsDef
  LootItems <- LootItemsDef
  WeaponDefinition <- WeaponDefinitionDef
  SafeZoneStages <- SafeZoneStagesDef
  FullHealth = 2
  MedKitHealth = 1
  TickRate = 2
  SuddenDeathTick = 2
  HardTimeoutTick = 3
  EnableInternalBots = FALSE
  Nobody = Nobody
INVARIANTS
  RulesHold
PROPERTIES
  StartsOnTime
  CommandsMoveForward
  EventsAccount
  TicksAreExpected
  MatchEnds
CHECK_DEADLOCK FALSE
