SPECIFICATION Spec
CONSTANTS
  PARAMS_PER_MESSAGE = 2
  PacketPayload = 6
  OwnId = 5
  Layout <- SmallLayout
  CustomTables <- SmallTables
  Requests <- SmallRequests
  CustomValues <- SmallCustomValues
  CustomOutcomes <- SmallOutcomes
INVARIANTS TypeOK BackupRestores
PROPERTIES RequestsAreAnswered OnlyOpenSets
