SPECIFICATION FairSpec
CONSTANTS
  Motors = {m1}
  Clients = {c1, c2}
  MAX_ACC_STEPS = 3
  Movements <- SmallMovements
  SentBound = 4
  Nobody = Nobody
INVARIANTS TypeOK ActiveIsTicked MovesAsAsked RestIsUnpowered
PROPERTIES PulsesNeedPower StopEnds CallsReturn
CHECK_DEADLOCK FALSE
