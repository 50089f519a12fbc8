SPECIFICATION FairSpec
CONSTANTS
  d1 = d1
  d2 = d2
  s1 = s1
  s2 = s2
  r = r
  Data = {d1, d2}
  SYSEX7_DATA64_MAX_PAYLOAD_SIZE = 2
  BLE_MAX_PACKET_SIZE = 5
  Senders = {s1, s2}
  Reader = r
  Threads = {s1, s2, r}
  Nobody = Nobody
  TxCapacity = 2
  RxCapacity = 2
  Scenarios <- SmallScenarios
  ThruSlots = 1
INVARIANTS TypeOK WireCarriesPackets ReadsAreArrivals
PROPERTY AcceptedBytesLeave
