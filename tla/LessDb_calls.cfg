SPECIFICATION Spec
CONSTANTS
  BYTE_BIT_COUNT = 2
  WORD_SIZE_IN_BYTES = 2
  DWORD_SIZE_IN_BYTES = 3
  IndexLimit = 1
  AddressCount = 3
  Layouts <- SmallLayouts
  StartAddresses = {0, 3}
  NewValues = {5}
  InitProviders <- SmallProviders
  MaxProviders = 1
  MaxFaults = 1
  None = None
INVARIANTS TypeOK ReadIsFresh SuccessIsStored
PROPERTY ChangesAreOwned
