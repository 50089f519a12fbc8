SPECIFICATION ProtectedSpec
CONSTANTS
  MaxAddress = 2
  BlockCount = 5
  EntriesPerBlock = 2
  Values = {v1}
  Calls = {"write", "write_cached", "read", "flush", "page_transfer", "format", "write_beyond", "read_beyond", "page_status", "init"}
  MaxFaults = 0
  InitialFlash <- BlankDevice
INVARIANTS
  TypeOK StatusCacheIsCurrent MirrorMatchesLog NextOffsetIsFree
  FlushMakesDurable CallsSucceed
PROPERTY ImplementsStore
