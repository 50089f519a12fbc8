SPECIFICATION FairProtectedSpec
CONSTANTS
  MaxAddress = 1
  BlockCount = 4
  EntriesPerBlock = 1
  Values = {v1, v2}
  Calls = {"write", "write_cached", "flush", "format", "store_to_factory", "restore_from_factory"}
  MaxFaults = 0
  InitialFlash <- BlankDevice
PROPERTIES ImplementsStore KeepsServing
