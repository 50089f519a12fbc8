SPECIFICATION Spec
CONSTANTS
  MaxAddress = 1
  BlockCount = 4
  EntriesPerBlock = 1
  Values = {v1}
  Calls = {"write", "write_cached", "page_transfer", "format", "read", "page_status", "init", "store_to_factory", "restore_from_factory"}
  MaxFaults = 2
  InitialFlash <- AnyDevice
INVARIANTS NoBlockStagedAtStatus BootRepairs
PROPERTY NeverTwoValid
