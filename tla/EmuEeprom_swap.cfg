SPECIFICATION Spec
CONSTANTS
  MaxAddress = 1
  BlockCount = 4
  EntriesPerBlock = 1
  Values = {v1}
  Calls = {"write", "flush"}
  MaxFaults = 0
  InitialFlash <- BlankDevice
PROPERTY NothingVanishes
