SPECIFICATION Spec
CONSTANTS
  MaxAddress = 1
  BlockCount = 5
  EntriesPerBlock = 1
  Values = {v1}
  Calls = {"write", "flush", "page_transfer"}
  MaxFaults = 1
  InitialFlash <- BlankDevice
INVARIANT NoFlushedValueVanishes
