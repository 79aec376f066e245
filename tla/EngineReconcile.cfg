CONSTANTS
  Command <- FourCommands
  NoEnvelope = NoEnvelope
  ProjectorOrder <- TwoProjectors
  Histories <- NoHistory
  Behind = {}
  ReadLimit = 2
  MaxQueue = 2
  MaxLog = 4
  Faults = {"transaction", "escape", "receipt"}
SPECIFICATION Spec
INVARIANT CaughtUp
CHECK_DEADLOCK FALSE
