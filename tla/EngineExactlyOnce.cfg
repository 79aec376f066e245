SPECIFICATION FairSpec
CONSTANTS
  Command <- FourCommands
  NoEnvelope = NoEnvelope
  ProjectorOrder <- TwoProjectors
  Histories <- RetiredHistory
  Behind <- AllBehind
  ReadLimit = 2
  MaxQueue = 2
  MaxLog = 0
  Faults = {"lookup", "transaction", "reconcile", "crash"}
INVARIANTS AnswersAgree ProjectionsExact
PROPERTIES QueueServed Implements
CHECK_DEADLOCK FALSE
