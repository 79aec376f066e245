SPECIFICATION Spec
CONSTANTS
  Trees = {t1, t2}
  Missing = Missing
  Prompts = {p1}
  Stops = {s1}
  MaxCount = 2
  MaxRequests = 2
  Features <- AllFeatures
INVARIANTS RecordedKeepsRefs DiffIsRecorded
PROPERTY RevertRestores
CHECK_DEADLOCK FALSE
