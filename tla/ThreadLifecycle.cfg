SPECIFICATION ThreadSpec
CONSTANTS
  MaxMessages = 9
  MaxCheckpoints = 9
  MaxActivities = 9
  Grace = 2
  SettleAfter = 2
  Requests = {"q1", "q2"}
  ProviderTurns = {101, 102}
  InactiveFor = 2
  Scenarios <- AllScenarios
  MaxNow = 6
  MaxQueue = 2
  MaxCaptures = 2
  MaxRestarts = 1
INVARIANTS ViewsAgree GuardsMirror ListedAsHeld StopResolvesAsked
CHECK_DEADLOCK FALSE
