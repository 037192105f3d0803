SPECIFICATION TimedFairSpec
CONSTANTS
  Calls = 4
  ConnectLimit = 4
  CallLimit = 6
  Slack = 1
  Script <- ScriptDef
  ScanLimit = 6
  LlmLimit = 6
  AbortAfter = 18
  Patience = 2
INVARIANTS
  TypeOK
  GivesUpOnlyOnBroken
  NoLateAnswer
  NoCallForNobody
  GivesUpOnlyOnSlowSteps
PROPERTIES
  CallerNeverHangs
  CloseEndsLoop
  RunEnds
