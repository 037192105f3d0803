SPECIFICATION TimedSpec
CONSTANTS
  Calls = 1
  ConnectLimit = 4
  CallLimit = 6
  Slack = 1
  Script <- ThreePhases
  ScanLimit = 6
  LlmLimit = 6
  AbortAfter = 18
  Patience = 2
INVARIANT LlmIsOptional
