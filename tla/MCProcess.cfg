SPECIFICATION ProcessSpec
CONSTANTS
  Requests = {q1, q2, q3}
  Signals = {sigterm, sigint}
  MaxQueue = 2
INVARIANTS
  ProcessTypeOK
  CleanExitLeavesNoSpan
PROPERTY
  SignalEndsProcess
