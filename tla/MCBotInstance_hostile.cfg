SPECIFICATION Spec
CONSTANTS
  Bot = {b1, b2, b3}
  NoBot = NoBot
  Attempt = {a1, a2}
  NoAttempt = NoAttempt
  MaxQueue = 3
  MaxAttempts = 2
  LateLogin = TRUE
  RetryMayThrow = TRUE
SYMMETRY Symmetry
INVARIANTS
  TypeOK
  SingleConnection
  InactiveIsQuiet
  ReportedTaskIsLive
