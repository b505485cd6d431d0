SPECIFICATION Spec
CONSTANTS
  Bot = {b1, b2}
  NoBot = NoBot
  Attempt = {a1, a2}
  NoAttempt = NoAttempt
  MaxQueue = 2
  MaxAttempts = 2
  LateLogin = TRUE
  RetryMayThrow = FALSE
INVARIANTS
  OnlineIsLoggedIn
