SPECIFICATION Spec
CONSTANTS
  Proc = {p1, p2, p3}
  NoFile = NoFile
  NoPassword = NoPassword
  Blank = Blank
  Browser = {b1, b2, b3}
  Ip = {home}
  IpOf <- MCIpOf
  NoToken = NoToken
  MaxAttempts = 2
  Lockout = 2
  Ttl = 2
  MaxSessions = 2
  MaxTime = 4
  MaxChanges = 2
  MaxLosses = 2
  MaxWire = 2
  Nothing = Nothing
  AuthExpired = AuthExpired
  Instance = {a, b}
  NoInstance = NoInstance
  Opened = Opened
  PageLimit = 1
  RecentLimit = 1
  MaxLive = 3
  MaxPending = 1
  MaxEntries = 2
  MaxSelections = 2
  MaxLogLosses = 1
INVARIANTS TypeOK OnePassword GuessesAreBounded NoForeignEntries ReconnectLeavesNoGap
PROPERTIES EnsureReturns SignedOutEverywhere CatchesUp
CHECK_DEADLOCK FALSE
