SPECIFICATION Spec
CONSTANTS
  Id = {i1, i2}
  NoId = NoId
  Config = {auto}
  NoConfig = NoConfig
  AutoConnect = {auto}
  Hosted = {auto}
  Microsoft = {auto}
  Handle = {h1, h2, h3}
  NoHandle = NoHandle
  Call = {c1, c2}
  NoCall = NoCall
  MaxWaiting = 1
SYMMETRY Symmetry
INVARIANTS
  SignInExcludesConnection
