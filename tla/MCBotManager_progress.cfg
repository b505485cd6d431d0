SPECIFICATION FairSpec
CONSTANTS
  Id = {i1}
  NoId = NoId
  Config = {auto, bare}
  NoConfig = NoConfig
  AutoConnect = {auto}
  Hosted = {auto}
  Microsoft = {auto}
  Handle = {h1, h2}
  NoHandle = NoHandle
  Call = {c1, c2}
  NoCall = NoCall
  MaxWaiting = 1
PROPERTIES
  CallsReturn
