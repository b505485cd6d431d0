SPECIFICATION Spec
CONSTANTS
  Player = {adm, p, q}
  Admins = {adm}
  Group = {g1, g2}
  NoGroup = NoGroup
  Location = {here}
  NoHome = NoHome
  Command = {"access", "sethome", "where", "say"}
  RequiredLevel <- MCRequiredLevel
  PerPlayer <- MCPerPlayer
  Global <- MCGlobal
  StoredRoles <- MCStoredRoles
  MaxMessages = 3
  MaxTime = 2
  MaxDay = 2
  MaxEntries = 4
  MaxFaults = 2
  MaxRollbacks = 1
  Limit = 1
  NoFile = NoFile
  NoDay = NoDay
  NoReader = NoReader
SYMMETRY Symmetry
INVARIANTS TypeOK QuietMeansSaved NoEscalation ClosedDaysReadOnce PagesAreStable
PROPERTIES CooldownIsKept ImplementsJournal
CHECK_DEADLOCK FALSE
