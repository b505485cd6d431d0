SPECIFICATION FairSpec
CONSTANTS
  Run = {r1, r2}
  NoRun = NoRun
  MaxVisits = 2
INVARIANTS
  TypeOK
  BusyIsReal
  OneWantedRun
  NavigationAgrees
PROPERTIES
  SlotIsFreed
  EveryRunEnds
