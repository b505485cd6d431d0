SPECIFICATION Spec
CONSTANTS
  Run = {r1, r2}
  NoRun = NoRun
  MaxVisits = 2
INVARIANTS
  SingleDriver
