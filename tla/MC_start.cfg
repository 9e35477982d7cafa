SPECIFICATION Spec
CONSTANTS
  Packages <- MCPackages
  MaxRev = 2
  MaxKills = 1
  MaxClears = 1
INVARIANTS ChangesPickedUp
