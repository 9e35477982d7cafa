SPECIFICATION DetailSpec
CONSTANTS
  j1 = j1
  Ids <- MCIds
  Jobs = {j1}
  TaskOf <- MCTaskOf
  MaxScreens = 2
  MaxLoads = 2
INVARIANTS LookUpOnTop Settled DagComplete
PROPERTIES LoadEnds
