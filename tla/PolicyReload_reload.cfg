SPECIFICATION StoreSpec
CONSTANTS
  MaxEdits = 4
  Mtimes = {1, 2, 3}
INVARIANTS PolicyIsTheFile
PROPERTY LastGoodServes
