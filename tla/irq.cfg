SPECIFICATION FairSpec
CONSTANTS
  Core = {0}
  EveryCore = FALSE
  Device = {1, 3}
  GPU = 2
  IHSlots = 3
  MaxEntries = 4
INVARIANTS
  NoFalseInterrupt
  
PROPERTIES
  AssertedIsServiced
  
