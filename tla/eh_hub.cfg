SPECIFICATION HubFairSpec

CONSTANTS
  NumPorts = 2
  MaxPlugs = 3

INVARIANTS NeverDeaf EachWithItsController
PROPERTIES ChangeReported ChangesKept

CHECK_DEADLOCK FALSE
