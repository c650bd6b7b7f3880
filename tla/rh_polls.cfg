SPECIFICATION HubFairSpec

CONSTANTS
  NumPorts = 2
  Slots = 2
  MaxPending = 3
  MaxPolls = 4
  MaxChanges = 3

INVARIANTS NeverDeaf PollsKept
PROPERTIES ChangeReported

CHECK_DEADLOCK FALSE
