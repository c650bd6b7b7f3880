SPECIFICATION FairSpec

CONSTANTS
  TD = {t1, t2, t3, t4}
  SerialTakers = TRUE
  SameCore = FALSE

INVARIANT NoTransferLost
INVARIANT OnePlaceEach
PROPERTY RetiredComesBack
