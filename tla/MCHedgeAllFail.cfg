SPECIFICATION FairSpec
CONSTANTS
  Kinds = {"hedge"}
  PolicyMaxHedges = 1
  Required = 1
PROPERTY AllFailedReturns
\* A Send ends, and the drain of a hedge can wait for ever.
CHECK_DEADLOCK FALSE
