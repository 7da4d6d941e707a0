SPECIFICATION FairBridgeSpec
CONSTANTS
    MaxBytes = 3
    MaxBlanks = 1
    MaxWrites = 2
CHECK_DEADLOCK FALSE
INVARIANTS StreamIsIntact EndMeansAll WritesInOrder
 
