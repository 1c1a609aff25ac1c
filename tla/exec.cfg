SPECIFICATION FairSpec
CONSTANTS
    Streams = {stdout, stderr}
    Exit = Exit
    MaxOutput = 2
INVARIANTS TypeOK DeliveredInOrder ClosedLast NoDeadSession EndReported
PROPERTIES HolderLearnsEnd
CHECK_DEADLOCK FALSE
