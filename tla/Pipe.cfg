\* A stream of five chunks through a pipe of two.
CONSTANTS
    Total = 5
    Capacity = 2
SPECIFICATION FairSpec
CHECK_DEADLOCK FALSE
INVARIANT SuccessMeansCopied
PROPERTY NobodyHangs
