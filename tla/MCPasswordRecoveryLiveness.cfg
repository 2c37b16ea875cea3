CONSTANTS
    Request = {q1}
    Worker = {w1}
    MaxAttempts = 2
    MaxOutstanding = 1
    MaxPassword = 1
    MaxEvents = 4
SPECIFICATION FairSpec
PROPERTIES
    NothingStaysStuck
CHECK_DEADLOCK FALSE
