SPECIFICATION Spec
CONSTANTS
    Users = {alice, bob, carol}
    MinReward = 1
    MaxReward = 1
    MaxDeadline = 1
    MaxPerTask = 2
    MaxTasks = 2
    MaxSubmissions = 3
    MaxTime = 2
SYMMETRY MCSymmetry
INVARIANTS
    TypeOK
    PaymentsRecorded
PROPERTIES
    NoRefundAfterPayout
CHECK_DEADLOCK FALSE
