SPECIFICATION Spec
CONSTANTS
    pre = pre
    stop = stop
    Events = {pre, stop}
    Missing = Missing
    Torn = Torn
    MaxBackups = 3
    MaxTasks = 2
    MaxFaults = 1
    MaxEdits = 0
SYMMETRY MCSymmetry
INVARIANTS
    UserHooksPreserved
\* The app may be down for good.
CHECK_DEADLOCK FALSE
