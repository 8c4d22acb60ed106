SPECIFICATION Spec
CONSTANTS
    pre = pre
    stop = stop
    Events = {pre, stop}
    Missing = Missing
    Torn = Torn
    MaxBackups = 3
    MaxTasks = 5
    MaxFaults = 2
    MaxEdits = 1
SYMMETRY MCSymmetry
INVARIANTS
    HookTypeOK
    UserSettingsKept
    CutShortIsRepaired
    OneGroupOfOurs
    RollbackWindow
\* The app may be down for good.
CHECK_DEADLOCK FALSE
