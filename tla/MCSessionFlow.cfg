SPECIFICATION Spec
CONSTANTS
    s1 = s1
    bash = bash
    edit = edit
    None = None
    Sessions = {s1}
    Tools = {bash, edit}
    NameOf <- MCNameOf
    MaxHooks = 4
    MaxInFlight = 2
    MaxWire = 2
INVARIANTS
    StopIsFinal
    LoneHookAgrees
    NoStuckTool
\* Every hook may have run and every event been handled.
CHECK_DEADLOCK FALSE
