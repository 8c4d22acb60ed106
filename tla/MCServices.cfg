SPECIFICATION FairSpec
CONSTANTS
    x = x
    y = y
    z = z
    p = p
    q = q
    h = h
    c1 = c1
    c2 = c2
    c3 = c3
    None = None
    Procs = {x, y, z}
    PidOf <- MCPid
    AgentOf <- MCAgent
    HookSessions = {h}
    MaxWatchers = 2
    MaxNotices = 1
    Clients = {c1, c2, c3}
    Blocking = {c1}
    MaxServers = 2
    MaxStarts = 2
    MaxFailures = 3
    LogLimits = {1, 2}
INVARIANTS
    OneTurnedAwayPerStop
    HealthOfTheListener
    ErrorsAccountedFor
PROPERTIES
    DetachedByExit
    OneWatcherPolls
    WaitersKeepTheirServer
    WatcherCatchesUp
    ListensAgain
\* The services may all be stopped and every client gone.
CHECK_DEADLOCK FALSE
