SPECIFICATION FairSpec
CONSTANTS
    a = a
    b = b
    c = c
    k1 = k1
    k2 = k2
    k3 = k3
    s1 = s1
    s2 = s2
    None = None
    Requests = {b, c}
    Keys = {k1, k2, k3}
    Sessions = {s1, s2}
    Via <- MCVia
    SessionOf <- MCSessionOf
    KeyOf <- MCKeyOf
    MaxActivity = 1
    MaxCalls = 1
PROPERTIES
    CardsLeave
\* Every request may have been answered and every event handled.
CHECK_DEADLOCK FALSE
