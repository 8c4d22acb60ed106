SPECIFICATION FairSpec
CONSTANTS
    h1 = h1
    h2 = h2
    p1 = p1
    shared = shared
    own = own
    None = None
    Requests = {h1, h2, p1}
    Keys = {shared, own}
    KeyOf <- MCKeyOf
    Via <- MCVia
INVARIANTS
    TypeOK
    ChannelOwnership
    VerdictHonoured
    SenderDroppedOnlyByReuse
PROPERTIES
    ImplementsContract
    PipeAnswered
