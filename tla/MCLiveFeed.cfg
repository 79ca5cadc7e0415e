\* A buffer of two, answers of one, three events, and one restart of the server.
SPECIFICATION FairSpec
CONSTANTS
    BufferSize = 2
    Limit = 1
    Topics = {"request", "incident"}
    MaxEvents = 3
    MaxRestarts = 1
    MaxFetches = 2
INVARIANTS TypeOK HubWindow NoOtherLoss
PROPERTIES ShownOnce CursorNeverBack EventuallyKnown
CHECK_DEADLOCK FALSE
