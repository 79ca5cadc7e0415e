\* The same instance, the limit not excused.
SPECIFICATION Spec
CONSTANTS
    BufferSize = 2
    Limit = 1
    Topics = {"request", "incident"}
    MaxEvents = 3
    MaxRestarts = 1
    MaxFetches = 2
INVARIANTS BatchesSinceCursor
CHECK_DEADLOCK FALSE
