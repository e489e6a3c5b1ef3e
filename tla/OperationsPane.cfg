\* Two retries on one hold and a request that is not held, in a ring with room for two.
SPECIFICATION Spec
CONSTANTS
    h1 = h1
    None = None
    Requests = {1, 2, 3}
    HoldIds = {h1}
    HoldOf <- Retries
    GroupOf <- Groups
    Signaled = {1}
    RingCap = 2
    PauseTicks = 1
    SnapTicks = 2
    Slots = {s1}
INVARIANTS
    EachHoldHasOneRow
PROPERTIES
    CursorStaysOnOpenRows
    PollsKeepTheHold
CHECK_DEADLOCK FALSE
