\* Operators near and far over a network that loses calls, and a daemon that is killed.
SPECIFICATION Spec
CONSTANTS
    t1 = t1
    p = p
    wide = wide
    bad = bad
    h1 = h1
    None = None
    Calls = {1, 2}
    Timers = {t1}
    Patterns = {p, wide, bad}
    Malformed = {bad}
    Files0 <- SomeFiles
    Holds = {h1}
    LineOf <- TheLine
    Offers = {1, 2}
    Gist <- TheGist
    MaxPresses = 1
    MaxWrites = 2
    MaxRestarts = 1
    Requests <- SomeRequests
INVARIANTS
    AnswersTellTheTruth
    AnsweredEditIsInForce
CHECK_DEADLOCK FALSE
