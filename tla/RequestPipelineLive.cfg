\* Requests of two keys and room for one hold: a refused request, a reload of the
\* rules, the timers, shutdown.
SPECIFICATION FairSpec
CONSTANTS
    h1 = h1
    c1 = c1
    k1 = k1
    k2 = k2
    None = None
    Http = {h1}
    Connect = {c1}
    Keys = {k1, k2}
    KeyOf <- TwoKeys
    CapArgs = {1}
    RuleArgs <- Ask
    Verdicts <- TimeoutVerdicts
    SignalAfter = {h1}
    ListArgs <- EmptyLists
    MaxVersion = 2
    MaxPresses = 0
    RingCap = 2
PROPERTIES
    EveryRequestIsSettled
    SignaledHoldIsFollowedUp
CHECK_DEADLOCK FALSE
