\* A plain request whose consumer is signaled and a CONNECT of the same key,
\* every reload, verdict, disconnect and shutdown.
SPECIFICATION FairSpec
CONSTANTS
    h1 = h1
    c1 = c1
    k1 = k1
    k2 = k2
    None = None
    Http = {h1}
    Connect = {c1}
    Keys = {k1}
    KeyOf <- OneKey
    CapArgs = {1}
    SignalAfter = {h1}
    RuleArgs <- Ask
    Verdicts <- OneOfEach
    ListArgs <- SomeLists
    MaxVersion = 1
    MaxPresses = 1
    RingCap = 1
INVARIANTS
    HeldRequestObeysVerdict
    OpsRowsFollowRequests
    EveryAnswerIsAudited
CHECK_DEADLOCK FALSE
