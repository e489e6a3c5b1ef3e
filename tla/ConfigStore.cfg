\* Two surfaces edit the file, somebody with an editor too, and the watcher looks on.
SPECIFICATION Spec
CONSTANTS
    w1 = w1
    w2 = w2
    t1 = t1
    p = p
    q = q
    bad = bad
    None = None
    Writers = {w1, w2}
    Timers = {t1}
    Patterns = {p, q, bad}
    Malformed = {bad}
    OpsOf <- ConsoleAndDaemon
    Edits <- SomeEdits
    MaxWrites = 2
INVARIANTS
    DaemonFollowsFileUnlessRaced
PROPERTIES
    OnOneListUnlessRaced
    NoUpdateIsLost
CHECK_DEADLOCK FALSE
