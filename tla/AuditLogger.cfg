\* Two writers of three entries in all, two callers of Close, a one-entry buffer,
\* every overflow mode, one change of level.
SPECIFICATION FairLogSpec
CONSTANTS
    Writers = {w1, w2}
    Closers = {c1, c2}
    BufSizeArgs = {1}
    Modes = {"deny", "drop", "block"}
    Levels = {"decisions"}
    MaxWrites = 3
    MaxSetLevels = 1
INVARIANTS
    NothingLostOrReordered
    FlushedOnClose
    EveryWriteIsAccounted
PROPERTIES
    EveryCallReturns
