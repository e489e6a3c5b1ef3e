\* Two retries of one request and one other request, an operator, the advisor for
\* one hold, room for one hold or for all.
SPECIFICATION FairSpec
CONSTANTS
    r1 = r1
    r2 = r2
    r3 = r3
    k1 = k1
    k2 = k2
    None = None
    Requests = {r1, r2, r3}
    Keys = {k1, k2}
    KeyOf <- TwoKeys
    Background = {r3}
    Advised = {r1}
    Operators = {o1}
    CapArgs = {0, 1}
    PolicyArgs = {""}
INVARIANTS
    NoLeakedSlot
    AbandonedOnlyWhenAllLeft
    NoLostWakeup
    OneAnswerPerHold
    PersistedOnceByOperator
PROPERTIES
    ImplementsContract
    EveryWaiterReturns
