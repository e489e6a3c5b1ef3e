\* Lines of one host with a host-wide, a prefix and a pattern candidate; lines of
\* another whose candidate is synthesized; denied lines that a line and a rule overlap.
SPECIFICATION FairSpec
CONSTANTS
    None = None
    c1 = c1
    c2 = c2
    Starts <- AllStarts
    Editable <- OneMachine
    Requests <- SomeRequests
    Calls = {c1, c2}
    Threshold = 80
    MaxCandidates = 8
    MaxOffers = 2
    MaxMishaps = 1
INVARIANTS
    DecidedIsNotOfferedAgain
    OfferIsAnsweredOnce
PROPERTIES
    AcceptKeepsDecisions
    StaleOfferIsWithdrawn
CHECK_DEADLOCK FALSE
