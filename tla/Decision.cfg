SPECIFICATION Spec
CONSTANTS
    h1 = h1
    h2 = h2
    Handlers = {h1, h2}
    Requests <- TwoRequests
    Lines <- OneLine
    Files <- TwoFiles
    RuleFiles <- ThreeRuleFiles
    FirstFile <- Opening
    FirstRuleFile <- Careful
    Answers = {"ask_user_resolved_allow", "ask_user_resolved_deny"}
    Outputs <- Verdicts
    Floor = "medium"
    OnUnavailable = "deny"
    Ttl = 1
    HistoryCap = 1
    Start = 1439
    Ticks <- FewTicks
    MaxServed = 2
    MaxEvents = 4
    NoClause = NoClause
SYMMETRY Workers
CHECK_DEADLOCK FALSE
INVARIANT StandingDenyIsObeyed
INVARIANT DaemonFollowsFileUnlessRaced
INVARIANT EveryConsultIsCounted
INVARIANT PaddingIsNoEscape
INVARIANT SubsumptionIsSound
PROPERTY AdviceIsFresh
