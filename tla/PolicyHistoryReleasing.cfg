\* Rules ordered by strength, and no cool-down requests.
CONSTANTS
    Rules <- OrderedRules
    Risks <- OrderedRisks
    CooldownRequests = 0
    NoSignal = NoSignal
    Tau = 55
    Conversations = {c1, c2}
    Evaluators = {g1, g2}
    NoCall = NoCall
    NoDecision = NoDecision
    Failed = Failed
SPECIFICATION HistorySpec
INVARIANTS
    TypeOK
    EngagedWithCertainty
    ReleasedOnceCalm
    MonotonicStrength
PROPERTIES
    RulePinned
    NoEarlyRelease
