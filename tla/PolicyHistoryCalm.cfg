CONSTANTS
    Rules <- StandardRules
    Risks <- StandardRisks
    CooldownRequests = 3
    NoSignal = NoSignal
    Tau = 55
    Conversations = {c1, c2}
    Evaluators = {g1}
    NoCall = NoCall
    NoDecision = NoDecision
    Failed = Failed
SPECIFICATION HistorySpec
INVARIANT ReleasedOnceCalm
