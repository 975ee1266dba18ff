\* Three goroutines contend for one conversation.
CONSTANTS
    Rules <- OneRule
    Risks <- TwoRisks
    CooldownRequests = 0
    NoSignal = NoSignal
    Conversations = {c1}
    Evaluators = {g1, g2, g3}
    NoCall = NoCall
    NoDecision = NoDecision
    Failed = Failed
    Nobody = Nobody
SPECIFICATION FairSpec
INVARIANTS
    TypeOK
    MutualExclusion
    NoLostUpdate
PROPERTIES
    Linearizable
    EvaluationReturns
