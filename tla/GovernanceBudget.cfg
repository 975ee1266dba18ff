CONSTANTS
    r1 = r1
    r2 = r2
    c1 = c1
    acme = acme
    Rules <- EscalateAndInject
    Risks <- TwoRuleRisks
    CooldownRequests = 0
    NoSignal = NoSignal
    Requests <- TwoRequests
    Conversations = {c1}
    ConversationOf <- OneConversation
    Tenants = {acme}
    DefaultTenant = DefaultTenant
    TenantOf <- OneTenant
    Bucket <- EitherSide
    Deployments <- AllDeployments
    Bodies <- PlainAndMultipart
    NoBody = NoBody
    Detail <- TwoLimits
    NoLimit = NoLimit
    NoCall = NoCall
    NoDecision = NoDecision
    Failed = Failed
SPECIFICATION Spec
CHECK_DEADLOCK FALSE
INVARIANT BudgetRespected
