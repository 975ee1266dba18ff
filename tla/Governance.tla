------------------------------ MODULE Governance ------------------------------
(***************************************************************************)
(* The path of a request through the proxy: the ingress checks, inline      *)
(* governance (internal/proxy/inline.go), the asynchronous shadow analysis   *)
(* (shadow.go, engine/client.go) and the upstream call (upstream.go), for    *)
(* several requests in flight at once over one store of conversation states, *)
(* with what they log, count and put on their spans.                         *)
(*                                                                           *)
(* Each action is the code between two points where a handler waits or other *)
(* goroutines can see its effect: the signal RPC, the store's mutex and the  *)
(* upstream exchange.  Evaluate is one action: StateStore shows that it      *)
(* takes effect at one instant.  Time is not counted: BudgetExpires may      *)
(* happen at any moment of the inline path.                                  *)
(***************************************************************************)
EXTENDS Telemetry, EnforceBody, Rollout, FiniteSets

CONSTANTS
    Requests,        \* the requests the process serves
    Tenants,         \* the tenants whose keys they carry
    DefaultTenant,   \* "default-tenant"
    TenantOf,        \* the tenant of each request's API key
    Conversations,   \* the tenant:conversation keys
    ConversationOf,  \* the key of each request (X-Conversation-ID or its own ID)
    Bucket,          \* FNV-32a of each request ID, modulo 100
    Deployments,     \* the settings and surroundings the process may be started with
    Bodies,          \* the bodies of the requests
    NoBody,          \* nothing has been received
    NoCall, NoDecision, Failed

\* The client is "nil" when the signal engine could not be reached at startup.
Deployment == [env : Environment, file : File, client : {"connected", "nil"}]

ASSUME RequestAssumption ==
    /\ Bodies \subseteq Body /\ NoBody \notin Body
    /\ TenantOf \in [Requests -> Tenants]
    /\ ConversationOf \in [Requests -> Conversations]
    /\ Bucket \in [Requests -> Buckets]
    /\ Deployments \subseteq Deployment

\* What stands for the absence of a call or of a decision is neither.
ASSUME SentinelAssumption ==
    /\ NoCall \notin [conversation : Conversations, frame : Frame]
    /\ NoDecision \notin Decision
    /\ Failed \notin Decision \cup {NoDecision}

VARIABLES
    deployed,  \* how the process was started
    up,        \* the process has not crashed
    data,      \* the stored conversation states
    req,       \* the handler of each request
    shadow,    \* the shadow goroutine of each request
    traces,    \* the policy_trace records logged for each request
    metrics,   \* the counters
    received   \* the body the upstream received for each request

vars == <<deployed, up, data, req, shadow, traces, metrics, received>>

-----------------------------------------------------------------------------
(***************************************************************************)
(* State                                                                   *)
(***************************************************************************)

cfg == Load(deployed.env, deployed.file)

KillSwitch == IsKillSwitchActive(deployed.env, cfg)

Enforced(r) == ShouldEnforce(deployed.env, cfg, Bucket[r])

\* One reply stands for 400, 401, 405 and 429 of the ingress checks.
Replies == {"none", "refused", "upstream", "502", "escalation", "block"}

NoFrame == [abstain |-> TRUE, risk |-> NoSignal]

NoRecord == [Inline |-> FALSE, FailOpenReason |-> "none", Abstain |-> FALSE,
             ActionType |-> "none", EnforceApplied |-> FALSE]

\* reason is that of the inline_fail_open warning; record is the GovernanceRecord.
Handler ==
    [pc       : {"new", "governance", "signal", "policy", "decided",
                 "shadow", "upstream", "sent", "done"},
     original : Bodies,
     late     : BOOLEAN,
     frame    : Frame,
     decision : Decision \cup {NoDecision, Failed},
     body     : Body,
     reason   : FailOpenReasons \cup {"none", "enforce_error"},
     record   : [Inline : BOOLEAN, FailOpenReason : FailOpenReasons \cup {"none"},
                 Abstain : BOOLEAN, ActionType : Actions \cup {"none"},
                 EnforceApplied : BOOLEAN],
     reply    : Replies]

NewHandler(body) ==
    [pc |-> "new", original |-> body, late |-> FALSE, frame |-> NoFrame,
     decision |-> NoDecision, body |-> body, reason |-> "none", record |-> NoRecord,
     reply |-> "none"]

Goroutine ==
    [pc : {"off", "signal", "policy", "decided", "done", "panicked"},
     frame : Frame, decision : Decision \cup {NoDecision, Failed}]

NoGoroutine == [pc |-> "off", frame |-> NoFrame, decision |-> NoDecision]

Trace == [tenant : Tenants, action : Actions, state : StabilityState, enforced : BOOLEAN]

TypeOK ==
    /\ deployed \in Deployments
    /\ up \in BOOLEAN
    /\ DOMAIN data \subseteq Conversations
    /\ \A c \in DOMAIN data : data[c] \in ConversationState
    /\ req \in [Requests -> Handler]
    /\ shadow \in [Requests -> Goroutine]
    /\ traces \in [Requests -> Seq(Trace)]
    /\ IsMetrics(metrics)
    /\ received \in [Requests -> Body \cup {NoBody}]

Init ==
    /\ deployed \in {d \in Deployments : Loads(d.env, d.file)}
    /\ up = TRUE
    /\ data = << >>
    /\ req \in [Requests -> {NewHandler(body) : body \in Bodies}]
    /\ shadow = [r \in Requests |-> NoGoroutine]
    /\ traces = [r \in Requests |-> << >>]
    /\ metrics = NewMetrics
    /\ received = [r \in Requests |-> NoBody]

\* Everything but the handlers.
surroundings == <<deployed, up, data, shadow, traces, metrics, received>>

At(r, pc) == up /\ req[r].pc = pc

\* policy.LogTrace(policy.BuildTrace(...), enforced)
LogTrace(r, action, state, enforced) ==
    traces' = [traces EXCEPT ![r] =
                  Append(@, [tenant |-> TenantOf[r], action |-> action, state |-> state,
                             enforced |-> enforced])]

\* A variant of LogPassthroughTrace that logs nothing.
LogNothing(r) == UNCHANGED traces

\* The trace a fail-open logs: a passthrough decision in the NORMAL state.
LogPassthroughTrace(r) == LogTrace(r, "PASSTHROUGH", "NORMAL", FALSE)

-----------------------------------------------------------------------------
(***************************************************************************)
(* Ingress                                                                 *)
(***************************************************************************)

\* The method, the API key, the rate limit or the body is not acceptable.
Refuse(r) ==
    /\ At(r, "new")
    /\ req' = [req EXCEPT ![r].pc = "done", ![r].reply = "refused"]
    /\ UNCHANGED surroundings

Admit(r) ==
    /\ At(r, "new")
    /\ req' = [req EXCEPT ![r].pc = "governance"]
    /\ UNCHANGED surroundings

-----------------------------------------------------------------------------
(***************************************************************************)
(* Inline governance                                                       *)
(***************************************************************************)

\* The request is not enforced, or there is no client to enforce it with.
Bypass(r) ==
    /\ At(r, "governance")
    /\ ~Enforced(r) \/ deployed.client = "nil"
    /\ req' = [req EXCEPT ![r].pc = "shadow"]
    /\ metrics' = IF KillSwitch /\ WouldEnforceWithoutKillSwitch(cfg, Bucket[r])
                  THEN countKillSwitch(metrics)
                  ELSE metrics
    /\ UNCHANGED <<deployed, up, data, shadow, traces, received>>

StartInline(r) ==
    /\ At(r, "governance")
    /\ Enforced(r) /\ deployed.client = "connected"
    /\ req' = [req EXCEPT ![r].pc = "signal", ![r].record.Inline = TRUE]
    /\ UNCHANGED surroundings

\* The context of the inline path reaches its deadline.
BudgetExpires(r) ==
    /\ up /\ req[r].pc \in {"signal", "policy", "decided"}
    /\ ~req[r].late
    /\ req' = [req EXCEPT ![r].late = TRUE]
    /\ UNCHANGED surroundings

SignalAnswers(r, frame) ==
    /\ At(r, "signal")
    /\ ~req[r].late
    /\ req' = [req EXCEPT ![r].pc = "policy", ![r].frame = frame]
    /\ UNCHANGED surroundings

\* A variant of FailOpen that passes on the request without its body reset.
FailOpenMutated(r, reason) ==
    /\ req' = [req EXCEPT ![r].pc = "shadow", ![r].reason = reason,
                          ![r].record.FailOpenReason = reason,
                          ![r].body = injectSystemContext(@)]
    /\ metrics' = recordInline(recordFailOpen(metrics, reason))
    /\ LogPassthroughTrace(r)
    /\ UNCHANGED <<deployed, up, data, shadow, received>>

\* recordFailOpen, the passthrough trace, and the original body passed on.
FailOpen(r, reason) ==
    /\ req' = [req EXCEPT ![r].pc = "shadow", ![r].reason = reason,
                          ![r].record.FailOpenReason = reason,
                          ![r].body = req[r].original]
    /\ metrics' = recordInline(recordFailOpen(metrics, reason))
    /\ LogPassthroughTrace(r)
    /\ UNCHANGED <<deployed, up, data, shadow, received>>

\* A variant of SignalFails without a deadline on the call.
SignalFailsUnbounded(r) ==
    /\ At(r, "signal")
    /\ ~req[r].late
    /\ FailOpen(r, "signal_error")

\* An RPC error is a budget overrun only if it reports the deadline; another
\* error may still arrive just after the deadline.
SignalFails(r) ==
    /\ At(r, "signal")
    /\ \E reason \in {"budget", "signal_error"} :
          /\ reason = "budget" => req[r].late
          /\ FailOpen(r, reason)

\* A variant of EvaluatePolicy that decides without stepping the FSM.
EvaluateUnstored(r) ==
    /\ At(r, "policy")
    /\ req' = [req EXCEPT ![r].pc = "decided",
          ![r].decision = EvaluatePure(req[r].frame, Lookup(data, ConversationOf[r])).decision]
    /\ UNCHANGED surroundings

EvaluatePolicy(r) ==
    LET st      == Lookup(data, ConversationOf[r])
        outcome == EvaluatePure(req[r].frame, st)
    IN  /\ At(r, "policy")
        /\ data' = Put(data, ConversationOf[r], outcome.next)
        /\ metrics' = OnStateTransition(metrics, st.state, outcome.next.state)
        /\ req' = [req EXCEPT ![r].pc = "decided", ![r].decision = outcome.decision]
        /\ UNCHANGED <<deployed, up, shadow, traces, received>>

\* Evaluate panics and evaluateSafe recovers.
PolicyPanics(r) ==
    /\ At(r, "policy")
    /\ req' = [req EXCEPT ![r].pc = "decided", ![r].decision = Failed]
    /\ UNCHANGED surroundings

PolicyFails(r) ==
    /\ At(r, "decided")
    /\ req[r].decision = Failed
    /\ FailOpen(r, "policy_error")

Decided(r) == At(r, "decided") /\ req[r].decision # Failed

\* A variant of LogDecision that calls every decision a counterfactual one.
LogCounterfactual(r, enforced) ==
    LogTrace(r, req[r].decision.action, req[r].decision.state, FALSE)

LogDecision(r, enforced) ==
    LogTrace(r, req[r].decision.action, req[r].decision.state, enforced)

\* The end of the inline path: the handler goes on as next, with the decision
\* recorded, counted and logged.
Conclude(r, next, enforced) ==
    LET m == recordAction(metrics, req[r].decision.action, enforced)
    IN  /\ Decided(r)
        /\ req' = [req EXCEPT ![r] = [next EXCEPT !.record.ActionType = req[r].decision.action,
                                                  !.record.EnforceApplied = enforced,
                                                  !.record.Abstain = req[r].frame.abstain]]
        /\ metrics' = recordInline(IF req[r].frame.abstain THEN countAbstain(m) ELSE m)
        /\ LogDecision(r, enforced)
        /\ UNCHANGED <<deployed, up, data, shadow, received>>

\* The frame abstains or the decision asks for nothing.
PassThrough(r) ==
    /\ Decided(r)
    /\ req[r].frame.abstain \/ req[r].decision.action = "PASSTHROUGH"
    /\ Conclude(r, [req[r] EXCEPT !.pc = "shadow", !.body = req[r].original], FALSE)

\* The body does not decode as a chat completion: a warning is logged, and only the
\* time is recorded.
ApplyFails(r) ==
    /\ Decided(r)
    /\ req[r].decision.action \in Mutations
    /\ ~req[r].original.decodes
    /\ req' = [req EXCEPT ![r].pc = "shadow", ![r].body = req[r].original,
                          ![r].reason = "enforce_error"]
    /\ metrics' = recordInline(metrics)
    /\ UNCHANGED <<deployed, up, data, shadow, traces, received>>

Mutate(r) ==
    /\ Decided(r)
    /\ req[r].decision.action \in Mutations
    /\ req[r].original.decodes
    /\ Conclude(r, [req[r] EXCEPT !.pc = "shadow",
                       !.body = ApplyActions(req[r].original, req[r].decision.action)], TRUE)

Response(action) == IF action = "BLOCK_UNSAFE" THEN "block" ELSE "escalation"

\* A variant of ShortCircuit that goes on to the next handler.
ShortCircuitAndForward(r) ==
    /\ Decided(r)
    /\ req[r].decision.action \in ShortCircuits
    /\ Conclude(r, [req[r] EXCEPT !.pc = "shadow",
                       !.reply = Response(req[r].decision.action)], TRUE)

\* The proxy answers for the upstream: 200 for an escalation, 400 for a block.
ShortCircuit(r) ==
    /\ Decided(r)
    /\ req[r].decision.action \in ShortCircuits
    /\ Conclude(r, [req[r] EXCEPT !.pc = "done",
                       !.reply = Response(req[r].decision.action)], TRUE)

-----------------------------------------------------------------------------
(***************************************************************************)
(* Shadow analysis                                                         *)
(***************************************************************************)

\* The handler starts the goroutine and does not wait for it.  The test for a
\* missing client compares the interface, which holds a typed nil and so is
\* never nil itself.
PassShadow(r) ==
    /\ At(r, "shadow")
    /\ req' = [req EXCEPT ![r].pc = "upstream"]
    /\ shadow' = IF ShouldRunShadowAsync(deployed.env, cfg, Bucket[r])
                 THEN [shadow EXCEPT ![r].pc = "signal"]
                 ELSE shadow
    /\ UNCHANGED <<deployed, up, data, traces, metrics, received>>

ShadowAt(r, pc) == up /\ shadow[r].pc = pc

ShadowSignalAnswers(r, frame) ==
    /\ ShadowAt(r, "signal")
    /\ deployed.client = "connected"
    /\ shadow' = [shadow EXCEPT ![r].pc = "policy", ![r].frame = frame]
    /\ metrics' = IF frame.abstain THEN countAbstain(metrics) ELSE metrics
    /\ UNCHANGED <<deployed, up, data, req, traces, received>>

\* The RPC fails or takes more than its 200 ms.
ShadowSignalFails(r) ==
    /\ ShadowAt(r, "signal")
    /\ deployed.client = "connected"
    /\ shadow' = [shadow EXCEPT ![r].pc = "done"]
    /\ UNCHANGED <<deployed, up, data, req, traces, metrics, received>>

\* The call goes through the fields of a nil client: the goroutine panics, and
\* a panic that no deferred function recovers ends the process.
ShadowSignalPanics(r) ==
    /\ ShadowAt(r, "signal")
    /\ deployed.client = "nil"
    /\ up' = FALSE
    /\ shadow' = [shadow EXCEPT ![r].pc = "panicked"]
    /\ UNCHANGED <<deployed, data, req, traces, metrics, received>>

ShadowEvaluates(r) ==
    LET st      == Lookup(data, ConversationOf[r])
        outcome == EvaluatePure(shadow[r].frame, st)
    IN  /\ ShadowAt(r, "policy")
        /\ data' = Put(data, ConversationOf[r], outcome.next)
        /\ metrics' = OnStateTransition(metrics, st.state, outcome.next.state)
        /\ shadow' = [shadow EXCEPT ![r].pc = "decided", ![r].decision = outcome.decision]
        /\ UNCHANGED <<deployed, up, req, traces, received>>

\* Evaluate panics here too, where nothing recovers it.
ShadowPolicyPanics(r) ==
    /\ ShadowAt(r, "policy")
    /\ up' = FALSE
    /\ shadow' = [shadow EXCEPT ![r].pc = "panicked", ![r].decision = Failed]
    /\ UNCHANGED <<deployed, data, req, traces, metrics, received>>

ShadowTraces(r) ==
    /\ ShadowAt(r, "decided")
    /\ shadow' = [shadow EXCEPT ![r].pc = "done"]
    /\ LogTrace(r, shadow[r].decision.action, shadow[r].decision.state, FALSE)
    /\ UNCHANGED <<deployed, up, data, req, metrics, received>>

-----------------------------------------------------------------------------
(***************************************************************************)
(* Upstream                                                                *)
(***************************************************************************)

UpstreamReceives(r) ==
    /\ At(r, "upstream")
    /\ received' = [received EXCEPT ![r] = req[r].body]
    /\ req' = [req EXCEPT ![r].pc = "sent"]
    /\ UNCHANGED <<deployed, up, data, shadow, traces, metrics>>

UpstreamAnswers(r) ==
    /\ At(r, "sent")
    /\ req' = [req EXCEPT ![r].pc = "done", ![r].reply = "upstream"]
    /\ UNCHANGED surroundings

\* The upstream cannot be reached, fails, or outlasts the request's deadline.
UpstreamFails(r) ==
    /\ up /\ req[r].pc \in {"upstream", "sent"}
    /\ req' = [req EXCEPT ![r].pc = "done", ![r].reply = "502"]
    /\ UNCHANGED surroundings

-----------------------------------------------------------------------------
(***************************************************************************)
(* The root span                                                           *)
(***************************************************************************)

\* WithObservability asks its own context for the tenant, and finds none: WithAuth
\* adds the tenant to the context it hands inward.
SpanTenant == DefaultTenant

SpanAttrs(r) ==
    [tenant_id        |-> SpanTenant,
     enforce_applied  |-> req[r].record.EnforceApplied,
     fail_open_reason |-> req[r].record.FailOpenReason,
     action_type      |-> req[r].record.ActionType]

-----------------------------------------------------------------------------

\* What a handler does without waiting for anyone.
Proceed(r) ==
    \/ Bypass(r)
    \/ StartInline(r)
    \/ EvaluatePolicy(r)
    \/ PolicyPanics(r)
    \/ PolicyFails(r)
    \/ PassThrough(r)
    \/ ApplyFails(r)
    \/ Mutate(r)
    \/ ShortCircuit(r)
    \/ PassShadow(r)

Analyse(r) ==
    \/ \E frame \in Frame : ShadowSignalAnswers(r, frame)
    \/ ShadowSignalFails(r)
    \/ ShadowSignalPanics(r)
    \/ ShadowEvaluates(r)
    \/ ShadowPolicyPanics(r)
    \/ ShadowTraces(r)

Next ==
    \E r \in Requests :
        \/ Refuse(r)
        \/ Admit(r)
        \/ Proceed(r)
        \/ BudgetExpires(r)
        \/ \E frame \in Frame : SignalAnswers(r, frame)
        \/ SignalFails(r)
        \/ UpstreamReceives(r)
        \/ UpstreamAnswers(r)
        \/ UpstreamFails(r)
        \/ Analyse(r)

Spec == Init /\ [][Next]_vars

\* A handler that need not wait runs on, and the timers fire: the budget of the
\* inline path, which fails a pending RPC, and the deadline of the request, which
\* fails the upstream call.  Nothing is assumed of the signal engine or of the
\* upstream: neither has to answer, or to fail, ever.
Driven(r) ==
    \/ Proceed(r)
    \/ BudgetExpires(r)
    \/ req[r].late /\ SignalFails(r)
    \/ UpstreamFails(r)

Fairness == \A r \in Requests : WF_vars(Driven(r))

FairSpec == Spec /\ Fairness

-----------------------------------------------------------------------------
(***************************************************************************)
(* Properties                                                              *)
(***************************************************************************)

\* The request's traffic was changed: mutated, or answered by the proxy itself.
Intervened(r) ==
    received[r] \notin {NoBody, req[r].original} \/ req[r].reply \in {"escalation", "block"}

\* A request that failed open for any reason, or on which perception abstained,
\* reaches the upstream with its original body or not at all, and the proxy
\* never answers in the upstream's place (the fail-open guarantees).
FailOpenUnchanged ==
    \A r \in Requests :
        req[r].reason # "none" \/ req[r].record.Abstain => ~Intervened(r)

\* Only a request the rollout selects is changed: never under a kill switch, in
\* shadow mode or outside the canary cohort, whether these were set in the
\* environment or the file, and whatever state other requests have left its
\* conversation in (Load and ShouldEnforce against the shared FSM).
OnlySelectedIntervened ==
    \A r \in Requests :
        Intervened(r) =>
            /\ deployed.env.kill # "true"
            /\ \/ cfg.mode = "enforce"
               \/ cfg.mode = "canary" /\ Bucket[r] < cfg.canaryPct

\* A request that was blocked or escalated is not also sent upstream.
ShortCircuitNotForwarded ==
    \A r \in Requests :
        req[r].reply \in {"escalation", "block"} => received[r] = NoBody

\* A request that goes on to the upstream has been analysed on one path and not on
\* the other, inline or by a shadow goroutine, unless the engine was down at startup
\* (ShouldEnforce and ShouldRunShadowAsync are asked at different places of the chain).
GovernedOnce ==
    \A r \in Requests :
        LET inline == req[r].record.Inline
            async  == shadow[r].pc # "off"
        IN  /\ ~(inline /\ async)
            /\ req[r].pc \in {"upstream", "sent"} /\ deployed.client = "connected"
                 => inline \/ async

\* The log and the span tell the truth about each request: at most one trace, on
\* the span the action of that trace, and both say enforce_applied exactly when the
\* traffic was changed, or was on its way to be when the upstream failed.
TraceTellsTruth ==
    \A r \in Requests :
        LET enforced == \E i \in 1..Len(traces[r]) : traces[r][i].enforced
            span     == SpanAttrs(r)
        IN  /\ Len(traces[r]) <= 1
            /\ enforced = span.enforce_applied
            /\ span.action_type # "none" => traces[r][1].action = span.action_type
            /\ Intervened(r) => enforced
            /\ enforced /\ req[r].reply = "upstream" => received[r] # req[r].original

\* A request that asks for fewer tokens than the dampening would allow it.
AsksForLess(body) == body.maxTokens # NoLimit /\ body.maxTokens < parseMaxTokens(Detail)

\* The upstream has been asked for no more tokens than the client asks for.
Clamped(r) ==
    req[r].original.maxTokens # NoLimit => received[r].maxTokens <= req[r].original.maxTokens

\* A body that differs from the original differs by one system message, by the limit
\* of a dampening that was logged as enforced, and not in the stream flag by which
\* the upstream call decides how to copy the answer (chatCompletionBody, wantsStream).
\* The limit clamps max_tokens, except for a request that asks for less, which is
\* raised to it: MutatedAsDocumented is about that case.
RewriteAccounted ==
    \A r \in Requests :
        LET original == req[r].original
            sent     == received[r]
        IN  sent \notin {NoBody, original} =>
                /\ sent.stream = original.stream
                /\ sent.system = original.system + 1
                /\ Clamped(r) \/ AsksForLess(original)
                /\ sent.maxTokens # original.maxTokens
                     => /\ traces[r][1].action = "DAMPEN_VERBOSITY"
                        /\ sent.maxTokens = parseMaxTokens(Detail)

\* The requests whose span gives the reason, those with an enforced trace of the
\* action, and those whose action could not be applied.
FailedFor(reason) == {r \in Requests : SpanAttrs(r).fail_open_reason = reason}

LoggedApplied(r, action) ==
    \E i \in 1..Len(traces[r]) : traces[r][i].enforced /\ traces[r][i].action = action

AppliedTo(action) == {r \in Requests : LoggedApplied(r, action)}

NotApplied == {r \in Requests : req[r].reason = "enforce_error"}

\* The counters an operator watches agree with the traces and spans: each fail-open
\* reason with the spans that give it, each applied action with the enforced traces,
\* and every end of the inline path is a fail-open, an action or an enforce_error.
MetricsAgree ==
    /\ \A reason \in FailOpenReasons :
           Total(metrics.FailOpenTotal, {reason}) = Cardinality(FailedFor(reason))
    /\ \A action \in Actions :
           Total(metrics.ActionApplied, {<<action, TRUE>>}) = Cardinality(AppliedTo(action))
    /\ metrics.InlineDuration = BagCardinality(metrics.FailOpenTotal)
                                  + BagCardinality(metrics.ActionApplied)
                                  + Cardinality(NotApplied)

InState(state) == {c \in Conversations : Lookup(data, c).state = state}

\* The transition counters balance: how often conversations have entered a state less
\* how often they have left it is the number of conversations now in it, save those
\* that began there (OnStateTransition runs for inline and shadow evaluations alike).
TransitionsBalance ==
    \A state \in StabilityState :
        Entered(metrics, state) - Left(metrics, state)
            = Cardinality(InState(state))
                - (IF state = defaultState.state THEN Cardinality(Conversations) ELSE 0)

\* Every evaluation of a finished request left one policy_trace, save the ones
\* whose action could not be applied to the body.
EvaluationTraced ==
    \A r \in Requests :
        /\ req[r].pc = "done" /\ req[r].decision # NoDecision /\ req[r].reason # "enforce_error"
             => Len(traces[r]) = 1
        /\ shadow[r].pc = "done" /\ shadow[r].decision # NoDecision => Len(traces[r]) = 1

\* The evaluation that a request with this handler and goroutine has in progress.
CallOf(r, handler, goroutine) ==
    IF handler.pc \in {"policy", "decided"}
    THEN [conversation |-> ConversationOf[r], frame |-> handler.frame]
    ELSE IF goroutine.pc \in {"policy", "decided"} \/ goroutine.decision = Failed
         THEN [conversation |-> ConversationOf[r], frame |-> goroutine.frame]
         ELSE NoCall

\* Its result, from its effect until it is used.
ResultOf(handler, goroutine) ==
    IF handler.pc = "decided" THEN handler.decision
    ELSE IF goroutine.pc = "decided" \/ goroutine.decision = Failed THEN goroutine.decision
         ELSE NoDecision

calls == [r \in Requests |-> CallOf(r, req[r], shadow[r])]

results == [r \in Requests |-> ResultOf(req[r], shadow[r])]

\* The evaluations that requests make, inline or in the shadow, use the policy
\* engine as its specification allows: one call at a time for each request.
Engine == INSTANCE PolicyEngine WITH
    Evaluators <- Requests, call <- calls, decision <- results

UsesEngine == Engine!Spec

\* Every admitted request is answered unless the process crashes, even if the
\* signal engine and the upstream stay silent for ever.
Answered == \A r \in Requests : req[r].pc = "governance" ~> req[r].pc = "done" \/ ~up

(***************************************************************************)
(* What the documentation says, and the code does not do                   *)
(***************************************************************************)

\* A failure of the asynchronous shadow analysis has no effect on the main path
\* (docs/architecture.md, fail-open guarantees): in particular the process and
\* the requests it serves survive it.
ShadowFailureHarmless == up

\* The span of an admitted request carries the tenant its API key maps to
\* (docs/threat-model.md, tenant isolation).
SpanNamesTenant ==
    \A r \in Requests :
        req[r].pc # "new" /\ req[r].reply # "refused" => SpanAttrs(r).tenant_id = TenantOf[r]

\* Once HSAR has exceeded its latency budget the original request is forwarded
\* unchanged (docs/architecture.md, overview).
BudgetRespected == \A r \in Requests : req[r].late => ~Intervened(r)

\* Enforcement prepends a system message, clamps max_tokens and leaves the rest of
\* the request alone (docs/policy-engine.md, enforcement actions): in particular it
\* never raises max_tokens, which would be no clamp, and no "cap" (docs/threat-model.md).
MutatedAsDocumented ==
    \A r \in Requests :
        received[r] # NoBody => Clamped(r) /\ received[r].rest = req[r].original.rest

=============================================================================
