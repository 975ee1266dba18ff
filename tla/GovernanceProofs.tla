---------------------------- MODULE GovernanceProofs ---------------------------
(***************************************************************************)
(* Theorems about the path of a request, for any number of requests, any     *)
(* policy Validate accepts and any deployment.                               *)
(***************************************************************************)
EXTENDS Governance, PolicyProofs, RolloutProofs

-----------------------------------------------------------------------------
(***************************************************************************)
(* Types of the operators                                                  *)
(***************************************************************************)

LEMMA IncType ==
  ASSUME NEW labels, NEW counters, IsVector(counters, labels), NEW label \in labels
  PROVE  IsVector(Inc(counters, label), labels)
BY DEF IsVector, IsABag, BagToSet, SetToBag, Inc, (+)

LEMMA MetricsType ==
  ASSUME NEW m, IsMetrics(m)
  PROVE  /\ IsMetrics(countKillSwitch(m))
         /\ IsMetrics(countAbstain(m))
         /\ IsMetrics(recordInline(m))
         /\ \A reason \in FailOpenReasons : IsMetrics(recordFailOpen(m, reason))
         /\ \A action \in Actions, applied \in BOOLEAN : IsMetrics(recordAction(m, action, applied))
         /\ \A from, to \in StabilityState : IsMetrics(OnStateTransition(m, from, to))
<1> USE DEF IsMetrics, NewMetrics
<1>1. IsMetrics(countKillSwitch(m)) /\ IsMetrics(countAbstain(m)) /\ IsMetrics(recordInline(m))
  BY DEF countKillSwitch, countAbstain, recordInline
<1>2. ASSUME NEW reason \in FailOpenReasons
      PROVE  IsMetrics(recordFailOpen(m, reason))
  BY IncType DEF recordFailOpen
<1>3. ASSUME NEW action \in Actions, NEW applied \in BOOLEAN
      PROVE  IsMetrics(recordAction(m, action, applied))
  <2>1. IsVector(Inc(m.ActionApplied, <<action, applied>>), Actions \X BOOLEAN)
    BY IncType
  <2> QED
    BY <2>1 DEF recordAction
<1>4. ASSUME NEW from \in StabilityState, NEW to \in StabilityState
      PROVE  IsMetrics(OnStateTransition(m, from, to))
  <2>1. IsVector(Inc(m.PolicyStateTransition, <<from, to>>), StabilityState \X StabilityState)
    BY IncType
  <2> QED
    BY <2>1 DEF OnStateTransition
<1> QED
  BY <1>1, <1>2, <1>3, <1>4

LEMMA LimitType == parseMaxTokens(Detail) \in Int
<1> DEFINE limits == {i \in DOMAIN Detail : Detail[i] # NoLimit}
<1>1. limits \subseteq Nat /\ \A i \in limits : Detail[i] \in Int
  BY BodyAssumption
<1>2. limits # {} => FirstOf(limits) \in limits
  BY <1>1, FirstOfIsLeast
<1> QED
  BY <1>1, <1>2 DEF parseMaxTokens, FirstOf

\* A mutation leaves a body with one more system message.
LEMMA MutationType ==
  ASSUME NEW body \in Body, NEW action \in Mutations
  PROVE  /\ ApplyActions(body, action) \in Body
         /\ ApplyActions(body, action).system = body.system + 1
         /\ ApplyActions(body, action).stream = body.stream
         /\ \/ ApplyActions(body, action).maxTokens = body.maxTokens
            \/ /\ action = "DAMPEN_VERBOSITY"
               /\ ApplyActions(body, action).maxTokens = parseMaxTokens(Detail)
<1>1. Remarshalled(body) \in Body
  <2>1. [body EXCEPT !.system = body.system + 1] \in Body
    BY DEF Body
  <2> QED
    BY <2>1 DEF Remarshalled, Body
<1>2. /\ Remarshalled(body).system = body.system + 1
      /\ Remarshalled(body).stream = body.stream
      /\ Remarshalled(body).maxTokens = body.maxTokens
  BY DEF Remarshalled, Body
<1>3. CASE action = "DAMPEN_VERBOSITY"
  <2>1. ASSUME NEW limit \in Int
        PROVE  [Remarshalled(body) EXCEPT !.maxTokens = limit] \in Body
    BY <1>1 DEF Body
  <2> QED
    BY <1>1, <1>2, <1>3, <2>1, LimitType DEF ApplyActions, dampenVerbosity, Body
<1>4. CASE action # "DAMPEN_VERBOSITY"
  BY <1>1, <1>2, <1>4 DEF ApplyActions, injectSystemContext
<1> QED
  BY <1>3, <1>4

\* What a handler or a goroutine makes of the stored state of its conversation.
LEMMA EvaluationType ==
  ASSUME TypeOK, NEW r \in Requests, NEW frame \in Frame
  PROVE  LET st      == Lookup(data, ConversationOf[r])
             outcome == EvaluatePure(frame, st)
         IN  /\ outcome.decision \in Decision
             /\ IsMetrics(OnStateTransition(metrics, st.state, outcome.next.state))
             /\ DOMAIN Put(data, ConversationOf[r], outcome.next) \subseteq Conversations
             /\ \A c \in DOMAIN Put(data, ConversationOf[r], outcome.next) :
                    Put(data, ConversationOf[r], outcome.next)[c] \in ConversationState
<1> DEFINE st   == Lookup(data, ConversationOf[r])
           next == EvaluatePure(frame, st).next
<1>1. ConversationOf[r] \in Conversations
  BY RequestAssumption
<1>2. st \in ConversationState
  BY LookupType DEF TypeOK
<1>3. EvaluatePure(frame, st).decision \in Decision /\ next \in ConversationState
  BY <1>2, EvaluateType
<1>4. IsMetrics(OnStateTransition(metrics, st.state, next.state))
  <2>1. st.state \in StabilityState /\ next.state \in StabilityState
    BY <1>2, <1>3 DEF ConversationState
  <2> QED
    BY <2>1, MetricsType DEF TypeOK
<1> HIDE DEF st, next
<1>5. /\ DOMAIN Put(data, ConversationOf[r], next) \subseteq Conversations
      /\ \A c \in DOMAIN Put(data, ConversationOf[r], next) :
             Put(data, ConversationOf[r], next)[c] \in ConversationState
  BY <1>1, <1>3 DEF Put, TypeOK
<1> QED
  BY <1>3, <1>4, <1>5 DEF st, next

LEMMA LogTraceType ==
  ASSUME TypeOK, NEW r \in Requests, NEW action \in Actions, NEW state \in StabilityState,
         NEW enforced \in BOOLEAN, LogTrace(r, action, state, enforced)
  PROVE  /\ traces' \in [Requests -> Seq(Trace)]
         /\ traces'[r] = Append(traces[r], [tenant |-> TenantOf[r], action |-> action,
                                            state |-> state, enforced |-> enforced])
         /\ \A other \in Requests \ {r} : traces'[other] = traces[other]
<1>1. [tenant |-> TenantOf[r], action |-> action, state |-> state, enforced |-> enforced]
        \in Trace
  BY RequestAssumption DEF Trace
<1> QED
  BY <1>1 DEF LogTrace, TypeOK

-----------------------------------------------------------------------------
(***************************************************************************)
(* Type correctness                                                        *)
(***************************************************************************)

\* An evaluation has ended with a decision or, inline, with a recovered panic.
DecisionMade(r) ==
    /\ req[r].pc = "decided" => req[r].decision \in Decision \cup {Failed}
    /\ shadow[r].pc = "decided" => shadow[r].decision \in Decision

TypeInvariant == TypeOK /\ \A r \in Requests : DecisionMade(r)

\* A step changes at most the handler, the goroutine, the trace and the upstream's
\* copy of one request.
Steps(r) ==
    /\ deployed' = deployed
    /\ \A other \in Requests \ {r} :
           /\ req'[other] = req[other] /\ shadow'[other] = shadow[other]
           /\ traces'[other] = traces[other] /\ received'[other] = received[other]

\* The handler of r has become h, with everything else as it was.
LEMMA HandlerSteps ==
  ASSUME TypeInvariant, NEW r \in Requests, req'[r] \in Handler,
         req'[r].pc = "decided" => req'[r].decision \in Decision \cup {Failed},
         req' = [req EXCEPT ![r] = req'[r]], UNCHANGED surroundings
  PROVE  TypeInvariant' /\ Steps(r)
BY DEF TypeInvariant, TypeOK, DecisionMade, Steps, surroundings

\* Every end of the inline path leaves a handler and logs at most one record.
LEMMA FailOpenSteps ==
  ASSUME TypeInvariant, NEW r \in Requests, NEW reason \in FailOpenReasons,
         FailOpen(r, reason)
  PROVE  TypeInvariant' /\ Steps(r)
<1>1. req[r] \in Handler /\ req[r].original \in Body
  BY RequestAssumption DEF TypeInvariant, TypeOK, Handler
<1>2. req'[r] \in Handler /\ req'[r].pc = "shadow"
  BY <1>1 DEF FailOpen, TypeInvariant, TypeOK, Handler
<1>3. req' \in [Requests -> Handler] /\ \A other \in Requests \ {r} : req'[other] = req[other]
  BY <1>2 DEF FailOpen, TypeInvariant, TypeOK
<1>4. IsMetrics(metrics')
  BY MetricsType DEF FailOpen, TypeInvariant, TypeOK
<1>5. /\ traces' \in [Requests -> Seq(Trace)]
      /\ \A other \in Requests \ {r} : traces'[other] = traces[other]
  <2>1. LogTrace(r, "PASSTHROUGH", "NORMAL", FALSE)
    BY DEF FailOpen, LogPassthroughTrace
  <2> QED
    BY <2>1, LogTraceType DEF TypeInvariant, Actions, StabilityState
<1> QED
  BY <1>2, <1>3, <1>4, <1>5 DEF FailOpen, TypeInvariant, TypeOK, DecisionMade, Steps

LEMMA ConcludeSteps ==
  ASSUME TypeInvariant, NEW r \in Requests, NEW next \in Handler, next.pc # "decided",
         NEW enforced \in BOOLEAN, Conclude(r, next, enforced)
  PROVE  TypeInvariant' /\ Steps(r)
<1>1. /\ req[r] \in Handler /\ req[r].frame.abstain \in BOOLEAN
      /\ req[r].decision.action \in Actions /\ req[r].decision.state \in StabilityState
  BY DEF Conclude, Decided, At, TypeInvariant, TypeOK, DecisionMade, Handler, Decision, Frame
<1>2. req'[r] \in Handler /\ req'[r].pc # "decided"
  BY <1>1 DEF Conclude, TypeInvariant, TypeOK, Handler
<1>3. req' \in [Requests -> Handler] /\ \A other \in Requests \ {r} : req'[other] = req[other]
  BY <1>2 DEF Conclude, TypeInvariant, TypeOK
<1>4. IsMetrics(metrics')
  <2>1. IsMetrics(recordAction(metrics, req[r].decision.action, enforced))
    BY <1>1, MetricsType DEF TypeInvariant, TypeOK
  <2> QED
    BY <2>1, MetricsType DEF Conclude
<1>5. /\ traces' \in [Requests -> Seq(Trace)]
      /\ \A other \in Requests \ {r} : traces'[other] = traces[other]
  BY <1>1, LogTraceType DEF Conclude, LogDecision, TypeInvariant
<1> QED
  BY <1>2, <1>3, <1>4, <1>5 DEF Conclude, TypeInvariant, TypeOK, DecisionMade, Steps

\* What a handler does, as a step of its own request.
LEMMA HandlerActions ==
  ASSUME TypeInvariant, NEW r \in Requests,
         \/ Refuse(r) \/ Admit(r) \/ Proceed(r) \/ BudgetExpires(r) \/ SignalFails(r)
         \/ \E frame \in Frame : SignalAnswers(r, frame)
  PROVE  TypeInvariant' /\ Steps(r)
<1>1. req \in [Requests -> Handler] /\ req[r] \in Handler /\ req[r].original \in Body
  BY RequestAssumption DEF TypeInvariant, TypeOK, Handler
<1>2. CASE Refuse(r) \/ Admit(r) \/ StartInline(r)
  BY <1>1, <1>2, HandlerSteps DEF Refuse, Admit, StartInline, Handler, Replies
<1>3. CASE BudgetExpires(r) \/ PolicyPanics(r)
  <2>1. req'[r] \in Handler
    <3>1. [req[r] EXCEPT !.late = TRUE] \in Handler
      BY <1>1 DEF Handler
    <3>2. [[req[r] EXCEPT !.pc = "decided"] EXCEPT !.decision = Failed] \in Handler
      BY <1>1 DEF Handler
    <3> QED
      BY <1>1, <1>3, <3>1, <3>2 DEF BudgetExpires, PolicyPanics
  <2>2. req' = [req EXCEPT ![r] = req'[r]] /\ UNCHANGED surroundings
    BY <1>1, <1>3 DEF BudgetExpires, PolicyPanics
  <2>3. req'[r].pc = "decided" => req'[r].decision \in Decision \cup {Failed}
    BY <1>1, <1>3 DEF BudgetExpires, PolicyPanics, Handler, TypeInvariant, DecisionMade
  <2> QED
    BY <2>1, <2>2, <2>3, HandlerSteps
<1>4. ASSUME NEW frame \in Frame, SignalAnswers(r, frame)
      PROVE  TypeInvariant' /\ Steps(r)
  BY <1>1, <1>4, HandlerSteps DEF SignalAnswers, Handler
<1>5. CASE SignalFails(r) \/ PolicyFails(r)
  BY <1>5, FailOpenSteps DEF SignalFails, PolicyFails, FailOpenReasons
<1>6. CASE Bypass(r)
  <2>1. req'[r] \in Handler /\ req'[r].pc = "shadow"
    BY <1>1, <1>6 DEF Bypass, Handler
  <2>2. IsMetrics(metrics')
    BY <1>6, MetricsType DEF Bypass, TypeInvariant, TypeOK
  <2> QED
    BY <1>1, <1>6, <2>1, <2>2 DEF Bypass, TypeInvariant, TypeOK, DecisionMade, Steps
<1>7. CASE EvaluatePolicy(r)
  <2>1. req[r].frame \in Frame
    BY <1>1 DEF Handler
  <2> DEFINE outcome == EvaluatePure(req[r].frame, Lookup(data, ConversationOf[r]))
  <2>2. /\ outcome.decision \in Decision
        /\ DOMAIN data' \subseteq Conversations
        /\ \A c \in DOMAIN data' : data'[c] \in ConversationState
        /\ IsMetrics(metrics')
    BY <1>7, <2>1, EvaluationType DEF EvaluatePolicy, TypeInvariant
  <2>3. req'[r] \in Handler /\ req'[r].decision \in Decision
    BY <1>1, <1>7, <2>2 DEF EvaluatePolicy, Handler
  <2> QED
    BY <1>1, <1>7, <2>2, <2>3 DEF EvaluatePolicy, TypeInvariant, TypeOK, DecisionMade, Steps
<1>8. CASE PassThrough(r) \/ Mutate(r) \/ ShortCircuit(r)
  <2>1. /\ [req[r] EXCEPT !.pc = "shadow", !.body = req[r].original] \in Handler
        /\ [req[r] EXCEPT !.pc = "done", !.reply = Response(req[r].decision.action)] \in Handler
    BY <1>1 DEF Handler, Response, Replies
  <2>2. CASE PassThrough(r)
    BY <1>1, <2>1, <2>2, ConcludeSteps DEF PassThrough, Handler
  <2>3. CASE ShortCircuit(r)
    BY <1>1, <2>1, <2>3, ConcludeSteps DEF ShortCircuit, Handler
  <2>4. CASE Mutate(r)
    <3>1. ApplyActions(req[r].original, req[r].decision.action) \in Body
      BY <1>1, <2>4, MutationType DEF Mutate
    <3>2. [req[r] EXCEPT !.pc = "shadow",
              !.body = ApplyActions(req[r].original, req[r].decision.action)] \in Handler
      BY <1>1, <3>1 DEF Handler
    <3> QED
      BY <1>1, <2>4, <3>2, ConcludeSteps DEF Mutate, Handler
  <2> QED
    BY <1>8, <2>2, <2>3, <2>4
<1>9. CASE ApplyFails(r)
  <2>1. req'[r] \in Handler /\ req'[r].pc = "shadow"
    BY <1>1, <1>9 DEF ApplyFails, Handler
  <2>2. IsMetrics(metrics')
    BY <1>9, MetricsType DEF ApplyFails, TypeInvariant, TypeOK
  <2> QED
    BY <1>1, <1>9, <2>1, <2>2 DEF ApplyFails, TypeInvariant, TypeOK, DecisionMade, Steps
<1>10. CASE PassShadow(r)
  <2>1. req'[r] \in Handler /\ req'[r].pc = "upstream"
    BY <1>1, <1>10 DEF PassShadow, Handler
  <2>2. shadow'[r] \in Goroutine /\ (shadow'[r].pc = "decided" => shadow[r].pc = "decided")
    BY <1>10 DEF PassShadow, TypeInvariant, TypeOK, Goroutine
  <2> QED
    BY <1>1, <1>10, <2>1, <2>2 DEF PassShadow, TypeInvariant, TypeOK, DecisionMade, Steps
<1> QED
  BY <1>2, <1>3, <1>4, <1>5, <1>6, <1>7, <1>8, <1>9, <1>10 DEF Proceed

\* The goroutine of r has become g, with the handlers as they were.
LEMMA GoroutineSteps ==
  ASSUME TypeInvariant, NEW r \in Requests, shadow'[r] \in Goroutine,
         shadow'[r].pc = "decided" => shadow'[r].decision \in Decision,
         shadow' = [shadow EXCEPT ![r] = shadow'[r]], IsMetrics(metrics'), up' \in BOOLEAN,
         UNCHANGED <<deployed, data, req, traces, received>>
  PROVE  TypeInvariant' /\ Steps(r)
BY DEF TypeInvariant, TypeOK, DecisionMade, Steps

\* What a shadow goroutine does, as a step of its own request.
LEMMA GoroutineActions ==
  ASSUME TypeInvariant, NEW r \in Requests, Analyse(r)
  PROVE  TypeInvariant' /\ Steps(r)
<1>1. shadow \in [Requests -> Goroutine] /\ shadow[r] \in Goroutine /\ IsMetrics(metrics)
  BY DEF TypeInvariant, TypeOK
<1>2. ASSUME NEW frame \in Frame, ShadowSignalAnswers(r, frame)
      PROVE  TypeInvariant' /\ Steps(r)
  <2>1. [[shadow[r] EXCEPT !.pc = "policy"] EXCEPT !.frame = frame] \in Goroutine
    BY <1>1 DEF Goroutine
  <2>2. shadow'[r] \in Goroutine /\ shadow'[r].pc = "policy"
    BY <1>1, <1>2, <2>1 DEF ShadowSignalAnswers, Goroutine
  <2>3. IsMetrics(metrics') /\ shadow' = [shadow EXCEPT ![r] = shadow'[r]]
    BY <1>1, <1>2, MetricsType DEF ShadowSignalAnswers
  <2> QED
    BY <1>2, <2>2, <2>3, GoroutineSteps DEF ShadowSignalAnswers, TypeInvariant, TypeOK
<1>3. CASE ShadowSignalFails(r) \/ ShadowSignalPanics(r) \/ ShadowPolicyPanics(r)
  <2>1. /\ [shadow[r] EXCEPT !.pc = "done"] \in Goroutine
        /\ [shadow[r] EXCEPT !.pc = "panicked"] \in Goroutine
        /\ [[shadow[r] EXCEPT !.pc = "panicked"] EXCEPT !.decision = Failed] \in Goroutine
    BY <1>1 DEF Goroutine
  <2>2. shadow'[r] \in Goroutine /\ shadow'[r].pc \in {"done", "panicked"}
    BY <1>1, <1>3, <2>1
       DEF ShadowSignalFails, ShadowSignalPanics, ShadowPolicyPanics, Goroutine
  <2>3. shadow' = [shadow EXCEPT ![r] = shadow'[r]] /\ metrics' = metrics /\ up' \in BOOLEAN
    BY <1>1, <1>3
       DEF ShadowSignalFails, ShadowSignalPanics, ShadowPolicyPanics, TypeInvariant, TypeOK
  <2> QED
    BY <1>1, <1>3, <2>2, <2>3, GoroutineSteps
       DEF ShadowSignalFails, ShadowSignalPanics, ShadowPolicyPanics
<1>4. CASE ShadowEvaluates(r)
  <2>1. shadow[r].frame \in Frame
    BY <1>1 DEF Goroutine
  <2> DEFINE outcome == EvaluatePure(shadow[r].frame, Lookup(data, ConversationOf[r]))
  <2>2. /\ outcome.decision \in Decision
        /\ DOMAIN data' \subseteq Conversations
        /\ \A c \in DOMAIN data' : data'[c] \in ConversationState
        /\ IsMetrics(metrics')
    BY <1>4, <2>1, EvaluationType DEF ShadowEvaluates, TypeInvariant
  <2>3. shadow'[r] \in Goroutine /\ shadow'[r].decision \in Decision
    BY <1>1, <1>4, <2>2 DEF ShadowEvaluates, Goroutine
  <2> QED
    BY <1>1, <1>4, <2>2, <2>3 DEF ShadowEvaluates, TypeInvariant, TypeOK, DecisionMade, Steps
<1>5. CASE ShadowTraces(r)
  <2>1. shadow[r].decision.action \in Actions /\ shadow[r].decision.state \in StabilityState
    BY <1>5 DEF ShadowTraces, ShadowAt, TypeInvariant, DecisionMade, Decision
  <2>2. /\ traces' \in [Requests -> Seq(Trace)]
        /\ \A other \in Requests \ {r} : traces'[other] = traces[other]
    BY <1>5, <2>1, LogTraceType DEF ShadowTraces, TypeInvariant
  <2>3. shadow'[r] \in Goroutine /\ shadow'[r].pc = "done"
    BY <1>1, <1>5 DEF ShadowTraces, Goroutine
  <2> QED
    BY <1>1, <1>5, <2>2, <2>3 DEF ShadowTraces, TypeInvariant, TypeOK, DecisionMade, Steps
<1> QED
  BY <1>2, <1>3, <1>4, <1>5 DEF Analyse

\* The exchange with the upstream, as a step of its own request.
LEMMA UpstreamActions ==
  ASSUME TypeInvariant, NEW r \in Requests,
         UpstreamReceives(r) \/ UpstreamAnswers(r) \/ UpstreamFails(r)
  PROVE  TypeInvariant' /\ Steps(r)
<1>1. req \in [Requests -> Handler] /\ req[r] \in Handler
  BY DEF TypeInvariant, TypeOK
<1>2. CASE UpstreamReceives(r)
  <2>1. req'[r] \in Handler /\ req'[r].pc = "sent"
    BY <1>1, <1>2 DEF UpstreamReceives, Handler
  <2>2. received' \in [Requests -> Body \cup {NoBody}]
    BY <1>1, <1>2 DEF UpstreamReceives, Handler, TypeInvariant, TypeOK
  <2> QED
    BY <1>1, <1>2, <2>1, <2>2 DEF UpstreamReceives, TypeInvariant, TypeOK, DecisionMade, Steps
<1>3. CASE UpstreamAnswers(r) \/ UpstreamFails(r)
  BY <1>1, <1>3, HandlerSteps DEF UpstreamAnswers, UpstreamFails, Handler, Replies
<1> QED
  BY <1>2, <1>3

\* Every step is a step of one request.
LEMMA OneRequestSteps ==
  ASSUME TypeInvariant, Next
  PROVE  TypeInvariant' /\ \E r \in Requests : Steps(r)
BY HandlerActions, GoroutineActions, UpstreamActions DEF Next

LEMMA TypeInvariantHolds == Spec => []TypeInvariant
<1>1. Init => TypeInvariant
  <2> SUFFICES ASSUME Init PROVE TypeInvariant
    OBVIOUS
  <2>1. ASSUME NEW body \in Bodies
        PROVE  NewHandler(body) \in Handler
    <3>1. body \in Body
      BY RequestAssumption
    <3>2. NoFrame \in Frame
      BY DEF NoFrame, Frame
    <3> QED
      BY <3>1, <3>2 DEF NewHandler, NoRecord, Handler, Replies
  <2>2. req \in [Requests -> Handler] /\ \A r \in Requests : req[r].pc = "new"
    BY <2>1 DEF Init, NewHandler
  <2>3. NoGoroutine \in Goroutine
    BY DEF NoGoroutine, NoFrame, Frame, Goroutine
  <2>4. IsMetrics(metrics)
    BY DEF Init, IsMetrics, NewMetrics, IsVector, IsABag, BagToSet, EmptyBag, SetToBag
  <2>5. /\ deployed \in Deployments /\ up \in BOOLEAN
        /\ DOMAIN data \subseteq Conversations
        /\ \A c \in DOMAIN data : data[c] \in ConversationState
    BY DEF Init
  <2>6. /\ shadow \in [Requests -> Goroutine] /\ \A r \in Requests : shadow[r].pc = "off"
        /\ traces \in [Requests -> Seq(Trace)]
        /\ received \in [Requests -> Body \cup {NoBody}]
    BY <2>3 DEF Init, NoGoroutine
  <2> QED
    BY <2>2, <2>4, <2>5, <2>6 DEF TypeInvariant, TypeOK, DecisionMade
<1>2. TypeInvariant /\ [Next]_vars => TypeInvariant'
  BY OneRequestSteps DEF vars, TypeInvariant, TypeOK, DecisionMade
<1> QED
  BY <1>1, <1>2, PTL DEF Spec

\* The handlers, goroutines, traces, counters and stored states keep their types for
\* any number of concurrent requests: in particular no evaluation, inline or in the
\* shadow, stores a state the FSM does not have.
THEOREM RequestsTypeCorrect == Spec => []TypeOK
<1>1. TypeInvariant => TypeOK
  BY DEF TypeInvariant
<1> QED
  BY <1>1, TypeInvariantHolds, PTL

-----------------------------------------------------------------------------
(***************************************************************************)
(* The invariant of a request                                              *)
(***************************************************************************)

\* The request takes the inline path.
Selected(r) == Enforced(r) /\ deployed.client = "connected"

Answers == {"escalation", "block"}

\* Where perception abstained nothing is decided.
PassedOver(r) ==
    req[r].pc = "decided" /\ req[r].frame.abstain =>
        req[r].decision = Failed \/ req[r].decision.action = "PASSTHROUGH"

\* Until its inline path has ended a request is as it came, and nothing is known of it.
Untouched(r) ==
    req[r].pc \in {"new", "governance", "signal", "policy", "decided"} =>
        /\ req[r].body = req[r].original
        /\ req[r].reason = "none"
        /\ req[r].record.Inline <=> req[r].pc \in {"signal", "policy", "decided"}
        /\ req[r].record.ActionType = "none"
        /\ ~req[r].record.EnforceApplied /\ ~req[r].record.Abstain
        /\ req[r].record.Inline => traces[r] = << >>
        /\ PassedOver(r)

\* The request has left the inline path as it came.
FailedOpen(r) ==
    /\ req[r].reason \in FailOpenReasons
    /\ req[r].body = req[r].original
    /\ req[r].record.ActionType = "none" /\ ~req[r].record.EnforceApplied
    /\ Len(traces[r]) = 1 /\ ~traces[r][1].enforced

Unapplied(r) ==
    /\ req[r].reason = "enforce_error"
    /\ req[r].body = req[r].original
    /\ req[r].record.ActionType = "none" /\ ~req[r].record.EnforceApplied
    /\ traces[r] = << >>

\* The decision has been carried out: the action asks for nothing, mutates the body, or
\* answers the request.
Carried(r) ==
    LET action == req[r].record.ActionType
    IN  /\ req[r].reason = "none"
        /\ Len(traces[r]) = 1
        /\ traces[r][1].action = action
        /\ traces[r][1].enforced = req[r].record.EnforceApplied
        /\ IF req[r].record.EnforceApplied
           THEN /\ ~req[r].record.Abstain
                /\ \/ /\ action \in Mutations
                      /\ req[r].body = ApplyActions(req[r].original, action)
                   \/ req[r].body = req[r].original /\ req[r].reply \in Answers
           ELSE req[r].body = req[r].original

\* The two paths are exclusive, and each leaves its own marks.
Divided(r) ==
    /\ req[r].record.Inline => Selected(r)
    /\ req[r].pc \in {"shadow", "upstream", "sent"} /\ Selected(r) => req[r].record.Inline
    /\ req[r].record.Inline /\ req[r].pc \in {"shadow", "upstream", "sent", "done"}
         => FailedOpen(r) \/ Unapplied(r) \/ Carried(r)
    /\ ~req[r].record.Inline =>
         /\ req[r].body = req[r].original
         /\ req[r].reason = "none" /\ req[r].decision = NoDecision
         /\ req[r].record.ActionType = "none"
         /\ ~req[r].record.EnforceApplied /\ ~req[r].record.Abstain

\* The upstream gets the body the handler has settled on, and a request is answered
\* only at its end.
Exchanged(r) ==
    /\ received[r] # NoBody => /\ received[r] = req[r].body
                               /\ req[r].pc \in {"sent", "done"}
                               /\ req[r].reply \notin Answers
    /\ req[r].pc = "sent" \/ req[r].reply = "upstream" => received[r] = req[r].body
    /\ req[r].pc # "done" => req[r].reply = "none"
    /\ req[r].reply \in Answers => req[r].record.EnforceApplied

\* A goroutine analyses only requests that are not enforced, and logs at most once.
Shadowed(r) ==
    /\ shadow[r].pc # "off" => ~Enforced(r) /\ req[r].pc \in {"upstream", "sent", "done"}
    /\ req[r].pc \in {"upstream", "sent"} /\ ~Enforced(r) => shadow[r].pc # "off"
    /\ shadow[r].pc \in {"off", "signal", "policy"} => shadow[r].decision = NoDecision
    /\ ~req[r].record.Inline =>
         /\ shadow[r].pc # "done" => traces[r] = << >>
         /\ Len(traces[r]) <= 1
         /\ \A i \in 1..Len(traces[r]) : ~traces[r][i].enforced
         /\ shadow[r].pc = "done" /\ shadow[r].decision # NoDecision => Len(traces[r]) = 1

RequestInvariant(r) ==
    Untouched(r) /\ Divided(r) /\ Exchanged(r) /\ Shadowed(r)

PathInvariant ==
    /\ Loads(deployed.env, deployed.file)
    /\ \A r \in Requests : RequestInvariant(r)

\* The requests that do not step keep their invariant: it speaks of nothing they share.
LEMMA OthersKeep ==
  ASSUME TypeInvariant, PathInvariant, NEW r \in Requests, Steps(r), RequestInvariant(r)'
  PROVE  PathInvariant'
<1>1. Enforced(r)' = Enforced(r) /\ Loads(deployed.env, deployed.file)'
  BY DEF Steps, Enforced, cfg, PathInvariant
<1>2. ASSUME NEW other \in Requests \ {r}
      PROVE  RequestInvariant(other)'
  <2>1. /\ req'[other] = req[other] /\ shadow'[other] = shadow[other]
        /\ traces'[other] = traces[other] /\ received'[other] = received[other]
        /\ deployed' = deployed
    BY DEF Steps
  <2>2. Enforced(other)' = Enforced(other) /\ Selected(other)' = Selected(other)
    BY <2>1 DEF Enforced, Selected, cfg
  <2>3. RequestInvariant(other)
    BY DEF PathInvariant
  <2>4. Untouched(other)' /\ Exchanged(other)'
    BY <2>1, <2>3 DEF RequestInvariant, Untouched, PassedOver, Exchanged
  <2>5. Divided(other)'
    BY <2>1, <2>2, <2>3 DEF RequestInvariant, Divided, FailedOpen, Unapplied, Carried
  <2>6. Shadowed(other)'
    BY <2>1, <2>2, <2>3 DEF RequestInvariant, Shadowed
  <2> QED
    BY <2>4, <2>5, <2>6 DEF RequestInvariant
<1> QED
  BY <1>1, <1>2 DEF PathInvariant

\* Whether a request is enforced does not change while it is served.
LEMMA SelectionKept ==
  ASSUME NEW r \in Requests, deployed' = deployed
  PROVE  Enforced(r)' = Enforced(r) /\ Selected(r)' = Selected(r)
BY DEF Enforced, Selected, cfg

\* A step from one place before the end of the inline path to another.
LEMMA UntouchedStep ==
  ASSUME TypeInvariant, PathInvariant, NEW r \in Requests, deployed' = deployed,
         req[r].pc \in {"new", "governance", "signal", "policy", "decided"},
         req'[r].pc \in {"new", "governance", "signal", "policy", "decided"},
         /\ req'[r].body = req[r].body /\ req'[r].original = req[r].original
         /\ req'[r].reason = req[r].reason /\ req'[r].reply = req[r].reply
         /\ req'[r].record.ActionType = req[r].record.ActionType
         /\ req'[r].record.EnforceApplied = req[r].record.EnforceApplied
         /\ req'[r].record.Abstain = req[r].record.Abstain,
         req'[r].record.Inline <=> req'[r].pc \in {"signal", "policy", "decided"},
         req'[r].record.Inline => Selected(r),
         PassedOver(r)',
         req'[r].record.Inline \/ req'[r].decision = req[r].decision,
         req[r].record.Inline => req'[r].record.Inline,
         traces' = traces, received' = received, shadow' = shadow
  PROVE  RequestInvariant(r)'
<1>1. RequestInvariant(r)
  BY DEF PathInvariant
<1>2. Enforced(r)' = Enforced(r) /\ Selected(r)' = Selected(r)
  BY SelectionKept
<1>3. shadow[r].pc = "off" /\ received[r] = NoBody /\ req[r].reply = "none"
  BY <1>1 DEF RequestInvariant, Exchanged, Shadowed
<1>4. traces[r] = << >>
  BY <1>1, <1>3 DEF RequestInvariant, Untouched, Shadowed
<1>5. Untouched(r)' /\ Exchanged(r)' /\ Shadowed(r)'
  BY <1>1, <1>2, <1>3, <1>4 DEF RequestInvariant, Untouched, Exchanged, Shadowed, Answers
<1>6. Divided(r)'
  BY <1>1, <1>2 DEF RequestInvariant, Untouched, Divided
<1> QED
  BY <1>5, <1>6 DEF RequestInvariant

\* The steps of a handler up to the end of the inline path.
LEMMA BeginningsKeep ==
  ASSUME TypeInvariant, PathInvariant, NEW r \in Requests,
         \/ Admit(r) \/ StartInline(r) \/ BudgetExpires(r)
         \/ EvaluatePolicy(r) \/ PolicyPanics(r)
         \/ \E frame \in Frame : SignalAnswers(r, frame)
  PROVE  RequestInvariant(r)'
<1>1. /\ req \in [Requests -> Handler] /\ req[r] \in Handler /\ RequestInvariant(r)
  BY DEF TypeInvariant, TypeOK, PathInvariant
<1>2. CASE Admit(r)
  <2>1. req'[r] = [req[r] EXCEPT !.pc = "governance"] /\ req[r].pc = "new"
    BY <1>1, <1>2 DEF Admit, At
  <2> QED
    BY <1>1, <1>2, <2>1, UntouchedStep
       DEF Admit, surroundings, Handler, RequestInvariant, Untouched, PassedOver
<1>3. CASE StartInline(r)
  <2>1. /\ req'[r] = [[req[r] EXCEPT !.pc = "signal"] EXCEPT !.record.Inline = TRUE]
        /\ req[r].pc = "governance" /\ Selected(r)
    BY <1>1, <1>3 DEF StartInline, At, Selected
  <2> QED
    BY <1>1, <1>3, <2>1, UntouchedStep
       DEF StartInline, surroundings, Handler, RequestInvariant, Untouched, PassedOver
<1>4. CASE BudgetExpires(r)
  <2>1. req'[r] = [req[r] EXCEPT !.late = TRUE] /\ req[r].pc \in {"signal", "policy", "decided"}
    BY <1>1, <1>4 DEF BudgetExpires
  <2> QED
    BY <1>1, <1>4, <2>1, UntouchedStep
       DEF BudgetExpires, surroundings, Handler, RequestInvariant, Untouched, Divided,
           PassedOver
<1>5. ASSUME NEW frame \in Frame, SignalAnswers(r, frame)
      PROVE  RequestInvariant(r)'
  <2>1. req'[r] = [[req[r] EXCEPT !.pc = "policy"] EXCEPT !.frame = frame]
    BY <1>1, <1>5 DEF SignalAnswers
  <2> QED
    BY <1>1, <1>5, <2>1, UntouchedStep
       DEF SignalAnswers, At, surroundings, Handler, RequestInvariant, Untouched, Divided,
           PassedOver
<1>6. CASE EvaluatePolicy(r) \/ PolicyPanics(r)
  <2>1. /\ req[r].pc = "policy"
        /\ deployed' = deployed /\ traces' = traces /\ received' = received /\ shadow' = shadow
    BY <1>6 DEF EvaluatePolicy, PolicyPanics, At, surroundings
  <2>2. PICK decision :
            req'[r] = [[req[r] EXCEPT !.pc = "decided"] EXCEPT !.decision = decision]
    BY <1>1, <1>6 DEF EvaluatePolicy, PolicyPanics
  <2>3. PassedOver(r)'
    <3>1. CASE EvaluatePolicy(r)
      <4> DEFINE outcome == EvaluatePure(req[r].frame, Lookup(data, ConversationOf[r]))
      <4>1. req'[r].frame = req[r].frame /\ req'[r].decision = outcome.decision
        BY <1>1, <3>1 DEF EvaluatePolicy, Handler
      <4>2. req[r].frame.abstain => outcome.decision.action = "PASSTHROUGH"
        BY DEF EvaluatePure
      <4> QED
        BY <4>1, <4>2 DEF PassedOver
    <3>2. CASE PolicyPanics(r)
      BY <1>1, <3>2 DEF PolicyPanics, PassedOver, Handler
    <3> QED
      BY <1>6, <3>1, <3>2
  <2> QED
    BY <1>1, <2>1, <2>2, <2>3, UntouchedStep DEF Handler, RequestInvariant, Untouched, Divided
<1> QED
  BY <1>2, <1>3, <1>4, <1>5, <1>6

\* What is known of a request whose inline path has not ended.
LEMMA Unmarked ==
  ASSUME PathInvariant, NEW r \in Requests,
         req[r].pc \in {"new", "governance", "signal", "policy", "decided"}
  PROVE  /\ RequestInvariant(r)
         /\ req[r].body = req[r].original /\ req[r].reason = "none" /\ req[r].reply = "none"
         /\ req[r].record.Inline <=> req[r].pc \in {"signal", "policy", "decided"}
         /\ shadow[r].pc = "off" /\ received[r] = NoBody /\ traces[r] = << >>
         /\ shadow[r].decision = NoDecision /\ PassedOver(r)
<1>1. RequestInvariant(r)
  BY DEF PathInvariant
<1> QED
  BY <1>1 DEF RequestInvariant, Untouched, Exchanged, Shadowed

\* A request that leaves the inline path, or never takes it, without an action: refused,
\* bypassed, failed open or unapplied.
LEMMA PlainEnd ==
  ASSUME TypeInvariant, PathInvariant, NEW r \in Requests, deployed' = deployed,
         req[r].pc \in {"new", "governance", "signal", "decided"},
         \/ req'[r].pc = "shadow" /\ req'[r].reply = "none"
         \/ req'[r].pc = "done" /\ req'[r].reply = "refused" /\ ~req[r].record.Inline,
         req'[r].body = req[r].original /\ req'[r].original = req[r].original,
         req'[r].record.Inline = req[r].record.Inline,
         req'[r].record.ActionType = req[r].record.ActionType,
         req'[r].record.EnforceApplied = req[r].record.EnforceApplied,
         req'[r].record.Abstain = req[r].record.Abstain,
         \/ /\ ~req[r].record.Inline
            /\ req'[r].reason = "none" /\ traces' = traces
            /\ req'[r].decision = req[r].decision
            /\ req'[r].pc = "shadow" => ~Selected(r)
         \/ /\ req[r].record.Inline
            /\ \/ /\ req'[r].reason \in FailOpenReasons
                  /\ Len(traces'[r]) = 1 /\ ~traces'[r][1].enforced
               \/ req'[r].reason = "enforce_error" /\ traces' = traces,
         received' = received, shadow' = shadow
  PROVE  RequestInvariant(r)'
<1>1. /\ RequestInvariant(r) /\ req[r].body = req[r].original
      /\ shadow[r].pc = "off" /\ shadow[r].decision = NoDecision
      /\ received[r] = NoBody /\ traces[r] = << >>
  BY Unmarked
<1>2. Enforced(r)' = Enforced(r) /\ Selected(r)' = Selected(r)
  BY SelectionKept
<1>3. Untouched(r)' /\ Exchanged(r)' /\ Shadowed(r)'
  BY <1>1, <1>2 DEF Untouched, Exchanged, Shadowed, Answers
<1>4. Divided(r)'
  BY <1>1, <1>2
     DEF RequestInvariant, Untouched, Divided, FailedOpen, Unapplied
<1> QED
  BY <1>3, <1>4 DEF RequestInvariant

\* The handler and the record that a fail-open leaves.
LEMMA FailOpenLeaves ==
  ASSUME TypeInvariant, NEW r \in Requests, NEW reason \in FailOpenReasons,
         FailOpen(r, reason)
  PROVE  /\ req'[r].pc = "shadow" /\ req'[r].reason = reason
         /\ req'[r].record.FailOpenReason = reason
         /\ req'[r].body = req[r].original /\ req'[r].original = req[r].original
         /\ req'[r].reply = req[r].reply /\ req'[r].decision = req[r].decision
         /\ req'[r].record.Inline = req[r].record.Inline
         /\ req'[r].record.ActionType = req[r].record.ActionType
         /\ req'[r].record.EnforceApplied = req[r].record.EnforceApplied
         /\ req'[r].record.Abstain = req[r].record.Abstain
         /\ traces[r] = << >> => Len(traces'[r]) = 1 /\ ~traces'[r][1].enforced
<1>1. req \in [Requests -> Handler] /\ req[r] \in Handler
  BY DEF TypeInvariant, TypeOK
<1>2. req'[r] = [[[[req[r] EXCEPT !.pc = "shadow"] EXCEPT !.reason = reason]
                    EXCEPT !.record.FailOpenReason = reason] EXCEPT !.body = req[r].original]
  BY <1>1 DEF FailOpen
<1>3. traces[r] = << >> => Len(traces'[r]) = 1 /\ ~traces'[r][1].enforced
  <2>1. LogTrace(r, "PASSTHROUGH", "NORMAL", FALSE)
    BY DEF FailOpen, LogPassthroughTrace
  <2>2. traces'[r] = Append(traces[r], [tenant |-> TenantOf[r], action |-> "PASSTHROUGH",
                                        state |-> "NORMAL", enforced |-> FALSE])
    BY <2>1, LogTraceType DEF TypeInvariant, Actions, StabilityState
  <2> QED
    BY <2>2
<1> QED
  BY <1>1, <1>2, <1>3 DEF Handler

LEMMA FailOpenKeeps ==
  ASSUME TypeInvariant, PathInvariant, NEW r \in Requests, NEW reason \in FailOpenReasons,
         req[r].pc \in {"signal", "decided"}, FailOpen(r, reason)
  PROVE  RequestInvariant(r)'
<1>1. req[r].record.Inline /\ req[r].reply = "none" /\ traces[r] = << >>
  BY Unmarked
<1>2. deployed' = deployed /\ received' = received /\ shadow' = shadow
  BY DEF FailOpen
<1>3. /\ req'[r].pc = "shadow" /\ req'[r].reply = "none" /\ req'[r].reason = reason
      /\ req'[r].body = req[r].original /\ req'[r].original = req[r].original
      /\ req'[r].record.Inline = req[r].record.Inline
      /\ req'[r].record.ActionType = req[r].record.ActionType
      /\ req'[r].record.EnforceApplied = req[r].record.EnforceApplied
      /\ req'[r].record.Abstain = req[r].record.Abstain
      /\ Len(traces'[r]) = 1 /\ ~traces'[r][1].enforced
  BY <1>1, FailOpenLeaves
<1> QED
  BY <1>1, <1>2, <1>3, PlainEnd

\* The handler that the end of an inline path leaves.
LEMMA ConcludeLeaves ==
  ASSUME TypeInvariant, NEW r \in Requests, NEW next \in Handler, NEW enforced \in BOOLEAN,
         Conclude(r, next, enforced)
  PROVE  /\ req'[r].pc = next.pc /\ req'[r].body = next.body
         /\ req'[r].original = next.original
         /\ req'[r].reason = next.reason /\ req'[r].reply = next.reply
         /\ req'[r].record.Inline = next.record.Inline
         /\ req'[r].record.FailOpenReason = next.record.FailOpenReason
         /\ req'[r].record.ActionType = req[r].decision.action
         /\ req'[r].record.EnforceApplied = enforced
         /\ req'[r].record.Abstain = req[r].frame.abstain
<1>1. req'[r] = [[[next EXCEPT !.record.ActionType = req[r].decision.action]
                    EXCEPT !.record.EnforceApplied = enforced]
                    EXCEPT !.record.Abstain = req[r].frame.abstain]
  BY DEF Conclude, TypeInvariant, TypeOK
<1>2. next.record \in [Inline : BOOLEAN,
         FailOpenReason : FailOpenReasons \cup {"none"}, Abstain : BOOLEAN,
         ActionType : Actions \cup {"none"}, EnforceApplied : BOOLEAN]
  BY DEF Handler
<1>3. req'[r] = [next EXCEPT !.record = [[[next.record
                   EXCEPT !.ActionType = req[r].decision.action]
                   EXCEPT !.EnforceApplied = enforced]
                   EXCEPT !.Abstain = req[r].frame.abstain]]
  BY <1>1, <1>2 DEF Handler
<1>4. /\ req'[r].pc = next.pc /\ req'[r].body = next.body
      /\ req'[r].original = next.original
      /\ req'[r].reason = next.reason /\ req'[r].reply = next.reply
  BY <1>3 DEF Handler
<1>5. req'[r].record = [[[next.record EXCEPT !.ActionType = req[r].decision.action]
                           EXCEPT !.EnforceApplied = enforced]
                           EXCEPT !.Abstain = req[r].frame.abstain]
  BY <1>3 DEF Handler
<1>6. /\ req'[r].record.Inline = next.record.Inline
      /\ req'[r].record.FailOpenReason = next.record.FailOpenReason
      /\ req'[r].record.ActionType = req[r].decision.action
      /\ req'[r].record.EnforceApplied = enforced
      /\ req'[r].record.Abstain = req[r].frame.abstain
  BY <1>2, <1>5
<1> QED
  BY <1>4, <1>6

\* What it logs.
LEMMA ConcludeLogs ==
  ASSUME TypeInvariant, NEW r \in Requests, NEW next, NEW enforced \in BOOLEAN,
         Conclude(r, next, enforced), traces[r] = << >>
  PROVE  /\ req[r].decision \in Decision /\ Len(traces'[r]) = 1
         /\ traces'[r][1].action = req[r].decision.action
         /\ traces'[r][1].enforced = enforced
<1>1. req[r].decision \in Decision
  BY DEF Conclude, Decided, At, TypeInvariant, DecisionMade
<1>2. LogTrace(r, req[r].decision.action, req[r].decision.state, enforced)
  BY DEF Conclude, LogDecision
<1>3. traces'[r] = Append(traces[r], [tenant |-> TenantOf[r],
           action |-> req[r].decision.action, state |-> req[r].decision.state,
           enforced |-> enforced])
  BY <1>1, <1>2, LogTraceType DEF TypeInvariant, Decision
<1> QED
  BY <1>1, <1>3

\* The end of the inline path with a decision.
LEMMA ConcludeKeeps ==
  ASSUME TypeInvariant, PathInvariant, NEW r \in Requests, NEW next \in Handler,
         NEW enforced \in BOOLEAN, Conclude(r, next, enforced),
         next.original = req[r].original /\ next.reason = req[r].reason,
         next.record = req[r].record,
         \/ next.pc = "shadow" /\ next.reply = req[r].reply
         \/ next.pc = "done" /\ next.reply \in Answers /\ enforced,
         IF enforced
         THEN /\ ~req[r].frame.abstain
              /\ \/ /\ req[r].decision.action \in Mutations
                    /\ next.body = ApplyActions(req[r].original, req[r].decision.action)
                 \/ next.body = req[r].original /\ next.reply \in Answers
         ELSE next.body = req[r].original
  PROVE  RequestInvariant(r)'
<1>1. req[r].pc = "decided" /\ req[r].decision \in Decision
  BY DEF Conclude, Decided, At, TypeInvariant, DecisionMade
<1>2. /\ RequestInvariant(r) /\ req \in [Requests -> Handler] /\ req[r] \in Handler
      /\ req[r].record.Inline /\ req[r].reason = "none" /\ req[r].reply = "none"
      /\ shadow[r].pc = "off" /\ shadow[r].decision = NoDecision
      /\ received[r] = NoBody /\ traces[r] = << >>
  BY <1>1, Unmarked DEF TypeInvariant, TypeOK
<1>3. Enforced(r)' = Enforced(r) /\ Selected(r)' = Selected(r)
  BY SelectionKept DEF Conclude
<1>4. /\ req'[r].pc = next.pc /\ req'[r].body = next.body /\ req'[r].original = next.original
      /\ req'[r].reason = "none" /\ req'[r].reply = next.reply
      /\ req'[r].record.Inline
      /\ req'[r].record.ActionType = req[r].decision.action
      /\ req'[r].record.EnforceApplied = enforced
      /\ req'[r].record.Abstain = req[r].frame.abstain
  BY <1>2, ConcludeLeaves
<1>5. /\ Len(traces'[r]) = 1
      /\ traces'[r][1].action = req[r].decision.action /\ traces'[r][1].enforced = enforced
  BY <1>2, ConcludeLogs
<1>6. received' = received /\ shadow' = shadow
  BY DEF Conclude
<1>7. Carried(r)'
  BY <1>4, <1>5 DEF Carried
<1>8. Divided(r)'
  BY <1>2, <1>3, <1>4, <1>7 DEF RequestInvariant, Divided
<1>9. Untouched(r)' /\ Exchanged(r)' /\ Shadowed(r)'
  BY <1>2, <1>4, <1>6 DEF Untouched, Exchanged, Shadowed, Answers
<1> QED
  BY <1>8, <1>9 DEF RequestInvariant

\* The three ways to conclude, each with the handler it goes on as.
LEMMA ConclusionKnown ==
  ASSUME TypeInvariant, NEW r \in Requests, PassThrough(r) \/ Mutate(r) \/ ShortCircuit(r)
  PROVE  \E next \in Handler, enforced \in BOOLEAN :
            /\ Conclude(r, next, enforced)
            /\ next.pc \in {"shadow", "done"}
            /\ next.reason = req[r].reason /\ next.record = req[r].record
<1>1. req[r] \in Handler /\ req[r].original \in Body
  BY RequestAssumption DEF TypeInvariant, TypeOK, Handler
<1>2. ASSUME NEW body \in Body
      PROVE  LET next == [req[r] EXCEPT !.pc = "shadow", !.body = body]
             IN  /\ next \in Handler /\ next.pc = "shadow"
                 /\ next.reason = req[r].reason /\ next.record = req[r].record
  BY <1>1 DEF Handler
<1>3. CASE PassThrough(r)
  BY <1>1, <1>2, <1>3 DEF PassThrough
<1>4. CASE Mutate(r)
  BY <1>1, <1>2, <1>4, MutationType DEF Mutate
<1>5. CASE ShortCircuit(r)
  <2> DEFINE next == [req[r] EXCEPT !.pc = "done",
                         !.reply = Response(req[r].decision.action)]
  <2>1. Response(req[r].decision.action) \in Replies
    BY DEF Response, Replies
  <2>2. /\ next \in Handler /\ next.pc = "done"
        /\ next.reason = req[r].reason /\ next.record = req[r].record
    BY <1>1, <2>1 DEF Handler
  <2> QED
    BY <1>5, <2>2 DEF ShortCircuit
<1> QED
  BY <1>3, <1>4, <1>5

\* The steps of a handler that end its inline path, or refuse the request.
LEMMA EndsKeep ==
  ASSUME TypeInvariant, PathInvariant, NEW r \in Requests,
         \/ Refuse(r) \/ Bypass(r) \/ SignalFails(r) \/ PolicyFails(r)
         \/ PassThrough(r) \/ ApplyFails(r) \/ Mutate(r) \/ ShortCircuit(r)
  PROVE  RequestInvariant(r)'
<1>1. /\ req \in [Requests -> Handler] /\ req[r] \in Handler /\ req[r].original \in Body
  BY RequestAssumption DEF TypeInvariant, TypeOK, Handler
<1>2. CASE Refuse(r)
  <2>1. req'[r] = [[req[r] EXCEPT !.pc = "done"] EXCEPT !.reply = "refused"]
    BY <1>1, <1>2 DEF Refuse
  <2> QED
    BY <1>1, <1>2, <2>1, Unmarked, PlainEnd DEF Refuse, At, surroundings, Handler
<1>3. CASE Bypass(r)
  <2>1. req'[r] = [req[r] EXCEPT !.pc = "shadow"] /\ ~Selected(r)
    BY <1>1, <1>3 DEF Bypass, Selected
  <2> QED
    BY <1>1, <1>3, <2>1, Unmarked, PlainEnd DEF Bypass, At, Handler
<1>4. CASE SignalFails(r) \/ PolicyFails(r)
  BY <1>4, FailOpenKeeps DEF SignalFails, PolicyFails, At, FailOpenReasons
<1>5. CASE PassThrough(r)
  <2>1. [req[r] EXCEPT !.pc = "shadow", !.body = req[r].original] \in Handler
    BY <1>1 DEF Handler
  <2> QED
    BY <1>1, <1>5, <2>1, ConcludeKeeps DEF PassThrough, Handler
<1>6. CASE ApplyFails(r)
  <2>1. req'[r] = [[[req[r] EXCEPT !.pc = "shadow"] EXCEPT !.body = req[r].original]
                     EXCEPT !.reason = "enforce_error"]
    BY <1>1, <1>6 DEF ApplyFails
  <2> QED
    BY <1>1, <1>6, <2>1, Unmarked, PlainEnd DEF ApplyFails, Decided, At, Handler
<1>7. CASE Mutate(r)
  <2> DEFINE next == [req[r] EXCEPT !.pc = "shadow",
                         !.body = ApplyActions(req[r].original, req[r].decision.action)]
  <2>1. ApplyActions(req[r].original, req[r].decision.action) \in Body
    BY <1>1, <1>7, MutationType DEF Mutate
  <2>2. next \in Handler
    BY <1>1, <2>1 DEF Handler
  <2>3. /\ next.original = req[r].original /\ next.reason = req[r].reason
        /\ next.record = req[r].record /\ next.pc = "shadow" /\ next.reply = req[r].reply
        /\ next.body = ApplyActions(req[r].original, req[r].decision.action)
    BY <1>1 DEF Handler
  <2>4. ~req[r].frame.abstain
    BY <1>7, Unmarked DEF Mutate, Decided, At, PassedOver, Mutations
  <2>5. Conclude(r, next, TRUE) /\ req[r].decision.action \in Mutations
    BY <1>7 DEF Mutate
  <2> HIDE DEF next
  <2> QED
    BY <2>2, <2>3, <2>4, <2>5, ConcludeKeeps
<1>8. CASE ShortCircuit(r)
  <2> DEFINE next == [req[r] EXCEPT !.pc = "done", !.reply = Response(req[r].decision.action)]
  <2>1. Response(req[r].decision.action) \in Answers
    BY DEF Response, Answers
  <2>2. next \in Handler
    BY <1>1, <2>1 DEF Handler, Answers, Replies
  <2>3. /\ next.original = req[r].original /\ next.reason = req[r].reason
        /\ next.record = req[r].record /\ next.pc = "done" /\ next.reply \in Answers
        /\ next.body = req[r].body
    BY <1>1, <2>1 DEF Handler
  <2>4. ~req[r].frame.abstain /\ req[r].body = req[r].original
    BY <1>8, Unmarked DEF ShortCircuit, Decided, At, PassedOver, ShortCircuits
  <2>5. Conclude(r, next, TRUE)
    BY <1>8 DEF ShortCircuit
  <2> HIDE DEF next
  <2> QED
    BY <2>2, <2>3, <2>4, <2>5, ConcludeKeeps
<1> QED
  BY <1>2, <1>3, <1>4, <1>5, <1>6, <1>7, <1>8

\* What has been settled on the inline path stays so until the request has ended.
LEMMA SettledStep ==
  ASSUME TypeInvariant, PathInvariant, NEW r \in Requests, deployed' = deployed,
         req[r].pc \in {"shadow", "upstream", "sent"},
         req'[r].pc \in {"upstream", "sent", "done"},
         req'[r].body = req[r].body /\ req'[r].original = req[r].original,
         req'[r].reason = req[r].reason /\ req'[r].record = req[r].record,
         req'[r].decision = req[r].decision,
         req'[r].reply \notin Answers,
         traces' = traces
  PROVE  Untouched(r)' /\ Divided(r)' /\ req[r].reply = "none"
<1>1. RequestInvariant(r) /\ Selected(r)' = Selected(r)
  BY SelectionKept DEF PathInvariant
<1>2. req[r].reply = "none"
  BY <1>1 DEF RequestInvariant, Exchanged
<1>3. Untouched(r)'
  BY DEF Untouched
<1>4. req[r].record.Inline => FailedOpen(r)' \/ Unapplied(r)' \/ Carried(r)'
  BY <1>1, <1>2 DEF RequestInvariant, Divided, FailedOpen, Unapplied, Carried, Answers
<1>5. Divided(r)'
  BY <1>1, <1>4 DEF RequestInvariant, Divided
<1> QED
  BY <1>2, <1>3, <1>5

\* The steps of a handler after its inline path.
LEMMA ForwardingKeeps ==
  ASSUME TypeInvariant, PathInvariant, NEW r \in Requests,
         PassShadow(r) \/ UpstreamReceives(r) \/ UpstreamAnswers(r) \/ UpstreamFails(r)
  PROVE  RequestInvariant(r)'
<1>1. /\ req \in [Requests -> Handler] /\ req[r] \in Handler /\ RequestInvariant(r)
      /\ shadow \in [Requests -> Goroutine] /\ received \in [Requests -> Body \cup {NoBody}]
  BY DEF TypeInvariant, TypeOK, PathInvariant
<1>2. CASE PassShadow(r)
  <2>1. /\ req[r].pc = "shadow" /\ req'[r] = [req[r] EXCEPT !.pc = "upstream"]
        /\ deployed' = deployed /\ traces' = traces /\ received' = received
    BY <1>1, <1>2 DEF PassShadow, At
  <2>2. Untouched(r)' /\ Divided(r)' /\ req[r].reply = "none"
    BY <1>1, <2>1, SettledStep DEF Handler, RequestInvariant, Exchanged, Answers
  <2>3. Exchanged(r)'
    BY <1>1, <2>1, <2>2 DEF Handler, RequestInvariant, Exchanged, Answers
  <2>4. ShouldRunShadowAsync(deployed.env, cfg, Bucket[r]) <=> ~Enforced(r)
    <3>1. deployed.env \in Environment /\ deployed.file \in File /\ Bucket[r] \in Buckets
      BY RequestAssumption DEF TypeInvariant, TypeOK, Deployment
    <3>2. cfg \in Config
      BY <3>1, LoadedConfig DEF cfg, PathInvariant
    <3> QED
      BY <3>1, <3>2, SelectedOnce DEF Enforced
  <2>5. shadow[r].pc = "off"
    BY <1>1, <2>1 DEF RequestInvariant, Shadowed
  <2>6. IF Enforced(r) THEN shadow' = shadow ELSE shadow' = [shadow EXCEPT ![r].pc = "signal"]
    BY <1>2, <2>4 DEF PassShadow
  <2>7. /\ Enforced(r) => shadow'[r].pc = "off"
        /\ ~Enforced(r) => shadow'[r].pc = "signal"
        /\ shadow'[r].decision = shadow[r].decision
    BY <1>1, <2>5, <2>6 DEF Goroutine
  <2>8. /\ shadow[r].decision = NoDecision
        /\ ~req[r].record.Inline => traces[r] = << >>
    BY <1>1, <2>5 DEF RequestInvariant, Shadowed
  <2>9. req'[r].pc = "upstream" /\ req'[r].record = req[r].record /\ Enforced(r)' = Enforced(r)
    BY <1>1, <2>1, SelectionKept DEF Handler
  <2>10. Shadowed(r)'
    BY <2>1, <2>7, <2>8, <2>9 DEF Shadowed
  <2> QED
    BY <2>2, <2>3, <2>10 DEF RequestInvariant
<1>3. CASE UpstreamReceives(r)
  <2>1. /\ req[r].pc = "upstream" /\ req'[r] = [req[r] EXCEPT !.pc = "sent"]
        /\ deployed' = deployed /\ traces' = traces /\ received'[r] = req[r].body
        /\ shadow' = shadow
    BY <1>1, <1>3 DEF UpstreamReceives, At
  <2>2. Untouched(r)' /\ Divided(r)' /\ req[r].reply = "none"
    BY <1>1, <2>1, SettledStep DEF Handler, RequestInvariant, Exchanged, Answers
  <2>3. Exchanged(r)'
    BY <1>1, <2>1, <2>2 DEF Handler, Exchanged, Answers
  <2>4. Shadowed(r)'
    BY <1>1, <2>1, SelectionKept DEF Handler, RequestInvariant, Shadowed
  <2> QED
    BY <2>2, <2>3, <2>4 DEF RequestInvariant
<1>4. CASE UpstreamAnswers(r) \/ UpstreamFails(r)
  <2>1. PICK reply \in {"upstream", "502"} :
            /\ req'[r] = [[req[r] EXCEPT !.pc = "done"] EXCEPT !.reply = reply]
            /\ reply = "upstream" => req[r].pc = "sent"
    BY <1>1, <1>4 DEF UpstreamAnswers, UpstreamFails, At
  <2>2. /\ req[r].pc \in {"upstream", "sent"}
        /\ deployed' = deployed /\ traces' = traces /\ received' = received
        /\ shadow' = shadow
    BY <1>4 DEF UpstreamAnswers, UpstreamFails, At, surroundings
  <2>3. Untouched(r)' /\ Divided(r)' /\ req[r].reply = "none"
    BY <1>1, <2>1, <2>2, SettledStep DEF Handler, Answers
  <2>4. Exchanged(r)'
    BY <1>1, <2>1, <2>2, <2>3 DEF Handler, RequestInvariant, Exchanged, Answers
  <2>5. Shadowed(r)'
    BY <1>1, <2>1, <2>2, SelectionKept DEF Handler, RequestInvariant, Shadowed
  <2> QED
    BY <2>3, <2>4, <2>5 DEF RequestInvariant
<1> QED
  BY <1>2, <1>3, <1>4

\* The steps of a shadow goroutine, of which the handler of its request sees nothing.
LEMMA ShadowKeeps ==
  ASSUME TypeInvariant, PathInvariant, NEW r \in Requests, Analyse(r)
  PROVE  RequestInvariant(r)'
<1>1. /\ RequestInvariant(r) /\ shadow \in [Requests -> Goroutine] /\ shadow[r] \in Goroutine
      /\ shadow[r].pc # "off" /\ ~Enforced(r)
      /\ req' = req /\ deployed' = deployed /\ received' = received
  BY DEF Analyse, ShadowSignalAnswers, ShadowSignalFails, ShadowSignalPanics, ShadowEvaluates,
         ShadowPolicyPanics, ShadowTraces, ShadowAt,
         TypeInvariant, TypeOK, PathInvariant, RequestInvariant, Shadowed
<1>2. ~req[r].record.Inline /\ req[r].pc \in {"upstream", "sent", "done"}
  BY <1>1 DEF RequestInvariant, Divided, Shadowed, Selected
<1>3. Untouched(r)' /\ Divided(r)' /\ Exchanged(r)'
  BY <1>1, <1>2, SelectionKept DEF RequestInvariant, Untouched, Divided, Exchanged
<1> SUFFICES Shadowed(r)'
  BY <1>3 DEF RequestInvariant
<1>4. ASSUME shadow[r].pc # "done", traces' = traces, shadow'[r].pc # "off",
             shadow'[r].pc \in {"signal", "policy"} => shadow'[r].decision = NoDecision,
             shadow'[r].pc = "done" => shadow'[r].decision = NoDecision
      PROVE  Shadowed(r)'
  BY <1>1, <1>2, <1>4, SelectionKept DEF RequestInvariant, Shadowed
<1>5. ASSUME NEW frame \in Frame, ShadowSignalAnswers(r, frame)
      PROVE  Shadowed(r)'
  <2>1. shadow'[r] = [[shadow[r] EXCEPT !.pc = "policy"] EXCEPT !.frame = frame]
    BY <1>1, <1>5 DEF ShadowSignalAnswers
  <2> QED
    BY <1>1, <1>4, <1>5, <2>1
       DEF ShadowSignalAnswers, ShadowAt, Goroutine, RequestInvariant, Shadowed
<1>6. CASE ShadowSignalFails(r) \/ ShadowSignalPanics(r)
  <2>1. PICK pc \in {"done", "panicked"} : shadow'[r] = [shadow[r] EXCEPT !.pc = pc]
    BY <1>1, <1>6 DEF ShadowSignalFails, ShadowSignalPanics
  <2> QED
    BY <1>1, <1>4, <1>6, <2>1
       DEF ShadowSignalFails, ShadowSignalPanics, ShadowAt, Goroutine, RequestInvariant, Shadowed
<1>7. CASE ShadowEvaluates(r) \/ ShadowPolicyPanics(r)
  <2>1. shadow'[r].pc \in {"decided", "panicked"}
    BY <1>1, <1>7 DEF ShadowEvaluates, ShadowPolicyPanics, Goroutine
  <2> QED
    BY <1>4, <1>7, <2>1 DEF ShadowEvaluates, ShadowPolicyPanics, ShadowAt
<1>8. CASE ShadowTraces(r)
  <2>1. shadow[r].decision.action \in Actions /\ shadow[r].decision.state \in StabilityState
    BY <1>8 DEF ShadowTraces, ShadowAt, TypeInvariant, DecisionMade, Decision
  <2>2. traces'[r] = Append(traces[r], [tenant |-> TenantOf[r],
             action |-> shadow[r].decision.action, state |-> shadow[r].decision.state,
             enforced |-> FALSE])
    BY <1>8, <2>1, LogTraceType DEF ShadowTraces, TypeInvariant
  <2>3. traces[r] = << >>
    BY <1>1, <1>2, <1>8 DEF ShadowTraces, ShadowAt, RequestInvariant, Shadowed
  <2>4. shadow'[r].pc = "done"
    BY <1>1, <1>8 DEF ShadowTraces, Goroutine
  <2>5. Len(traces'[r]) = 1 /\ \A i \in 1..Len(traces'[r]) : ~traces'[r][i].enforced
    BY <2>2, <2>3
  <2> QED
    BY <1>1, <1>2, <2>4, <2>5, SelectionKept DEF RequestInvariant, Shadowed
<1> QED
  BY <1>5, <1>6, <1>7, <1>8 DEF Analyse

LEMMA PathInvariantHolds == Spec => []PathInvariant
<1>1. Init => PathInvariant
  <2> SUFFICES ASSUME Init, NEW r \in Requests
               PROVE  Loads(deployed.env, deployed.file) /\ RequestInvariant(r)
    BY DEF PathInvariant, Init
  <2>1. PICK body \in Bodies : req[r] = NewHandler(body)
    BY DEF Init
  <2>2. traces[r] = << >> /\ received[r] = NoBody /\ shadow[r] = NoGoroutine
    BY DEF Init
  <2>3. Loads(deployed.env, deployed.file)
    BY DEF Init
  <2> QED
    BY <2>1, <2>2, <2>3
       DEF NewHandler, NoRecord, NoGoroutine, RequestInvariant, Untouched, PassedOver, Divided,
           Exchanged, Shadowed, Answers
<1>2. TypeInvariant /\ PathInvariant /\ [Next]_vars => PathInvariant'
  <2> SUFFICES ASSUME TypeInvariant, PathInvariant, [Next]_vars
               PROVE  PathInvariant'
    OBVIOUS
  <2>1. CASE Next
    <3>1. PICK r \in Requests :
              \/ Refuse(r) \/ Admit(r) \/ Proceed(r) \/ BudgetExpires(r) \/ SignalFails(r)
              \/ \E frame \in Frame : SignalAnswers(r, frame)
              \/ UpstreamReceives(r) \/ UpstreamAnswers(r) \/ UpstreamFails(r)
              \/ Analyse(r)
      BY <2>1 DEF Next
    <3>2. Steps(r)
      BY <3>1, HandlerActions, UpstreamActions, GoroutineActions
    <3>3. RequestInvariant(r)'
      BY <3>1, BeginningsKeep, EndsKeep, ForwardingKeeps, ShadowKeeps DEF Proceed
    <3> QED
      BY <3>2, <3>3, OthersKeep
  <2>2. CASE UNCHANGED vars
    BY <2>2 DEF vars, PathInvariant, RequestInvariant, Untouched, PassedOver, Divided,
                FailedOpen, Unapplied, Carried, Exchanged, Shadowed, Selected, Enforced, cfg
  <2> QED
    BY <2>1, <2>2
<1> QED
  BY <1>1, <1>2, TypeInvariantHolds, PTL DEF Spec

-----------------------------------------------------------------------------
(***************************************************************************)
(* The properties of a request                                             *)
(***************************************************************************)

LEMMA RequestInvariantHolds ==
  ASSUME TypeInvariant, PathInvariant, NEW r \in Requests
  PROVE  /\ Untouched(r) /\ Divided(r) /\ Exchanged(r) /\ Shadowed(r)
         /\ req[r] \in Handler /\ req[r].original \in Body
         /\ req[r].pc \in {"new", "governance", "signal", "policy", "decided"}
              \/ req[r].pc \in {"shadow", "upstream", "sent", "done"}
         /\ req[r].record.EnforceApplied \in BOOLEAN
BY RequestAssumption DEF PathInvariant, RequestInvariant, TypeInvariant, TypeOK, Handler

\* A request is changed only by an action that was carried out inline.
LEMMA IntervenedInline ==
  ASSUME TypeInvariant, PathInvariant, NEW r \in Requests, Intervened(r)
  PROVE  req[r].record.Inline /\ req[r].record.EnforceApplied /\ Carried(r)
<1>1. /\ Untouched(r) /\ Divided(r) /\ Exchanged(r)
      /\ \/ req[r].pc \in {"new", "governance", "signal", "policy", "decided"}
         \/ req[r].pc \in {"shadow", "upstream", "sent", "done"}
  BY RequestInvariantHolds
<1>2. req[r].body # req[r].original \/ req[r].record.EnforceApplied
  BY <1>1 DEF Intervened, Exchanged, Answers
<1>3. req[r].record.Inline /\ req[r].pc \in {"shadow", "upstream", "sent", "done"}
  BY <1>1, <1>2 DEF Untouched, Divided
<1>4. FailedOpen(r) \/ Unapplied(r) \/ Carried(r)
  BY <1>1, <1>3 DEF Divided
<1> QED
  BY <1>2, <1>3, <1>4 DEF FailedOpen, Unapplied, Carried

\* A request on which governance failed, at any of its steps, or abstained reaches the
\* upstream as it came or not at all, and is not answered in its place.
THEOREM FailsOpen == Spec => []FailOpenUnchanged
<1>1. TypeInvariant /\ PathInvariant => FailOpenUnchanged
  <2> SUFFICES ASSUME TypeInvariant, PathInvariant, NEW r \in Requests, Intervened(r)
               PROVE  req[r].reason = "none" /\ ~req[r].record.Abstain
    BY DEF FailOpenUnchanged
  <2> QED
    BY IntervenedInline DEF Carried
<1> QED
  BY <1>1, TypeInvariantHolds, PathInvariantHolds, PTL

\* Only what the rollout selects is changed, for every setting of environment and file
\* and whatever concurrent requests do to the conversation.
THEOREM InterventionIsSelected == Spec => []OnlySelectedIntervened
<1>1. TypeInvariant /\ PathInvariant => OnlySelectedIntervened
  <2> SUFFICES ASSUME TypeInvariant, PathInvariant, NEW r \in Requests, Intervened(r)
               PROVE  /\ deployed.env.kill # "true"
                      /\ \/ cfg.mode = "enforce"
                         \/ cfg.mode = "canary" /\ Bucket[r] < cfg.canaryPct
    BY DEF OnlySelectedIntervened
  <2>1. Enforced(r)
    BY IntervenedInline, RequestInvariantHolds DEF Divided, Selected
  <2>2. deployed.env \in Environment /\ deployed.file \in File /\ Bucket[r] \in Buckets
    BY RequestAssumption DEF TypeInvariant, TypeOK, Deployment
  <2>3. cfg \in Config
    BY <2>2, LoadedConfig DEF cfg, PathInvariant
  <2>4. deployed.env.kill # "true"
    BY <2>1, <2>2, NothingEnforced DEF Enforced, cfg
  <2>5. WouldEnforceWithoutKillSwitch(cfg, Bucket[r])
    BY <2>1 DEF Enforced, ShouldEnforce
  <2>6. cfg.canaryPct \in Int /\ Bucket[r] \in 0..99
    BY <2>2, <2>3 DEF Config, Buckets
  <2> QED
    BY <2>4, <2>5, <2>6 DEF WouldEnforceWithoutKillSwitch, InCanaryCohort
<1> QED
  BY <1>1, TypeInvariantHolds, PathInvariantHolds, PTL

\* What the proxy answers itself is not forwarded as well.
THEOREM AnsweredOnce == Spec => []ShortCircuitNotForwarded
<1>1. TypeInvariant /\ PathInvariant => ShortCircuitNotForwarded
  BY RequestInvariantHolds DEF ShortCircuitNotForwarded, Exchanged, Answers
<1> QED
  BY <1>1, TypeInvariantHolds, PathInvariantHolds, PTL

\* A request is analysed on one path, whatever its bucket and the settings are.
THEOREM OnePath == Spec => []GovernedOnce
<1>1. TypeInvariant /\ PathInvariant => GovernedOnce
  BY RequestInvariantHolds DEF GovernedOnce, Divided, Shadowed, Selected
<1> QED
  BY <1>1, TypeInvariantHolds, PathInvariantHolds, PTL

\* The log of r says that its action was applied.
LoggedEnforced(r) == \E i \in 1..Len(traces[r]) : traces[r][i].enforced

\* What a request leaves in the log follows from the way its path ended.
LEMMA LogFollows ==
  ASSUME TypeInvariant, PathInvariant, NEW r \in Requests
  PROVE  /\ Len(traces[r]) <= 1
         /\ LoggedEnforced(r) <=> req[r].record.EnforceApplied
         /\ req[r].record.ActionType # "none" => traces[r][1].action = req[r].record.ActionType
<1>1. /\ Untouched(r) /\ Divided(r) /\ Shadowed(r)
      /\ \/ req[r].pc \in {"new", "governance", "signal", "policy", "decided"}
         \/ req[r].pc \in {"shadow", "upstream", "sent", "done"}
  BY RequestInvariantHolds
<1>2. CASE ~req[r].record.Inline
  BY <1>1, <1>2 DEF Divided, Shadowed, LoggedEnforced
<1>3. CASE req[r].record.Inline /\ req[r].pc \in {"new", "governance", "signal", "policy", "decided"}
  BY <1>1, <1>3 DEF Untouched, LoggedEnforced
<1>4. CASE FailedOpen(r)
  <2>1. Len(traces[r]) = 1 /\ ~traces[r][1].enforced
    BY <1>4 DEF FailedOpen
  <2>2. ~LoggedEnforced(r)
    BY <2>1 DEF LoggedEnforced
  <2> QED
    BY <1>4, <2>1, <2>2 DEF FailedOpen
<1>5. CASE Unapplied(r)
  BY <1>5 DEF Unapplied, LoggedEnforced
<1>6. CASE Carried(r)
  <2>1. Len(traces[r]) = 1 /\ traces[r][1].enforced = req[r].record.EnforceApplied
    BY <1>6 DEF Carried
  <2>2. LoggedEnforced(r) <=> traces[r][1].enforced
    BY <2>1 DEF LoggedEnforced
  <2> QED
    BY <1>6, <2>1, <2>2 DEF Carried
<1> QED
  BY <1>1, <1>2, <1>3, <1>4, <1>5, <1>6 DEF Divided

\* Trace, span and traffic tell the same story of every request.
THEOREM TracesAreTrue == Spec => []TraceTellsTruth
<1>1. ASSUME TypeInvariant, PathInvariant, NEW r \in Requests,
             LoggedEnforced(r), req[r].reply = "upstream"
      PROVE  received[r] # req[r].original
  <2>1. /\ req[r].record.EnforceApplied /\ Untouched(r) /\ Divided(r) /\ Exchanged(r)
        /\ req[r].original \in Body
        /\ \/ req[r].pc \in {"new", "governance", "signal", "policy", "decided"}
           \/ req[r].pc \in {"shadow", "upstream", "sent", "done"}
    BY <1>1, LogFollows, RequestInvariantHolds
  <2>2. req[r].record.Inline /\ req[r].pc \in {"shadow", "upstream", "sent", "done"}
    BY <2>1 DEF Untouched, Divided
  <2>3. Carried(r)
    BY <2>1, <2>2 DEF Divided, FailedOpen, Unapplied
  <2>4. /\ received[r] = req[r].body /\ req[r].record.ActionType \in Mutations
        /\ req[r].body = ApplyActions(req[r].original, req[r].record.ActionType)
    BY <1>1, <2>1, <2>3 DEF Exchanged, Carried, Answers
  <2>5. received[r].system = req[r].original.system + 1 /\ req[r].original.system \in Nat
    BY <2>1, <2>4, MutationType DEF Body
  <2> QED
    BY <2>5
<1>2. TypeInvariant /\ PathInvariant => TraceTellsTruth
  <2> SUFFICES ASSUME TypeInvariant, PathInvariant
               PROVE  TraceTellsTruth
    OBVIOUS
  <2>1. ASSUME NEW r \in Requests
        PROVE  /\ Len(traces[r]) <= 1
               /\ LoggedEnforced(r) = req[r].record.EnforceApplied
               /\ req[r].record.ActionType # "none"
                    => traces[r][1].action = req[r].record.ActionType
               /\ Intervened(r) => LoggedEnforced(r)
               /\ LoggedEnforced(r) /\ req[r].reply = "upstream"
                    => received[r] # req[r].original
    <3>1. LoggedEnforced(r) = req[r].record.EnforceApplied
      <4>1. LoggedEnforced(r) \in BOOLEAN
        BY DEF LoggedEnforced
      <4>2. req[r].record.EnforceApplied \in BOOLEAN
        BY RequestInvariantHolds
      <4>3. LoggedEnforced(r) <=> req[r].record.EnforceApplied
        BY LogFollows
      <4> QED
        BY <4>1, <4>2, <4>3
    <3> QED
      BY <1>1, <3>1, LogFollows, IntervenedInline
  <2> QED
    BY <2>1 DEF TraceTellsTruth, SpanAttrs, LoggedEnforced
<1> QED
  BY <1>2, TypeInvariantHolds, PathInvariantHolds, PTL

\* No evaluation of a finished request goes unlogged, save one that could not be applied.
THEOREM EvaluationsAreTraced == Spec => []EvaluationTraced
<1>1. TypeInvariant /\ PathInvariant => EvaluationTraced
  <2> SUFFICES ASSUME TypeInvariant, PathInvariant, NEW r \in Requests
               PROVE  /\ req[r].pc = "done" /\ req[r].decision # NoDecision
                           /\ req[r].reason # "enforce_error"
                         => Len(traces[r]) = 1
                      /\ shadow[r].pc = "done" /\ shadow[r].decision # NoDecision
                           => Len(traces[r]) = 1
    BY DEF EvaluationTraced
  <2>1. Divided(r) /\ Shadowed(r)
    BY RequestInvariantHolds
  <2>2. ASSUME req[r].pc = "done", req[r].decision # NoDecision, req[r].reason # "enforce_error"
        PROVE  Len(traces[r]) = 1
    <3>1. FailedOpen(r) \/ Unapplied(r) \/ Carried(r)
      BY <2>1, <2>2 DEF Divided
    <3> QED
      BY <2>2, <3>1 DEF FailedOpen, Unapplied, Carried
  <2>3. ASSUME shadow[r].pc = "done", shadow[r].decision # NoDecision
        PROVE  Len(traces[r]) = 1
    <3>1. ~req[r].record.Inline
      BY <2>1, <2>3 DEF Shadowed, Divided, Selected
    <3> QED
      BY <2>1, <2>3, <3>1 DEF Shadowed
  <2> QED
    BY <2>2, <2>3
<1> QED
  BY <1>1, TypeInvariantHolds, PathInvariantHolds, PTL

\* A rewritten body differs from the original as its trace says, for every body and every
\* detail of the dampening rules, and asks for no more tokens than it did, unless it asked
\* for less than the dampening allows.
THEOREM RewritesAreAccounted == Spec => []RewriteAccounted
<1>1. TypeInvariant /\ PathInvariant => RewriteAccounted
  <2> SUFFICES ASSUME TypeInvariant, PathInvariant, NEW r \in Requests,
                      received[r] \notin {NoBody, req[r].original}
               PROVE  /\ received[r].stream = req[r].original.stream
                      /\ received[r].system = req[r].original.system + 1
                      /\ Clamped(r) \/ AsksForLess(req[r].original)
                      /\ received[r].maxTokens # req[r].original.maxTokens
                           => /\ traces[r][1].action = "DAMPEN_VERBOSITY"
                              /\ received[r].maxTokens = parseMaxTokens(Detail)
    BY DEF RewriteAccounted
  <2>1. Carried(r) /\ req[r].record.EnforceApplied
    BY IntervenedInline DEF Intervened
  <2>2. received[r] = req[r].body /\ req[r].reply \notin Answers /\ req[r].original \in Body
    BY RequestInvariantHolds DEF Exchanged
  <2>3. /\ traces[r][1].action \in Mutations
        /\ received[r] = ApplyActions(req[r].original, traces[r][1].action)
    BY <2>1, <2>2 DEF Carried
  <2>4. /\ received[r].stream = req[r].original.stream
        /\ received[r].system = req[r].original.system + 1
        /\ \/ received[r].maxTokens = req[r].original.maxTokens
           \/ /\ traces[r][1].action = "DAMPEN_VERBOSITY"
              /\ received[r].maxTokens = parseMaxTokens(Detail)
    BY <2>2, <2>3, MutationType
  <2>5. Clamped(r) \/ AsksForLess(req[r].original)
    <3>1. req[r].original.maxTokens \in Int \cup {NoLimit} /\ parseMaxTokens(Detail) \in Int
      BY <2>2, LimitType DEF Body
    <3> QED
      BY <2>4, <3>1 DEF Clamped, AsksForLess
  <2> QED
    BY <2>4, <2>5
<1> QED
  BY <1>1, TypeInvariantHolds, PathInvariantHolds, PTL

-----------------------------------------------------------------------------
(***************************************************************************)
(* The use of the policy engine                                             *)
(***************************************************************************)

\* The engine's evaluation function is this module's.
LEMMA SameEvaluation ==
  ASSUME NEW frame, NEW s, NEW m, NEW c
  PROVE  /\ Engine!EvaluatePure(frame, s) = EvaluatePure(frame, s)
         /\ Engine!Lookup(m, c) = Lookup(m, c)
         /\ Engine!Put(m, c, s) = Put(m, c, s)
         /\ Engine!Frame = Frame
BY DEF EvaluatePure, selectRule, Governed, transitionFSM, FromNormal, FromActive,
       FromCooldown, FirstOf, Meeting, isFSMActive, hasSignal, NoRule, Lookup, Put,
       Frame, defaultState,
       Engine!EvaluatePure, Engine!selectRule, Engine!Governed, Engine!transitionFSM,
       Engine!FromNormal, Engine!FromActive, Engine!FromCooldown, Engine!FirstOf,
       Engine!Meeting, Engine!isFSMActive, Engine!hasSignal, Engine!NoRule,
       Engine!Lookup, Engine!Put, Engine!Frame, Engine!defaultState

\* A request that is evaluating nothing, and had no unrecovered panic.
LEMMA IdleRequest ==
  ASSUME NEW r, NEW handler, NEW goroutine,
         handler.pc \notin {"policy", "decided"},
         goroutine.pc \notin {"policy", "decided"}, goroutine.decision # Failed
  PROVE  CallOf(r, handler, goroutine) = NoCall /\ ResultOf(handler, goroutine) = NoDecision
BY DEF CallOf, ResultOf

\* A call is that of the handler, or else that of the goroutine.
LEMMA HandlerCalls ==
  ASSUME NEW r, NEW handler, NEW goroutine, handler.pc \in {"policy", "decided"}
  PROVE  /\ CallOf(r, handler, goroutine)
              = [conversation |-> ConversationOf[r], frame |-> handler.frame]
         /\ handler.pc = "decided" => ResultOf(handler, goroutine) = handler.decision
         /\ handler.pc = "policy" /\ goroutine.pc # "decided" /\ goroutine.decision # Failed
              => ResultOf(handler, goroutine) = NoDecision
BY DEF CallOf, ResultOf

LEMMA GoroutineCalls ==
  ASSUME NEW r, NEW handler, NEW goroutine, handler.pc \notin {"policy", "decided"},
         goroutine.pc \in {"policy", "decided"} \/ goroutine.decision = Failed
  PROVE  /\ CallOf(r, handler, goroutine)
              = [conversation |-> ConversationOf[r], frame |-> goroutine.frame]
         /\ goroutine.pc = "decided" \/ goroutine.decision = Failed
              => ResultOf(handler, goroutine) = goroutine.decision
         /\ goroutine.pc = "policy" /\ goroutine.decision # Failed
              => ResultOf(handler, goroutine) = NoDecision
BY DEF CallOf, ResultOf

\* A step of one request changes at most its own call and result.
LEMMA OneCallSteps ==
  ASSUME NEW r \in Requests, Steps(r)
  PROVE  /\ calls[r] = CallOf(r, req[r], shadow[r])
         /\ results[r] = ResultOf(req[r], shadow[r])
         /\ calls' = [calls EXCEPT ![r] = CallOf(r, req'[r], shadow'[r])]
         /\ results' = [results EXCEPT ![r] = ResultOf(req'[r], shadow'[r])]
<1>1. \A other \in Requests \ {r} : req'[other] = req[other] /\ shadow'[other] = shadow[other]
  BY DEF Steps
<1> QED
  BY <1>1 DEF calls, results

LEMMA StutterStep ==
  ASSUME NEW r \in Requests, Steps(r), data' = data,
         CallOf(r, req'[r], shadow'[r]) = CallOf(r, req[r], shadow[r]),
         ResultOf(req'[r], shadow'[r]) = ResultOf(req[r], shadow[r])
  PROVE  UNCHANGED Engine!vars
<1>1. calls' = calls /\ results' = results
  BY OneCallSteps DEF calls, results
<1> QED
  BY <1>1 DEF Engine!vars

LEMMA BeginStep ==
  ASSUME NEW r \in Requests, Steps(r), data' = data, NEW frame \in Frame,
         CallOf(r, req[r], shadow[r]) = NoCall,
         CallOf(r, req'[r], shadow'[r]) = [conversation |-> ConversationOf[r], frame |-> frame],
         ResultOf(req'[r], shadow'[r]) = ResultOf(req[r], shadow[r])
  PROVE  Engine!Next
<1>1. results' = results
  BY OneCallSteps DEF results
<1>2. Engine!Begin(r, ConversationOf[r], frame)
  BY <1>1, OneCallSteps DEF Engine!Begin
<1>3. ConversationOf[r] \in Conversations /\ frame \in Engine!Frame
  BY RequestAssumption, SameEvaluation
<1> QED
  BY <1>2, <1>3 DEF Engine!Next

LEMMA EvaluateStep ==
  ASSUME NEW r \in Requests, Steps(r), NEW frame \in Frame,
         CallOf(r, req[r], shadow[r]) = [conversation |-> ConversationOf[r], frame |-> frame],
         CallOf(r, req'[r], shadow'[r]) = CallOf(r, req[r], shadow[r]),
         ResultOf(req[r], shadow[r]) = NoDecision,
         ResultOf(req'[r], shadow'[r])
           = EvaluatePure(frame, Lookup(data, ConversationOf[r])).decision,
         data' = Put(data, ConversationOf[r],
                     EvaluatePure(frame, Lookup(data, ConversationOf[r])).next)
  PROVE  Engine!Next
<1>1. calls' = calls
  BY OneCallSteps DEF calls
<1>2. calls[r].conversation = ConversationOf[r] /\ calls[r].frame = frame /\ calls[r] # NoCall
  BY OneCallSteps, RequestAssumption, SentinelAssumption
<1>3. Engine!Outcome(r) = EvaluatePure(frame, Lookup(data, ConversationOf[r]))
  BY <1>2, SameEvaluation DEF Engine!Outcome
<1>4. Engine!Evaluate(r)
  BY <1>1, <1>2, <1>3, OneCallSteps, SameEvaluation DEF Engine!Evaluate
<1> QED
  BY <1>4 DEF Engine!Next

LEMMA FailStep ==
  ASSUME NEW r \in Requests, Steps(r), data' = data, NEW frame \in Frame,
         CallOf(r, req[r], shadow[r]) = [conversation |-> ConversationOf[r], frame |-> frame],
         CallOf(r, req'[r], shadow'[r]) = CallOf(r, req[r], shadow[r]),
         ResultOf(req[r], shadow[r]) = NoDecision,
         ResultOf(req'[r], shadow'[r]) = Failed
  PROVE  Engine!Next
<1>1. calls' = calls
  BY OneCallSteps DEF calls
<1>2. calls[r] # NoCall
  BY OneCallSteps, RequestAssumption, SentinelAssumption
<1>3. Engine!Fail(r)
  BY <1>1, <1>2, OneCallSteps DEF Engine!Fail
<1> QED
  BY <1>3 DEF Engine!Next

LEMMA ReturnStep ==
  ASSUME NEW r \in Requests, Steps(r), data' = data,
         ResultOf(req[r], shadow[r]) # NoDecision,
         CallOf(r, req'[r], shadow'[r]) = NoCall,
         ResultOf(req'[r], shadow'[r]) = NoDecision
  PROVE  Engine!Next
<1>1. Engine!Return(r)
  BY OneCallSteps DEF Engine!Return
<1> QED
  BY <1>1 DEF Engine!Next

\* Before the upstream is called there is no goroutine, and a handler that is not
\* evaluating has no call.
LEMMA BeforeUpstream ==
  ASSUME PathInvariant, NEW r \in Requests, req[r].pc \notin {"upstream", "sent", "done"}
  PROVE  /\ shadow[r].pc = "off" /\ shadow[r].decision = NoDecision
         /\ req[r].pc \notin {"policy", "decided"} =>
               /\ CallOf(r, req[r], shadow[r]) = NoCall
               /\ ResultOf(req[r], shadow[r]) = NoDecision
<1>1. shadow[r].pc = "off" /\ shadow[r].decision = NoDecision
  BY DEF PathInvariant, RequestInvariant, Shadowed
<1> QED
  BY <1>1, IdleRequest, SentinelAssumption

\* The handler's steps that do not touch an evaluation.
LEMMA HandlerStutters ==
  ASSUME TypeInvariant, PathInvariant, NEW r \in Requests, Steps(r),
         \/ Refuse(r) \/ Admit(r) \/ Bypass(r) \/ StartInline(r) \/ BudgetExpires(r)
         \/ SignalFails(r) \/ PassShadow(r)
         \/ UpstreamReceives(r) \/ UpstreamAnswers(r) \/ UpstreamFails(r)
  PROVE  UNCHANGED Engine!vars
<1>1. /\ req \in [Requests -> Handler] /\ req[r] \in Handler
      /\ shadow \in [Requests -> Goroutine] /\ shadow[r] \in Goroutine
  BY DEF TypeInvariant, TypeOK
<1>2. CASE \/ Refuse(r) \/ Admit(r) \/ Bypass(r) \/ StartInline(r) \/ SignalFails(r)
           \/ PassShadow(r)
  <2>1. req[r].pc \in {"new", "governance", "signal", "shadow"} /\ data' = data
    BY <1>2 DEF Refuse, Admit, Bypass, StartInline, SignalFails, FailOpen, PassShadow, At,
                surroundings
  <2>2. req'[r].pc \in {"done", "governance", "shadow", "signal", "upstream"}
    BY <1>1, <1>2 DEF Refuse, Admit, Bypass, StartInline, SignalFails, FailOpen, PassShadow,
                      Handler
  <2>3. shadow'[r].pc \in {"off", "signal"} /\ shadow'[r].decision = NoDecision
    <3>1. shadow[r].pc = "off" /\ shadow[r].decision = NoDecision
      BY <2>1, BeforeUpstream
    <3> QED
      BY <1>1, <1>2, <3>1 DEF Refuse, Admit, Bypass, StartInline, SignalFails, FailOpen,
                              PassShadow, surroundings, Goroutine
  <2>4. /\ CallOf(r, req'[r], shadow'[r]) = NoCall
        /\ ResultOf(req'[r], shadow'[r]) = NoDecision
    BY <2>2, <2>3, IdleRequest, SentinelAssumption
  <2> QED
    BY <2>1, <2>4, BeforeUpstream, StutterStep
<1>3. CASE BudgetExpires(r)
  <2>1. req'[r] = [req[r] EXCEPT !.late = TRUE] /\ data' = data /\ shadow' = shadow
    BY <1>1, <1>3 DEF BudgetExpires, surroundings
  <2>2. /\ req'[r].pc = req[r].pc /\ req'[r].frame = req[r].frame
        /\ req'[r].decision = req[r].decision
    BY <1>1, <2>1 DEF Handler
  <2> QED
    BY <2>1, <2>2, StutterStep DEF CallOf, ResultOf
<1>4. CASE UpstreamReceives(r) \/ UpstreamAnswers(r) \/ UpstreamFails(r)
  <2>1. req[r].pc \in {"upstream", "sent"} /\ data' = data /\ shadow' = shadow
    BY <1>4 DEF UpstreamReceives, UpstreamAnswers, UpstreamFails, At, surroundings
  <2>2. req'[r].pc \in {"sent", "done"}
    BY <1>1, <1>4 DEF UpstreamReceives, UpstreamAnswers, UpstreamFails, Handler
  <2> QED
    BY <2>1, <2>2, StutterStep DEF CallOf, ResultOf
<1> QED
  BY <1>2, <1>3, <1>4

\* The evaluation of a request on the inline path.
LEMMA HandlerUsesEngine ==
  ASSUME TypeInvariant, PathInvariant, NEW r \in Requests, Steps(r),
         \/ EvaluatePolicy(r) \/ PolicyPanics(r)
         \/ PolicyFails(r) \/ PassThrough(r) \/ ApplyFails(r) \/ Mutate(r) \/ ShortCircuit(r)
         \/ \E frame \in Frame : SignalAnswers(r, frame)
  PROVE  Engine!Next
<1>1. /\ req \in [Requests -> Handler] /\ req[r] \in Handler /\ req[r].frame \in Frame
      /\ DecisionMade(r)
  BY DEF TypeInvariant, TypeOK, Handler
<1>2. req[r].pc \in {"signal", "policy", "decided"} /\ shadow' = shadow
  BY DEF EvaluatePolicy, PolicyPanics, PolicyFails, PassThrough, ApplyFails, Mutate,
         ShortCircuit, SignalAnswers, Conclude, Decided, At, FailOpen, surroundings
<1>3. shadow[r].pc = "off" /\ shadow[r].decision = NoDecision /\ NoDecision # Failed
  BY <1>2, BeforeUpstream, SentinelAssumption
<1>4. ASSUME NEW frame \in Frame, SignalAnswers(r, frame)
      PROVE  Engine!Next
  <2>1. /\ req[r].pc = "signal" /\ data' = data
        /\ req'[r] = [[req[r] EXCEPT !.pc = "policy"] EXCEPT !.frame = frame]
    BY <1>1, <1>4 DEF SignalAnswers, At, surroundings
  <2>2. req'[r].pc = "policy" /\ req'[r].frame = frame
    BY <1>1, <2>1 DEF Handler
  <2>3. /\ CallOf(r, req'[r], shadow'[r])
             = [conversation |-> ConversationOf[r], frame |-> frame]
        /\ ResultOf(req'[r], shadow'[r]) = NoDecision
    BY <1>2, <1>3, <2>2, HandlerCalls
  <2> QED
    BY <2>1, <2>3, BeforeUpstream, BeginStep
<1>5. CASE EvaluatePolicy(r) \/ PolicyPanics(r)
  <2>1. req[r].pc = "policy"
    BY <1>5 DEF EvaluatePolicy, PolicyPanics, At
  <2>2. /\ CallOf(r, req[r], shadow[r])
             = [conversation |-> ConversationOf[r], frame |-> req[r].frame]
        /\ ResultOf(req[r], shadow[r]) = NoDecision
    BY <1>3, <2>1, HandlerCalls
  <2>3. ASSUME NEW decision, req'[r] = [[req[r] EXCEPT !.pc = "decided"]
                                                EXCEPT !.decision = decision]
        PROVE  /\ CallOf(r, req'[r], shadow'[r]) = CallOf(r, req[r], shadow[r])
               /\ ResultOf(req'[r], shadow'[r]) = decision
    <3>1. req'[r].pc = "decided" /\ req'[r].frame = req[r].frame /\ req'[r].decision = decision
      BY <1>1, <2>3 DEF Handler
    <3> QED
      BY <2>2, <3>1, HandlerCalls
  <2>4. CASE EvaluatePolicy(r)
    <3> DEFINE outcome == EvaluatePure(req[r].frame, Lookup(data, ConversationOf[r]))
    <3>1. /\ req'[r] = [[req[r] EXCEPT !.pc = "decided"] EXCEPT !.decision = outcome.decision]
          /\ data' = Put(data, ConversationOf[r], outcome.next)
      BY <1>1, <2>4 DEF EvaluatePolicy
    <3>2. ResultOf(req'[r], shadow'[r]) = outcome.decision
      BY <2>3, <3>1
    <3> QED
      BY <1>1, <2>2, <2>3, <3>1, <3>2, EvaluateStep
  <2>5. CASE PolicyPanics(r)
    <3>1. req'[r] = [[req[r] EXCEPT !.pc = "decided"] EXCEPT !.decision = Failed] /\ data' = data
      BY <1>1, <2>5 DEF PolicyPanics, surroundings
    <3>2. /\ CallOf(r, req'[r], shadow'[r]) = CallOf(r, req[r], shadow[r])
          /\ ResultOf(req'[r], shadow'[r]) = Failed
      BY <2>3, <3>1
    <3> QED
      BY <1>1, <2>2, <3>1, <3>2, FailStep
  <2> QED
    BY <1>5, <2>4, <2>5
<1>6. CASE PolicyFails(r) \/ PassThrough(r) \/ ApplyFails(r) \/ Mutate(r) \/ ShortCircuit(r)
  <2>1. req[r].pc = "decided" /\ data' = data
    BY <1>6 DEF PolicyFails, PassThrough, ApplyFails, Mutate, ShortCircuit, Conclude,
                Decided, At, FailOpen
  <2>2. req'[r].pc \in {"shadow", "done"}
    <3>1. CASE PolicyFails(r)
      BY <3>1, FailOpenLeaves DEF PolicyFails, FailOpenReasons
    <3>2. CASE ApplyFails(r)
      <4>1. req'[r] = [[[req[r] EXCEPT !.pc = "shadow"] EXCEPT !.body = req[r].original]
                         EXCEPT !.reason = "enforce_error"]
        BY <1>1, <3>2 DEF ApplyFails
      <4> QED
        BY <1>1, <4>1 DEF Handler
    <3>3. CASE PassThrough(r) \/ Mutate(r) \/ ShortCircuit(r)
      BY <3>3, ConclusionKnown, ConcludeLeaves
    <3> QED
      BY <1>6, <3>1, <3>2, <3>3
  <2>3. /\ CallOf(r, req'[r], shadow'[r]) = NoCall
        /\ ResultOf(req'[r], shadow'[r]) = NoDecision
    BY <1>2, <1>3, <2>2, IdleRequest
  <2>4. ResultOf(req[r], shadow[r]) # NoDecision
    BY <1>1, <2>1, HandlerCalls, SentinelAssumption DEF DecisionMade
  <2> QED
    BY <2>1, <2>3, <2>4, ReturnStep
<1> QED
  BY <1>4, <1>5, <1>6

\* The evaluation of a request in its goroutine.
LEMMA GoroutineUsesEngine ==
  ASSUME TypeInvariant, PathInvariant, NEW r \in Requests, Steps(r), Analyse(r)
  PROVE  Engine!Next \/ UNCHANGED Engine!vars
<1>1. /\ shadow \in [Requests -> Goroutine] /\ shadow[r] \in Goroutine
      /\ shadow[r].frame \in Frame /\ DecisionMade(r)
  BY DEF TypeInvariant, TypeOK, Goroutine
<1>2. shadow[r].pc \in {"signal", "policy", "decided"} /\ req' = req
  BY DEF Analyse, ShadowSignalAnswers, ShadowSignalFails, ShadowSignalPanics,
         ShadowEvaluates, ShadowPolicyPanics, ShadowTraces, ShadowAt
<1>3. /\ req[r].pc \notin {"policy", "decided"} /\ req'[r].pc \notin {"policy", "decided"}
      /\ shadow[r].pc \in {"signal", "policy"} => shadow[r].decision = NoDecision
      /\ NoDecision # Failed
  BY <1>2, SentinelAssumption DEF PathInvariant, RequestInvariant, Shadowed
<1>4. CASE ShadowSignalFails(r) \/ ShadowSignalPanics(r)
  <2>1. /\ shadow[r].pc = "signal" /\ data' = data
        /\ shadow'[r].pc \in {"done", "panicked"} /\ shadow'[r].decision = shadow[r].decision
    BY <1>1, <1>4 DEF ShadowSignalFails, ShadowSignalPanics, ShadowAt, Goroutine
  <2> QED
    BY <1>3, <2>1, IdleRequest, StutterStep
<1>5. ASSUME NEW frame \in Frame, ShadowSignalAnswers(r, frame)
      PROVE  Engine!Next
  <2>1. /\ shadow[r].pc = "signal" /\ data' = data
        /\ shadow'[r] = [[shadow[r] EXCEPT !.pc = "policy"] EXCEPT !.frame = frame]
    BY <1>1, <1>5 DEF ShadowSignalAnswers, ShadowAt
  <2>2. /\ shadow'[r].pc = "policy" /\ shadow'[r].frame = frame
        /\ shadow'[r].decision = shadow[r].decision
    BY <1>1, <2>1 DEF Goroutine
  <2>3. /\ CallOf(r, req[r], shadow[r]) = NoCall
        /\ ResultOf(req[r], shadow[r]) = NoDecision
    BY <1>3, <2>1, IdleRequest
  <2>4. /\ CallOf(r, req'[r], shadow'[r])
             = [conversation |-> ConversationOf[r], frame |-> frame]
        /\ ResultOf(req'[r], shadow'[r]) = NoDecision
    <3>1. shadow'[r].pc = "policy" /\ shadow'[r].frame = frame
          /\ shadow'[r].decision = NoDecision /\ shadow'[r].decision # Failed
      BY <1>3, <2>1, <2>2
    <3>2. req'[r].pc \notin {"policy", "decided"}
      BY <1>3
    <3> QED
      BY <3>1, <3>2, GoroutineCalls
  <2> QED
    BY <2>1, <2>3, <2>4, BeginStep
<1>6. CASE ShadowEvaluates(r) \/ ShadowPolicyPanics(r)
  <2>1. shadow[r].pc = "policy"
    BY <1>6 DEF ShadowEvaluates, ShadowPolicyPanics, ShadowAt
  <2>2. /\ CallOf(r, req[r], shadow[r])
             = [conversation |-> ConversationOf[r], frame |-> shadow[r].frame]
        /\ ResultOf(req[r], shadow[r]) = NoDecision
    BY <1>3, <2>1, GoroutineCalls
  <2>3. CASE ShadowEvaluates(r)
    <3> DEFINE outcome == EvaluatePure(shadow[r].frame, Lookup(data, ConversationOf[r]))
    <3>1. /\ shadow'[r] = [[shadow[r] EXCEPT !.pc = "decided"]
                                     EXCEPT !.decision = outcome.decision]
          /\ data' = Put(data, ConversationOf[r], outcome.next)
      BY <1>1, <2>3 DEF ShadowEvaluates
    <3>2. /\ shadow'[r].pc = "decided" /\ shadow'[r].frame = shadow[r].frame
          /\ shadow'[r].decision = outcome.decision
      BY <1>1, <3>1 DEF Goroutine
    <3>3. /\ CallOf(r, req'[r], shadow'[r]) = CallOf(r, req[r], shadow[r])
          /\ ResultOf(req'[r], shadow'[r]) = outcome.decision
      BY <1>3, <2>2, <3>2, GoroutineCalls
    <3> QED
      BY <1>1, <2>2, <3>1, <3>3, EvaluateStep
  <2>4. CASE ShadowPolicyPanics(r)
    <3>1. /\ shadow'[r] = [[shadow[r] EXCEPT !.pc = "panicked"] EXCEPT !.decision = Failed]
          /\ data' = data
      BY <1>1, <2>4 DEF ShadowPolicyPanics
    <3>2. shadow'[r].frame = shadow[r].frame /\ shadow'[r].decision = Failed
      BY <1>1, <3>1 DEF Goroutine
    <3>3. /\ CallOf(r, req'[r], shadow'[r]) = CallOf(r, req[r], shadow[r])
          /\ ResultOf(req'[r], shadow'[r]) = Failed
      BY <1>3, <2>2, <3>2, GoroutineCalls
    <3> QED
      BY <1>1, <2>2, <3>1, <3>3, FailStep
  <2> QED
    BY <1>6, <2>3, <2>4
<1>7. CASE ShadowTraces(r)
  <2>1. /\ shadow[r].pc = "decided" /\ data' = data
        /\ shadow'[r].pc = "done" /\ shadow'[r].decision = shadow[r].decision
    BY <1>1, <1>7 DEF ShadowTraces, ShadowAt, Goroutine
  <2>2. shadow[r].decision \notin {NoDecision, Failed}
    BY <1>1, <2>1, SentinelAssumption DEF DecisionMade
  <2>3. ResultOf(req[r], shadow[r]) # NoDecision
    BY <1>3, <2>1, <2>2, GoroutineCalls
  <2>4. /\ CallOf(r, req'[r], shadow'[r]) = NoCall
        /\ ResultOf(req'[r], shadow'[r]) = NoDecision
    BY <1>3, <2>1, <2>2, IdleRequest
  <2> QED
    BY <2>1, <2>3, <2>4, ReturnStep
<1> QED
  BY <1>4, <1>5, <1>6, <1>7 DEF Analyse

\* The requests implement the policy engine: inline or in the shadow, each evaluation
\* is begun, takes effect once on the state it finds, and returns its own result.
THEOREM RequestsUseEngine == Spec => UsesEngine
<1>1. Init => Engine!Init
  <2> SUFFICES ASSUME Init, NEW r \in Requests
               PROVE  /\ CallOf(r, req[r], shadow[r]) = NoCall
                      /\ ResultOf(req[r], shadow[r]) = NoDecision
    BY DEF Init, Engine!Init, calls, results
  <2>1. req[r].pc = "new" /\ shadow[r] = NoGoroutine
    BY DEF Init, NewHandler
  <2> QED
    BY <2>1, IdleRequest, SentinelAssumption DEF NoGoroutine
<1>2. TypeInvariant /\ PathInvariant /\ [Next]_vars => [Engine!Next]_Engine!vars
  <2> SUFFICES ASSUME TypeInvariant, PathInvariant, [Next]_vars
               PROVE  Engine!Next \/ UNCHANGED Engine!vars
    OBVIOUS
  <2>1. CASE Next
    <3>1. PICK r \in Requests :
              \/ Refuse(r) \/ Admit(r) \/ Proceed(r) \/ BudgetExpires(r) \/ SignalFails(r)
              \/ \E frame \in Frame : SignalAnswers(r, frame)
              \/ UpstreamReceives(r) \/ UpstreamAnswers(r) \/ UpstreamFails(r)
              \/ Analyse(r)
      BY <2>1 DEF Next
    <3>2. Steps(r)
      BY <3>1, HandlerActions, UpstreamActions, GoroutineActions
    <3> QED
      BY <3>1, <3>2, HandlerStutters, HandlerUsesEngine, GoroutineUsesEngine DEF Proceed
  <2>2. CASE UNCHANGED vars
    BY <2>2 DEF vars, Engine!vars, calls, results
  <2> QED
    BY <2>1, <2>2
<1> QED
  BY <1>1, <1>2, TypeInvariantHolds, PathInvariantHolds, PTL DEF Spec, UsesEngine, Engine!Spec

-----------------------------------------------------------------------------
(***************************************************************************)
(* The conversation states that the requests share                         *)
(***************************************************************************)

\* A step leaves the store alone, or puts one evaluation's outcome on the state of
\* its conversation at that instant.
LEMMA StoreSteps ==
  ASSUME TypeInvariant, [Next]_vars
  PROVE  \/ data' = data
         \/ \E c \in Conversations, frame \in Frame :
               data' = Put(data, c, EvaluatePure(frame, Lookup(data, c)).next)
<1>1. CASE UNCHANGED vars
  BY <1>1 DEF vars
<1>2. CASE Next
  <2>1. PICK r \in Requests :
            \/ Refuse(r) \/ Admit(r) \/ Proceed(r) \/ BudgetExpires(r) \/ SignalFails(r)
            \/ \E frame \in Frame : SignalAnswers(r, frame)
            \/ UpstreamReceives(r) \/ UpstreamAnswers(r) \/ UpstreamFails(r)
            \/ Analyse(r)
    BY <1>2 DEF Next
  <2>2. /\ req[r].frame \in Frame /\ shadow[r].frame \in Frame
        /\ ConversationOf[r] \in Conversations
    BY RequestAssumption DEF TypeInvariant, TypeOK, Handler, Goroutine
  <2>3. CASE EvaluatePolicy(r) \/ ShadowEvaluates(r)
    BY <2>2, <2>3 DEF EvaluatePolicy, ShadowEvaluates
  <2>4. CASE ~(EvaluatePolicy(r) \/ ShadowEvaluates(r))
    BY <2>1, <2>4
       DEF Refuse, Admit, Proceed, Bypass, StartInline, PolicyPanics, PolicyFails, PassThrough,
           ApplyFails, Mutate, ShortCircuit, Conclude, PassShadow, BudgetExpires, SignalFails,
           FailOpen, SignalAnswers, UpstreamReceives, UpstreamAnswers, UpstreamFails, Analyse,
           ShadowSignalAnswers, ShadowSignalFails, ShadowSignalPanics, ShadowPolicyPanics,
           ShadowTraces, surroundings
  <2> QED
    BY <2>3, <2>4
<1> QED
  BY <1>1, <1>2

SharedStates == \A c \in DOMAIN data : Reachable(data[c])

\* Inline evaluations and shadow goroutines step the same conversations at once, and
\* some of them panic: the states they leave stay within those the FSM can reach.
THEOREM SharedStatesReachable == Spec => []SharedStates
<1>1. Init => SharedStates
  BY DEF Init, SharedStates
<1>2. TypeInvariant /\ SharedStates /\ [Next]_vars => SharedStates'
  <2> SUFFICES ASSUME TypeInvariant, SharedStates, [Next]_vars
               PROVE  SharedStates'
    OBVIOUS
  <2>1. CASE data' = data
    BY <2>1 DEF SharedStates
  <2>2. ASSUME NEW c \in Conversations, NEW frame \in Frame,
               data' = Put(data, c, EvaluatePure(frame, Lookup(data, c)).next)
        PROVE  SharedStates'
    <3>1. Lookup(data, c) \in ConversationState
      BY LookupType DEF TypeInvariant, TypeOK
    <3>2. Reachable(Lookup(data, c))
      BY DefaultReachable DEF Lookup, SharedStates
    <3>3. Reachable(EvaluatePure(frame, Lookup(data, c)).next)
      BY <3>1, <3>2, EvaluateReachable
    <3>4. /\ \A d \in DOMAIN data' : d = c \/ (d \in DOMAIN data /\ data'[d] = data[d])
          /\ data'[c] = EvaluatePure(frame, Lookup(data, c)).next
      BY <2>2 DEF Put
    <3> QED
      BY <3>3, <3>4 DEF SharedStates
  <2> QED
    BY <2>1, <2>2, StoreSteps
<1> QED
  BY <1>1, <1>2, TypeInvariantHolds, PTL DEF Spec

\* Under a policy with cool-down requests, no step of the proxy ever releases a
\* conversation from its rule: whatever signals arrive, inline or in the shadow, failures
\* and panics included, the conversation stays governed by the rule that engaged it
\* (transitionFSM re-arms the counter from ACTIVE, state.go:78).
THEOREM ControlsAreKept ==
  ASSUME CooldownRequests # 0
  PROVE  Spec => [][\A c \in Conversations :
                       Lookup(data, c).rule # NoRule
                         => Lookup(data, c)'.rule = Lookup(data, c).rule]_vars
<1>1. TypeInvariant /\ SharedStates /\ [Next]_vars
        => [\A c \in Conversations :
              Lookup(data, c).rule # NoRule
                => Lookup(data, c)'.rule = Lookup(data, c).rule]_vars
  <2> SUFFICES ASSUME TypeInvariant, SharedStates, [Next]_vars, NEW c \in Conversations,
                      Lookup(data, c).rule # NoRule
               PROVE  Lookup(data', c).rule = Lookup(data, c).rule
    BY DEF Lookup
  <2>1. CASE data' = data
    BY <2>1
  <2>2. ASSUME NEW d \in Conversations, NEW frame \in Frame,
               data' = Put(data, d, EvaluatePure(frame, Lookup(data, d)).next)
        PROVE  Lookup(data', c).rule = Lookup(data, c).rule
    <3>1. CASE c = d
      <4>1. Lookup(data, c) \in ConversationState /\ Reachable(Lookup(data, c))
        BY LookupType, DefaultReachable DEF TypeInvariant, TypeOK, Lookup, SharedStates
      <4>2. Lookup(data', c) = EvaluatePure(frame, Lookup(data, c)).next
        BY <2>2, <3>1 DEF Put, Lookup
      <4> QED
        BY <4>1, <4>2, EvaluateKeepsRule
    <3>2. CASE c # d
      BY <2>2, <3>2 DEF Put, Lookup
    <3> QED
      BY <3>1, <3>2
  <2> QED
    BY <2>1, <2>2, StoreSteps
<1> QED
  BY <1>1, TypeInvariantHolds, SharedStatesReachable, PTL DEF Spec

=============================================================================
