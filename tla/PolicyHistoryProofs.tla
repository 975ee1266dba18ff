------------------------- MODULE PolicyHistoryProofs --------------------------
(***************************************************************************)
(* Theorems about the policy engine, the signal engine that asks it, and     *)
(* the history of a conversation, for every policy that Validate accepts and *)
(* every set of scores, conversations and goroutines: the states the engine   *)
(* stores, what engages a control, and what releases it.                      *)
(***************************************************************************)
EXTENDS PolicyHistory, PolicyProofs

-----------------------------------------------------------------------------
(***************************************************************************)
(* The engine: types                                                       *)
(***************************************************************************)

\* An evaluation in progress has a proper outcome.
LEMMA OutcomeType ==
  ASSUME TypeOK, NEW g \in Evaluators, call[g] # NoCall
  PROVE  /\ call[g].conversation \in Conversations
         /\ call[g].frame \in Frame
         /\ Outcome(g).decision \in Decision
         /\ Outcome(g).next \in ConversationState
<1>1. call[g] \in Call
  BY DEF TypeOK
<1>2. call[g].conversation \in Conversations /\ call[g].frame \in Frame
  BY <1>1 DEF Call
<1>3. Lookup(data, call[g].conversation) \in ConversationState
  BY <1>2, LookupType DEF TypeOK
<1> QED
  BY <1>2, <1>3, EvaluateType DEF Outcome

\* Every variable keeps its type, whatever the goroutines do: stored states are
\* conversation states with a counter in Nat and a rule index in range.
THEOREM TypeCorrect == Spec => []TypeOK
<1>1. Init => TypeOK
  BY DEF Init, TypeOK
<1>2. TypeOK /\ [Next]_vars => TypeOK'
  <2> SUFFICES ASSUME TypeOK, [Next]_vars
               PROVE  TypeOK'
    OBVIOUS
  <2>1. ASSUME NEW g \in Evaluators, NEW c \in Conversations, NEW frame \in Frame,
               Begin(g, c, frame)
        PROVE  TypeOK'
    <3>1. [conversation |-> c, frame |-> frame] \in Call
      BY DEF Call
    <3> QED
      BY <2>1, <3>1 DEF Begin, TypeOK
  <2>2. ASSUME NEW g \in Evaluators, Evaluate(g)
        PROVE  TypeOK'
    <3>1. /\ call[g].conversation \in Conversations
          /\ Outcome(g).decision \in Decision
          /\ Outcome(g).next \in ConversationState
      BY <2>2, OutcomeType DEF Evaluate
    <3>2. /\ DOMAIN data' \subseteq Conversations
          /\ \A c \in DOMAIN data' : data'[c] \in ConversationState
      BY <2>2, <3>1 DEF Evaluate, TypeOK, Put
    <3> QED
      BY <2>2, <3>1, <3>2 DEF Evaluate, TypeOK
  <2>3. ASSUME NEW g \in Evaluators, Fail(g)
        PROVE  TypeOK'
    BY <2>3 DEF Fail, TypeOK
  <2>4. ASSUME NEW g \in Evaluators, Return(g)
        PROVE  TypeOK'
    BY <2>4 DEF Return, TypeOK
  <2>5. CASE UNCHANGED vars
    BY <2>5 DEF vars, TypeOK
  <2> QED
    BY <2>1, <2>2, <2>3, <2>4, <2>5 DEF Next
<1> QED
  BY <1>1, <1>2, PTL DEF Spec

-----------------------------------------------------------------------------
(***************************************************************************)
(* The engine: the states and the rules of conversations                    *)
(***************************************************************************)

\* The states a conversation can be stored in are those the FSM of the code can
\* reach; no stored counter is ever below cooldown_requests - 1 except zero.
THEOREM StatesReachable == Spec => []FSMInvariant
<1>1. Init => FSMInvariant
  BY DEF Init, FSMInvariant
<1>2. TypeOK /\ FSMInvariant /\ [Next]_vars => FSMInvariant'
  <2> SUFFICES ASSUME TypeOK, FSMInvariant, [Next]_vars
               PROVE  FSMInvariant'
    OBVIOUS
  <2>1. ASSUME NEW g \in Evaluators, Evaluate(g)
        PROVE  FSMInvariant'
    <3> DEFINE c == call[g].conversation
    <3>1. c \in Conversations /\ call[g].frame \in Frame
      BY <2>1, OutcomeType DEF Evaluate
    <3>2. Lookup(data, c) \in ConversationState
      BY <3>1, LookupType DEF TypeOK
    <3>3. Reachable(Lookup(data, c))
      BY DefaultReachable DEF Lookup, FSMInvariant
    <3>4. Reachable(Outcome(g).next)
      BY <3>1, <3>2, <3>3, EvaluateReachable DEF Outcome
    <3>5. \A d \in DOMAIN data' : d = c \/ (d \in DOMAIN data /\ data'[d] = data[d])
      BY <2>1 DEF Evaluate, Put
    <3>6. c \in DOMAIN data' => data'[c] = Outcome(g).next
      BY <2>1 DEF Evaluate, Put
    <3> QED
      BY <3>4, <3>5, <3>6 DEF FSMInvariant
  <2>2. CASE UNCHANGED data
    BY <2>2 DEF FSMInvariant
  <2> QED
    BY <2>1, <2>2 DEF Next, Begin, Fail, Return, vars
<1> QED
  BY <1>1, <1>2, TypeCorrect, PTL DEF Spec

\* Under cool-down requests a governed conversation is never released: no step of
\* any goroutine changes its rule.  Without them it is released only from
\* COOLDOWN, and then to the default state.
THEOREM RulesArePinned == Spec => RulePinned
<1>1. TypeOK /\ FSMInvariant /\ [Next]_vars
        => [\A c \in Conversations : KeepsRuleOrReleases(c)]_vars
  <2> SUFFICES ASSUME TypeOK, FSMInvariant, Next, NEW c \in Conversations
               PROVE  KeepsRuleOrReleases(c)
    OBVIOUS
  <2>1. ASSUME NEW g \in Evaluators, Evaluate(g)
        PROVE  KeepsRuleOrReleases(c)
    <3> DEFINE old == Lookup(data, c)
    <3>1. /\ call[g].conversation \in Conversations
          /\ call[g].frame \in Frame
      BY <2>1, OutcomeType DEF Evaluate
    <3>2. old \in ConversationState /\ Reachable(old)
      BY LookupType, DefaultReachable DEF Lookup, FSMInvariant, TypeOK
    <3>3. CASE c = call[g].conversation
      <4>1. Lookup(data', c) = EvaluatePure(call[g].frame, old).next
        BY <2>1, <3>3 DEF Evaluate, Put, Lookup, Outcome
      <4> QED
        BY <3>1, <3>2, <4>1, EvaluateKeepsRule DEF KeepsRuleOrReleases
    <3>4. CASE c # call[g].conversation
      <4>1. Lookup(data', c) = old
        BY <2>1, <3>4 DEF Evaluate, Put, Lookup
      <4> QED
        BY <4>1 DEF KeepsRuleOrReleases
    <3> QED
      BY <3>3, <3>4
  <2>2. CASE UNCHANGED data
    BY <2>2 DEF KeepsRuleOrReleases
  <2> QED
    BY <2>1, <2>2 DEF Next, Begin, Fail, Return
<1> QED
  BY <1>1, TypeCorrect, StatesReachable, PTL DEF Spec, RulePinned

-----------------------------------------------------------------------------
(***************************************************************************)
(* The signal engine                                                        *)
(***************************************************************************)

\* The engine answers with well-formed frames: what the theorems about the policy
\* engine say of every frame, they say of its answers (ProcessSignal).
THEOREM AnswersWellFormed == SignalFrames \subseteq Frame
<1> SUFFICES ASSUME NEW text \in Text, NEW score \in Risks, NEW inferred \in BOOLEAN
             PROVE  ProcessSignal(text, score, inferred) \in Frame
  BY DEF SignalFrames
<1>1. abstain_frame \in Frame
  BY DEF abstain_frame, Frame
<1>2. [abstain |-> FALSE, risk |-> NoSignal] \in Frame
  BY DEF Frame
<1>3. [abstain |-> FALSE, risk |-> score] \in Frame
  BY DEF Frame
<1>4. analyze(text, score) \in Frame
  BY <1>1, <1>3 DEF analyze
<1>5. analyze_text(text) \in Frame
  BY <1>1, <1>2 DEF analyze_text
<1> QED
  BY <1>4, <1>5 DEF ProcessSignal

\* A frame carries a failure_risk only if the model was sure of it, whatever the
\* text and whether or not the model could be used (post_model_abstain).
THEOREM AnswersCertain ==
  \A frame \in SignalFrames : hasSignal(frame) => certainty(frame.risk) >= Tau
<1> SUFFICES ASSUME NEW text \in Text, NEW score \in Risks, NEW inferred \in BOOLEAN,
                    hasSignal(ProcessSignal(text, score, inferred))
             PROVE  certainty(ProcessSignal(text, score, inferred).risk) >= Tau
  BY DEF SignalFrames
<1>1. ~hasSignal(abstain_frame)
  BY DEF abstain_frame, hasSignal
<1>2. ~hasSignal(analyze_text(text))
  BY <1>1 DEF analyze_text, hasSignal
<1>3. inferred
  BY <1>2 DEF ProcessSignal
<1>4. ~pre_model_abstain(text) /\ ~post_model_abstain(score)
  BY <1>1, <1>3 DEF ProcessSignal, analyze
<1>5. ProcessSignal(text, score, inferred).risk = score
  BY <1>3, <1>4 DEF ProcessSignal, analyze
<1>6. score \in Int /\ Tau \in Int /\ certainty(score) \in Int
  BY ThresholdAssumption DEF certainty
<1> QED
  BY <1>4, <1>5, <1>6 DEF post_model_abstain

-----------------------------------------------------------------------------
(***************************************************************************)
(* What engages a control                                                   *)
(***************************************************************************)

allVars == <<vars, historyVars>>

\* The history restricts the engine only in the frames it is asked about.
LEMMA HistoryRefinesEngine == HistorySpec => Spec
<1>1. HistoryInit => Init
  BY DEF HistoryInit
<1>2. [HistoryNext]_allVars => [Next]_vars
  BY AnswersWellFormed DEF HistoryNext, Next, allVars
<1> QED
  BY <1>1, <1>2, PTL DEF HistorySpec, Spec, allVars

Opening == [risk : Risks \cup {NoSignal}, action : Actions]

\* Evaluations in progress are about answers of the signal engine, and what is
\* remembered of an engagement is a score and an action.
HistoryType ==
    /\ \A g \in Evaluators : call[g] # NoCall => call[g].frame \in SignalFrames
    /\ opening \in [Conversations -> Opening]

LEMMA HistoryTypeCorrect == HistorySpec => []HistoryType
<1>1. HistoryInit => HistoryType
  BY DEF HistoryInit, Init, HistoryType, Opening, NoOpening, Actions
<1>2. TypeOK /\ HistoryType /\ [HistoryNext]_allVars => HistoryType'
  <2> SUFFICES ASSUME TypeOK, HistoryType, [HistoryNext]_allVars
               PROVE  HistoryType'
    OBVIOUS
  <2>1. ASSUME NEW g \in Evaluators, NEW c \in Conversations, NEW frame \in SignalFrames,
               Begin(g, c, frame), UNCHANGED historyVars
        PROVE  HistoryType'
    BY <2>1 DEF Begin, HistoryType, TypeOK, historyVars
  <2>2. ASSUME NEW g \in Evaluators, Evaluate(g), RecordEvaluation(g)
        PROVE  HistoryType'
    <3> DEFINE c == call[g].conversation
    <3>1. /\ c \in Conversations
          /\ call[g].frame \in Frame
          /\ Outcome(g).decision \in Decision
      BY <2>2, OutcomeType DEF Evaluate
    <3>2. /\ [risk |-> call[g].frame.risk, action |-> Outcome(g).decision.action] \in Opening
          /\ NoOpening \in Opening
      BY <3>1 DEF Frame, Decision, Opening, NoOpening, Actions
    <3>3. opening' \in [Conversations -> Opening]
      BY <2>2, <3>1, <3>2 DEF RecordEvaluation, HistoryType
    <3> QED
      BY <2>2, <3>3 DEF Evaluate, HistoryType
  <2>3. ASSUME NEW g \in Evaluators, Fail(g) \/ Return(g), UNCHANGED historyVars
        PROVE  HistoryType'
    BY <2>3 DEF Fail, Return, HistoryType, TypeOK, historyVars
  <2>4. CASE UNCHANGED allVars
    BY <2>4 DEF allVars, vars, historyVars, HistoryType
  <2> QED
    BY <2>1, <2>2, <2>3, <2>4 DEF HistoryNext
<1> QED
  BY <1>1, <1>2, HistoryRefinesEngine, TypeCorrect, PTL DEF HistorySpec, allVars

\* The rule of a governed conversation is the first that its opening signal met,
\* and the model was sure of that signal.
Engaged(c) ==
    /\ opening[c].risk # NoSignal
    /\ Meeting(opening[c].risk) # {}
    /\ Lookup(data, c).rule = FirstOf(Meeting(opening[c].risk))
    /\ opening[c].action = Rules[Lookup(data, c).rule].action
    /\ certainty(opening[c].risk) >= Tau

ControlsEngaged == \A c \in Conversations : IsGoverned(c) => Engaged(c)

\* An evaluation leaves every governed conversation properly engaged: its own, be
\* it governed before or not, and the others, which it does not touch.
LEMMA EvaluationKeepsEngaged ==
  ASSUME TypeOK, FSMInvariant, HistoryType, ControlsEngaged,
         NEW g \in Evaluators, Evaluate(g), RecordEvaluation(g),
         NEW c \in Conversations, c = call[g].conversation
  PROVE  ControlsEngaged'
<1> DEFINE old == Lookup(data, c)
           next == Outcome(g).next
<1>1. /\ call[g].frame \in Frame
      /\ call[g].frame \in SignalFrames
  BY OutcomeType DEF Evaluate, HistoryType
<1>2. old \in ConversationState /\ Reachable(old)
  BY LookupType, DefaultReachable DEF Lookup, FSMInvariant, TypeOK
<1>3. Lookup(data', c) = next /\ Outcome(g) = EvaluatePure(call[g].frame, old)
  BY DEF Evaluate, Put, Lookup, Outcome
<1>4. ASSUME NEW d \in Conversations, d # c
      PROVE  Lookup(data', d) = Lookup(data, d) /\ opening'[d] = opening[d]
  BY <1>1, <1>4 DEF Evaluate, Put, Lookup, RecordEvaluation, HistoryType
<1>5. ASSUME IsGoverned(c)' PROVE Engaged(c)'
  <2>1. next.rule # NoRule
    BY <1>3, <1>5 DEF IsGoverned
  <2>2. CASE old.rule = NoRule
    <3>1. opening'[c] = [risk |-> call[g].frame.risk, action |-> Outcome(g).decision.action]
      BY <1>1, <2>1, <2>2 DEF RecordEvaluation, HistoryType
    <3>2. /\ hasSignal(call[g].frame)
          /\ Meeting(call[g].frame.risk) # {}
          /\ next.rule = FirstOf(Meeting(call[g].frame.risk))
          /\ Outcome(g).decision.action = Rules[next.rule].action
      BY <1>1, <1>2, <1>3, <2>1, <2>2, EvaluateEngages
    <3>3. certainty(call[g].frame.risk) >= Tau
      BY <1>1, <3>2, AnswersCertain
    <3> QED
      BY <1>3, <3>1, <3>2, <3>3 DEF Engaged, hasSignal
  <2>3. CASE old.rule # NoRule
    <3>1. next.rule = old.rule
      BY <1>1, <1>2, <1>3, <2>1, <2>3, EvaluateKeepsRule DEF defaultState
    <3>2. opening' = opening
      BY <2>1, <2>3 DEF RecordEvaluation
    <3>3. Engaged(c)
      BY <1>1, <2>3 DEF ControlsEngaged, IsGoverned
    <3> QED
      BY <1>3, <3>1, <3>2, <3>3 DEF Engaged
  <2> QED
    BY <2>2, <2>3
<1>6. ASSUME NEW d \in Conversations, d # c, IsGoverned(d)' PROVE Engaged(d)'
  <2>1. IsGoverned(d)
    BY <1>4, <1>6 DEF IsGoverned
  <2>2. Engaged(d)
    BY <2>1 DEF ControlsEngaged
  <2> QED
    BY <1>4, <1>6, <2>2 DEF Engaged
<1> QED
  BY <1>5, <1>6 DEF ControlsEngaged

LEMMA ControlsStayEngaged == HistorySpec => []ControlsEngaged
<1>1. HistoryInit => ControlsEngaged
  BY DEF HistoryInit, Init, ControlsEngaged, IsGoverned, Lookup, defaultState, NoRule
<1>2. TypeOK /\ FSMInvariant /\ HistoryType /\ ControlsEngaged /\ [HistoryNext]_allVars
        => ControlsEngaged'
  <2> SUFFICES ASSUME TypeOK, FSMInvariant, HistoryType, ControlsEngaged,
                      [HistoryNext]_allVars
               PROVE  ControlsEngaged'
    OBVIOUS
  <2>1. ASSUME NEW g \in Evaluators, Evaluate(g), RecordEvaluation(g)
        PROVE  ControlsEngaged'
    <3>1. call[g].conversation \in Conversations
      BY <2>1, OutcomeType DEF Evaluate
    <3> QED
      BY <2>1, <3>1, EvaluationKeepsEngaged
  <2>2. CASE UNCHANGED <<data, opening>>
    BY <2>2 DEF ControlsEngaged, Engaged, IsGoverned
  <2> QED
    BY <2>1, <2>2 DEF HistoryNext, Begin, Fail, Return, allVars, vars, historyVars
<1> QED
  BY <1>1, <1>2, HistoryRefinesEngine, TypeCorrect, StatesReachable, HistoryTypeCorrect,
     PTL DEF HistorySpec, allVars

\* Only a conversation that is under a rule remembers a signal that engaged it.
OpeningsHeld ==
    \A c \in Conversations : opening[c].risk # NoSignal => IsGoverned(c)

LEMMA OpeningsStayHeld == HistorySpec => []OpeningsHeld
<1>1. HistoryInit => OpeningsHeld
  BY DEF HistoryInit, OpeningsHeld, NoOpening
<1>2. TypeOK /\ HistoryType /\ OpeningsHeld /\ [HistoryNext]_allVars => OpeningsHeld'
  <2> SUFFICES ASSUME TypeOK, HistoryType, OpeningsHeld, [HistoryNext]_allVars
               PROVE  OpeningsHeld'
    OBVIOUS
  <2>1. ASSUME NEW g \in Evaluators, Evaluate(g), RecordEvaluation(g),
               NEW c \in Conversations, opening'[c].risk # NoSignal
        PROVE  Lookup(data', c).rule # NoRule
    <3> DEFINE old == Lookup(data, c)
               next == Outcome(g).next
    <3>1. CASE c = call[g].conversation
      <4>1. Lookup(data', c) = next
        BY <2>1, <3>1 DEF Evaluate, Put, Lookup
      <4>2. CASE old.rule = NoRule /\ next.rule = NoRule
        <5>1. opening' = opening
          BY <2>1, <3>1, <4>2 DEF RecordEvaluation
        <5> QED
          BY <2>1, <4>2, <5>1 DEF OpeningsHeld, IsGoverned
      <4>3. CASE old.rule # NoRule /\ next.rule = NoRule
        <5>1. opening'[c] = NoOpening
          BY <2>1, <3>1, <4>3 DEF RecordEvaluation, HistoryType
        <5> QED
          BY <2>1, <5>1 DEF NoOpening
      <4> QED
        BY <4>1, <4>2, <4>3
    <3>2. CASE c # call[g].conversation
      <4>1. Lookup(data', c) = Lookup(data, c) /\ opening'[c] = opening[c]
        BY <2>1, <3>2 DEF Evaluate, Put, Lookup, RecordEvaluation, HistoryType
      <4> QED
        BY <2>1, <4>1 DEF OpeningsHeld, IsGoverned
    <3> QED
      BY <3>1, <3>2
  <2>2. CASE UNCHANGED <<data, opening>>
    BY <2>2 DEF OpeningsHeld, IsGoverned
  <2> QED
    BY <2>1, <2>2 DEF OpeningsHeld, IsGoverned, HistoryNext, Begin, Fail, Return,
                      allVars, vars, historyVars
<1> QED
  BY <1>1, <1>2, HistoryRefinesEngine, TypeCorrect, HistoryTypeCorrect,
     PTL DEF HistorySpec, allVars

\* Every control is the one its conversation's opening signal called for, however
\* long ago that was and whatever has been evaluated since, by any goroutine.
THEOREM ControlsJustified == HistorySpec => []JustifiedControl
<1>1. ControlsEngaged => JustifiedControl
  BY DEF ControlsEngaged, Engaged, JustifiedControl
<1> QED
  BY <1>1, ControlsStayEngaged, PTL

\* No control rests on a text the model was not sure of, under any policy.
THEOREM ControlsCertain == HistorySpec => []EngagedWithCertainty
<1>1. ControlsEngaged => EngagedWithCertainty
  BY DEF ControlsEngaged, Engaged, EngagedWithCertainty
<1> QED
  BY <1>1, ControlsStayEngaged, PTL

\* The policy lists stronger actions first, as the policy of
\* TestMonotonicActionStrength does.
StrongerFirst ==
    \A i, j \in 1..Len(Rules) :
        i <= j => ActionStrength(Rules[i].action) >= ActionStrength(Rules[j].action)

\* A policy that lists its stronger actions first gives a conversation that was
\* engaged by a higher risk an action at least as strong (selectRule's first match).
THEOREM StrengthFollowsRisk ==
  ASSUME StrongerFirst
  PROVE  HistorySpec => []MonotonicStrength
<1>1. HistoryType /\ ControlsEngaged /\ OpeningsHeld => MonotonicStrength
  <2> SUFFICES ASSUME HistoryType, ControlsEngaged, OpeningsHeld,
                      NEW c \in Conversations, NEW d \in Conversations,
                      opening[c].risk # NoSignal, opening[d].risk # NoSignal,
                      opening[c].risk <= opening[d].risk
               PROVE  ActionStrength(opening[c].action) <= ActionStrength(opening[d].action)
    BY DEF MonotonicStrength
  <2> DEFINE i == FirstOf(Meeting(opening[c].risk))
             j == FirstOf(Meeting(opening[d].risk))
  <2>1. Engaged(c) /\ Engaged(d)
    BY DEF ControlsEngaged, OpeningsHeld
  <2>2. opening[c].risk \in Int /\ opening[d].risk \in Int
    <3>1. opening[c] \in Opening /\ opening[d] \in Opening
      BY DEF HistoryType
    <3>2. opening[c].risk \in Risks /\ opening[d].risk \in Risks
      BY <3>1 DEF Opening
    <3>3. \A risk \in Risks : risk \in Int
      BY ThresholdAssumption
    <3> QED
      BY <3>2, <3>3
  <2>3. i \in 1..Len(Rules) /\ j \in 1..Len(Rules) /\ j <= i
    BY <2>1, <2>2, MeetingMonotonic DEF Engaged
  <2>4. opening[c].action = Rules[i].action /\ opening[d].action = Rules[j].action
    BY <2>1 DEF Engaged
  <2>5. ActionStrength(Rules[j].action) >= ActionStrength(Rules[i].action)
    BY <2>3 DEF StrongerFirst
  <2>6. \A k \in 1..Len(Rules) : ActionStrength(Rules[k].action) \in Int
    BY RuleType DEF Rule, Actions, ActionStrength
  <2> QED
    BY <2>3, <2>4, <2>5, <2>6
<1> QED
  BY <1>1, HistoryTypeCorrect, ControlsStayEngaged, OpeningsStayHeld, PTL

-----------------------------------------------------------------------------
(***************************************************************************)
(* What releases a control                                                 *)
(***************************************************************************)

\* The streaks are numbers, and a conversation cools down only after a signal
\* below the exit threshold of its rule.
LullType == lull \in [Conversations -> Nat]

CoolsAfterDip ==
    \A c \in Conversations : Lookup(data, c).state = "COOLDOWN" => lull[c] >= 1

LEMMA CappedStreak ==
  ASSUME NEW n \in Nat
  PROVE  /\ Extended(n, TRUE) \in Nat /\ Extended(n, FALSE) \in Nat
         /\ Extended(n, TRUE) >= 1
         /\ n >= 1 => Extended(n, TRUE) >= 2
<1>1. CalmBound \in Nat /\ CalmBound >= 2
  BY PolicyAssumption DEF Validate, CalmBound
<1> QED
  BY <1>1 DEF Extended, Capped

\* What an evaluation does to the streak of its conversation, and to its state.
LEMMA EvaluationLulls ==
  ASSUME TypeOK, FSMInvariant, LullType,
         NEW g \in Evaluators, Evaluate(g), RecordEvaluation(g),
         NEW c \in Conversations, c = call[g].conversation,
         CoolsAfterDip
  PROVE  /\ lull'[c] \in Nat
         /\ Lookup(data', c).state = "COOLDOWN" => lull'[c] >= 1
         /\ IsGoverned(c) /\ Lookup(data', c).rule = NoRule => lull'[c] >= 2
<1> DEFINE frame == call[g].frame
           old == Lookup(data, c)
           dips == /\ old.rule # NoRule
                   /\ ~frame.abstain /\ hasSignal(frame)
                   /\ frame.risk < Rules[old.rule].exit
<1>1. frame \in Frame
  BY OutcomeType DEF Evaluate
<1>2. old \in ConversationState /\ Reachable(old)
  BY LookupType, DefaultReachable DEF Lookup, FSMInvariant, TypeOK
<1>3. Lookup(data', c) = EvaluatePure(frame, old).next
  BY DEF Evaluate, Put, Lookup, Outcome
<1>4. /\ EvaluatePure(frame, old).next.state = "COOLDOWN" =>
            \/ old.state # "COOLDOWN" /\ dips
            \/ /\ EvaluatePure(frame, old).next = old
               /\ frame.abstain \/ ~hasSignal(frame)
      /\ old.rule # NoRule /\ EvaluatePure(frame, old).next.rule = NoRule
            => old.state = "COOLDOWN" /\ dips
  BY <1>1, <1>2, EvaluateCools
<1>5. lull[c] \in Nat
  BY DEF LullType
<1>6. lull'[c] \in Nat
  <2>1. CASE Counts(frame) /\ old.rule # NoRule
    <3>1. lull'[c] = Extended(lull[c], frame.risk < Rules[old.rule].exit)
      BY <2>1 DEF RecordEvaluation, LullType
    <3>2. (frame.risk < Rules[old.rule].exit) \in BOOLEAN
      OBVIOUS
    <3>3. \A below \in BOOLEAN : Extended(lull[c], below) \in Nat
      BY <1>5, CappedStreak
    <3> QED
      BY <3>1, <3>2, <3>3
  <2>2. CASE ~(Counts(frame) /\ old.rule # NoRule)
    BY <1>5, <2>2 DEF RecordEvaluation
  <2> QED
    BY <2>1, <2>2
<1>7. dips => lull'[c] = Extended(lull[c], TRUE)
  BY DEF RecordEvaluation, LullType, Counts
<1>8. frame.abstain \/ ~hasSignal(frame) => lull'[c] = lull[c]
  BY DEF RecordEvaluation, Counts
<1>9. old.state = "COOLDOWN" => lull[c] >= 1
  BY DEF CoolsAfterDip
<1> QED
  BY <1>3, <1>4, <1>5, <1>6, <1>7, <1>8, <1>9, CappedStreak DEF IsGoverned

\* An evaluation leaves the other conversations and their streaks alone.
LEMMA EvaluationSparesOthers ==
  ASSUME LullType, NEW g \in Evaluators, Evaluate(g), RecordEvaluation(g),
         NEW c \in Conversations, c # call[g].conversation
  PROVE  Lookup(data', c) = Lookup(data, c) /\ lull'[c] = lull[c]
BY DEF Evaluate, Put, Lookup, RecordEvaluation, LullType

LEMMA LullsCounted == HistorySpec => [](LullType /\ CoolsAfterDip)
<1>1. HistoryInit => LullType /\ CoolsAfterDip
  BY DEF HistoryInit, Init, LullType, CoolsAfterDip, Lookup, defaultState
<1>2. TypeOK /\ FSMInvariant /\ LullType /\ CoolsAfterDip /\ [HistoryNext]_allVars
        => LullType' /\ CoolsAfterDip'
  <2> SUFFICES ASSUME TypeOK, FSMInvariant, LullType, CoolsAfterDip, [HistoryNext]_allVars
               PROVE  LullType' /\ CoolsAfterDip'
    OBVIOUS
  <2>1. ASSUME NEW g \in Evaluators, Evaluate(g), RecordEvaluation(g)
        PROVE  LullType' /\ CoolsAfterDip'
    <3>1. \A c \in Conversations :
             lull'[c] \in Nat /\ (Lookup(data', c).state = "COOLDOWN" => lull'[c] >= 1)
      BY <2>1, EvaluationLulls, EvaluationSparesOthers DEF LullType, CoolsAfterDip
    <3>2. lull' = [c \in Conversations |-> lull'[c]]
      BY <2>1 DEF RecordEvaluation, LullType
    <3> QED
      BY <3>1, <3>2 DEF LullType, CoolsAfterDip
  <2>2. CASE UNCHANGED <<data, lull>>
    BY <2>2 DEF LullType, CoolsAfterDip
  <2> QED
    BY <2>1, <2>2 DEF HistoryNext, Begin, Fail, Return, allVars, vars, historyVars
<1> QED
  BY <1>1, <1>2, HistoryRefinesEngine, TypeCorrect, StatesReachable,
     PTL DEF HistorySpec, allVars

\* One dip below the exit threshold never lifts a control, under any policy and
\* however many abstentions and evaluations of other conversations lie between.
THEOREM ReleasesAreEarned == HistorySpec => NoEarlyRelease
<1>1. TypeOK /\ FSMInvariant /\ LullType /\ CoolsAfterDip /\ [HistoryNext]_allVars
        => [\A c \in Conversations :
              IsGoverned(c) /\ Lookup(data', c).rule = NoRule => lull'[c] >= 2]_allVars
  <2> SUFFICES ASSUME TypeOK, FSMInvariant, LullType, CoolsAfterDip, HistoryNext,
                      NEW c \in Conversations, IsGoverned(c), Lookup(data', c).rule = NoRule
               PROVE  lull'[c] >= 2
    OBVIOUS
  <2>1. ASSUME NEW g \in Evaluators, Evaluate(g), RecordEvaluation(g)
        PROVE  lull'[c] >= 2
    BY <2>1, EvaluationLulls, EvaluationSparesOthers DEF IsGoverned
  <2>2. CASE UNCHANGED data
    BY <2>2 DEF IsGoverned
  <2> QED
    BY <2>1, <2>2 DEF HistoryNext, Begin, Fail, Return
<1> QED
  BY <1>1, HistoryRefinesEngine, TypeCorrect, StatesReachable, LullsCounted,
     PTL DEF HistorySpec, NoEarlyRelease, allVars

\* Without cool-down requests, what a calm streak tells of its conversation: after
\* one calm signal it is cooling down or free, after two it is free.
CalmType == calm \in [Conversations -> 0..2]

StreaksCalm ==
    \A c \in Conversations :
        /\ calm[c] >= 1 /\ IsGoverned(c) => Lookup(data, c).state = "COOLDOWN"
        /\ calm[c] >= 2 => ~IsGoverned(c)

LEMMA EvaluationCalms ==
  ASSUME CooldownRequests = 0, TypeOK, FSMInvariant, CalmType, StreaksCalm,
         NEW g \in Evaluators, Evaluate(g), RecordEvaluation(g),
         NEW c \in Conversations
  PROVE  /\ calm'[c] \in 0..2
         /\ calm'[c] >= 1 /\ IsGoverned(c)' => Lookup(data', c).state = "COOLDOWN"
         /\ calm'[c] >= 2 => ~IsGoverned(c)'
<1> DEFINE frame == call[g].frame
           old == Lookup(data, c)
           next == EvaluatePure(frame, old).next
<1>1. frame \in Frame /\ calm[c] \in 0..2 /\ CalmBound = 2
  BY OutcomeType DEF Evaluate, CalmType, CalmBound
<1>2. old \in ConversationState /\ Reachable(old)
  BY LookupType, DefaultReachable DEF Lookup, FSMInvariant, TypeOK
<1>3. CASE c # call[g].conversation
  <2>1. Lookup(data', c) = old /\ calm'[c] = calm[c]
    BY <1>3 DEF Evaluate, Put, Lookup, RecordEvaluation, CalmType
  <2> QED
    BY <1>1, <2>1 DEF StreaksCalm, IsGoverned
<1>4. CASE c = call[g].conversation
  <2>1. Lookup(data', c) = next
    BY <1>4 DEF Evaluate, Put, Lookup, Outcome
  <2>2. CASE ~Counts(frame)
    <3>1. calm'[c] = calm[c] /\ next = old
      <4>1. next = old
        BY <2>2 DEF Counts, EvaluatePure, selectRule
      <4> QED
        BY <2>2, <4>1 DEF RecordEvaluation
    <3> QED
      BY <1>1, <2>1, <3>1 DEF StreaksCalm, IsGoverned
  <2>3. CASE Counts(frame) /\ ~BelowAllExits(frame.risk)
    <3>1. calm'[c] = 0
      BY <1>4, <2>3 DEF RecordEvaluation, CalmType, Extended
    <3> QED
      BY <3>1
  <2>4. CASE Counts(frame) /\ BelowAllExits(frame.risk)
    <3>1. calm'[c] = IF calm[c] + 1 > 2 THEN 2 ELSE calm[c] + 1
      BY <1>1, <1>4, <2>4 DEF RecordEvaluation, CalmType, Extended, Capped
    <3>2. /\ next.rule # NoRule => next.state = "COOLDOWN"
          /\ old.state = "COOLDOWN" => next.rule = NoRule
          /\ old.rule = NoRule => next.rule = NoRule
      BY <1>1, <1>2, <2>4, EvaluateCalm DEF Counts, BelowAllExits
    <3>3. calm'[c] >= 2 => next.rule = NoRule
      BY <1>1, <3>1, <3>2 DEF StreaksCalm, IsGoverned
    <3> QED
      BY <1>1, <2>1, <3>1, <3>2, <3>3 DEF IsGoverned
  <2> QED
    BY <2>2, <2>3, <2>4
<1> QED
  BY <1>3, <1>4

\* Under a policy without cool-down requests, two calm signals in a row free a
\* conversation, whatever rule held it and however many abstentions and evaluations of
\* other conversations lie between them.  With cool-down requests RulesArePinned says
\* the opposite.
THEOREM ReleasedWithoutCooldown ==
  ASSUME CooldownRequests = 0
  PROVE  HistorySpec => []ReleasedOnceCalm
<1>1. HistoryInit => CalmType /\ StreaksCalm
  BY DEF HistoryInit, CalmType, StreaksCalm
<1>2. TypeOK /\ FSMInvariant /\ CalmType /\ StreaksCalm /\ [HistoryNext]_allVars
        => CalmType' /\ StreaksCalm'
  <2> SUFFICES ASSUME TypeOK, FSMInvariant, CalmType, StreaksCalm, [HistoryNext]_allVars
               PROVE  CalmType' /\ StreaksCalm'
    OBVIOUS
  <2>1. ASSUME NEW g \in Evaluators, Evaluate(g), RecordEvaluation(g)
        PROVE  CalmType' /\ StreaksCalm'
    <3>1. \A c \in Conversations :
             /\ calm'[c] \in 0..2
             /\ calm'[c] >= 1 /\ IsGoverned(c)' => Lookup(data', c).state = "COOLDOWN"
             /\ calm'[c] >= 2 => ~IsGoverned(c)'
      BY <2>1, EvaluationCalms
    <3>2. calm' = [c \in Conversations |-> calm'[c]]
      BY <2>1 DEF RecordEvaluation, CalmType
    <3> QED
      BY <3>1, <3>2 DEF CalmType, StreaksCalm
  <2>2. CASE UNCHANGED <<data, calm>>
    BY <2>2 DEF CalmType, StreaksCalm, IsGoverned
  <2> QED
    BY <2>1, <2>2 DEF HistoryNext, Begin, Fail, Return, allVars, vars, historyVars
<1>3. CalmType /\ StreaksCalm => ReleasedOnceCalm
  BY DEF CalmType, StreaksCalm, ReleasedOnceCalm, CalmBound
<1> QED
  BY <1>1, <1>2, <1>3, HistoryRefinesEngine, TypeCorrect, StatesReachable,
     PTL DEF HistorySpec, allVars

=============================================================================
