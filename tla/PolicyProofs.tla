----------------------------- MODULE PolicyProofs -----------------------------
(***************************************************************************)
(* Lemmas about the pure functions of internal/policy, for every policy     *)
(* that Validate accepts and every set of signal values: their types, the   *)
(* conversation states they can lead to, and what they do to the rule of a   *)
(* governed conversation.                                                    *)
(***************************************************************************)
EXTENDS Policy, TLAPS, WellFoundedInduction

-----------------------------------------------------------------------------
(***************************************************************************)
(* Rule selection and types                                                *)
(***************************************************************************)

Below == {ss \in Nat \X Nat : ss[1] < ss[2]}

LEMMA BelowIsWellFounded == IsWellFoundedOn(Below, Nat)
<1>1. OpToRel(<, Nat) = Below
  BY Zenon DEF OpToRel, Below
<1> QED
  BY <1>1, NatLessThanWellFounded, Zenon

\* The choice in FirstOf is the least element of a set of rule indices.
LEMMA FirstOfIsLeast ==
  ASSUME NEW S \in SUBSET Nat, S # {}
  PROVE  FirstOf(S) \in S /\ \A j \in S : FirstOf(S) <= j
<1>1. PICK x \in S : \A y \in S : ~(<<y, x>> \in Below)
  BY BelowIsWellFounded, WFMin
<1>2. ASSUME NEW y \in S PROVE x <= y
  <2>1. x \in Nat /\ y \in Nat
    OBVIOUS
  <2>2. ~(<<y, x>> \in Below)
    BY <1>1
  <2>3. ~(y < x)
    BY <2>1, <2>2 DEF Below
  <2> QED
    BY <2>1, <2>3
<1> QED
  BY <1>2 DEF FirstOf

LEMMA RuleType ==
  ASSUME NEW i \in 1..Len(Rules)
  PROVE  /\ Rules[i] \in Rule
         /\ Rules[i].enter > Rules[i].exit
BY PolicyAssumption DEF Validate

LEMMA LenRules == Len(Rules) \in Nat
BY PolicyAssumption DEF Validate

\* The risk of a frame that does not abstain is an integer when it is present.
LEMMA RiskType ==
  ASSUME NEW frame \in Frame, hasSignal(frame)
  PROVE  frame.risk \in Int
BY SignalAssumption DEF Frame, hasSignal

\* selectRule returns the index of a rule or NoRule, and, for a conversation
\* that is not governed, only the index of a rule whose threshold is met.
LEMMA SelectRuleType ==
  ASSUME NEW frame \in Frame, NEW st \in ConversationState
  PROVE  /\ selectRule(frame, st) \in 0..Len(Rules)
         /\ selectRule(frame, st) # NoRule => hasSignal(frame)
         /\ selectRule(frame, st) # NoRule /\ ~isFSMActive(st.state)
              => frame.risk >= Rules[selectRule(frame, st)].enter
<1> DEFINE S == Meeting(frame.risk)
<1>1. S \in SUBSET Nat /\ S \subseteq 1..Len(Rules)
  BY LenRules DEF Meeting
<1>2. S # {} => FirstOf(S) \in S
  BY <1>1, FirstOfIsLeast
<1>3. S # {} => FirstOf(S) \in 1..Len(Rules) /\ frame.risk >= Rules[FirstOf(S)].enter
  BY <1>2 DEF Meeting
<1> QED
  BY <1>3, LenRules DEF selectRule, NoRule, ConversationState

\* A transition under a rule of the policy leads to a conversation state.
LEMMA TransitionType ==
  ASSUME NEW st \in ConversationState, NEW risk \in Int, NEW rule \in Rule
  PROVE  transitionFSM(st, risk, rule) \in ConversationState
<1>1. CooldownRequests \in Nat
  BY PolicyAssumption DEF Validate
<1>2. FromNormal(st, risk, rule) \in ConversationState
  BY DEF FromNormal, ConversationState, StabilityState
<1>3. FromActive(st, risk, rule) \in ConversationState
  BY <1>1 DEF FromActive, ConversationState, StabilityState
<1>4. FromCooldown(st, risk, rule) \in ConversationState
  <2>1. CASE risk >= rule.exit
    BY <2>1 DEF FromCooldown, ConversationState, StabilityState
  <2>2. CASE ~(risk >= rule.exit) /\ st.cooldown > 0
    <3>1. st.cooldown - 1 \in Nat
      BY <2>2 DEF ConversationState
    <3> QED
      BY <2>2, <3>1 DEF FromCooldown, ConversationState, StabilityState
  <2>3. CASE ~(risk >= rule.exit) /\ ~(st.cooldown > 0)
    <3>1. 0 \in 0..Len(Rules)
      BY LenRules
    <3>2. FromCooldown(st, risk, rule) = [st EXCEPT !.state = "NORMAL", !.rule = 0]
      BY <2>3 DEF FromCooldown, NoRule
    <3> QED
      BY <3>1, <3>2 DEF ConversationState, StabilityState
  <2> QED
    BY <2>1, <2>2, <2>3
<1>5. st.state \in StabilityState
  BY DEF ConversationState
<1> QED
  BY <1>2, <1>3, <1>4, <1>5 DEF transitionFSM, StabilityState

LEMMA GovernedType ==
  ASSUME NEW frame \in Frame, hasSignal(frame),
         NEW st \in ConversationState, NEW i \in 1..Len(Rules)
  PROVE  /\ [st EXCEPT !.rule = i] \in ConversationState
         /\ Governed(frame, st, i) \in ConversationState
<1>1. [st EXCEPT !.rule = i] \in ConversationState
  BY LenRules DEF ConversationState
<1> QED
  BY <1>1, RuleType, RiskType, TransitionType DEF Governed

\* What Lookup reads from a map of conversation states is one.
LEMMA LookupType ==
  ASSUME NEW m, NEW c, c \in DOMAIN m => m[c] \in ConversationState
  PROVE  Lookup(m, c) \in ConversationState
<1>1. defaultState \in ConversationState
  BY LenRules DEF defaultState, ConversationState, StabilityState, NoRule
<1> QED
  BY <1>1 DEF Lookup

\* Evaluation yields a decision and a conversation state.
LEMMA EvaluateType ==
  ASSUME NEW frame \in Frame, NEW st \in ConversationState
  PROVE  /\ EvaluatePure(frame, st).decision \in Decision
         /\ EvaluatePure(frame, st).next \in ConversationState
<1> DEFINE i == IF frame.abstain THEN NoRule ELSE selectRule(frame, st)
           next == Governed(frame, st, i)
<1>1. CASE i = NoRule
  BY <1>1 DEF EvaluatePure, Decision, ConversationState, Actions
<1>2. CASE i # NoRule
  <2>1. i \in 1..Len(Rules) /\ hasSignal(frame)
    BY <1>2, SelectRuleType, LenRules DEF NoRule
  <2>2. next \in ConversationState /\ Rules[i].action \in Actions
    BY <2>1, GovernedType, RuleType DEF Rule
  <2>3. next.state \in StabilityState
    BY <2>2 DEF ConversationState
  <2> QED
    BY <1>2, <2>2, <2>3 DEF EvaluatePure, Decision, Actions
<1> QED
  BY <1>1, <1>2

-----------------------------------------------------------------------------
(***************************************************************************)
(* The reachable conversation states                                       *)
(***************************************************************************)

LEMMA DefaultReachable == Reachable(defaultState)
BY DEF Reachable, OnlyStableStates, RuleWhileGoverned, CooldownLevel, defaultState,
       isFSMActive, NoRule

\* One step of the FSM from a reachable state, under the rule it is governed by
\* or under one whose enter threshold is met, leads to a reachable state.
LEMMA GovernedReachable ==
  ASSUME NEW frame \in Frame, hasSignal(frame),
         NEW st \in ConversationState, Reachable(st),
         NEW i \in 1..Len(Rules),
         ~isFSMActive(st.state) => frame.risk >= Rules[i].enter
  PROVE  Reachable(Governed(frame, st, i))
<1> DEFINE s == [st EXCEPT !.rule = i]
<1>1. /\ CooldownRequests \in Nat
      /\ frame.risk \in Int
      /\ Rules[i] \in Rule
      /\ i # NoRule
  BY PolicyAssumption, RiskType, RuleType, LenRules DEF Validate, NoRule
<1>2. /\ s \in ConversationState
      /\ s.state = st.state /\ s.cooldown = st.cooldown /\ s.rule = i
  BY GovernedType DEF ConversationState
<1>3. Governed(frame, st, i) = transitionFSM(s, frame.risk, Rules[i])
  BY DEF Governed
<1>4. CASE st.state = "NORMAL"
  BY <1>1, <1>2, <1>3, <1>4
     DEF transitionFSM, FromNormal, ConversationState, isFSMActive,
         Reachable, OnlyStableStates, RuleWhileGoverned, CooldownLevel
<1>5. CASE st.state = "ACTIVE"
  BY <1>1, <1>2, <1>3, <1>5
     DEF transitionFSM, FromActive, ConversationState, isFSMActive,
         Reachable, OnlyStableStates, RuleWhileGoverned, CooldownLevel
<1>6. CASE st.state = "COOLDOWN"
  BY <1>1, <1>2, <1>3, <1>6
     DEF transitionFSM, FromCooldown, ConversationState, isFSMActive, NoRule,
         Reachable, OnlyStableStates, RuleWhileGoverned, CooldownLevel
<1> QED
  BY <1>4, <1>5, <1>6 DEF Reachable, OnlyStableStates

LEMMA EvaluateReachable ==
  ASSUME NEW frame \in Frame, NEW st \in ConversationState, Reachable(st)
  PROVE  Reachable(EvaluatePure(frame, st).next)
<1> DEFINE i == IF frame.abstain THEN NoRule ELSE selectRule(frame, st)
<1>1. CASE i = NoRule
  BY <1>1 DEF EvaluatePure
<1>2. CASE i # NoRule
  <2>1. /\ i \in 1..Len(Rules)
        /\ hasSignal(frame)
        /\ ~isFSMActive(st.state) => frame.risk >= Rules[i].enter
    BY <1>2, SelectRuleType, LenRules DEF NoRule
  <2> QED
    BY <1>2, <2>1, GovernedReachable DEF EvaluatePure
<1> QED
  BY <1>1, <1>2

-----------------------------------------------------------------------------
(***************************************************************************)
(* The rule of a governed conversation                                     *)
(***************************************************************************)

\* An evaluation of a governed conversation keeps its rule, or releases it.
LEMMA EvaluateKeepsRule ==
  ASSUME NEW frame \in Frame, NEW st \in ConversationState, Reachable(st),
         st.rule # NoRule, EvaluatePure(frame, st).next.rule # st.rule
  PROVE  /\ st.state = "COOLDOWN"
         /\ EvaluatePure(frame, st).next = defaultState
         /\ CooldownRequests = 0
<1> DEFINE i == st.rule
           s == [st EXCEPT !.rule = i]
           next == EvaluatePure(frame, st).next
<1>1. /\ i \in 1..Len(Rules)
      /\ isFSMActive(st.state)
      /\ st.state \in {"ACTIVE", "COOLDOWN"}
  BY LenRules DEF ConversationState, NoRule, Reachable, RuleWhileGoverned,
                  OnlyStableStates, isFSMActive
<1>2. s = st
  BY DEF ConversationState
<1>3. ~frame.abstain /\ hasSignal(frame) /\ next = transitionFSM(st, frame.risk, Rules[i])
  BY <1>1, <1>2 DEF EvaluatePure, selectRule, Governed
<1>4. frame.risk \in Int /\ Rules[i] \in Rule /\ CooldownRequests \in Nat
  BY <1>1, <1>3, RiskType, RuleType, PolicyAssumption DEF Validate
<1>5. CASE st.state = "ACTIVE"
  <2>1. transitionFSM(st, frame.risk, Rules[i]) = FromActive(st, frame.risk, Rules[i])
    BY <1>5 DEF transitionFSM
  <2>2. FromActive(st, frame.risk, Rules[i]).rule = i
    BY DEF FromActive, ConversationState
  <2> QED
    BY <1>3, <2>1, <2>2
<1>6. CASE st.state = "COOLDOWN"
  <2>1. next = FromCooldown(st, frame.risk, Rules[i])
    BY <1>3, <1>6 DEF transitionFSM
  <2>2. st.cooldown = CooldownRequests
    BY <1>6 DEF Reachable, CooldownLevel
  <2>3. ~(frame.risk >= Rules[i].exit) /\ ~(st.cooldown > 0)
    BY <2>1 DEF FromCooldown, ConversationState
  <2>4. st.cooldown = 0
    BY <2>3 DEF ConversationState
  <2>5. next = [st EXCEPT !.state = "NORMAL", !.rule = 0]
    BY <2>1, <2>3 DEF FromCooldown, NoRule
  <2>6. next = defaultState
    BY <2>4, <2>5 DEF ConversationState, defaultState, NoRule
  <2> QED
    BY <1>6, <2>2, <2>4, <2>6
<1> QED
  BY <1>1, <1>5, <1>6

\* An evaluation that puts a conversation under a rule was given a signal, puts it
\* under the first rule the signal meets, and decides on that rule's action.
LEMMA EvaluateEngages ==
  ASSUME NEW frame \in Frame, NEW st \in ConversationState, Reachable(st),
         st.rule = NoRule, EvaluatePure(frame, st).next.rule # NoRule
  PROVE  LET outcome == EvaluatePure(frame, st)
         IN  /\ hasSignal(frame)
             /\ Meeting(frame.risk) # {}
             /\ outcome.next.rule = FirstOf(Meeting(frame.risk))
             /\ outcome.decision.action = Rules[outcome.next.rule].action
<1> DEFINE i == selectRule(frame, st)
           s == [st EXCEPT !.rule = i]
           next == EvaluatePure(frame, st).next
<1>1. st.state = "NORMAL" /\ ~isFSMActive(st.state)
  BY DEF Reachable, OnlyStableStates, RuleWhileGoverned, isFSMActive
<1>2. ~frame.abstain /\ i # NoRule /\ next = Governed(frame, st, i)
  BY DEF EvaluatePure
<1>3. i = FirstOf(Meeting(frame.risk)) /\ Meeting(frame.risk) # {}
  BY <1>1, <1>2 DEF selectRule
<1>4. hasSignal(frame) /\ i \in 1..Len(Rules) /\ frame.risk >= Rules[i].enter
  BY <1>1, <1>2, SelectRuleType, LenRules DEF NoRule
<1>5. s.state = "NORMAL"
  BY <1>1 DEF ConversationState
<1>6. next = [s EXCEPT !.state = "ACTIVE"]
  BY <1>2, <1>4, <1>5 DEF Governed, transitionFSM, FromNormal
<1>7. next.rule = i /\ next.state = "ACTIVE"
  BY <1>6 DEF ConversationState
<1>8. EvaluatePure(frame, st).decision.action = Rules[i].action
  BY <1>2, <1>7 DEF EvaluatePure, isFSMActive
<1> QED
  BY <1>3, <1>4, <1>7, <1>8

\* Without a usable signal an evaluation changes nothing; with one, a governed
\* conversation makes one step of the FSM under its own rule.
LEMMA EvaluateGoverned ==
  ASSUME NEW frame \in Frame, NEW st \in ConversationState, Reachable(st), st.rule # NoRule
  PROVE  /\ frame.abstain \/ ~hasSignal(frame) => EvaluatePure(frame, st).next = st
         /\ ~frame.abstain /\ hasSignal(frame)
              => EvaluatePure(frame, st).next = transitionFSM(st, frame.risk, Rules[st.rule])
<1>1. st.rule \in 1..Len(Rules) /\ isFSMActive(st.state) /\ [st EXCEPT !.rule = st.rule] = st
  BY LenRules DEF ConversationState, NoRule, Reachable, RuleWhileGoverned
<1> QED
  BY <1>1 DEF EvaluatePure, selectRule, Governed, NoRule

\* COOLDOWN is entered, and a conversation released, only by a signal below the
\* exit threshold of the governing rule; no such signal leaves COOLDOWN as it is.
LEMMA EvaluateCools ==
  ASSUME NEW frame \in Frame, NEW st \in ConversationState, Reachable(st)
  PROVE  LET next == EvaluatePure(frame, st).next
             dips == /\ st.rule # NoRule
                     /\ ~frame.abstain /\ hasSignal(frame)
                     /\ frame.risk < Rules[st.rule].exit
         IN  /\ next.state = "COOLDOWN" =>
                  \/ st.state # "COOLDOWN" /\ dips
                  \/ /\ next = st
                     /\ frame.abstain \/ ~hasSignal(frame)
             /\ st.rule # NoRule /\ next.rule = NoRule => st.state = "COOLDOWN" /\ dips
<1> DEFINE next == EvaluatePure(frame, st).next
           rule == Rules[st.rule]
<1>1. CASE st.rule = NoRule
  <2>1. st.state = "NORMAL" /\ ~isFSMActive(st.state)
    BY <1>1 DEF Reachable, OnlyStableStates, RuleWhileGoverned, isFSMActive
  <2>2. next.state # "COOLDOWN"
    BY <2>1 DEF EvaluatePure, Governed, transitionFSM, FromNormal, ConversationState
  <2> QED
    BY <1>1, <2>2
<1>2. CASE st.rule # NoRule /\ (frame.abstain \/ ~hasSignal(frame))
  BY <1>2, EvaluateGoverned
<1>3. CASE st.rule # NoRule /\ ~frame.abstain /\ hasSignal(frame)
  <2>1. next = transitionFSM(st, frame.risk, rule)
    BY <1>3, EvaluateGoverned
  <2>2. /\ frame.risk \in Int /\ rule \in Rule /\ CooldownRequests \in Nat
        /\ st.state \in {"ACTIVE", "COOLDOWN"}
    BY <1>3, LenRules, RiskType, RuleType, PolicyAssumption
       DEF ConversationState, NoRule, Validate, Reachable, RuleWhileGoverned,
           OnlyStableStates, isFSMActive
  <2>3. CASE st.state = "ACTIVE"
    <3>1. next = FromActive(st, frame.risk, rule)
      BY <2>1, <2>3 DEF transitionFSM
    <3>2. next.state = "COOLDOWN" => frame.risk < rule.exit
      BY <2>3, <3>1 DEF FromActive
    <3>3. next.rule = st.rule
      BY <3>1 DEF FromActive, ConversationState
    <3> QED
      BY <1>3, <2>3, <3>2, <3>3
  <2>4. CASE st.state = "COOLDOWN"
    <3>1. next = FromCooldown(st, frame.risk, rule)
      BY <2>1, <2>4 DEF transitionFSM
    <3>2. next.state # "COOLDOWN"
      BY <3>1 DEF FromCooldown, ConversationState
    <3>3. next.rule = NoRule => ~(frame.risk >= rule.exit)
      BY <1>3, <3>1 DEF FromCooldown, ConversationState
    <3> QED
      BY <1>3, <2>2, <2>4, <3>2, <3>3 DEF Rule
  <2> QED
    BY <2>2, <2>3, <2>4
<1> QED
  BY <1>1, <1>2, <1>3

\* A signal below every exit threshold engages nothing, starts the cool-down of an
\* ACTIVE conversation, and releases one that cools down without cool-down requests.
LEMMA EvaluateCalm ==
  ASSUME CooldownRequests = 0,
         NEW frame \in Frame, ~frame.abstain, hasSignal(frame),
         \A i \in 1..Len(Rules) : frame.risk < Rules[i].exit,
         NEW st \in ConversationState, Reachable(st)
  PROVE  LET next == EvaluatePure(frame, st).next
         IN  /\ next.rule # NoRule => next.state = "COOLDOWN"
             /\ st.state = "COOLDOWN" => next.rule = NoRule
             /\ st.rule = NoRule => next.rule = NoRule
<1> DEFINE next == EvaluatePure(frame, st).next
<1>1. CASE st.rule = NoRule
  <2>1. st.state = "NORMAL" /\ ~isFSMActive(st.state)
    BY <1>1 DEF Reachable, OnlyStableStates, RuleWhileGoverned, isFSMActive
  <2>2. Meeting(frame.risk) = {}
    <3>1. ASSUME NEW i \in 1..Len(Rules)
          PROVE  ~(frame.risk >= Rules[i].enter)
      <4>1. Rules[i] \in Rule /\ Rules[i].enter > Rules[i].exit /\ frame.risk \in Int
        BY RuleType, RiskType
      <4> QED
        BY <4>1 DEF Rule
    <3> QED
      BY <3>1 DEF Meeting
  <2>3. next = st
    BY <2>1, <2>2 DEF EvaluatePure, selectRule
  <2> QED
    BY <1>1, <2>1, <2>3
<1>2. CASE st.rule # NoRule
  <2> DEFINE rule == Rules[st.rule]
  <2>1. /\ st.rule \in 1..Len(Rules) /\ st.state \in {"ACTIVE", "COOLDOWN"}
        /\ st.cooldown = 0 \/ st.state = "ACTIVE"
    BY <1>2, LenRules DEF ConversationState, NoRule, Reachable, RuleWhileGoverned,
                          OnlyStableStates, isFSMActive, CooldownLevel
  <2>2. rule \in Rule /\ frame.risk \in Int /\ frame.risk < rule.exit
    BY <2>1, RuleType, RiskType
  <2>3. next = transitionFSM(st, frame.risk, rule)
    BY <1>2, EvaluateGoverned
  <2>4. CASE st.state = "ACTIVE"
    <3>1. next = [st EXCEPT !.state = "COOLDOWN", !.cooldown = CooldownRequests]
      BY <2>2, <2>3, <2>4 DEF transitionFSM, FromActive
    <3> QED
      BY <1>2, <2>4, <3>1 DEF ConversationState
  <2>5. CASE st.state = "COOLDOWN"
    <3>1. next = [st EXCEPT !.state = "NORMAL", !.rule = NoRule]
      BY <2>1, <2>2, <2>3, <2>5 DEF transitionFSM, FromCooldown, Rule
    <3> QED
      BY <1>2, <3>1 DEF ConversationState
  <2> QED
    BY <2>1, <2>4, <2>5
<1> QED
  BY <1>1, <1>2

\* A higher risk meets a rule that is listed at the same place or before.
LEMMA MeetingMonotonic ==
  ASSUME NEW low \in Int, NEW high \in Int, low <= high, Meeting(low) # {}
  PROVE  /\ Meeting(high) # {}
         /\ FirstOf(Meeting(low)) \in 1..Len(Rules)
         /\ FirstOf(Meeting(high)) \in 1..Len(Rules)
         /\ FirstOf(Meeting(high)) <= FirstOf(Meeting(low))
<1>1. \A i \in 1..Len(Rules) : Rules[i].enter \in Int
  BY RuleType DEF Rule
<1>2. Meeting(low) \subseteq Meeting(high)
  BY <1>1 DEF Meeting
<1>3. Meeting(low) \in SUBSET Nat /\ Meeting(high) \in SUBSET Nat /\ Meeting(high) # {}
  BY <1>2, LenRules DEF Meeting
<1>4. /\ FirstOf(Meeting(low)) \in Meeting(low)
      /\ FirstOf(Meeting(high)) \in Meeting(high)
      /\ \A j \in Meeting(high) : FirstOf(Meeting(high)) <= j
  BY <1>3, FirstOfIsLeast
<1> QED
  BY <1>2, <1>3, <1>4 DEF Meeting

=============================================================================
