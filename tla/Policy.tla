-------------------------------- MODULE Policy --------------------------------
(***************************************************************************)
(* The policy artifact and the pure evaluation function of                 *)
(* internal/policy: rule selection, the hysteresis/cooldown FSM and the    *)
(* decision they produce.  Everything here is constant-level; the modules  *)
(* that keep state apply these operators.                                  *)
(*                                                                         *)
(* A rule is the record of PolicyRule without its signal name and params:  *)
(* Validate admits the single signal name "failure_risk", so every rule    *)
(* reads that signal, and params only become the text of an action.        *)
(* Thresholds and signal values are integers (hundredths of the float32);  *)
(* the code only compares them.  Rule indices are 1-based and 0 stands for *)
(* the -1 of MatchedRuleIndex.                                             *)
(***************************************************************************)
EXTENDS Integers, Sequences

CONSTANTS
    Rules,             \* the ordered rules of the loaded policy
    CooldownRequests,  \* cooldown_requests of the loaded policy
    Risks,             \* the failure_risk values the signal engine may report
    NoSignal           \* a frame that carries no failure_risk signal

Actions == {"PASSTHROUGH", "DAMPEN_VERBOSITY", "INJECT_SYSTEM_CONTEXT",
            "ESCALATE_HUMAN", "BLOCK_UNSAFE"}

Rule == [enter : Int, exit : Int, action : Actions]

\* Startup refuses a policy that fails this check.
Validate ==
    /\ CooldownRequests \in Nat
    /\ Rules \in Seq(Rule)
    /\ Rules # << >>
    /\ \A i \in 1..Len(Rules) : Rules[i].enter > Rules[i].exit

ASSUME PolicyAssumption == Validate
ASSUME SignalAssumption == Risks \subseteq Int /\ NoSignal \notin Int

-----------------------------------------------------------------------------
(***************************************************************************)
(* Signal frames and conversation states                                   *)
(***************************************************************************)

\* What policy evaluation reads of a SignalFrame.  An abstaining frame carries
\* no signals; a heuristic frame carries signals no rule reads.
Frame == {f \in [abstain : BOOLEAN, risk : Risks \cup {NoSignal}] :
             f.abstain => f.risk = NoSignal}

hasSignal(frame) == frame.risk # NoSignal

StabilityState == {"UNSPECIFIED", "NORMAL", "HYSTERESIS_ENTRY", "ACTIVE", "COOLDOWN"}

NoRule == 0

\* LastSignalValue is written and never read, so it is left out.
ConversationState ==
    [state : StabilityState, cooldown : Nat, rule : 0..Len(Rules)]

defaultState == [state |-> "NORMAL", cooldown |-> 0, rule |-> NoRule]

isFSMActive(state) == state \in {"ACTIVE", "COOLDOWN", "HYSTERESIS_ENTRY"}

-----------------------------------------------------------------------------
(***************************************************************************)
(* Evaluation                                                              *)
(***************************************************************************)

\* A variant of Meeting that reads the exit thresholds.
MeetingExits(risk) == {i \in 1..Len(Rules) : risk >= Rules[i].exit}

Meeting(risk) == {i \in 1..Len(Rules) : risk >= Rules[i].enter}

FirstOf(S) == CHOOSE i \in S : \A j \in S : i <= j

\* A variant of selectRule without the sticky branch.
selectRuleUnpinned(frame, st) ==
    IF ~hasSignal(frame) \/ Meeting(frame.risk) = {} THEN NoRule
    ELSE FirstOf(Meeting(frame.risk))

\* A governed conversation keeps its rule; any other takes the first rule met.
selectRule(frame, st) ==
    IF ~hasSignal(frame) THEN NoRule
    ELSE IF isFSMActive(st.state) /\ st.rule \in 1..Len(Rules) THEN st.rule
    ELSE IF Meeting(frame.risk) = {} THEN NoRule
    ELSE FirstOf(Meeting(frame.risk))

FromNormal(st, risk, rule) ==
    IF risk >= rule.enter THEN [st EXCEPT !.state = "ACTIVE"] ELSE st

\* A variant of FromActive that counts the request that starts the cool-down.
FromActiveEager(st, risk, rule) ==
    IF risk < rule.exit
    THEN [st EXCEPT !.state = "COOLDOWN", !.cooldown = CooldownRequests - 1]
    ELSE st

FromActive(st, risk, rule) ==
    IF risk < rule.exit
    THEN [st EXCEPT !.state = "COOLDOWN", !.cooldown = CooldownRequests]
    ELSE st

\* A variant of FromCooldown that releases although cool-down requests remain.
FromCooldownDrained(st, risk, rule) ==
    IF risk >= rule.exit
    THEN [st EXCEPT !.state = "ACTIVE", !.cooldown = 0]
    ELSE [st EXCEPT !.state = "NORMAL", !.rule = NoRule]

\* A variant of FromCooldown whose release test is off by one.
FromCooldownOffByOne(st, risk, rule) ==
    IF risk >= rule.exit THEN [st EXCEPT !.state = "ACTIVE", !.cooldown = 0]
    ELSE IF st.cooldown >= 0 THEN [st EXCEPT !.state = "ACTIVE", !.cooldown = @ - 1]
    ELSE [st EXCEPT !.state = "NORMAL", !.rule = NoRule]

\* A variant of FromCooldown that does not look at the signal.
FromCooldownUnchecked(st, risk, rule) ==
    IF st.cooldown > 0 THEN [st EXCEPT !.state = "ACTIVE", !.cooldown = @ - 1]
    ELSE [st EXCEPT !.state = "NORMAL", !.rule = NoRule]

FromCooldown(st, risk, rule) ==
    IF risk >= rule.exit THEN [st EXCEPT !.state = "ACTIVE", !.cooldown = 0]
    ELSE IF st.cooldown > 0 THEN [st EXCEPT !.state = "ACTIVE", !.cooldown = @ - 1]
    ELSE [st EXCEPT !.state = "NORMAL", !.rule = NoRule]

transitionFSM(st, risk, rule) ==
    CASE st.state \in {"UNSPECIFIED", "NORMAL"}      -> FromNormal(st, risk, rule)
      [] st.state \in {"HYSTERESIS_ENTRY", "ACTIVE"} -> FromActive(st, risk, rule)
      [] st.state = "COOLDOWN"                       -> FromCooldown(st, risk, rule)

\* The state a non-abstaining frame leads to once rule i has been selected.
Governed(frame, st, i) == transitionFSM([st EXCEPT !.rule = i], frame.risk, Rules[i])

Decision == [action : Actions, state : StabilityState, passthrough : BOOLEAN]

EvaluatePure(frame, st) ==
    LET i    == IF frame.abstain THEN NoRule ELSE selectRule(frame, st)
        next == Governed(frame, st, i)
    IN  IF i = NoRule
        THEN [decision |-> [action |-> "PASSTHROUGH", state |-> st.state,
                            passthrough |-> TRUE],
              next |-> st]
        ELSE [decision |-> [action |-> IF isFSMActive(next.state)
                                       THEN Rules[i].action
                                       ELSE "PASSTHROUGH",
                            state |-> next.state, passthrough |-> FALSE],
              next |-> next]

\* The order the code documents for the strength of the actions.
ActionStrength(action) ==
    CASE action = "PASSTHROUGH"           -> 0
      [] action = "DAMPEN_VERBOSITY"      -> 1
      [] action = "INJECT_SYSTEM_CONTEXT" -> 2
      [] action = "ESCALATE_HUMAN"        -> 3
      [] action = "BLOCK_UNSAFE"          -> 4

-----------------------------------------------------------------------------
(***************************************************************************)
(* The conversation states the FSM of the code can reach                    *)
(***************************************************************************)

\* HYSTERESIS_ENTRY is overwritten within the transition that sets it, and
\* nothing ever stores UNSPECIFIED.
OnlyStableStates(st) == st.state \in {"NORMAL", "ACTIVE", "COOLDOWN"}

\* A rule index is held exactly while the conversation is governed.
RuleWhileGoverned(st) == isFSMActive(st.state) <=> st.rule # NoRule

\* The counter is full whenever a conversation cools down, and an ACTIVE
\* conversation carries at most the one decrement of the last cool-down: the
\* counter is re-armed before it can drain any further.  docs/policy-engine.md has it
\* drain to zero in COOLDOWN instead; that it cannot is what ReleasedOnceCalm shows.
CooldownLevel(st) ==
    CASE st.state = "NORMAL"   -> st.cooldown = 0
      [] st.state = "ACTIVE"   -> st.cooldown \in {0, CooldownRequests - 1}
      [] st.state = "COOLDOWN" -> st.cooldown = CooldownRequests
      [] OTHER -> FALSE

Reachable(st) == OnlyStableStates(st) /\ RuleWhileGoverned(st) /\ CooldownLevel(st)

-----------------------------------------------------------------------------
(***************************************************************************)
(* The store's map, with a missing key read as the default state           *)
(***************************************************************************)

\* A variant of Lookup that reads a missing key as Go's zero value.
LookupZero(data, conv) ==
    IF conv \in DOMAIN data THEN data[conv]
    ELSE [state |-> "UNSPECIFIED", cooldown |-> 0, rule |-> 1]

Lookup(data, conv) == IF conv \in DOMAIN data THEN data[conv] ELSE defaultState

Put(data, conv, st) ==
    [k \in DOMAIN data \cup {conv} |-> IF k = conv THEN st ELSE data[k]]

=============================================================================
