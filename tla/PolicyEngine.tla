----------------------------- MODULE PolicyEngine -----------------------------
(***************************************************************************)
(* What the policy engine promises its callers: Evaluator.Evaluate, called  *)
(* concurrently by request goroutines, takes effect at one instant between  *)
(* its call and its return.  That instant reads the state of one            *)
(* conversation, computes EvaluatePure on it and stores the result.         *)
(*                                                                          *)
(* This is the abstract object; StateStore describes how the mutex of       *)
(* internal/policy/state.go implements it and Governance uses it.           *)
(***************************************************************************)
EXTENDS Policy

CONSTANTS
    Conversations,  \* the tenant:conversation keys
    Evaluators,     \* the goroutines that call Evaluate
    NoCall,         \* no evaluation in progress
    NoDecision,     \* the evaluation in progress has not taken effect
    Failed          \* the evaluation panicked

Call == [conversation : Conversations, frame : Frame]

ASSUME EvaluatorAssumption ==
    /\ NoCall \notin Call
    /\ NoDecision \notin Decision
    /\ Failed \notin Decision \cup {NoDecision}

VARIABLES
    data,      \* the states stored so far, by conversation
    call,      \* the evaluation each goroutine has asked for
    decision   \* the result of that evaluation

vars == <<data, call, decision>>

TypeOK ==
    /\ DOMAIN data \subseteq Conversations
    /\ \A c \in DOMAIN data : data[c] \in ConversationState
    /\ call \in [Evaluators -> Call \cup {NoCall}]
    /\ decision \in [Evaluators -> Decision \cup {NoDecision, Failed}]

Init ==
    /\ data = << >>
    /\ call = [g \in Evaluators |-> NoCall]
    /\ decision = [g \in Evaluators |-> NoDecision]

Begin(g, c, frame) ==
    /\ call[g] = NoCall
    /\ call' = [call EXCEPT ![g] = [conversation |-> c, frame |-> frame]]
    /\ UNCHANGED <<data, decision>>

\* The effect of the evaluation g has asked for.
Outcome(g) == EvaluatePure(call[g].frame, Lookup(data, call[g].conversation))

Evaluate(g) ==
    /\ call[g] # NoCall
    /\ decision[g] = NoDecision
    /\ data' = Put(data, call[g].conversation, Outcome(g).next)
    /\ decision' = [decision EXCEPT ![g] = Outcome(g).decision]
    /\ UNCHANGED call

\* A panic in the evaluation function (uuid.NewString does, when the system's
\* randomness fails) leaves the conversation as it was.
Fail(g) ==
    /\ call[g] # NoCall
    /\ decision[g] = NoDecision
    /\ decision' = [decision EXCEPT ![g] = Failed]
    /\ UNCHANGED <<data, call>>

Return(g) ==
    /\ decision[g] # NoDecision
    /\ call' = [call EXCEPT ![g] = NoCall]
    /\ decision' = [decision EXCEPT ![g] = NoDecision]
    /\ UNCHANGED data

Next ==
    \E g \in Evaluators :
        \/ \E c \in Conversations, frame \in Frame : Begin(g, c, frame)
        \/ Evaluate(g)
        \/ Fail(g)
        \/ Return(g)

Spec == Init /\ [][Next]_vars

-----------------------------------------------------------------------------
(***************************************************************************)
(* Safety of the stored states                                             *)
(***************************************************************************)

\* Every stored conversation state is one the FSM of the code can reach: a stable
\* state, with a governing rule exactly when it is governed, and with the
\* counter at the level its state calls for (transitionFSM and the sticky
\* branch of selectRule, which is only taken with a rule index in range).
FSMInvariant ==
    \A c \in DOMAIN data : Reachable(data[c])

\* What a step may do to the rule a conversation is governed by.
KeepsRuleOrReleases(c) ==
    LET old == Lookup(data, c)
        new == Lookup(data', c)
    IN  old.rule # NoRule /\ new.rule # old.rule
          => old.state = "COOLDOWN" /\ new = defaultState /\ CooldownRequests = 0

\* A governed conversation stays under the rule that engaged it whatever any
\* goroutine evaluates for it; the only way out is a release to the default
\* state, from COOLDOWN, under a policy without cool-down requests.
RulePinned == [][\A c \in Conversations : KeepsRuleOrReleases(c)]_vars

=============================================================================
