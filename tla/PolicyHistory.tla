---------------------------- MODULE PolicyHistory -----------------------------
(***************************************************************************)
(* PolicyEngine with history variables that follow the signals of each      *)
(* conversation over many requests, for the properties that speak of a      *)
(* sequence of requests: how long a control is held, when it is released,   *)
(* and whether what engaged it justified it.  The signals are those that the *)
(* signal engine answers with.  The history is only written by the          *)
(* evaluations and constrains none of them.                                 *)
(***************************************************************************)
EXTENDS PolicyEngine, SignalEngine

\* The longest calm streak the properties tell apart; longer ones count as this.
CalmBound == 2 * (CooldownRequests + 1)

VARIABLES
    calm,     \* signals in a row below every exit threshold, capped at CalmBound
    lull,     \* signals in a row below the exit threshold of the governing rule
    opening   \* the signal that engaged the current control, and the action it got

historyVars == <<calm, lull, opening>>

NoOpening == [risk |-> NoSignal, action |-> "PASSTHROUGH"]

HistoryInit ==
    /\ Init
    /\ calm = [c \in Conversations |-> 0]
    /\ lull = [c \in Conversations |-> 0]
    /\ opening = [c \in Conversations |-> NoOpening]

Capped(n) == IF n > CalmBound THEN CalmBound ELSE n

\* The streak n after one more signal, of which below says whether it is calm.
Extended(n, below) == IF below THEN Capped(n + 1) ELSE 0

\* Frames without a usable signal neither extend nor break a streak.
Counts(frame) == ~frame.abstain /\ hasSignal(frame)

BelowAllExits(risk) == \A i \in 1..Len(Rules) : risk < Rules[i].exit

RecordEvaluation(g) ==
    LET c     == call[g].conversation
        frame == call[g].frame
        old   == Lookup(data, c)
        next  == Outcome(g).next
    IN  /\ calm' = IF Counts(frame)
                   THEN [calm EXCEPT ![c] = Extended(@, BelowAllExits(frame.risk))]
                   ELSE calm
        /\ lull' = IF Counts(frame) /\ old.rule # NoRule
                   THEN [lull EXCEPT ![c] =
                            Extended(@, frame.risk < Rules[old.rule].exit)]
                   ELSE lull
        /\ opening' =
             CASE old.rule = NoRule /\ next.rule # NoRule ->
                    [opening EXCEPT ![c] = [risk   |-> frame.risk,
                                            action |-> Outcome(g).decision.action]]
               [] old.rule # NoRule /\ next.rule = NoRule ->
                    [opening EXCEPT ![c] = NoOpening]
               [] OTHER -> opening

HistoryNext ==
    \E g \in Evaluators :
        \/ /\ \E c \in Conversations, frame \in SignalFrames : Begin(g, c, frame)
           /\ UNCHANGED historyVars
        \/ Evaluate(g) /\ RecordEvaluation(g)
        \/ (Fail(g) \/ Return(g)) /\ UNCHANGED historyVars

HistorySpec == HistoryInit /\ [][HistoryNext]_<<vars, historyVars>>

-----------------------------------------------------------------------------
(***************************************************************************)
(* Properties of a conversation's history                                   *)
(***************************************************************************)

IsGoverned(c) == Lookup(data, c).rule # NoRule

\* A conversation is released only after two signals in a row stayed below the
\* exit threshold of the rule that governs it: one dip never lifts a control,
\* whatever abstentions lie in between (the hysteresis of transitionFSM).
NoEarlyRelease ==
    [][\A c \in Conversations :
          IsGoverned(c) /\ Lookup(data', c).rule = NoRule => lull'[c] >= 2]_<<vars, historyVars>>

\* A conversation is under a rule only because some signal since it was last
\* NORMAL met that rule's enter threshold, and no earlier rule's: no sequence
\* of signals below the thresholds engages a control, and a control engaged
\* under one rule never drifts to another (selectRule's first match, kept).
JustifiedControl ==
    \A c \in Conversations :
        IsGoverned(c) => /\ opening[c].risk # NoSignal
                        /\ Lookup(data, c).rule = FirstOf(Meeting(opening[c].risk))
                        /\ opening[c].action = Rules[Lookup(data, c).rule].action

\* A conversation that is under a rule has sent a text the model was sure of: no
\* control rests on a text it could not tell, or on a heuristic guess, even under
\* a rule whose threshold lies within the model's uncertainty (post_model_abstain
\* against selectRule).
EngagedWithCertainty ==
    \A c \in Conversations : IsGoverned(c) => certainty(opening[c].risk) >= Tau

\* Controls are reversible: a conversation that has stayed calm long enough to
\* leave ACTIVE and to spend each of its cooldown_requests on one round trip
\* through ACTIVE is NORMAL again (the COOLDOWN --> NORMAL edge of the state
\* diagram in docs/policy-engine.md, at cooldown_remaining == 0).
ReleasedOnceCalm ==
    \A c \in Conversations : calm[c] >= CalmBound => ~IsGoverned(c)

\* A conversation engaged by a higher risk gets an action at least as strong as
\* one engaged by a lower risk (the order ActionStrength documents).
MonotonicStrength ==
    \A c, d \in Conversations :
        /\ opening[c].risk # NoSignal
        /\ opening[d].risk # NoSignal
        /\ opening[c].risk <= opening[d].risk
        => ActionStrength(opening[c].action) <= ActionStrength(opening[d].action)

=============================================================================
