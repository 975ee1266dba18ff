------------------------------- MODULE Telemetry ------------------------------
(***************************************************************************)
(* The metrics a proxy exports (internal/telemetry/metrics.go) and what its  *)
(* handlers add to them.  A vector of counters is the bag of the labels it    *)
(* was incremented with, without the mode, which is the same for the whole    *)
(* process.  Of the histograms the number of observations of InlineDuration   *)
(* is kept.                                                                   *)
(***************************************************************************)
EXTENDS Policy, Bags

FailOpenReasons == {"budget", "signal_error", "policy_error"}

IsVector(counters, labels) == IsABag(counters) /\ BagToSet(counters) \subseteq labels

NewMetrics ==
    [InlineDuration |-> 0, AbstainTotal |-> 0, KillSwitchPassthrough |-> 0,
     FailOpenTotal |-> EmptyBag, ActionApplied |-> EmptyBag,
     PolicyStateTransition |-> EmptyBag]

IsMetrics(m) ==
    /\ DOMAIN m = DOMAIN NewMetrics
    /\ m.InlineDuration \in Nat /\ m.AbstainTotal \in Nat /\ m.KillSwitchPassthrough \in Nat
    /\ IsVector(m.FailOpenTotal, FailOpenReasons)
    /\ IsVector(m.ActionApplied, Actions \X BOOLEAN)
    /\ IsVector(m.PolicyStateTransition, StabilityState \X StabilityState)

\* counters.WithLabelValues(label).Inc()
Inc(counters, label) == counters (+) SetToBag({label})

countKillSwitch(m) == [m EXCEPT !.KillSwitchPassthrough = @ + 1]

countAbstain(m) == [m EXCEPT !.AbstainTotal = @ + 1]

recordInline(m) == [m EXCEPT !.InlineDuration = @ + 1]

recordFailOpen(m, reason) == [m EXCEPT !.FailOpenTotal = Inc(@, reason)]

\* A variant of recordAction whose label does not follow the outcome.
recordActionUnapplied(m, action, enforceApplied) ==
    [m EXCEPT !.ActionApplied = Inc(@, <<action, FALSE>>)]

recordAction(m, action, enforceApplied) ==
    [m EXCEPT !.ActionApplied = Inc(@, <<action, enforceApplied>>)]

\* A variant of OnStateTransition for a caller that reads the previous state
\* after it has been overwritten, and so never sees a change.
OnStateTransitionLate(m, from, to) == m

\* The callback that main installs; Evaluate calls it when the state changes.
OnStateTransition(m, from, to) ==
    IF from = to THEN m ELSE [m EXCEPT !.PolicyStateTransition = Inc(@, <<from, to>>)]

-----------------------------------------------------------------------------
(***************************************************************************)
(* What a reader of the metrics concludes                                   *)
(***************************************************************************)

Total(counters, labels) ==
    BagCardinality([l \in BagToSet(counters) \cap labels |-> counters[l]])

Entered(m, state) == Total(m.PolicyStateTransition, StabilityState \X {state})

Left(m, state) == Total(m.PolicyStateTransition, {state} \X StabilityState)

=============================================================================
