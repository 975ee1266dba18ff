---------------------------- MODULE MCPolicyHistory ---------------------------
(* Instances of PolicyHistory for TLC.                                       *)
EXTENDS PolicyHistory

\* The rules of policies/standard-safety-policy.yaml, in hundredths.
StandardRules ==
    << [enter |-> 90, exit |-> 70, action |-> "DAMPEN_VERBOSITY"],
       [enter |-> 75, exit |-> 55, action |-> "INJECT_SYSTEM_CONTEXT"] >>

\* The rules of TestMonotonicActionStrength, stronger actions at higher risk.
OrderedRules ==
    << [enter |-> 80, exit |-> 60, action |-> "INJECT_SYSTEM_CONTEXT"],
       [enter |-> 50, exit |-> 30, action |-> "DAMPEN_VERBOSITY"] >>

StandardRisks == {40, 55, 65, 75, 80, 95}

\* 50 meets a rule, and is too uncertain to be reported.
OrderedRisks == {20, 30, 50, 55, 65, 85}

=============================================================================
