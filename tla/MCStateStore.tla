----------------------------- MODULE MCStateStore -----------------------------
(* Instances of StateStore for TLC.                                          *)
EXTENDS StateStore, TLC

OneRule == << [enter |-> 75, exit |-> 55, action |-> "INJECT_SYSTEM_CONTEXT"] >>

\* Below both thresholds, and above both.
TwoRisks == {40, 80}

\* Above both thresholds.
OneRisk == {80}

Symmetry == Permutations(Evaluators) \cup Permutations(Conversations)

=============================================================================
