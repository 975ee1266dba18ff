----------------------------- MODULE SignalEngine -----------------------------
(***************************************************************************)
(* What the signal engine answers (signal-engine/main.py, model/inference.py, *)
(* model/abstain.py, heuristics.py).  A text is reduced to the class its      *)
(* length puts it in and to the calibrated score the model gives it, in       *)
(* hundredths; features, model and calibration are not modelled.              *)
(***************************************************************************)
EXTENDS Policy

CONSTANT
    Tau  \* abstain_tau of the calibration, in hundredths

ASSUME ThresholdAssumption == Tau \in 0..100 /\ Risks \subseteq 0..100

\* Stripped of blanks: nothing, fewer than MIN_TEXT_LEN characters, or more.
Text == {"empty", "short", "long"}

abstain_frame == [abstain |-> TRUE, risk |-> NoSignal]

pre_model_abstain(text) == text \in {"empty", "short"}

\* How sure the model is of the more likely outcome.
certainty(score) == IF score >= 50 THEN score ELSE 100 - score

\* A variant of post_model_abstain that tests the score itself.
post_model_abstain_score(score) == score < 100 - Tau

\* The model is uncertain: its score is near one half.
post_model_abstain(score) == certainty(score) < Tau

\* The heuristic frame has frustration and urgency, and no failure_risk.
analyze_text(text) ==
    IF pre_model_abstain(text) THEN abstain_frame
    ELSE [abstain |-> FALSE, risk |-> NoSignal]

\* ModelAnalyzer.analyze, with a model that has been loaded.
analyze(text, score) ==
    IF pre_model_abstain(text) \/ post_model_abstain(score) THEN abstain_frame
    ELSE [abstain |-> FALSE, risk |-> score]

\* inferred: the model has been loaded and its inference raises no exception.
ProcessSignal(text, score, inferred) ==
    IF inferred THEN analyze(text, score) ELSE analyze_text(text)

\* The frames that the engine answers with.
SignalFrames ==
    {ProcessSignal(text, score, inferred) :
        text \in Text, score \in Risks, inferred \in BOOLEAN}

=============================================================================
