------------------------------ MODULE MCServing -------------------------------
(* Instances of Serving for TLC.                                             *)
EXTENDS Serving

\* In ticks of five seconds.
OneTick == [w \in Waits |-> 1]

=============================================================================
