----------------------------- MODULE MCGovernance -----------------------------
(* Instances of Governance for TLC.                                          *)
EXTENDS Governance

CONSTANTS r1, r2, c1, acme

\* Both requests of the same conversation, on either side of a canary of one half.
TwoRequests == {r1, r2}
OneConversation == [r \in TwoRequests |-> c1]
OneTenant == [r \in TwoRequests |-> acme]
EitherSide == [r \in TwoRequests |-> IF r = r1 THEN 49 ELSE 50]

Env(mode, canaryPct, kill) == [mode |-> mode, canaryPct |-> canaryPct, kill |-> kill]

\* The default; enforcement and a canary set in the environment; a file that
\* changes the mode and the percentage of the environment; enforcement under the
\* kill switch; and a mode that Load refuses.
Settings ==
    { [env |-> Env("unset", 0, "unset"),   file |-> NoFile],
      [env |-> Env("enforce", 0, "false"), file |-> NoFile],
      [env |-> Env("enforce", 10, "unset"), file |-> [mode |-> "canary", canaryPct |-> 50]],
      [env |-> Env("canary", 50, "true"),  file |-> [mode |-> "enforce", canaryPct |-> 0]],
      [env |-> Env("Enforce", 0, "unset"), file |-> NoFile] }

AllDeployments == {[env |-> s.env, file |-> s.file, client |-> c] :
                      s \in Settings, c \in {"connected", "nil"}}

\* A short circuit above a mutation, one of each kind in either policy, with one
\* value for each rule and one below both.
BlockAndDampen ==
    << [enter |-> 90, exit |-> 70, action |-> "BLOCK_UNSAFE"],
       [enter |-> 75, exit |-> 55, action |-> "DAMPEN_VERBOSITY"] >>

EscalateAndInject ==
    << [enter |-> 90, exit |-> 70, action |-> "ESCALATE_HUMAN"],
       [enter |-> 75, exit |-> 55, action |-> "INJECT_SYSTEM_CONTEXT"] >>

TwoRuleRisks == {40, 80, 95}

\* The first part sets no limit, the second does, and the third comes too late.
TwoLimits == << NoLimit, 128, 32 >>

\* A chat completion that asks for a stream and has fields that the proxy does not name.
Asking(maxTokens, decodes) ==
    [decodes |-> decodes, maxTokens |-> maxTokens, stream |-> TRUE, system |-> 0, rest |-> TRUE]

\* A plain one that asks for more tokens than the dampening allows, and one whose message
\* content is a list of parts, which chatCompletionBody cannot hold.
PlainAndMultipart == {Asking(256, TRUE), Asking(64, FALSE)}

\* A plain one that asks for fewer tokens than the dampening allows.
PlainAndModest == {Asking(64, TRUE)}

=============================================================================
