----------------------------- MODULE EnforceBody ------------------------------
(***************************************************************************)
(* What enforcement does to the body of a chat completion                   *)
(* (internal/proxy/enforce.go).  A body is reduced to what the mutations and *)
(* the upstream call read or change: whether it decodes as a                 *)
(* chatCompletionBody, its max_tokens, its stream flag, how many system      *)
(* messages the proxy has put in front, and whether it still has the fields  *)
(* that chatCompletionBody does not name (model, temperature, ...).          *)
(***************************************************************************)
EXTENDS Integers, Sequences

CONSTANTS
    Detail,   \* the parts of the detail of the dampening rules: their max_tokens, or NoLimit
    NoLimit   \* a part, or a body, without max_tokens

ASSUME BodyAssumption == Detail \in Seq(Int \cup {NoLimit}) /\ NoLimit \notin Int

Body == [decodes : BOOLEAN, maxTokens : Int \cup {NoLimit}, stream : BOOLEAN,
         system : Nat, rest : BOOLEAN]

\* A variant of Remarshalled whose struct has no stream field.
RemarshalledUnstreamed(body) ==
    [body EXCEPT !.system = @ + 1, !.rest = FALSE, !.stream = FALSE]

\* Unmarshal keeps the fields of the struct, a system message is put in front,
\* and Marshal writes the fields of the struct.
Remarshalled(body) == [body EXCEPT !.system = @ + 1, !.rest = FALSE]

injectSystemContext(body) == Remarshalled(body)

\* The first part that sets a limit; a part that does not parse is skipped.
parseMaxTokens(detail) ==
    LET limits == {i \in DOMAIN detail : detail[i] # NoLimit}
    IN  IF limits = {} THEN 0 ELSE detail[CHOOSE i \in limits : \A j \in limits : i <= j]

dampenVerbosity(body) ==
    LET limit == parseMaxTokens(Detail)
    IN  [Remarshalled(body) EXCEPT !.maxTokens = IF limit > 0 THEN limit ELSE @]

Mutations     == {"DAMPEN_VERBOSITY", "INJECT_SYSTEM_CONTEXT"}
ShortCircuits == {"ESCALATE_HUMAN", "BLOCK_UNSAFE"}

\* The body an action of Mutations leaves, if it decodes.
ApplyActions(body, action) ==
    IF action = "DAMPEN_VERBOSITY" THEN dampenVerbosity(body) ELSE injectSystemContext(body)

=============================================================================
