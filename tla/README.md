# HSAR in TLA+

A verification development for HSAR, a fail-open governance proxy between users
and a language model. It models the proxy's control flow: the policy engine with
its hysteresis/cooldown FSM, the store of conversation states, inline and shadow
governance, rollout, the tenants' configuration and rate limiting, the metrics and
spans it leaves behind, the signal engine's choice of answer, and the life of a process
from its startup over the streaming of answers to its shutdown. TLC checks small
instances of every module; TLAPS proves every safety property that those runs check, the
three refinements included, for every policy, every history of signals, every rollout
setting and any number of requests, conversations and goroutines. All paths below are
relative to the repository's root; line numbers of every modelled definition are in
`PROJECT.json` ("map").

## The system

| Component | State it keeps | Operations | Talks to |
|---|---|---|---|
| Policy evaluation (`internal/policy/evaluator.go`, `state.go`) | none of its own; reads the loaded policy | `EvaluatePure` (rule selection, FSM step, decision), `Evaluate` | the state store, by a callback run under its mutex |
| State store (`internal/policy/state.go`) | `data`: FSM state by `tenant:conversation`, one mutex | `Update`, `Get` (tests only) | called by handlers and shadow goroutines |
| Policy loading (`internal/policy/policy.go`) | the policy, fixed after startup | `Load`, `Validate` | |
| Inline governance (`internal/proxy/inline.go`) | per request: budget context, frame, decision, body to forward | `WithInlineGovernance`, `recordFailOpen`, `evaluateSafe` | signal engine (RPC), evaluator, next handler |
| Shadow analysis (`internal/proxy/shadow.go`, `internal/engine/client.go`) | one goroutine per analysed request | `WithShadowSignalAnalysis`, `ShadowGetSignals` | signal engine, evaluator |
| Rollout (`internal/proxy/rollout.go`) | the configuration, and the kill switch, read again at each request | `ShouldEnforce`, `ShouldRunShadowAsync`, `InCanaryCohort` | asked by inline governance and shadow analysis |
| Action application (`internal/proxy/enforce.go`) | none | `ApplyActions` | inline governance |
| Rate limiter (`internal/proxy/ratelimit.go`) | one token bucket per tenant, one mutex | `allow` | ingress chain |
| Ingress (`internal/proxy/auth.go`, `middleware.go`) | none | method, API key, trace ID, deadline, logging | |
| Upstream (`internal/proxy/upstream.go`, `stream.go`) | none | forward, copy or stream the answer | the model's API |
| Configuration (`internal/config/config.go`) | fixed after startup | `Load` | rollout, rate limiter, authentication |
| Lifecycle (`cmd/proxy/main.go`) | the process | startup with or without the signal engine, shutdown, deferred calls | signal engine (dial), collector (flush) |
| Signal engine (`signal-engine/`) | the loaded model | `ProcessSignal`: model frame, heuristic frame or abstention | RPC server |
| Telemetry (`internal/telemetry`, `observability.go`, `telemetry_ctx.go`) | counters; spans queued for the collector; the `GovernanceRecord` of a request | the recorders, `OnStateTransition`, the attributes of the root span | read by operators only |

A request passes the ingress checks and the rate limiter, then inline governance,
then shadow analysis, then the upstream. Inline governance asks the signal engine
within a budget, steps the FSM of the request's conversation and changes the
request or answers it; shadow analysis does the same in a goroutine of its own
without touching the request. Both step the *same* conversation states.

### What is hard, and what makes it right

* **Concurrency.** Any number of handlers and shadow goroutines evaluate the same
  conversation at once. Right: every evaluation takes effect at one instant, no
  update is lost, a request steps its conversation at most once.
* **Failure.** RPC errors, panics of the evaluation, bodies that cannot be
  rewritten, a signal engine that is down at startup. Right: the request leaves
  as it came, the mutex is released, the process survives.
* **Timeouts.** The inline budget races the answer of the signal engine; the
  request deadline races the upstream. Right: every request is answered.
* **Long histories.** What a conversation's control is depends on every signal it
  has seen. Right: controls are justified, kept, strong enough, and released.
* **Time that runs out in the middle.** Streamed answers outlast the request
  deadline, requests outlast a shutdown, clients stop reading. Right: every request ends
  that its client lets end, and a shutdown cuts off only what has outlasted its grace
  period.
* **Telling what happened.** A request is described four times: in its trace, its
  warning, its counters and its span, each written at another place. Right: they agree
  with each other and with what was done to the traffic.
* **Settings from two places.** Mode and percentage come from file or environment, the
  kill switch from the environment at every request. Right: exactly the requests the
  operator selected are changed, and each one is analysed on one path.
* **Lazy time.** Buckets are refilled on demand. Right: no window of time admits
  more than burst and rate allow; idling and rejections change nothing.

`PROJECT.json` lists the hazards one by one at their lines ("hazards"), with the
properties that guard against each, or the reason why none does.

## The modules

```
Policy ─┬─ PolicyEngine ─── PolicyHistory (also EXTENDS SignalEngine) ── MCPolicyHistory
        │      ▲  ▲
        │      │  └── refined by ── StateStore ── MCStateStore
        │      └── refined by ── Governance ── MCGovernance
        ├─ Telemetry ─────────────┤
        │           EnforceBody ──┤   (EXTENDS)
        │           Rollout ──────┘
        └─ SignalEngine
TokenBucket ◄── refined by ── RateLimiter (EXTENDS TenantConfig) ── MCRateLimiter
Serving ── MCServing

Proofs: PolicyProofs ─┬─ PolicyHistoryProofs
                      ├─ StateStoreProofs
                      └─ GovernanceProofs (also EXTENDS RolloutProofs) ── TelemetryProofs
        RateLimiterProofs
        ServingProofs
```

**Policy** holds the pure operators, named as in the code: `selectRule`,
`transitionFSM` (one operator per source state), `EvaluatePure`. `Validate` is
the assumption on the constants. Signal values and thresholds are integers, since
the code only compares them; a frame is its abstain flag and its `failure_risk`
value, or `NoSignal` for the heuristic frames, whose signals no valid policy
reads. Rule indices are 1-based, 0 stands for -1. `LastSignalValue` is written
and never read, and is left out. Operators described as "a variant of" are the
faults that show each property can fail; no specification uses them.

**PolicyEngine** is the abstract object that callers of `Evaluate` rely on:
`Begin`, then one atomic `Evaluate` or `Fail`, then `Return`.

**PolicyHistory** adds history variables to it: the calm streak of a
conversation, the streak below its own rule's exit threshold, and the signal that
engaged its control. Its properties are about sequences of requests, whose
signals are the answers of `SignalEngine`.

**SignalEngine** is `ProcessSignal`: the model's frame, the heuristic frame that an
unavailable model or an inference error falls back to, or an abstention on texts
that are too short or scores that are too near one half. A text is its class of
length and the score the model gives it.

**StateStore** is `StateStore.Update` and `Evaluator.Evaluate` step by step:
`Lock`, `Load`, `Apply` or `Panic`, `Store`, `Unlock`, `Return`. It implements
`PolicyEngine`; the mapping hides the mutex and lets an evaluation take effect
when its result is stored or when it has panicked.

**Rollout** is `Load` of mode, percentage and kill switch from environment and file,
and the two predicates that choose a request's path. A request ID is its bucket,
FNV-32a modulo 100, and the comparison with the percentage is the code's.

**EnforceBody** is `ApplyActions`. A body is whether it decodes as a
`chatCompletionBody`, its `max_tokens` and `stream` fields, the number of system
messages in front, and whether the fields that the struct does not name are still
there. `Detail` is what the parts of a rule's detail say of `max_tokens`.

**Telemetry** is the counters and what handlers add to them. A counter vector is the bag
of the labels it was incremented with. `Entered` and `Left` are sums over the transition
counter, as a dashboard forms them.

**Governance** composes these: the path of a request, for several requests at once. The
variable `req` holds the handler of each request (where it is, its frame, decision and
body, its `GovernanceRecord`, its fail-open reason and its reply), `shadow` its shadow
goroutine, `traces` what `LogTrace` logged for it, `metrics` the counters, `received`
what the upstream got, and `SpanAttrs` what `WithObservability` puts on its span.
`deployed` is how the process was started: environment, file, and whether the signal
engine was reachable. `cfg` is what `Load` makes of it; settings that `Load` refuses are
no initial state. (The kill switch is read from the environment at each request; nothing
in the process changes its environment, so it is constant.) An action ends where the
handler waits or where others can see what it did, which is why `EvaluatePolicy` is one
action: `StateStore` justifies that, and `UsesEngine` checks that the handlers keep to
the engine's protocol.

**RateLimiter** is `allow` with its lazy refill, **TokenBucket** the bucket that
is refilled as time passes. A tenant has a *set* of limits, because `allow` takes
the limit of whichever of its API keys the map iteration meets first. The tenants
come from **TenantConfig**, the `Load` of file, `TENANT_API_KEYS`, developer key and
defaults. The defaults are applied as they are (`config.go:87-92`), so limits, and with
them the amounts in buckets, are integers of either sign.

**Serving** is `main` and the handlers it serves, on a clock of ticks. `phase` is where
`main` is: it dials the signal engine, listens, serves, drains its handlers, closes the
client and flushes the spans; `waited` counts the ticks it has spent in each of the
three phases in which it waits for others, and `Limit` bounds them. The process ends as
`exited` (main returned), `failed` (`os.Exit(1)`, which skips the deferred calls) or
`killed` (SIGTERM before `signal.Notify`). `conn[r]` is the handler of request `r` as its
client sees it: what it has read, what the client has been sent, which differ by what
the server buffers, and the request's span on its way to the collector. Chunks stand for
the reads of 1024 bytes, `Buffer` for the buffer of `net/http`. A chunk that is flushed or
overflows the buffer leaves the handler `writing` until the client has read it
(`ClientReads`) or gone away (`ClientLeaves`); a handler that has returned is `finishing`
until the server has written what it still holds. The request deadline ends what it can
cancel (`Cancellable`): the call of the upstream and the reading of its answer, not a
write (`Blocked`).

## What TLC checks

| Run | Instance | Question |
|---|---|---|
| `history_standard` | shipped policy (3 cool-down requests), 2 conversations, a risk on each side of every threshold and two thresholds themselves, abstention and heuristic frames | `FSMInvariant`, `JustifiedControl` |
| `history_releasing` | rules ordered by strength, one with its threshold within the model's uncertainty, no cool-down requests, 2 conversations, 2 callers | `RulePinned`, `NoEarlyRelease`, `EngagedWithCertainty`, `ReleasedOnceCalm`, `MonotonicStrength`, `TypeOK` |
| `history_calm` | shipped policy | `ReleasedOnceCalm` is **violated** |
| `store` | 3 goroutines, 1 conversation, panics | `MutualExclusion`, `NoLostUpdate`, `Linearizable`, `EvaluationReturns`, `TypeOK` |
| `governance_safety` | 2 requests of one conversation, in buckets 49 and 50; five settings (default, enforce, a file with a canary of 50 over an environment that says enforce, enforce in the file under a kill switch, a mode `Load` refuses), each with and without a client; block and dampen rules; a body that decodes and asks for more tokens (256) than the dampening allows, and one that does not decode | the fail-open, rollout, short-circuit, body, trace and counter properties, `UsesEngine`, and `Answered` under fairness |
| `governance_shadow` | the same | `ShadowFailureHarmless` is **violated** |
| `governance_budget` | escalate and inject rules | `BudgetRespected` is **violated** |
| `governance_body` | as `governance_safety`, with a body that asks for fewer tokens (64) than the dampening allows (128) | `MutatedAsDocumented` is **violated**, in both of its parts |
| `governance_span` | as `governance_safety` | `SpanNamesTenant` is **violated** |
| `rate_limiter` | a file with overwritten, open and keyless entries and an environment that takes one over: 2 tenants with two limits each, the defaults' negative rate in one of them; tokens in quarters, 7 ticks | `WindowBound`, `RefusedWhenSpent`, `RefillsContinuously`, `TypeOK` |
| `serving` | 2 requests, ticks of five seconds (deadline 3; dial, grace and flush 1 each), answers of up to 2 chunks, a buffer of one, clients that read, go away or do neither, under fairness | `Ended`, `Serves`, `Stops`, `GraceHonoured`, `SpansKept`, `TypeOK` |
| `serving_flush` | one request | `Flushed` is **violated** |

**Why the bounds are enough.** FSM properties speak of one conversation, or of
two for `MonotonicStrength`; two conversations also show that one never disturbs
another. Two rules suffice for first-match and stickiness, and the risks hit
every side of every threshold. Streaks are capped at `CalmBound` =
2 × (cooldown_requests + 1), one more round trip than the code could need. Three
goroutines are the fewest of which one can starve while two others take turns. Two
requests are the fewest that can share a conversation, inside and outside of the
cohort, inline and in the shadow; buckets 49 and 50 lie on either side of the canary's
edge. Each policy of `MCGovernance` has a short circuit above a mutation, so a
conversation engaged by one request can change the other. Seven ticks refill the
slowest bucket once from empty and overfill it. In `Serving` the shutdown may come at
any tick of either request's deadline, which is longer than the grace period, as in the
code, and one request may outlast the grace while the other ends within it; two chunks
overflow the buffer, one stays in it. `MCRateLimiter` has tenants, so the developer key
(`withDevTenant`) is not exercised; nor is a default burst of less than a token, which
only the theorems cover. Requests are finite and one-shot, and the process may
crash or stop, so the governance and serving runs do not check for deadlock; all
other runs do, except that time simply ends at `Horizon` in `RateLimiter`, where
requests continue for ever.

**Fairness.** `StateStore`: goroutines that can run do run (weak fairness of
every step after the lock), and the lock is strongly fair, since `sync.Mutex`
hands it to a waiter that has starved for a millisecond. `Governance`: weak fairness of
`Driven(r)`, what moves the handler of `r` without anybody's help: its own code, the
inline budget, which makes a pending RPC fail, and the request deadline, which makes the
upstream call fail. Answers of the signal engine and of the upstream are outside of it,
and so are the shadow goroutines. One condition for all of a handler's steps suffices,
because a handler is at one place at a time. `Serving`: time passes (`Tick`), `main` goes
on when it need not wait or has waited long enough (`MainRuns`), and the request deadline
fires; timers are prompt, so no tick passes over one that is due. Nothing is assumed of
the signal engine, the upstream, the clients or the collector: a connection, an answer, a
read and an export may each never come. `Ended` therefore promises an end only to a
request whose handler is not `Blocked` for ever: the server's `WriteTimeout` is 0
(`main.go:132`), so nothing else would end it. `Answered` of `Governance` is about the
reply a handler decides on, not about how long its client takes to read it.

## What the model shows of the code

Disagreements between the code and its documentation, each with a TLC trace
("findings" in `PROJECT.json`):

1. **A control is never released** under a policy with `cooldown_requests` ≥ 1,
   the shipped one included. COOLDOWN goes back to ACTIVE while the counter is
   positive (`state.go:86-89`), and the next calm signal arms the counter anew
   (`state.go:78`), so COOLDOWN always sees the full counter and the edge to
   NORMAL of `docs/policy-engine.md:68` cannot be taken. The theorem
   `RulesArePinned` shows it of the policy engine for every such policy, and
   `ControlsAreKept` of the whole proxy, through failures and panics.
2. **A missing signal engine can end the process.** The nil `*engine.Client` of a
   failed startup connection is passed as a non-nil interface (`main.go:74-78`,
   `shadow.go:30`), and the shadow goroutine dereferences it, against
   `docs/architecture.md:91`. Inline governance tests `client.Evaluator()`, which
   is safe on a nil receiver, and is not affected.
3. **The budget bounds only the RPC**, not governance (`docs/architecture.md:11`).
4. **Dampening raises `max_tokens`.** It replaces the limit of the request by that of the
   policy (`enforce.go:91-93`), and a request that asked for less is raised to it, where
   `docs/policy-engine.md:78` says "Clamp" and `docs/threat-model.md:107` speaks of a cap.
5. **A mutated request loses what the struct does not name.** The body goes through
   `chatCompletionBody` (`enforce.go:83`, `:96`): `model`, `temperature`, `tools` and
   every message field but role and content are gone, where
   `docs/policy-engine.md:77` speaks of a prepended system message. Findings 4 and 5 share
   the run `governance_body`: its only mutation is a dampening to 128, its body asks for
   64, so the body that the upstream receives there breaks both parts of
   `MutatedAsDocumented`. The other runs keep the case of finding 4 apart
   (`AsksForLess` in `RewriteAccounted`).
6. **Every span names the default tenant.** `WithObservability` looks the tenant up in
   the context it made itself (`observability.go:41`), while `WithAuth` puts it into the
   context it hands inward (`auth.go:22-23`), against `docs/threat-model.md:94`. The
   trace of the same request, logged further inward, has the right one.
7. **Streamed answers are not flushed** behind the chain of `main.go`: its
   `responseWrapper` is no `http.Flusher` (`stream.go:10`), against `upstream.go:116`.
   With `Wrapped = FALSE`, the handler alone as the repository's test serves it,
   `Flushed` holds.

Read from the code and visible in the models, without a run of their own:

* A mutation that fails leaves no `policy_trace` (`inline.go:164-169`, against
  `docs/architecture.md:55`, which promises one when a mutation is attempted), though the
  FSM has stepped (`ApplyFails`, the exception in `EvaluationTraced`).
* A client that stays connected and stops reading holds its handler in a write that
  nothing bounds, neither the request deadline of 15 seconds nor the server
  (`WriteTimeout: 0`, `main.go:132`); a shutdown waits its whole grace for it and then
  cuts it off (`Blocked`, the second disjunct of `Ended`).
* A negative `TENANT_RATE_RPS` or `TENANT_RATE_BURST` is applied as it is: with the one, a
  bucket is never refilled and loses while its tenant is idle, and with the other, or a
  burst of zero, the tenant is refused from its first request (`NoDebt`, `NoToken`).
* A request in enforce mode is analysed on neither path for the life of a process that
  started without its signal engine (the exception in `GovernedOnce`).
* A fail-open is logged in the NORMAL state whatever state its conversation is in
  (`LogPassthroughTrace`), and an RPC that the client's disconnection cancels counts as
  a `signal_error`.
* The help text of `ActionApplied` speaks of actions "applied or counterfactual"
  (`metrics.go:69`); the shadow path counts none, so only inline passthroughs appear with
  `enforce_applied=false`.
* The action of a request reaches its span through the counters' recorder, and is
  missing from it when metrics are switched off.
* A value of `ENFORCE_KILL_SWITCH` that does not parse leaves the switch off without a
  word, and a percentage of zero in the file does not override that of
  the environment (`IsKillSwitchActive`, `Load`).
* SIGTERM before `signal.Notify`, that is during the dial of up to five seconds, ends the
  process without grace (`Killed`); `os.Exit(1)` after the tracer has been made loses its
  spans (`Fail`).
* `abstain_tau` of the calibration, or its default, is always passed
  to `post_model_abstain`, so `ABSTAIN_CONFIDENCE_THRESHOLD` (`docs/benchmarks.md:51`) is
  never read.
* An answer cut off by the deadline ends like a complete one (`DeadlineExpires`,
  `Returned`).
* An entry of `TENANT_API_KEYS` drops the limits the file gives the same key
  (`config.go:151`).

`MonotonicStrength` depends on the policy: it holds when stronger actions are listed
first (`StrengthFollowsRisk`), and does not hold of the shipped rules, which dampen at
0.90 and inject at 0.75 while `ActionStrength` ranks injection above dampening.

## What is proved

Every invariant and action property of the passing runs is the subject of a theorem that
states it for every value of the constants, and the three refinements (`Linearizable`,
`UsesEngine`, `RefillsContinuously`) are proved step by step.

`PolicyProofs` has the lemmas about the operators of `Policy`: the type of what
each returns, that the states the code's FSM reaches, the set `Reachable`, are closed
under it (`EvaluateReachable`; their counter is the one finding 1 is about, not the
documented one), that a governed conversation keeps its rule or is
released under a policy without cool-down requests (`EvaluateKeepsRule`), what an
evaluation engages (`EvaluateEngages`), when it cools down (`EvaluateCools`), what a calm
signal does (`EvaluateCalm`), and that a higher risk meets a rule listed no later than a
lower one does (`MeetingMonotonic`). The existence of a first matching rule rests on the
well-foundedness of the integers from one up (`FirstOfIsLeast`).

`PolicyHistoryProofs`, for every policy `Validate` accepts and any sets of conversations
and callers. Of the engine alone:

* `TypeCorrect`: `Spec => []TypeOK`. `TypeOK` is inductive; its step rests on
  `EvaluateType`, that an evaluation keeps the counter a natural number and the
  rule index in range.
* `StatesReachable`: `Spec => []FSMInvariant`. Neither "only stable states" nor "a
  rule exactly while governed" is inductive alone: without the level of the counter
  by state (`CooldownLevel`) an ACTIVE conversation might carry any counter, and a
  COOLDOWN one might be released. Together, as `Reachable`, they are.
* `RulesArePinned`: `Spec => RulePinned`, from the two invariants.

The signal engine answers with frames (`AnswersWellFormed`), so that what is proved of the
policy engine for every frame holds of its answers, and a frame has a `failure_risk` only
if the model was sure of it (`AnswersCertain`). Over every history of those answers:

* `ControlsJustified` and `ControlsCertain`: `JustifiedControl` and
  `EngagedWithCertainty` as one inductive invariant, `ControlsEngaged`. It rests on
  `FSMInvariant`, without which a conversation that is governed might not be read as
  governed by `selectRule`, and on `HistoryType`: evaluations in progress are about
  answers of the signal engine.
* `ReleasesAreEarned`: `HistorySpec => NoEarlyRelease`, by the invariant
  `CoolsAfterDip`: the streak below the exit threshold is at least one in COOLDOWN.
* `StrengthFollowsRisk`: `MonotonicStrength`, for every policy that lists its stronger
  actions first (`StrongerFirst`, true of the policy of `history_releasing` and of
  `TestMonotonicActionStrength`). Only a conversation under a rule remembers a
  signal that engaged it (`OpeningsHeld`), and of two risks the higher one meets the earlier
  rule.
* `ReleasedWithoutCooldown`: `ReleasedOnceCalm`, for every policy with
  `CooldownRequests = 0`, as in `history_releasing`. The invariant `StreaksCalm` splits
  the way: one calm signal leaves ACTIVE, the second leaves COOLDOWN. For every other
  policy `RulesArePinned` shows that the property fails (finding 1).

`StateStoreProofs`, for any number of goroutines and conversations: the inductive
invariant is `TypeOK`, `MutualExclusion`, `NoLostUpdate` and the link between a
goroutine's place and its result; from it follow `TypeCorrect`, `Excludes`,
`LosesNoUpdate`, and `Implements`: `Spec => Linearizable`, the store implements
the abstract engine step by step.

`RolloutProofs`, for every environment, file, percentage and request: a process that
starts has one of the three modes (`LoadedConfig`); the two predicates of the chain are
complementary, so no request is analysed twice or not at all (`SelectedOnce`, what
`GovernedOnce` rests on, below); widening a canary never drops a request from the enforced
ones, at its edges of 0 and 100 too (`WideningKeepsCohort`); a kill switch in the
environment or a canary of zero enforces nothing (`NothingEnforced`). They assume only
the types of their arguments.

`GovernanceProofs`, for any number of requests, every policy, deployment, bucket and
body:

* `RequestsTypeCorrect`: `Spec => []TypeOK`. By itself `TypeOK` allows a request to be
  `decided` without a decision, whose action the next step would carry out; with
  `DecisionMade` it is inductive. What handlers and goroutines take out of the shared
  store stays a state of the policy engine by `EvaluateType`.
* `PathInvariant`, the invariant of most of the others. It says of each request, at each
  place of its handler: until its path has ended it is as it came and nothing is known
  of it (`Untouched`); a finished inline path has failed open, or could not be applied,
  or was carried out, each with its own body, record and trace, and the other path has
  left no marks (`Divided`); the upstream gets what the handler has settled on, and a
  request that is answered in its place never goes there (`Exchanged`); the goroutine
  exists only for requests that are not enforced, and logs once (`Shadowed`). None of
  the properties is inductive alone: that a failed request is unchanged at the end says
  nothing of the body it carried on the way. A step of one request leaves the invariant
  of all the others alone (`Steps`, `OthersKeep`), since it speaks of none of what they
  share, which is why it holds for any number of them; that the shadow handler starts a
  goroutine exactly where the inline one declined is `SelectedOnce`.
* From it: `FailsOpen`, `InterventionIsSelected` (with `NothingEnforced` and
  `LoadedConfig`), `AnsweredOnce`, `OnePath`, `TracesAreTrue`, `EvaluationsAreTraced`
  and `RewritesAreAccounted` (with `MutationType`: a mutation always adds a system
  message, so a mutated body always differs from its original). `EvaluationTraced` makes
  an exception of an action that could not be applied, whose trace the code loses.
* `RequestsUseEngine`: `Spec => UsesEngine`, the refinement of `PolicyEngine` by the whole
  proxy. The mapping reads the engine's call and result of a request off its handler
  (`CallOf`, `ResultOf`) or off its goroutine. `PathInvariant` is what makes it a function:
  while one of the two is evaluating, the other is idle (`HandlerCalls`,
  `GoroutineCalls`), so a request never evaluates on both paths at once. Each step is then
  a `Begin`, `Evaluate`, `Fail` or `Return` of that request (`HandlerUsesEngine`,
  `GoroutineUsesEngine`) or leaves the engine as it was (`HandlerStutters`).
* `SharedStatesReachable`: `Reachable` holds of every conversation state in the
  shared store, though inline handlers and shadow goroutines step it side by side and some
  panic. `StoreSteps` shows that every step of the proxy leaves the store alone or puts one
  evaluation's outcome on the state of its conversation *at that instant*.
* `ControlsAreKept`: under every policy with cool-down requests no step of the proxy
  releases a conversation from its rule; finding 1 for the composed system.

`TelemetryProofs` counts. A counter vector is a bag of labels, and the library's sum over
a bag is defined by recursion over the subsets of its labels; since induction is out of
reach, the lemmas argue by a least counterexample (`SumsExist`, `SumTakesAway`,
`SumsAgree`) until `TotalOfInc`: one increment adds one to exactly the sums whose labels
match. With it:

* `MetricsAreTrue`: `Spec => []MetricsAgree`, for any finite set of requests. The
  inductive invariant `Agreement` adds that a span gives the reason of a
  fail-open and no other (`ReasonsReported`); each end of an inline path adds its request to
  one of the counted sets and one increment to that set's counter
  (`FailOpenAgrees`, `ConcludeAgrees`, `ApplyFailsAgrees`), all other steps neither
  (`QuietAgrees`).
* `TransitionsAreCounted`: `Spec => []TransitionsBalance`, for any finite set of
  conversations: an evaluation that changes the state of its conversation moves it
  from one of the sets `InState` to another and counts that edge, an evaluation that does
  not counts none (`EvaluationBalances`).

`RateLimiterProofs`, for every configuration of tenants, rates, bursts and API keys,
defaults of zero or less included, any granularity of tokens and any horizon:

* The inductive invariant (`InductiveInvariant`) says of a bucket and the times at which
  its tenant was admitted (`Sound`): it is never above its burst, not in debt unless its
  limit is negative, and was not refilled in the future (`GoodBucket`); what the tenant has had since any of its requests, with what
  the bucket still holds, is at most the burst and the refill since then (`Spent`); and,
  unless its rate is negative, it is full or holds at least the refill since the last
  admission (`Held`). `WindowBound`
  speaks of the admissions only and is not inductive: nothing would bound what a bucket
  still holds. The lazy refill and the taking of a token each keep `Sound`
  (`RefillSound`, `AdmitSound`).
* From it `TypeCorrect`, `AdmissionsBounded` (`WindowBound`), and `RefusalsJustified`
  (`RefusedWhenSpent`), with `RefusalMeansEmpty`: a tenant that was never admitted has a
  burst of less than a token (`NeverAdmitted`), which only an open burst under such a
  default is. That a tenant's bucket has the limits of some entry of the
  configuration, a later entry for the same key taking the place of an earlier one, is
  `TenantEntry`.
* `Implements`: `Spec => RefillsContinuously`, the refinement of `TokenBucket`. A bucket is
  mapped to what it would hold if it were refilled now (`Level`), and is full for a tenant
  that has none yet. Under a negative rate the cap never takes effect, under any other it
  may be applied step by step or at the end (`LevelNext`). A tick of the limiter, which touches no bucket, is a refill of all of
  them there (`TickRefills`), and a request finds the same level on both sides
  (`RequestAgrees`).

`ServingProofs`, for any number of requests and any grace period, deadline, number of
chunks and buffer:

* `TypeCorrect`: `Spec => []TypeOK`; in particular no tick passes over a timer that is
  due.
* `GraceIsHonoured` and `SpansAreKept`, from `ShutdownInvariant`: a handler that is still
  there when `Shutdown` has returned has outlasted the grace period. The properties
  speak of the end only, and without that the return of `main` might cut off handlers
  that were never waited for.

**Assumptions.** `PolicyAssumption` is what `Validate` checks at startup.
`SignalAssumption`, `EvaluatorAssumption`, `StoreAssumption`, `SentinelAssumption`:
sentinels differ from the values they are sentinels of. `ThresholdAssumption`: scores and
the threshold of certainty lie between 0 and 100. `TenantAssumption`, `LimiterAssumption`,
`BodyAssumption`, `RequestAssumption` and `TimeAssumption`: the types of tenants, units of
tokens, bodies, requests, deployments and lengths of time. `BurstAssumption`: a burst is a
whole number of tokens, as the field is an `int` (`config.go:24`), so one that is
positive admits at least one request. Of the defaults nothing is assumed but that they
are integers. TLC evaluates them all in every run that reaches them. Five theorems have a
hypothesis of their own: `StrengthFollowsRisk` and `ReleasedWithoutCooldown` that of the
policy, given above, which `history_releasing` satisfies; `ControlsAreKept` the opposite
one, which the shipped policy satisfies; `MetricsAreTrue` and `TransitionsAreCounted` that
finitely many requests or conversations are counted.

**Only model-checked**: the liveness properties (`EvaluationReturns`, `Answered`, `Ended`,
`Serves`, `Stops`). They rest on fairness and on which steps are enabled, which is out of
the prover's reach. The properties of the runs that expect a violation are false of the
code and have no theorem; what is true in their place is `RulesArePinned` and
`ControlsAreKept`.

## What is not modelled

* The text of bodies, details and traces; identifiers; the FNV hash (the constant
  `Bucket`); headers.
* Of telemetry: the histograms (save how often the inline one is observed), the child
  spans, sampling, what the span batcher loses by itself (a full queue, an export of half
  a minute), and a process with metrics or tracing switched off.
* The failure of `uuid.NewString` is the one panic the evaluation can have; the
  same failure within the fail-open path itself, which `net/http` would recover,
  is not modelled.
* float32 and float64 rounding. Thresholds are only compared; bucket amounts are
  exact multiples of a fraction of a token. A default rate of NaN or infinity, which
  `strconv.ParseFloat` accepts, is no integer and not modelled.
* The reading and parsing of files; ports and addresses. A policy or a configuration
  that does not load is `Fail` of `Serving`.
* Feature extraction, the ONNX model and its training: numeric code out of TLC's
  reach. Benchmarks, dashboards, deployment and scripts keep no state.
* Growth of the store, which never evicts a key; the order in which shadow goroutines of
  one conversation finish, and their end at shutdown, which nothing promises.

## Plan

1. *Done*: `Policy`, `PolicyEngine`, `PolicyHistory`, `SignalEngine`, `StateStore`,
   `Rollout`, `EnforceBody`, `Telemetry`, `Governance`, `TenantConfig`, `TokenBucket`,
   `RateLimiter`, `Serving`, and theorems for every safety property of their runs.
2. What the engine's theorems say of the store's goroutines: `FSMInvariant` of
   `StateStore`, through `Implements` or directly, as `SharedStatesReachable` does for
   `Governance`.
3. What a request may be refused for: that the composition of `RateLimiter` with the
   ingress of `Governance` counts a refused request nowhere else.
4. Identifiers, if a reader needs them: the cohort of a request ID that is repeated, the
   joined key of tenant and conversation.
