------------------------------ MODULE StateStore ------------------------------
(***************************************************************************)
(* The store of conversation states (internal/policy/state.go) as the       *)
(* goroutines of the proxy use it through Evaluator.Evaluate: one mutex for  *)
(* the whole map, held from before the key is looked up until the callback's *)
(* result is stored, and released by a defer however the callback ends.      *)
(* Each action is a step other goroutines may interleave with.               *)
(***************************************************************************)
EXTENDS Policy

CONSTANTS
    Conversations,  \* the tenant:conversation keys
    Evaluators,     \* the goroutines that call Evaluate
    NoCall,         \* no evaluation in progress
    NoDecision,     \* no result yet
    Failed,         \* the callback panicked
    Nobody          \* the mutex is free

Call == [conversation : Conversations, frame : Frame]

ASSUME StoreAssumption ==
    /\ Nobody \notin Evaluators
    /\ NoCall \notin Call
    /\ NoDecision \notin Decision
    /\ Failed \notin Decision \cup {NoDecision}

VARIABLES
    data,    \* s.data
    mu,      \* the goroutine that holds s.mu
    pc,      \* where each goroutine is in Evaluate
    call,    \* the arguments of its call
    st,      \* its local copy of the conversation's state
    result   \* the decision its callback produced

vars == <<data, mu, pc, call, st, result>>

PC == {"idle", "lock", "load", "apply", "store", "unlock", "return"}

TypeOK ==
    /\ DOMAIN data \subseteq Conversations
    /\ \A c \in DOMAIN data : data[c] \in ConversationState
    /\ mu \in Evaluators \cup {Nobody}
    /\ pc \in [Evaluators -> PC]
    /\ call \in [Evaluators -> Call \cup {NoCall}]
    /\ st \in [Evaluators -> ConversationState]
    /\ result \in [Evaluators -> Decision \cup {NoDecision, Failed}]

Init ==
    /\ data = << >>
    /\ mu = Nobody
    /\ pc = [g \in Evaluators |-> "idle"]
    /\ call = [g \in Evaluators |-> NoCall]
    /\ st = [g \in Evaluators |-> defaultState]
    /\ result = [g \in Evaluators |-> NoDecision]

Goto(g, from, to) == pc[g] = from /\ pc' = [pc EXCEPT ![g] = to]

Begin(g, c, frame) ==
    /\ Goto(g, "idle", "lock")
    /\ call' = [call EXCEPT ![g] = [conversation |-> c, frame |-> frame]]
    /\ UNCHANGED <<data, mu, st, result>>

\* A variant of Lock that does not wait for the holder.
LockUnchecked(g) ==
    /\ Goto(g, "lock", "load")
    /\ mu' = g
    /\ UNCHANGED <<data, call, st, result>>

Lock(g) ==
    /\ mu = Nobody
    /\ Goto(g, "lock", "load")
    /\ mu' = g
    /\ UNCHANGED <<data, call, st, result>>

\* st, ok := s.data[key]; if !ok { st = defaultState() }
Load(g) ==
    /\ Goto(g, "load", "apply")
    /\ st' = [st EXCEPT ![g] = Lookup(data, call[g].conversation)]
    /\ UNCHANGED <<data, mu, call, result>>

\* fn(&st): the closure of Evaluate runs EvaluatePure on the local copy.
Apply(g) ==
    LET outcome == EvaluatePure(call[g].frame, st[g])
    IN  /\ Goto(g, "apply", "store")
        /\ st' = [st EXCEPT ![g] = outcome.next]
        /\ result' = [result EXCEPT ![g] = outcome.decision]
        /\ UNCHANGED <<data, mu, call>>

\* A variant of Panic without the deferred Unlock.
PanicHoldingMutex(g) ==
    /\ Goto(g, "apply", "return")
    /\ result' = [result EXCEPT ![g] = Failed]
    /\ UNCHANGED <<data, mu, call, st>>

\* A variant of Panic that still stores the local copy.
PanicStoring(g) ==
    /\ Goto(g, "apply", "store")
    /\ result' = [result EXCEPT ![g] = Failed]
    /\ UNCHANGED <<data, mu, call, st>>

\* fn(&st) panics: nothing is stored and the deferred Unlock runs.
Panic(g) ==
    /\ Goto(g, "apply", "unlock")
    /\ result' = [result EXCEPT ![g] = Failed]
    /\ UNCHANGED <<data, mu, call, st>>

\* s.data[key] = st
Store(g) ==
    /\ Goto(g, "store", "unlock")
    /\ data' = Put(data, call[g].conversation, st[g])
    /\ UNCHANGED <<mu, call, st, result>>

Unlock(g) ==
    /\ Goto(g, "unlock", "return")
    /\ mu' = Nobody
    /\ UNCHANGED <<data, call, st, result>>

\* Evaluate returns; its locals are gone.
Return(g) ==
    /\ Goto(g, "return", "idle")
    /\ call' = [call EXCEPT ![g] = NoCall]
    /\ st' = [st EXCEPT ![g] = defaultState]
    /\ result' = [result EXCEPT ![g] = NoDecision]
    /\ UNCHANGED <<data, mu>>

\* The steps of a call once it has been made, except for the wait on the mutex.
Proceed(g) ==
    \/ Load(g)
    \/ Apply(g)
    \/ Panic(g)
    \/ Store(g)
    \/ Unlock(g)
    \/ Return(g)

Next ==
    \E g \in Evaluators :
        \/ \E c \in Conversations, frame \in Frame : Begin(g, c, frame)
        \/ Lock(g)
        \/ Proceed(g)

Spec == Init /\ [][Next]_vars

\* A goroutine that can run is eventually run.  sync.Mutex hands the lock to a
\* waiter that has starved for a millisecond, so a wait that is again and again
\* possible to end does end: strong fairness of Lock.
Fairness == \A g \in Evaluators : WF_vars(Proceed(g)) /\ SF_vars(Lock(g))

FairSpec == Spec /\ Fairness

-----------------------------------------------------------------------------
(***************************************************************************)
(* Properties                                                               *)
(***************************************************************************)

InCriticalSection(g) == pc[g] \in {"load", "apply", "store", "unlock"}

\* The mutex is held by exactly the goroutine between Lock and Unlock.
MutualExclusion ==
    \A g \in Evaluators : InCriticalSection(g) <=> mu = g

\* Until a goroutine stores its result, the map still holds the state that the
\* result was computed from: no update of a conversation is lost
\* (Update reads, computes and writes back under one critical section).
NoLostUpdate ==
    \A g \in Evaluators :
        LET stored == Lookup(data, call[g].conversation)
        IN  /\ pc[g] = "apply" => st[g] = stored
            /\ pc[g] = "store" => st[g] = EvaluatePure(call[g].frame, stored).next

\* Evaluate takes effect when its result is stored, or when it panics.
effect == [g \in Evaluators |->
              IF pc[g] \in {"unlock", "return"} THEN result[g] ELSE NoDecision]

Engine == INSTANCE PolicyEngine WITH decision <- effect

\* Concurrent calls of Evaluate are linearizable: the store under its mutex
\* implements the engine whose evaluations each happen at one instant.
Linearizable == Engine!Spec

\* Every call of Evaluate returns, also past a panic of another one and under
\* contention for the mutex.
EvaluationReturns ==
    \A g \in Evaluators : pc[g] = "lock" ~> pc[g] = "idle"

=============================================================================
