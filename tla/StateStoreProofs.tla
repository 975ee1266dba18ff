--------------------------- MODULE StateStoreProofs ---------------------------
(***************************************************************************)
(* Theorems about the store of conversation states: its mutex excludes, no  *)
(* update is lost, and the store implements the atomic policy engine, for    *)
(* every policy, every set of conversations and any number of goroutines.    *)
(***************************************************************************)
EXTENDS StateStore, PolicyProofs

\* The arguments and the result of a call agree with where its goroutine is: the
\* part of the inductive invariant the refinement needs besides NoLostUpdate.
CallMatchesPC ==
    \A g \in Evaluators :
        /\ pc[g] = "idle" <=> call[g] = NoCall
        /\ pc[g] \in {"unlock", "return"} => result[g] # NoDecision
        /\ pc[g] = "store" =>
             result[g] = EvaluatePure(call[g].frame,
                                      Lookup(data, call[g].conversation)).decision

IInv == TypeOK /\ MutualExclusion /\ NoLostUpdate /\ CallMatchesPC

LEMMA CallType ==
  ASSUME TypeOK, CallMatchesPC, NEW g \in Evaluators, pc[g] # "idle"
  PROVE  /\ call[g].conversation \in Conversations
         /\ call[g].frame \in Frame
         /\ Lookup(data, call[g].conversation) \in ConversationState
<1>1. call[g] \in Call
  BY DEF TypeOK, CallMatchesPC
<1> QED
  BY <1>1, LookupType DEF Call, TypeOK

-----------------------------------------------------------------------------
(***************************************************************************)
(* The inductive invariant                                                 *)
(***************************************************************************)

LEMMA InitInv == Init => IInv
<1>1. defaultState \in ConversationState
  BY LenRules DEF defaultState, ConversationState, StabilityState, NoRule
<1> QED
  BY <1>1, StoreAssumption
     DEF Init, IInv, TypeOK, PC, MutualExclusion, InCriticalSection, NoLostUpdate,
         CallMatchesPC

LEMMA TypeStep ==
  ASSUME TypeOK, CallMatchesPC, [Next]_vars
  PROVE  TypeOK'
<1> USE DEF TypeOK, Goto, PC
<1>1. ASSUME NEW g \in Evaluators, NEW c \in Conversations, NEW frame \in Frame,
             Begin(g, c, frame)
      PROVE  TypeOK'
  <2>1. [conversation |-> c, frame |-> frame] \in Call
    BY DEF Call
  <2> QED
    BY <1>1, <2>1 DEF Begin
<1>2. ASSUME NEW g \in Evaluators, Lock(g)
      PROVE  TypeOK'
  BY <1>2 DEF Lock
<1>3. ASSUME NEW g \in Evaluators, Load(g)
      PROVE  TypeOK'
  <2>1. Lookup(data, call[g].conversation) \in ConversationState
    BY <1>3, CallType DEF Load
  <2> QED
    BY <1>3, <2>1 DEF Load
<1>4. ASSUME NEW g \in Evaluators, Apply(g)
      PROVE  TypeOK'
  <2>1. call[g].frame \in Frame /\ st[g] \in ConversationState
    BY <1>4, CallType DEF Apply
  <2>2. /\ EvaluatePure(call[g].frame, st[g]).next \in ConversationState
        /\ EvaluatePure(call[g].frame, st[g]).decision \in Decision
    BY <2>1, EvaluateType
  <2> QED
    BY <1>4, <2>2 DEF Apply
<1>5. ASSUME NEW g \in Evaluators, Panic(g)
      PROVE  TypeOK'
  BY <1>5 DEF Panic
<1>6. ASSUME NEW g \in Evaluators, Store(g)
      PROVE  TypeOK'
  <2>1. call[g].conversation \in Conversations /\ st[g] \in ConversationState
    BY <1>6, CallType DEF Store
  <2>2. /\ DOMAIN data' \subseteq Conversations
        /\ \A c \in DOMAIN data' : data'[c] \in ConversationState
    BY <1>6, <2>1 DEF Store, Put
  <2> QED
    BY <1>6, <2>2 DEF Store
<1>7. ASSUME NEW g \in Evaluators, Unlock(g)
      PROVE  TypeOK'
  BY <1>7 DEF Unlock
<1>8. ASSUME NEW g \in Evaluators, Return(g)
      PROVE  TypeOK'
  <2>1. defaultState \in ConversationState
    BY LenRules DEF defaultState, ConversationState, StabilityState, NoRule
  <2> QED
    BY <1>8, <2>1 DEF Return
<1>9. CASE UNCHANGED vars
  BY <1>9 DEF vars
<1> QED
  BY <1>1, <1>2, <1>3, <1>4, <1>5, <1>6, <1>7, <1>8, <1>9 DEF Next, Proceed

LEMMA ExclusionStep ==
  ASSUME TypeOK, MutualExclusion, [Next]_vars
  PROVE  MutualExclusion'
<1> USE DEF TypeOK, Goto, MutualExclusion, InCriticalSection
<1>1. ASSUME NEW g \in Evaluators, NEW c \in Conversations, NEW frame \in Frame,
             Begin(g, c, frame)
      PROVE  MutualExclusion'
  BY <1>1 DEF Begin
<1>2. ASSUME NEW g \in Evaluators, Lock(g)
      PROVE  MutualExclusion'
  BY <1>2, StoreAssumption DEF Lock
<1>3. ASSUME NEW g \in Evaluators, Load(g) \/ Apply(g) \/ Panic(g) \/ Store(g)
      PROVE  MutualExclusion'
  BY <1>3 DEF Load, Apply, Panic, Store
<1>4. ASSUME NEW g \in Evaluators, Unlock(g)
      PROVE  MutualExclusion'
  BY <1>4, StoreAssumption DEF Unlock
<1>5. ASSUME NEW g \in Evaluators, Return(g)
      PROVE  MutualExclusion'
  BY <1>5 DEF Return
<1>6. CASE UNCHANGED vars
  BY <1>6 DEF vars
<1> QED
  BY <1>1, <1>2, <1>3, <1>4, <1>5, <1>6 DEF Next, Proceed

\* Only the holder of the mutex writes the map, so what another goroutine has read
\* of it still stands.
LEMMA UpdateStep ==
  ASSUME IInv, [Next]_vars
  PROVE  NoLostUpdate' /\ CallMatchesPC'
<1> USE DEF IInv, TypeOK, Goto, NoLostUpdate, CallMatchesPC
<1>1. ASSUME NEW g \in Evaluators, NEW c \in Conversations, NEW frame \in Frame,
             Begin(g, c, frame)
      PROVE  NoLostUpdate' /\ CallMatchesPC'
  <2>1. [conversation |-> c, frame |-> frame] # NoCall
    BY StoreAssumption DEF Call
  <2> QED
    BY <1>1, <2>1 DEF Begin
<1>2. ASSUME NEW g \in Evaluators, Lock(g)
      PROVE  NoLostUpdate' /\ CallMatchesPC'
  BY <1>2 DEF Lock
<1>3. ASSUME NEW g \in Evaluators, Load(g)
      PROVE  NoLostUpdate' /\ CallMatchesPC'
  BY <1>3 DEF Load
<1>4. ASSUME NEW g \in Evaluators, Apply(g)
      PROVE  NoLostUpdate' /\ CallMatchesPC'
  BY <1>4 DEF Apply
<1>5. ASSUME NEW g \in Evaluators, Panic(g)
      PROVE  NoLostUpdate' /\ CallMatchesPC'
  BY <1>5, StoreAssumption DEF Panic
<1>6. ASSUME NEW g \in Evaluators, Store(g)
      PROVE  NoLostUpdate' /\ CallMatchesPC'
  <2>1. \A h \in Evaluators : h # g => pc'[h] = pc[h] /\ pc[h] \notin {"apply", "store"}
    BY <1>6 DEF Store, MutualExclusion, InCriticalSection
  <2>2. pc'[g] = "unlock"
    BY <1>6 DEF Store
  <2>3. EvaluatePure(call[g].frame, Lookup(data, call[g].conversation)).decision # NoDecision
    BY <1>6, CallType, EvaluateType, StoreAssumption DEF Store
  <2> QED
    BY <1>6, <2>1, <2>2, <2>3 DEF Store
<1>7. ASSUME NEW g \in Evaluators, Unlock(g)
      PROVE  NoLostUpdate' /\ CallMatchesPC'
  BY <1>7 DEF Unlock
<1>8. ASSUME NEW g \in Evaluators, Return(g)
      PROVE  NoLostUpdate' /\ CallMatchesPC'
  BY <1>8 DEF Return
<1>9. CASE UNCHANGED vars
  BY <1>9 DEF vars
<1> QED
  BY <1>1, <1>2, <1>3, <1>4, <1>5, <1>6, <1>7, <1>8, <1>9 DEF Next, Proceed

LEMMA InductiveInvariant == Spec => []IInv
<1>1. IInv /\ [Next]_vars => IInv'
  BY TypeStep, ExclusionStep, UpdateStep DEF IInv
<1> QED
  BY InitInv, <1>1, PTL DEF Spec

\* Every variable keeps its type.
THEOREM TypeCorrect == Spec => []TypeOK
BY InductiveInvariant, PTL DEF IInv

\* The mutex is held by exactly the goroutine between Lock and Unlock.
THEOREM Excludes == Spec => []MutualExclusion
BY InductiveInvariant, PTL DEF IInv

\* The state a goroutine computes its result from is still the stored one when
\* the result is stored.
THEOREM LosesNoUpdate == Spec => []NoLostUpdate
BY InductiveInvariant, PTL DEF IInv

-----------------------------------------------------------------------------
(***************************************************************************)
(* The refinement                                                          *)
(***************************************************************************)

\* The engine's evaluation function is this module's.
LEMMA SameEvaluation ==
  ASSUME NEW frame, NEW s, NEW m, NEW c
  PROVE  /\ Engine!EvaluatePure(frame, s) = EvaluatePure(frame, s)
         /\ Engine!Lookup(m, c) = Lookup(m, c)
         /\ Engine!Put(m, c, s) = Put(m, c, s)
         /\ Engine!Frame = Frame
BY DEF EvaluatePure, selectRule, Governed, transitionFSM, FromNormal, FromActive,
       FromCooldown, FirstOf, Meeting, isFSMActive, hasSignal, NoRule, Lookup, Put,
       Frame, defaultState,
       Engine!EvaluatePure, Engine!selectRule, Engine!Governed, Engine!transitionFSM,
       Engine!FromNormal, Engine!FromActive, Engine!FromCooldown, Engine!FirstOf,
       Engine!Meeting, Engine!isFSMActive, Engine!hasSignal, Engine!NoRule,
       Engine!Lookup, Engine!Put, Engine!Frame, Engine!defaultState

\* Concurrent calls of Evaluate are linearizable: under its mutex, the store
\* implements the engine whose evaluations each happen at one instant.
THEOREM Implements == Spec => Linearizable
<1>1. Init => Engine!Init
  BY DEF Init, Engine!Init, effect
<1>2. IInv /\ [Next]_vars => [Engine!Next]_Engine!vars
  <2> SUFFICES ASSUME IInv, [Next]_vars
               PROVE  [Engine!Next]_Engine!vars
    OBVIOUS
  <2> USE DEF IInv, TypeOK, Goto
  <2>1. ASSUME NEW g \in Evaluators, NEW c \in Conversations, NEW frame \in Frame,
               Begin(g, c, frame)
        PROVE  Engine!Begin(g, c, frame)
    <3>1. effect' = effect
      BY <2>1 DEF Begin, effect
    <3> QED
      BY <2>1, <3>1 DEF Begin, CallMatchesPC, Engine!Begin
  <2>2. ASSUME NEW g \in Evaluators, Lock(g) \/ Load(g) \/ Apply(g) \/ Unlock(g)
        PROVE  UNCHANGED Engine!vars
    <3>1. effect' = effect
      BY <2>2 DEF Lock, Load, Apply, Unlock, effect
    <3> QED
      BY <2>2, <3>1 DEF Lock, Load, Apply, Unlock, Engine!vars
  <2>3. ASSUME NEW g \in Evaluators, Panic(g)
        PROVE  Engine!Fail(g)
    <3>1. effect[g] = NoDecision /\ effect' = [effect EXCEPT ![g] = Failed]
      BY <2>3 DEF Panic, effect
    <3> QED
      BY <2>3, <3>1 DEF Panic, CallMatchesPC, Engine!Fail
  <2>4. ASSUME NEW g \in Evaluators, Store(g)
        PROVE  Engine!Evaluate(g)
    <3>1. /\ st[g] = Engine!Outcome(g).next
          /\ result[g] = Engine!Outcome(g).decision
      BY <2>4, SameEvaluation DEF Store, NoLostUpdate, CallMatchesPC, Engine!Outcome
    <3>2. effect[g] = NoDecision /\ effect' = [effect EXCEPT ![g] = result[g]]
      BY <2>4 DEF Store, effect
    <3>3. data' = Engine!Put(data, call[g].conversation, Engine!Outcome(g).next)
      BY <2>4, <3>1, SameEvaluation DEF Store
    <3> QED
      BY <2>4, <3>1, <3>2, <3>3 DEF Store, CallMatchesPC, Engine!Evaluate
  <2>5. ASSUME NEW g \in Evaluators, Return(g)
        PROVE  Engine!Return(g)
    <3>1. effect[g] # NoDecision /\ effect' = [effect EXCEPT ![g] = NoDecision]
      BY <2>5 DEF Return, effect, CallMatchesPC
    <3> QED
      BY <2>5, <3>1 DEF Return, Engine!Return
  <2>6. CASE UNCHANGED vars
    BY <2>6 DEF vars, Engine!vars, effect
  <2> QED
    BY <2>1, <2>2, <2>3, <2>4, <2>5, <2>6, SameEvaluation DEF Next, Proceed, Engine!Next
<1> QED
  BY <1>1, <1>2, InductiveInvariant, PTL DEF Spec, Linearizable, Engine!Spec

=============================================================================
