---------------------------- MODULE TelemetryProofs ----------------------------
(***************************************************************************)
(* Counting with counters: what one increment does to the sums a reader of   *)
(* the metrics forms, for every vector of counters, and that the metrics a    *)
(* proxy exports agree with what Governance says it did.  A sum over a bag is *)
(* defined by recursion over the subsets of its labels; the lemmas argue by   *)
(* a least counterexample, since an induction rule takes an operator.         *)
(***************************************************************************)
EXTENDS GovernanceProofs, FiniteSetTheorems

-----------------------------------------------------------------------------
(***************************************************************************)
(* Sums over finite sets                                                    *)
(***************************************************************************)

Some(S) == CHOOSE e \in S : TRUE

\* s sums the function f over every subset of its domain.
Sums(s, f) ==
    s = [S \in SUBSET DOMAIN f |-> IF S = {} THEN 0 ELSE f[Some(S)] + s[S \ {Some(S)}]]

\* Taking an element away leaves a smaller set.
LEMMA SmallerSet ==
  ASSUME NEW S, IsFiniteSet(S), NEW x \in S
  PROVE  /\ IsFiniteSet(S \ {x})
         /\ Cardinality(S) \in Nat /\ Cardinality(S \ {x}) \in Nat
         /\ Cardinality(S \ {x}) < Cardinality(S)
<1>1. IsFiniteSet(S \ {x}) /\ Cardinality(S \ {x}) = Cardinality(S) - 1
  BY FS_RemoveElement
<1>2. Cardinality(S) \in Nat
  BY FS_CardinalityType
<1>3. Cardinality(S \ {x}) \in Nat
  BY <1>1, FS_CardinalityType
<1> QED
  BY <1>1, <1>2, <1>3

\* There is such an s: one for the sets of at most n elements extends to one for the
\* sets of at most n + 1.
LEMMA SumsExist ==
  ASSUME NEW f, IsFiniteSet(DOMAIN f)
  PROVE  \E s : Sums(s, f)
<1> DEFINE D == DOMAIN f
           upTo(n) == {S \in SUBSET D : Cardinality(S) <= n}
           step(s, S) == IF S = {} THEN 0 ELSE f[Some(S)] + s[S \ {Some(S)}]
           good(n) == \E s : s = [S \in upTo(n) |-> step(s, S)]
           bad == {n \in Nat : ~good(n)}
<1>1. \A S \in SUBSET D : IsFiniteSet(S) /\ Cardinality(S) \in Nat
  BY FS_Subset, FS_CardinalityType
<1>2. \A S \in SUBSET D : S # {} => Some(S) \in S
  BY DEF Some
<1>3. bad = {}
  <2> SUFFICES ASSUME bad # {}
               PROVE  FALSE
    OBVIOUS
  <2> DEFINE n == FirstOf(bad)
  <2>1. n \in bad /\ \A m \in bad : n <= m
    BY FirstOfIsLeast
  <2>2. n \in Nat /\ ~good(n)
    BY <2>1
  <2> HIDE DEF n
  <2>3. CASE n = 0
    <3> DEFINE s == [S \in upTo(0) |-> 0]
    <3>1. \A S \in upTo(0) : S = {}
      BY <1>1, FS_EmptySet
    <3>2. s = [S \in upTo(0) |-> step(s, S)]
      BY <3>1
    <3> QED
      BY <2>2, <2>3, <3>2
  <2>4. CASE n # 0
    <3>1. n - 1 \in Nat /\ n - 1 \notin bad
      <4>1. n - 1 \in Nat /\ ~(n <= n - 1)
        BY <2>2, <2>4
      <4> QED
        BY <2>1, <4>1
    <3>2. PICK s : s = [S \in upTo(n - 1) |-> step(s, S)]
      BY <3>1
    <3> DEFINE t == [S \in upTo(n) |-> step(s, S)]
    <3>3. ASSUME NEW S \in upTo(n), S # {}
          PROVE  t[S \ {Some(S)}] = s[S \ {Some(S)}]
      <4>1. S \in SUBSET D /\ Some(S) \in S /\ Cardinality(S) <= n
        BY <1>2, <3>3
      <4>2. IsFiniteSet(S) /\ S \ {Some(S)} \in SUBSET D
        BY <1>1, <4>1
      <4>3. /\ Cardinality(S \ {Some(S)}) \in Nat /\ Cardinality(S) \in Nat
            /\ Cardinality(S \ {Some(S)}) < Cardinality(S)
        BY <4>1, <4>2, SmallerSet
      <4>4. S \ {Some(S)} \in upTo(n - 1) /\ S \ {Some(S)} \in upTo(n)
        BY <2>2, <4>1, <4>2, <4>3
      <4>5. s[S \ {Some(S)}] = step(s, S \ {Some(S)})
        BY <3>2, <4>4
      <4> QED
        BY <4>4, <4>5
    <3>4. t = [S \in upTo(n) |-> step(s, S)]
      OBVIOUS
    <3> HIDE DEF t
    <3>5. t = [S \in upTo(n) |-> step(t, S)]
      <4>1. ASSUME NEW S \in upTo(n)
            PROVE  step(t, S) = step(s, S)
        BY <3>3
      <4> QED
        BY <3>4, <4>1
    <3> QED
      BY <2>2, <3>5
  <2> QED
    BY <2>3, <2>4
<1>4. Cardinality(D) \in Nat /\ upTo(Cardinality(D)) = SUBSET D
  BY <1>1, FS_Subset, FS_CardinalityType
<1>5. good(Cardinality(D))
  BY <1>3, <1>4
<1> QED
  BY <1>4, <1>5 DEF Sums

LEMMA OrderOfTerms ==
  ASSUME NEW a \in Nat, NEW b \in Nat, NEW r \in Nat,
         NEW p, NEW q, NEW u, p = a + q, q = b + r, u = a + r
  PROVE  p = b + u
OBVIOUS

\* A sum is a number, and does not depend on the order in which its terms are taken.
LEMMA SumTakesAway ==
  ASSUME NEW f, IsFiniteSet(DOMAIN f), \A l \in DOMAIN f : f[l] \in Nat,
         NEW s, Sums(s, f)
  PROVE  /\ s[{}] = 0
         /\ \A S \in SUBSET DOMAIN f :
               s[S] \in Nat /\ \A x \in S : s[S] = f[x] + s[S \ {x}]
<1> DEFINE D == DOMAIN f
           fine(S) == s[S] \in Nat /\ \A x \in S : s[S] = f[x] + s[S \ {x}]
           bad == {n \in Nat : \E S \in SUBSET D : Cardinality(S) = n /\ ~fine(S)}
<1>1. \A S \in SUBSET D : IsFiniteSet(S) /\ Cardinality(S) \in Nat
  BY FS_Subset, FS_CardinalityType
<1>2. s[{}] = 0
  BY DEF Sums
<1>3. \A S \in SUBSET D : S # {} => Some(S) \in S /\ s[S] = f[Some(S)] + s[S \ {Some(S)}]
  BY DEF Sums, Some
<1>4. ASSUME NEW S \in SUBSET D, \A T \in SUBSET D : Cardinality(T) < Cardinality(S) => fine(T)
      PROVE  fine(S)
  <2>1. CASE S = {}
    BY <1>2, <2>1
  <2>2. CASE S # {}
    <3> DEFINE e == Some(S)
    <3>1. e \in S /\ s[S] = f[e] + s[S \ {e}] /\ f[e] \in Nat
      BY <1>3, <2>2
    <3> HIDE DEF e
    <3>2. ASSUME NEW x \in S
          PROVE  S \ {x} \in SUBSET D /\ fine(S \ {x})
      BY <1>1, <1>4, SmallerSet
    <3>3. s[S] \in Nat
      BY <3>1, <3>2
    <3>4. ASSUME NEW x \in S, x # e
          PROVE  s[S] = f[x] + s[S \ {x}]
      <4>1. s[S \ {e}] = f[x] + s[(S \ {e}) \ {x}]
        BY <3>1, <3>2, <3>4
      <4>2. s[S \ {x}] = f[e] + s[(S \ {x}) \ {e}]
        BY <3>1, <3>2, <3>4
      <4>3. (S \ {e}) \ {x} = (S \ {x}) \ {e}
        OBVIOUS
      <4>4. s[(S \ {x}) \ {e}] \in Nat
        <5>1. IsFiniteSet(S \ {x}) /\ e \in S \ {x}
          BY <1>1, <3>1, <3>2, <3>4
        <5>2. Cardinality((S \ {x}) \ {e}) < Cardinality(S)
          BY <1>1, <5>1, SmallerSet
        <5> QED
          BY <1>4, <5>2
      <4>5. f[x] \in Nat
        OBVIOUS
      <4>6. s[S \ {e}] = f[x] + s[(S \ {x}) \ {e}]
        BY <4>1, <4>3
      <4> QED
        BY <3>1, <4>2, <4>4, <4>5, <4>6, OrderOfTerms
    <3> QED
      BY <3>1, <3>3, <3>4
  <2> QED
    BY <2>1, <2>2
<1>5. bad = {}
  <2> SUFFICES ASSUME bad # {}
               PROVE  FALSE
    OBVIOUS
  <2>1. PICK n \in bad : \A m \in bad : n <= m
    BY FirstOfIsLeast
  <2>2. PICK S \in SUBSET D : Cardinality(S) = n /\ ~fine(S)
    BY <2>1
  <2>3. ASSUME NEW T \in SUBSET D, Cardinality(T) < Cardinality(S)
        PROVE  fine(T)
    <3>1. Cardinality(T) \in Nat /\ n \in Nat /\ Cardinality(T) \notin bad
      BY <1>1, <2>1, <2>2, <2>3
    <3> QED
      BY <3>1
  <2> QED
    BY <1>4, <2>2, <2>3
<1>6. \A S \in SUBSET D : fine(S)
  BY <1>1, <1>5
<1> QED
  BY <1>2, <1>6

\* Functions that agree on a set have the same sum over it.
LEMMA SumsAgree ==
  ASSUME NEW f, IsFiniteSet(DOMAIN f), NEW g, IsFiniteSet(DOMAIN g),
         NEW s, Sums(s, f), NEW t, Sums(t, g),
         NEW S \in SUBSET (DOMAIN f \cap DOMAIN g), \A l \in S : f[l] = g[l]
  PROVE  s[S] = t[S]
<1> DEFINE bad == {n \in Nat : \E T \in SUBSET S : Cardinality(T) = n /\ s[T] # t[T]}
<1>1. \A T \in SUBSET S : IsFiniteSet(T) /\ Cardinality(T) \in Nat
  BY FS_Subset, FS_CardinalityType
<1>2. ASSUME NEW T \in SUBSET S, \A U \in SUBSET S : Cardinality(U) < Cardinality(T) => s[U] = t[U]
      PROVE  s[T] = t[T]
  <2>1. CASE T = {}
    BY <2>1 DEF Sums
  <2>2. CASE T # {}
    <3>1. Some(T) \in T
      BY <2>2 DEF Some
    <3>2. s[T] = f[Some(T)] + s[T \ {Some(T)}] /\ t[T] = g[Some(T)] + t[T \ {Some(T)}]
      BY <2>2 DEF Sums
    <3>3. s[T \ {Some(T)}] = t[T \ {Some(T)}]
      BY <1>1, <1>2, <3>1, SmallerSet
    <3> QED
      BY <3>1, <3>2, <3>3
  <2> QED
    BY <2>1, <2>2
<1>3. bad = {}
  <2> SUFFICES ASSUME bad # {}
               PROVE  FALSE
    OBVIOUS
  <2>1. PICK n \in bad : \A m \in bad : n <= m
    BY FirstOfIsLeast
  <2>2. PICK T \in SUBSET S : Cardinality(T) = n /\ s[T] # t[T]
    BY <2>1
  <2>3. ASSUME NEW U \in SUBSET S, Cardinality(U) < Cardinality(T)
        PROVE  s[U] = t[U]
    <3>1. Cardinality(U) \in Nat /\ n \in Nat /\ Cardinality(U) \notin bad
      BY <1>1, <2>1, <2>2, <2>3
    <3> QED
      BY <3>1
  <2> QED
    BY <1>2, <2>2, <2>3
<1> QED
  BY <1>1, <1>3

LEMMA CardinalityIsSum ==
  ASSUME NEW f, IsFiniteSet(DOMAIN f)
  PROVE  \E s : Sums(s, f) /\ BagCardinality(f) = s[DOMAIN f]
<1> DEFINE s == CHOOSE DSum : DSum = [S \in SUBSET DOMAIN f |->
                     LET elt == CHOOSE e \in S : TRUE
                     IN  IF S = {} THEN 0 ELSE f[elt] + DSum[S \ {elt}]]
<1>1. Sums(s, f)
  BY SumsExist DEF Sums, Some
<1>2. BagCardinality(f) = s[DOMAIN f]
  BY DEF BagCardinality
<1> QED
  BY <1>1, <1>2

-----------------------------------------------------------------------------
(***************************************************************************)
(* Counters                                                                 *)
(***************************************************************************)

\* A bag of labels from a finite set has a number of elements, and none if it is empty.
LEMMA BagCounts ==
  ASSUME NEW B, IsABag(B), IsFiniteSet(DOMAIN B)
  PROVE  BagCardinality(B) \in Nat /\ (DOMAIN B = {} => BagCardinality(B) = 0)
<1>1. \A l \in DOMAIN B : B[l] \in Nat
  BY DEF IsABag
<1>2. PICK s : Sums(s, B) /\ BagCardinality(B) = s[DOMAIN B]
  BY CardinalityIsSum
<1> QED
  BY <1>1, <1>2, SumTakesAway

\* One more of one label makes one element more.
LEMMA BagGrows ==
  ASSUME NEW B, IsABag(B), IsFiniteSet(DOMAIN B), NEW C, IsABag(C), NEW x,
         DOMAIN C = DOMAIN B \cup {x},
         \A l \in DOMAIN B \ {x} : C[l] = B[l],
         C[x] = IF x \in DOMAIN B THEN B[x] + 1 ELSE 1
  PROVE  BagCardinality(C) = BagCardinality(B) + 1
<1>1. IsFiniteSet(DOMAIN C)
  BY FS_AddElement
<1>2. (\A l \in DOMAIN B : B[l] \in Nat) /\ (\A l \in DOMAIN C : C[l] \in Nat)
  BY DEF IsABag
<1>3. PICK s : Sums(s, B) /\ BagCardinality(B) = s[DOMAIN B]
  BY CardinalityIsSum
<1>4. PICK t : Sums(t, C) /\ BagCardinality(C) = t[DOMAIN C]
  BY <1>1, CardinalityIsSum
<1> DEFINE rest == DOMAIN B \ {x}
<1>5. rest \in SUBSET DOMAIN B /\ rest \in SUBSET DOMAIN C /\ rest = DOMAIN C \ {x}
  OBVIOUS
<1>6. s[rest] = t[rest] /\ s[rest] \in Nat
  BY <1>1, <1>2, <1>3, <1>4, <1>5, SumsAgree, SumTakesAway
<1>7. t[DOMAIN C] = C[x] + t[rest]
  BY <1>1, <1>2, <1>4, <1>5, SumTakesAway
<1>8. s[DOMAIN B] = IF x \in DOMAIN B THEN B[x] + s[rest] ELSE s[rest]
  <2>1. CASE x \in DOMAIN B
    BY <1>2, <1>3, <2>1, SumTakesAway
  <2>2. CASE x \notin DOMAIN B
    <3>1. rest = DOMAIN B
      BY <2>2
    <3> QED
      BY <2>2, <3>1
  <2> QED
    BY <2>1, <2>2
<1> QED
  BY <1>2, <1>3, <1>4, <1>6, <1>7, <1>8

\* An increment counts in every total that its label belongs to, and in no other.
LEMMA TotalOfInc ==
  ASSUME NEW all, IsFiniteSet(all), NEW counters, IsVector(counters, all),
         NEW label \in all, NEW labels
  PROVE  /\ Total(counters, labels) \in Nat
         /\ Total(Inc(counters, label), labels)
              = Total(counters, labels) + (IF label \in labels THEN 1 ELSE 0)
         /\ BagCardinality(counters) \in Nat
         /\ BagCardinality(Inc(counters, label)) = BagCardinality(counters) + 1
<1> DEFINE more == Inc(counters, label)
           B == [l \in DOMAIN counters \cap labels |-> counters[l]]
           C == [l \in DOMAIN more \cap labels |-> more[l]]
<1>1. /\ DOMAIN counters \subseteq all /\ \A l \in DOMAIN counters : counters[l] \in Nat \ {0}
      /\ counters = [l \in DOMAIN counters |-> counters[l]]
  BY DEF IsVector, IsABag, BagToSet
<1>2. /\ DOMAIN more = DOMAIN counters \cup {label}
      /\ \A l \in DOMAIN counters \ {label} : more[l] = counters[l]
      /\ more[label] = IF label \in DOMAIN counters THEN counters[label] + 1 ELSE 1
      /\ more = [l \in DOMAIN more |-> more[l]]
  BY <1>1 DEF Inc, SetToBag, (+)
<1> HIDE DEF more
<1>3. IsABag(counters) /\ IsABag(more) /\ IsABag(B) /\ IsABag(C)
  BY <1>1, <1>2 DEF IsABag
<1>4. IsFiniteSet(DOMAIN counters) /\ IsFiniteSet(DOMAIN B)
  BY <1>1, FS_Subset
<1>5. Total(counters, labels) = BagCardinality(B) /\ Total(more, labels) = BagCardinality(C)
  BY DEF Total, BagToSet
<1>6. BagCardinality(more) = BagCardinality(counters) + 1 /\ BagCardinality(counters) \in Nat
  BY <1>2, <1>3, <1>4, BagGrows, BagCounts
<1>7. BagCardinality(B) \in Nat
  BY <1>3, <1>4, BagCounts
<1>8. CASE label \in labels
  <2>1. /\ DOMAIN C = DOMAIN B \cup {label}
        /\ \A l \in DOMAIN B \ {label} : C[l] = B[l]
        /\ C[label] = IF label \in DOMAIN B THEN B[label] + 1 ELSE 1
    BY <1>2, <1>8
  <2> HIDE DEF B, C
  <2>2. BagCardinality(C) = BagCardinality(B) + 1
    BY <1>3, <1>4, <2>1, BagGrows
  <2> QED
    BY <1>5, <1>6, <1>7, <1>8, <2>2 DEF more
<1>9. CASE label \notin labels
  <2>1. C = B
    BY <1>2, <1>9
  <2> QED
    BY <1>5, <1>6, <1>7, <1>9, <2>1 DEF more
<1> QED
  BY <1>8, <1>9

\* A counter that nothing has been added to.
LEMMA TotalOfEmpty ==
  ASSUME NEW labels
  PROVE  Total(EmptyBag, labels) = 0 /\ BagCardinality(EmptyBag) = 0
<1>1. IsABag(EmptyBag) /\ DOMAIN EmptyBag = {}
  BY DEF EmptyBag, SetToBag, IsABag
<1>2. [l \in BagToSet(EmptyBag) \cap labels |-> EmptyBag[l]] = EmptyBag
  BY <1>1 DEF BagToSet, EmptyBag, SetToBag
<1>3. IsFiniteSet(DOMAIN EmptyBag)
  BY <1>1, FS_EmptySet
<1>4. BagCardinality(EmptyBag) = 0
  BY <1>1, <1>3, BagCounts
<1> QED
  BY <1>2, <1>4 DEF Total

LEMMA VectorCounts ==
  ASSUME NEW all, IsFiniteSet(all), NEW counters, IsVector(counters, all)
  PROVE  BagCardinality(counters) \in Nat
BY BagCounts, FS_Subset DEF IsVector, BagToSet

LEMMA OneMore ==
  ASSUME NEW S, IsFiniteSet(S), NEW x, x \notin S
  PROVE  Cardinality(S) \in Nat /\ Cardinality(S \cup {x}) = Cardinality(S) + 1
BY FS_AddElement, FS_CardinalityType

-----------------------------------------------------------------------------
(***************************************************************************)
(* What each function adds to the metrics                                   *)
(***************************************************************************)

\* The counters of MetricsAgree are as they were.
SameCounts(m, n) ==
    /\ n.FailOpenTotal = m.FailOpenTotal /\ n.ActionApplied = m.ActionApplied
    /\ n.InlineDuration = m.InlineDuration

LEMMA CountsOf ==
  ASSUME NEW m, IsMetrics(m)
  PROVE  /\ SameCounts(m, countKillSwitch(m)) /\ SameCounts(m, countAbstain(m))
         /\ \A from, to : SameCounts(m, OnStateTransition(m, from, to))
         /\ /\ recordInline(m).FailOpenTotal = m.FailOpenTotal
            /\ recordInline(m).ActionApplied = m.ActionApplied
            /\ recordInline(m).InlineDuration = m.InlineDuration + 1
         /\ \A reason :
               /\ recordFailOpen(m, reason).FailOpenTotal = Inc(m.FailOpenTotal, reason)
               /\ recordFailOpen(m, reason).ActionApplied = m.ActionApplied
               /\ recordFailOpen(m, reason).InlineDuration = m.InlineDuration
         /\ \A action, applied :
               /\ recordAction(m, action, applied).FailOpenTotal = m.FailOpenTotal
               /\ recordAction(m, action, applied).ActionApplied
                     = Inc(m.ActionApplied, <<action, applied>>)
               /\ recordAction(m, action, applied).InlineDuration = m.InlineDuration
BY DEF IsMetrics, NewMetrics, SameCounts, countKillSwitch, countAbstain, recordInline,
       recordFailOpen, recordAction, OnStateTransition

\* The transition counters change only when an evaluation reports a change of state.
LEMMA TransitionsOf ==
  ASSUME NEW m, IsMetrics(m)
  PROVE  /\ countKillSwitch(m).PolicyStateTransition = m.PolicyStateTransition
         /\ countAbstain(m).PolicyStateTransition = m.PolicyStateTransition
         /\ recordInline(m).PolicyStateTransition = m.PolicyStateTransition
         /\ \A reason :
               recordFailOpen(m, reason).PolicyStateTransition = m.PolicyStateTransition
         /\ \A action, applied :
               recordAction(m, action, applied).PolicyStateTransition
                 = m.PolicyStateTransition
         /\ \A from, to :
               OnStateTransition(m, from, to).PolicyStateTransition
                 = IF from = to THEN m.PolicyStateTransition
                   ELSE Inc(m.PolicyStateTransition, <<from, to>>)
BY DEF IsMetrics, NewMetrics, countKillSwitch, countAbstain, recordInline,
       recordFailOpen, recordAction, OnStateTransition

\* The labels are finitely many.
LEMMA FiniteFive ==
  ASSUME NEW a, NEW b, NEW c, NEW d, NEW e
  PROVE  IsFiniteSet({a, b, c, d, e})
<1>1. IsFiniteSet({a})
  BY FS_Singleton
<1>2. IsFiniteSet({a} \cup {b})
  BY <1>1, FS_AddElement
<1>3. IsFiniteSet({a} \cup {b} \cup {c})
  BY <1>2, FS_AddElement
<1>4. IsFiniteSet({a} \cup {b} \cup {c} \cup {d})
  BY <1>3, FS_AddElement
<1>5. IsFiniteSet({a} \cup {b} \cup {c} \cup {d} \cup {e})
  BY <1>4, FS_AddElement
<1>6. {a, b, c, d, e} = {a} \cup {b} \cup {c} \cup {d} \cup {e}
  OBVIOUS
<1> QED
  BY <1>5, <1>6

LEMMA FiniteLabels ==
  /\ IsFiniteSet(FailOpenReasons)
  /\ IsFiniteSet(Actions \X BOOLEAN)
  /\ IsFiniteSet(StabilityState \X StabilityState)
<1>1. IsFiniteSet(Actions)
  BY FiniteFive DEF Actions
<1>2. IsFiniteSet(StabilityState)
  BY FiniteFive DEF StabilityState
<1>3. FailOpenReasons \subseteq {"budget", "signal_error", "policy_error", "none", ""}
  BY DEF FailOpenReasons
<1>4. IsFiniteSet({TRUE, FALSE, TRUE, TRUE, TRUE})
  BY FiniteFive
<1>5. BOOLEAN = {TRUE, FALSE, TRUE, TRUE, TRUE}
  OBVIOUS
<1>6. IsFiniteSet(FailOpenReasons)
  BY <1>3, FiniteFive, FS_Subset
<1> QED
  BY <1>1, <1>2, <1>4, <1>5, <1>6, FS_Product

-----------------------------------------------------------------------------
(***************************************************************************)
(* The counters agree with the traces and the spans                        *)
(***************************************************************************)

\* The span gives the reason of a fail-open, and no other.
ReasonsReported ==
    \A r \in Requests :
        req[r].record.FailOpenReason
          = IF req[r].reason \in FailOpenReasons THEN req[r].reason ELSE "none"

Agreement == MetricsAgree /\ ReasonsReported

\* Only the request that steps may enter or leave what is counted.
LEMMA OthersCounted ==
  ASSUME NEW r \in Requests, Steps(r)
  PROVE  /\ \A other \in Requests \ {r} :
               /\ SpanAttrs(other)'.fail_open_reason = SpanAttrs(other).fail_open_reason
               /\ req'[other] = req[other]
               /\ \A action : LoggedApplied(other, action)' <=> LoggedApplied(other, action)
         /\ SpanAttrs(r).fail_open_reason = req[r].record.FailOpenReason
         /\ SpanAttrs(r)'.fail_open_reason = req'[r].record.FailOpenReason
BY DEF Steps, SpanAttrs, LoggedApplied

\* A step that counts nothing, and marks its request with nothing.
LEMMA AgreementKept ==
  ASSUME Agreement, NEW r \in Requests, Steps(r), SameCounts(metrics, metrics'),
         req'[r].reason = req[r].reason,
         req'[r].record.FailOpenReason = req[r].record.FailOpenReason,
         \A action \in Actions : LoggedApplied(r, action)' <=> LoggedApplied(r, action)
  PROVE  Agreement'
<1>1. ReasonsReported'
  BY DEF Agreement, ReasonsReported, Steps
<1>2. /\ \A reason \in FailOpenReasons : FailedFor(reason)' = FailedFor(reason)
      /\ \A action \in Actions : AppliedTo(action)' = AppliedTo(action)
      /\ NotApplied' = NotApplied
  BY OthersCounted DEF FailedFor, AppliedTo, NotApplied
<1>3. MetricsAgree'
  BY <1>2 DEF Agreement, MetricsAgree, SameCounts
<1> QED
  BY <1>1, <1>3 DEF Agreement

\* The sets that are counted are finite.
LEMMA CountedFinite ==
  ASSUME IsFiniteSet(Requests)
  PROVE  /\ \A reason : IsFiniteSet(FailedFor(reason))
         /\ \A action : IsFiniteSet(AppliedTo(action))
         /\ IsFiniteSet(NotApplied) /\ Cardinality(NotApplied) \in Nat
BY FS_Subset, FS_CardinalityType DEF FailedFor, AppliedTo, NotApplied

\* An end of the inline path marks its request with one of the three.
LEMMA FailOpenAgrees ==
  ASSUME IsFiniteSet(Requests), TypeInvariant, PathInvariant, Agreement,
         NEW r \in Requests, Steps(r), NEW reason \in FailOpenReasons,
         req[r].pc \in {"signal", "decided"}, FailOpen(r, reason)
  PROVE  Agreement'
<1>1. req[r].reason = "none" /\ traces[r] = << >> /\ IsMetrics(metrics)
  BY Unmarked DEF TypeInvariant, TypeOK
<1>2. /\ req'[r].reason = reason /\ req'[r].record.FailOpenReason = reason
      /\ Len(traces'[r]) = 1 /\ ~traces'[r][1].enforced
  BY <1>1, FailOpenLeaves
<1>3. req[r].record.FailOpenReason = "none"
  BY <1>1 DEF Agreement, ReasonsReported, FailOpenReasons
<1>4. ReasonsReported'
  BY <1>2 DEF Agreement, ReasonsReported, Steps
<1>5. /\ metrics'.FailOpenTotal = Inc(metrics.FailOpenTotal, reason)
      /\ metrics'.ActionApplied = metrics.ActionApplied
      /\ metrics'.InlineDuration = metrics.InlineDuration + 1
  <2>1. IsMetrics(recordFailOpen(metrics, reason))
    BY <1>1, MetricsType
  <2> QED
    BY <1>1, <2>1, CountsOf DEF FailOpen
<1>6. /\ FailedFor(reason)' = FailedFor(reason) \cup {r} /\ r \notin FailedFor(reason)
      /\ \A other \in FailOpenReasons \ {reason} : FailedFor(other)' = FailedFor(other)
  BY <1>2, <1>3, OthersCounted DEF FailedFor, FailOpenReasons
<1>7. \A action \in Actions : AppliedTo(action)' = AppliedTo(action)
  <2>1. \A action \in Actions : ~LoggedApplied(r, action) /\ ~LoggedApplied(r, action)'
    BY <1>1, <1>2 DEF LoggedApplied
  <2> QED
    BY <2>1, OthersCounted DEF AppliedTo
<1>8. NotApplied' = NotApplied
  BY <1>1, <1>2, OthersCounted DEF NotApplied, FailOpenReasons
<1>9. /\ BagCardinality(metrics'.FailOpenTotal) = BagCardinality(metrics.FailOpenTotal) + 1
      /\ BagCardinality(metrics.FailOpenTotal) \in Nat
      /\ \A other \in FailOpenReasons :
            /\ Total(metrics.FailOpenTotal, {other}) \in Nat
            /\ Total(metrics'.FailOpenTotal, {other})
                 = Total(metrics.FailOpenTotal, {other}) + (IF reason = other THEN 1 ELSE 0)
  <2>1. IsVector(metrics.FailOpenTotal, FailOpenReasons)
    BY <1>1 DEF IsMetrics
  <2> QED
    BY <1>5, <2>1, FiniteLabels, TotalOfInc
<1>10. BagCardinality(metrics.ActionApplied) \in Nat
  <2>1. IsVector(metrics.ActionApplied, Actions \X BOOLEAN)
    BY <1>1 DEF IsMetrics
  <2> QED
    BY <2>1, FiniteLabels, VectorCounts
<1>11. ASSUME NEW other \in FailOpenReasons
       PROVE  Total(metrics'.FailOpenTotal, {other}) = Cardinality(FailedFor(other)')
  <2>1. Total(metrics.FailOpenTotal, {other}) = Cardinality(FailedFor(other))
    BY DEF Agreement, MetricsAgree
  <2>2. Cardinality(FailedFor(other)')
          = Cardinality(FailedFor(other)) + (IF reason = other THEN 1 ELSE 0)
    BY <1>6, <1>9, <2>1, CountedFinite, OneMore
  <2> QED
    BY <1>9, <2>1, <2>2
<1>12. metrics'.InlineDuration = BagCardinality(metrics'.FailOpenTotal)
            + BagCardinality(metrics'.ActionApplied) + Cardinality(NotApplied')
  BY <1>5, <1>8, <1>9, <1>10, CountedFinite DEF Agreement, MetricsAgree
<1>13. \A action \in Actions :
         Total(metrics'.ActionApplied, {<<action, TRUE>>}) = Cardinality(AppliedTo(action)')
  BY <1>5, <1>7 DEF Agreement, MetricsAgree
<1> QED
  BY <1>4, <1>11, <1>12, <1>13 DEF Agreement, MetricsAgree

\* A conclusion counts its action under the outcome that the trace gives.
LEMMA ConcludeAgrees ==
  ASSUME IsFiniteSet(Requests), TypeInvariant, PathInvariant, Agreement,
         NEW r \in Requests, Steps(r), NEW next \in Handler, NEW enforced \in BOOLEAN,
         Conclude(r, next, enforced),
         next.reason = req[r].reason, next.record = req[r].record
  PROVE  Agreement'
<1>1. req[r].reason = "none" /\ traces[r] = << >> /\ IsMetrics(metrics)
  BY Unmarked DEF Conclude, Decided, At, TypeInvariant, TypeOK
<1>2. PICK action \in Actions :
         /\ action = req[r].decision.action /\ Len(traces'[r]) = 1
         /\ traces'[r][1].action = action /\ traces'[r][1].enforced = enforced
  BY <1>1, ConcludeLogs DEF Decision
<1>3. /\ req'[r].reason = req[r].reason
      /\ req'[r].record.FailOpenReason = req[r].record.FailOpenReason
  BY ConcludeLeaves
<1>4. ReasonsReported'
  BY <1>3 DEF Agreement, ReasonsReported, Steps
<1>5. /\ metrics'.FailOpenTotal = metrics.FailOpenTotal
      /\ metrics'.ActionApplied = Inc(metrics.ActionApplied, <<action, enforced>>)
      /\ metrics'.InlineDuration = metrics.InlineDuration + 1
  <2> DEFINE m == recordAction(metrics, action, enforced)
  <2>1. IsMetrics(m) /\ IsMetrics(countAbstain(m))
    BY <1>1, <1>2, MetricsType
  <2>2. metrics' = recordInline(IF req[r].frame.abstain THEN countAbstain(m) ELSE m)
    BY <1>2 DEF Conclude
  <2>3. /\ m.FailOpenTotal = metrics.FailOpenTotal
        /\ m.ActionApplied = Inc(metrics.ActionApplied, <<action, enforced>>)
        /\ m.InlineDuration = metrics.InlineDuration
    BY <1>1, CountsOf
  <2> HIDE DEF m
  <2> QED
    BY <2>1, <2>2, <2>3, CountsOf DEF SameCounts
<1>6. /\ \A reason \in FailOpenReasons : FailedFor(reason)' = FailedFor(reason)
      /\ NotApplied' = NotApplied
  BY <1>3, OthersCounted DEF FailedFor, NotApplied
<1>7. /\ enforced => AppliedTo(action)' = AppliedTo(action) \cup {r}
      /\ r \notin AppliedTo(action)
      /\ \A other \in Actions :
            (enforced /\ other = action) \/ AppliedTo(other)' = AppliedTo(other)
  <2>1. \A other : /\ ~LoggedApplied(r, other)
                   /\ LoggedApplied(r, other)' <=> enforced /\ other = action
    BY <1>1, <1>2 DEF LoggedApplied
  <2> QED
    BY <2>1, OthersCounted DEF AppliedTo
<1>8. IsVector(metrics.FailOpenTotal, FailOpenReasons)
      /\ IsVector(metrics.ActionApplied, Actions \X BOOLEAN)
  BY <1>1 DEF IsMetrics
<1>9. /\ BagCardinality(metrics'.ActionApplied) = BagCardinality(metrics.ActionApplied) + 1
      /\ BagCardinality(metrics.ActionApplied) \in Nat
      /\ \A other \in Actions :
            /\ Total(metrics.ActionApplied, {<<other, TRUE>>}) \in Nat
            /\ Total(metrics'.ActionApplied, {<<other, TRUE>>})
                 = Total(metrics.ActionApplied, {<<other, TRUE>>})
                     + (IF enforced /\ other = action THEN 1 ELSE 0)
  <2> DEFINE label == <<action, enforced>>
  <2>1. label \in Actions \X BOOLEAN
    OBVIOUS
  <2>2. \A other \in Actions : label \in {<<other, TRUE>>} <=> enforced /\ other = action
    OBVIOUS
  <2>3. metrics'.ActionApplied = Inc(metrics.ActionApplied, label)
    BY <1>5
  <2> HIDE DEF label
  <2>4. ASSUME NEW other \in Actions
        PROVE  /\ Total(metrics.ActionApplied, {<<other, TRUE>>}) \in Nat
               /\ Total(metrics'.ActionApplied, {<<other, TRUE>>})
                    = Total(metrics.ActionApplied, {<<other, TRUE>>})
                        + (IF enforced /\ other = action THEN 1 ELSE 0)
    <3> DEFINE labels == {<<other, TRUE>>}
    <3>1. label \in labels <=> enforced /\ other = action
      BY <2>2
    <3> HIDE DEF labels
    <3>2. /\ Total(metrics.ActionApplied, labels) \in Nat
          /\ Total(Inc(metrics.ActionApplied, label), labels)
               = Total(metrics.ActionApplied, labels) + (IF label \in labels THEN 1 ELSE 0)
      BY <1>8, <2>1, FiniteLabels, TotalOfInc
    <3>3. /\ Total(metrics.ActionApplied, labels) \in Nat
          /\ Total(metrics'.ActionApplied, labels)
               = Total(metrics.ActionApplied, labels)
                   + (IF enforced /\ other = action THEN 1 ELSE 0)
      BY <2>3, <3>1, <3>2
    <3> QED
      BY <3>3 DEF labels
  <2>5. /\ BagCardinality(metrics'.ActionApplied) = BagCardinality(metrics.ActionApplied) + 1
        /\ BagCardinality(metrics.ActionApplied) \in Nat
    BY <1>8, <2>1, <2>3, FiniteLabels, TotalOfInc
  <2> QED
    BY <2>4, <2>5
<1>10. BagCardinality(metrics.FailOpenTotal) \in Nat
  BY <1>8, FiniteLabels, VectorCounts
<1>11. ASSUME NEW other \in Actions
       PROVE  Total(metrics'.ActionApplied, {<<other, TRUE>>})
                = Cardinality(AppliedTo(other)')
  <2>1. Total(metrics.ActionApplied, {<<other, TRUE>>}) = Cardinality(AppliedTo(other))
    BY DEF Agreement, MetricsAgree
  <2>2. Cardinality(AppliedTo(other)')
          = Cardinality(AppliedTo(other)) + (IF enforced /\ other = action THEN 1 ELSE 0)
    <3>1. Cardinality(AppliedTo(other)) \in Nat
      BY <1>9, <2>1
    <3>2. CASE enforced /\ other = action
      <4>1. AppliedTo(other)' = AppliedTo(other) \cup {r} /\ r \notin AppliedTo(other)
        BY <1>7, <3>2
      <4> QED
        BY <3>2, <4>1, CountedFinite, OneMore
    <3>3. CASE ~(enforced /\ other = action)
      BY <1>7, <3>1, <3>3
    <3> QED
      BY <3>2, <3>3
  <2> QED
    BY <1>9, <2>1, <2>2
<1>12. metrics'.InlineDuration = BagCardinality(metrics'.FailOpenTotal)
            + BagCardinality(metrics'.ActionApplied) + Cardinality(NotApplied')
  BY <1>5, <1>6, <1>9, <1>10, CountedFinite DEF Agreement, MetricsAgree
<1>13. \A reason \in FailOpenReasons :
         Total(metrics'.FailOpenTotal, {reason}) = Cardinality(FailedFor(reason)')
  BY <1>5, <1>6 DEF Agreement, MetricsAgree
<1> QED
  BY <1>4, <1>11, <1>12, <1>13 DEF Agreement, MetricsAgree

\* An action that cannot be applied counts as neither.
LEMMA ApplyFailsAgrees ==
  ASSUME IsFiniteSet(Requests), TypeInvariant, PathInvariant, Agreement,
         NEW r \in Requests, Steps(r), ApplyFails(r)
  PROVE  Agreement'
<1>1. /\ req[r].reason = "none" /\ IsMetrics(metrics)
      /\ req \in [Requests -> Handler] /\ req[r] \in Handler
  BY Unmarked DEF ApplyFails, Decided, At, TypeInvariant, TypeOK
<1>2. req[r].record.FailOpenReason = "none"
  BY <1>1 DEF Agreement, ReasonsReported, FailOpenReasons
<1>3. req'[r].reason = "enforce_error" /\ req'[r].record.FailOpenReason = "none"
  <2>1. req'[r] = [[[req[r] EXCEPT !.pc = "shadow"] EXCEPT !.body = req[r].original]
                     EXCEPT !.reason = "enforce_error"]
    BY <1>1 DEF ApplyFails
  <2> QED
    BY <1>1, <1>2, <2>1 DEF Handler
<1>4. ReasonsReported'
  BY <1>3 DEF Agreement, ReasonsReported, Steps, FailOpenReasons
<1>5. /\ metrics'.FailOpenTotal = metrics.FailOpenTotal
      /\ metrics'.ActionApplied = metrics.ActionApplied
      /\ metrics'.InlineDuration = metrics.InlineDuration + 1
  BY <1>1, CountsOf DEF ApplyFails
<1>6. /\ \A reason \in FailOpenReasons : FailedFor(reason)' = FailedFor(reason)
      /\ \A action \in Actions : AppliedTo(action)' = AppliedTo(action)
  <2>1. \A action : LoggedApplied(r, action)' <=> LoggedApplied(r, action)
    BY DEF ApplyFails, LoggedApplied
  <2> QED
    BY <1>2, <1>3, <2>1, OthersCounted DEF FailedFor, AppliedTo
<1>7. NotApplied' = NotApplied \cup {r} /\ r \notin NotApplied
  BY <1>1, <1>3, OthersCounted DEF NotApplied
<1>8. Cardinality(NotApplied') = Cardinality(NotApplied) + 1
  BY <1>7, CountedFinite, OneMore
<1>9. BagCardinality(metrics.FailOpenTotal) \in Nat /\ BagCardinality(metrics.ActionApplied) \in Nat
  <2>1. /\ IsVector(metrics.FailOpenTotal, FailOpenReasons)
        /\ IsVector(metrics.ActionApplied, Actions \X BOOLEAN)
    BY <1>1 DEF IsMetrics
  <2> QED
    BY <2>1, FiniteLabels, VectorCounts
<1>10. metrics'.InlineDuration = BagCardinality(metrics'.FailOpenTotal)
            + BagCardinality(metrics'.ActionApplied) + Cardinality(NotApplied')
  BY <1>5, <1>8, <1>9, CountedFinite DEF Agreement, MetricsAgree
<1>11. /\ \A reason \in FailOpenReasons :
            Total(metrics'.FailOpenTotal, {reason}) = Cardinality(FailedFor(reason)')
       /\ \A action \in Actions :
            Total(metrics'.ActionApplied, {<<action, TRUE>>}) = Cardinality(AppliedTo(action)')
  BY <1>5, <1>6 DEF Agreement, MetricsAgree
<1> QED
  BY <1>4, <1>10, <1>11 DEF Agreement, MetricsAgree

\* The steps of a handler that do not end its inline path, and all of its goroutine.
LEMMA QuietAgrees ==
  ASSUME TypeInvariant, Agreement, NEW r \in Requests, Steps(r),
         \/ Refuse(r) \/ Admit(r) \/ Bypass(r) \/ StartInline(r) \/ BudgetExpires(r)
         \/ EvaluatePolicy(r) \/ PolicyPanics(r) \/ PassShadow(r)
         \/ UpstreamReceives(r) \/ UpstreamAnswers(r) \/ UpstreamFails(r)
         \/ \E frame \in Frame : SignalAnswers(r, frame)
         \/ Analyse(r)
  PROVE  Agreement'
<1>1. /\ req \in [Requests -> Handler] /\ req[r] \in Handler /\ IsMetrics(metrics)
      /\ shadow[r] \in Goroutine /\ traces \in [Requests -> Seq(Trace)]
      /\ DecisionMade(r)
  BY DEF TypeInvariant, TypeOK
<1>2. SameCounts(metrics, metrics)
  BY DEF SameCounts
<1>3. CASE Bypass(r) \/ EvaluatePolicy(r)
  <2>1. SameCounts(metrics, metrics') /\ traces' = traces
    BY <1>1, <1>2, <1>3, CountsOf DEF Bypass, EvaluatePolicy
  <2>2. \/ req'[r] = [req[r] EXCEPT !.pc = "shadow"]
        \/ \E decision :
              req'[r] = [[req[r] EXCEPT !.pc = "decided"] EXCEPT !.decision = decision]
    BY <1>1, <1>3 DEF Bypass, EvaluatePolicy
  <2>3. req'[r].reason = req[r].reason /\ req'[r].record = req[r].record
    BY <1>1, <2>2 DEF Handler
  <2> QED
    BY <2>1, <2>3, AgreementKept DEF LoggedApplied
<1>4. CASE \/ Refuse(r) \/ Admit(r) \/ BudgetExpires(r) \/ PolicyPanics(r) \/ PassShadow(r)
           \/ UpstreamReceives(r) \/ UpstreamAnswers(r) \/ UpstreamFails(r)
           \/ \E frame \in Frame : SignalAnswers(r, frame)
  <2>1. metrics' = metrics /\ traces' = traces
    BY <1>4 DEF Refuse, Admit, BudgetExpires, PolicyPanics, PassShadow, UpstreamReceives,
                UpstreamAnswers, UpstreamFails, SignalAnswers, surroundings
  <2>2. req'[r].reason = req[r].reason /\ req'[r].record = req[r].record
    BY <1>1, <1>4 DEF Refuse, Admit, BudgetExpires, PolicyPanics, PassShadow,
                      UpstreamReceives, UpstreamAnswers, UpstreamFails, SignalAnswers, Handler
  <2> QED
    BY <1>2, <2>1, <2>2, AgreementKept DEF LoggedApplied
<1>5. CASE StartInline(r)
  <2>1. /\ metrics' = metrics /\ traces' = traces
        /\ req'[r] = [[req[r] EXCEPT !.pc = "signal"] EXCEPT !.record.Inline = TRUE]
    BY <1>1, <1>5 DEF StartInline, surroundings
  <2>2. req'[r].reason = req[r].reason
        /\ req'[r].record.FailOpenReason = req[r].record.FailOpenReason
    BY <1>1, <2>1 DEF Handler
  <2> QED
    BY <1>2, <2>1, <2>2, AgreementKept DEF LoggedApplied
<1>6. CASE Analyse(r)
  <2>1. req' = req
    BY <1>6 DEF Analyse, ShadowSignalAnswers, ShadowSignalFails, ShadowSignalPanics,
                ShadowEvaluates, ShadowPolicyPanics, ShadowTraces
  <2>2. SameCounts(metrics, metrics')
    <3>1. \/ metrics' = metrics \/ metrics' = countAbstain(metrics)
          \/ \E from, to : metrics' = OnStateTransition(metrics, from, to)
      BY <1>6 DEF Analyse, ShadowSignalAnswers, ShadowSignalFails, ShadowSignalPanics,
                  ShadowEvaluates, ShadowPolicyPanics, ShadowTraces
    <3> QED
      BY <1>1, <1>2, <3>1, CountsOf
  <2>3. \A action : LoggedApplied(r, action)' <=> LoggedApplied(r, action)
    <3>1. CASE ShadowTraces(r)
      <4>1. /\ shadow[r].decision \in Decision
            /\ LogTrace(r, shadow[r].decision.action, shadow[r].decision.state, FALSE)
        BY <1>1, <3>1 DEF ShadowTraces, ShadowAt, DecisionMade
      <4>2. traces'[r] = Append(traces[r], [tenant |-> TenantOf[r],
                action |-> shadow[r].decision.action, state |-> shadow[r].decision.state,
                enforced |-> FALSE])
        BY <4>1, LogTraceType DEF TypeInvariant, Decision
      <4>3. /\ Len(traces'[r]) = Len(traces[r]) + 1 /\ Len(traces[r]) \in Nat
            /\ \A i \in 1..Len(traces[r]) : traces'[r][i] = traces[r][i]
            /\ ~traces'[r][Len(traces[r]) + 1].enforced
        BY <1>1, <4>2
      <4> QED
        BY <4>3 DEF LoggedApplied
    <3>2. CASE ~ShadowTraces(r)
      <4>1. traces' = traces
        BY <1>6, <3>2 DEF Analyse, ShadowSignalAnswers, ShadowSignalFails,
                          ShadowSignalPanics, ShadowEvaluates, ShadowPolicyPanics
      <4> QED
        BY <4>1 DEF LoggedApplied
    <3> QED
      BY <3>1, <3>2
  <2> QED
    BY <2>1, <2>2, <2>3, AgreementKept
<1> QED
  BY <1>3, <1>4, <1>5, <1>6

\* However many requests are served at once, and however their inline paths end, each
\* fail-open counter is the number of spans that give its reason, each counter of applied
\* actions the number of enforced traces of the action, and no end of an inline path
\* escapes them.
THEOREM MetricsAreTrue == ASSUME IsFiniteSet(Requests) PROVE Spec => []MetricsAgree
<1>1. Init => Agreement
  <2> SUFFICES ASSUME Init
               PROVE  Agreement
    OBVIOUS
  <2>1. ASSUME NEW r \in Requests
        PROVE  /\ req[r].reason = "none" /\ req[r].record.FailOpenReason = "none"
               /\ traces[r] = << >>
    BY DEF Init, NewHandler, NoRecord
  <2>2. /\ \A reason \in FailOpenReasons : FailedFor(reason) = {}
        /\ \A action \in Actions : AppliedTo(action) = {}
        /\ NotApplied = {}
    BY <2>1 DEF FailedFor, AppliedTo, NotApplied, SpanAttrs, LoggedApplied, FailOpenReasons
  <2>3. /\ metrics.FailOpenTotal = EmptyBag /\ metrics.ActionApplied = EmptyBag
        /\ metrics.InlineDuration = 0
    BY DEF Init, NewMetrics
  <2>4. Cardinality({}) = 0
    BY FS_EmptySet
  <2>5. MetricsAgree
    <3>1. \A reason \in FailOpenReasons :
             Total(metrics.FailOpenTotal, {reason}) = Cardinality(FailedFor(reason))
      BY <2>2, <2>3, <2>4, TotalOfEmpty
    <3>2. \A action \in Actions :
             Total(metrics.ActionApplied, {<<action, TRUE>>}) = Cardinality(AppliedTo(action))
      BY <2>2, <2>3, <2>4, TotalOfEmpty
    <3>3. metrics.InlineDuration = BagCardinality(metrics.FailOpenTotal)
             + BagCardinality(metrics.ActionApplied) + Cardinality(NotApplied)
      BY <2>2, <2>3, <2>4, TotalOfEmpty
    <3> QED
      BY <3>1, <3>2, <3>3 DEF MetricsAgree
  <2>6. ReasonsReported
    BY <2>1 DEF ReasonsReported, FailOpenReasons
  <2> QED
    BY <2>5, <2>6 DEF Agreement
<1>2. TypeInvariant /\ PathInvariant /\ Agreement /\ [Next]_vars => Agreement'
  <2> SUFFICES ASSUME TypeInvariant, PathInvariant, Agreement, [Next]_vars
               PROVE  Agreement'
    OBVIOUS
  <2>1. CASE Next
    <3>1. PICK r \in Requests :
              \/ Refuse(r) \/ Admit(r) \/ Proceed(r) \/ BudgetExpires(r) \/ SignalFails(r)
              \/ \E frame \in Frame : SignalAnswers(r, frame)
              \/ UpstreamReceives(r) \/ UpstreamAnswers(r) \/ UpstreamFails(r)
              \/ Analyse(r)
      BY <2>1 DEF Next
    <3>2. Steps(r)
      BY <3>1, HandlerActions, UpstreamActions, GoroutineActions
    <3>3. CASE SignalFails(r) \/ PolicyFails(r)
      BY <3>2, <3>3, FailOpenAgrees DEF SignalFails, PolicyFails, At, FailOpenReasons
    <3>4. CASE PassThrough(r) \/ Mutate(r) \/ ShortCircuit(r)
      BY <3>2, <3>4, ConclusionKnown, ConcludeAgrees
    <3>5. CASE ApplyFails(r)
      BY <3>2, <3>5, ApplyFailsAgrees
    <3> QED
      BY <3>1, <3>2, <3>3, <3>4, <3>5, QuietAgrees DEF Proceed
  <2>2. CASE UNCHANGED vars
    BY <2>2 DEF vars, Agreement, MetricsAgree, ReasonsReported, FailedFor, AppliedTo,
                NotApplied, LoggedApplied, SpanAttrs
  <2> QED
    BY <2>1, <2>2
<1>3. Agreement => MetricsAgree
  BY DEF Agreement
<1> QED
  BY <1>1, <1>2, <1>3, TypeInvariantHolds, PathInvariantHolds, PTL DEF Spec

-----------------------------------------------------------------------------
(***************************************************************************)
(* The transition counters balance                                         *)
(***************************************************************************)

\* A step that evaluates nothing.
LEMMA BalanceKept ==
  ASSUME TransitionsBalance, data' = data,
         metrics'.PolicyStateTransition = metrics.PolicyStateTransition
  PROVE  TransitionsBalance'
BY DEF TransitionsBalance, InState, Entered, Left, Lookup

\* An evaluation moves one conversation, and counts the move.
LEMMA EvaluationBalances ==
  ASSUME IsFiniteSet(Conversations), TypeInvariant, TransitionsBalance,
         NEW c \in Conversations, NEW next \in ConversationState,
         data' = Put(data, c, next),
         metrics' = OnStateTransition(metrics, Lookup(data, c).state, next.state)
  PROVE  TransitionsBalance'
<1>1. /\ IsMetrics(metrics) /\ Lookup(data, c) \in ConversationState
      /\ IsVector(metrics.PolicyStateTransition, StabilityState \X StabilityState)
  BY LookupType DEF TypeInvariant, TypeOK, IsMetrics
<1>2. PICK from \in StabilityState : from = Lookup(data, c).state
  BY <1>1 DEF ConversationState
<1>3. PICK to \in StabilityState : to = next.state
  BY DEF ConversationState
<1>4. /\ Lookup(data', c) = next
      /\ \A other \in Conversations \ {c} : Lookup(data', other) = Lookup(data, other)
  BY DEF Put, Lookup
<1>5. CASE from = to
  <2>1. metrics'.PolicyStateTransition = metrics.PolicyStateTransition
    BY <1>2, <1>3, <1>5 DEF OnStateTransition
  <2>2. \A state \in StabilityState : InState(state)' = InState(state)
    BY <1>2, <1>3, <1>4, <1>5 DEF InState
  <2> QED
    BY <2>1, <2>2 DEF TransitionsBalance, Entered, Left
<1>6. CASE from # to
  <2>1. metrics'.PolicyStateTransition = Inc(metrics.PolicyStateTransition, <<from, to>>)
    BY <1>1, <1>2, <1>3, <1>6, TransitionsOf
  <2>2. ASSUME NEW state \in StabilityState
        PROVE  /\ Entered(metrics, state) \in Nat /\ Left(metrics, state) \in Nat
               /\ Entered(metrics', state)
                    = Entered(metrics, state) + (IF state = to THEN 1 ELSE 0)
               /\ Left(metrics', state)
                    = Left(metrics, state) + (IF state = from THEN 1 ELSE 0)
    <3> DEFINE label == <<from, to>>
               entering == StabilityState \X {state}
               leaving == {state} \X StabilityState
    <3>1. /\ label \in StabilityState \X StabilityState
          /\ label \in entering <=> state = to
          /\ label \in leaving <=> state = from
      OBVIOUS
    <3> HIDE DEF label, entering, leaving
    <3>2. /\ Total(metrics.PolicyStateTransition, entering) \in Nat
          /\ Total(Inc(metrics.PolicyStateTransition, label), entering)
               = Total(metrics.PolicyStateTransition, entering)
                   + (IF label \in entering THEN 1 ELSE 0)
      BY <1>1, <3>1, FiniteLabels, TotalOfInc
    <3>3. /\ Total(metrics.PolicyStateTransition, leaving) \in Nat
          /\ Total(Inc(metrics.PolicyStateTransition, label), leaving)
               = Total(metrics.PolicyStateTransition, leaving)
                   + (IF label \in leaving THEN 1 ELSE 0)
      BY <1>1, <3>1, FiniteLabels, TotalOfInc
    <3>4. metrics'.PolicyStateTransition = Inc(metrics.PolicyStateTransition, label)
      BY <2>1 DEF label
    <3> QED
      BY <3>1, <3>2, <3>3, <3>4 DEF Entered, Left, entering, leaving
  <2>3. ASSUME NEW state \in StabilityState
        PROVE  /\ Cardinality(InState(state)) \in Nat
               /\ Cardinality(InState(state)')
                    = Cardinality(InState(state))
                        + (IF state = to THEN 1 ELSE 0) - (IF state = from THEN 1 ELSE 0)
    <3>1. IsFiniteSet(InState(state)) /\ Cardinality(InState(state)) \in Nat
      BY FS_Subset, FS_CardinalityType DEF InState
    <3>2. CASE state = to
      <4>1. InState(state)' = InState(state) \cup {c} /\ c \notin InState(state)
        BY <1>2, <1>3, <1>4, <1>6, <3>2 DEF InState
      <4>2. Cardinality(InState(state)') = Cardinality(InState(state)) + 1
        BY <3>1, <4>1, OneMore
      <4> QED
        BY <1>6, <3>1, <3>2, <4>2
    <3>3. CASE state = from
      <4>1. InState(state)' = InState(state) \ {c} /\ c \in InState(state)
        BY <1>2, <1>3, <1>4, <1>6, <3>3 DEF InState
      <4>2. Cardinality(InState(state)') = Cardinality(InState(state)) - 1
        BY <3>1, <4>1, FS_RemoveElement
      <4> QED
        BY <1>6, <3>1, <3>3, <4>2
    <3>4. CASE state \notin {from, to}
      <4>1. InState(state)' = InState(state)
        BY <1>2, <1>3, <1>4, <3>4 DEF InState
      <4> QED
        BY <3>1, <3>4, <4>1
    <3> QED
      BY <3>2, <3>3, <3>4
  <2>4. ASSUME NEW state \in StabilityState
        PROVE  Entered(metrics', state) - Left(metrics', state)
                 = Cardinality(InState(state)')
                     - (IF state = defaultState.state THEN Cardinality(Conversations) ELSE 0)
    <3> DEFINE began == IF state = defaultState.state THEN Cardinality(Conversations) ELSE 0
    <3>1. began \in Nat
      BY FS_CardinalityType
    <3>2. Entered(metrics, state) - Left(metrics, state)
            = Cardinality(InState(state)) - began
      BY DEF TransitionsBalance
    <3> HIDE DEF began
    <3>3. Entered(metrics', state) - Left(metrics', state)
            = Cardinality(InState(state)') - began
      BY <2>2, <2>3, <3>1, <3>2
    <3> QED
      BY <3>3 DEF began
  <2> QED
    BY <2>4 DEF TransitionsBalance
<1> QED
  BY <1>5, <1>6

\* However evaluations of one conversation or of many interleave, inline or in the
\* shadow, no transition is lost from the counters and none is counted twice.
THEOREM TransitionsAreCounted ==
  ASSUME IsFiniteSet(Conversations) PROVE Spec => []TransitionsBalance
<1>1. Init => TransitionsBalance
  <2> SUFFICES ASSUME Init, NEW state \in StabilityState
               PROVE  Entered(metrics, state) - Left(metrics, state)
                        = Cardinality(InState(state))
                            - (IF state = defaultState.state THEN Cardinality(Conversations)
                               ELSE 0)
    BY DEF TransitionsBalance
  <2>1. Entered(metrics, state) = 0 /\ Left(metrics, state) = 0
    BY TotalOfEmpty DEF Init, NewMetrics, Entered, Left
  <2>2. InState(state) = IF state = defaultState.state THEN Conversations ELSE {}
    BY DEF Init, InState, Lookup
  <2>3. Cardinality({}) = 0 /\ Cardinality(Conversations) \in Nat
    BY FS_EmptySet, FS_CardinalityType
  <2> QED
    BY <2>1, <2>2, <2>3
<1>2. TypeInvariant /\ TransitionsBalance /\ [Next]_vars => TransitionsBalance'
  <2> SUFFICES ASSUME TypeInvariant, TransitionsBalance, [Next]_vars
               PROVE  TransitionsBalance'
    OBVIOUS
  <2>1. IsMetrics(metrics)
    BY DEF TypeInvariant, TypeOK
  <2>2. ASSUME NEW r \in Requests, EvaluatePolicy(r) \/ ShadowEvaluates(r)
        PROVE  TransitionsBalance'
    <3>1. /\ req[r].frame \in Frame /\ shadow[r].frame \in Frame
          /\ ConversationOf[r] \in Conversations
          /\ Lookup(data, ConversationOf[r]) \in ConversationState
      BY RequestAssumption, LookupType DEF TypeInvariant, TypeOK, Handler, Goroutine
    <3>2. PICK frame \in Frame :
             LET outcome == EvaluatePure(frame, Lookup(data, ConversationOf[r]))
             IN  /\ data' = Put(data, ConversationOf[r], outcome.next)
                 /\ metrics' = OnStateTransition(metrics,
                                   Lookup(data, ConversationOf[r]).state, outcome.next.state)
      BY <2>2, <3>1 DEF EvaluatePolicy, ShadowEvaluates
    <3>3. EvaluatePure(frame, Lookup(data, ConversationOf[r])).next \in ConversationState
      BY <3>1, EvaluateType
    <3> QED
      BY <3>1, <3>2, <3>3, EvaluationBalances
  <2>3. ASSUME NEW r \in Requests,
               \/ Refuse(r) \/ Admit(r) \/ Bypass(r) \/ StartInline(r) \/ BudgetExpires(r)
               \/ PolicyPanics(r) \/ PassShadow(r)
               \/ UpstreamReceives(r) \/ UpstreamAnswers(r) \/ UpstreamFails(r)
               \/ \E frame \in Frame : SignalAnswers(r, frame) \/ ShadowSignalAnswers(r, frame)
               \/ ShadowSignalFails(r) \/ ShadowSignalPanics(r)
               \/ ShadowPolicyPanics(r) \/ ShadowTraces(r)
        PROVE  TransitionsBalance'
    <3>1. /\ data' = data
          /\ \/ metrics' = metrics \/ metrics' = countAbstain(metrics)
             \/ metrics' = countKillSwitch(metrics)
      BY <2>3 DEF Refuse, Admit, Bypass, StartInline, BudgetExpires, PolicyPanics, PassShadow,
                  UpstreamReceives, UpstreamAnswers, UpstreamFails, SignalAnswers,
                  ShadowSignalAnswers, ShadowSignalFails, ShadowSignalPanics,
                  ShadowPolicyPanics, ShadowTraces, surroundings
    <3> QED
      BY <2>1, <3>1, TransitionsOf, BalanceKept
  <2>4. ASSUME NEW r \in Requests, NEW reason \in FailOpenReasons, FailOpen(r, reason)
        PROVE  TransitionsBalance'
    <3>1. IsMetrics(recordFailOpen(metrics, reason))
      BY <2>1, MetricsType
    <3> QED
      BY <2>1, <2>4, <3>1, TransitionsOf, BalanceKept DEF FailOpen
  <2>5. ASSUME NEW r \in Requests, ApplyFails(r)
        PROVE  TransitionsBalance'
    BY <2>1, <2>5, TransitionsOf, BalanceKept DEF ApplyFails
  <2>6. ASSUME NEW r \in Requests, NEW next, NEW enforced \in BOOLEAN,
               Conclude(r, next, enforced)
        PROVE  TransitionsBalance'
    <3> DEFINE m == recordAction(metrics, req[r].decision.action, enforced)
    <3>1. req[r].decision.action \in Actions
      BY <2>6 DEF Conclude, Decided, At, TypeInvariant, DecisionMade, Decision
    <3>2. IsMetrics(m) /\ IsMetrics(countAbstain(m))
      BY <2>1, <3>1, MetricsType
    <3>3. /\ metrics' = recordInline(IF req[r].frame.abstain THEN countAbstain(m) ELSE m)
          /\ data' = data
      BY <2>6 DEF Conclude
    <3>4. m.PolicyStateTransition = metrics.PolicyStateTransition
      BY <2>1, TransitionsOf
    <3> HIDE DEF m
    <3> QED
      BY <3>2, <3>3, <3>4, TransitionsOf, BalanceKept
  <2>7. CASE UNCHANGED vars
    BY <2>7, BalanceKept DEF vars
  <2>8. CASE Next
    <3>1. PICK r \in Requests :
              \/ Refuse(r) \/ Admit(r) \/ Proceed(r) \/ BudgetExpires(r) \/ SignalFails(r)
              \/ \E frame \in Frame : SignalAnswers(r, frame)
              \/ UpstreamReceives(r) \/ UpstreamAnswers(r) \/ UpstreamFails(r)
              \/ Analyse(r)
      BY <2>8 DEF Next
    <3>2. CASE SignalFails(r) \/ PolicyFails(r)
      BY <2>4, <3>2 DEF SignalFails, PolicyFails, FailOpenReasons
    <3>3. CASE PassThrough(r) \/ Mutate(r) \/ ShortCircuit(r)
      BY <2>6, <3>3, ConclusionKnown
    <3> QED
      BY <2>2, <2>3, <2>5, <3>1, <3>2, <3>3 DEF Proceed, Analyse
  <2> QED
    BY <2>7, <2>8
<1> QED
  BY <1>1, <1>2, TypeInvariantHolds, PTL DEF Spec

=============================================================================
