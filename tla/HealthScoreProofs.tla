------------------------- MODULE HealthScoreProofs -------------------------
(***************************************************************************)
(* Proofs about HealthScore, for any deliverables, weights and number of   *)
(* reports: the components and the score stay within 0 .. 100, the         *)
(* schedule component moves with the plan and the progress alone, and a    *)
(* risk that is added or made worse never raises the score.                *)
(*                                                                         *)
(* The score is made of sums over sets, which the library defines by       *)
(* recursion.  The first part derives induction over the subsets of a      *)
(* finite set from WFMin, stated for sets rather than predicates, and      *)
(* from it how a sum unfolds, is bounded and compared.                     *)
(***************************************************************************)
EXTENDS HealthScore, WellFoundedInduction, FiniteSetTheorems, SequenceTheorems, TLAPS

\* Induction over the natural numbers, for a set.
LEMMA NatSetInduction ==
  ASSUME NEW Q, 0 \in Q, \A n \in Nat : n \in Q => n + 1 \in Q
  PROVE  \A n \in Nat : n \in Q
<1> DEFINE Bad == Nat \ Q
<1>1. SUFFICES ASSUME Bad # {} PROVE FALSE
  OBVIOUS
<1>2. PICK x \in Bad : \A y \in Bad : ~ (<<y, x>> \in OpToRel(<, Nat))
  <2> HIDE DEF Bad
  <2>1. Bad \subseteq Nat
    BY DEF Bad
  <2> QED
    BY <1>1, <2>1, NatLessThanWellFounded, WFMin
<1>3. x \in Nat /\ x # 0 /\ x - 1 \in Nat
  OBVIOUS
<1>4. x - 1 \in Bad
  BY <1>3
<1>5. <<x - 1, x>> \in OpToRel(<, Nat)
  BY <1>3 DEF OpToRel
<1> QED
  BY <1>2, <1>4, <1>5

\* Induction over the subsets of a finite set, for a set of them.
LEMMA SubsetInduction ==
  ASSUME NEW U, IsFiniteSet(U), NEW Q, {} \in Q,
         \A T \in SUBSET U : T # {} /\ (\A x \in T : T \ {x} \in Q) => T \in Q
  PROVE  \A T \in SUBSET U : T \in Q
<1> DEFINE Good == {n \in Nat : \A T \in SUBSET U : Cardinality(T) = n => T \in Q}
<1>1. 0 \in Good
  BY FS_EmptySet, FS_Subset
<1>2. ASSUME NEW n \in Nat, n \in Good
      PROVE  n + 1 \in Good
  <2>1. SUFFICES ASSUME NEW T \in SUBSET U, Cardinality(T) = n + 1 PROVE T \in Q
    OBVIOUS
  <2>2. IsFiniteSet(T) /\ T # {}
    BY <2>1, FS_Subset, FS_EmptySet
  <2>3. ASSUME NEW x \in T
        PROVE  T \ {x} \in Q
    <3>1. Cardinality(T \ {x}) = Cardinality(T) - 1
      BY <2>2, FS_RemoveElement
    <3>2. Cardinality(T \ {x}) = n
      BY <2>1, <3>1
    <3> QED
      BY <1>2, <3>2
  <2> QED
    BY <2>2, <2>3
<1>3. \A n \in Nat : n \in Good
  <2> HIDE DEF Good
  <2> QED
    BY <1>1, <1>2, NatSetInduction
<1> QED
  BY <1>3, FS_CardinalityType, FS_Subset

\* The recursive function by which the library defines a sum.
Element(s) == CHOOSE x \in s : TRUE
Unfolding(g, f, S) == [s \in S |-> IF s = {} THEN 0 ELSE f[Element(s)] + g[s \ {Element(s)}]]

\* The library's sum is the function that satisfies its recursive equation, if any does.
LEMMA SumIsUnfolding ==
  ASSUME NEW f, NEW S
  PROVE  SumFunctionOnSet(f, S) = (CHOOSE g : g = Unfolding(g, f, SUBSET S))[S]
BY DEF SumFunctionOnSet, FoldFunctionOnSet, MapThenFoldSet, Unfolding, Element

\* The element that the recursion takes first.
LEMMA ElementIn == ASSUME NEW s, s # {} PROVE Element(s) \in s
BY DEF Element

\* A function that satisfies the equation on every subset of a finite set exists.
LEMMA UnfoldingExists ==
  ASSUME NEW f, NEW S, IsFiniteSet(S)
  PROVE  \E g : g = Unfolding(g, f, SUBSET S)
<1> DEFINE Small(n) == {s \in SUBSET S : Cardinality(s) <= n}
           Q == {n \in Nat : \E g : g = Unfolding(g, f, Small(n))}
<1>1. 0 \in Q
  <2> DEFINE g == [s \in Small(0) |-> 0]
  <2>1. ASSUME NEW s \in Small(0)
        PROVE  s = {}
    <3>1. IsFiniteSet(s) /\ Cardinality(s) \in Nat /\ Cardinality(s) <= 0
      BY FS_Subset, FS_CardinalityType
    <3>2. Cardinality(s) = 0
      BY <3>1
    <3> QED
      BY <3>1, <3>2, FS_EmptySet
  <2>2. g = Unfolding(g, f, Small(0))
    BY <2>1 DEF Unfolding
  <2> QED
    BY <2>2
<1>2. ASSUME NEW n \in Nat, n \in Q
      PROVE  n + 1 \in Q
  <2>1. PICK g : g = Unfolding(g, f, Small(n))
    BY <1>2
  <2> DEFINE h == Unfolding(g, f, Small(n + 1))
  <2>2. ASSUME NEW s \in Small(n + 1), s # {}
        PROVE  s \ {Element(s)} \in Small(n)
    <3>1. IsFiniteSet(s) /\ Cardinality(s) \in Nat /\ Cardinality(s) <= n + 1
      BY FS_Subset, FS_CardinalityType
    <3>2. Cardinality(s \ {Element(s)}) = Cardinality(s) - 1
      BY <2>2, <3>1, FS_RemoveElement, ElementIn
    <3> QED
      BY <3>1, <3>2
  <2>3. ASSUME NEW s \in Small(n)
        PROVE  h[s] = g[s]
    <3>1. s \in Small(n + 1)
      <4>1. Cardinality(s) \in Nat /\ Cardinality(s) <= n
        BY FS_Subset, FS_CardinalityType
      <4> QED
        BY <4>1
    <3> HIDE DEF Small
    <3> QED
      BY <2>1, <3>1 DEF Unfolding
  <2>4. h = Unfolding(h, f, Small(n + 1))
    <3> HIDE DEF Small
    <3>1. ASSUME NEW s \in Small(n + 1), s # {}
          PROVE  h[s \ {Element(s)}] = g[s \ {Element(s)}]
      BY <2>2, <2>3, <3>1
    <3> QED
      BY <3>1 DEF Unfolding
  <2> QED
    BY <2>4
<1>3. Cardinality(S) \in Q
  <2> HIDE DEF Q
  <2> QED
    BY <1>1, <1>2, NatSetInduction, FS_CardinalityType
<1>4. Small(Cardinality(S)) = SUBSET S
  BY FS_Subset
<1> QED
  BY <1>3, <1>4

\* It is unique.
LEMMA UnfoldingsAgree ==
  ASSUME NEW S, NEW T \in SUBSET S, IsFiniteSet(S),
         NEW f, NEW g, NEW h,
         g = Unfolding(g, f, SUBSET S) /\ h = Unfolding(h, f, SUBSET T)
  PROVE  g[T] = h[T]
<1> DEFINE Q == {s \in SUBSET T : g[s] = h[s]}
<1>1. \A s \in SUBSET T :
        /\ g[s] = IF s = {} THEN 0 ELSE f[Element(s)] + g[s \ {Element(s)}]
        /\ h[s] = IF s = {} THEN 0 ELSE f[Element(s)] + h[s \ {Element(s)}]
  BY DEF Unfolding
<1>2. {} \in Q
  BY <1>1
<1>3. ASSUME NEW s \in SUBSET T, s # {}, \A x \in s : s \ {x} \in Q
      PROVE  s \in Q
  <2>1. Element(s) \in s
    BY <1>3, ElementIn
  <2> QED
    BY <1>1, <1>3, <2>1
<1>4. IsFiniteSet(T)
  BY FS_Subset
<1>5. \A s \in SUBSET T : s \in Q
  <2> HIDE DEF Q
  <2> QED
    BY <1>2, <1>3, <1>4, SubsetInduction
<1> QED
  BY <1>5

\* So a sum unfolds at the element taken first.
LEMMA SumUnfolds ==
  ASSUME NEW f, NEW S, IsFiniteSet(S)
  PROVE  SumFunctionOnSet(f, S) =
           IF S = {} THEN 0 ELSE f[Element(S)] + SumFunctionOnSet(f, S \ {Element(S)})
<1> DEFINE Fold(T) == CHOOSE g : g = Unfolding(g, f, SUBSET T)
<1>1. ASSUME NEW T \in SUBSET S
      PROVE  Fold(T) = Unfolding(Fold(T), f, SUBSET T) /\ SumFunctionOnSet(f, T) = Fold(T)[T]
  <2>1. \E g : g = Unfolding(g, f, SUBSET T)
    BY UnfoldingExists, FS_Subset
  <2> QED
    BY <2>1, SumIsUnfolding
<1>2. Fold(S)[S] = IF S = {} THEN 0 ELSE f[Element(S)] + Fold(S)[S \ {Element(S)}]
  <2> HIDE DEF Fold
  <2>1. Fold(S) = Unfolding(Fold(S), f, SUBSET S)
    BY <1>1
  <2> QED
    BY <2>1 DEF Unfolding
<1>3. ASSUME NEW T \in SUBSET S
      PROVE  Fold(S)[T] = Fold(T)[T]
  <2> HIDE DEF Fold
  <2>1. Fold(S) = Unfolding(Fold(S), f, SUBSET S) /\ Fold(T) = Unfolding(Fold(T), f, SUBSET T)
    BY <1>1
  <2>2. ASSUME NEW g, NEW h, g = Unfolding(g, f, SUBSET S) /\ h = Unfolding(h, f, SUBSET T)
        PROVE  g[T] = h[T]
    BY <2>2, UnfoldingsAgree
  <2> DEFINE g == Fold(S)  h == Fold(T)
  <2>3. g = Unfolding(g, f, SUBSET S) /\ h = Unfolding(h, f, SUBSET T)
    BY <2>1
  <2> HIDE DEF g, h
  <2>4. g[T] = h[T]
    BY <2>2, <2>3
  <2> QED
    BY <2>4 DEF g, h
<1> HIDE DEF Fold
<1>4. SumFunctionOnSet(f, S) = Fold(S)[S]
  BY <1>1
<1>5. SumFunctionOnSet(f, S \ {Element(S)}) = Fold(S)[S \ {Element(S)}]
  BY <1>1, <1>3
<1> QED
  BY <1>2, <1>4, <1>5

\* Equal terms have equal sums.
LEMMA SumAgrees ==
  ASSUME NEW S, IsFiniteSet(S), NEW f, NEW e, \A x \in S : f[x] = e[x]
  PROVE  SumFunctionOnSet(f, S) = SumFunctionOnSet(e, S)
<1>1. PICK g : g = Unfolding(g, f, SUBSET S)
  BY UnfoldingExists
<1> DEFINE Q == {T \in SUBSET S : SumFunctionOnSet(f, T) = SumFunctionOnSet(e, T)}
<1>2. {} \in Q
  BY SumUnfolds, FS_EmptySet
<1>3. ASSUME NEW T \in SUBSET S, T # {}, \A x \in T : T \ {x} \in Q
      PROVE  T \in Q
  <2>1. IsFiniteSet(T) /\ Element(T) \in T
    BY <1>3, FS_Subset, ElementIn
  <2>2. /\ SumFunctionOnSet(f, T) = f[Element(T)] + SumFunctionOnSet(f, T \ {Element(T)})
        /\ SumFunctionOnSet(e, T) = e[Element(T)] + SumFunctionOnSet(e, T \ {Element(T)})
    BY <1>3, <2>1, SumUnfolds
  <2> QED
    BY <1>3, <2>1, <2>2
<1> HIDE DEF Q
<1>4. \A T \in SUBSET S : T \in Q
  BY <1>2, <1>3, SubsetInduction
<1> QED
  BY <1>4 DEF Q

\* The sum of nothing.
LEMMA SumEmpty == \A f : SumFunctionOnSet(f, {}) = 0
BY SumUnfolds, FS_EmptySet

\* A sum of integers is an integer.
LEMMA SumInt ==
  ASSUME NEW S, IsFiniteSet(S), NEW f, \A x \in S : f[x] \in Int
  PROVE  SumFunctionOnSet(f, S) \in Int
<1> DEFINE Q == {T \in SUBSET S : SumFunctionOnSet(f, T) \in Int}
<1>1. {} \in Q
  BY SumEmpty
<1>2. ASSUME NEW T \in SUBSET S, T # {}, \A x \in T : T \ {x} \in Q
      PROVE  T \in Q
  <2>1. IsFiniteSet(T) /\ Element(T) \in T
    BY <1>2, FS_Subset, ElementIn
  <2>2. SumFunctionOnSet(f, T) = f[Element(T)] + SumFunctionOnSet(f, T \ {Element(T)})
    BY <1>2, <2>1, SumUnfolds
  <2> QED
    BY <1>2, <2>1, <2>2
<1> HIDE DEF Q
<1>3. \A T \in SUBSET S : T \in Q
  BY <1>1, <1>2, SubsetInduction
<1> QED
  BY <1>3 DEF Q

\* Any element may be the last one that is added.
LEMMA SumRemove ==
  ASSUME NEW S, IsFiniteSet(S), NEW f, \A x \in S : f[x] \in Int, NEW x \in S
  PROVE  SumFunctionOnSet(f, S) = f[x] + SumFunctionOnSet(f, S \ {x})
<1> DEFINE Q == {T \in SUBSET S : \A y \in T :
                   SumFunctionOnSet(f, T) = f[y] + SumFunctionOnSet(f, T \ {y})}
<1>1. {} \in Q
  OBVIOUS
<1>2. ASSUME NEW T \in SUBSET S, T # {}, \A y \in T : T \ {y} \in Q, NEW y \in T
      PROVE  SumFunctionOnSet(f, T) = f[y] + SumFunctionOnSet(f, T \ {y})
  <2> DEFINE z == Element(T)
  <2>1. IsFiniteSet(T) /\ z \in T
    BY <1>2, FS_Subset, ElementIn
  <2>2. SumFunctionOnSet(f, T) = f[z] + SumFunctionOnSet(f, T \ {z})
    BY <1>2, <2>1, SumUnfolds
  <2> HIDE DEF z
  <2>3. CASE y = z
    BY <2>2, <2>3
  <2>4. CASE y # z
    <3>1. /\ SumFunctionOnSet(f, T \ {z}) = f[y] + SumFunctionOnSet(f, (T \ {z}) \ {y})
          /\ SumFunctionOnSet(f, T \ {y}) = f[z] + SumFunctionOnSet(f, (T \ {y}) \ {z})
      BY <1>2, <2>1, <2>4
    <3>2. (T \ {z}) \ {y} = (T \ {y}) \ {z}
      OBVIOUS
    <3> DEFINE U == (T \ {y}) \ {z}
    <3>3. SumFunctionOnSet(f, U) \in Int /\ f[y] \in Int /\ f[z] \in Int
      <4>1. U \in SUBSET S /\ IsFiniteSet(U)
        BY FS_Subset
      <4> HIDE DEF U
      <4> QED
        BY <2>1, <4>1, SumInt
    <3>4. /\ SumFunctionOnSet(f, T \ {z}) = f[y] + SumFunctionOnSet(f, U)
          /\ SumFunctionOnSet(f, T \ {y}) = f[z] + SumFunctionOnSet(f, U)
      BY <3>1, <3>2
    <3> HIDE DEF U
    <3> QED
      BY <2>2, <3>3, <3>4
  <2> QED
    BY <2>3, <2>4
<1>3. \A T \in SUBSET S : T \in Q
  <2>1. \A T \in SUBSET S : T # {} /\ (\A y \in T : T \ {y} \in Q) => T \in Q
    BY <1>2
  <2> HIDE DEF Q
  <2> QED
    BY <1>1, <2>1, SubsetInduction
<1> QED
  BY <1>3

\* Greater terms have the greater sum.
LEMMA SumMonotone ==
  ASSUME NEW S, IsFiniteSet(S), NEW f, \A x \in S : f[x] \in Int,
         NEW e, \A x \in S : e[x] \in Int /\ f[x] <= e[x]
  PROVE  SumFunctionOnSet(f, S) <= SumFunctionOnSet(e, S)
<1> DEFINE Q == {T \in SUBSET S : SumFunctionOnSet(f, T) <= SumFunctionOnSet(e, T)}
<1>1. {} \in Q
  BY SumEmpty
<1>2. ASSUME NEW T \in SUBSET S, T # {}, \A x \in T : T \ {x} \in Q
      PROVE  T \in Q
  <2>1. PICK x \in T : TRUE
    BY <1>2
  <2> DEFINE U == T \ {x}
  <2>2. IsFiniteSet(T) /\ IsFiniteSet(U)
    BY FS_Subset
  <2>3. /\ SumFunctionOnSet(f, T) = f[x] + SumFunctionOnSet(f, U)
        /\ SumFunctionOnSet(e, T) = e[x] + SumFunctionOnSet(e, U)
    BY <2>2, SumRemove
  <2>4. SumFunctionOnSet(f, U) \in Int /\ SumFunctionOnSet(e, U) \in Int
    BY <2>2, SumInt
  <2>5. SumFunctionOnSet(f, U) <= SumFunctionOnSet(e, U)
    BY <1>2
  <2> HIDE DEF U
  <2>6. f[x] \in Int /\ e[x] \in Int /\ f[x] <= e[x]
    OBVIOUS
  <2> QED
    BY <2>3, <2>4, <2>5, <2>6
<1>3. \A T \in SUBSET S : T \in Q
  <2> HIDE DEF Q
  <2> QED
    BY <1>1, <1>2, SubsetInduction
<1> QED
  BY <1>3

\* A sum of natural numbers is one.
LEMMA SumNat ==
  ASSUME NEW S, IsFiniteSet(S), NEW f, \A x \in S : f[x] \in Nat
  PROVE  SumFunctionOnSet(f, S) \in Nat
<1> DEFINE Q == {T \in SUBSET S : SumFunctionOnSet(f, T) \in Nat}
<1>1. {} \in Q
  BY SumEmpty
<1>2. ASSUME NEW T \in SUBSET S, T # {}, \A x \in T : T \ {x} \in Q
      PROVE  T \in Q
  <2>1. PICK x \in T : TRUE
    BY <1>2
  <2>2. IsFiniteSet(T) /\ \A y \in T : f[y] \in Int
    BY FS_Subset
  <2>3. SumFunctionOnSet(f, T) = f[x] + SumFunctionOnSet(f, T \ {x})
    BY <2>2, SumRemove
  <2> QED
    BY <1>2, <2>3
<1> HIDE DEF Q
<1>3. \A T \in SUBSET S : T \in Q
  BY <1>1, <1>2, SubsetInduction
<1> QED
  BY <1>3 DEF Q

\* Division rounds down.
LEMMA DivBounds ==
  ASSUME NEW a \in Int, NEW n \in Nat \ {0}
  PROVE  a \div n \in Int /\ n * (a \div n) <= a /\ a < n * (a \div n) + n
OBVIOUS
\* The quotient is the greatest number whose product fits.
LEMMA DivAbove ==
  ASSUME NEW a \in Int, NEW n \in Nat \ {0}, NEW q \in Int, n * q <= a
  PROVE  q <= a \div n
<1> DEFINE r == a \div n
<1>1. r \in Int /\ a < n * r + n
  BY DivBounds
<1> HIDE DEF r
<1>2. SUFFICES ASSUME q > r PROVE FALSE
  BY <1>1 DEF r
<1>3. n * q >= n * (r + 1)
  BY <1>1, <1>2
<1>4. n * (r + 1) = n * r + n
  BY <1>1
<1>5. n * q \in Int /\ n * r \in Int
  BY <1>1
<1> QED
  BY <1>1, <1>3, <1>4, <1>5
\* Division is monotone in what is divided,
LEMMA DivMonotone ==
  ASSUME NEW a \in Int, NEW b \in Int, a <= b, NEW n \in Nat \ {0}
  PROVE  a \div n <= b \div n
<1>1. a \div n \in Int /\ n * (a \div n) <= a /\ n * (a \div n) \in Int
  BY DivBounds
<1>2. n * (a \div n) <= b
  BY <1>1
<1> QED
  BY <1>1, <1>2, DivAbove
\* and antitone in what divides it.
LEMMA DivAntitone ==
  ASSUME NEW a \in Nat, NEW m \in Nat \ {0}, NEW n \in Nat \ {0}, m <= n
  PROVE  a \div n <= a \div m
<1>1. a \div n \in Nat /\ n * (a \div n) <= a /\ n * (a \div n) \in Int
  BY DivBounds
<1>2. m * (a \div n) <= n * (a \div n) /\ m * (a \div n) \in Int
  BY <1>1
<1>3. m * (a \div n) <= a
  BY <1>1, <1>2
<1> QED
  BY <1>1, <1>3, DivAbove

-----------------------------------------------------------------------------
(* Types.                                                                  *)

\* The initial states have their types,
LEMMA ScoreInitType == ScoreInit => ScoreTypeOK
<1> SUFFICES ASSUME ScoreInit PROVE ScoreTypeOK
  OBVIOUS
<1>1. today \in FirstDay .. LastDay /\ baselined \in BOOLEAN /\ weights = DEFAULT_WEIGHTS
  <2>1. FirstDay \in FirstDay .. LastDay
    BY DayAssumption
  <2> QED
    BY <2>1 DEF ScoreInit
<1>2. progress \in [Deliverables -> Percents \cup {0}]
  BY DEF ScoreInit
<1>3. reports \in Seq(ReportContents) /\ Len(reports) = 0
  BY DEF ScoreInit
<1> QED
  BY <1>1, <1>2, <1>3, ReportsAssumption DEF ScoreTypeOK

\* and every step keeps them.
LEMMA ScoreNextType ==
  ASSUME ScoreTypeOK, [ScoreNext]_scoreVars
  PROVE  ScoreTypeOK'
<1> USE DEF ScoreTypeOK
<1>1. CASE NextDay
  BY <1>1, DayAssumption DEF NextDay
<1>2. CASE ActivateDeliverables
  BY <1>2 DEF ActivateDeliverables
<1>3. ASSUME NEW d \in Deliverables, SaveProgress(d)
      PROVE  ScoreTypeOK'
  BY <1>3 DEF SaveProgress
<1>4. CASE SubmitReport
  <2>1. PICK c \in ReportContents, i \in 1 .. Len(reports) + 1 :
          reports' = InsertAt(reports, i, c)
    BY <1>4 DEF SubmitReport
  <2> DEFINE before == SubSeq(reports, 1, i - 1)  after == SubSeq(reports, i, Len(reports))
  <2>2. Len(reports) \in Nat /\ i \in Nat /\ 1 <= i /\ i <= Len(reports) + 1
    OBVIOUS
  <2>3. before \in Seq(ReportContents) /\ Len(before) = i - 1
    BY <2>2, SubSeqProperties
  <2>4. after \in Seq(ReportContents) /\ Len(after) = Len(reports) + 1 - i
    BY <2>2, SubSeqProperties
  <2>5. reports' = before \o <<c>> \o after
    BY <2>1 DEF InsertAt
  <2> HIDE DEF before, after
  <2>6. <<c>> \in Seq(ReportContents) /\ Len(<<c>>) = 1
    OBVIOUS
  <2> DEFINE upto == before \o <<c>>
  <2>7. upto \in Seq(ReportContents) /\ Len(upto) = i
    BY <2>2, <2>3, <2>6, ConcatProperties
  <2>8. reports' = upto \o after
    BY <2>5
  <2> HIDE DEF upto
  <2>9. reports' \in Seq(ReportContents) /\ Len(reports') = i + (Len(reports) + 1 - i)
    BY <2>4, <2>7, <2>8, ConcatProperties
  <2> QED
    BY <1>4, <2>2, <2>9, ReportsAssumption DEF SubmitReport
<1>5. CASE SendBackReport
  <2>1. PICK i \in DOMAIN reports : reports' = RemoveAt(reports, i)
    BY <1>5 DEF SendBackReport
  <2> DEFINE before == SubSeq(reports, 1, i - 1)  after == SubSeq(reports, i + 1, Len(reports))
  <2>2. Len(reports) \in Nat /\ i \in Nat /\ 1 <= i /\ i <= Len(reports)
    OBVIOUS
  <2>3. before \in Seq(ReportContents) /\ Len(before) = i - 1
    BY <2>2, SubSeqProperties
  <2>4. after \in Seq(ReportContents) /\ Len(after) = Len(reports) - i
    BY <2>2, SubSeqProperties
  <2>5. reports' = before \o after
    BY <2>1 DEF RemoveAt
  <2> HIDE DEF before, after
  <2>6. reports' \in Seq(ReportContents) /\ Len(reports') = Len(reports) - 1
    BY <2>2, <2>3, <2>4, <2>5, ConcatProperties
  <2> QED
    BY <1>5, <2>2, <2>6, ReportsAssumption DEF SendBackReport
<1>6. CASE UpdateWeights
  BY <1>6 DEF UpdateWeights
<1>7. CASE UNCHANGED scoreVars
  BY <1>7 DEF scoreVars
<1> QED
  BY <1>1, <1>2, <1>3, <1>4, <1>5, <1>6, <1>7 DEF ScoreNext

\* The variables of HealthScore keep their types.
THEOREM ScoreTypesHold == ScoreSpec => []ScoreTypeOK
BY ScoreInitType, ScoreNextType, PTL DEF ScoreSpec
-----------------------------------------------------------------------------
(* The schedule index.                                                     *)

\* Clamping bounds a number and keeps the order.
LEMMA Clamped ==
  /\ \A x \in Int : Clamp(x) \in 0 .. 100
  /\ \A x, y \in Int : x <= y => Clamp(x) <= Clamp(y)
BY DEF Clamp

\* The percentages of progress.
LEMMA PercentsNat == \A p \in Percents \cup {0} : p \in Nat
BY PercentAssumption

\* Taking hundreds keeps the order.
LEMMA Percented ==
  \A a, b \in Int : a * 100 \in Int /\ (a <= b => a * 100 <= b * 100)
OBVIOUS

\* The deliverables that count have a due date and are finitely many.
LEMMA ScheduledFinite == IsFiniteSet(Scheduled) /\ \A d \in Scheduled : Due[d] \in Nat \ {0}
<1>1. Scheduled \in SUBSET Deliverables
  BY DEF Scheduled
<1> QED
  BY <1>1, DueAssumption, FS_Subset DEF Scheduled, Deliverables

\* Progress and plan are sums of natural numbers.
SpiTyped == today \in Int /\ AllReal \in Nat /\ AllPlanned \in Nat

\* The two sums of the schedule component are natural numbers, now
LEMMA SpiSums == ScoreTypeOK => SpiTyped
<1> SUFFICES ASSUME ScoreTypeOK PROVE SpiTyped
  OBVIOUS
<1>1. \A d \in Scheduled : progress[d] \in Nat
  BY PercentsNat DEF ScoreTypeOK, Scheduled
<1>2. ASSUME NEW d \in Scheduled
      PROVE  Planned(d) \in Nat
  <2>1. today * 100 \in Int
    BY DayAssumption DEF ScoreTypeOK
  <2>2. (today * 100) \div Due[d] \in Int
    BY <2>1, ScheduledFinite, DivBounds
  <2> QED
    BY <2>2, Clamped DEF Planned
<1>3. AllReal \in Nat
  BY <1>1, ScheduledFinite, SumNat DEF AllReal
<1> DEFINE p == [d \in Scheduled |-> Planned(d)]
<1>4. DOMAIN p = Scheduled /\ \A d \in Scheduled : p[d] \in Nat
  BY <1>2
<1>5. AllPlanned = SumFunctionOnSet(p, Scheduled)
  BY <1>4 DEF AllPlanned, SumFunction
<1> HIDE DEF p
<1>6. AllPlanned \in Nat
  BY <1>4, <1>5, ScheduledFinite, SumNat
<1> QED
  BY <1>3, <1>6, DayAssumption DEF ScoreTypeOK, SpiTyped

\* and in the next state.
LEMMA SpiSumsNext ==
  ScoreTypeOK' => SpiTyped'
BY SpiSums, PTL

Quotient(real, planned) ==
  CASE planned > 0 -> Clamp((real * 100) \div planned)
    [] planned = 0 /\ real > 0 -> 100
    [] planned = 0 /\ real = 0 -> 50

\* The schedule component in terms of the two sums.
LEMMA QuotientRange ==
  ASSUME NEW real \in Nat, NEW planned \in Nat
  PROVE  Quotient(real, planned) \in 0 .. 100
<1>1. CASE planned > 0
  <2>1. real * 100 \in Int /\ planned \in Nat \ {0}
    BY <1>1
  <2>2. (real * 100) \div planned \in Int
    BY <2>1, DivBounds
  <2> QED
    BY <1>1, <2>2, Clamped DEF Quotient
<1>2. CASE planned = 0
  BY <1>2 DEF Quotient
<1> QED
  BY <1>1, <1>2

\* More progress is never worse, and a longer plan never better.
LEMMA QuotientMonotone ==
  ASSUME NEW r1 \in Nat, NEW r2 \in Nat, r1 <= r2,
         NEW p1 \in Nat, NEW p2 \in Nat, p1 <= p2
  PROVE  Quotient(r1, p2) <= Quotient(r2, p1)
<1>1. CASE p1 > 0
  <2>1. /\ r1 * 100 \in Nat /\ r2 * 100 \in Nat /\ r1 * 100 <= r2 * 100
        /\ p1 \in Nat \ {0} /\ p2 \in Nat \ {0} /\ p2 > 0
    BY <1>1
  <2>2. /\ (r1 * 100) \div p2 \in Int /\ (r2 * 100) \div p2 \in Int
        /\ (r2 * 100) \div p1 \in Int
    BY <2>1, DivBounds
  <2>3. (r1 * 100) \div p2 <= (r2 * 100) \div p2
    BY <2>1, DivMonotone
  <2>4. (r2 * 100) \div p2 <= (r2 * 100) \div p1
    BY <2>1, DivAntitone
  <2>5. (r1 * 100) \div p2 <= (r2 * 100) \div p1
    BY <2>2, <2>3, <2>4
  <2> QED
    BY <1>1, <2>1, <2>2, <2>5, Clamped DEF Quotient
<1>2. CASE p1 = 0 /\ r2 > 0
  <2>1. Quotient(r2, p1) = 100
    BY <1>2 DEF Quotient
  <2>2. Quotient(r1, p2) \in 0 .. 100
    BY QuotientRange
  <2> QED
    BY <2>1, <2>2
<1>3. CASE p1 = 0 /\ r2 = 0
  <2>1. Quotient(r2, p1) = 50 /\ r1 = 0
    BY <1>3 DEF Quotient
  <2>2. CASE p2 = 0
    BY <2>1, <2>2 DEF Quotient
  <2>3. CASE p2 > 0
    <3>1. 0 \div p2 <= 0 /\ 0 \div p2 \in Int
      BY <2>3
    <3>2. r1 * 100 = 0
      BY <2>1
    <3>3. Quotient(r1, p2) <= 0
      BY <2>3, <3>1, <3>2 DEF Quotient, Clamp
    <3>4. Quotient(r1, p2) \in 0 .. 100
      BY QuotientRange
    <3>5. Quotient(r2, p1) \in Int
      BY <2>1
    <3> QED
      BY <2>1, <3>3, <3>4, <3>5
  <2> QED
    BY <2>2, <2>3
<1> QED
  BY <1>1, <1>2, <1>3

\* The schedule component is that quotient of the two sums.
LEMMA SpiIsQuotient ==
  Spi = IF ~baselined \/ Scheduled = {} THEN 100 ELSE Quotient(AllReal, AllPlanned)
BY DEF Spi, Quotient

\* A step of the project: what Spi is computed from, before and after.
LEMMA ScoreStep ==
  ASSUME ScoreTypeOK, [ScoreNext]_scoreVars
  PROVE  /\ today' > today => progress' = progress /\ baselined' = baselined
         /\ baselined => baselined'
<1> USE DEF ScoreTypeOK
<1> QED
  BY DayAssumption DEF ScoreNext, NextDay, ActivateDeliverables, SaveProgress, SubmitReport,
     SendBackReport, UpdateWeights, scoreVars

\* As days pass the plan grows;
LEMMA PlanGrows ==
  ASSUME ScoreTypeOK, ScoreTypeOK', today <= today'
  PROVE  AllPlanned <= AllPlanned'
<1> DEFINE p == [d \in Scheduled |-> Planned(d)]  q == [d \in Scheduled |-> Planned(d)']
<1>1. AllPlanned = SumFunctionOnSet(p, Scheduled) /\ AllPlanned' = SumFunctionOnSet(q, Scheduled)
  <2>1. DOMAIN p = Scheduled /\ DOMAIN q = Scheduled
    OBVIOUS
  <2> QED
    BY <2>1 DEF AllPlanned, SumFunction, Scheduled
<1>2. ASSUME NEW d \in Scheduled
      PROVE  p[d] \in Int /\ q[d] \in Int /\ p[d] <= q[d]
  <2>1. Due[d] \in Nat \ {0} /\ today * 100 \in Int /\ today' * 100 \in Int
        /\ today * 100 <= today' * 100
    <3>1. today \in Int /\ today' \in Int
      BY DayAssumption DEF ScoreTypeOK
    <3>2. today * 100 \in Int /\ today' * 100 \in Int /\ today * 100 <= today' * 100
      BY <3>1, Percented
    <3> QED
      BY <3>2, ScheduledFinite
  <2>2. /\ (today * 100) \div Due[d] <= (today' * 100) \div Due[d]
        /\ (today * 100) \div Due[d] \in Int /\ (today' * 100) \div Due[d] \in Int
    BY <2>1, DivMonotone, DivBounds
  <2>3. Planned(d) <= Planned(d)' /\ Planned(d) \in Int /\ Planned(d)' \in Int
    BY <2>2, Clamped DEF Planned
  <2> QED
    BY <2>3
<1> HIDE DEF p, q
<1> QED
  BY <1>1, <1>2, ScheduledFinite, SumMonotone

\* as progress is saved the work done does.
LEMMA ProgressGrows ==
  ASSUME ScoreTypeOK, ScoreTypeOK', \A d \in Deliverables : progress'[d] >= progress[d]
  PROVE  AllReal <= AllReal'
<1>1. \A d \in Scheduled : progress[d] \in Int /\ progress'[d] \in Int /\ progress[d] <= progress'[d]
  BY PercentsNat DEF ScoreTypeOK, Scheduled
<1>2. AllReal = SumFunctionOnSet(progress, Scheduled)
      /\ AllReal' = SumFunctionOnSet(progress', Scheduled)
  BY DEF AllReal, Scheduled
<1> QED
  BY <1>1, <1>2, ScheduledFinite, SumMonotone

\* The schedule index never rises with the calendar and never falls with progress
\* (health_score.py:233-304), for any number of deliverables and any dates.
THEOREM ScheduleComparesOnly == ScoreSpec => ScheduleIsMonotone
<1> DEFINE Monotone ==
       /\ today' > today => Spi' <= Spi
       /\ baselined /\ (\A d \in Deliverables : progress'[d] >= progress[d])
            /\ today' = today => Spi' >= Spi
       /\ UNCHANGED <<today, baselined, progress>> => Spi' = Spi
<1>1. ScoreTypeOK /\ ScoreTypeOK' /\ [ScoreNext]_scoreVars => [Monotone]_scoreVars
  <2> SUFFICES ASSUME ScoreTypeOK, ScoreTypeOK', [ScoreNext]_scoreVars PROVE Monotone
    OBVIOUS
  <2>1. /\ AllReal \in Nat /\ AllPlanned \in Nat /\ AllReal' \in Nat /\ AllPlanned' \in Nat
        /\ today \in Int /\ today' \in Int
    BY SpiSums, SpiSumsNext DEF SpiTyped
  <2>2. Spi' = IF ~baselined' \/ Scheduled = {} THEN 100 ELSE Quotient(AllReal', AllPlanned')
    BY DEF Spi, Quotient, Scheduled
  <2>3. ASSUME today' > today
        PROVE  Spi' <= Spi
    <3>1. progress' = progress /\ baselined' = baselined
      BY <2>3, ScoreStep
    <3>2. AllReal' = AllReal /\ AllPlanned <= AllPlanned'
      BY <2>1, <2>3, <3>1, PlanGrows DEF AllReal, Scheduled
    <3>3. Quotient(AllReal', AllPlanned') <= Quotient(AllReal, AllPlanned)
      BY <2>1, <3>2, QuotientMonotone
    <3> QED
      BY <2>2, <3>1, <3>3, SpiIsQuotient
  <2>4. ASSUME baselined, \A d \in Deliverables : progress'[d] >= progress[d], today' = today
        PROVE  Spi' >= Spi
    <3>1. baselined'
      BY <2>4, ScoreStep
    <3>2. AllReal <= AllReal'
      BY <2>4, ProgressGrows
    <3>3. AllPlanned' = AllPlanned
      BY <2>4 DEF AllPlanned, Planned, Scheduled
    <3>4. Quotient(AllReal, AllPlanned) <= Quotient(AllReal', AllPlanned')
      BY <2>1, <3>2, <3>3, QuotientMonotone
    <3>5. Quotient(AllReal', AllPlanned') \in Int /\ Quotient(AllReal, AllPlanned) \in Int
      <4>1. Quotient(AllReal', AllPlanned') \in 0 .. 100
        BY <2>1, QuotientRange
      <4>2. Quotient(AllReal, AllPlanned) \in 0 .. 100
        BY <2>1, QuotientRange
      <4> QED
        BY <4>1, <4>2
    <3> QED
      BY <2>2, <2>4, <3>1, <3>4, <3>5, SpiIsQuotient
  <2>5. ASSUME UNCHANGED <<today, baselined, progress>>
        PROVE  Spi' = Spi
    <3>1. AllReal' = AllReal /\ AllPlanned' = AllPlanned
      BY <2>5 DEF AllReal, AllPlanned, Planned, Scheduled
    <3> QED
      BY <2>2, <2>5, <3>1, SpiIsQuotient
  <2> QED
    BY <2>3, <2>4, <2>5
<1>2. ScheduleIsMonotone <=> [][Monotone]_scoreVars
  BY DEF ScheduleIsMonotone
<1> QED
  BY <1>1, <1>2, ScoreTypesHold, PTL DEF ScoreSpec
-----------------------------------------------------------------------------
(* The other components and the score.                                     *)

\* The dimensions of a report and the components of the score, counted out.
LEMMA DimensionsFinite == IsFiniteSet(Dimensions)
<1>1. IsFiniteSet({"prazo"})
  BY FS_Singleton
<1>2. IsFiniteSet({"prazo"} \cup {"escopo"})
  BY <1>1, FS_AddElement
<1>3. IsFiniteSet(({"prazo"} \cup {"escopo"}) \cup {"qualidade"})
  BY <1>2, FS_AddElement
<1>4. Dimensions = ({"prazo"} \cup {"escopo"}) \cup {"qualidade"}
  BY DEF Dimensions
<1> QED
  BY <1>3, <1>4

LEMMA ComponentsFinite == IsFiniteSet(Components)
<1> DEFINE A == {"rag_avg"} \cup {"spi"}
           B == A \cup {"risk_inverse"}
           C == B \cup {"resolution_rate"}
           D == C \cup {"stability"}
<1>1. IsFiniteSet({"rag_avg"})
  BY FS_Singleton
<1>2. IsFiniteSet(A)
  BY <1>1, FS_AddElement
<1>3. IsFiniteSet(B)
  <2> HIDE DEF A
  <2> QED
    BY <1>2, FS_AddElement
<1>4. IsFiniteSet(C)
  <2> HIDE DEF B
  <2> QED
    BY <1>3, FS_AddElement
<1>5. IsFiniteSet(D)
  <2> HIDE DEF C
  <2> QED
    BY <1>4, FS_AddElement
<1>6. Components = D
  BY DEF Components
<1> QED
  BY <1>5, <1>6

\* A traffic light as a number.
LEMMA NumericRange == \A rag \in Rags : Numeric(rag) \in 0 .. 100
BY DEF Numeric, Rags

\* Three values of at most 100 have a mean of at most 100.
LEMMA MeanOfThree ==
  ASSUME NEW f, DOMAIN f = Dimensions, \A d \in Dimensions : f[d] \in 0 .. 100
  PROVE  SumFunction(f) \div 3 \in 0 .. 100
<1> DEFINE S == Dimensions  T == {"escopo", "qualidade"}  U == {"qualidade"}
<1>1. /\ S \ {"prazo"} = T /\ T \ {"escopo"} = U /\ U \ {"qualidade"} = {}
      /\ "prazo" \in S /\ "escopo" \in T /\ "qualidade" \in U /\ T \subseteq S /\ U \subseteq S
  BY DEF Dimensions
<1>2. IsFiniteSet(S) /\ IsFiniteSet(T) /\ IsFiniteSet(U)
  BY <1>1, DimensionsFinite, FS_Subset
<1>3. \A d \in S : f[d] \in Int
  OBVIOUS
<1> HIDE DEF S, T, U
<1>4. SumFunctionOnSet(f, S) = f["prazo"] + SumFunctionOnSet(f, T)
  BY <1>1, <1>2, <1>3, SumRemove
<1>5. SumFunctionOnSet(f, T) = f["escopo"] + SumFunctionOnSet(f, U)
  BY <1>1, <1>2, <1>3, SumRemove
<1>6. SumFunctionOnSet(f, U) = f["qualidade"] + SumFunctionOnSet(f, {})
  BY <1>1, <1>2, <1>3, SumRemove
<1>7. SumFunction(f) = SumFunctionOnSet(f, S)
  BY DEF SumFunction, S
<1>8. f["prazo"] \in 0 .. 100 /\ f["escopo"] \in 0 .. 100 /\ f["qualidade"] \in 0 .. 100
  BY <1>1 DEF S
<1>9. SumFunctionOnSet(f, {}) = 0
  BY SumEmpty
<1>10. SumFunction(f) = f["prazo"] + (f["escopo"] + f["qualidade"])
  BY <1>4, <1>5, <1>6, <1>7, <1>8, <1>9
<1> DEFINE x == f["prazo"]  y == f["escopo"]  z == f["qualidade"]
<1>11. x \in 0 .. 100 /\ y \in 0 .. 100 /\ z \in 0 .. 100 /\ SumFunction(f) = x + (y + z)
  BY <1>8, <1>10
<1> HIDE DEF x, y, z
<1>12. \A n \in 0 .. 300 : n \div 3 \in 0 .. 100
  OBVIOUS
<1>13. x + (y + z) \in 0 .. 300
  BY <1>11
<1> QED
  BY <1>11, <1>12, <1>13

\* The latest report is one the workflow accepted.
LEMMA LastReport ==
  ASSUME ScoreTypeOK, reports # << >>
  PROVE  reports[1] \in ReportContent /\ reports[1].resolved <= reports[1].items
<1>1. reports[1] \in ReportContents
  BY DEF ScoreTypeOK
<1> QED
  BY <1>1, ContentAssumption

\* Each component lies within 0 .. 100.
LEMMA RagAvgRange == ASSUME ScoreTypeOK PROVE RagAvg \in 0 .. 100
<1>1. CASE reports = << >>
  BY <1>1 DEF RagAvg
<1>2. CASE reports # << >>
  <2> DEFINE f == [d \in Dimensions |-> Numeric(reports[1].rag[d])]
  <2>1. \A d \in Dimensions : reports[1].rag[d] \in Rags
    BY <1>2, LastReport DEF ReportContent
  <2>2. DOMAIN f = Dimensions /\ \A d \in Dimensions : f[d] \in 0 .. 100
    BY <2>1, NumericRange
  <2>3. RagAvg = SumFunction(f) \div 3
    BY <1>2 DEF RagAvg
  <2> HIDE DEF f
  <2> QED
    BY <2>2, <2>3, MeanOfThree
<1> QED
  BY <1>1, <1>2

LEMMA SpiRange == ASSUME ScoreTypeOK PROVE Spi \in 0 .. 100
<1>1. AllReal \in Nat /\ AllPlanned \in Nat
  BY SpiSums DEF SpiTyped
<1>2. Quotient(AllReal, AllPlanned) \in 0 .. 100
  BY <1>1, QuotientRange
<1> QED
  BY <1>2, SpiIsQuotient

LEMMA ResolutionRange == ASSUME ScoreTypeOK PROVE ResolutionRate \in 0 .. 100
<1>1. CASE reports = << >>
  BY <1>1 DEF ResolutionRate
<1>2. CASE reports # << >>
  <2>1. reports[1].items \in Nat /\ reports[1].resolved \in Nat
    BY <1>2, LastReport DEF ReportContent
  <2>2. CASE reports[1].items = 0
    BY <1>2, <2>2 DEF ResolutionRate
  <2>3. CASE reports[1].items # 0
    <3>1. (reports[1].resolved * 100) \div reports[1].items \in Int
      BY <2>1, <2>3, DivBounds
    <3> QED
      BY <1>2, <2>3, <3>1, Clamped DEF ResolutionRate
  <2> QED
    BY <2>2, <2>3
<1> QED
  BY <1>1, <1>2

LEMMA StabilityRange == ASSUME ScoreTypeOK PROVE Stability \in 0 .. 100
<1> DEFINE n == IF Len(reports) < 5 THEN Len(reports) ELSE 5
           last == SubSeq(reports, 1, n)
           rags == {Worst(last[i].rag) : i \in DOMAIN last}
<1>1. \A rag : Worst(rag) \in Rags
  BY DEF Worst, Rags
<1>2. Numeric(Worst(last[1].rag)) \in 0 .. 100
  BY <1>1, NumericRange
<1>3. Stability = CASE last = << >> -> 50
       [] Cardinality(rags) = 1 /\ Len(last) = 5 -> Numeric(Worst(last[1].rag))
       [] Cardinality(rags) = 1 /\ Len(last) \in {3, 4} -> 60
       [] OTHER -> 30
  BY DEF Stability
<1> HIDE DEF last, rags
<1> QED
  BY <1>2, <1>3

\* The level of a risk.
LEMMA LevelRange ==
  \A r \in [probability : Axis, impact : Axis] : LevelValue(r) \in {25, 50, 75, 100}
BY DEF LevelValue, Axis

Levels(risks) == [i \in DOMAIN risks |-> LevelValue(risks[i])]
Squares(risks) == [i \in DOMAIN risks |-> LevelValue(risks[i]) * LevelValue(risks[i])]

\* What the risk component is computed from, for a list of risks that is not empty.
LEMMA RiskSums ==
  ASSUME NEW risks \in Risks, risks # << >>
  PROVE  /\ IsFiniteSet(DOMAIN risks)
         /\ \A i \in DOMAIN risks : Levels(risks)[i] \in {25, 50, 75, 100}
                                    /\ Squares(risks)[i] = Levels(risks)[i] * Levels(risks)[i]
         /\ SumFunctionOnSet(Levels(risks), DOMAIN risks) \in Nat \ {0}
         /\ SumFunctionOnSet(Squares(risks), DOMAIN risks) \in Nat
         /\ RiskInverse(risks) = Clamp(100 - SumFunctionOnSet(Squares(risks), DOMAIN risks)
                                   \div SumFunctionOnSet(Levels(risks), DOMAIN risks))
<1> DEFINE S == DOMAIN risks
<1>1. Len(risks) \in Nat /\ S = 1 .. Len(risks) /\ Len(risks) # 0
  BY DEF Risks
<1>2. IsFiniteSet(S) /\ 1 \in S
  BY <1>1, FS_Interval
<1>3. \A i \in S : /\ Levels(risks)[i] \in {25, 50, 75, 100}
                   /\ Squares(risks)[i] = Levels(risks)[i] * Levels(risks)[i]
  <2>1. \A i \in S : risks[i] \in [probability : Axis, impact : Axis]
    BY <1>1, ElementOfSeq DEF Risks
  <2> QED
    BY <2>1, LevelRange DEF Levels, Squares
<1>4. \A i \in S : Levels(risks)[i] \in Nat /\ Levels(risks)[i] \in Int /\ Squares(risks)[i] \in Nat
  BY <1>3
<1>5. DOMAIN Levels(risks) = S /\ DOMAIN Squares(risks) = S
  BY DEF Levels, Squares
<1>6. RiskInverse(risks) = Clamp(100 - SumFunctionOnSet(Squares(risks), S)
                                   \div SumFunctionOnSet(Levels(risks), S))
  BY <1>5 DEF RiskInverse, SumFunction, Levels, Squares
<1> HIDE DEF S
<1>7. SumFunctionOnSet(Squares(risks), S) \in Nat
  BY <1>2, <1>4, SumNat
<1>8. SumFunctionOnSet(Levels(risks), S) \in Nat \ {0}
  <2>1. IsFiniteSet(S \ {1}) /\ \A i \in S \ {1} : Levels(risks)[i] \in Nat
    BY <1>2, <1>4, FS_RemoveElement
  <2>2. SumFunctionOnSet(Levels(risks), S \ {1}) \in Nat
    BY <2>1, SumNat
  <2>3. SumFunctionOnSet(Levels(risks), S)
          = Levels(risks)[1] + SumFunctionOnSet(Levels(risks), S \ {1})
    BY <1>2, <1>4, SumRemove
  <2>4. Levels(risks)[1] \in {25, 50, 75, 100}
    BY <1>2, <1>3
  <2> QED
    BY <2>2, <2>3, <2>4
<1> QED
  BY <1>2, <1>3, <1>6, <1>7, <1>8 DEF S

\* The risk component lies within 0 .. 100,
LEMMA RiskInverseRange == ASSUME NEW risks \in Risks PROVE RiskInverse(risks) \in 0 .. 100
<1>1. CASE risks = << >>
  BY <1>1 DEF RiskInverse
<1>2. CASE risks # << >>
  <2> DEFINE q == SumFunctionOnSet(Squares(risks), DOMAIN risks)
                    \div SumFunctionOnSet(Levels(risks), DOMAIN risks)
  <2>1. q \in Int /\ RiskInverse(risks) = Clamp(100 - q)
    BY <1>2, RiskSums, DivBounds
  <2> HIDE DEF q
  <2> QED
    BY <2>1, Clamped
<1> QED
  BY <1>1, <1>2

\* and the open risks of the latest report are such a list.
LEMMA OpenRisksType == ASSUME ScoreTypeOK PROVE OpenRisks \in Risks
<1>1. CASE reports = << >>
  BY <1>1 DEF OpenRisks, Risks
<1>2. CASE reports # << >>
  BY <1>2, LastReport DEF OpenRisks, ReportContent
<1> QED
  BY <1>1, <1>2

\* Weights stay natural numbers when they are normalised.
LEMMA NormalizedType ==
  ASSUME NEW w \in Weights
  PROVE  Normalized(w) \in [Components -> Nat]
<1> DEFINE total == SumFunctionOnSet(w, Components)
<1>1. \A k \in Components : w[k] \in Nat
  BY DEF Weights
<1>2. total \in Nat
  BY <1>1, ComponentsFinite, SumNat
<1>3. DEFAULT_WEIGHTS \in [Components -> Nat] /\ w \in [Components -> Nat]
  BY DEF DEFAULT_WEIGHTS, Components, Weights
<1>4. ASSUME total > 0
      PROVE  [k \in Components |-> (w[k] * 100) \div total] \in [Components -> Nat]
  <2>1. ASSUME NEW k \in Components
        PROVE  (w[k] * 100) \div total \in Nat
    <3>1. w[k] * 100 \in Nat /\ w[k] * 100 \in Int /\ total \in Nat \ {0} /\ total * 0 <= w[k] * 100
      <4> HIDE DEF total
      <4> QED
        BY <1>1, <1>2, <1>4
    <3> HIDE DEF total
    <3>2. (w[k] * 100) \div total \in Int /\ 0 <= (w[k] * 100) \div total
      BY <3>1, DivBounds, DivAbove
    <3> QED
      BY <3>2
  <2> QED
    BY <2>1
<1>5. Normalized(w) = CASE total <= 0 -> DEFAULT_WEIGHTS
       [] total \in 99 .. 101 -> w
       [] OTHER -> [k \in Components |-> (w[k] * 100) \div total]
  BY DEF Normalized
<1> HIDE DEF total
<1>6. CASE total <= 0
  BY <1>2, <1>3, <1>5, <1>6
<1>7. CASE total > 0
  BY <1>2, <1>3, <1>4, <1>5, <1>7
<1> QED
  BY <1>2, <1>6, <1>7

\* The weights the score applies, set or by default.
LEMMA WeightsApplied ==
  ASSUME ScoreTypeOK
  PROVE  LET w == Normalized(weights)
         IN  /\ w.rag_avg \in Nat /\ w.spi \in Nat /\ w.risk_inverse \in Nat
             /\ w.resolution_rate \in Nat /\ w.stability \in Nat
<1>1. DEFAULT_WEIGHTS \in Weights
  BY DEF DEFAULT_WEIGHTS, Weights, Components
<1>2. weights \in Weights
  BY <1>1, WeightAssumption DEF ScoreTypeOK
<1>3. Normalized(weights) \in [Components -> Nat]
  BY <1>2, NormalizedType
<1> QED
  BY <1>3 DEF Components

\* The weighted sum is no greater for a smaller risk component.
LEMMA WeightedSumMonotone ==
  ASSUME ScoreTypeOK, NEW r \in Risks, NEW s \in Risks, RiskInverse(r) <= RiskInverse(s)
  PROVE  /\ WeightedSum(r) \in Int /\ WeightedSum(s) \in Int
         /\ WeightedSum(r) <= WeightedSum(s)
<1> DEFINE w == Normalized(weights)
           a == w.rag_avg * RagAvg + w.spi * Spi
           b == w.resolution_rate * ResolutionRate
           c == w.stability * Stability
           x == w.risk_inverse * RiskInverse(r)
           y == w.risk_inverse * RiskInverse(s)
<1>1. /\ w.rag_avg \in Nat /\ w.spi \in Nat /\ w.risk_inverse \in Nat
      /\ w.resolution_rate \in Nat /\ w.stability \in Nat
  BY WeightsApplied
<1>2. /\ RagAvg \in Int /\ Spi \in Int /\ ResolutionRate \in Int /\ Stability \in Int
      /\ RiskInverse(r) \in Int /\ RiskInverse(s) \in Int
  BY RagAvgRange, SpiRange, ResolutionRange, StabilityRange, RiskInverseRange
<1>3. WeightedSum(r) = (a + x + b + c) \div 100 /\ WeightedSum(s) = (a + y + b + c) \div 100
  BY DEF WeightedSum
<1> HIDE DEF w
<1>4. a \in Int /\ b \in Int /\ c \in Int /\ x \in Int /\ y \in Int
  BY <1>1, <1>2
<1>5. x <= y
  BY <1>1, <1>2
<1> HIDE DEF a, b, c, x, y
<1>6. a + x + b + c \in Int /\ a + y + b + c \in Int /\ a + x + b + c <= a + y + b + c
  BY <1>4, <1>5
<1> QED
  BY <1>3, <1>6, DivBounds, DivMonotone

\* Every component and the score are between 0 and 100 (health_score.py:457-464): for
\* any deliverables, dates, reports and weights no quotient is undefined.
THEOREM ScoreStaysInRange == ScoreSpec => []ScoreInRange
<1>1. ScoreTypeOK => ScoreInRange
  <2> SUFFICES ASSUME ScoreTypeOK PROVE ScoreInRange
    OBVIOUS
  <2>1. OpenRisks \in Risks
    BY OpenRisksType
  <2>2. RiskInverse(OpenRisks) \in 0 .. 100
    BY <2>1, RiskInverseRange
  <2>3. WeightedSum(OpenRisks) \in Int
    BY <2>1, <2>2, WeightedSumMonotone
  <2>4. Score(OpenRisks) \in 0 .. 100
    BY <2>3, Clamped DEF Score
  <2>5. Band(Score(OpenRisks)) \in {"green", "amber", "red"}
    BY <2>4 DEF Band
  <2> QED
    BY <2>2, <2>4, <2>5, RagAvgRange, SpiRange, ResolutionRange, StabilityRange DEF ScoreInRange
<1> QED
  BY <1>1, ScoreTypesHold, PTL

\* A likelier or graver risk is not of a lower level.
LEMMA LevelMonotone ==
  ASSUME NEW p1 \in Axis, NEW g1 \in Axis, NEW p2 \in Axis, NEW g2 \in Axis,
         p1 <= p2, g1 <= g2
  PROVE  LevelValue([probability |-> p1, impact |-> g1])
           <= LevelValue([probability |-> p2, impact |-> g2])
<1>1. p1 \in 1 .. 3 /\ g1 \in 1 .. 3 /\ p2 \in 1 .. 3 /\ g2 \in 1 .. 3
  BY DEF Axis
<1> QED
  BY <1>1 DEF LevelValue

\* A value v that is none below a mean a / b of values, each weighted with itself.
Raises(a, b, v) == a <= v * b => a \div b <= (a + v * v) \div (b + v)

\* A mean of values, each weighted with itself, is not lowered by a value that is
\* none below them.
LEMMA GraverMean ==
  \A a \in Nat, b \in Nat \ {0}, v \in {25, 50, 75, 100} : Raises(a, b, v)
<1> SUFFICES ASSUME NEW a \in Nat, NEW b \in Nat \ {0}, NEW v \in {25, 50, 75, 100},
                    a <= v * b
             PROVE  a \div b <= (a + v * v) \div (b + v)
  BY DEF Raises
<1> DEFINE q == a \div b
<1>1. q \in Nat /\ b * q <= a
  <2>1. b * 0 <= a
    OBVIOUS
  <2> QED
    BY <2>1, DivBounds, DivAbove
<1> HIDE DEF q
<1>2. q <= v
  <2>1. SUFFICES ASSUME q >= v + 1 PROVE FALSE
    BY <1>1
  <2>2. b * (v + 1) <= b * q
    BY <1>1, <2>1
  <2>3. b * (v + 1) = v * b + b /\ v * b \in Nat /\ b * q \in Nat
    BY <1>1
  <2> QED
    BY <1>1, <2>2, <2>3
<1>3. v * q <= v * v
  BY <1>1, <1>2
<1>4. (b + v) * q = b * q + v * q
  BY <1>1
<1>5. (b + v) * q <= a + v * v
  <2>1. b * q \in Nat /\ v * q \in Nat /\ v * v \in Nat
    BY <1>1
  <2> QED
    BY <1>1, <1>3, <1>4, <2>1
<1>6. a + v * v \in Int /\ b + v \in Nat \ {0}
  OBVIOUS
<1>7. q <= (a + v * v) \div (b + v)
  BY <1>1, <1>5, <1>6, DivAbove
<1> QED
  BY <1>7 DEF q

\* The sum of squares is at most the greatest value times the sum.
LEMMA SquaresBounded ==
  ASSUME NEW S, IsFiniteSet(S), NEW f, NEW e, NEW v \in Nat,
         \A i \in S : f[i] \in Nat /\ f[i] <= v /\ e[i] = f[i] * f[i]
  PROVE  SumFunctionOnSet(e, S) <= v * SumFunctionOnSet(f, S)
<1> DEFINE Q == {T \in SUBSET S : SumFunctionOnSet(e, T) <= v * SumFunctionOnSet(f, T)}
<1>1. {} \in Q
  <2>1. SumFunctionOnSet(e, {}) = 0 /\ SumFunctionOnSet(f, {}) = 0
    BY SumEmpty
  <2> QED
    BY <2>1
<1>2. ASSUME NEW T \in SUBSET S, T # {}, \A i \in T : T \ {i} \in Q
      PROVE  T \in Q
  <2>1. PICK i \in T : TRUE
    BY <1>2
  <2> DEFINE U == T \ {i}
  <2>2. IsFiniteSet(T) /\ IsFiniteSet(U)
    BY FS_Subset
  <2>3. \A j \in T : f[j] \in Nat /\ e[j] \in Nat
    OBVIOUS
  <2>4. /\ SumFunctionOnSet(f, T) = f[i] + SumFunctionOnSet(f, U)
        /\ SumFunctionOnSet(e, T) = e[i] + SumFunctionOnSet(e, U)
    <3>1. (\A j \in T : f[j] \in Int) /\ (\A j \in T : e[j] \in Int)
      BY <2>3
    <3>2. SumFunctionOnSet(f, T) = f[i] + SumFunctionOnSet(f, T \ {i})
      BY <2>2, <3>1, SumRemove
    <3>3. SumFunctionOnSet(e, T) = e[i] + SumFunctionOnSet(e, T \ {i})
      BY <2>2, <3>1, SumRemove
    <3> QED
      BY <3>2, <3>3
  <2>5. SumFunctionOnSet(f, U) \in Nat /\ SumFunctionOnSet(e, U) \in Nat
    BY <2>2, <2>3, SumNat
  <2>6. SumFunctionOnSet(e, U) <= v * SumFunctionOnSet(f, U)
    BY <1>2
  <2> DEFINE x == SumFunctionOnSet(f, U)  y == SumFunctionOnSet(e, U)
  <2>7. e[i] <= v * f[i]
    <3>1. f[i] \in Nat /\ f[i] <= v /\ e[i] = f[i] * f[i]
      OBVIOUS
    <3> QED
      BY <3>1
  <2>8. f[i] \in Nat /\ e[i] \in Nat
    OBVIOUS
  <2> HIDE DEF x, y, U
  <2>9. v * (f[i] + x) = v * f[i] + v * x /\ v * f[i] \in Nat /\ v * x \in Nat
    BY <2>5, <2>8 DEF x
  <2>10. e[i] + y <= v * (f[i] + x)
    BY <2>5, <2>6, <2>7, <2>8, <2>9 DEF x, y
  <2> QED
    BY <2>4, <2>10 DEF x, y
<1>3. \A T \in SUBSET S : T \in Q
  <2> HIDE DEF Q
  <2> QED
    BY <1>1, <1>2, SubsetInduction
<1> QED
  BY <1>3

\* One more risk, no milder than the others.
LEMMA GraverRisk ==
  ASSUME NEW s \in Risks, NEW r \in [probability : Axis, impact : Axis],
         \A i \in DOMAIN s : LevelValue(s[i]) <= LevelValue(r)
  PROVE  Append(s, r) \in Risks /\ RiskInverse(Append(s, r)) <= RiskInverse(s)
<1> DEFINE t == Append(s, r)  n == Len(s)
<1>1. /\ t \in Risks /\ n \in Nat /\ DOMAIN s = 1 .. n /\ DOMAIN t = 1 .. n + 1
      /\ \A i \in 1 .. n : t[i] = s[i]
      /\ t[n + 1] = r /\ t # << >>
  BY DEF Risks
<1> HIDE DEF t
<1>2. CASE s = << >>
  <2>1. RiskInverse(s) = 100
    BY <1>2 DEF RiskInverse
  <2>2. RiskInverse(t) \in 0 .. 100
    BY <1>1, RiskInverseRange
  <2>3. RiskInverse(t) <= RiskInverse(s)
    BY <2>1, <2>2
  <2> QED
    BY <1>1, <2>3 DEF t
<1>3. CASE s # << >>
  <2> DEFINE S == DOMAIN s  v == LevelValue(r)
             a == SumFunctionOnSet(Squares(s), S)  b == SumFunctionOnSet(Levels(s), S)
  <2>1. v \in {25, 50, 75, 100}
    BY LevelRange
  <2>2. /\ IsFiniteSet(S) /\ a \in Nat /\ b \in Nat \ {0}
        /\ RiskInverse(s) = Clamp(100 - a \div b)
        /\ \A i \in S : /\ Levels(s)[i] \in {25, 50, 75, 100}
                        /\ Squares(s)[i] = Levels(s)[i] * Levels(s)[i]
    BY <1>3, RiskSums
  <2>3. /\ IsFiniteSet(DOMAIN t)
        /\ \A i \in DOMAIN t : /\ Levels(t)[i] \in {25, 50, 75, 100}
                               /\ Squares(t)[i] = Levels(t)[i] * Levels(t)[i]
        /\ RiskInverse(t) = Clamp(100 - SumFunctionOnSet(Squares(t), DOMAIN t)
                                     \div SumFunctionOnSet(Levels(t), DOMAIN t))
    BY <1>1, RiskSums
  <2>4. /\ n + 1 \in DOMAIN t /\ DOMAIN t \ {n + 1} = S
        /\ \A i \in S : Levels(t)[i] = Levels(s)[i] /\ Squares(t)[i] = Squares(s)[i]
        /\ Levels(t)[n + 1] = v /\ Squares(t)[n + 1] = v * v
    BY <1>1 DEF Levels, Squares
  <2>5. SumFunctionOnSet(Levels(t), DOMAIN t) = v + b
    <3>1. SumFunctionOnSet(Levels(t), S) = b
      BY <2>2, <2>4, SumAgrees
    <3>2. \A i \in DOMAIN t : Levels(t)[i] \in Int
      BY <2>3
    <3> QED
      BY <2>3, <2>4, <3>1, <3>2, SumRemove
  <2>6. SumFunctionOnSet(Squares(t), DOMAIN t) = v * v + a
    <3>1. SumFunctionOnSet(Squares(t), S) = a
      BY <2>2, <2>4, SumAgrees
    <3>2. \A i \in DOMAIN t : Squares(t)[i] \in Int
      BY <2>3
    <3> QED
      BY <2>3, <2>4, <3>1, <3>2, SumRemove
  <2>7. a <= v * b
    <3>1. \A i \in S : /\ Levels(s)[i] \in Nat /\ Levels(s)[i] <= v
                       /\ Squares(s)[i] = Levels(s)[i] * Levels(s)[i]
      BY <2>2 DEF Levels
    <3>2. v \in Nat
      BY <2>1
    <3> HIDE DEF S, v
    <3> QED
      BY <2>2, <3>1, <3>2, SquaresBounded
  <2> HIDE DEF S, v, a, b
  <2>8. a \div b <= (a + v * v) \div (b + v)
    <3>1. a \in Nat
      BY <2>2
    <3>2. b \in Nat \ {0}
      BY <2>2
    <3>3. Raises(a, b, v)
      BY <2>1, <3>1, <3>2, GraverMean
    <3> QED
      BY <2>7, <3>3, Zenon DEF Raises
  <2>9. RiskInverse(t) = Clamp(100 - (a + v * v) \div (b + v))
    <3>1. v + b = b + v /\ v * v + a = a + v * v
      BY <2>1, <2>2
    <3> QED
      BY <2>3, <2>5, <2>6, <3>1
  <2>10. a \div b \in Int /\ (a + v * v) \div (b + v) \in Int
    <3>1. a \in Int /\ a + v * v \in Int /\ b + v \in Nat \ {0}
      BY <2>1, <2>2
    <3> QED
      BY <2>2, <3>1, DivBounds
  <2> DEFINE x == a \div b  y == (a + v * v) \div (b + v)
  <2>11. RiskInverse(s) = Clamp(100 - x) /\ RiskInverse(t) = Clamp(100 - y)
         /\ x \in Int /\ y \in Int /\ x <= y
    BY <2>2, <2>8, <2>9, <2>10
  <2> HIDE DEF x, y
  <2>12. 100 - y <= 100 - x /\ 100 - x \in Int /\ 100 - y \in Int
    BY <2>11
  <2> QED
    BY <1>1, <2>11, <2>12, Clamped DEF t
<1> QED
  BY <1>2, <1>3

\* What is worse never helps (health_score.py:307-343), for any number of open risks
\* and any weights.
THEOREM WorseRisksNeverHelp == ScoreSpec => []WorseRiskNeverHelps
<1>1. ScoreTypeOK => WorseRiskNeverHelps
  <2> SUFFICES ASSUME ScoreTypeOK PROVE WorseRiskNeverHelps
    OBVIOUS
  <2>1. OpenRisks \in Risks
    BY OpenRisksType
  <2>2. ASSUME NEW i \in DOMAIN OpenRisks, NEW p \in Axis, NEW g \in Axis,
               p <= OpenRisks[i].probability, g <= OpenRisks[i].impact
        PROVE  LevelValue([probability |-> p, impact |-> g]) <= LevelValue(OpenRisks[i])
    <3>1. OpenRisks[i] \in [probability : Axis, impact : Axis]
      <4> DEFINE s == OpenRisks
      <4>1. s \in Seq([probability : Axis, impact : Axis]) /\ i \in DOMAIN s
        BY <2>1 DEF Risks
      <4> HIDE DEF s
      <4>2. i \in 1 .. Len(s)
        BY <4>1
      <4>3. s[i] \in [probability : Axis, impact : Axis]
        BY <4>1, <4>2, ElementOfSeq
      <4> QED
        BY <4>3 DEF s
    <3>2. OpenRisks[i] = [probability |-> OpenRisks[i].probability,
                          impact |-> OpenRisks[i].impact]
          /\ OpenRisks[i].probability \in Axis /\ OpenRisks[i].impact \in Axis
      BY <3>1
    <3> QED
      BY <2>2, <3>2, LevelMonotone
  <2>3. ASSUME NEW r \in [probability : Axis, impact : Axis],
               \A i \in DOMAIN OpenRisks : LevelValue(OpenRisks[i]) <= LevelValue(r)
        PROVE  Score(Append(OpenRisks, r)) <= Score(OpenRisks)
    <3>1. /\ Append(OpenRisks, r) \in Risks
          /\ RiskInverse(Append(OpenRisks, r)) <= RiskInverse(OpenRisks)
      BY <2>1, <2>3, GraverRisk
    <3> QED
      BY <2>1, <3>1, WeightedSumMonotone, Clamped DEF Score
  <2> QED
    BY <2>2, <2>3 DEF WorseRiskNeverHelps
<1> QED
  BY <1>1, ScoreTypesHold, PTL
=============================================================================
