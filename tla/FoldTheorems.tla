---------------------------- MODULE FoldTheorems ----------------------------
(***************************************************************************)
(* Induction on the naturals without a predicate as parameter, and what    *)
(* FoldLeft of the community modules computes: the results of the folds    *)
(* of this project are reached step by step.                               *)
(***************************************************************************)
EXTENDS SequencesExt, WellFoundedInduction, TLAPS

\* Every non-empty set of naturals has a least element.
LEMMA LeastElement ==
  ASSUME NEW T \in SUBSET Nat, T # {}
  PROVE  \E x \in T : \A y \in T : x <= y
<1>1. PICK x \in T : \A y \in T : ~(<<y, x>> \in OpToRel(<, Nat))
  BY NatLessThanWellFounded, WFMin
<1>2. \A y \in T : ~(y < x)
  BY <1>1 DEF OpToRel
<1> QED BY <1>2

\* What holds of 0 and is handed on to the next number up to n holds up to n.
LEMMA InductionTo ==
  ASSUME NEW n \in Nat, NEW Good, 0 \in Good,
         \A i \in 1 .. n : i - 1 \in Good => i \in Good
  PROVE  \A i \in 0 .. n : i \in Good
<1> DEFINE Bad == (0 .. n) \ Good
<1> SUFFICES ASSUME Bad # {} PROVE FALSE OBVIOUS
<1>1. PICK x \in Bad : \A y \in Bad : x <= y
  <2> Bad \in SUBSET Nat OBVIOUS
  <2> HIDE DEF Bad
  <2> QED BY LeastElement
<1>2. x \in 1 .. n /\ x - 1 \in 0 .. n /\ x - 1 \notin Bad
  BY <1>1
<1> QED BY <1>1, <1>2

\* The greatest of some numbers up to n is one of them, and none is greater.
LEMMA MaxUpTo ==
  ASSUME NEW n \in Nat, NEW s \in SUBSET (1 .. n), s # {}
  PROVE  Max(s) \in s /\ \A y \in s : y <= Max(s)
<1> DEFINE T == {n - y : y \in s}
<1>1. PICK x \in T : \A y \in T : x <= y
  <2>1. \A y \in s : y \in 1 .. n /\ n - y \in Nat
    OBVIOUS
  <2> T \in SUBSET Nat /\ T # {} BY <2>1
  <2> HIDE DEF T
  <2> QED BY LeastElement
<1>2. \A y \in s : y <= n - x /\ n - x \in s
  BY <1>1
<1>3. \E m \in s : \A y \in s : m >= y
  BY <1>2
<1> QED BY <1>3 DEF Max

LEMMA MaxOfInterval ==
  ASSUME NEW n \in Nat \ {0}
  PROVE  Max(1 .. n) = n
<1>1. 1 .. n \in SUBSET (1 .. n) /\ n \in 1 .. n
  OBVIOUS
<1>2. Max(1 .. n) \in 1 .. n /\ n <= Max(1 .. n)
  BY <1>1, MaxUpTo
<1> QED BY <1>2

-----------------------------------------------------------------------------
(* FoldLeft goes down the subsets of the domain of a sequence, from the     *)
(* whole to the empty one, taking the greatest index away.                  *)

FoldsTo(f, n, base, step) ==
  \A s \in SUBSET (1 .. n) :
    f[s] = IF s = {} THEN base ELSE step[<<Max(s), f[s \ {Max(s)}]>>]

\* One index more: the sets that hold it are folded over those that do not.
LEMMA FoldExtends ==
  ASSUME NEW n \in Nat, NEW k \in 1 .. n, NEW S, NEW base \in S,
         NEW step \in [(1 .. n) \X S -> S],
         NEW f \in [SUBSET (1 .. k - 1) -> S], FoldsTo(f, k - 1, base, step)
  PROVE  \E g \in [SUBSET (1 .. k) -> S] : FoldsTo(g, k, base, step)
<1> DEFINE g == [s \in SUBSET (1 .. k) |->
                   IF k \in s THEN step[<<k, f[s \ {k}]>>] ELSE f[s]]
<1>1. ASSUME NEW s \in SUBSET (1 .. k)
      PROVE  s \ {k} \in SUBSET (1 .. k - 1) /\ (k \notin s => s \in SUBSET (1 .. k - 1))
  OBVIOUS
<1>2. ASSUME NEW s \in SUBSET (1 .. k) PROVE g[s] \in S
  BY <1>1
<1>3. g \in [SUBSET (1 .. k) -> S]
  BY <1>2
<1>4. ASSUME NEW s \in SUBSET (1 .. k), s # {}, k \in s
      PROVE  g[s] = step[<<Max(s), g[s \ {Max(s)}]>>]
  <2>1. Max(s) = k
    <3> HIDE DEF g
    <3>1. Max(s) \in s /\ k <= Max(s)
      BY <1>4, MaxUpTo, k \in Nat
    <3>2. Max(s) \in 1 .. k
      BY <3>1
    <3> QED BY <3>1, <3>2
  <2>2. g[s \ {k}] = f[s \ {k}]
    BY <1>1
  <2> QED BY <1>4, <2>1, <2>2
<1>5. ASSUME NEW s \in SUBSET (1 .. k), s # {}, k \notin s
      PROVE  g[s] = step[<<Max(s), g[s \ {Max(s)}]>>]
  <2>1. s \in SUBSET (1 .. k - 1) /\ s \ {Max(s)} \in SUBSET (1 .. k - 1)
    BY <1>5, <1>1
  <2>2. g[s] = f[s] /\ g[s \ {Max(s)}] = f[s \ {Max(s)}]
    BY <1>5, <2>1
  <2> QED BY <1>5, <2>1, <2>2 DEF FoldsTo
<1>6. g[{}] = base
  <2>1. {} \in SUBSET (1 .. k) /\ {} \in SUBSET (1 .. k - 1) OBVIOUS
  <2>2. g[{}] = f[{}] BY <2>1
  <2> QED BY <2>1, <2>2 DEF FoldsTo
<1> QED BY <1>3, <1>4, <1>5, <1>6 DEF FoldsTo

\* Every step on the values of a set can be folded.
LEMMA FoldExists ==
  ASSUME NEW n \in Nat, NEW S, NEW base \in S, NEW step \in [(1 .. n) \X S -> S]
  PROVE  \E f \in [SUBSET (1 .. n) -> S] : FoldsTo(f, n, base, step)
<1> DEFINE Good == {k \in 0 .. n : \E f \in [SUBSET (1 .. k) -> S] : FoldsTo(f, k, base, step)}
<1>1. 0 \in Good
  <2> DEFINE f == [s \in SUBSET (1 .. 0) |-> base]
  <2>1. f \in [SUBSET (1 .. 0) -> S] /\ FoldsTo(f, 0, base, step)
    BY DEF FoldsTo
  <2> QED BY <2>1
<1>2. ASSUME NEW k \in 1 .. n, k - 1 \in Good PROVE k \in Good
  <2>1. PICK f \in [SUBSET (1 .. k - 1) -> S] : FoldsTo(f, k - 1, base, step)
    BY <1>2
  <2>2. \E g \in [SUBSET (1 .. k) -> S] : FoldsTo(g, k, base, step)
    BY <2>1, FoldExtends
  <2> QED BY <2>2
<1>3. n \in Good
  <2> HIDE DEF Good
  <2>1. \A i \in 0 .. n : i \in Good
    BY <1>1, <1>2, InductionTo
  <2> QED BY <2>1
<1> QED BY <1>3

\* One step down from the first i indices.
LEMMA IntervalStep ==
  ASSUME NEW n \in Nat, NEW i \in 1 .. n
  PROVE  /\ 1 .. i \in SUBSET (1 .. n) /\ 1 .. i - 1 \in SUBSET (1 .. n)
         /\ 1 .. i # {} /\ Max(1 .. i) = i /\ (1 .. i) \ {i} = 1 .. i - 1
<1>1. Max(1 .. i) = i
  BY MaxOfInterval
<1> QED BY <1>1

\* What a fold has reached after each index, one step from what it had reached
\* before, is of the type its steps keep to.
LEMMA FoldReaches ==
  ASSUME NEW n \in Nat, NEW S, NEW iter, iter[{}] \in S,
         \A i \in 1 .. n : iter[1 .. i - 1] \in S => iter[1 .. i] \in S
  PROVE  \A i \in 0 .. n : iter[1 .. i] \in S
<1> DEFINE Good == {i \in 0 .. n : iter[1 .. i] \in S}
<1>1. 0 \in Good
  <2>1. 1 .. 0 = {} OBVIOUS
  <2> QED BY <2>1
<1>2. ASSUME NEW i \in 1 .. n, i - 1 \in Good PROVE i \in Good
  BY <1>2
<1>3. \A i \in 0 .. n : i \in Good
  <2> HIDE DEF Good
  <2> QED BY <1>1, <1>2, InductionTo
<1> QED BY <1>3

-----------------------------------------------------------------------------
(* The sum of a list of amounts.                                            *)

SumOf(amounts) == FoldLeft(LAMBDA sum, x : sum + x, 0, amounts)

\* The sums of the first amounts, one after the other.
PartialSums(acc, m, n) ==
  /\ acc \in [0 .. n -> Int]
  /\ acc[0] = 0
  /\ \A i \in 1 .. n : acc[i] = acc[i - 1] + m[i]

LEMMA SumUnrolls ==
  ASSUME NEW n \in Nat, NEW m \in [1 .. n -> Int]
  PROVE  \E acc : PartialSums(acc, m, n) /\ SumOf(m) = acc[n]
<1> DEFINE IsFold(g) == g = [s \in SUBSET (1 .. n) |->
                               IF s = {} THEN 0 ELSE g[s \ {Max(s)}] + m[Max(s)]]
           iter == CHOOSE g : IsFold(g)
           step == [p \in (1 .. n) \X Int |-> p[2] + m[p[1]]]
           acc == [i \in 0 .. n |-> iter[1 .. i]]
<1>1. SumOf(m) = iter[1 .. n]
  <2>1. DOMAIN m = 1 .. n OBVIOUS
  <2> HIDE DEF step, acc
  <2> QED BY <2>1 DEF SumOf, FoldLeft, MapThenFoldSet
<1>2. step \in [(1 .. n) \X Int -> Int] /\ 0 \in Int
  OBVIOUS
<1>3. \A p \in (1 .. n) \X Int : step[p] = p[2] + m[p[1]]
  OBVIOUS
<1>4. acc = [i \in 0 .. n |-> iter[1 .. i]]
  OBVIOUS
<1> HIDE DEF step, acc, iter, IsFold
<1>5. PICK f \in [SUBSET (1 .. n) -> Int] : FoldsTo(f, n, 0, step)
  BY <1>2, FoldExists
<1>6. IsFold(f)
  <2>1. ASSUME NEW s \in SUBSET (1 .. n)
        PROVE  f[s] = IF s = {} THEN 0 ELSE f[s \ {Max(s)}] + m[Max(s)]
    <3>1. s # {} => Max(s) \in 1 .. n /\ f[s \ {Max(s)}] \in Int
      BY MaxUpTo
    <3> QED BY <1>3, <1>5, <3>1 DEF FoldsTo
  <2> QED BY <2>1 DEF IsFold
<1>7. IsFold(iter)
  BY <1>6 DEF iter
<1>8. iter[{}] = 0
  <2>1. {} \in SUBSET (1 .. n) OBVIOUS
  <2> QED BY <1>7, <2>1 DEF IsFold
<1>9. \A i \in 1 .. n : iter[1 .. i] = iter[1 .. i - 1] + m[i]
  <2> TAKE i \in 1 .. n
  <2>1. /\ 1 .. i \in SUBSET (1 .. n) /\ 1 .. i # {}
        /\ Max(1 .. i) = i /\ (1 .. i) \ {i} = 1 .. i - 1
    BY IntervalStep
  <2>2. iter[1 .. i] = iter[(1 .. i) \ {Max(1 .. i)}] + m[Max(1 .. i)]
    BY <1>7, <2>1 DEF IsFold
  <2> QED BY <2>1, <2>2
<1>10. acc[0] = 0 /\ \A i \in 1 .. n : acc[i] = acc[i - 1] + m[i]
  <2>1. 1 .. 0 = {} OBVIOUS
  <2>2. \A i \in 0 .. n : acc[i] = iter[1 .. i]
    BY <1>4
  <2> QED BY <1>8, <1>9, <2>1, <2>2
<1>11. acc \in [0 .. n -> Int]
  <2> DEFINE Good == {i \in 0 .. n : acc[i] \in Int}
  <2>1. 0 \in Good
    BY <1>10
  <2>2. ASSUME NEW i \in 1 .. n, i - 1 \in Good PROVE i \in Good
    BY <1>10, <2>2
  <2>3. \A i \in 0 .. n : i \in Good
    <3> HIDE DEF Good
    <3> QED BY <2>1, <2>2, InductionTo
  <2> QED BY <1>4, <2>3
<1>12. acc[n] = iter[1 .. n]
  BY <1>4
<1> QED BY <1>1, <1>10, <1>11, <1>12 DEF PartialSums

\* Amounts that begin alike have the same first sums.
LEMMA PartialSumsAgree ==
  ASSUME NEW n \in Nat, NEW a, NEW m, PartialSums(a, m, n),
         NEW k \in Nat, n <= k, NEW b, NEW o, PartialSums(b, o, k),
         \A i \in 1 .. n : o[i] = m[i]
  PROVE  a[n] = b[n]
<1> DEFINE Good == {i \in 0 .. n : a[i] = b[i]}
<1>1. 0 \in Good
  BY DEF PartialSums
<1>2. ASSUME NEW i \in 1 .. n, i - 1 \in Good PROVE i \in Good
  BY <1>2 DEF PartialSums
<1>3. \A i \in 0 .. n : i \in Good
  <2> HIDE DEF Good
  <2> QED BY <1>1, <1>2, InductionTo
<1> QED BY <1>3

\* One amount more.
LEMMA SumExtends ==
  ASSUME NEW n \in Nat, NEW m \in [1 .. n -> Int], NEW o \in [1 .. n + 1 -> Int],
         \A i \in 1 .. n : o[i] = m[i]
  PROVE  SumOf(o) = SumOf(m) + o[n + 1]
<1>1. PICK a : PartialSums(a, m, n) /\ SumOf(m) = a[n]
  BY SumUnrolls
<1>2. PICK b : PartialSums(b, o, n + 1) /\ SumOf(o) = b[n + 1]
  BY SumUnrolls
<1>3. a[n] = b[n]
  BY <1>1, <1>2, PartialSumsAgree
<1>4. b[n + 1] = b[n] + o[n + 1]
  BY <1>2 DEF PartialSums
<1> QED BY <1>1, <1>2, <1>3, <1>4

LEMMA SumOfNone ==
  ASSUME NEW m, DOMAIN m = {}, m \in [1 .. 0 -> Int]
  PROVE  SumOf(m) = 0
<1>1. PICK a : PartialSums(a, m, 0) /\ SumOf(m) = a[0]
  BY SumUnrolls
<1> QED BY <1>1 DEF PartialSums

LEMMA SumType ==
  ASSUME NEW n \in Nat, NEW m \in [1 .. n -> Int]
  PROVE  SumOf(m) \in Int
<1>1. PICK a : PartialSums(a, m, n) /\ SumOf(m) = a[n]
  BY SumUnrolls
<1> QED BY <1>1 DEF PartialSums

\* The opposite amounts have the opposite total.
LEMMA SumNegated ==
  ASSUME NEW n \in Nat, NEW m \in [1 .. n -> Int], NEW o \in [1 .. n -> Int],
         \A i \in 1 .. n : o[i] = -m[i]
  PROVE  SumOf(o) = -SumOf(m)
<1>1. PICK a : PartialSums(a, m, n) /\ SumOf(m) = a[n]
  BY SumUnrolls
<1>2. PICK b : PartialSums(b, o, n) /\ SumOf(o) = b[n]
  BY SumUnrolls
<1> DEFINE Good == {i \in 0 .. n : b[i] = -a[i]}
<1>3. 0 \in Good
  BY <1>1, <1>2 DEF PartialSums
<1>4. ASSUME NEW i \in 1 .. n, i - 1 \in Good PROVE i \in Good
  BY <1>1, <1>2, <1>4 DEF PartialSums
<1>5. \A i \in 0 .. n : i \in Good
  <2> HIDE DEF Good
  <2> QED BY <1>3, <1>4, InductionTo
<1> QED BY <1>1, <1>2, <1>5

\* The sum of two lists, place by place, is the sum of their sums.
LEMMA SumAdds ==
  ASSUME NEW n \in Nat, NEW m \in [1 .. n -> Int], NEW o \in [1 .. n -> Int],
         NEW q \in [1 .. n -> Int], \A i \in 1 .. n : q[i] = m[i] + o[i]
  PROVE  SumOf(q) = SumOf(m) + SumOf(o)
<1>1. PICK a : PartialSums(a, m, n) /\ SumOf(m) = a[n]
  BY SumUnrolls
<1>2. PICK b : PartialSums(b, o, n) /\ SumOf(o) = b[n]
  BY SumUnrolls
<1>3. PICK c : PartialSums(c, q, n) /\ SumOf(q) = c[n]
  BY SumUnrolls
<1> DEFINE Good == {i \in 0 .. n : c[i] = a[i] + b[i]}
<1>4. 0 \in Good
  BY <1>1, <1>2, <1>3 DEF PartialSums
<1>5. ASSUME NEW i \in 1 .. n, i - 1 \in Good PROVE i \in Good
  BY <1>1, <1>2, <1>3, <1>5 DEF PartialSums
<1>6. \A i \in 0 .. n : i \in Good
  <2> HIDE DEF Good
  <2> QED BY <1>4, <1>5, InductionTo
<1> QED BY <1>1, <1>2, <1>3, <1>6

LEMMA SumOfZeros ==
  ASSUME NEW n \in Nat, NEW m \in [1 .. n -> Int], \A i \in 1 .. n : m[i] = 0
  PROVE  SumOf(m) = 0
<1>1. \A i \in 1 .. n : m[i] = m[i] + m[i]
  OBVIOUS
<1>2. SumOf(m) = SumOf(m) + SumOf(m) /\ SumOf(m) \in Int
  BY <1>1, SumAdds, SumType
<1>3. \A x \in Int : x = x + x => x = 0
  OBVIOUS
<1> QED BY <1>2, <1>3

\* One sequence after another.
LEMMA OneAfterOther ==
  ASSUME NEW T, NEW p \in Seq(T), NEW q \in Seq(T)
  PROVE  /\ p \o q \in Seq(T) /\ Len(p \o q) = Len(p) + Len(q)
         /\ \A j \in 1 .. Len(p) : (p \o q)[j] = p[j]
         /\ \A j \in 1 .. Len(q) : (p \o q)[Len(p) + j] = q[j]
OBVIOUS

=============================================================================
