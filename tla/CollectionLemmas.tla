--------------------------- MODULE CollectionLemmas ---------------------------
(***************************************************************************)
(* Facts about the collections the components keep, cited by their proofs: *)
(* least elements, sequences that grow and shrink, sorted and filtered     *)
(* lists, and sums over finite sets (SumFunctionOnSet of the module        *)
(* Functions).                                                             *)
(***************************************************************************)
EXTENDS Selections, FiniteSetsExt, SequencesExt, FiniteSetTheorems,
        WellFoundedInduction, TLAPS

\* A set of naturals has a least element: the form of induction used below.
LEMMA LeastNat ==
  ASSUME NEW T, T \subseteq Nat, T # {}
  PROVE  \E n \in T : \A m \in T : n <= m
<1> DEFINE R == OpToRel(<, Nat)
<1>1. IsWellFoundedOn(R, Nat)
  BY NatLessThanWellFounded
<1>2. \A m, n \in Nat : m < n => <<m, n>> \in R
  BY DEF OpToRel
<1> HIDE DEF R
<1>3. PICK n \in T : \A m \in T : ~ (<<m, n>> \in R)
  BY <1>1, WFMin
<1>4. \A m \in T : ~ (m < n)
  BY <1>2, <1>3
<1> QED
  BY <1>3, <1>4

-----------------------------------------------------------------------------
(* Sequences.                                                              *)

\* What appending one element does.
LEMMA AppendFacts ==
  ASSUME NEW S, NEW s \in Seq(S), NEW e
  PROVE  /\ Append(s, e) \in Seq(S \cup {e})
         /\ Len(s) \in Nat /\ Len(Append(s, e)) = Len(s) + 1
         /\ \A i \in 1..Len(s) : Append(s, e)[i] = s[i]
         /\ Append(s, e)[Len(s) + 1] = e
<1>1. s \in Seq(S \cup {e}) /\ e \in S \cup {e}
  OBVIOUS
<1> QED
  BY <1>1

\* The head and the rest of a list.
LEMMA HeadTail ==
  ASSUME NEW S, NEW s \in Seq(S), s # <<>>
  PROVE  /\ Len(s) \in Nat /\ Len(s) >= 1 /\ Head(s) = s[1] /\ Head(s) \in S
         /\ Tail(s) \in Seq(S) /\ Len(Tail(s)) = Len(s) - 1
         /\ \A i \in 1..(Len(s) - 1) : Tail(s)[i] = s[i + 1]
         /\ Len(s) > 1 => Tail(s) # <<>>
<1>1. Len(s) \in Nat /\ Len(s) >= 1 /\ Head(s) = s[1] /\ Head(s) \in S
  OBVIOUS
<1>2. Tail(s) \in Seq(S) /\ Len(Tail(s)) = Len(s) - 1
  OBVIOUS
<1>3. ASSUME NEW i \in 1..(Len(s) - 1) PROVE Tail(s)[i] = s[i + 1]
  OBVIOUS
<1>4. Len(s) > 1 => Tail(s) # <<>>
  <2> DEFINE u == Tail(s)
  <2>1. Len(u) = Len(s) - 1 /\ Len(<<>>) = 0
    BY <1>2
  <2> HIDE DEF u
  <2>2. Len(s) > 1 => u # <<>>
    BY <1>1, <2>1
  <2> QED
    BY <2>2 DEF u
<1> QED
  BY <1>1, <1>2, <1>3, <1>4

\* Who is not in the rest of a list is not in the list or is its head.
LEMMA NotInTail ==
  ASSUME NEW S, NEW s \in Seq(S), s # <<>>, NEW x, x \notin ToSet(Tail(s)), x # Head(s)
  PROVE  x \notin ToSet(s)
<1> SUFFICES ASSUME NEW i \in 1..Len(s), s[i] = x PROVE FALSE
  BY DEF ToSet
<1>1. /\ Len(s) \in Nat /\ Head(s) = s[1] /\ Tail(s) \in Seq(S) /\ Len(Tail(s)) = Len(s) - 1
      /\ \A j \in 1..(Len(s) - 1) : Tail(s)[j] = s[j + 1]
  BY HeadTail
<1>2. i # 1
  BY <1>1
<1>3. i - 1 \in 1..(Len(s) - 1) /\ (i - 1) + 1 = i
  BY <1>1, <1>2
<1>4. Tail(s)[i - 1] = x
  BY <1>1, <1>3
<1>5. i - 1 \in DOMAIN Tail(s)
  BY <1>1, <1>3
<1> QED
  BY <1>4, <1>5 DEF ToSet

LEMMA ConcatFacts ==
  ASSUME NEW S, NEW s \in Seq(S), NEW t \in Seq(S)
  PROVE  /\ s \o t \in Seq(S) /\ Len(s \o t) = Len(s) + Len(t)
         /\ \A j \in 1..Len(s) : (s \o t)[j] = s[j]
         /\ \A j \in 1..Len(t) : (s \o t)[Len(s) + j] = t[j]
  OBVIOUS

\* What a removed element leaves.
LEMMA RemoveAtFacts ==
  ASSUME NEW S, NEW s \in Seq(S), NEW i \in 1..Len(s)
  PROVE  /\ RemoveAt(s, i) \in Seq(S) /\ Len(RemoveAt(s, i)) = Len(s) - 1
         /\ \A j \in 1..(Len(s) - 1) : RemoveAt(s, i)[j] = IF j < i THEN s[j] ELSE s[j + 1]
<1> DEFINE a == SubSeq(s, 1, i - 1)
           b == SubSeq(s, i + 1, Len(s))
<1>1. /\ a \in Seq(S) /\ Len(a) = i - 1 /\ \A j \in 1..(i - 1) : a[j] = s[j]
  OBVIOUS
<1>2. /\ b \in Seq(S) /\ Len(b) = Len(s) - i
      /\ \A j \in 1..(Len(s) - i) : b[j] = s[i + j]
  OBVIOUS
<1>3. RemoveAt(s, i) = a \o b
  BY DEF RemoveAt
<1> HIDE DEF a, b
<1>4. /\ a \o b \in Seq(S) /\ Len(a \o b) = Len(a) + Len(b)
      /\ \A j \in 1..Len(a) : (a \o b)[j] = a[j]
      /\ \A j \in 1..Len(b) : (a \o b)[Len(a) + j] = b[j]
  <2>1. a \in Seq(S) /\ b \in Seq(S)
    BY <1>1, <1>2
  <2> QED
    BY <2>1, ConcatFacts
<1>5. ASSUME NEW j \in 1..(Len(s) - 1) PROVE (a \o b)[j] = IF j < i THEN s[j] ELSE s[j + 1]
  <2>1. CASE j < i
    BY <1>1, <1>4, <2>1
  <2>2. CASE ~ (j < i)
    <3> DEFINE k == j - (i - 1)
    <3>1. k \in 1..Len(b) /\ i + k = j + 1 /\ Len(a) + k = j
      BY <1>1, <1>2, <2>2
    <3> HIDE DEF k
    <3> QED
      BY <1>2, <1>4, <2>2, <3>1
  <2> QED
    BY <2>1, <2>2
<1>6. Len(a \o b) = Len(s) - 1
  BY <1>1, <1>2, <1>4
<1> QED
  BY <1>3, <1>4, <1>5, <1>6

-----------------------------------------------------------------------------
(* Sorted and filtered lists.                                              *)

\* sorted() lists every member once, least first.
LEMMA SortedFacts ==
  ASSUME NEW S \in SUBSET Int, IsFiniteSet(S)
  PROVE  /\ Cardinality(S) \in Nat
         /\ Sorted(S) \in [1..Cardinality(S) -> S]
         /\ \A i, j \in 1..Cardinality(S) : i < j => Sorted(S)[i] < Sorted(S)[j]
         /\ \A x \in S : \E i \in 1..Cardinality(S) : Sorted(S)[i] = x
<1> DEFINE n == Cardinality(S)
           f == [x \in S |-> Before(S, x) + 1]
<1>1. n \in Nat
  BY FS_CardinalityType
<1>2. ASSUME NEW x \in S PROVE Before(S, x) \in Nat /\ Before(S, x) < n
  <2>1. IsFiniteSet(S \ {x}) /\ Cardinality(S \ {x}) = n - 1
    BY FS_RemoveElement
  <2>2. {y \in S : y < x} \in SUBSET (S \ {x})
    OBVIOUS
  <2>3. /\ IsFiniteSet({y \in S : y < x})
        /\ Cardinality({y \in S : y < x}) <= Cardinality(S \ {x})
    BY <2>1, <2>2, FS_Subset
  <2>4. Cardinality({y \in S : y < x}) \in Nat
    BY <2>3, FS_CardinalityType
  <2> QED
    BY <1>1, <2>1, <2>3, <2>4 DEF Before
<1>3. ASSUME NEW x \in S, NEW y \in S, x < y PROVE Before(S, x) < Before(S, y)
  <2> DEFINE A == {z \in S : z < x}
             B == {z \in S : z < y}
  <2>1. IsFiniteSet(A) /\ IsFiniteSet(B)
    <3>1. A \in SUBSET S /\ B \in SUBSET S
      OBVIOUS
    <3> QED
      BY <3>1, FS_Subset
  <2>2. x \notin A /\ A \cup {x} \in SUBSET B
    <3>1. \A z \in S : z < x => z < y
      BY <1>3
    <3>2. ~ (x < x)
      OBVIOUS
    <3> QED
      BY <1>3, <3>1, <3>2
  <2>3. Cardinality(A \cup {x}) = Cardinality(A) + 1
    BY <2>1, <2>2, FS_AddElement
  <2>4. Cardinality(A \cup {x}) <= Cardinality(B)
    BY <2>1, <2>2, FS_Subset
  <2>5. Cardinality(A) \in Nat /\ Cardinality(B) \in Nat
    BY <2>1, FS_CardinalityType
  <2>6. Before(S, x) = Cardinality(A) /\ Before(S, y) = Cardinality(B)
    BY DEF Before
  <2> HIDE DEF A, B
  <2> QED
    BY <2>3, <2>4, <2>5, <2>6
<1>4. ASSUME NEW x \in S, NEW y \in S, Before(S, x) = Before(S, y) PROVE x = y
  <2>1. x < y \/ y < x \/ x = y
    OBVIOUS
  <2>2. Before(S, x) \in Nat /\ Before(S, y) \in Nat
    BY <1>2
  <2> QED
    BY <1>3, <1>4, <2>1, <2>2
<1>5. f \in Injection(S, 1..n)
  <2>1. f \in [S -> 1..n]
    BY <1>1, <1>2
  <2>2. ASSUME NEW x \in S, NEW y \in S, f[x] = f[y] PROVE x = y
    <3>1. Before(S, x) \in Nat /\ Before(S, y) \in Nat
      BY <1>2
    <3>2. Before(S, x) = Before(S, y)
      BY <2>2, <3>1
    <3> QED
      BY <1>4, <3>2
  <2> HIDE DEF f
  <2> QED
    BY <2>1, <2>2 DEF Injection, IsInjective
<1>6. f \in Surjection(S, 1..n)
  <2>1. IsFiniteSet(1..n) /\ Cardinality(1..n) = n
    BY <1>1, FS_Interval
  <2> HIDE DEF f
  <2> QED
    BY <1>5, <2>1, FS_Injection
<1>7. ASSUME NEW i \in 1..n PROVE \E x \in S : Before(S, x) = i - 1
  <2>1. PICK x \in S : f[x] = i
    BY <1>6 DEF Surjection
  <2>2. Before(S, x) + 1 = i /\ Before(S, x) \in Nat
    BY <1>2, <2>1
  <2> QED
    BY <2>2
<1>8. ASSUME NEW i \in 1..n PROVE Sorted(S)[i] \in S /\ Before(S, Sorted(S)[i]) = i - 1
  BY <1>7 DEF Sorted
<1>9. Sorted(S) \in [1..n -> S]
  BY <1>8 DEF Sorted
<1>10. ASSUME NEW i \in 1..n, NEW j \in 1..n, i < j PROVE Sorted(S)[i] < Sorted(S)[j]
  <2> DEFINE a == Sorted(S)[i]
             b == Sorted(S)[j]
  <2>1. a \in S /\ b \in S /\ Before(S, a) = i - 1 /\ Before(S, b) = j - 1
    BY <1>8
  <2> HIDE DEF a, b
  <2>2. a < b
    <3>1. a < b \/ a = b \/ b < a
      BY <2>1
    <3>2. i - 1 < j - 1 /\ i - 1 \in Int /\ j - 1 \in Int
      BY <1>10
    <3>3. CASE b < a
      BY <1>3, <2>1, <3>2, <3>3
    <3>4. CASE a = b
      BY <2>1, <3>2, <3>4
    <3> QED
      BY <3>1, <3>3, <3>4
  <2> QED
    BY <2>2 DEF a, b
<1>11. ASSUME NEW x \in S PROVE \E i \in 1..n : Sorted(S)[i] = x
  <2> DEFINE i == Before(S, x) + 1
  <2>1. i \in 1..n /\ i - 1 = Before(S, x)
    BY <1>1, <1>2
  <2> HIDE DEF i
  <2>2. Sorted(S)[i] \in S /\ Before(S, Sorted(S)[i]) = Before(S, x)
    BY <1>8, <2>1
  <2> QED
    BY <1>4, <2>1, <2>2
<1> QED
  BY <1>1, <1>9, <1>10, <1>11

\* A filtered list has the elements at the chosen positions, and no others.
LEMMA ChosenFacts ==
  ASSUME NEW T, NEW s \in Seq(T), NEW P \in SUBSET (1..Len(s))
  PROVE  /\ IsFiniteSet(P) /\ Cardinality(P) \in Nat
         /\ Chosen(s, P) \in Seq(T) /\ Len(Chosen(s, P)) = Cardinality(P)
         /\ \A k \in 1..Cardinality(P) : \E i \in P : Chosen(s, P)[k] = s[i]
         /\ \A i \in P : \E k \in 1..Cardinality(P) : Chosen(s, P)[k] = s[i]
         /\ Chosen(s, P) = <<>> <=> P = {}
<1>1. IsFiniteSet(P)
  <2>1. IsFiniteSet(1..Len(s))
    BY FS_Interval
  <2> QED
    BY <2>1, FS_Subset
<1>2. P \in SUBSET Int
  OBVIOUS
<1>3. /\ Cardinality(P) \in Nat
      /\ Sorted(P) \in [1..Cardinality(P) -> P]
      /\ \A i \in P : \E k \in 1..Cardinality(P) : Sorted(P)[k] = i
  BY <1>1, <1>2, SortedFacts
<1>4. /\ DOMAIN Chosen(s, P) = 1..Cardinality(P)
      /\ \A k \in 1..Cardinality(P) : Chosen(s, P)[k] = s[Sorted(P)[k]]
  BY DEF Chosen
<1>5. \A k \in 1..Cardinality(P) : Sorted(P)[k] \in P
  BY <1>3
<1>6. ASSUME NEW k \in 1..Cardinality(P) PROVE Chosen(s, P)[k] \in T
  <2>1. Sorted(P)[k] \in 1..Len(s)
    BY <1>5
  <2>2. s[Sorted(P)[k]] \in T
    BY <2>1
  <2> QED
    BY <1>4, <2>2
<1>7. Chosen(s, P) \in [1..Cardinality(P) -> T]
  <2>1. Chosen(s, P) = [k \in 1..Cardinality(P) |-> Chosen(s, P)[k]]
    BY DEF Chosen
  <2> QED
    BY <1>6, <2>1
<1>8. Chosen(s, P) \in Seq(T) /\ Len(Chosen(s, P)) = Cardinality(P)
  BY <1>3, <1>7
<1>9. Chosen(s, P) = <<>> <=> P = {}
  <2>1. Cardinality(P) = 0 <=> P = {}
    BY <1>1, FS_EmptySet
  <2>2. Chosen(s, P) = <<>> <=> Len(Chosen(s, P)) = 0
    BY <1>8
  <2> QED
    BY <1>8, <2>1, <2>2
<1>10. ASSUME NEW i \in P PROVE \E k \in 1..Cardinality(P) : Chosen(s, P)[k] = s[i]
  <2>1. PICK k \in 1..Cardinality(P) : Sorted(P)[k] = i
    BY <1>3
  <2> QED
    BY <1>4, <2>1
<1>11. \A k \in 1..Cardinality(P) : \E i \in P : Chosen(s, P)[k] = s[i]
  BY <1>4, <1>5
<1> QED
  BY <1>1, <1>3, <1>8, <1>9, <1>10, <1>11

\* The sorted list of an interval.
LEMMA SortedInterval ==
  ASSUME NEW a \in Int, NEW b \in Int, a <= b + 1
  PROVE  Sorted(a..b) = [i \in 1..(b - a + 1) |-> a + i - 1]
<1>1. Cardinality(a..b) = b - a + 1
  BY FS_Interval
<1>2. ASSUME NEW x \in a..b PROVE Before(a..b, x) = x - a
  <2>1. {y \in a..b : y < x} = a..(x - 1)
    OBVIOUS
  <2>2. Cardinality(a..(x - 1)) = x - a
    <3>1. x - 1 \in Int
      OBVIOUS
    <3>2. Cardinality(a..(x - 1)) = IF a > x - 1 THEN 0 ELSE x - 1 - a + 1
      BY <3>1, FS_Interval
    <3> QED
      BY <3>2
  <2> QED
    BY <2>1, <2>2 DEF Before
<1>3. ASSUME NEW i \in 1..(b - a + 1)
      PROVE  (CHOOSE x \in a..b : Before(a..b, x) = i - 1) = a + i - 1
  <2>1. a + i - 1 \in a..b /\ Before(a..b, a + i - 1) = i - 1
    BY <1>2
  <2>2. \A x \in a..b : Before(a..b, x) = i - 1 => x = a + i - 1
    BY <1>2
  <2> QED
    BY <2>1, <2>2
<1> QED
  BY <1>1, <1>3 DEF Sorted

\* Choosing the first positions cuts the list off.
LEMMA ChosenPrefix ==
  ASSUME NEW T, NEW s \in Seq(T), NEW m \in 0..Len(s)
  PROVE  Chosen(s, 1..m) = [i \in 1..m |-> s[i]]
<1>1. Cardinality(1..m) = m
  BY FS_Interval
<1>2. Sorted(1..m) = [i \in 1..m |-> i]
  <2>1. 1 \in Int /\ m \in Int /\ 1 <= m + 1
    OBVIOUS
  <2>2. Sorted(1..m) = [i \in 1..(m - 1 + 1) |-> 1 + i - 1]
    BY <2>1, SortedInterval
  <2> QED
    BY <2>2
<1> QED
  BY <1>1, <1>2 DEF Chosen

-----------------------------------------------------------------------------
(* Sums.                                                                   *)

\* g gives every subset of S its sum of f, whichever element is taken first.
IsSum(g, f, S) ==
  /\ \A x \in S : f[x] \in Int
  /\ g \in [SUBSET S -> Int] /\ g[{}] = 0
  /\ \A T \in SUBSET S : \A x \in T : g[T] = f[x] + g[T \ {x}]

LEMMA AddToSum ==
  ASSUME NEW f, NEW S, NEW x, x \notin S, f[x] \in Int, NEW h, IsSum(h, f, S)
  PROVE  \E g : IsSum(g, f, S \cup {x})
<1> DEFINE g == [T \in SUBSET (S \cup {x}) |->
                   IF x \in T THEN f[x] + h[T \ {x}] ELSE h[T]]
<1>1. \A T \in SUBSET (S \cup {x}) : T \ {x} \in SUBSET S /\ (x \notin T => T \in SUBSET S)
  OBVIOUS
<1>2. g \in [SUBSET (S \cup {x}) -> Int]
  BY <1>1 DEF IsSum
<1>3. g[{}] = 0
  BY DEF IsSum
<1>4. ASSUME NEW T \in SUBSET (S \cup {x}), NEW y \in T
      PROVE  g[T] = f[y] + g[T \ {y}]
  <2>0. T \ {y} \in SUBSET (S \cup {x})
    OBVIOUS
  <2>1. CASE x \notin T
    <3>1. T \in SUBSET S /\ T \ {y} \in SUBSET S
      BY <2>1
    <3> QED
      BY <2>0, <2>1, <3>1 DEF IsSum
  <2>2. CASE x \in T /\ y = x
    <3>1. T \ {x} \in SUBSET S
      OBVIOUS
    <3> QED
      BY <2>0, <2>2, <3>1 DEF IsSum
  <2>3. CASE x \in T /\ y # x
    <3>1. T \ {x} \in SUBSET S /\ y \in T \ {x} /\ (T \ {x}) \ {y} \in SUBSET S
      BY <2>3
    <3>2. (T \ {y}) \ {x} = (T \ {x}) \ {y} /\ x \in T \ {y}
      BY <2>3
    <3>3. h[T \ {x}] = f[y] + h[(T \ {x}) \ {y}]
      BY <3>1 DEF IsSum
    <3>4. g[T] = f[x] + h[T \ {x}] /\ g[T \ {y}] = f[x] + h[(T \ {x}) \ {y}]
      BY <2>0, <2>3, <3>2
    <3>5. h[T \ {x}] \in Int /\ h[(T \ {x}) \ {y}] \in Int
      BY <3>1 DEF IsSum
    <3>6. f[y] \in Int
      BY <3>1 DEF IsSum
    <3> QED
      BY <3>3, <3>4, <3>5, <3>6
  <2> QED
    BY <2>1, <2>2, <2>3
<1> HIDE DEF g
<1>6. \A y \in S \cup {x} : f[y] \in Int
  BY DEF IsSum
<1>5. IsSum(g, f, S \cup {x})
  BY <1>2, <1>3, <1>4, <1>6 DEF IsSum
<1> QED
  BY <1>5

\* Every finite set has one: the least one without would be one larger than one with.
LEMMA SumExists ==
  ASSUME NEW f, NEW S, IsFiniteSet(S), \A x \in S : f[x] \in Int
  PROVE  \E g : IsSum(g, f, S)
<1> DEFINE Bad == {T \in SUBSET S : ~ \E g : IsSum(g, f, T)}
           Sizes == {Cardinality(T) : T \in Bad}
<1> SUFFICES ASSUME Bad # {} PROVE FALSE
  OBVIOUS
<1>1. \A T \in SUBSET S : IsFiniteSet(T) /\ Cardinality(T) \in Nat
  BY FS_Subset, FS_CardinalityType
<1>2. PICK n \in Sizes : \A m \in Sizes : n <= m
  <2>1. Sizes \subseteq Nat /\ Sizes # {}
    BY <1>1
  <2> HIDE DEF Sizes
  <2> QED
    BY <2>1, LeastNat
<1>3. PICK T \in Bad : n = Cardinality(T)
  BY <1>2
<1>4. CASE T = {}
  <2> DEFINE g == [U \in SUBSET {} |-> 0]
  <2>1. IsSum(g, f, {})
    BY DEF IsSum
  <2> QED
    BY <1>3, <1>4, <2>1
<1>5. CASE T # {}
  <2>1. PICK x \in T : TRUE
    BY <1>5
  <2> DEFINE U == T \ {x}
  <2>2. U \in SUBSET S /\ U \cup {x} = T /\ x \notin U /\ x \in S
    BY <1>3, <2>1
  <2>3. Cardinality(U) \in Nat /\ Cardinality(T) \in Nat /\ Cardinality(U) < Cardinality(T)
    BY <1>1, <1>3, <2>1, <2>2, FS_RemoveElement
  <2>4. U \notin Bad
    BY <1>2, <1>3, <2>2, <2>3
  <2>5. PICK h : IsSum(h, f, U)
    BY <2>2, <2>4
  <2>6. \E g : IsSum(g, f, U \cup {x})
    <3> HIDE DEF U
    <3> QED
      BY <2>2, <2>5, AddToSum
  <2> QED
    BY <1>3, <2>2, <2>6
<1> QED
  BY <1>4, <1>5

\* The fold takes one element after the other.
Iter(f, S) ==
  CHOOSE iter : iter = [s \in SUBSET S |->
    IF s = {} THEN 0 ELSE f[CHOOSE x \in s : TRUE] + iter[s \ {CHOOSE x \in s : TRUE}]]

LEMMA SumIsIter ==
  \A f, S : SumFunctionOnSet(f, S) = Iter(f, S)[S]
  BY DEF SumFunctionOnSet, FoldFunctionOnSet, MapThenFoldSet, Iter

LEMMA IterIsSum ==
  ASSUME NEW f, NEW S, IsFiniteSet(S), NEW g, IsSum(g, f, S)
  PROVE  Iter(f, S)[S] = g[S]
<1> DEFINE c(s) == CHOOSE x \in s : TRUE
           Body(iter) == [s \in SUBSET S |->
                            IF s = {} THEN 0 ELSE f[c(s)] + iter[s \ {c(s)}]]
<1>0. \A s : s # {} => c(s) \in s
  OBVIOUS
<1>1. g = Body(g)
  <2>1. ASSUME NEW s \in SUBSET S PROVE g[s] = Body(g)[s]
    BY <1>0, <2>1 DEF IsSum
  <2>2. DOMAIN g = SUBSET S /\ g = [s \in SUBSET S |-> g[s]]
    BY DEF IsSum
  <2> QED
    BY <2>1, <2>2
<1> DEFINE iter == Iter(f, S)
<1>2. iter = Body(iter)
  BY <1>1 DEF Iter
<1>3. \A s \in SUBSET S : iter[s] = IF s = {} THEN 0 ELSE f[c(s)] + iter[s \ {c(s)}]
  BY <1>2
<1> HIDE DEF iter, Body
<1>4. \A s \in SUBSET S : g[s] = IF s = {} THEN 0 ELSE f[c(s)] + g[s \ {c(s)}]
  BY <1>0 DEF IsSum
<1> HIDE DEF c
<1> DEFINE Bad == {T \in SUBSET S : iter[T] # g[T]}
           Sizes == {Cardinality(T) : T \in Bad}
<1>5. Bad = {}
  <2> SUFFICES ASSUME Bad # {} PROVE FALSE
    OBVIOUS
  <2>1. \A T \in SUBSET S : IsFiniteSet(T) /\ Cardinality(T) \in Nat
    BY FS_Subset, FS_CardinalityType
  <2>2. PICK n \in Sizes : \A m \in Sizes : n <= m
    <3>1. Sizes \subseteq Nat /\ Sizes # {}
      BY <2>1
    <3> HIDE DEF Sizes
    <3> QED
      BY <3>1, LeastNat
  <2>3. PICK T \in Bad : n = Cardinality(T)
    BY <2>2
  <2>4. T # {}
    BY <1>3, <1>4, <2>3
  <2> DEFINE U == T \ {c(T)}
  <2>5. U \in SUBSET S /\ T \in SUBSET S /\ c(T) \in T
    BY <1>0, <2>3, <2>4
  <2>6. Cardinality(U) \in Nat /\ Cardinality(T) \in Nat /\ Cardinality(U) < Cardinality(T)
    BY <2>1, <2>5, FS_RemoveElement
  <2>7. iter[U] = g[U]
    BY <2>2, <2>3, <2>5, <2>6
  <2> QED
    BY <1>3, <1>4, <2>3, <2>4, <2>5, <2>7
<1>6. iter[S] = g[S]
  BY <1>5
<1> QED
  BY <1>6 DEF iter

\* The sum over a finite set, as the components' proofs use it: it takes any element
\* first, and depends on nothing but the values on the set.
LEMMA SumEmpty == \A f : SumFunctionOnSet(f, {}) = 0
<1> SUFFICES ASSUME NEW f PROVE SumFunctionOnSet(f, {}) = 0
  OBVIOUS
<1>1. PICK g : IsSum(g, f, {})
  BY SumExists, FS_EmptySet
<1> QED
  BY <1>1, IterIsSum, SumIsIter, FS_EmptySet DEF IsSum

LEMMA SumStep ==
  ASSUME NEW f, NEW S, IsFiniteSet(S), \A x \in S : f[x] \in Int, NEW x \in S
  PROVE  SumFunctionOnSet(f, S) = f[x] + SumFunctionOnSet(f, S \ {x})
<1>1. PICK g : IsSum(g, f, S)
  BY SumExists
<1> DEFINE T == S \ {x}
           h == [U \in SUBSET T |-> g[U]]
<1>2. IsSum(h, f, T)
  <2>1. \A U \in SUBSET T : U \in SUBSET S /\ \A y \in U : U \ {y} \in SUBSET T
    OBVIOUS
  <2> QED
    BY <1>1, <2>1 DEF IsSum
<1>3. IsFiniteSet(T) /\ T \in SUBSET T
  BY FS_RemoveElement
<1>4. SumFunctionOnSet(f, T) = g[T]
  <2>1. h[T] = g[T]
    OBVIOUS
  <2> HIDE DEF h, T
  <2> QED
    BY <1>2, <1>3, <2>1, IterIsSum, SumIsIter
<1>5. SumFunctionOnSet(f, S) = g[S]
  BY <1>1, IterIsSum, SumIsIter
<1> QED
  BY <1>1, <1>4, <1>5 DEF IsSum

LEMMA SumType ==
  ASSUME NEW f, NEW S, IsFiniteSet(S), \A x \in S : f[x] \in Int
  PROVE  SumFunctionOnSet(f, S) \in Int
<1>1. PICK g : IsSum(g, f, S)
  BY SumExists
<1> QED
  BY <1>1, IterIsSum, SumIsIter, ZenonT(60) DEF IsSum

LEMMA SumSame ==
  ASSUME NEW e, NEW f, NEW S, IsFiniteSet(S), \A x \in S : f[x] \in Int /\ e[x] = f[x]
  PROVE  SumFunctionOnSet(e, S) = SumFunctionOnSet(f, S)
<1>1. PICK g : IsSum(g, f, S)
  BY SumExists
<1>2. IsSum(g, e, S)
  BY <1>1 DEF IsSum
<1> QED
  BY <1>1, <1>2, IterIsSum, SumIsIter

\* The sum over two disjoint sets.
LEMMA SumUnion ==
  ASSUME NEW f, NEW S, NEW T, IsFiniteSet(S), IsFiniteSet(T), S \cap T = {},
         \A x \in S \cup T : f[x] \in Int
  PROVE  SumFunctionOnSet(f, S \cup T) = SumFunctionOnSet(f, S) + SumFunctionOnSet(f, T)
<1>1. PICK g : IsSum(g, f, S)
  BY SumExists
<1>2. PICK h : IsSum(h, f, T)
  BY SumExists
<1> DEFINE k == [U \in SUBSET (S \cup T) |-> g[U \cap S] + h[U \cap T]]
<1>3. \A U \in SUBSET (S \cup T) : U \cap S \in SUBSET S /\ U \cap T \in SUBSET T
  OBVIOUS
<1>4. k \in [SUBSET (S \cup T) -> Int] /\ k[{}] = 0
  <2>1. {} \cap S = {} /\ {} \cap T = {} /\ {} \in SUBSET (S \cup T)
    OBVIOUS
  <2> QED
    BY <1>1, <1>2, <1>3, <2>1 DEF IsSum
<1>5. ASSUME NEW U \in SUBSET (S \cup T), NEW x \in U PROVE k[U] = f[x] + k[U \ {x}]
  <2>0. U \ {x} \in SUBSET (S \cup T)
    OBVIOUS
  <2> DEFINE A == U \cap S
             B == U \cap T
             V == U \ {x}
  <2>1. A \in SUBSET S /\ B \in SUBSET T /\ V \cap S \in SUBSET S /\ V \cap T \in SUBSET T
    OBVIOUS
  <2>2. g[A] \in Int /\ h[B] \in Int /\ g[V \cap S] \in Int /\ h[V \cap T] \in Int /\ f[x] \in Int
    BY <1>1, <1>2, <2>1 DEF IsSum
  <2>3. k[U] = g[A] + h[B] /\ k[V] = g[V \cap S] + h[V \cap T]
    BY <2>0
  <2>4. CASE x \in S
    <3>1. x \in A /\ V \cap S = A \ {x} /\ V \cap T = B
      BY <2>4
    <3>2. g[A] = f[x] + g[A \ {x}]
      BY <1>1, <2>1, <3>1 DEF IsSum
    <3>4. g[A \ {x}] = g[V \cap S] /\ h[B] = h[V \cap T]
      BY <3>1, Zenon
    <3> HIDE DEF A, B, V, k
    <3>3. k[U] = f[x] + k[V]
      BY <2>2, <2>3, <3>2, <3>4
    <3> QED
      BY <3>3 DEF V
  <2>5. CASE x \in T
    <3>1. x \in B /\ V \cap T = B \ {x} /\ V \cap S = A
      BY <2>5
    <3>2. h[B] = f[x] + h[B \ {x}]
      BY <1>2, <2>1, <3>1 DEF IsSum
    <3>4. h[B \ {x}] = h[V \cap T] /\ g[A] = g[V \cap S]
      BY <3>1, Zenon
    <3> HIDE DEF A, B, V, k
    <3>3. k[U] = f[x] + k[V]
      BY <2>2, <2>3, <3>2, <3>4
    <3> QED
      BY <3>3 DEF V
  <2> QED
    BY <2>4, <2>5
<1>6. k[S \cup T] = g[S] + h[T]
  <2>1. (S \cup T) \cap S = S /\ (S \cup T) \cap T = T /\ S \cup T \in SUBSET (S \cup T)
    OBVIOUS
  <2> QED
    BY <2>1
<1> HIDE DEF k
<1>7. IsSum(k, f, S \cup T) /\ IsFiniteSet(S \cup T)
  BY <1>4, <1>5, FS_Union DEF IsSum
<1> QED
  BY <1>1, <1>2, <1>6, <1>7, IterIsSum, SumIsIter

\* The sum depends on the values, not on what they are indexed with.
LEMMA SumReindex ==
  ASSUME NEW e, NEW f, NEW S, NEW T, IsFiniteSet(S), IsFiniteSet(T),
         \A x \in T : f[x] \in Int,
         NEW b \in [S -> T], \A x, y \in S : b[x] = b[y] => x = y,
         \A y \in T : \E x \in S : b[x] = y, \A x \in S : e[x] = f[b[x]]
  PROVE  SumFunctionOnSet(e, S) = SumFunctionOnSet(f, T)
<1>1. PICK g : IsSum(g, f, T)
  BY SumExists
<1> DEFINE Im(U) == {b[x] : x \in U}
           h == [U \in SUBSET S |-> g[Im(U)]]
<1>2. \A U \in SUBSET S : Im(U) \in SUBSET T
  OBVIOUS
<1>3. h \in [SUBSET S -> Int] /\ h[{}] = 0
  <2>1. Im({}) = {} /\ {} \in SUBSET S
    OBVIOUS
  <2> HIDE DEF Im
  <2> QED
    BY <1>1, <1>2, <2>1 DEF IsSum
<1>4. ASSUME NEW U \in SUBSET S, NEW x \in U PROVE h[U] = e[x] + h[U \ {x}]
  <2>1. Im(U \ {x}) = Im(U) \ {b[x]} /\ b[x] \in Im(U) /\ Im(U) \in SUBSET T
    OBVIOUS
  <2>2. U \ {x} \in SUBSET S /\ x \in S
    OBVIOUS
  <2> HIDE DEF Im
  <2>3. g[Im(U)] = f[b[x]] + g[Im(U) \ {b[x]}]
    BY <1>1, <2>1 DEF IsSum
  <2>4. g[Im(U) \ {b[x]}] = g[Im(U \ {x})]
    BY <2>1, Zenon
  <2>5. h[U] = g[Im(U)] /\ h[U \ {x}] = g[Im(U \ {x})] /\ e[x] = f[b[x]]
    BY <2>2
  <2> QED
    BY <2>3, <2>4, <2>5
<1>5. Im(S) = T
  OBVIOUS
<1>6. h[S] = g[T]
  BY <1>5
<1>7. IsSum(h, e, S)
  <2>1. \A x \in S : e[x] \in Int
    OBVIOUS
  <2> HIDE DEF h
  <2> QED
    BY <1>3, <1>4, <2>1 DEF IsSum
<1> HIDE DEF h
<1> QED
  BY <1>1, <1>6, <1>7, IterIsSum, SumIsIter

\* A cardinality is a sum of ones, and zeros do not count.
LEMMA SumOfOnes ==
  ASSUME NEW f, NEW S, IsFiniteSet(S), \A x \in S : f[x] = 1
  PROVE  SumFunctionOnSet(f, S) = Cardinality(S)
<1> DEFINE g == [T \in SUBSET S |-> Cardinality(T)]
<1>1. \A T \in SUBSET S : IsFiniteSet(T) /\ Cardinality(T) \in Nat
  BY FS_Subset, FS_CardinalityType
<1>2. g \in [SUBSET S -> Int] /\ g[{}] = 0
  BY <1>1, FS_EmptySet
<1>3. ASSUME NEW T \in SUBSET S, NEW x \in T PROVE g[T] = f[x] + g[T \ {x}]
  <2>1. T \ {x} \in SUBSET S /\ f[x] = 1
    OBVIOUS
  <2>2. Cardinality(T \ {x}) = Cardinality(T) - 1
    BY <1>1, FS_RemoveElement
  <2> QED
    BY <1>1, <2>1, <2>2
<1>4. g[S] = Cardinality(S)
  OBVIOUS
<1> HIDE DEF g
<1>5. IsSum(g, f, S)
  BY <1>2, <1>3 DEF IsSum
<1> QED
  BY <1>4, <1>5, IterIsSum, SumIsIter

LEMMA SumOfZeros ==
  ASSUME NEW f, NEW S, IsFiniteSet(S), \A x \in S : f[x] = 0
  PROVE  SumFunctionOnSet(f, S) = 0
<1> DEFINE g == [T \in SUBSET S |-> 0]
<1>1. IsSum(g, f, S)
  <2>1. \A T \in SUBSET S : \A x \in T : T \ {x} \in SUBSET S
    OBVIOUS
  <2> QED
    BY <2>1 DEF IsSum
<1>2. g[S] = 0
  OBVIOUS
<1> HIDE DEF g
<1> QED
  BY <1>1, <1>2, IterIsSum, SumIsIter

LEMMA SumWithoutZeros ==
  ASSUME NEW f, NEW S, IsFiniteSet(S), NEW T \in SUBSET S,
         \A x \in S : f[x] \in Int, \A x \in S \ T : f[x] = 0
  PROVE  SumFunctionOnSet(f, S) = SumFunctionOnSet(f, T)
<1>1. IsFiniteSet(T) /\ IsFiniteSet(S \ T) /\ T \cup (S \ T) = S /\ T \cap (S \ T) = {}
  <2>1. S \ T \in SUBSET S
    OBVIOUS
  <2> QED
    BY <2>1, FS_Subset
<1>2. SumFunctionOnSet(f, S) = SumFunctionOnSet(f, T) + SumFunctionOnSet(f, S \ T)
  <2>1. SumFunctionOnSet(f, T \cup (S \ T)) = SumFunctionOnSet(f, T) + SumFunctionOnSet(f, S \ T)
    BY <1>1, SumUnion
  <2> QED
    BY <1>1, <2>1
<1>3. SumFunctionOnSet(f, S \ T) = 0
  BY <1>1, SumOfZeros
<1>4. SumFunctionOnSet(f, T) \in Int
  BY <1>1, SumType
<1> QED
  BY <1>2, <1>3, <1>4

\* The sum of sums, and the sum over the parts of a partition.
LEMMA SumPlus ==
  ASSUME NEW e, NEW f, NEW g, NEW S, IsFiniteSet(S),
         \A x \in S : e[x] \in Int /\ f[x] \in Int /\ g[x] = e[x] + f[x]
  PROVE  SumFunctionOnSet(g, S) = SumFunctionOnSet(e, S) + SumFunctionOnSet(f, S)
<1>1. PICK a : IsSum(a, e, S)
  BY SumExists
<1>2. PICK b : IsSum(b, f, S)
  BY SumExists
<1> DEFINE k == [T \in SUBSET S |-> a[T] + b[T]]
<1>3. k \in [SUBSET S -> Int] /\ k[{}] = 0 /\ k[S] = a[S] + b[S]
  BY <1>1, <1>2 DEF IsSum
<1>4. ASSUME NEW T \in SUBSET S, NEW x \in T PROVE k[T] = g[x] + k[T \ {x}]
  <2>1. T \ {x} \in SUBSET S /\ x \in S
    OBVIOUS
  <2>2. a[T] = e[x] + a[T \ {x}] /\ b[T] = f[x] + b[T \ {x}]
    BY <1>1, <1>2 DEF IsSum
  <2>3. a[T \ {x}] \in Int /\ b[T \ {x}] \in Int /\ e[x] \in Int /\ f[x] \in Int
    BY <1>1, <1>2, <2>1 DEF IsSum
  <2>4. k[T] = a[T] + b[T] /\ k[T \ {x}] = a[T \ {x}] + b[T \ {x}] /\ g[x] = e[x] + f[x]
    BY <2>1
  <2> HIDE DEF k
  <2> QED
    BY <2>2, <2>3, <2>4
<1> HIDE DEF k
<1>5. IsSum(k, g, S)
  <2>1. \A x \in S : g[x] \in Int
    OBVIOUS
  <2> QED
    BY <1>3, <1>4, <2>1 DEF IsSum
<1>6. SumFunctionOnSet(g, S) = k[S] /\ SumFunctionOnSet(e, S) = a[S] /\ SumFunctionOnSet(f, S) = b[S]
  BY <1>1, <1>2, <1>5, IterIsSum, SumIsIter
<1> QED
  BY <1>3, <1>6

\* A multiple of a sum; and a sum of naturals is one.
LEMMA SumScale ==
  ASSUME NEW c \in Int, NEW f, NEW g, NEW S, IsFiniteSet(S),
         \A x \in S : f[x] \in Int /\ g[x] = c * f[x]
  PROVE  SumFunctionOnSet(g, S) = c * SumFunctionOnSet(f, S)
<1>1. PICK a : IsSum(a, f, S)
  BY SumExists
<1> DEFINE k == [T \in SUBSET S |-> c * a[T]]
<1>2. k \in [SUBSET S -> Int] /\ k[{}] = 0 /\ k[S] = c * a[S]
  BY <1>1 DEF IsSum
<1>3. ASSUME NEW T \in SUBSET S, NEW x \in T PROVE k[T] = g[x] + k[T \ {x}]
  <2>1. T \ {x} \in SUBSET S /\ x \in S
    OBVIOUS
  <2>2. a[T] = f[x] + a[T \ {x}] /\ a[T \ {x}] \in Int /\ f[x] \in Int
    BY <1>1, <2>1 DEF IsSum
  <2>3. k[T] = c * a[T] /\ k[T \ {x}] = c * a[T \ {x}] /\ g[x] = c * f[x]
    BY <2>1
  <2>4. \A m, n \in Int : c * (m + n) = c * m + c * n
    OBVIOUS
  <2> HIDE DEF k
  <2> QED
    BY <2>2, <2>3, <2>4
<1> HIDE DEF k
<1>4. IsSum(k, g, S)
  BY <1>2, <1>3 DEF IsSum
<1>5. SumFunctionOnSet(g, S) = k[S] /\ SumFunctionOnSet(f, S) = a[S]
  BY <1>1, <1>4, IterIsSum, SumIsIter
<1> QED
  BY <1>2, <1>5

LEMMA SumOfNats ==
  ASSUME NEW f, NEW S, IsFiniteSet(S), \A x \in S : f[x] \in Nat
  PROVE  SumFunctionOnSet(f, S) \in Nat
<1>1. PICK g : IsSum(g, f, S)
  BY SumExists
<1> DEFINE Bad == {T \in SUBSET S : g[T] < 0}
           Sizes == {Cardinality(T) : T \in Bad}
<1>2. Bad = {}
  <2> SUFFICES ASSUME Bad # {} PROVE FALSE
    OBVIOUS
  <2>1. \A T \in SUBSET S : IsFiniteSet(T) /\ Cardinality(T) \in Nat
    BY FS_Subset, FS_CardinalityType
  <2>2. PICK n \in Sizes : \A m \in Sizes : n <= m
    <3>1. Sizes \subseteq Nat /\ Sizes # {}
      BY <2>1
    <3> QED
      BY <3>1, LeastNat
  <2>3. PICK T \in Bad : n = Cardinality(T)
    OBVIOUS
  <2>4. T # {} /\ T \in SUBSET S /\ g[T] < 0
    <3>1. g[{}] = 0
      BY <1>1 DEF IsSum
    <3>2. ~(g[{}] < 0)
      BY <3>1
    <3> QED
      BY <3>2
  <2>5. PICK x \in T : TRUE
    BY <2>4
  <2>6. T \ {x} \in SUBSET S /\ Cardinality(T \ {x}) = Cardinality(T) - 1
    BY <2>1, <2>4, <2>5, FS_RemoveElement
  <2>7. T \ {x} \notin Bad
    BY <2>1, <2>2, <2>3, <2>4, <2>6
  <2>8. g[T] = f[x] + g[T \ {x}] /\ f[x] \in Nat /\ g[T \ {x}] \in Int
    BY <1>1, <2>4, <2>5, <2>6 DEF IsSum
  <2> QED
    BY <2>4, <2>6, <2>7, <2>8
<1>3. g[S] \in Int /\ ~(g[S] < 0)
  BY <1>1, <1>2 DEF IsSum
<1> QED
  BY <1>1, <1>3, IterIsSum, SumIsIter

\* The members of S that c puts in class t.
Class(S, c, t) == {x \in S : c[x] = t}

\* Adding up class by class adds up everything.
LEMMA SumParts ==
  ASSUME NEW f, NEW S, IsFiniteSet(S), \A x \in S : f[x] \in Int,
         NEW C, IsFiniteSet(C), NEW c, \A x \in S : c[x] \in C,
         NEW h, \A t \in C : h[t] = SumFunctionOnSet(f, Class(S, c, t))
  PROVE  SumFunctionOnSet(h, C) = SumFunctionOnSet(f, S)
<1> DEFINE In(D) == {x \in S : c[x] \in D}
           g == [D \in SUBSET C |-> SumFunctionOnSet(f, In(D))]
<1>1. ASSUME NEW D PROVE IsFiniteSet(In(D)) /\ \A x \in In(D) : f[x] \in Int
  <2>1. In(D) \in SUBSET S
    OBVIOUS
  <2> QED
    BY <2>1, FS_Subset
<1>2. In({}) = {} /\ In(C) = S
  OBVIOUS
<1>3. g[{}] = 0 /\ g[C] = SumFunctionOnSet(f, S)
  BY <1>2, SumEmpty
<1>4. g \in [SUBSET C -> Int]
  <2>1. \A D \in SUBSET C : SumFunctionOnSet(f, In(D)) \in Int
    <3> SUFFICES ASSUME NEW D \in SUBSET C PROVE SumFunctionOnSet(f, In(D)) \in Int
      OBVIOUS
    <3> HIDE DEF In
    <3> QED
      BY <1>1, SumType
  <2> HIDE DEF In
  <2> QED
    BY <2>1
<1>5. ASSUME NEW D \in SUBSET C, NEW t \in D PROVE g[D] = h[t] + g[D \ {t}]
  <2> DEFINE A == Class(S, c, t)
             B == In(D \ {t})
  <2>1. A \cup B = In(D) /\ A \cap B = {} /\ A = In({t})
    BY DEF Class
  <2>2. g[D] = SumFunctionOnSet(f, In(D)) /\ g[D \ {t}] = SumFunctionOnSet(f, B)
    OBVIOUS
  <2>3. h[t] = SumFunctionOnSet(f, A)
    OBVIOUS
  <2> HIDE DEF A, B, g, In
  <2>4. IsFiniteSet(A) /\ IsFiniteSet(B) /\ \A x \in A \cup B : f[x] \in Int
    BY <1>1, <2>1 DEF B
  <2>5. SumFunctionOnSet(f, A \cup B) = SumFunctionOnSet(f, A) + SumFunctionOnSet(f, B)
    BY <2>1, <2>4, SumUnion
  <2> QED
    BY <2>1, <2>2, <2>3, <2>5
<1>6. ASSUME NEW t \in C PROVE h[t] \in Int
  <2> DEFINE A == Class(S, c, t)
  <2>1. A = In({t}) /\ h[t] = SumFunctionOnSet(f, A)
    BY DEF Class
  <2> HIDE DEF A, In
  <2>2. IsFiniteSet(A) /\ \A x \in A : f[x] \in Int
    BY <1>1, <2>1
  <2> QED
    BY <2>1, <2>2, SumType, SMTT(30)
<1> HIDE DEF g, In
<1>7. IsSum(g, h, C)
  BY <1>3, <1>4, <1>5, <1>6 DEF IsSum
<1> QED
  BY <1>3, <1>7, IterIsSum, SumIsIter

\* Counting class by class counts every element.
LEMMA CountParts ==
  ASSUME NEW S, IsFiniteSet(S), NEW C, IsFiniteSet(C), NEW c, \A x \in S : c[x] \in C,
         NEW h, \A t \in C : h[t] = Cardinality(Class(S, c, t))
  PROVE  SumFunctionOnSet(h, C) = Cardinality(S)
<1> DEFINE f == [x \in S |-> 1]
<1>1. (\A x \in S : f[x] \in Int) /\ \A x \in S : f[x] = 1
  OBVIOUS
<1> HIDE DEF f
<1>2. ASSUME NEW t \in C PROVE h[t] = SumFunctionOnSet(f, Class(S, c, t))
  <2> DEFINE P == Class(S, c, t)
  <2>1. P \in SUBSET S /\ h[t] = Cardinality(P)
    BY DEF Class
  <2> HIDE DEF P
  <2>2. IsFiniteSet(P) /\ \A x \in P : f[x] = 1
    BY <1>1, <2>1, FS_Subset
  <2>3. SumFunctionOnSet(f, P) = Cardinality(P)
    BY <2>2, SumOfOnes
  <2> QED
    BY <2>1, <2>3 DEF P
<1>3. SumFunctionOnSet(h, C) = SumFunctionOnSet(f, S)
  BY <1>1, <1>2, SumParts
<1>4. SumFunctionOnSet(f, S) = Cardinality(S)
  BY <1>1, SumOfOnes
<1> QED
  BY <1>3, <1>4

-----------------------------------------------------------------------------
(* Sums over the elements of a sequence.                                   *)

Values(v, s) == [i \in 1..Len(s) |-> v[s[i]]]
SeqSum(v, s) == SumFunctionOnSet(Values(v, s), 1..Len(s))

LEMMA ValuesFacts ==
  ASSUME NEW N, NEW v \in [N -> Int], NEW s \in Seq(N)
  PROVE  /\ \A i \in 1..Len(s) : Values(v, s)[i] = v[s[i]] /\ Values(v, s)[i] \in Int
         /\ Len(s) \in Nat /\ IsFiniteSet(1..Len(s)) /\ SeqSum(v, s) \in Int
<1>1. \A i \in 1..Len(s) : Values(v, s)[i] = v[s[i]] /\ Values(v, s)[i] \in Int
  BY DEF Values
<1>2. Len(s) \in Nat /\ IsFiniteSet(1..Len(s))
  BY FS_Interval
<1> QED
  BY <1>1, <1>2, SumType DEF SeqSum

LEMMA SeqSumEmpty == \A v : SeqSum(v, <<>>) = 0
<1>1. 1..Len(<<>>) = {}
  OBVIOUS
<1> QED
  BY <1>1, SumEmpty DEF SeqSum

LEMMA SeqSumAppend ==
  ASSUME NEW N, NEW v \in [N -> Int], NEW s \in Seq(N), NEW e \in N
  PROVE  SeqSum(v, Append(s, e)) = SeqSum(v, s) + v[e]
<1> DEFINE t == Append(s, e)
           n == Len(s) + 1
           S == 1..Len(s)
           T == 1..Len(t)
           f == Values(v, s)
           g == Values(v, t)
<1>1. /\ t \in Seq(N) /\ Len(t) = n /\ Len(s) \in Nat /\ t[n] = e
      /\ \A i \in S : t[i] = s[i]
  OBVIOUS
<1>2. n \in T /\ T \ {n} = S /\ \A i \in S : i \in T
  BY <1>1
<1> HIDE DEF t, n
<1>3. /\ \A i \in S : f[i] = v[s[i]] /\ f[i] \in Int
      /\ IsFiniteSet(S) /\ SeqSum(v, s) \in Int
  BY ValuesFacts
<1>4. (\A i \in T : g[i] = v[t[i]] /\ g[i] \in Int) /\ IsFiniteSet(T)
  BY <1>1, ValuesFacts
<1>5. SeqSum(v, s) = SumFunctionOnSet(f, S) /\ SeqSum(v, t) = SumFunctionOnSet(g, T)
  BY DEF SeqSum
<1> HIDE DEF f, g, S, T
<1>6. SumFunctionOnSet(g, T) = g[n] + SumFunctionOnSet(g, T \ {n})
  BY <1>2, <1>4, SumStep
<1>7. \A i \in S : f[i] \in Int /\ g[i] = f[i]
  BY <1>1, <1>2, <1>3, <1>4, SMTT(30)
<1>8. SumFunctionOnSet(g, S) = SumFunctionOnSet(f, S)
  BY <1>3, <1>7, SumSame
<1>9. g[n] = v[e] /\ v[e] \in Int
  BY <1>1, <1>2, <1>4
<1>10. SeqSum(v, t) = v[e] + SeqSum(v, s)
  BY <1>2, <1>5, <1>6, <1>8, <1>9
<1>11. SeqSum(v, t) = SeqSum(v, s) + v[e]
  BY <1>3, <1>9, <1>10
<1> QED
  BY <1>11 DEF t

LEMMA SeqSumRemoveAt ==
  ASSUME NEW N, NEW v \in [N -> Int], NEW s \in Seq(N), NEW i \in 1..Len(s)
  PROVE  SeqSum(v, RemoveAt(s, i)) = SeqSum(v, s) - v[s[i]]
<1> DEFINE t == RemoveAt(s, i)
           S == 1..Len(s)
           T == 1..Len(t)
           U == S \ {i}
           f == Values(v, s)
           g == Values(v, t)
           b == [j \in T |-> IF j < i THEN j ELSE j + 1]
<1>1. /\ t \in Seq(N) /\ Len(t) = Len(s) - 1 /\ Len(s) \in Nat
      /\ \A j \in 1..(Len(s) - 1) : t[j] = IF j < i THEN s[j] ELSE s[j + 1]
  BY RemoveAtFacts
<1> HIDE DEF t
<1>2. b \in [T -> U]
  BY <1>1, SMTT(30)
<1>3. \A x, y \in T : b[x] = b[y] => x = y
  BY <1>1, SMTT(30)
<1>4. ASSUME NEW y \in U PROVE \E x \in T : b[x] = y
  <2>1. CASE y < i
    <3>1. y \in T
      BY <1>1, <2>1
    <3> QED
      BY <2>1, <3>1
  <2>2. CASE y > i
    <3>1. y - 1 \in T /\ ~ (y - 1 < i) /\ (y - 1) + 1 = y
      BY <1>1, <2>2
    <3> QED
      BY <3>1
  <2> QED
    BY <2>1, <2>2
<1>5. \A x \in T : t[x] = s[b[x]]
  BY <1>1
<1>6. /\ \A j \in S : f[j] = v[s[j]] /\ f[j] \in Int
      /\ IsFiniteSet(S) /\ SeqSum(v, s) \in Int
  BY ValuesFacts
<1>7. (\A j \in T : g[j] = v[t[j]] /\ g[j] \in Int) /\ IsFiniteSet(T) /\ SeqSum(v, t) \in Int
  BY <1>1, ValuesFacts
<1>8. SeqSum(v, s) = SumFunctionOnSet(f, S) /\ SeqSum(v, t) = SumFunctionOnSet(g, T)
  BY DEF SeqSum
<1>9. i \in S /\ \A x \in U : x \in S
  OBVIOUS
<1> HIDE DEF b, f, g, S, T
<1>10. \A x \in T : g[x] = f[b[x]]
  <2> SUFFICES ASSUME NEW x \in T PROVE g[x] = f[b[x]]
    OBVIOUS
  <2>1. b[x] \in U
    BY <1>2
  <2>2. b[x] \in S
    BY <1>9, <2>1
  <2>3. f[b[x]] = v[s[b[x]]]
    BY <1>6, <2>2
  <2>4. g[x] = v[t[x]] /\ t[x] = s[b[x]]
    BY <1>5, <1>7
  <2> QED
    BY <2>3, <2>4
<1>11. SumFunctionOnSet(f, S) = f[i] + SumFunctionOnSet(f, U)
  <2>1. IsFiniteSet(S) /\ (\A x \in S : f[x] \in Int) /\ i \in S
    BY <1>6, <1>9
  <2>2. SumFunctionOnSet(f, S) = f[i] + SumFunctionOnSet(f, S \ {i})
    BY ONLY <2>1, SumStep, ZenonT(60)
  <2> QED
    BY <2>2
<1>12. IsFiniteSet(U) /\ \A x \in U : f[x] \in Int
  BY <1>6, <1>9, FS_RemoveElement
<1> HIDE DEF U
<1>13. SumFunctionOnSet(g, T) = SumFunctionOnSet(f, U)
  BY <1>2, <1>3, <1>4, <1>7, <1>10, <1>12, SumReindex
<1>14. SeqSum(v, t) = SeqSum(v, s) - v[s[i]]
  BY <1>6, <1>7, <1>8, <1>9, <1>11, <1>13
<1> QED
  BY <1>14 DEF t

LEMMA SeqSumConcat ==
  ASSUME NEW N, NEW v \in [N -> Int], NEW s \in Seq(N), NEW t \in Seq(N)
  PROVE  SeqSum(v, s \o t) = SeqSum(v, s) + SeqSum(v, t)
<1> DEFINE u == s \o t
           m == Len(s)
           n == Len(t)
           S == 1..m
           T == 1..n
           B == (m + 1)..(m + n)
           U == 1..Len(u)
           p == Values(v, s)
           q == Values(v, t)
           r == Values(v, u)
           c == [j \in B |-> j - m]
<1>1. /\ u \in Seq(N) /\ Len(u) = m + n /\ m \in Nat /\ n \in Nat
      /\ \A j \in S : u[j] = s[j]
      /\ \A j \in T : u[m + j] = t[j]
  BY ConcatFacts
<1>2. (\A j \in S : p[j] = v[s[j]] /\ p[j] \in Int) /\ IsFiniteSet(S)
  BY ValuesFacts
<1>3. (\A j \in T : q[j] = v[t[j]] /\ q[j] \in Int) /\ IsFiniteSet(T)
  BY ValuesFacts
<1> HIDE DEF u
<1>4. \A j \in U : r[j] = v[u[j]] /\ r[j] \in Int
  BY <1>1, ValuesFacts
<1>5. /\ SeqSum(v, s) = SumFunctionOnSet(p, S) /\ SeqSum(v, t) = SumFunctionOnSet(q, T)
      /\ SeqSum(v, u) = SumFunctionOnSet(r, U)
  BY DEF SeqSum
<1> HIDE DEF m, n, p, q, r
<1>6. S \cup B = U /\ S \cap B = {}
  BY <1>1
<1>7. IsFiniteSet(B)
  <2>1. m + 1 \in Int /\ m + n \in Int
    BY <1>1
  <2> QED
    BY <2>1, FS_Interval
<1>8. c \in [B -> T] /\ \A x, y \in B : c[x] = c[y] => x = y
  BY <1>1
<1>9. ASSUME NEW y \in T PROVE \E x \in B : c[x] = y
  <2>1. m + y \in B /\ (m + y) - m = y
    BY <1>1
  <2> QED
    BY <2>1
<1>10. \A x \in B : u[x] = t[c[x]]
  <2> SUFFICES ASSUME NEW x \in B PROVE u[x] = t[c[x]]
    OBVIOUS
  <2>1. c[x] \in T /\ m + c[x] = x
    BY <1>1
  <2> QED
    BY <1>1, <2>1
<1> HIDE DEF c, S, T, B, U
<1>11. SumFunctionOnSet(r, U) = SumFunctionOnSet(r, S) + SumFunctionOnSet(r, B)
  <2>1. \A x \in S \cup B : r[x] \in Int
    BY <1>4, <1>6
  <2>2. SumFunctionOnSet(r, S \cup B) = SumFunctionOnSet(r, S) + SumFunctionOnSet(r, B)
    BY <1>2, <1>6, <1>7, <2>1, SumUnion
  <2> QED
    BY <1>6, <2>2
<1>12. SumFunctionOnSet(r, S) = SumFunctionOnSet(p, S)
  <2>1. ASSUME NEW x \in S PROVE p[x] \in Int /\ r[x] = p[x]
    <3>1. x \in U
      BY <1>6
    <3>2. r[x] = v[u[x]] /\ u[x] = s[x]
      BY <1>1, <1>4, <3>1
    <3>3. p[x] = v[s[x]] /\ p[x] \in Int
      BY <1>2
    <3> QED
      BY <3>2, <3>3
  <2> QED
    BY <1>2, <2>1, SumSame
<1>13. SumFunctionOnSet(r, B) = SumFunctionOnSet(q, T)
  <2>1. ASSUME NEW x \in B PROVE r[x] = q[c[x]]
    <3>1. x \in U
      BY <1>6
    <3>2. r[x] = v[u[x]] /\ u[x] = t[c[x]]
      BY <1>4, <1>10, <3>1
    <3>3. c[x] \in T
      BY <1>8
    <3>4. q[c[x]] = v[t[c[x]]]
      BY <1>3, <3>3
    <3> QED
      BY <3>2, <3>4
  <2>2. \A x \in B : r[x] = q[c[x]]
    BY <2>1
  <2>3. IsFiniteSet(T) /\ \A x \in T : q[x] \in Int
    BY <1>3
  <2>4. c \in [B -> T]
    BY <1>8
  <2>5. \A x, y \in B : c[x] = c[y] => x = y
    BY <1>8
  <2>6. \A y \in T : \E x \in B : c[x] = y
    BY <1>9
  <2> QED
    BY ONLY <1>7, <2>2, <2>3, <2>4, <2>5, <2>6, SumReindex, SMTT(60)
<1>14. SeqSum(v, u) = SeqSum(v, s) + SeqSum(v, t)
  BY <1>5, <1>11, <1>12, <1>13
<1> QED
  BY <1>14 DEF u
=============================================================================
