---------------------------- MODULE DataTheorems ----------------------------
(***************************************************************************)
(* Facts about the data the models are built from.                         *)
(*                                                                         *)
(* Sums over finite sets, SumFunctionOnSet(f, S) of the community modules: *)
(* that the sum is well defined, may be taken in any order, and how it     *)
(* follows its set and its values.  The proofs go by induction on a finite *)
(* set, which FiniteInduction states of a set of its subsets, so that no   *)
(* rule with an operator as a parameter is needed.                         *)
(*                                                                         *)
(* Lists whose entries have a key: which keys are in a list, and that each *)
(* is there once, when an entry is added, taken out or replaced.           *)
(***************************************************************************)
EXTENDS Integers, SequencesExt, FiniteSetTheorems, SequenceTheorems, WellFoundedInduction, TLAPS

-----------------------------------------------------------------------------
(* Induction.                                                              *)

\* A nonempty set of naturals has a least element.
LEMMA LeastExists ==
  ASSUME NEW I, I \subseteq Nat, I # {}
  PROVE  \E i \in I : \A k \in I : i <= k
<1> DEFINE Less == {ss \in Nat \X Nat : ss[1] < ss[2]}
<1>1. IsWellFoundedOn(Less, Nat)
  BY NatLessThanWellFounded, Zenon DEF OpToRel
<1>2. \E i \in I : \A k \in I : <<k, i>> \notin Less
  <2> HIDE DEF Less
  <2> QED
    BY <1>1, WFMin
<1>3. \A k, i \in Nat : k < i => <<k, i>> \in Less
  OBVIOUS
<1>4. PICK i \in I : \A k \in I : <<k, i>> \notin Less
  BY <1>2
<1>5. \A k \in I : ~ (k < i)
  <2> HIDE DEF Less
  <2> QED
    BY <1>3, <1>4
<1> QED
  BY <1>5

\* A nonempty set of naturals has a least element, which Min returns.
LEMMA MinInSet ==
  ASSUME NEW I, I \subseteq Nat, I # {}
  PROVE  Min(I) \in I /\ \A k \in I : Min(I) <= k
<1>1. \E i \in I : \A k \in I : i <= k
  BY LeastExists
<1> QED
  BY <1>1 DEF Min

\* A nonempty set of positions has a greatest element, which Max returns.
LEMMA MaxUpTo ==
  ASSUME NEW n \in Nat, NEW I, I \subseteq 0..n, I # {}
  PROVE  Max(I) \in I /\ \A k \in I : Max(I) >= k
<1> DEFINE FromEnd == {n - i : i \in I}
<1>1. FromEnd \subseteq Nat /\ FromEnd # {}
  <2>1. \A i \in I : n - i \in Nat
    OBVIOUS
  <2> QED BY <2>1
<1>2. PICK x \in FromEnd : \A y \in FromEnd : x <= y
  BY <1>1, LeastExists
<1>3. \E i \in I : \A k \in I : i >= k
  <2>1. PICK i \in I : x = n - i
    BY <1>2
  <2>2. \A k \in I : n - i <= n - k
    BY <1>2, <2>1
  <2>3. \A k \in I : i >= k
    BY <2>2
  <2> QED BY <2>3
<1> QED BY <1>3 DEF Max

\* A nonempty set of positions has a largest.
LEMMA MaxInSet ==
  ASSUME NEW n \in Nat, NEW I, I \subseteq 1..n, I # {}
  PROVE  Max(I) \in I
BY MaxUpTo, 1..n \subseteq 0..n

\* Among positions ordered by priority and then by age one comes first.
LEMMA FirstExists ==
  ASSUME NEW n \in Nat, NEW I, I \subseteq 1..n, I # {}, NEW rank \in [I -> Nat]
  PROVE  \E i \in I : \A k \in I : rank[k] < rank[i] \/ (rank[k] = rank[i] /\ i <= k)
<1> DEFINE Before(k, i) == rank[k] > rank[i] \/ (rank[k] = rank[i] /\ k < i)
           Ahead(i) == {k \in I : Before(k, i)}
           Count == {Cardinality(Ahead(i)) : i \in I}
<1>1. IsFiniteSet(I)
  <2>1. IsFiniteSet(1..n)
    BY FS_Interval
  <2> QED
    BY <2>1, FS_Subset
<1>2. \A i \in I : IsFiniteSet(Ahead(i)) /\ Cardinality(Ahead(i)) \in Nat
  BY <1>1, FS_Subset, FS_CardinalityType
<1>3. Count \subseteq Nat /\ Count # {}
  BY <1>2
<1>4. PICK i \in I : \A k \in I : Cardinality(Ahead(i)) <= Cardinality(Ahead(k))
  <2>1. Min(Count) \in Count /\ \A c \in Count : Min(Count) <= c
    <3> HIDE DEF Count
    <3> QED
      BY <1>3, MinInSet
  <2>2. \A k \in I : Cardinality(Ahead(k)) \in Count
    OBVIOUS
  <2>3. PICK i \in I : Min(Count) = Cardinality(Ahead(i))
    BY <2>1, Zenon
  <2>4. \A k \in I : Min(Count) <= Cardinality(Ahead(k))
    BY <2>1, <2>2, Zenon
  <2> QED
    BY <2>3, <2>4, Zenon
<1>5. \A k \in I : ~ Before(k, i)
  <2> SUFFICES ASSUME NEW k \in I, Before(k, i)
               PROVE  FALSE
    OBVIOUS
  <2>1. \A x, y, z \in I : Before(x, y) /\ Before(y, z) => Before(x, z)
    OBVIOUS
  <2>2. ~ Before(k, k)
    OBVIOUS
  <2>3. Ahead(k) \subseteq Ahead(i) /\ Ahead(k) # Ahead(i)
    <3> HIDE DEF Before
    <3> QED
      BY <2>1, <2>2
  <2>4. Cardinality(Ahead(k)) < Cardinality(Ahead(i))
    <3> HIDE DEF Ahead
    <3> QED
      BY <1>2, <2>3, FS_Subset
  <2> HIDE DEF Ahead
  <2>5. Cardinality(Ahead(k)) \in Nat /\ Cardinality(Ahead(i)) \in Nat
    BY <1>2
  <2>6. Cardinality(Ahead(i)) <= Cardinality(Ahead(k))
    BY <1>4
  <2> QED
    BY <2>4, <2>5, <2>6
<1> QED
  BY <1>5

\* A set that, of the subsets of a finite set, has each whose parts with one
\* element less it has, has the finite set.
LEMMA FiniteInduction ==
  ASSUME NEW S, IsFiniteSet(S), NEW G,
         \A T \in SUBSET S : (\A x \in T : T \ {x} \in G) => T \in G
  PROVE  S \in G
<1> DEFINE Out == {T \in SUBSET S : T \notin G}
           Sizes == {Cardinality(T) : T \in Out}
<1> SUFFICES ASSUME Out # {} PROVE FALSE
  OBVIOUS
<1>1. \A T \in SUBSET S : IsFiniteSet(T) /\ Cardinality(T) \in Nat
  BY FS_Subset, FS_CardinalityType
<1>2. Sizes \subseteq Nat /\ Sizes # {}
  BY <1>1
<1>3. PICK T \in Out : \A U \in Out : Cardinality(T) <= Cardinality(U)
  <2>1. PICK n \in Sizes : \A k \in Sizes : n <= k
    <3> HIDE DEF Sizes
    <3> QED
      BY <1>2, LeastExists
  <2> QED
    BY <2>1
<1>4. \A x \in T : Cardinality(T \ {x}) = Cardinality(T) - 1
  BY <1>1, FS_RemoveElement
<1>5. \A x \in T : T \ {x} \in G
  BY <1>1, <1>3, <1>4
<1> QED
  BY <1>5

\* The image of a finite set is finite.
LEMMA FiniteImage ==
  ASSUME NEW S, IsFiniteSet(S), NEW h
  PROVE  IsFiniteSet({h[x] : x \in S})
<1> DEFINE G == {T \in SUBSET S : IsFiniteSet({h[x] : x \in T})}
<1>1. ASSUME NEW T \in SUBSET S, \A x \in T : T \ {x} \in G
      PROVE  T \in G
  <2>1. CASE T = {}
    <3>1. {h[x] : x \in T} = {}
      BY <2>1
    <3> QED
      BY <3>1, FS_EmptySet
  <2>2. ASSUME NEW y \in T
        PROVE  T \in G
    <3>1. IsFiniteSet({h[x] : x \in T \ {y}})
      BY <1>1
    <3>2. {h[x] : x \in T} = {h[x] : x \in T \ {y}} \cup {h[y]}
      OBVIOUS
    <3>3. IsFiniteSet({h[x] : x \in T \ {y}} \cup {h[y]})
      <4> DEFINE rest == {h[x] : x \in T \ {y}}
      <4> HIDE DEF rest
      <4> QED
        BY <3>1, FS_AddElement DEF rest
    <3> QED
      BY <3>2, <3>3, Zenon
  <2> QED
    BY <2>1, <2>2
<1>2. S \in G
  <2> HIDE DEF G
  <2> QED
    BY <1>1, FiniteInduction
<1> QED
  BY <1>2

-----------------------------------------------------------------------------
(* The sum is well defined.                                                *)

\* The element that the sum takes off first, and the function that the sum
\* over S is defined by: the sums over the subsets of S.
Chosen(s) == CHOOSE x \in s : TRUE

IsSum(it, f, S) == it = [s \in SUBSET S |-> IF s = {} THEN 0 ELSE f[Chosen(s)] + it[s \ {Chosen(s)}]]

\* There is such a function: if it exists for subsets of n elements it does for
\* those of n + 1.
LEMMA SumExists ==
  ASSUME NEW S, IsFiniteSet(S), NEW f
  PROVE  \E it : IsSum(it, f, S)
<1> DEFINE Upto(n) == {s \in SUBSET S : Cardinality(s) <= n}
           Def(n, it) == it = [s \in Upto(n) |-> IF s = {} THEN 0 ELSE f[Chosen(s)] + it[s \ {Chosen(s)}]]
           Missing == {n \in Nat : \A it : ~ Def(n, it)}
<1>1. \A s \in SUBSET S : IsFiniteSet(s) /\ Cardinality(s) \in Nat /\ Cardinality(s) <= Cardinality(S)
  BY FS_Subset, FS_CardinalityType
<1>2. \A s \in SUBSET S : s # {} => /\ Chosen(s) \in s
                                    /\ Cardinality(s \ {Chosen(s)}) = Cardinality(s) - 1
  BY <1>1, FS_RemoveElement DEF Chosen
<1>3. 0 \notin Missing
  <2>1. \A s \in Upto(0) : s = {}
    BY <1>1, FS_EmptySet
  <2>2. Def(0, [s \in Upto(0) |-> 0])
    BY <2>1
  <2> HIDE DEF Def
  <2> QED
    BY <2>2
<1>4. ASSUME NEW n \in Nat, n \notin Missing
      PROVE  n + 1 \notin Missing
  <2>1. PICK it : Def(n, it)
    BY <1>4
  <2> DEFINE more == [s \in Upto(n + 1) |-> IF s = {} THEN 0 ELSE f[Chosen(s)] + it[s \ {Chosen(s)}]]
  <2>2. \A s \in Upto(n) : s \in Upto(n + 1) /\ more[s] = it[s]
    <3>1. \A s \in Upto(n) : s \in Upto(n + 1)
      BY <1>1
    <3>2. \A s \in Upto(n) : it[s] = IF s = {} THEN 0 ELSE f[Chosen(s)] + it[s \ {Chosen(s)}]
      <4> HIDE DEF Upto
      <4> QED
        BY <2>1
    <3> HIDE DEF Upto
    <3> QED
      BY <3>1, <3>2
  <2>3. \A s \in Upto(n + 1) : s # {} => s \ {Chosen(s)} \in Upto(n)
    BY <1>1, <1>2
  <2>4. \A s \in Upto(n + 1) : s # {} => more[s \ {Chosen(s)}] = it[s \ {Chosen(s)}]
    <3> HIDE DEF more, Upto
    <3> QED
      BY <2>2, <2>3
  <2>5. more = [s \in Upto(n + 1) |-> IF s = {} THEN 0 ELSE f[Chosen(s)] + more[s \ {Chosen(s)}]]
    <3> HIDE DEF Upto
    <3>1. \A s \in Upto(n + 1) : more[s] = IF s = {} THEN 0 ELSE f[Chosen(s)] + it[s \ {Chosen(s)}]
      OBVIOUS
    <3>2. \A s \in Upto(n + 1) : more[s] = IF s = {} THEN 0 ELSE f[Chosen(s)] + more[s \ {Chosen(s)}]
      <4> HIDE DEF more
      <4> QED
        BY <2>4, <3>1
    <3>3. more = [s \in Upto(n + 1) |-> more[s]]
      OBVIOUS
    <3> HIDE DEF more
    <3> QED
      BY <3>2, <3>3, Zenon
  <2>6. Def(n + 1, more)
    <3> HIDE DEF more, Upto
    <3> QED
      BY <2>5
  <2> HIDE DEF more, Def
  <2> QED
    BY <2>6
<1>5. Missing = {}
  <2>1. Missing \subseteq Nat
    OBVIOUS
  <2> HIDE DEF Missing
  <2> SUFFICES ASSUME Missing # {} PROVE FALSE
    OBVIOUS
  <2>2. PICK i \in Missing : \A k \in Missing : i <= k
    BY <2>1, LeastExists
  <2>3. i # 0 /\ i \in Nat
    BY <1>3, <2>1
  <2>4. i - 1 \in Nat /\ i - 1 \notin Missing
    BY <2>2, <2>3
  <2>5. (i - 1) + 1 \notin Missing
    BY <1>4, <2>4
  <2> QED
    BY <2>3, <2>5
<1>6. Upto(Cardinality(S)) = SUBSET S /\ Cardinality(S) \in Nat
  BY <1>1
<1>7. PICK it : Def(Cardinality(S), it)
  <2> HIDE DEF Def
  <2> QED
    BY <1>5, <1>6, Zenon
<1>8. IsSum(it, f, S)
  BY <1>6, <1>7, Zenon DEF IsSum
<1> QED
  BY <1>8

\* The sum is its value at S.
LEMMA SumUnfolds ==
  ASSUME NEW S, IsFiniteSet(S), NEW f
  PROVE  \E it : IsSum(it, f, S) /\ SumFunctionOnSet(f, S) = it[S]
<1> DEFINE it == CHOOSE iter : IsSum(iter, f, S)
<1>1. IsSum(it, f, S)
  BY SumExists
<1>2. SumFunctionOnSet(f, S) = it[S]
  BY Zenon DEF SumFunctionOnSet, FoldFunctionOnSet, MapThenFoldSet, IsSum, Chosen
<1> QED
  BY <1>1, <1>2

\* Two such functions agree where their values do, whatever sets they are for.
LEMMA SumAgrees ==
  ASSUME NEW S, IsFiniteSet(S), NEW T \in SUBSET S, NEW f, NEW g,
         \A x \in T : f[x] = g[x], NEW it, IsSum(it, f, S), NEW ir, IsSum(ir, g, T)
  PROVE  it[T] = ir[T]
<1> DEFINE G == {s \in SUBSET T : it[s] = ir[s]}
<1>1. IsFiniteSet(T)
  BY FS_Subset
<1>2. ASSUME NEW s \in SUBSET T, \A x \in s : s \ {x} \in G
      PROVE  s \in G
  <2>1. it[s] = IF s = {} THEN 0 ELSE f[Chosen(s)] + it[s \ {Chosen(s)}]
    BY DEF IsSum
  <2>2. ir[s] = IF s = {} THEN 0 ELSE g[Chosen(s)] + ir[s \ {Chosen(s)}]
    BY DEF IsSum
  <2>3. s # {} => Chosen(s) \in s
    BY DEF Chosen
  <2>4. s # {} => it[s \ {Chosen(s)}] = ir[s \ {Chosen(s)}] /\ f[Chosen(s)] = g[Chosen(s)]
    BY <1>2, <2>3
  <2> QED
    BY <2>1, <2>2, <2>4
<1>3. T \in G
  <2> HIDE DEF G
  <2> QED
    BY <1>1, <1>2, FiniteInduction
<1> QED
  BY <1>3

-----------------------------------------------------------------------------
(* What holds of it.                                                       *)

\* The sum over no element is zero.
LEMMA SumEmpty ==
  ASSUME NEW f
  PROVE  SumFunctionOnSet(f, {}) = 0
<1>1. IsFiniteSet({})
  BY FS_EmptySet
<1>2. PICK it : IsSum(it, f, {}) /\ SumFunctionOnSet(f, {}) = it[{}]
  BY <1>1, SumUnfolds
<1> QED
  BY <1>2 DEF IsSum

\* A sum depends on the values that it adds alone.
LEMMA SumSame ==
  ASSUME NEW S, IsFiniteSet(S), NEW f, NEW g, \A x \in S : f[x] = g[x]
  PROVE  SumFunctionOnSet(f, S) = SumFunctionOnSet(g, S)
<1>1. PICK it : IsSum(it, f, S) /\ SumFunctionOnSet(f, S) = it[S]
  BY SumUnfolds
<1>2. PICK ir : IsSum(ir, g, S) /\ SumFunctionOnSet(g, S) = ir[S]
  BY SumUnfolds
<1>3. it[S] = ir[S]
  BY <1>1, <1>2, SumAgrees
<1> QED
  BY <1>1, <1>2, <1>3

\* The element taken off first, and the rest.
LEMMA SumChosen ==
  ASSUME NEW S, IsFiniteSet(S), S # {}, NEW f
  PROVE  /\ Chosen(S) \in S
         /\ SumFunctionOnSet(f, S) = f[Chosen(S)] + SumFunctionOnSet(f, S \ {Chosen(S)})
<1> DEFINE T == S \ {Chosen(S)}
<1>1. Chosen(S) \in S
  BY DEF Chosen
<1>2. T \in SUBSET S /\ IsFiniteSet(T)
  BY FS_Subset
<1>3. PICK it : IsSum(it, f, S) /\ SumFunctionOnSet(f, S) = it[S]
  BY SumUnfolds
<1>4. PICK ir : IsSum(ir, f, T) /\ SumFunctionOnSet(f, T) = ir[T]
  BY <1>2, SumUnfolds
<1>5. it[T] = ir[T]
  <2> HIDE DEF T
  <2> QED
    BY <1>2, <1>3, <1>4, SumAgrees
<1>6. it[S] = f[Chosen(S)] + it[T]
  BY <1>3 DEF IsSum
<1> QED
  BY <1>1, <1>3, <1>4, <1>5, <1>6

\* A sum of integers is one, and of naturals too.
LEMMA SumType ==
  ASSUME NEW S, IsFiniteSet(S), NEW f
  PROVE  /\ (\A x \in S : f[x] \in Int) => SumFunctionOnSet(f, S) \in Int
         /\ (\A x \in S : f[x] \in Nat) => SumFunctionOnSet(f, S) \in Nat
<1> DEFINE G(N) == {T \in SUBSET S : SumFunctionOnSet(f, T) \in N}
<1>1. ASSUME NEW N \in {Int, Nat}, \A x \in S : f[x] \in N
      PROVE  S \in G(N)
  <2>1. ASSUME NEW T \in SUBSET S, \A x \in T : T \ {x} \in G(N)
        PROVE  T \in G(N)
    <3>1. CASE T = {}
      BY <3>1, SumEmpty
    <3>2. CASE T # {}
      <4>1. /\ Chosen(T) \in T
            /\ SumFunctionOnSet(f, T) = f[Chosen(T)] + SumFunctionOnSet(f, T \ {Chosen(T)})
        <5>1. IsFiniteSet(T)
          BY FS_Subset
        <5> QED
          BY <3>2, <5>1, SumChosen
      <4>2. f[Chosen(T)] \in N /\ SumFunctionOnSet(f, T \ {Chosen(T)}) \in N
        BY <1>1, <2>1, <4>1
      <4>3. \A a, b \in N : a + b \in N
        OBVIOUS
      <4> QED
        BY <4>1, <4>2, <4>3
    <3> QED
      BY <3>1, <3>2
  <2> HIDE DEF G
  <2> QED
    BY <2>1, FiniteInduction
<1> QED
  BY <1>1

\* The elements may be added in any order.
LEMMA SumRemove ==
  ASSUME NEW S, IsFiniteSet(S), NEW f, \A x \in S : f[x] \in Int, NEW y \in S
  PROVE  SumFunctionOnSet(f, S) = f[y] + SumFunctionOnSet(f, S \ {y})
<1> DEFINE Sum(T) == SumFunctionOnSet(f, T)
           G == {T \in SUBSET S : \A x \in T : Sum(T) = f[x] + Sum(T \ {x})}
<1>1. ASSUME NEW T \in SUBSET S, \A x \in T : T \ {x} \in G
      PROVE  T \in G
  <2> SUFFICES ASSUME NEW x \in T
               PROVE  Sum(T) = f[x] + Sum(T \ {x})
    OBVIOUS
  <2> DEFINE c == Chosen(T)
  <2>1. IsFiniteSet(T)
    BY FS_Subset
  <2>2. c \in T /\ Sum(T) = f[c] + Sum(T \ {c})
    BY <2>1, SumChosen
  <2>3. CASE c = x
    BY <2>2, <2>3
  <2>4. CASE c # x
    <3>1. Sum(T \ {c}) = f[x] + Sum((T \ {c}) \ {x})
      BY <1>1, <2>2, <2>4
    <3>2. Sum(T \ {x}) = f[c] + Sum((T \ {x}) \ {c})
      BY <1>1, <2>2, <2>4
    <3>3. (T \ {c}) \ {x} = (T \ {x}) \ {c}
      OBVIOUS
    <3>4. Sum((T \ {c}) \ {x}) \in Int
      <4>1. IsFiniteSet((T \ {c}) \ {x})
        BY <2>1, FS_Subset
      <4> QED
        BY <4>1, SumType
    <3>5. f[c] \in Int /\ f[x] \in Int
      BY <2>2
    <3>6. Sum(T) = f[c] + (f[x] + Sum((T \ {c}) \ {x}))
      BY <2>2, <3>1
    <3>7. f[x] + Sum(T \ {x}) = f[x] + (f[c] + Sum((T \ {c}) \ {x}))
      BY <3>2, <3>3
    <3> HIDE DEF Sum, c
    <3> QED
      BY <3>4, <3>5, <3>6, <3>7
  <2> QED
    BY <2>3, <2>4
<1>2. S \in G
  <2> HIDE DEF G
  <2> QED
    BY <1>1, FiniteInduction
<1> QED
  BY <1>2

\* One element more adds its value.
LEMMA SumAdd ==
  ASSUME NEW S, IsFiniteSet(S), NEW y, y \notin S, NEW f, \A x \in S \cup {y} : f[x] \in Int
  PROVE  SumFunctionOnSet(f, S \cup {y}) = f[y] + SumFunctionOnSet(f, S)
<1>1. IsFiniteSet(S \cup {y})
  BY FS_AddElement
<1>2. (S \cup {y}) \ {y} = S
  OBVIOUS
<1> QED
  BY <1>1, <1>2, SumRemove

\* Two disjoint sets add up.
LEMMA SumUnion ==
  ASSUME NEW S, IsFiniteSet(S), NEW T, IsFiniteSet(T), S \cap T = {}, NEW f, \A x \in S \cup T : f[x] \in Int
  PROVE  SumFunctionOnSet(f, S \cup T) = SumFunctionOnSet(f, S) + SumFunctionOnSet(f, T)
<1> DEFINE Sum(U) == SumFunctionOnSet(f, U)
           G == {U \in SUBSET S : Sum(U \cup T) = Sum(U) + Sum(T)}
<1>0. Sum(T) \in Int
  BY SumType
<1>1. ASSUME NEW U \in SUBSET S, \A x \in U : U \ {x} \in G
      PROVE  U \in G
  <2>0. IsFiniteSet(U) /\ IsFiniteSet(U \cup T)
    <3>1. IsFiniteSet(U)
      BY FS_Subset
    <3> QED
      BY <3>1, FS_Union
  <2>1. CASE U = {}
    <3>1. U \cup T = T
      BY <2>1
    <3>2. Sum(U) = 0
      BY <2>1, SumEmpty
    <3>3. Sum(U \cup T) = Sum(T) /\ Sum(T) = Sum(U) + Sum(T)
      <4> HIDE DEF Sum
      <4> QED
        BY <1>0, <3>1, <3>2
    <3> HIDE DEF Sum
    <3> QED
      BY <3>3
  <2>2. ASSUME NEW x \in U
        PROVE U \in G
    <3>1. Sum(U) = f[x] + Sum(U \ {x})
      BY <2>0, SumRemove
    <3>2. Sum(U \cup T) = f[x] + Sum((U \cup T) \ {x})
      BY <2>0, SumRemove
    <3>3. (U \cup T) \ {x} = (U \ {x}) \cup T
      OBVIOUS
    <3>4. Sum((U \ {x}) \cup T) = Sum(U \ {x}) + Sum(T)
      BY <1>1
    <3>5. Sum(U \ {x}) \in Int /\ f[x] \in Int
      <4>1. IsFiniteSet(U \ {x})
        BY <2>0, FS_Subset
      <4> QED
        BY <4>1, SumType
    <3>6. Sum(U \cup T) = f[x] + (Sum(U \ {x}) + Sum(T))
      BY <3>2, <3>3, <3>4
    <3>7. Sum(U) + Sum(T) = (f[x] + Sum(U \ {x})) + Sum(T)
      BY <3>1
    <3>8. Sum(U \cup T) = Sum(U) + Sum(T)
      <4> HIDE DEF Sum
      <4> QED
        BY <1>0, <3>5, <3>6, <3>7
    <3> QED
      BY <3>8
  <2> QED
    BY <2>1, <2>2
<1>2. S \in G
  <2> HIDE DEF G
  <2> QED
    BY <1>1, FiniteInduction
<1> QED
  BY <1>2

\* Larger values make a larger sum.
LEMMA SumMonotone ==
  ASSUME NEW S, IsFiniteSet(S), NEW f, NEW g,
         \A x \in S : f[x] \in Int /\ g[x] \in Int /\ f[x] <= g[x]
  PROVE  SumFunctionOnSet(f, S) <= SumFunctionOnSet(g, S)
<1> DEFINE G == {T \in SUBSET S : SumFunctionOnSet(f, T) <= SumFunctionOnSet(g, T)}
<1>1. ASSUME NEW T \in SUBSET S, \A x \in T : T \ {x} \in G
      PROVE  T \in G
  <2>0. IsFiniteSet(T)
    BY FS_Subset
  <2>1. CASE T = {}
    BY <2>1, SumEmpty
  <2>2. ASSUME NEW x \in T
        PROVE T \in G
    <3>1. SumFunctionOnSet(f, T) = f[x] + SumFunctionOnSet(f, T \ {x})
      BY <2>0, SumRemove
    <3>2. SumFunctionOnSet(g, T) = g[x] + SumFunctionOnSet(g, T \ {x})
      BY <2>0, SumRemove
    <3>3. SumFunctionOnSet(f, T \ {x}) \in Int /\ SumFunctionOnSet(g, T \ {x}) \in Int
      <4>1. IsFiniteSet(T \ {x})
        BY <2>0, FS_Subset
      <4> QED
        BY <4>1, SumType
    <3>4. SumFunctionOnSet(f, T \ {x}) <= SumFunctionOnSet(g, T \ {x})
      BY <1>1
    <3>5. f[x] \in Int /\ g[x] \in Int /\ f[x] <= g[x]
      OBVIOUS
    <3> QED
      BY <3>1, <3>2, <3>3, <3>4, <3>5
  <2> QED
    BY <2>1, <2>2
<1>2. S \in G
  <2> HIDE DEF G
  <2> QED
    BY <1>1, FiniteInduction
<1> QED
  BY <1>2

\* A sum follows the value that changes.
LEMMA SumUpdate ==
  ASSUME NEW S, IsFiniteSet(S), NEW f, NEW y \in S, NEW g, \A x \in S : f[x] \in Int /\ g[x] \in Int,
         \A x \in S \ {y} : g[x] = f[x]
  PROVE  SumFunctionOnSet(g, S) = SumFunctionOnSet(f, S) + g[y] - f[y]
<1>1. IsFiniteSet(S \ {y})
  BY FS_Subset
<1>2. SumFunctionOnSet(f, S) = f[y] + SumFunctionOnSet(f, S \ {y})
  BY SumRemove
<1>3. SumFunctionOnSet(g, S) = g[y] + SumFunctionOnSet(g, S \ {y})
  BY SumRemove
<1>4. SumFunctionOnSet(f, S \ {y}) = SumFunctionOnSet(g, S \ {y})
  BY <1>1, SumSame
<1>5. SumFunctionOnSet(f, S \ {y}) \in Int
  BY <1>1, SumType
<1> QED
  BY <1>2, <1>3, <1>4, <1>5

\* Elements of value zero do not count.
LEMMA SumSupport ==
  ASSUME NEW S, IsFiniteSet(S), NEW T \in SUBSET S, NEW f, \A x \in S : f[x] \in Int,
         \A x \in S \ T : f[x] = 0
  PROVE  SumFunctionOnSet(f, S) = SumFunctionOnSet(f, T)
<1> DEFINE rest == S \ T
           G == {U \in SUBSET rest : SumFunctionOnSet(f, U) = 0}
<1>1. IsFiniteSet(T) /\ IsFiniteSet(rest) /\ T \cap rest = {} /\ T \cup rest = S
  BY FS_Subset
<1>2. ASSUME NEW U \in SUBSET rest, \A x \in U : U \ {x} \in G
      PROVE  U \in G
  <2>1. CASE U = {}
    BY <2>1, SumEmpty
  <2>2. ASSUME NEW x \in U
        PROVE U \in G
    <3>1. IsFiniteSet(U)
      BY <1>1, FS_Subset
    <3>2. SumFunctionOnSet(f, U) = f[x] + SumFunctionOnSet(f, U \ {x})
      BY <3>1, SumRemove
    <3>3. f[x] = 0 /\ SumFunctionOnSet(f, U \ {x}) = 0
      BY <1>2
    <3> QED
      BY <3>2, <3>3
  <2> QED
    BY <2>1, <2>2
<1>3. rest \in G
  <2> HIDE DEF G, rest
  <2> QED
    BY <1>1, <1>2, FiniteInduction
<1>4. SumFunctionOnSet(f, S) = SumFunctionOnSet(f, T) + SumFunctionOnSet(f, rest)
  <2> HIDE DEF rest
  <2> QED
    BY <1>1, SumUnion
<1>5. SumFunctionOnSet(f, T) \in Int
  BY <1>1, SumType
<1> QED
  BY <1>3, <1>4, <1>5

\* A sum may be taken over the images of its elements, if they differ.
LEMMA SumImage ==
  ASSUME NEW S, IsFiniteSet(S), NEW h, \A x, y \in S : h[x] = h[y] => x = y,
         NEW f, NEW g, \A x \in S : f[h[x]] = g[x] /\ g[x] \in Int
  PROVE  SumFunctionOnSet(f, {h[x] : x \in S}) = SumFunctionOnSet(g, S)
<1> DEFINE Image(T) == {h[x] : x \in T}
           G == {T \in SUBSET S : SumFunctionOnSet(f, Image(T)) = SumFunctionOnSet(g, T)}
<1>1. ASSUME NEW T \in SUBSET S, \A x \in T : T \ {x} \in G
      PROVE  T \in G
  <2>1. CASE T = {}
    <3>1. Image(T) = {}
      BY <2>1
    <3> QED
      BY <2>1, <3>1, SumEmpty
  <2>2. ASSUME NEW y \in T
        PROVE  T \in G
    <3> DEFINE rest == T \ {y}
    <3>1. IsFiniteSet(T) /\ IsFiniteSet(rest)
      BY FS_Subset
    <3>2. IsFiniteSet(Image(rest))
      BY <3>1, FiniteImage
    <3>3. Image(T) = Image(rest) \cup {h[y]} /\ h[y] \notin Image(rest)
      OBVIOUS
    <3>4. \A z \in Image(rest) \cup {h[y]} : f[z] \in Int
      OBVIOUS
    <3>5. SumFunctionOnSet(f, Image(T)) = f[h[y]] + SumFunctionOnSet(f, Image(rest))
      <4> HIDE DEF Image
      <4> QED
        BY <3>2, <3>3, <3>4, SumAdd
    <3>6. SumFunctionOnSet(g, T) = g[y] + SumFunctionOnSet(g, rest)
      BY <3>1, SumRemove
    <3>7. SumFunctionOnSet(f, Image(rest)) = SumFunctionOnSet(g, rest)
      BY <1>1
    <3> QED
      BY <3>5, <3>6, <3>7
  <2> QED
    BY <2>1, <2>2
<1>2. S \in G
  <2> HIDE DEF G
  <2> QED
    BY <1>1, FiniteInduction
<1> QED
  BY <1>2

-----------------------------------------------------------------------------
(* Lists by key: the keys in a list, and that each is there once.  f maps  *)
(* what a list holds to its key.                                           *)

Keys(s, f) == {f[s[i]] : i \in DOMAIN s}
Single(s, f) == \A i, k \in DOMAIN s : f[s[i]] = f[s[k]] => i = k

\* An entry with a new key, added last.
LEMMA AppendKeys ==
  ASSUME NEW S, NEW s \in Seq(S), NEW e \in S, NEW f
  PROVE  /\ Append(s, e) \in Seq(S) /\ Keys(Append(s, e), f) = Keys(s, f) \cup {f[e]}
         /\ Single(s, f) /\ f[e] \notin Keys(s, f) => Single(Append(s, e), f)
<1> DEFINE t == Append(s, e)
           n == Len(s)
<1>1. /\ t \in Seq(S) /\ n \in Nat /\ DOMAIN s = 1..n /\ DOMAIN t = 1..(n + 1)
      /\ t[n + 1] = e /\ \A i \in 1..n : t[i] = s[i]
  BY AppendProperties, LenProperties
<1> HIDE DEF t, n
<1>2. Keys(t, f) = Keys(s, f) \cup {f[e]}
  <2>1. \A i \in 1..(n + 1) : i = n + 1 \/ i \in 1..n
    BY <1>1
  <2>2. n + 1 \in 1..(n + 1) /\ \A i \in 1..n : i \in 1..(n + 1)
    BY <1>1
  <2> QED BY <1>1, <2>1, <2>2 DEF Keys
<1>3. ASSUME Single(s, f), f[e] \notin Keys(s, f) PROVE Single(t, f)
  <2>1. \A i \in 1..(n + 1) : i = n + 1 \/ i \in 1..n
    BY <1>1
  <2> QED BY <1>1, <1>3, <2>1 DEF Keys, Single
<1> QED BY <1>1, <1>2, <1>3 DEF t

\* An entry with a new key, put first.
LEMMA ConsKeys ==
  ASSUME NEW S, NEW s \in Seq(S), NEW e \in S, NEW f
  PROVE  /\ <<e>> \o s \in Seq(S) /\ Keys(<<e>> \o s, f) = Keys(s, f) \cup {f[e]}
         /\ Single(s, f) /\ f[e] \notin Keys(s, f) => Single(<<e>> \o s, f)
<1> DEFINE t == <<e>> \o s
           n == Len(s)
<1>1. /\ t \in Seq(S) /\ n \in Nat /\ DOMAIN s = 1..n /\ DOMAIN t = 1..(n + 1)
      /\ t[1] = e /\ \A i \in 1..n : t[i + 1] = s[i]
  <2>1. <<e>> \in Seq(S) /\ Len(<<e>>) = 1 /\ <<e>>[1] = e
    OBVIOUS
  <2>2. /\ t \in Seq(S) /\ Len(t) = 1 + n
        /\ \A i \in 1..(1 + n) : t[i] = IF i <= 1 THEN <<e>>[i] ELSE s[i - 1]
    BY <2>1, ConcatProperties
  <2>3. n \in Nat /\ DOMAIN s = 1..n /\ DOMAIN t = 1..Len(t)
    BY <2>2, LenProperties
  <2> HIDE DEF t, n
  <2> QED BY <2>1, <2>2, <2>3
<1> HIDE DEF t, n
<1>2. \A i \in 1..(n + 1) : i = 1 \/ (i - 1 \in 1..n /\ t[i] = s[i - 1])
  <2> SUFFICES ASSUME NEW i \in 1..(n + 1), i # 1 PROVE i - 1 \in 1..n /\ t[i] = s[i - 1]
    OBVIOUS
  <2>1. i - 1 \in 1..n /\ (i - 1) + 1 = i
    BY <1>1
  <2> QED BY <1>1, <2>1
<1>3. 1 \in 1..(n + 1) /\ \A i \in 1..n : i + 1 \in 1..(n + 1)
  BY <1>1
<1>4. Keys(t, f) = Keys(s, f) \cup {f[e]}
  <2>1. ASSUME NEW i \in 1..n PROVE f[s[i]] \in Keys(t, f)
    BY <1>1, <1>3 DEF Keys
  <2>2. ASSUME NEW i \in 1..(n + 1) PROVE f[t[i]] \in Keys(s, f) \cup {f[e]}
    BY <1>1, <1>2 DEF Keys
  <2>3. f[e] \in Keys(t, f)
    BY <1>1, <1>3 DEF Keys
  <2>4. \A x \in Keys(s, f) : x \in Keys(t, f)
    BY <1>1, <2>1 DEF Keys
  <2>5. \A x \in Keys(t, f) : x \in Keys(s, f) \cup {f[e]}
    BY <1>1, <2>2 DEF Keys
  <2> QED BY <2>3, <2>4, <2>5
<1>5. ASSUME Single(s, f), f[e] \notin Keys(s, f) PROVE Single(t, f)
  <2> SUFFICES ASSUME NEW i \in 1..(n + 1), NEW k \in 1..(n + 1), f[t[i]] = f[t[k]] PROVE i = k
    BY <1>1 DEF Single
  <2>0. ASSUME NEW x \in 1..(n + 1), x # 1 PROVE f[t[x]] # f[e]
    <3>1. x - 1 \in DOMAIN s /\ t[x] = s[x - 1]
      BY <1>1, <1>2, <2>0
    <3>2. f[t[x]] \in Keys(s, f)
      BY <3>1 DEF Keys
    <3> QED BY <1>5, <3>2
  <2>1. CASE i = 1 \/ k = 1
    BY <1>1, <2>0, <2>1
  <2>2. CASE i # 1 /\ k # 1
    <3>1. i - 1 \in 1..n /\ k - 1 \in 1..n /\ f[s[i - 1]] = f[s[k - 1]]
      BY <1>2, <2>2
    <3>2. i - 1 = k - 1
      BY <1>1, <1>5, <3>1 DEF Single
    <3> QED BY <1>1, <3>2
  <2> QED BY <2>1, <2>2
<1> QED BY <1>1, <1>4, <1>5 DEF t

\* The first entry, taken out.
LEMMA TailKeys ==
  ASSUME NEW S, NEW s \in Seq(S), s # <<>>, NEW f
  PROVE  /\ Tail(s) \in Seq(S) /\ Head(s) \in S
         /\ Keys(s, f) = Keys(Tail(s), f) \cup {f[Head(s)]}
         /\ Single(s, f) => Single(Tail(s), f) /\ f[Head(s)] \notin Keys(Tail(s), f)
<1> DEFINE t == Tail(s)
           n == Len(t)
<1>1. /\ t \in Seq(S) /\ Head(s) \in S /\ n \in Nat /\ DOMAIN t = 1..n /\ DOMAIN s = 1..(n + 1)
      /\ s[1] = Head(s) /\ \A i \in 1..n : s[i + 1] = t[i]
  BY HeadTailProperties, LenProperties, EmptySeq
<1> HIDE DEF t, n
<1>2. 1 \in 1..(n + 1) /\ \A i \in 1..n : i + 1 \in 1..(n + 1) /\ i + 1 # 1
  BY <1>1
<1>3. \A i \in 1..(n + 1) : i = 1 \/ (i - 1 \in 1..n /\ s[i] = t[i - 1])
  <2> SUFFICES ASSUME NEW i \in 1..(n + 1), i # 1 PROVE i - 1 \in 1..n /\ s[i] = t[i - 1]
    OBVIOUS
  <2>1. i - 1 \in 1..n /\ (i - 1) + 1 = i
    BY <1>1
  <2> QED BY <1>1, <2>1
<1>4. Keys(s, f) = Keys(t, f) \cup {f[Head(s)]}
  <2>1. ASSUME NEW i \in 1..n PROVE f[t[i]] \in Keys(s, f)
    BY <1>1, <1>2 DEF Keys
  <2>2. ASSUME NEW i \in 1..(n + 1) PROVE f[s[i]] \in Keys(t, f) \cup {f[Head(s)]}
    BY <1>1, <1>3 DEF Keys
  <2>3. f[Head(s)] \in Keys(s, f)
    BY <1>1, <1>2 DEF Keys
  <2>4. \A x \in Keys(t, f) : x \in Keys(s, f)
    BY <1>1, <2>1 DEF Keys
  <2>5. \A x \in Keys(s, f) : x \in Keys(t, f) \cup {f[Head(s)]}
    BY <1>1, <2>2 DEF Keys
  <2> QED BY <2>3, <2>4, <2>5
<1>5. ASSUME Single(s, f) PROVE Single(t, f) /\ f[Head(s)] \notin Keys(t, f)
  <2>1. ASSUME NEW i \in 1..n, NEW k \in 1..n, f[t[i]] = f[t[k]] PROVE i = k
    <3>1. i + 1 \in DOMAIN s /\ k + 1 \in DOMAIN s /\ f[s[i + 1]] = f[s[k + 1]]
      BY <1>1, <1>2, <2>1
    <3>2. i + 1 = k + 1
      BY <1>5, <3>1 DEF Single
    <3> QED BY <1>1, <3>2
  <2>2. ASSUME NEW i \in 1..n PROVE f[Head(s)] # f[t[i]]
    BY <1>1, <1>2, <1>5 DEF Single
  <2> QED BY <1>1, <2>1, <2>2 DEF Keys, Single
<1> QED BY <1>1, <1>4, <1>5 DEF t

\* An entry replaced by one with a new key.
LEMMA ReplaceKeys ==
  ASSUME NEW S, NEW s \in Seq(S), NEW n \in DOMAIN s, NEW e \in S, NEW f,
         Single(s, f), f[e] \notin Keys(s, f)
  PROVE  LET t == [s EXCEPT ![n] = e]
         IN  /\ t \in Seq(S) /\ Single(t, f) /\ f[e] \in Keys(t, f)
             /\ f[s[n]] \in Keys(s, f) /\ f[s[n]] \notin Keys(t, f)
             /\ \A x \in Keys(t, f) : x = f[e] \/ (x \in Keys(s, f) /\ x # f[s[n]])
             /\ \A x \in Keys(s, f) : x = f[s[n]] \/ x \in Keys(t, f)
<1> DEFINE t == [s EXCEPT ![n] = e]
<1>1. /\ t \in Seq(S) /\ DOMAIN t = DOMAIN s /\ t[n] = e
      /\ \A i \in DOMAIN s : i # n => t[i] = s[i]
  BY ExceptSeq, LenProperties, ElementOfSeq
<1> HIDE DEF t
<1>2. Single(t, f) /\ f[s[n]] \notin Keys(t, f)
  BY <1>1 DEF Keys, Single
<1>3. \A x \in Keys(t, f) : x = f[e] \/ (x \in Keys(s, f) /\ x # f[s[n]])
  BY <1>1 DEF Keys, Single
<1>4. /\ \A x \in Keys(s, f) : x = f[s[n]] \/ x \in Keys(t, f)
      /\ f[e] \in Keys(t, f) /\ f[s[n]] \in Keys(s, f)
  BY <1>1 DEF Keys
<1> QED BY <1>1, <1>2, <1>3, <1>4 DEF t

\* What is left of a list without its n-th, place by place.
LEMMA RemoveAtPlaces ==
  ASSUME NEW S, NEW s \in Seq(S), NEW n \in DOMAIN s
  PROVE  /\ RemoveAt(s, n) \in Seq(S) /\ DOMAIN s = 1..Len(s) /\ Len(s) \in Nat \ {0}
         /\ DOMAIN RemoveAt(s, n) = 1..(Len(s) - 1)
         /\ \A i \in 1..(Len(s) - 1) : RemoveAt(s, n)[i] = s[IF i < n THEN i ELSE i + 1]
<1> DEFINE m == Len(s)
           a == SubSeq(s, 1, n - 1)
           b == SubSeq(s, n + 1, m)
<1>1. m \in Nat /\ DOMAIN s = 1..m /\ n \in 1..m
  BY LenProperties
<1>2. \A i \in 1..m : s[i] \in S
  BY ElementOfSeq
<1>3. n \in Int /\ m \in Int /\ n - 1 \in Int /\ n + 1 \in Int
  BY <1>1
<1> HIDE DEF m
<1>4. /\ a \in Seq(S) /\ Len(a) = n - 1
      /\ \A i \in 1..(n - 1) : a[i] = s[i]
  <2>1. \A i \in 1..(n - 1) : s[i] \in S
    BY <1>1, <1>2
  <2>2. /\ a \in Seq(S) /\ Len(a) = IF 1 <= n - 1 THEN (n - 1) - 1 + 1 ELSE 0
        /\ \A i \in 1..((n - 1) - 1 + 1) : a[i] = s[1 + i - 1]
    BY <1>3, <2>1, SubSeqProperties
  <2>3. (n - 1) - 1 + 1 = n - 1 /\ \A i \in 1..(n - 1) : 1 + i - 1 = i
    BY <1>1
  <2> HIDE DEF a
  <2> QED BY <1>1, <2>2, <2>3
<1>5. /\ b \in Seq(S) /\ Len(b) = m - n
      /\ \A i \in 1..(m - n) : b[i] = s[n + i]
  <2>1. \A i \in (n + 1)..m : s[i] \in S
    BY <1>1, <1>2
  <2>2. /\ b \in Seq(S) /\ Len(b) = IF n + 1 <= m THEN m - (n + 1) + 1 ELSE 0
        /\ \A i \in 1..(m - (n + 1) + 1) : b[i] = s[(n + 1) + i - 1]
    BY <1>3, <2>1, SubSeqProperties
  <2>3. m - (n + 1) + 1 = m - n /\ \A i \in 1..(m - n) : (n + 1) + i - 1 = n + i
    BY <1>1
  <2> HIDE DEF b
  <2> QED BY <1>1, <2>2, <2>3
<1> HIDE DEF a, b
<1>6. /\ a \o b \in Seq(S) /\ Len(a \o b) = m - 1
      /\ \A i \in 1..(m - 1) : (a \o b)[i] = IF i <= n - 1 THEN a[i] ELSE b[i - (n - 1)]
  <2>1. /\ a \o b \in Seq(S) /\ Len(a \o b) = Len(a) + Len(b)
        /\ \A i \in 1..(Len(a) + Len(b)) : (a \o b)[i] = IF i <= Len(a) THEN a[i] ELSE b[i - Len(a)]
    BY <1>4, <1>5, ConcatProperties
  <2>2. Len(a) + Len(b) = m - 1
    BY <1>1, <1>4, <1>5
  <2> QED BY <1>4, <2>1, <2>2
<1>7. \A i \in 1..(m - 1) : (a \o b)[i] = s[IF i < n THEN i ELSE i + 1]
  <2> SUFFICES ASSUME NEW i \in 1..(m - 1) PROVE (a \o b)[i] = s[IF i < n THEN i ELSE i + 1]
    OBVIOUS
  <2>1. CASE i < n
    <3>1. i <= n - 1 /\ i \in 1..(n - 1)
      BY <1>1, <2>1
    <3> QED BY <1>4, <1>6, <2>1, <3>1
  <2>2. CASE ~(i < n)
    <3>1. ~(i <= n - 1) /\ i - (n - 1) \in 1..(m - n) /\ n + (i - (n - 1)) = i + 1
      BY <1>1, <2>2
    <3> QED BY <1>5, <1>6, <2>2, <3>1
  <2> QED BY <2>1, <2>2
<1>8. RemoveAt(s, n) = a \o b
  BY DEF RemoveAt, a, b, m
<1>9. DOMAIN (a \o b) = 1..(m - 1)
  BY <1>6, LenProperties
<1>10. m \in Nat \ {0}
  BY <1>1
<1> QED BY <1>1, <1>6, <1>7, <1>8, <1>9, <1>10, Zenon DEF m

\* An entry taken out anywhere.
LEMMA RemoveKeys ==
  ASSUME NEW S, NEW s \in Seq(S), NEW n \in DOMAIN s, NEW f
  PROVE  /\ RemoveAt(s, n) \in Seq(S) /\ s[n] \in S
         /\ Keys(s, f) = Keys(RemoveAt(s, n), f) \cup {f[s[n]]}
         /\ Single(s, f) => Single(RemoveAt(s, n), f) /\ f[s[n]] \notin Keys(RemoveAt(s, n), f)
<1> DEFINE t == RemoveAt(s, n)
           m == Len(s)
           at(i) == IF i < n THEN i ELSE i + 1
<1>1. /\ t \in Seq(S) /\ DOMAIN s = 1..m /\ m \in Nat /\ n \in 1..m /\ s[n] \in S
      /\ DOMAIN t = 1..(m - 1)
      /\ \A i \in 1..(m - 1) : t[i] = s[at(i)]
  BY RemoveAtPlaces, ElementOfSeq
<1> HIDE DEF t, m
<1>2. /\ \A i \in 1..(m - 1) : at(i) \in 1..m /\ at(i) # n
      /\ \A i, k \in 1..(m - 1) : at(i) = at(k) => i = k
  BY <1>1
<1>3. \A i \in 1..m : i # n => \E k \in 1..(m - 1) : at(k) = i
  <2> SUFFICES ASSUME NEW i \in 1..m, i # n PROVE \E k \in 1..(m - 1) : at(k) = i
    OBVIOUS
  <2>1. CASE i < n
    BY <1>1, <2>1
  <2>2. CASE i > n
    <3>1. i - 1 \in 1..(m - 1) /\ at(i - 1) = i
      BY <1>1, <2>2
    <3> QED BY <3>1
  <2> QED BY <1>1, <2>1, <2>2
<1> HIDE DEF at
<1>4. Keys(s, f) = Keys(t, f) \cup {f[s[n]]}
  <2>1. ASSUME NEW i \in 1..m PROVE f[s[i]] \in Keys(t, f) \cup {f[s[n]]}
    <3>1. CASE i # n
      <4>1. PICK k \in 1..(m - 1) : at(k) = i
        BY <1>3, <3>1
      <4>2. t[k] = s[i] /\ k \in DOMAIN t
        BY <1>1, <4>1
      <4> QED BY <4>2 DEF Keys
    <3> QED BY <3>1
  <2>2. ASSUME NEW i \in 1..(m - 1) PROVE f[t[i]] \in Keys(s, f)
    BY <1>1, <1>2 DEF Keys
  <2> QED BY <1>1, <2>1, <2>2 DEF Keys
<1>5. ASSUME Single(s, f) PROVE Single(t, f) /\ f[s[n]] \notin Keys(t, f)
  <2>1. ASSUME NEW i \in 1..(m - 1), NEW k \in 1..(m - 1), f[t[i]] = f[t[k]] PROVE i = k
    BY <1>1, <1>2, <1>5, <2>1 DEF Single
  <2>2. ASSUME NEW i \in 1..(m - 1) PROVE f[s[n]] # f[t[i]]
    BY <1>1, <1>2, <1>5 DEF Single
  <2> QED BY <1>1, <2>1, <2>2 DEF Keys, Single
<1> QED BY <1>1, <1>4, <1>5 DEF t

=============================================================================
