---------------------------- MODULE DataInduction ----------------------------
(***************************************************************************)
(* Induction for the proofs of the project, in a form the provers can      *)
(* instantiate: the property to show is given as the set of the things     *)
(* that have it, and a step of a recursion as a function.  And what its    *)
(* recursions make of sequences.                                           *)
(***************************************************************************)
EXTENDS Integers, SequencesExt, Filters, FiniteSetTheorems, WellFoundedInduction, TLAPS

\* Every set of natural numbers has a least element.
LEMMA LeastNatural ==
    ASSUME NEW T \in SUBSET Nat, T # {}
    PROVE  \E n \in T : \A m \in T : n <= m
<1>1. PICK n \in T : \A m \in T : <<m, n>> \notin OpToRel(<, Nat)
  BY NatLessThanWellFounded, WFMin
<1>2. \A m \in T : ~(m < n)
  BY <1>1 DEF OpToRel
<1> QED
  BY <1>2

\* What holds of 0, and of n + 1 when it holds of n, holds of every number.
LEMMA NaturalInduction ==
    ASSUME NEW T, 0 \in T, \A n \in Nat : n \in T => n + 1 \in T
    PROVE  Nat \subseteq T
<1>1. SUFFICES ASSUME Nat \ T # {} PROVE FALSE
  OBVIOUS
<1>2. PICK n \in Nat \ T : \A m \in Nat \ T : n <= m
  BY <1>1, LeastNatural
<1>3. n # 0
  BY <1>2
<1>4. n - 1 \in Nat /\ n - 1 \in T
  BY <1>2, <1>3
<1> QED
  BY <1>2, <1>4

-----------------------------------------------------------------------------
\* f is the function that starts with `base` and goes on by `step`.
Recurs(f, base, step) == f[0] = base /\ \A n \in Nat : f[n + 1] = step[f[n]]

\* g is its first n + 1 values.
Approximates(g, n, base, step) ==
    g[0] = base /\ \A i \in 0..(n - 1) : g[i + 1] = step[g[i]]

\* A recursion on the natural numbers defines a function.
LEMMA PrimitiveRecursion ==
    ASSUME NEW S, NEW base \in S, NEW step \in [S -> S]
    PROVE  \E f \in [Nat -> S] : Recurs(f, base, step)
<1> DEFINE Good(n) == {g \in [0..n -> S] : Approximates(g, n, base, step)}
<1>1. \A n \in Nat : Good(n) # {}
  <2> DEFINE T == {n \in Nat : Good(n) # {}}
  <2>1. 0 \in T
    <3>1. [i \in 0..0 |-> base] \in Good(0)
      BY DEF Approximates
    <3> QED
      BY <3>1
  <2>2. ASSUME NEW n \in Nat, n \in T PROVE n + 1 \in T
    <3>1. PICK g \in Good(n) : TRUE
      BY <2>2
    <3> DEFINE h == [i \in 0..(n + 1) |-> IF i = n + 1 THEN step[g[n]] ELSE g[i]]
    <3>2. h \in [0..(n + 1) -> S]
      BY <3>1
    <3>3. h[0] = base
      BY <3>1 DEF Approximates
    <3>4. ASSUME NEW i \in 0..n PROVE h[i + 1] = step[h[i]]
      <4>1. CASE i = n
        BY <4>1
      <4>2. CASE i # n
        BY <4>2, <3>1 DEF Approximates
      <4> QED
        BY <4>1, <4>2
    <3>5. Approximates(h, n + 1, base, step)
      BY <3>3, <3>4 DEF Approximates
    <3>6. h \in Good(n + 1)
      BY <3>2, <3>5
    <3> HIDE DEF h
    <3> QED
      BY <3>6
  <2> HIDE DEF T
  <2>3. Nat \subseteq T
    BY <2>1, <2>2, NaturalInduction
  <2> QED
    BY <2>3 DEF T
<1>2. ASSUME NEW n \in Nat, NEW g \in Good(n), NEW h \in Good(n + 1)
      PROVE  \A i \in 0..n : h[i] = g[i]
  <2> DEFINE T == {i \in Nat : i \in 0..n => h[i] = g[i]}
  <2>1. 0 \in T
    BY <1>2 DEF Approximates
  <2>2. ASSUME NEW i \in Nat, i \in T PROVE i + 1 \in T
    BY <1>2, <2>2 DEF Approximates
  <2> HIDE DEF T
  <2>3. Nat \subseteq T
    BY <2>1, <2>2, NaturalInduction
  <2> QED
    BY <2>3 DEF T
<1> DEFINE pick == [n \in Nat |-> CHOOSE g \in Good(n) : TRUE]
           f == [n \in Nat |-> pick[n][n]]
<1>3. \A n \in Nat : pick[n] \in Good(n)
  BY <1>1
<1> HIDE DEF pick
<1>4. f \in [Nat -> S]
  BY <1>3
<1>5. f[0] = base
  BY <1>3 DEF Approximates
<1>6. ASSUME NEW n \in Nat PROVE f[n + 1] = step[f[n]]
  <2>1. pick[n + 1][n] = pick[n][n]
    BY <1>2, <1>3
  <2>2. pick[n + 1][n + 1] = step[pick[n + 1][n]]
    BY <1>3 DEF Approximates
  <2> QED
    BY <2>1, <2>2
<1> HIDE DEF f
<1> QED
  BY <1>4, <1>5, <1>6 DEF Recurs

-----------------------------------------------------------------------------
\* iter[s] is the sum of fun over s, for each s \subseteq S, as the community
\* modules define it: some element, and the sum of the others.
SumsUp(iter, fun, S) ==
    iter = [s \in SUBSET S |->
              IF s = {} THEN 0 ELSE LET x == CHOOSE x \in s : TRUE IN fun[x] + iter[s \ {x}]]

\* A set that has lost one of its elements.
LEMMA OneLess ==
    ASSUME NEW S, IsFiniteSet(S), NEW s \in SUBSET S, NEW n \in Nat, Cardinality(s) <= n + 1, s # {}
    PROVE  LET x == CHOOSE x \in s : TRUE
           IN  x \in S /\ x \in s /\ s \ {x} \in SUBSET S /\ Cardinality(s \ {x}) <= n
<1> DEFINE x == CHOOSE x \in s : TRUE
<1>1. x \in s
  OBVIOUS
<1> HIDE DEF x
<1>2. IsFiniteSet(s)
  BY FS_Subset
<1>3. Cardinality(s \ {x}) = Cardinality(s) - 1 /\ Cardinality(s) \in Nat
  BY <1>1, <1>2, FS_RemoveElement, FS_CardinalityType
<1>4. Cardinality(s \ {x}) <= n
  BY <1>3
<1>5. x \in S /\ s \ {x} \in SUBSET S
  BY <1>1
<1> QED
  BY <1>1, <1>4, <1>5 DEF x

\* A finite set of numbers has a sum: what rests on the first n elements is the same
\* from n on.
LEMMA SumExists ==
    ASSUME NEW S, IsFiniteSet(S), NEW fun, \A x \in S : fun[x] \in Int
    PROVE  \E iter \in [SUBSET S -> Int] : SumsUp(iter, fun, S)
<1> DEFINE G == [SUBSET S -> Int]
           next(g, s) == IF s = {} THEN 0
                         ELSE LET x == CHOOSE x \in s : TRUE IN fun[x] + g[s \ {x}]
           base == [s \in SUBSET S |-> 0]
           step == [g \in G |-> [s \in SUBSET S |-> next(g, s)]]
<1>1. base \in G
  OBVIOUS
<1>2. \A g \in G : [s \in SUBSET S |-> next(g, s)] \in G
  <2> SUFFICES ASSUME NEW g \in G, NEW s \in SUBSET S PROVE next(g, s) \in Int
    OBVIOUS
  <2>1. CASE s = {}
    BY <2>1
  <2>2. CASE s # {}
    <3> DEFINE x == CHOOSE x \in s : TRUE
    <3>1. x \in s
      BY <2>2
    <3>2. next(g, s) = fun[x] + g[s \ {x}]
      BY <2>2
    <3> HIDE DEF x, next
    <3>3. fun[x] \in Int /\ g[s \ {x}] \in Int
      BY <3>1
    <3> QED
      BY <3>2, <3>3
  <2> QED
    BY <2>1, <2>2
<1>3. step \in [G -> G]
  BY <1>2
<1>4. PICK f \in [Nat -> G] : Recurs(f, base, step)
  <2> HIDE DEF G, base, step
  <2> QED
    BY <1>1, <1>3, PrimitiveRecursion
<1>5. f[0] = base /\ \A n \in Nat : f[n] \in G /\ f[n + 1] = [s \in SUBSET S |-> next(f[n], s)]
  BY <1>4 DEF Recurs
<1> HIDE DEF base, step
<1>value. \A n \in Nat, s \in SUBSET S : f[n + 1][s] = next(f[n], s)
  <2> HIDE DEF next, G
  <2> QED
    BY <1>5
<1> DEFINE T == {n \in Nat : \A s \in SUBSET S : Cardinality(s) <= n => f[n][s] = f[n + 1][s]}
<1>6. 0 \in T
  <2> SUFFICES ASSUME NEW s \in SUBSET S, Cardinality(s) <= 0 PROVE f[0][s] = f[0 + 1][s]
    OBVIOUS
  <2>1. s = {}
    BY FS_Subset, FS_EmptySet, FS_CardinalityType
  <2>2. f[0][{}] = 0
    BY <1>5 DEF base
  <2>3. f[0 + 1][{}] = 0
    BY <1>5
  <2> QED
    BY <2>1, <2>2, <2>3
<1>7. ASSUME NEW n \in Nat, n \in T PROVE n + 1 \in T
  <2> SUFFICES ASSUME NEW s \in SUBSET S, Cardinality(s) <= n + 1
               PROVE  f[n + 1][s] = f[(n + 1) + 1][s]
    OBVIOUS
  <2>1. f[n + 1][s] = next(f[n], s) /\ f[(n + 1) + 1][s] = next(f[n + 1], s)
    <3> HIDE DEF next
    <3> QED
      BY <1>value
  <2>2. CASE s = {}
    BY <2>1, <2>2
  <2>3. CASE s # {}
    <3> DEFINE x == CHOOSE x \in s : TRUE
    <3>1. s \ {x} \in SUBSET S /\ Cardinality(s \ {x}) <= n
      BY <2>3, OneLess
    <3>2. next(f[n], s) = fun[x] + f[n][s \ {x}] /\ next(f[n + 1], s) = fun[x] + f[n + 1][s \ {x}]
      BY <2>3
    <3>3. f[n][s \ {x}] = f[n + 1][s \ {x}]
      BY <1>7, <3>1
    <3> QED
      BY <2>1, <3>2, <3>3
  <2> QED
    BY <2>2, <2>3
<1> HIDE DEF T
<1>8. Nat \subseteq T
  BY <1>6, <1>7, NaturalInduction
<1> DEFINE N == Cardinality(S)
<1>9. N \in Nat /\ \A s \in SUBSET S : Cardinality(s) <= N
  BY FS_CardinalityType, FS_Subset
<1>10. \A s \in SUBSET S : f[N][s] = next(f[N], s)
  <2> SUFFICES ASSUME NEW s \in SUBSET S PROVE f[N][s] = next(f[N], s)
    OBVIOUS
  <2>1. N \in T /\ Cardinality(s) <= N
    BY <1>8, <1>9
  <2> HIDE DEF next, N
  <2>2. f[N][s] = f[N + 1][s]
    BY <2>1 DEF T
  <2>3. f[N + 1][s] = next(f[N], s)
    BY <1>9, <1>value
  <2> QED
    BY <2>2, <2>3
<1>11. f[N] \in G
  BY <1>5, <1>9
<1>12. SumsUp(f[N], fun, S)
  BY <1>10, <1>11 DEF SumsUp
<1> QED
  BY <1>11, <1>12

(***************************************************************************)
(* A sum in which all terms but one are 0.                                 *)
(***************************************************************************)
LEMMA SumOfOne ==
    ASSUME NEW S, IsFiniteSet(S), NEW fun, NEW z,
           \A x \in S : fun[x] \in Int,
           \A x \in S \ {z} : fun[x] = 0
    PROVE  SumFunctionOnSet(fun, S) = IF z \in S THEN fun[z] ELSE 0
<1> DEFINE iter == CHOOSE iter : SumsUp(iter, fun, S)
<1>1. SumFunctionOnSet(fun, S) = iter[S]
  BY Zenon DEF SumFunctionOnSet, FoldFunctionOnSet, MapThenFoldSet, SumsUp
<1>2. SumsUp(iter, fun, S)
  BY SumExists, Zenon
<1> HIDE DEF iter
<1> DEFINE term(s) == IF z \in s THEN fun[z] ELSE 0
           T == {n \in Nat : \A s \in SUBSET S : Cardinality(s) <= n => iter[s] = term(s)}
<1>3. \A s \in SUBSET S :
         iter[s] = IF s = {} THEN 0 ELSE LET x == CHOOSE x \in s : TRUE IN fun[x] + iter[s \ {x}]
  BY <1>2 DEF SumsUp
<1>4. 0 \in T
  <2> SUFFICES ASSUME NEW s \in SUBSET S, Cardinality(s) <= 0 PROVE iter[s] = term(s)
    OBVIOUS
  <2>1. s = {}
    BY FS_Subset, FS_EmptySet, FS_CardinalityType
  <2> QED
    BY <1>3, <2>1
<1>5. ASSUME NEW n \in Nat, n \in T PROVE n + 1 \in T
  <2> SUFFICES ASSUME NEW s \in SUBSET S, Cardinality(s) <= n + 1 PROVE iter[s] = term(s)
    OBVIOUS
  <2>1. CASE s = {}
    BY <1>3, <2>1
  <2>2. CASE s # {}
    <3> DEFINE x == CHOOSE x \in s : TRUE
    <3>1. x \in S /\ x \in s /\ s \ {x} \in SUBSET S /\ Cardinality(s \ {x}) <= n
      BY <2>2, OneLess
    <3>2. iter[s] = fun[x] + iter[s \ {x}]
      BY <1>3, <2>2
    <3>3. iter[s \ {x}] = term(s \ {x})
      BY <1>5, <3>1
    <3> HIDE DEF x
    <3>4. CASE x = z
      BY <3>1, <3>2, <3>3, <3>4
    <3>5. CASE x # z
      <4>1. fun[x] = 0 /\ term(s \ {x}) = term(s)
        BY <3>1, <3>5
      <4>2. term(s) \in Int
        BY <3>1
      <4> QED
        BY <3>2, <3>3, <4>1, <4>2
    <3> QED
      BY <3>4, <3>5
  <2> QED
    BY <2>1, <2>2
<1> HIDE DEF T
<1>6. Nat \subseteq T
  BY <1>4, <1>5, NaturalInduction
<1>7. Cardinality(S) \in Nat
  BY FS_CardinalityType
<1>8. iter[S] = term(S)
  BY <1>6, <1>7 DEF T
<1> QED
  BY <1>1, <1>8

(***************************************************************************)
(* What grows with a set by the number of each element is the sum.         *)
(***************************************************************************)
GrowsBy(size, fun, S) ==
    \A s \in SUBSET S : \A x \in s : size[s] = fun[x] + size[s \ {x}]

LEMMA SumIs ==
    ASSUME NEW S, IsFiniteSet(S), NEW fun, \A x \in S : fun[x] \in Int,
           NEW size \in [SUBSET S -> Int], size[{}] = 0, GrowsBy(size, fun, S)
    PROVE  SumFunctionOnSet(fun, S) = size[S]
<1> DEFINE iter == CHOOSE iter : SumsUp(iter, fun, S)
<1>1. SumFunctionOnSet(fun, S) = iter[S]
  BY Zenon DEF SumFunctionOnSet, FoldFunctionOnSet, MapThenFoldSet, SumsUp
<1>2. SumsUp(iter, fun, S)
  BY SumExists, Zenon
<1> HIDE DEF iter
<1> DEFINE T == {n \in Nat : \A s \in SUBSET S : Cardinality(s) <= n => iter[s] = size[s]}
<1>3. \A s \in SUBSET S :
         iter[s] = IF s = {} THEN 0 ELSE LET x == CHOOSE x \in s : TRUE IN fun[x] + iter[s \ {x}]
  BY <1>2 DEF SumsUp
<1>4. 0 \in T
  <2> SUFFICES ASSUME NEW s \in SUBSET S, Cardinality(s) <= 0 PROVE iter[s] = size[s]
    OBVIOUS
  <2>1. s = {}
    BY FS_Subset, FS_EmptySet, FS_CardinalityType
  <2> QED
    BY <1>3, <2>1
<1>5. ASSUME NEW n \in Nat, n \in T PROVE n + 1 \in T
  <2> SUFFICES ASSUME NEW s \in SUBSET S, Cardinality(s) <= n + 1 PROVE iter[s] = size[s]
    OBVIOUS
  <2>1. CASE s = {}
    BY <1>3, <2>1
  <2>2. CASE s # {}
    <3> DEFINE x == CHOOSE x \in s : TRUE
    <3>1. x \in S /\ x \in s /\ s \ {x} \in SUBSET S /\ Cardinality(s \ {x}) <= n
      BY <2>2, OneLess
    <3>2. iter[s] = fun[x] + iter[s \ {x}]
      BY <1>3, <2>2
    <3>3. iter[s \ {x}] = size[s \ {x}]
      BY <1>5, <3>1
    <3>4. size[s] = fun[x] + size[s \ {x}]
      BY <3>1 DEF GrowsBy
    <3> HIDE DEF x
    <3> QED
      BY <3>2, <3>3, <3>4
  <2> QED
    BY <2>1, <2>2
<1> HIDE DEF T
<1>6. Nat \subseteq T
  BY <1>4, <1>5, NaturalInduction
<1>7. Cardinality(S) \in Nat
  BY FS_CardinalityType
<1>8. iter[S] = size[S]
  BY <1>6, <1>7 DEF T
<1> QED
  BY <1>1, <1>8

\* fun counts, for each t of T, the elements of I whose b is t.
CountsEach(fun, I, b, T) == \A t \in T : fun[t] = Cardinality({i \in I : b[i] = t})

\* The sum over T of how many elements of I there are with each b is the number
\* of elements of I with a b in T.
LEMMA SumOfFibres ==
    ASSUME NEW I, IsFiniteSet(I), NEW b, NEW T, IsFiniteSet(T), NEW fun,
           CountsEach(fun, I, b, T)
    PROVE  SumFunctionOnSet(fun, T) = Cardinality({i \in I : b[i] \in T})
<1> DEFINE In(s) == {i \in I : b[i] \in s}
           size == [s \in SUBSET T |-> Cardinality(In(s))]
<1>1. \A s : IsFiniteSet(In(s)) /\ Cardinality(In(s)) \in Nat
  <2> SUFFICES ASSUME NEW s PROVE IsFiniteSet(In(s)) /\ Cardinality(In(s)) \in Nat
    OBVIOUS
  <2>1. In(s) \in SUBSET I
    OBVIOUS
  <2> HIDE DEF In
  <2> QED
    BY <2>1, FS_Subset, FS_CardinalityType
<1>2. \A t \in T : fun[t] = Cardinality(In({t}))
  <2> SUFFICES ASSUME NEW t \in T PROVE fun[t] = Cardinality(In({t}))
    OBVIOUS
  <2>1. In({t}) = {i \in I : b[i] = t}
    OBVIOUS
  <2> QED
    BY <2>1 DEF CountsEach
<1>3. In({}) = {}
  OBVIOUS
<1>4. \A s : \A x \in s : In(s) = In({x}) \cup In(s \ {x}) /\ In({x}) \cap In(s \ {x}) = {}
  OBVIOUS
<1> HIDE DEF In
<1>5. size \in [SUBSET T -> Int] /\ size[{}] = 0
  BY <1>1, <1>3, FS_EmptySet
<1>6. \A t \in T : fun[t] \in Int
  <2> SUFFICES ASSUME NEW t \in T PROVE fun[t] \in Int
    OBVIOUS
  <2>1. Cardinality(In({t})) \in Nat
    BY <1>1
  <2> QED
    BY <1>2, <2>1
<1>7. ASSUME NEW s \in SUBSET T, NEW x \in s PROVE size[s] = fun[x] + size[s \ {x}]
  <2> DEFINE A == In({x})
             B == In(s \ {x})
  <2>1. /\ IsFiniteSet(A) /\ Cardinality(A) \in Nat /\ IsFiniteSet(B) /\ Cardinality(B) \in Nat
        /\ In(s) = A \cup B /\ A \cap B = {}
    BY <1>1, <1>4
  <2> HIDE DEF A, B
  <2>2. Cardinality(A \cup B) = Cardinality(A) + Cardinality(B) - Cardinality(A \cap B)
    BY <2>1, FS_Union
  <2>a. Cardinality(A \cap B) = 0
    BY <2>1, FS_EmptySet
  <2>3. Cardinality(In(s)) = Cardinality(A) + Cardinality(B)
    BY <2>1, <2>2, <2>a
  <2>4. fun[x] = Cardinality(In({x})) /\ size[s] = Cardinality(In(s)) /\ size[s \ {x}] = Cardinality(In(s \ {x}))
    BY <1>2
  <2> QED
    BY <2>3, <2>4 DEF A, B
<1> HIDE DEF size
<1>8. SumFunctionOnSet(fun, T) = size[T]
  <2>1. GrowsBy(size, fun, T)
    BY <1>7 DEF GrowsBy
  <2> QED
    BY <1>5, <1>6, <2>1, SumIs
<1> QED
  BY <1>8 DEF size, In

-----------------------------------------------------------------------------
\* As the community modules define the flattening of a sequence of sequences.
FlattensTo(flat, ss) ==
    flat = [i \in 1..Len(ss) |-> IF i = 1 THEN ss[i] ELSE flat[i - 1] \o ss[i]]

\* A sequence of sequences is flattened one by one.
LEMMA Flattens ==
    ASSUME NEW S, NEW ss \in Seq(Seq(S)), ss # <<>>
    PROVE  \E flat \in [1..Len(ss) -> Seq(S)] :
              /\ flat[1] = ss[1]
              /\ \A n \in 1..(Len(ss) - 1) : flat[n + 1] = flat[n] \o ss[n + 1]
              /\ FlattenSeq(ss) = flat[Len(ss)]
<1> DEFINE N == Len(ss)
           T == [n : Nat, acc : Seq(S)]
           base == [n |-> 0, acc |-> ss[1]]
           next(t) == [n |-> t.n + 1,
                       acc |-> IF t.n + 2 <= N THEN t.acc \o ss[t.n + 2] ELSE t.acc]
           step == [t \in T |-> next(t)]
<1>1. N \in Nat /\ N > 0 /\ \A n \in 1..N : ss[n] \in Seq(S)
  OBVIOUS
<1>2. base \in T /\ \A t \in T : next(t) \in T
  <2>1. base \in T
    BY <1>1
  <2>2. ASSUME NEW t \in T PROVE next(t) \in T
    <3>1. t.n \in Nat /\ t.acc \in Seq(S)
      OBVIOUS
    <3>2. CASE t.n + 2 <= N
      <4>1. ss[t.n + 2] \in Seq(S)
        BY <1>1, <3>1, <3>2
      <4> QED
        BY <3>1, <3>2, <4>1
    <3>3. CASE ~(t.n + 2 <= N)
      BY <3>1, <3>3
    <3> QED
      BY <3>2, <3>3
  <2> QED
    BY <2>1, <2>2
<1> HIDE DEF next
<1>3. PICK f \in [Nat -> T] : Recurs(f, base, step)
  <2>1. step \in [T -> T]
    BY <1>2
  <2> HIDE DEF T, base, step
  <2> QED
    BY <1>2, <2>1, PrimitiveRecursion
<1>4. f[0] = base /\ \A n \in Nat : f[n] \in T /\ f[n + 1] = next(f[n])
  <2> HIDE DEF T, base
  <2> QED
    BY <1>3 DEF Recurs
<1>types. \A n \in Nat : f[n].n \in Nat /\ f[n].acc \in Seq(S)
  BY <1>4
<1>5. \A n \in Nat :
         /\ f[n + 1].n = f[n].n + 1
         /\ f[n].n + 2 <= N => f[n + 1].acc = f[n].acc \o ss[f[n].n + 2]
  <2> SUFFICES ASSUME NEW n \in Nat
               PROVE  /\ f[n + 1].n = f[n].n + 1
                      /\ f[n].n + 2 <= N => f[n + 1].acc = f[n].acc \o ss[f[n].n + 2]
    OBVIOUS
  <2>1. f[n + 1] = next(f[n])
    BY <1>4
  <2> HIDE DEF T, base
  <2>2. f[n + 1].n = f[n].n + 1
    BY <2>1 DEF next
  <2>3. f[n + 1].acc = IF f[n].n + 2 <= N THEN f[n].acc \o ss[f[n].n + 2] ELSE f[n].acc
    BY <2>1 DEF next
  <2> QED
    BY <2>2, <2>3
<1>start. f[0].n = 0 /\ f[0].acc = ss[1]
  BY <1>4
<1> HIDE DEF T, base, step
<1>6. \A n \in Nat : f[n].n = n
  <2> DEFINE Q == {n \in Nat : f[n].n = n}
  <2>1. 0 \in Q
    BY <1>start
  <2>2. ASSUME NEW n \in Nat, n \in Q PROVE n + 1 \in Q
    <3>1. f[n + 1].n = f[n].n + 1
      BY <1>5
    <3> QED
      BY <2>2, <3>1
  <2> HIDE DEF Q
  <2>3. Nat \subseteq Q
    BY <2>1, <2>2, NaturalInduction
  <2> QED
    BY <2>3 DEF Q
<1> DEFINE flat == [n \in 1..N |-> f[n - 1].acc]
<1>7. \A n \in 1..N : n - 1 \in Nat
  BY <1>1
<1>8. flat \in [1..N -> Seq(S)] /\ flat[1] = ss[1]
  BY <1>1, <1>start, <1>types, <1>7
<1>9. \A n \in 1..(N - 1) : flat[n + 1] = flat[n] \o ss[n + 1]
  <2> SUFFICES ASSUME NEW n \in 1..(N - 1) PROVE flat[n + 1] = flat[n] \o ss[n + 1]
    OBVIOUS
  <2>1. /\ n - 1 \in Nat /\ (n - 1) + 1 = n /\ (n + 1) - 1 = n /\ (n - 1) + 2 = n + 1
        /\ n \in 1..N /\ n + 1 \in 1..N /\ n + 1 <= N
    BY <1>1
  <2>2. f[n].acc = f[n - 1].acc \o ss[n + 1]
    <3> DEFINE k == n - 1
    <3>1. k \in Nat /\ f[k].n = k /\ k + 2 = n + 1 /\ k + 1 = n
      BY <1>6, <2>1
    <3> HIDE DEF k
    <3>2. f[k + 1].acc = f[k].acc \o ss[f[k].n + 2]
      BY <1>5, <2>1, <3>1
    <3>3. f[n].acc = f[k].acc \o ss[n + 1]
      BY <3>1, <3>2
    <3> QED
      BY <3>3 DEF k
  <2>3. flat[n + 1] = f[n].acc /\ flat[n] = f[n - 1].acc
    BY <2>1
  <2> QED
    BY <2>2, <2>3
<1> HIDE DEF flat
<1>10. FlattensTo(flat, ss)
  <2>1. \A i \in 1..N : i # 1 => i - 1 \in 1..(N - 1) /\ (i - 1) + 1 = i
    BY <1>1
  <2>2. \A i \in 1..N : flat[i] = IF i = 1 THEN ss[i] ELSE flat[i - 1] \o ss[i]
    BY <1>8, <1>9, <2>1
  <2>3. flat = [i \in 1..N |-> flat[i]]
    BY <1>8
  <2> QED
    BY <2>2, <2>3 DEF FlattensTo
<1> DEFINE g == CHOOSE g : FlattensTo(g, ss)
<1>11. FlattensTo(g, ss)
  BY <1>10, Zenon
<1>12. FlattenSeq(ss) = g[N]
  <2>1. Len(ss) # 0
    BY <1>1
  <2> QED
    BY <2>1, Zenon DEF FlattenSeq, FlattensTo
<1> HIDE DEF g
<1>13. g = [i \in 1..N |-> IF i = 1 THEN ss[i] ELSE g[i - 1] \o ss[i]]
  BY <1>11 DEF FlattensTo
<1> DEFINE P == {n \in Nat : n \in 1..N => g[n] \in Seq(S)}
<1>14. 0 \in P
  OBVIOUS
<1>15. ASSUME NEW n \in Nat, n \in P PROVE n + 1 \in P
  <2> SUFFICES ASSUME n + 1 \in 1..N PROVE g[n + 1] \in Seq(S)
    OBVIOUS
  <2>1. CASE n = 0
    BY <1>1, <1>13, <2>1
  <2>2. CASE n # 0
    <3>1. n \in 1..N /\ n + 1 # 1 /\ (n + 1) - 1 = n
      BY <1>1, <2>2
    <3>2. g[n + 1] = g[n] \o ss[n + 1]
      <4> DEFINE h(i) == IF i = 1 THEN ss[i] ELSE g[i - 1] \o ss[i]
      <4>1. g[n + 1] = h(n + 1)
        BY <1>13
      <4> QED
        BY <3>1, <4>1
    <3> QED
      BY <1>1, <1>15, <3>1, <3>2
  <2> QED
    BY <2>1, <2>2
<1>16. \A n \in 1..N : g[n] \in Seq(S)
  <2> HIDE DEF P
  <2>1. Nat \subseteq P
    BY <1>14, <1>15, NaturalInduction
  <2> QED
    BY <1>1, <2>1 DEF P
<1>17. DOMAIN g = 1..N
  BY <1>13
<1>18. g \in [1..N -> Seq(S)]
  <2>1. g = [i \in 1..N |-> g[i]]
    BY <1>13, <1>17
  <2> QED
    BY <1>16, <2>1
<1>19. \A i \in 1..N : g[i] = IF i = 1 THEN ss[i] ELSE g[i - 1] \o ss[i]
  BY <1>13
<1>20. g[1] = ss[1] /\ \A n \in 1..(N - 1) : g[n + 1] = g[n] \o ss[n + 1]
  <2>1. g[1] = ss[1]
    BY <1>1, <1>19
  <2>2. ASSUME NEW n \in 1..(N - 1) PROVE g[n + 1] = g[n] \o ss[n + 1]
    <3>1. n + 1 \in 1..N /\ n + 1 # 1 /\ (n + 1) - 1 = n
      BY <1>1
    <3> QED
      BY <1>19, <3>1
  <2> QED
    BY <2>1, <2>2
<1> QED
  BY <1>12, <1>18, <1>20

\* Two sequences of different elements, none in both, one after the other.
LEMMA DistinctConcat ==
    ASSUME NEW S, NEW s \in Seq(S), NEW t \in Seq(S), IsInjective(s), IsInjective(t),
           ToSet(s) \cap ToSet(t) = {}
    PROVE  s \o t \in Seq(S) /\ IsInjective(s \o t)
<1>1. \A i \in DOMAIN s, j \in DOMAIN t : s[i] # t[j]
  BY DEF ToSet
<1> QED
  BY <1>1 DEF IsInjective

\* The elements of two sequences one after the other.
LEMMA ElementsOfConcat ==
    ASSUME NEW S, NEW s \in Seq(S), NEW t \in Seq(S)
    PROVE  ToSet(s \o t) = ToSet(s) \cup ToSet(t)
<1>1. /\ Len(s) \in Nat /\ Len(t) \in Nat /\ Len(s \o t) = Len(s) + Len(t)
      /\ \A i \in 1..Len(s) : (s \o t)[i] = s[i]
      /\ \A i \in 1..Len(t) : (s \o t)[Len(s) + i] = t[i]
  OBVIOUS
<1>2. ToSet(s \o t) \subseteq ToSet(s) \cup ToSet(t)
  <2> SUFFICES ASSUME NEW i \in 1..Len(s \o t) PROVE (s \o t)[i] \in ToSet(s) \cup ToSet(t)
    BY DEF ToSet
  <2>1. CASE i <= Len(s)
    BY <1>1, <2>1 DEF ToSet
  <2>2. CASE i > Len(s)
    <3>1. i - Len(s) \in 1..Len(t) /\ (s \o t)[i] = t[i - Len(s)]
      BY <1>1, <2>2
    <3> QED
      BY <3>1 DEF ToSet
  <2> QED
    BY <1>1, <2>1, <2>2
<1>3. ASSUME NEW i \in 1..Len(s) PROVE s[i] \in ToSet(s \o t)
  <2>1. i \in 1..Len(s \o t) /\ s[i] = (s \o t)[i]
    BY <1>1
  <2> QED
    BY <2>1 DEF ToSet
<1>4. ASSUME NEW i \in 1..Len(t) PROVE t[i] \in ToSet(s \o t)
  <2>1. Len(s) + i \in 1..Len(s \o t) /\ t[i] = (s \o t)[Len(s) + i]
    BY <1>1
  <2> QED
    BY <2>1 DEF ToSet
<1>5. ToSet(s) \cup ToSet(t) \subseteq ToSet(s \o t)
  <2>1. ToSet(s) = {s[i] : i \in 1..Len(s)} /\ ToSet(t) = {t[i] : i \in 1..Len(t)}
    BY DEF ToSet
  <2> HIDE DEF ToSet
  <2> QED
    BY <1>3, <1>4, <2>1
<1> QED
  BY <1>2, <1>5

-----------------------------------------------------------------------------
\* f starts with base and goes on by step, which is told the number it is at.
Iterates(f, N, base, step) ==
    f[0] = base /\ \A n \in 1..N : f[n] = step[<<n, f[n - 1]>>]

\* A recursion over the numbers up to N, whose step knows which one it is at,
\* defines a function on them.
LEMMA IndexedRecursion ==
    ASSUME NEW T, NEW N \in Nat, NEW base \in T, NEW step \in [(1..N) \X T -> T]
    PROVE  \E f \in [0..N -> T] : Iterates(f, N, base, step)
<1> DEFINE U == [n : Nat, value : T]
           first == [n |-> 0, value |-> base]
           next(u) == [n |-> u.n + 1,
                       value |-> IF u.n + 1 <= N THEN step[<<u.n + 1, u.value>>] ELSE u.value]
           go == [u \in U |-> next(u)]
<1>1. first \in U /\ \A u \in U : next(u) \in U
  <2> SUFFICES ASSUME NEW u \in U PROVE next(u) \in U
    OBVIOUS
  <2>1. u.n \in Nat /\ u.value \in T
    OBVIOUS
  <2>2. u.n + 1 <= N => step[<<u.n + 1, u.value>>] \in T
    BY <2>1
  <2> QED
    BY <2>1, <2>2
<1> HIDE DEF next
<1>2. PICK g \in [Nat -> U] : Recurs(g, first, go)
  <2>1. go \in [U -> U]
    BY <1>1
  <2> HIDE DEF U, first, go
  <2> QED
    BY <1>1, <2>1, PrimitiveRecursion
<1>3. g[0] = first /\ \A n \in Nat : g[n] \in U /\ g[n + 1] = next(g[n])
  <2> HIDE DEF U, first
  <2> QED
    BY <1>2 DEF Recurs
<1>4. \A n \in Nat :
         /\ g[n].n \in Nat /\ g[n].value \in T
         /\ g[n + 1].n = g[n].n + 1
         /\ g[n].n + 1 <= N => g[n + 1].value = step[<<g[n].n + 1, g[n].value>>]
  <2> SUFFICES ASSUME NEW n \in Nat
               PROVE  /\ g[n].n \in Nat /\ g[n].value \in T
                      /\ g[n + 1].n = g[n].n + 1
                      /\ g[n].n + 1 <= N => g[n + 1].value = step[<<g[n].n + 1, g[n].value>>]
    OBVIOUS
  <2>1. g[n] \in U /\ g[n + 1] = next(g[n])
    BY <1>3
  <2>2. g[n].n \in Nat /\ g[n].value \in T
    BY <2>1
  <2> HIDE DEF U, first
  <2> QED
    BY <2>1, <2>2 DEF next
<1>5. g[0].n = 0 /\ g[0].value = base
  BY <1>3
<1> HIDE DEF U, first, go
<1>counts. \A n \in Nat : g[n + 1].n = g[n].n + 1
  BY <1>4
<1>typed. \A n \in Nat : g[n].value \in T
  BY <1>4
<1>6. \A n \in Nat : g[n].n = n
  <2> DEFINE Q == {n \in Nat : g[n].n = n}
  <2>1. 0 \in Q
    BY <1>5
  <2>2. ASSUME NEW n \in Nat, n \in Q PROVE n + 1 \in Q
    BY <1>counts, <2>2
  <2> HIDE DEF Q
  <2>3. Nat \subseteq Q
    BY <2>1, <2>2, NaturalInduction
  <2> QED
    BY <2>3 DEF Q
<1> DEFINE f == [n \in 0..N |-> g[n].value]
<1>7. f \in [0..N -> T] /\ f[0] = base
  BY <1>typed, <1>5
<1>8. ASSUME NEW n \in 1..N PROVE f[n] = step[<<n, f[n - 1]>>]
  <2> DEFINE k == n - 1
  <2>1. k \in Nat /\ k + 1 = n /\ g[k].n = k /\ k + 1 <= N /\ k \in 0..N /\ n \in 0..N
    BY <1>6
  <2> HIDE DEF k
  <2>2. g[k + 1].value = step[<<k + 1, g[k].value>>]
    BY <1>4, <2>1
  <2>3. f[n] = g[n].value /\ f[k] = g[k].value
    BY <2>1
  <2>4. f[n] = step[<<n, f[k]>>]
    BY <2>1, <2>2, <2>3
  <2> QED
    BY <2>4 DEF k
<1>9. Iterates(f, N, base, step)
  BY <1>7, <1>8 DEF Iterates
<1> QED
  BY <1>7, <1>9

\* Every finite set of natural numbers has a greatest element.
LEMMA GreatestNatural ==
    ASSUME NEW T \in SUBSET Nat, IsFiniteSet(T), T # {}
    PROVE  Max(T) \in T /\ \A m \in T : m <= Max(T)
<1> DEFINE Q == {n \in Nat : \A S \in SUBSET T :
                    Cardinality(S) <= n /\ S # {} => \E x \in S : \A y \in S : y <= x}
<1>1. 0 \in Q
  <2> SUFFICES ASSUME NEW S \in SUBSET T, Cardinality(S) <= 0 PROVE S = {}
    OBVIOUS
  <2>1. IsFiniteSet(S)
    BY FS_Subset
  <2>2. Cardinality(S) \in Nat
    BY <2>1, FS_CardinalityType
  <2>3. Cardinality(S) = 0
    BY <2>2
  <2> QED
    BY <2>1, <2>3, FS_EmptySet
<1>2. ASSUME NEW n \in Nat, n \in Q PROVE n + 1 \in Q
  <2> SUFFICES ASSUME NEW S \in SUBSET T, Cardinality(S) <= n + 1, S # {}
               PROVE  \E x \in S : \A y \in S : y <= x
    OBVIOUS
  <2>1. PICK z \in S : TRUE
    OBVIOUS
  <2>2. IsFiniteSet(S)
    BY FS_Subset
  <2>3. Cardinality(S \ {z}) <= n
    <3>1. Cardinality(S \ {z}) = Cardinality(S) - 1
      BY <2>1, <2>2, FS_RemoveElement
    <3>2. Cardinality(S) \in Nat
      BY <2>2, FS_CardinalityType
    <3> QED
      BY <3>1, <3>2
  <2>4. CASE S \ {z} = {}
    BY <2>1, <2>4
  <2>5. CASE S \ {z} # {}
    <3>1. PICK x \in S \ {z} : \A y \in S \ {z} : y <= x
      BY <1>2, <2>3, <2>5
    <3>2. x \in Nat /\ z \in Nat
      BY <2>1, <3>1
    <3>3. CASE z <= x
      BY <3>1, <3>3
    <3>4. CASE x <= z
      <4>1. \A y \in S : y <= z
        BY <3>1, <3>2, <3>4
      <4> QED
        BY <2>1, <4>1
    <3> QED
      BY <3>2, <3>3, <3>4
  <2> QED
    BY <2>4, <2>5
<1> HIDE DEF Q
<1>3. Nat \subseteq Q
  BY <1>1, <1>2, NaturalInduction
<1>4. Cardinality(T) \in Nat
  BY FS_CardinalityType
<1>5. \E x \in T : \A y \in T : y <= x
  BY <1>3, <1>4 DEF Q
<1>6. \E x \in T : \A y \in T : x >= y
  BY <1>5
<1> QED
  BY <1>6 DEF Max

LEMMA CountTo ==
    ASSUME NEW n \in Nat
    PROVE  IsFiniteSet(1..n) /\ Cardinality(1..n) = n
BY FS_Interval

\* at leads from the places of what stays of s to their places in s.
LeadsBack(at, s, P) ==
    LET N == Cardinality(P)
    IN  /\ at \in [1..N -> P]
        /\ \A n \in 1..N : Only(s, P)[n] = s[at[n]]
        /\ \A m, n \in 1..N : m < n => at[m] < at[n]
        /\ \A i \in P : \E n \in 1..N : at[n] = i

\* What stays of a sequence, and in which order.
LEMMA OnlyIs ==
    ASSUME NEW S, NEW s \in Seq(S), NEW P \in SUBSET (DOMAIN s)
    PROVE  /\ IsFiniteSet(P) /\ Cardinality(P) \in Nat /\ Cardinality(P) <= Len(s)
           /\ Only(s, P) \in Seq(S) /\ Len(Only(s, P)) = Cardinality(P)
           /\ \E at : LeadsBack(at, s, P)
<1> DEFINE N == Cardinality(P)
           upTo(i) == {j \in P : j <= i}
           rank(i) == Cardinality(upTo(i))
           at == [n \in 1..N |-> CHOOSE i \in P : rank(i) = n]
<1>1. Len(s) \in Nat /\ DOMAIN s = 1..Len(s) /\ P \subseteq 1..Len(s)
  OBVIOUS
<1>2. IsFiniteSet(P) /\ N \in Nat /\ N <= Len(s)
  <2>1. IsFiniteSet(1..Len(s)) /\ Cardinality(1..Len(s)) = Len(s)
    BY <1>1, CountTo
  <2>2. IsFiniteSet(P) /\ N <= Len(s)
    BY <1>1, <2>1, FS_Subset
  <2> QED
    BY <2>2, FS_CardinalityType
<1>3. \A i \in P : rank(i) \in 1..N
  <2> SUFFICES ASSUME NEW i \in P PROVE rank(i) \in 1..N
    OBVIOUS
  <2>1. upTo(i) \in SUBSET P /\ i \in upTo(i)
    BY <1>1
  <2> HIDE DEF upTo
  <2>2. IsFiniteSet(upTo(i)) /\ rank(i) <= N
    BY <1>2, <2>1, FS_Subset
  <2>3. rank(i) \in Nat /\ rank(i) # 0
    BY <2>1, <2>2, FS_CardinalityType, FS_EmptySet
  <2> QED
    BY <1>2, <2>2, <2>3
<1>4. ASSUME NEW i \in P, NEW k \in P, i < k PROVE rank(i) < rank(k)
  <2>1. /\ upTo(i) \in SUBSET upTo(k) /\ k \in upTo(k) /\ k \notin upTo(i)
        /\ upTo(k) \in SUBSET P
    BY <1>1, <1>4
  <2> HIDE DEF upTo
  <2>2. IsFiniteSet(upTo(k))
    BY <1>2, <2>1, FS_Subset
  <2>3. rank(i) <= rank(k) /\ rank(i) # rank(k)
    BY <2>1, <2>2, FS_Subset
  <2> HIDE DEF rank
  <2>4. rank(i) \in Nat /\ rank(k) \in Nat
    BY <1>3
  <2> QED
    BY <2>3, <2>4
<1> HIDE DEF upTo, rank
<1>5. \A n \in 1..N : \E i \in P : rank(i) = n
  <2> DEFINE R == [i \in P |-> rank(i)]
  <2>1. R \in [P -> 1..N]
    BY <1>3
  <2>2. \A i, k \in P : R[i] = R[k] => i = k
    <3> SUFFICES ASSUME NEW i \in P, NEW k \in P, rank(i) = rank(k) PROVE i = k
      OBVIOUS
    <3>1. i \in Int /\ k \in Int /\ rank(i) \in Int /\ rank(k) \in Int
      BY <1>1, <1>3
    <3> QED
      BY <1>4, <3>1
  <2>3. IsFiniteSet(1..N) /\ Cardinality(1..N) = N
    BY <1>2, FS_Interval
  <2> DEFINE image == {R[i] : i \in P}
  <2>4. image \in SUBSET (1..N)
    BY <2>1
  <2>5. \E f : f \in [P -> image] /\ (\A i, k \in P : f[i] = f[k] => i = k)
                 /\ \A t \in image : \E i \in P : f[i] = t
    <3>1. R \in [P -> image]
      BY <2>1
    <3> QED
      BY <2>2, <3>1
  <2> HIDE DEF R
  <2>6. ExistsBijection(P, image)
    BY <2>5 DEF ExistsBijection, Bijection, Injection, Surjection, IsInjective
  <2>7. Cardinality(image) = N
    BY <1>2, <2>6, FS_Bijection
  <2>8. image = 1..N
    BY <2>3, <2>4, <2>7, FS_Subset
  <2> QED
    BY <2>8 DEF R
<1>6. \A n \in 1..N : at[n] \in P /\ rank(at[n]) = n
  BY <1>5
<1>7. at \in [1..N -> P]
  BY <1>6
<1>8. Only(s, P) = [n \in 1..N |-> s[at[n]]]
  BY DEF Only, rank, upTo
<1> HIDE DEF at
<1>9. \A m, n \in 1..N : m < n => at[m] < at[n]
  <2> SUFFICES ASSUME NEW m \in 1..N, NEW n \in 1..N, m < n PROVE at[m] < at[n]
    OBVIOUS
  <2>1. at[m] \in P /\ at[n] \in P /\ rank(at[m]) = m /\ rank(at[n]) = n
    BY <1>6
  <2>2. at[m] \in Int /\ at[n] \in Int
    BY <1>1, <2>1
  <2> QED
    BY <1>4, <2>1, <2>2
<1>10. ASSUME NEW i \in P PROVE \E n \in 1..N : at[n] = i
  <2>1. rank(i) \in 1..N /\ at[rank(i)] \in P /\ rank(at[rank(i)]) = rank(i)
    BY <1>3, <1>6
  <2>2. at[rank(i)] \in Int /\ i \in Int
    BY <1>1, <2>1
  <2>3. at[rank(i)] = i
    <3>1. ~(at[rank(i)] < i) /\ ~(i < at[rank(i)])
      BY <1>4, <1>3, <2>1
    <3> QED
      BY <2>2, <3>1
  <2> QED
    BY <2>1, <2>3
<1>11. Only(s, P) \in Seq(S) /\ Len(Only(s, P)) = N
  <2>1. \A n \in 1..N : s[at[n]] \in S
    BY <1>1, <1>7
  <2> QED
    BY <1>2, <1>8, <2>1
<1>12. LeadsBack(at, s, P)
  BY <1>7, <1>8, <1>9, <1>10 DEF LeadsBack
<1> QED
  BY <1>2, <1>11, <1>12

\* A sum in which one term has changed.
LEMMA SumChanges ==
    ASSUME NEW S, IsFiniteSet(S), NEW fun, NEW gun, NEW z \in S,
           \A x \in S : fun[x] \in Int /\ gun[x] \in Int,
           \A x \in S \ {z} : gun[x] = fun[x]
    PROVE  /\ SumFunctionOnSet(fun, S) \in Int
           /\ SumFunctionOnSet(gun, S) = SumFunctionOnSet(fun, S) + (gun[z] - fun[z])
<1> DEFINE iter == CHOOSE iter : SumsUp(iter, fun, S)
           jter == CHOOSE jter : SumsUp(jter, gun, S)
<1>1. SumFunctionOnSet(fun, S) = iter[S] /\ SumFunctionOnSet(gun, S) = jter[S]
  BY Zenon DEF SumFunctionOnSet, FoldFunctionOnSet, MapThenFoldSet, SumsUp
<1>2. SumsUp(iter, fun, S)
  BY SumExists, Zenon
<1>3. SumsUp(jter, gun, S)
  BY SumExists, Zenon
<1> HIDE DEF iter, jter
<1> DEFINE more(s) == IF z \in s THEN gun[z] - fun[z] ELSE 0
           T == {n \in Nat : \A s \in SUBSET S :
                   Cardinality(s) <= n => iter[s] \in Int /\ jter[s] = iter[s] + more(s)}
<1>4. \A s \in SUBSET S :
         /\ iter[s] = IF s = {} THEN 0 ELSE LET x == CHOOSE x \in s : TRUE IN fun[x] + iter[s \ {x}]
         /\ jter[s] = IF s = {} THEN 0 ELSE LET x == CHOOSE x \in s : TRUE IN gun[x] + jter[s \ {x}]
  BY <1>2, <1>3 DEF SumsUp
<1>none. iter[{}] = 0 /\ jter[{}] = 0 /\ more({}) = 0
  <2>1. {} \in SUBSET S
    OBVIOUS
  <2> QED
    BY <1>4, <2>1
<1>5. 0 \in T
  <2> SUFFICES ASSUME NEW s \in SUBSET S, Cardinality(s) <= 0
               PROVE  iter[s] \in Int /\ jter[s] = iter[s] + more(s)
    OBVIOUS
  <2>1. s = {}
    BY FS_Subset, FS_EmptySet, FS_CardinalityType
  <2> QED
    BY <1>none, <2>1
<1>6. ASSUME NEW n \in Nat, n \in T PROVE n + 1 \in T
  <2> SUFFICES ASSUME NEW s \in SUBSET S, Cardinality(s) <= n + 1
               PROVE  iter[s] \in Int /\ jter[s] = iter[s] + more(s)
    OBVIOUS
  <2>1. CASE s = {}
    BY <1>none, <2>1
  <2>2. CASE s # {}
    <3> DEFINE x == CHOOSE x \in s : TRUE
    <3>1. x \in S /\ x \in s /\ s \ {x} \in SUBSET S /\ Cardinality(s \ {x}) <= n
      BY <2>2, OneLess
    <3>2. iter[s] = fun[x] + iter[s \ {x}] /\ jter[s] = gun[x] + jter[s \ {x}]
      BY <1>4, <2>2
    <3>3. iter[s \ {x}] \in Int /\ jter[s \ {x}] = iter[s \ {x}] + more(s \ {x})
      BY <1>6, <3>1
    <3> HIDE DEF x
    <3>4. fun[x] \in Int /\ gun[x] \in Int /\ fun[z] \in Int /\ gun[z] \in Int
      BY <3>1
    <3>5. CASE x = z
      <4>1. more(s \ {x}) = 0 /\ more(s) = gun[x] - fun[x]
        BY <3>1, <3>5
      <4> QED
        BY <3>2, <3>3, <3>4, <4>1
    <3>6. CASE x # z
      <4>1. gun[x] = fun[x] /\ more(s \ {x}) = more(s) /\ more(s) \in Int
        BY <3>1, <3>4, <3>6
      <4> HIDE DEF more
      <4> QED
        BY <3>2, <3>3, <3>4, <4>1
    <3> QED
      BY <3>5, <3>6
  <2> QED
    BY <2>1, <2>2
<1> HIDE DEF T
<1>7. Nat \subseteq T
  BY <1>5, <1>6, NaturalInduction
<1>8. Cardinality(S) \in Nat
  BY FS_CardinalityType
<1>9. iter[S] \in Int /\ jter[S] = iter[S] + more(S)
  BY <1>7, <1>8 DEF T
<1> QED
  BY <1>1, <1>9

\* What stays of a list in which nothing is twice.
LEMMA KeptIs ==
    ASSUME NEW S, NEW s \in Seq(S), NEW P \in SUBSET DOMAIN s
    PROVE  /\ Only(s, P) \in Seq(S) /\ Len(Only(s, P)) = Cardinality(P)
           /\ ToSet(Only(s, P)) = {s[i] : i \in P}
           /\ IsInjective(s) => IsInjective(Only(s, P))
<1> DEFINE N == Cardinality(P)
           kept == Only(s, P)
<1>1. N \in Nat /\ kept \in Seq(S) /\ Len(kept) = N
  BY OnlyIs
<1>2. PICK at : LeadsBack(at, s, P)
  BY OnlyIs
<1>3. /\ at \in [1..N -> P]
      /\ \A n \in 1..N : kept[n] = s[at[n]]
      /\ \A m, n \in 1..N : m < n => at[m] < at[n]
      /\ \A i \in P : \E n \in 1..N : at[n] = i
  BY <1>2 DEF LeadsBack
<1> HIDE DEF kept, N
<1>4. DOMAIN kept = 1..N
  BY <1>1
<1>5. ToSet(kept) = {s[i] : i \in P}
  BY <1>3, <1>4 DEF ToSet
<1>6. ASSUME IsInjective(s) PROVE IsInjective(kept)
  <2> SUFFICES ASSUME NEW m \in 1..N, NEW n \in 1..N, kept[m] = kept[n] PROVE m = n
    BY <1>4 DEF IsInjective
  <2>1. at[m] = at[n] /\ at[m] \in 1..Len(s) /\ Len(s) \in Nat
    BY <1>3, <1>6 DEF IsInjective
  <2>2. ~(m < n) /\ ~(n < m)
    BY <1>3, <2>1
  <2> QED
    BY <1>1, <2>2
<1> QED
  BY <1>1, <1>5, <1>6 DEF kept, N

\* What stays of a list of which only a stretch stays.
LEMMA StretchIs ==
    ASSUME NEW S, NEW s \in Seq(S), NEW t \in Seq(S), NEW a \in Nat, a + Len(t) <= Len(s),
           \A n \in 1..Len(t) : s[a + n] = t[n]
    PROVE  Only(s, (a + 1)..(a + Len(t))) = t
<1> DEFINE P == (a + 1)..(a + Len(t))
           kept == Only(s, P)
<1>1. Len(t) \in Nat /\ Len(s) \in Nat /\ DOMAIN t = 1..Len(t)
  OBVIOUS
<1>2. \A i, j \in Int : i <= j + 1 => Cardinality(i..j) = j - i + 1
  BY FS_Interval
<1>3. Cardinality(P) = Len(t)
  <2>1. a + 1 \in Int /\ a + Len(t) \in Int /\ a + 1 <= (a + Len(t)) + 1
        /\ (a + Len(t)) - (a + 1) + 1 = Len(t)
    BY <1>1
  <2> QED
    BY <1>2, <2>1
<1>4. ASSUME NEW i \in P PROVE Cardinality({j \in P : j <= i}) = i - a
  <2>1. {j \in P : j <= i} = (a + 1)..i
    BY <1>1
  <2>2. i \in Int /\ a + 1 \in Int /\ a + 1 <= i + 1 /\ i - (a + 1) + 1 = i - a
    BY <1>1
  <2> QED
    BY <1>2, <2>1, <2>2
<1>5. ASSUME NEW n \in 1..Len(t)
      PROVE  (CHOOSE i \in P : Cardinality({j \in P : j <= i}) = n) = a + n
  <2>1. a + n \in P /\ \A i \in P : i - a = n <=> i = a + n
    BY <1>1
  <2> HIDE DEF P
  <2>2. \A i \in P : Cardinality({j \in P : j <= i}) = n <=> i = a + n
    BY <1>4, <2>1
  <2> QED
    BY <2>1, <2>2
<1> HIDE DEF P
<1>6. kept = [n \in 1..Len(t) |-> s[CHOOSE i \in P : Cardinality({j \in P : j <= i}) = n]]
  BY <1>3 DEF Only
<1>7. kept = [n \in 1..Len(t) |-> s[a + n]]
  BY <1>5, <1>6
<1>8. kept = [n \in 1..Len(t) |-> t[n]]
  BY <1>7
<1> HIDE DEF kept
<1>9. t = [n \in 1..Len(t) |-> t[n]]
  BY <1>1
<1> QED
  BY <1>8, <1>9 DEF kept, P

\* A list with one more element at its head.
LEMMA FirstIs ==
    ASSUME NEW S, NEW old \in Seq(S), NEW j \in S
    PROVE  LET new == <<j>> \o old
           IN  /\ new \in Seq(S) /\ Len(new) = Len(old) + 1
               /\ ToSet(new) = ToSet(old) \cup {j}
               /\ j \notin ToSet(old) /\ IsInjective(old) => IsInjective(new)
<1> DEFINE new == <<j>> \o old
<1>1. /\ new \in Seq(S) /\ Len(new) = Len(old) + 1 /\ Len(old) \in Nat
      /\ new[1] = j /\ \A i \in 1..Len(old) : new[i + 1] = old[i]
  OBVIOUS
<1>2. DOMAIN new = 1..(Len(old) + 1) /\ DOMAIN old = 1..Len(old)
  BY <1>1
<1> HIDE DEF new
<1>3. ASSUME NEW i \in DOMAIN new, i # 1 PROVE i - 1 \in 1..Len(old) /\ new[i] = old[i - 1]
  <2>1. i - 1 \in 1..Len(old) /\ i = (i - 1) + 1
    BY <1>1, <1>2, <1>3
  <2> QED
    BY <1>1, <2>1
<1>4. ToSet(new) = ToSet(old) \cup {j}
  <2>1. ToSet(new) \subseteq ToSet(old) \cup {j}
    BY <1>1, <1>2, <1>3 DEF ToSet
  <2>2. ASSUME NEW i \in DOMAIN old PROVE old[i] \in ToSet(new)
    <3>1. i + 1 \in DOMAIN new /\ new[i + 1] = old[i]
      BY <1>1, <1>2
    <3> QED
      BY <3>1 DEF ToSet
  <2>3. j \in ToSet(new)
    <3>1. 1 \in DOMAIN new
      BY <1>1, <1>2
    <3> QED
      BY <1>1, <3>1 DEF ToSet
  <2>4. ToSet(old) \subseteq ToSet(new)
    BY <2>2 DEF ToSet
  <2> QED
    BY <2>1, <2>3, <2>4
<1>5. ASSUME j \notin ToSet(old), IsInjective(old) PROVE IsInjective(new)
  <2> SUFFICES ASSUME NEW i \in DOMAIN new, NEW k \in DOMAIN new, new[i] = new[k] PROVE i = k
    BY DEF IsInjective
  <2>1. i # 1 => new[i] # j
    BY <1>2, <1>3, <1>5 DEF ToSet
  <2>2. k # 1 => new[k] # j
    BY <1>2, <1>3, <1>5 DEF ToSet
  <2>3. CASE i = 1 \/ k = 1
    BY <1>1, <2>1, <2>2, <2>3
  <2>4. CASE i # 1 /\ k # 1
    <3>1. i - 1 = k - 1
      BY <1>2, <1>3, <1>5, <2>4 DEF IsInjective
    <3> QED
      BY <1>1, <1>2, <3>1
  <2> QED
    BY <2>3, <2>4
<1> QED
  BY <1>1, <1>4, <1>5 DEF new

\* Where the elements of two lists are in the one that they make.
LEMMA TwoAre ==
    ASSUME NEW S, NEW a \in Seq(S), NEW b \in Seq(S)
    PROVE  /\ a \o b \in Seq(S) /\ Len(a \o b) = Len(a) + Len(b)
           /\ \A i \in 1..Len(a) : (a \o b)[i] = a[i]
           /\ \A i \in 1..Len(b) : (a \o b)[Len(a) + i] = b[i]
OBVIOUS

\* Five lists, one behind the other.
InLine(all, a, b, c, d, e) ==
    /\ Len(all) = Len(a) + Len(b) + Len(c) + Len(d) + Len(e)
    /\ \A i \in 1..Len(a) : all[i] = a[i]
    /\ \A i \in 1..Len(b) : all[Len(a) + i] = b[i]
    /\ \A i \in 1..Len(c) : all[Len(a) + Len(b) + i] = c[i]
    /\ \A i \in 1..Len(d) : all[Len(a) + Len(b) + Len(c) + i] = d[i]
    /\ \A i \in 1..Len(e) : all[Len(a) + Len(b) + Len(c) + Len(d) + i] = e[i]

\* Where the elements of five lists are in the one that they make.
LEMMA FiveAre ==
    ASSUME NEW S, NEW a \in Seq(S), NEW b \in Seq(S), NEW c \in Seq(S), NEW d \in Seq(S),
           NEW e \in Seq(S), NEW all, all = a \o b \o c \o d \o e
    PROVE  all \in Seq(S) /\ InLine(all, a, b, c, d, e)
<1> DEFINE ab == a \o b
           abc == ab \o c
           abcd == abc \o d
<1>whole. all = abcd \o e
  OBVIOUS
<1>0. Len(a) \in Nat /\ Len(b) \in Nat /\ Len(c) \in Nat /\ Len(d) \in Nat /\ Len(e) \in Nat
  OBVIOUS
<1>1. /\ ab \in Seq(S) /\ Len(ab) = Len(a) + Len(b)
      /\ \A i \in 1..Len(a) : ab[i] = a[i]
      /\ \A i \in 1..Len(b) : ab[Len(a) + i] = b[i]
  BY TwoAre
<1> HIDE DEF ab
<1>2. /\ abc \in Seq(S) /\ Len(abc) = Len(ab) + Len(c)
      /\ \A i \in 1..Len(ab) : abc[i] = ab[i]
      /\ \A i \in 1..Len(c) : abc[Len(ab) + i] = c[i]
  <2>1. ab \in Seq(S)
    BY <1>1
  <2> QED
    BY <2>1, TwoAre
<1> HIDE DEF abc
<1>3. /\ abcd \in Seq(S) /\ Len(abcd) = Len(abc) + Len(d)
      /\ \A i \in 1..Len(abc) : abcd[i] = abc[i]
      /\ \A i \in 1..Len(d) : abcd[Len(abc) + i] = d[i]
  <2>1. abc \in Seq(S)
    BY <1>2
  <2> QED
    BY <2>1, TwoAre
<1> HIDE DEF abcd
<1>4. /\ all \in Seq(S) /\ Len(all) = Len(abcd) + Len(e)
      /\ \A i \in 1..Len(abcd) : all[i] = abcd[i]
      /\ \A i \in 1..Len(e) : all[Len(abcd) + i] = e[i]
  <2>1. abcd \in Seq(S)
    BY <1>3
  <2> QED
    BY <1>whole, <2>1, TwoAre
<1>5. /\ Len(ab) = Len(a) + Len(b) /\ Len(abc) = Len(a) + Len(b) + Len(c)
      /\ Len(abcd) = Len(a) + Len(b) + Len(c) + Len(d)
  BY <1>0, <1>1, <1>2, <1>3
<1>6. ASSUME NEW i \in 1..Len(a) PROVE all[i] = a[i]
  <2>1. i \in 1..Len(ab) /\ i \in 1..Len(abc) /\ i \in 1..Len(abcd)
    BY <1>0, <1>5
  <2> QED
    BY <1>1, <1>2, <1>3, <1>4, <2>1
<1>7. ASSUME NEW i \in 1..Len(b) PROVE all[Len(a) + i] = b[i]
  <2>1. Len(a) + i \in 1..Len(ab) /\ Len(a) + i \in 1..Len(abc) /\ Len(a) + i \in 1..Len(abcd)
    BY <1>0, <1>5
  <2> QED
    BY <1>1, <1>2, <1>3, <1>4, <2>1
<1>8. ASSUME NEW i \in 1..Len(c) PROVE all[Len(a) + Len(b) + i] = c[i]
  <2>1. Len(a) + Len(b) + i \in 1..Len(abc) /\ Len(a) + Len(b) + i \in 1..Len(abcd)
    BY <1>0, <1>5
  <2> QED
    BY <1>2, <1>3, <1>4, <1>5, <2>1
<1>9. ASSUME NEW i \in 1..Len(d) PROVE all[Len(a) + Len(b) + Len(c) + i] = d[i]
  <2>1. Len(a) + Len(b) + Len(c) + i \in 1..Len(abcd)
    BY <1>0, <1>5
  <2> QED
    BY <1>3, <1>4, <1>5, <2>1
<1>10. Len(all) = Len(a) + Len(b) + Len(c) + Len(d) + Len(e)
  BY <1>4, <1>5
<1>11. \A i \in 1..Len(e) : all[Len(a) + Len(b) + Len(c) + Len(d) + i] = e[i]
  BY <1>4, <1>5
<1> QED
  BY <1>4, <1>6, <1>7, <1>8, <1>9, <1>10, <1>11 DEF InLine
=============================================================================
