-------------------------------- MODULE Totals --------------------------------
(***************************************************************************)
(* Sums over finite sets, for the proofs about budgets and ledgers, and    *)
(* what the loop of Selection keeps, for those about scopes.  The          *)
(* models add with MapThenSumSet, whose recursion the provers cannot       *)
(* unfold; here the sum is the cardinality of a set of dots, f[x] of them  *)
(* for each x, and the recursion is shown to compute exactly that.  The    *)
(* induction is a least counterexample, so it needs no operator parameter. *)
(***************************************************************************)
EXTENDS Integers, FiniteSets, FiniteSetsExt, Selection, FiniteSetTheorems, SequenceTheorems,
        WellFoundedInduction, TLAPS

\* f[x] dots in the row of every x of S, and how many dots that makes.
Dots(f, S) == UNION {{x} \X (1 .. f[x]) : x \in S}
Total(f, S) == Cardinality(Dots(f, S))

\* A dot is a row of S and a place in it.
LEMMA DotsMember ==
    ASSUME NEW f, NEW S, NEW p
    PROVE  p \in Dots(f, S) <=> \E x \in S : \E i \in 1 .. f[x] : p = <<x, i>>
BY DEF Dots

\* One more element adds its own row.
LEMMA DotsAdd ==
    ASSUME NEW f, NEW S, NEW x
    PROVE  Dots(f, S \cup {x}) = Dots(f, S) \cup ({x} \X (1 .. f[x]))
BY DEF Dots

\* A row has as many dots as its number says.
LEMMA RowSize ==
    ASSUME NEW x, NEW n \in Nat
    PROVE  IsFiniteSet({x} \X (1 .. n)) /\ Cardinality({x} \X (1 .. n)) = n
<1>1. IsFiniteSet({x}) /\ Cardinality({x}) = 1
  BY FS_Singleton
<1>2. IsFiniteSet(1 .. n) /\ Cardinality(1 .. n) = n
  BY FS_Interval
<1>3. /\ IsFiniteSet({x} \X (1 .. n))
      /\ Cardinality({x} \X (1 .. n)) = Cardinality({x}) * Cardinality(1 .. n)
  BY <1>1, <1>2, FS_Product
<1> QED
  BY <1>1, <1>2, <1>3

\* A set of natural numbers that is not empty has a least member.
LEMMA LeastMember ==
    ASSUME NEW S \in SUBSET Nat, S # {}
    PROVE  \E n \in S : \A m \in S : n <= m
<1>1. IsWellFoundedOn(OpToRel(<, Nat), Nat)
  BY NatLessThanWellFounded, Zenon
<1>2. PICK x \in S : \A y \in S : ~(<<y, x>> \in OpToRel(<, Nat))
  BY <1>1, WFMin, Zenon
<1>3. \A y \in S : ~(y < x)
  BY <1>2, Zenon DEF OpToRel
<1> QED
  BY <1>3

\* Induction over the subsets of a finite set, stated of the set G of the good ones: the
\* smallest bad subset has an element, and without it would be good.
LEMMA FiniteInduction ==
    ASSUME NEW S, IsFiniteSet(S), NEW G, {} \in G,
           \A T \in SUBSET S : T # {} /\ (\A x \in T : T \ {x} \in G) => T \in G
    PROVE  \A T \in SUBSET S : T \in G
<1> SUFFICES ASSUME NEW B \in SUBSET S, B \notin G PROVE FALSE
  OBVIOUS
<1> DEFINE Bad == {Cardinality(T) : T \in (SUBSET S) \ G}
<1>1. \A T \in SUBSET S : IsFiniteSet(T) /\ Cardinality(T) \in Nat
  BY FS_Subset, FS_CardinalityType
<1>2. Bad \in SUBSET Nat /\ Cardinality(B) \in Bad
  BY <1>1
<1> HIDE DEF Bad
<1>3. PICK n \in Bad : \A m \in Bad : n <= m
  <2>1. Bad # {}
    BY <1>2
  <2> QED
    BY <1>2, <2>1, LeastMember
<1>4. PICK T \in (SUBSET S) \ G : n = Cardinality(T)
  BY <1>3 DEF Bad
<1>5. ASSUME NEW x \in T PROVE T \ {x} \in G
  <2> SUFFICES ASSUME T \ {x} \notin G PROVE FALSE
    OBVIOUS
  <2>1. /\ T \ {x} \in SUBSET S /\ Cardinality(T \ {x}) = Cardinality(T) - 1
        /\ Cardinality(T) \in Nat
    BY <1>1, <1>4, <1>5, FS_RemoveElement
  <2>2. Cardinality(T \ {x}) \in Bad
    BY <2>1 DEF Bad
  <2>3. Cardinality(T) <= Cardinality(T \ {x})
    BY <1>3, <1>4, <2>2
  <2> QED
    BY <2>1, <2>3
<1> QED
  BY <1>4, <1>5

\* Finitely many rows hold finitely many dots.
LEMMA DotsFinite ==
    ASSUME NEW S, IsFiniteSet(S), NEW f, \A x \in S : f[x] \in Nat
    PROVE  IsFiniteSet(Dots(f, S))
<1> DEFINE G == {T \in SUBSET S : IsFiniteSet(Dots(f, T))}
<1>1. {} \in G
  <2>1. Dots(f, {}) = {}
    BY DEF Dots
  <2> QED
    BY <2>1, FS_EmptySet
<1>2. ASSUME NEW T \in SUBSET S, T # {}, \A x \in T : T \ {x} \in G
      PROVE  T \in G
  <2>0. PICK x \in T : TRUE
    BY <1>2
  <2>1. Dots(f, T) = Dots(f, T \ {x}) \cup ({x} \X (1 .. f[x]))
    <3>1. T = (T \ {x}) \cup {x}
      OBVIOUS
    <3> QED
      BY <3>1, DotsAdd
  <2>2. IsFiniteSet({x} \X (1 .. f[x]))
    BY <1>2, RowSize
  <2>3. IsFiniteSet(Dots(f, T \ {x}))
    BY <1>2
  <2> DEFINE D == Dots(f, T \ {x})
             R == {x} \X (1 .. f[x])
  <2> HIDE DEF D, R
  <2>4. IsFiniteSet(D \cup R)
    BY <2>2, <2>3, FS_Union DEF D, R
  <2>5. IsFiniteSet(Dots(f, T))
    BY <2>1, <2>4 DEF D, R
  <2> QED
    BY <2>5
<1> HIDE DEF G
<1>3. \A T \in SUBSET S : T # {} /\ (\A x \in T : T \ {x} \in G) => T \in G
  BY <1>2
<1>4. \A T \in SUBSET S : T \in G
  BY <1>1, <1>3, FiniteInduction
<1> QED
  BY <1>4 DEF G

\* The sum over nothing is zero.
LEMMA TotalEmpty == \A f : Total(f, {}) = 0
<1> TAKE f
<1>1. Dots(f, {}) = {}
  BY DEF Dots
<1> QED
  BY <1>1, FS_EmptySet DEF Total

\* One more element adds its share.
LEMMA TotalAdd ==
    ASSUME NEW S, IsFiniteSet(S), NEW x, x \notin S, NEW f, \A y \in S \cup {x} : f[y] \in Nat
    PROVE  /\ Total(f, S) \in Nat /\ Total(f, S \cup {x}) \in Nat
           /\ Total(f, S \cup {x}) = f[x] + Total(f, S)
<1> DEFINE D == Dots(f, S)
           R == {x} \X (1 .. f[x])
<1>1. IsFiniteSet(D)
  BY DotsFinite
<1>2. IsFiniteSet(R) /\ Cardinality(R) = f[x]
  BY RowSize
<1>3. D \cap R = {}
  BY DotsMember
<1>4. Dots(f, S \cup {x}) = D \cup R
  BY DotsAdd
<1> HIDE DEF D, R
<1>5. Cardinality(D) \in Nat
  BY <1>1, FS_CardinalityType
<1>6. Cardinality(D \cup R) = Cardinality(D) + Cardinality(R) - Cardinality(D \cap R)
  BY <1>1, <1>2, FS_Union
<1>7. Cardinality(D \cap R) = 0
  BY <1>3, FS_EmptySet
<1>8. f[x] \in Nat
  OBVIOUS
<1>9. Total(f, S) = Cardinality(D) /\ Total(f, S \cup {x}) = Cardinality(D \cup R)
  BY <1>4 DEF Total, D
<1> QED
  BY <1>2, <1>5, <1>6, <1>7, <1>8, <1>9

\* The recursion of MapThenFoldSet, for the sum of f over the subsets of S.
Iterates(it, f, S) ==
    it = [s \in SUBSET S |-> IF s = {} THEN 0
                             ELSE f[CHOOSE x \in s : TRUE] + it[s \ {CHOOSE x \in s : TRUE}]]

\* Whatever satisfies the recursion computes the sum.
LEMMA IterIsTotal ==
    ASSUME NEW S, IsFiniteSet(S), NEW f, \A x \in S : f[x] \in Nat,
           NEW it, Iterates(it, f, S)
    PROVE  it[S] = Total(f, S)
<1>0. it = [s \in SUBSET S |-> IF s = {} THEN 0
              ELSE f[CHOOSE x \in s : TRUE] + it[s \ {CHOOSE x \in s : TRUE}]]
  BY DEF Iterates
<1> DEFINE c(s) == CHOOSE x \in s : TRUE
           G == {T \in SUBSET S : it[T] = Total(f, T)}
<1>1. {} \in G
  BY <1>0, TotalEmpty
<1>2. ASSUME NEW T \in SUBSET S, T # {}, \A x \in T : T \ {x} \in G
      PROVE  T \in G
  <2>1. c(T) \in T
    BY <1>2
  <2>2. it[T] = f[c(T)] + it[T \ {c(T)}]
    BY <1>0, <2>1
  <2>3. it[T \ {c(T)}] = Total(f, T \ {c(T)})
    BY <1>2, <2>1
  <2> DEFINE U == T \ {c(T)}
             z == c(T)
  <2>4. T = U \cup {z} /\ z \notin U /\ IsFiniteSet(U) /\ \A x \in U \cup {z} : f[x] \in Nat
    BY <2>1, FS_Subset
  <2> HIDE DEF U, z
  <2>5. Total(f, U \cup {z}) = f[z] + Total(f, U)
    BY <2>4, TotalAdd
  <2> QED
    BY <2>2, <2>3, <2>4, <2>5 DEF U, z
<1> HIDE DEF G
<1>3. \A T \in SUBSET S : T # {} /\ (\A x \in T : T \ {x} \in G) => T \in G
  BY <1>2
<1>4. \A T \in SUBSET S : T \in G
  BY <1>1, <1>3, FiniteInduction
<1> QED
  BY <1>4 DEF G

\* The recursion has a solution.
LEMMA TotalIsIter ==
    ASSUME NEW S, IsFiniteSet(S), NEW f, \A x \in S : f[x] \in Nat
    PROVE  \E it : Iterates(it, f, S)
<1> DEFINE it == [s \in SUBSET S |-> Total(f, s)]
           c(s) == CHOOSE x \in s : TRUE
<1>1. ASSUME NEW s \in SUBSET S, s # {}
      PROVE  Total(f, s) = f[c(s)] + it[s \ {c(s)}]
  <2> DEFINE z == c(s)
             U == s \ {z}
  <2>1. /\ s = U \cup {z} /\ z \notin U /\ IsFiniteSet(U) /\ U \in SUBSET S
        /\ \A x \in U \cup {z} : f[x] \in Nat
    BY <1>1, FS_Subset
  <2>2. it[U] = Total(f, U)
    BY <2>1
  <2> HIDE DEF z, U, it
  <2>3. Total(f, U \cup {z}) = f[z] + Total(f, U)
    BY <2>1, TotalAdd
  <2> QED
    BY <2>1, <2>2, <2>3 DEF z, U
<1>2. it = [s \in SUBSET S |-> IF s = {} THEN 0
              ELSE f[CHOOSE x \in s : TRUE] + it[s \ {CHOOSE x \in s : TRUE}]]
  BY <1>1, TotalEmpty
<1>3. Iterates(it, f, S)
  BY <1>2 DEF Iterates
<1> QED
  BY <1>3

\* A sum over a finite set is a natural number.
LEMMA TotalType ==
    ASSUME NEW S, IsFiniteSet(S), NEW f, \A x \in S : f[x] \in Nat
    PROVE  Total(f, S) \in Nat
BY DotsFinite, FS_CardinalityType DEF Total

\* Taking an element away takes its share away.
LEMMA TotalRemove ==
    ASSUME NEW S, IsFiniteSet(S), NEW x \in S, NEW f, \A y \in S : f[y] \in Nat
    PROVE  /\ Total(f, S) \in Nat /\ Total(f, S \ {x}) \in Nat
           /\ Total(f, S \ {x}) = Total(f, S) - f[x]
<1> DEFINE U == S \ {x}
<1>1. S = U \cup {x} /\ x \notin U /\ IsFiniteSet(U) /\ f[x] \in Nat
  BY FS_Subset
<1> HIDE DEF U
<1>2. /\ Total(f, U) \in Nat /\ Total(f, U \cup {x}) \in Nat
      /\ Total(f, U \cup {x}) = f[x] + Total(f, U)
  BY <1>1, TotalAdd
<1> QED
  BY <1>1, <1>2 DEF U

\* Functions that agree on a set have the same sum over it.
LEMMA TotalSame ==
    ASSUME NEW S, NEW f, NEW g, \A x \in S : f[x] = g[x]
    PROVE  Total(f, S) = Total(g, S)
<1>1. Dots(f, S) = Dots(g, S)
  BY DEF Dots
<1> QED
  BY <1>1 DEF Total

\* What MapThenSumSet chooses, for a function, is its total.
LEMMA ChosenIsTotal ==
    ASSUME NEW A, IsFiniteSet(A), NEW f, \A x \in A : f[x] \in Nat
    PROVE  (CHOOSE it : Iterates(it, f, A))[A] = Total(f, A)
<1>1. \E it : Iterates(it, f, A)
  BY TotalIsIter
<1>2. Iterates(CHOOSE it : Iterates(it, f, A), f, A)
  BY <1>1, Zenon
<1> QED
  BY <1>2, IterIsTotal

\* MapThenSumSet of a function is its total.
LEMMA SumIsTotal ==
    ASSUME NEW A, IsFiniteSet(A), NEW f, \A x \in A : f[x] \in Nat
    PROVE  MapThenSumSet(LAMBDA e : f[e], A) = Total(f, A)
<1>1. MapThenSumSet(LAMBDA e : f[e], A) = (CHOOSE it : Iterates(it, f, A))[A]
  BY DEF MapThenSumSet, MapThenFoldSet, Iterates
<1> QED
  BY <1>1, ChosenIsTotal

\* A sum over two disjoint sets is the two sums.
LEMMA TotalUnion ==
    ASSUME NEW A, IsFiniteSet(A), NEW B, IsFiniteSet(B), A \cap B = {},
           NEW f, \A x \in A \cup B : f[x] \in Nat
    PROVE  /\ Total(f, A) \in Nat /\ Total(f, B) \in Nat
           /\ Total(f, A \cup B) = Total(f, A) + Total(f, B)
<1> DEFINE D == Dots(f, A)
           R == Dots(f, B)
<1>1. IsFiniteSet(D) /\ IsFiniteSet(R)
  BY DotsFinite
<1>2. Dots(f, A \cup B) = D \cup R /\ D \cap R = {}
  <2>1. Dots(f, A \cup B) = D \cup R
    BY DEF Dots
  <2>2. D \cap R = {}
    BY DotsMember
  <2> QED
    BY <2>1, <2>2
<1>3. /\ Total(f, A) = Cardinality(D) /\ Total(f, B) = Cardinality(R)
      /\ Total(f, A \cup B) = Cardinality(D \cup R)
  BY <1>2 DEF Total
<1> HIDE DEF D, R
<1>4. Cardinality(D \cup R) = Cardinality(D) + Cardinality(R) - Cardinality(D \cap R)
  BY <1>1, FS_Union
<1>5. Cardinality(D) \in Nat /\ Cardinality(R) \in Nat /\ Cardinality(D \cap R) = 0
  BY <1>1, <1>2, FS_CardinalityType, FS_EmptySet
<1> QED
  BY <1>3, <1>4, <1>5

\* Functions that differ in one place have sums that differ by as much.
LEMMA TotalChange ==
    ASSUME NEW S, IsFiniteSet(S), NEW x \in S, NEW f, NEW g,
           \A y \in S : f[y] \in Nat /\ g[y] \in Nat,
           \A y \in S : y # x => f[y] = g[y]
    PROVE  /\ Total(f, S) \in Nat /\ Total(g, S) \in Nat
           /\ Total(g, S) = Total(f, S) - f[x] + g[x]
<1>1. /\ Total(f, S) \in Nat /\ Total(f, S \ {x}) = Total(f, S) - f[x]
  BY TotalRemove
<1>2. /\ Total(g, S) \in Nat /\ Total(g, S \ {x}) = Total(g, S) - g[x]
  BY TotalRemove
<1>3. Total(f, S \ {x}) = Total(g, S \ {x})
  BY TotalSame
<1>4. f[x] \in Nat /\ g[x] \in Nat
  OBVIOUS
<1> QED
  BY <1>1, <1>2, <1>3, <1>4

\* A sum whose terms are some of another's, each taken once, is at most the other.
LEMMA TotalOfSome ==
    ASSUME NEW S, NEW T, IsFiniteSet(T), NEW f, NEW g, \A y \in T : g[y] \in Nat,
           NEW pi \in [S -> T], \A x, y \in S : pi[x] = pi[y] => x = y,
           \A x \in S : f[x] = g[pi[x]]
    PROVE  Total(f, S) <= Total(g, T)
<1> DEFINE D == Dots(f, S)
           R == Dots(g, T)
           h == [d \in D |-> <<pi[d[1]], d[2]>>]
<1>1. ASSUME NEW d \in D
      PROVE  /\ d[1] \in S /\ d[2] \in 1 .. f[d[1]] /\ d = <<d[1], d[2]>>
             /\ h[d] \in R
  <2>1. PICK x \in S : \E j \in 1 .. f[x] : d = <<x, j>>
    BY DotsMember
  <2>2. PICK j \in 1 .. f[x] : d = <<x, j>>
    BY <2>1
  <2>3. d[1] = x /\ d[2] = j
    BY <2>2
  <2>4. pi[x] \in T /\ j \in 1 .. g[pi[x]]
    OBVIOUS
  <2>5. h[d] = <<pi[x], j>>
    BY <2>3
  <2>6. h[d] \in R
    BY <2>4, <2>5, DotsMember
  <2> QED
    BY <2>2, <2>3, <2>6
<1>2. ASSUME NEW c \in D, NEW d \in D, h[c] = h[d] PROVE c = d
  <2>1. h[c] = <<pi[c[1]], c[2]>> /\ h[d] = <<pi[d[1]], d[2]>>
    OBVIOUS
  <2>2. pi[c[1]] = pi[d[1]] /\ c[2] = d[2]
    BY <1>2, <2>1
  <2>3. c[1] \in S /\ d[1] \in S /\ c = <<c[1], c[2]>> /\ d = <<d[1], d[2]>>
    BY <1>1
  <2> QED
    BY <2>2, <2>3
<1>3. h \in [D -> R]
  BY <1>1
<1>4. IsFiniteSet(R)
  BY DotsFinite
<1> HIDE DEF D, R, h
<1>5. h \in Injection(D, R)
  BY <1>2, <1>3 DEF Injection, IsInjective
<1> QED
  BY <1>4, <1>5, FS_Injection DEF Total, D, R

\* The sum of the pointwise sum is the sum of the sums.
LEMMA TotalPlus ==
    ASSUME NEW S, IsFiniteSet(S), NEW f, NEW g, NEW h,
           \A x \in S : f[x] \in Nat /\ g[x] \in Nat /\ h[x] = f[x] + g[x]
    PROVE  /\ Total(f, S) \in Nat /\ Total(g, S) \in Nat /\ Total(h, S) \in Nat
           /\ Total(h, S) = Total(f, S) + Total(g, S)
<1> DEFINE G == {T \in SUBSET S : Total(h, T) = Total(f, T) + Total(g, T)}
<1>0. \A x \in S : h[x] \in Nat
  OBVIOUS
<1>1. {} \in G
  BY TotalEmpty
<1>2. ASSUME NEW T \in SUBSET S, T # {}, \A x \in T : T \ {x} \in G
      PROVE  T \in G
  <2>1. PICK x \in T : TRUE
    BY <1>2
  <2> DEFINE U == T \ {x}
  <2>2. IsFiniteSet(T)
    BY FS_Subset
  <2>3. /\ Total(f, T) \in Nat /\ Total(f, U) \in Nat /\ Total(f, U) = Total(f, T) - f[x]
    BY <2>2, TotalRemove
  <2>4. /\ Total(g, T) \in Nat /\ Total(g, U) \in Nat /\ Total(g, U) = Total(g, T) - g[x]
    BY <2>2, TotalRemove
  <2>5. /\ Total(h, T) \in Nat /\ Total(h, U) \in Nat /\ Total(h, U) = Total(h, T) - h[x]
    BY <1>0, <2>2, TotalRemove
  <2>6. Total(h, U) = Total(f, U) + Total(g, U)
    BY <1>2
  <2>7. x \in S /\ h[x] = f[x] + g[x] /\ f[x] \in Nat /\ g[x] \in Nat
    OBVIOUS
  <2> HIDE DEF U
  <2>8. Total(h, T) = Total(f, T) + Total(g, T)
    BY <2>3, <2>4, <2>5, <2>6, <2>7
  <2> QED
    BY <2>8
<1> HIDE DEF G
<1>3. \A T \in SUBSET S : T \in G
  BY <1>1, <1>2, FiniteInduction
<1>4. S \in G
  BY <1>3
<1> QED
  BY <1>0, <1>4, TotalType DEF G

-------------------------------------------------------------------------------
(* Filtering a sequence.                                                   *)

\* One element of the filter's recursion, and what is kept of the first n elements.
KeepStep(before, e, T) == IF e \in T THEN Append(before, e) ELSE before

Keeps(g, s, T, n) ==
    g = [m \in 0 .. n |-> IF m = 0 THEN <<>> ELSE KeepStep(g[m - 1], s[m], T)]

\* The filter's recursion has a solution, element by element.
LEMMA KeepsExists ==
    ASSUME NEW s, NEW T, NEW n \in Nat
    PROVE  \E g : Keeps(g, s, T, n)
<1> DEFINE Bad == {m \in Nat : ~ \E g : Keeps(g, s, T, m)}
<1>1. SUFFICES ASSUME Bad # {} PROVE FALSE
  OBVIOUS
<1>2. PICK k \in Bad : \A m \in Bad : k <= m
  BY <1>1, LeastMember
<1>3. k # 0
  <2>1. Keeps([m \in 0 .. 0 |-> <<>>], s, T, 0)
    BY DEF Keeps
  <2> QED
    BY <2>1
<1>4. k - 1 \in Nat /\ k - 1 \notin Bad
  BY <1>2, <1>3
<1>5. PICK g : Keeps(g, s, T, k - 1)
  BY <1>4
<1> DEFINE h == [m \in 0 .. k |-> IF m = k THEN KeepStep(g[k - 1], s[k], T) ELSE g[m]]
<1>6. Keeps(h, s, T, k)
  <2>1. \A m \in 0 .. k - 1 : g[m] = IF m = 0 THEN <<>> ELSE KeepStep(g[m - 1], s[m], T)
    BY <1>5, <1>4 DEF Keeps
  <2>2. \A m \in 0 .. k : h[m] = IF m = 0 THEN <<>> ELSE KeepStep(h[m - 1], s[m], T)
    <3> SUFFICES ASSUME NEW m \in 0 .. k
                 PROVE  h[m] = IF m = 0 THEN <<>> ELSE KeepStep(h[m - 1], s[m], T)
      OBVIOUS
    <3>1. CASE m = k
      <4>1. h[k] = KeepStep(g[k - 1], s[k], T) /\ h[k - 1] = g[k - 1]
        BY <1>3
      <4> QED
        BY <3>1, <4>1, <1>3
    <3>2. CASE m # k
      <4>1. m \in 0 .. k - 1 /\ (m # 0 => m - 1 \in 0 .. k /\ m - 1 # k)
        BY <3>2
      <4>2. h[m] = g[m] /\ (m # 0 => h[m - 1] = g[m - 1])
        BY <3>2, <4>1
      <4> QED
        BY <4>1, <4>2, <2>1
    <3> QED
      BY <3>1, <3>2
  <2>3. h = [m \in 0 .. k |-> h[m]]
    OBVIOUS
  <2> QED
    BY <2>2, <2>3, Zenon DEF Keeps
<1> QED
  BY <1>6

\* Whatever solves it keeps members of T only.
LEMMA KeepsWithin ==
    ASSUME NEW s, NEW T, NEW n \in Nat, NEW g, Keeps(g, s, T, n), NEW k \in 0 .. n
    PROVE  g[k] \in Seq(T)
<1> DEFINE Bad == {m \in 0 .. n : g[m] \notin Seq(T)}
<1>1. SUFFICES ASSUME Bad # {} PROVE FALSE
  OBVIOUS
<1>2. PICK j \in Bad : \A m \in Bad : j <= m
  <2>1. Bad \in SUBSET Nat
    OBVIOUS
  <2> HIDE DEF Bad
  <2> QED
    BY <1>1, <2>1, LeastMember
<1>3. \A m \in 0 .. n : g[m] = IF m = 0 THEN <<>> ELSE KeepStep(g[m - 1], s[m], T)
  BY DEF Keeps
<1>4. j # 0
  <2>1. g[0] = <<>>
    BY <1>3
  <2>2. <<>> \in Seq(T)
    BY EmptySeq
  <2> QED
    BY <2>1, <2>2
<1>5. j - 1 \in 0 .. n /\ j - 1 \notin Bad
  BY <1>2, <1>4
<1>6. g[j - 1] \in Seq(T)
  BY <1>5
<1>7. g[j] = KeepStep(g[j - 1], s[j], T)
  BY <1>3, <1>4
<1>8. g[j] \in Seq(T)
  BY <1>6, <1>7, AppendProperties DEF KeepStep
<1> QED
  BY <1>8

\* A filtered sequence holds members of the filter's set only.
LEMMA SelectedWithin ==
    ASSUME NEW T, NEW S, NEW s \in Seq(S)
    PROVE  Selected(s, T) \in Seq(T)
<1>1. Selected(s, T) = (CHOOSE g : Keeps(g, s, T, Len(s)))[Len(s)]
  BY DEF Selected, Keeps, KeepStep
<1>2. Len(s) \in Nat
  BY LenProperties
<1>3. \E g : Keeps(g, s, T, Len(s))
  BY <1>2, KeepsExists
<1>4. Keeps(CHOOSE g : Keeps(g, s, T, Len(s)), s, T, Len(s))
  BY <1>3
<1> QED
  BY <1>1, <1>2, <1>4, KeepsWithin
===============================================================================
