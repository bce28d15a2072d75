-------------------------------- MODULE Sums --------------------------------
(***************************************************************************)
(* What SumFunction of the community modules computes on a finite domain:  *)
(* the facts about totals the components' proofs rest on. SumFunction is a *)
(* recursive function over the subsets of its domain, so each fact is an   *)
(* induction; it is carried out on a minimal counterexample, which a        *)
(* well-founded order (strict inclusion of finite sets) always has.        *)
(***************************************************************************)
EXTENDS Integers, FiniteSets, Functions, FiniteSetTheorems, TLAPS

\* The element the fold takes from a set.
Pick(s) == CHOOSE x \in s : TRUE

\* One unfolding of the recursive function behind the sum over S.
Unfold(fun, S, g) ==
    [s \in SUBSET S |-> IF s = {} THEN 0 ELSE fun[Pick(s)] + g[s \ {Pick(s)}]]

Iter(fun, S) == CHOOSE g : g = Unfold(fun, S, g)

(* SumFunctionOnSet in these terms. *)
LEMMA SumIsIter == \A fun, S : SumFunctionOnSet(fun, S) = Iter(fun, S)[S]
BY DEF SumFunctionOnSet, FoldFunctionOnSet, MapThenFoldSet, Iter, Unfold, Pick

LEMMA PickIn == ASSUME NEW s, s # {} PROVE Pick(s) \in s
BY DEF Pick

(* A set of subsets of a finite set has a minimal member. *)
LEMMA MinimalSubset ==
    ASSUME NEW S, IsFiniteSet(S), NEW F \in SUBSET SUBSET S, F # {}
    PROVE  \E T \in F : \A U \in F : U \subseteq T => U = T
<1>1. IsWellFoundedOn(StrictSubsetOrdering(S), SUBSET S)
    BY FS_StrictSubsetOrderingWellFounded, FS_FiniteSubsetsOfFinite
<1>2. PICK T \in F : \A U \in F : <<U, T>> \notin StrictSubsetOrdering(S)
    BY <1>1, WFMin
<1>3. ASSUME NEW U \in F, U \subseteq T, U # T PROVE FALSE
    BY <1>2, <1>3 DEF StrictSubsetOrdering
<1> QED BY <1>3

(* Two functions that satisfy the recursion agree wherever both are defined. *)
LEMMA UnfoldUnique ==
    ASSUME NEW fun, NEW A, NEW B, IsFiniteSet(A), NEW g, NEW h,
           g = Unfold(fun, A, g), h = Unfold(fun, B, h)
    PROVE  \A s \in SUBSET (A \cap B) : g[s] = h[s]
<1> DEFINE Bad == {s \in SUBSET (A \cap B) : g[s] # h[s]}
<1>1. SUFFICES ASSUME Bad # {} PROVE FALSE
    OBVIOUS
<1>2. PICK T \in Bad : \A U \in Bad : U \subseteq T => U = T
    <2>1. Bad \in SUBSET SUBSET A
        OBVIOUS
    <2> HIDE DEF Bad
    <2> QED BY <1>1, <2>1, MinimalSubset
<1>3. T \subseteq A /\ T \subseteq B
    OBVIOUS
<1>4. T # {}
    BY <1>3 DEF Unfold
<1>5. /\ g[T] = fun[Pick(T)] + g[T \ {Pick(T)}]
      /\ h[T] = fun[Pick(T)] + h[T \ {Pick(T)}]
    BY <1>3, <1>4 DEF Unfold
<1>6. T \ {Pick(T)} \notin Bad
    BY <1>2, <1>4, PickIn
<1>7. g[T \ {Pick(T)}] = h[T \ {Pick(T)}]
    BY <1>6
<1> QED BY <1>5, <1>7

(* The recursion has a solution on a finite set, and Iter is it. *)
LEMMA IterUnfolds ==
    ASSUME NEW fun, NEW S, IsFiniteSet(S)
    PROVE  Iter(fun, S) = Unfold(fun, S, Iter(fun, S))
<1> DEFINE Solvable(T) == \E g : g = Unfold(fun, T, g)
           Bad == {T \in SUBSET S : ~Solvable(T)}
<1>1. SUFFICES Solvable(S)
    BY DEF Iter
<1>2. SUFFICES ASSUME Bad # {} PROVE FALSE
    OBVIOUS
<1>3. PICK T \in Bad : \A U \in Bad : U \subseteq T => U = T
    <2>1. Bad \in SUBSET SUBSET S
        OBVIOUS
    <2> HIDE DEF Bad
    <2> QED BY <1>2, <2>1, MinimalSubset
<1>4. ASSUME NEW U \in SUBSET T, U # T
      PROVE  IsFiniteSet(U) /\ Iter(fun, U) = Unfold(fun, U, Iter(fun, U))
    <2>1. Solvable(U)
        BY <1>3, <1>4
    <2>2. IsFiniteSet(U)
        BY FS_Subset
    <2> QED BY <2>1, <2>2 DEF Iter
<1> DEFINE Value(r) == Iter(fun, r)[r]
           G == [s \in SUBSET T |-> IF s = {} THEN 0
                                    ELSE fun[Pick(s)] + Value(s \ {Pick(s)})]
<1>5. ASSUME NEW r \in SUBSET T, r # T PROVE Value(r) = G[r]
    <2>1. CASE r = {}
        BY <1>4, <1>5, <2>1 DEF Unfold
    <2>2. CASE r # {}
        <3> DEFINE q == r \ {Pick(r)}
        <3>1. q \subseteq T /\ q # T /\ q \subseteq r
            BY <1>5
        <3>2. Value(r) = fun[Pick(r)] + Iter(fun, r)[q]
            BY <1>4, <1>5, <2>2 DEF Unfold
        <3>3. Iter(fun, r)[q] = Iter(fun, q)[q]
            BY <1>4, <1>5, <3>1, UnfoldUnique
        <3>4. G[r] = fun[Pick(r)] + Value(q)
            BY <2>2
        <3> QED BY <3>2, <3>3, <3>4
    <2> QED BY <2>1, <2>2
<1>6. \A s \in SUBSET T : s # {} => Value(s \ {Pick(s)}) = G[s \ {Pick(s)}]
    <2> HIDE DEF Value, G
    <2> SUFFICES ASSUME NEW s \in SUBSET T, s # {}
                 PROVE  Value(s \ {Pick(s)}) = G[s \ {Pick(s)}]
        OBVIOUS
    <2>1. s \ {Pick(s)} \subseteq T /\ s \ {Pick(s)} # T
        BY PickIn
    <2> QED BY <1>5, <2>1
<1>7. G = Unfold(fun, T, G)
    <2> HIDE DEF Value
    <2> QED BY <1>6 DEF Unfold
<1> QED BY <1>7

-----------------------------------------------------------------------------

(* The sum over the empty set is 0, and the sum over any other finite set is *)
(* the value of one element and the sum over the rest.                       *)
LEMMA SumUnfolds ==
    ASSUME NEW fun
    PROVE  /\ SumFunctionOnSet(fun, {}) = 0
           /\ \A S : IsFiniteSet(S) /\ S # {}
                => SumFunctionOnSet(fun, S)
                       = fun[Pick(S)] + SumFunctionOnSet(fun, S \ {Pick(S)})
<1>1. SumFunctionOnSet(fun, {}) = 0
    <2>1. Iter(fun, {}) = Unfold(fun, {}, Iter(fun, {}))
        BY IterUnfolds, FS_EmptySet
    <2>2. Iter(fun, {})[{}] = 0
        BY <2>1 DEF Unfold
    <2> QED BY <2>2, SumIsIter
<1>2. ASSUME NEW S, IsFiniteSet(S), S # {}
      PROVE  SumFunctionOnSet(fun, S)
                 = fun[Pick(S)] + SumFunctionOnSet(fun, S \ {Pick(S)})
    <2> DEFINE R == S \ {Pick(S)}
    <2>1. IsFiniteSet(R) /\ R \subseteq S
        BY <1>2, FS_Subset
    <2>2. /\ Iter(fun, S) = Unfold(fun, S, Iter(fun, S))
          /\ Iter(fun, R) = Unfold(fun, R, Iter(fun, R))
        BY <1>2, <2>1, IterUnfolds
    <2>3. Iter(fun, S)[S] = fun[Pick(S)] + Iter(fun, S)[R]
        BY <1>2, <2>2 DEF Unfold
    <2>4. Iter(fun, S)[R] = Iter(fun, R)[R]
        BY <1>2, <2>1, <2>2, UnfoldUnique
    <2> QED BY <2>3, <2>4, SumIsIter
<1> QED BY <1>1, <1>2

(* The sum of integers is an integer, of naturals a natural, of zeros 0. *)
LEMMA SumType ==
    ASSUME NEW D, IsFiniteSet(D), NEW fun \in [D -> Int]
    PROVE  \A S \in SUBSET D :
              /\ SumFunctionOnSet(fun, S) \in Int
              /\ (\A x \in S : fun[x] >= 0) => SumFunctionOnSet(fun, S) >= 0
              /\ (\A x \in S : fun[x] = 0) => SumFunctionOnSet(fun, S) = 0
<1> DEFINE Good(S) ==
              /\ SumFunctionOnSet(fun, S) \in Int
              /\ (\A x \in S : fun[x] >= 0) => SumFunctionOnSet(fun, S) >= 0
              /\ (\A x \in S : fun[x] = 0) => SumFunctionOnSet(fun, S) = 0
           Bad == {S \in SUBSET D : ~Good(S)}
<1>1. SUFFICES ASSUME Bad # {} PROVE FALSE
    OBVIOUS
<1>2. PICK T \in Bad : \A U \in Bad : U \subseteq T => U = T
    <2>1. Bad \in SUBSET SUBSET D
        OBVIOUS
    <2> HIDE DEF Bad
    <2> QED BY <1>1, <2>1, MinimalSubset
<1>3. T # {}
    BY SumUnfolds
<1> DEFINE p == Pick(T)
           R == T \ {p}
<1>4. p \in T /\ p \in D /\ R \subseteq T /\ R # T /\ fun[p] \in Int
    BY <1>3, PickIn
<1>5. SumFunctionOnSet(fun, T) = fun[p] + SumFunctionOnSet(fun, R)
    BY <1>3, SumUnfolds, FS_Subset
<1>6. Good(R)
    BY <1>2, <1>4
<1>7. Good(T)
    <2> HIDE DEF p, R
    <2>1. \A x \in R : x \in T
        BY <1>4
    <2> QED BY <1>4, <1>5, <1>6, <2>1
<1> QED BY <1>7

(* The sum over a set is the value of any element and the sum over the rest: *)
(* the order of the fold does not matter.                                    *)
LEMMA SumRemove ==
    ASSUME NEW D, IsFiniteSet(D), NEW fun \in [D -> Int]
    PROVE  \A S \in SUBSET D : \A x \in S :
              SumFunctionOnSet(fun, S) = fun[x] + SumFunctionOnSet(fun, S \ {x})
<1> DEFINE Good(S) == \A x \in S :
              SumFunctionOnSet(fun, S) = fun[x] + SumFunctionOnSet(fun, S \ {x})
           Bad == {S \in SUBSET D : ~Good(S)}
<1>1. SUFFICES ASSUME Bad # {} PROVE FALSE
    OBVIOUS
<1>2. PICK T \in Bad : \A U \in Bad : U \subseteq T => U = T
    <2>1. Bad \in SUBSET SUBSET D
        OBVIOUS
    <2> HIDE DEF Bad
    <2> QED BY <1>1, <2>1, MinimalSubset
<1>3. \A U \in SUBSET T : U # T => Good(U)
    BY <1>2
<1>4. ASSUME NEW x \in T
      PROVE  SumFunctionOnSet(fun, T) = fun[x] + SumFunctionOnSet(fun, T \ {x})
    <2> DEFINE p == Pick(T)
    <2>1. p \in T /\ SumFunctionOnSet(fun, T) = fun[p] + SumFunctionOnSet(fun, T \ {p})
        BY PickIn, SumUnfolds, FS_Subset
    <2>2. CASE x = p
        BY <2>1, <2>2
    <2>3. CASE x # p
        <3> HIDE DEF p
        <3>1. SumFunctionOnSet(fun, T \ {p})
                 = fun[x] + SumFunctionOnSet(fun, (T \ {p}) \ {x})
            <4>1. T \ {p} \in SUBSET T /\ T \ {p} # T /\ x \in T \ {p}
                BY <2>1, <2>3
            <4> QED BY <1>3, <4>1
        <3>2. SumFunctionOnSet(fun, T \ {x})
                 = fun[p] + SumFunctionOnSet(fun, (T \ {x}) \ {p})
            <4>1. T \ {x} \in SUBSET T /\ T \ {x} # T /\ p \in T \ {x}
                BY <2>1, <2>3
            <4> QED BY <1>3, <4>1
        <3>3. (T \ {p}) \ {x} = (T \ {x}) \ {p}
            OBVIOUS
        <3>4. fun[x] \in Int /\ fun[p] \in Int
              /\ SumFunctionOnSet(fun, (T \ {x}) \ {p}) \in Int
            BY <2>1, SumType
        <3> DEFINE W == SumFunctionOnSet(fun, (T \ {x}) \ {p})
        <3>5. SumFunctionOnSet(fun, T) = fun[p] + (fun[x] + W)
            BY <2>1, <3>1, <3>3
        <3>6. SumFunctionOnSet(fun, T \ {x}) = fun[p] + W
            BY <3>2
        <3>7. W \in Int
            BY <3>4
        <3> HIDE DEF W
        <3>8. fun[p] + (fun[x] + W) = fun[x] + (fun[p] + W)
            BY <3>4, <3>7
        <3> QED BY <3>5, <3>6, <3>8
    <2> QED BY <2>2, <2>3
<1> QED BY <1>4

(* Functions that agree on a set have the same sum over it. *)
LEMMA SumAgree ==
    ASSUME NEW D, IsFiniteSet(D), NEW f, NEW g
    PROVE  \A S \in SUBSET D : (\A x \in S : f[x] = g[x])
              => SumFunctionOnSet(f, S) = SumFunctionOnSet(g, S)
<1> DEFINE Good(S) == (\A x \in S : f[x] = g[x])
                         => SumFunctionOnSet(f, S) = SumFunctionOnSet(g, S)
           Bad == {S \in SUBSET D : ~Good(S)}
<1>1. SUFFICES ASSUME Bad # {} PROVE FALSE
    OBVIOUS
<1>2. PICK T \in Bad : \A U \in Bad : U \subseteq T => U = T
    <2>1. Bad \in SUBSET SUBSET D
        OBVIOUS
    <2> HIDE DEF Bad
    <2> QED BY <1>1, <2>1, MinimalSubset
<1>3. T # {}
    BY SumUnfolds
<1> DEFINE p == Pick(T)
           R == T \ {p}
<1>4. p \in T /\ R \subseteq T /\ R # T
    BY <1>3, PickIn
<1>5. /\ SumFunctionOnSet(f, T) = f[p] + SumFunctionOnSet(f, R)
      /\ SumFunctionOnSet(g, T) = g[p] + SumFunctionOnSet(g, R)
    BY <1>3, SumUnfolds, FS_Subset
<1>6. Good(R)
    BY <1>2, <1>4
<1>7. Good(T)
    <2> HIDE DEF p, R
    <2> QED BY <1>4, <1>5, <1>6
<1> QED BY <1>7

-----------------------------------------------------------------------------

(* A total is a number, and no summand exceeds a total of naturals. *)
LEMMA TotalType ==
    ASSUME NEW D, IsFiniteSet(D), NEW f \in [D -> Nat]
    PROVE  /\ SumFunction(f) \in Nat
           /\ \A x \in D : f[x] <= SumFunction(f)
           /\ (\A x \in D : f[x] = 0) => SumFunction(f) = 0
<1>1. f \in [D -> Int] /\ \A x \in D : f[x] >= 0
    OBVIOUS
<1>2. SumFunction(f) = SumFunctionOnSet(f, D)
    BY DEF SumFunction
<1>3. /\ SumFunctionOnSet(f, D) \in Int /\ SumFunctionOnSet(f, D) >= 0
      /\ (\A x \in D : f[x] = 0) => SumFunctionOnSet(f, D) = 0
    BY <1>1, SumType
<1>4. ASSUME NEW x \in D PROVE f[x] <= SumFunctionOnSet(f, D)
    <2>1. /\ SumFunctionOnSet(f, D \ {x}) \in Int
          /\ SumFunctionOnSet(f, D \ {x}) >= 0
        <3>1. D \ {x} \in SUBSET D /\ \A y \in D \ {x} : f[y] >= 0
            BY <1>1
        <3> QED BY <1>1, <3>1, SumType
    <2>2. SumFunctionOnSet(f, D) = f[x] + SumFunctionOnSet(f, D \ {x})
        BY <1>1, SumRemove
    <2> QED BY <2>1, <2>2
<1> QED BY <1>2, <1>3, <1>4

(* Changing one summand changes the total by as much. *)
LEMMA TotalUpdate ==
    ASSUME NEW D, IsFiniteSet(D), NEW f \in [D -> Int], NEW g \in [D -> Int],
           NEW k \in D, \A x \in D \ {k} : g[x] = f[x]
    PROVE  /\ SumFunction(f) \in Int
           /\ SumFunction(g) = SumFunction(f) - f[k] + g[k]
<1>1. SumFunction(f) = SumFunctionOnSet(f, D) /\ SumFunction(g) = SumFunctionOnSet(g, D)
    BY DEF SumFunction
<1>2. /\ SumFunctionOnSet(f, D) = f[k] + SumFunctionOnSet(f, D \ {k})
      /\ SumFunctionOnSet(g, D) = g[k] + SumFunctionOnSet(g, D \ {k})
    BY SumRemove
<1>3. SumFunctionOnSet(f, D \ {k}) = SumFunctionOnSet(g, D \ {k})
    <2>1. D \ {k} \in SUBSET D
        OBVIOUS
    <2> QED BY <2>1, SumAgree
<1>4. SumFunctionOnSet(f, D \ {k}) \in Int /\ f[k] \in Int /\ g[k] \in Int
    BY SumType
<1> QED BY <1>1, <1>2, <1>3, <1>4

(* Taking elements out of a sum takes their values out of it, however the  *)
(* elements taken are numbered.                                            *)
LEMMA SumTake ==
    ASSUME NEW D, IsFiniteSet(D), NEW g \in [D -> Int], NEW S \in SUBSET D,
           NEW T, IsFiniteSet(T), NEW f \in [T -> Int], NEW h \in [T -> S],
           \A x, y \in T : h[x] = h[y] => x = y,
           \A x \in T : g[h[x]] = f[x]
    PROVE  SumFunctionOnSet(g, S)
               = SumFunctionOnSet(g, S \ {h[x] : x \in T}) + SumFunctionOnSet(f, T)
<1> DEFINE Rest(U) == S \ {h[x] : x \in U}
           Good(U) == SumFunctionOnSet(g, S)
                          = SumFunctionOnSet(g, Rest(U)) + SumFunctionOnSet(f, U)
           Bad == {U \in SUBSET T : ~Good(U)}
<1>1. SUFFICES ASSUME Bad # {} PROVE FALSE
    OBVIOUS
<1>2. PICK U \in Bad : \A V \in Bad : V \subseteq U => V = U
    <2>1. Bad \in SUBSET SUBSET T
        OBVIOUS
    <2> HIDE DEF Bad
    <2> QED BY <1>1, <2>1, MinimalSubset
<1>3. U \in SUBSET T /\ ~Good(U)
    OBVIOUS
<1>4. U # {}
    <2>1. SumFunctionOnSet(f, {}) = 0 /\ Rest({}) = S
        BY SumUnfolds
    <2>2. SumFunctionOnSet(g, S) \in Int
        BY SumType
    <2> HIDE DEF Rest
    <2>3. Good({})
        BY <2>1, <2>2
    <2> QED BY <1>3, <2>3
<1>5. PICK x \in U : TRUE
    BY <1>4
<1> DEFINE V == U \ {x}
<1>6. V \notin Bad /\ V \in SUBSET T
    BY <1>2, <1>3, <1>5
<1>7. Good(V)
    BY <1>6
<1>8. h[x] \in Rest(V) /\ Rest(V) \in SUBSET D /\ Rest(V) \ {h[x]} = Rest(U)
    BY <1>3, <1>5
<1>9. SumFunctionOnSet(g, Rest(V)) = f[x] + SumFunctionOnSet(g, Rest(U))
    <2> HIDE DEF Rest, V
    <2>1. SumFunctionOnSet(g, Rest(V)) = g[h[x]] + SumFunctionOnSet(g, Rest(V) \ {h[x]})
        BY <1>8, SumRemove
    <2> QED BY <1>3, <1>5, <1>8, <2>1
<1>10. SumFunctionOnSet(f, U) = f[x] + SumFunctionOnSet(f, V)
    BY <1>3, <1>5, SumRemove
<1>11. /\ SumFunctionOnSet(g, Rest(U)) \in Int /\ SumFunctionOnSet(f, V) \in Int
       /\ f[x] \in Int
    <2>1. Rest(U) \in SUBSET D
        OBVIOUS
    <2> HIDE DEF Rest, V
    <2> QED BY <1>3, <1>5, <1>6, <2>1, SumType
<1>12. Good(U)
    <2> HIDE DEF Rest, V
    <2> QED BY <1>7, <1>9, <1>10, <1>11
<1> QED BY <1>3, <1>12

(* A finite set of numbers has a largest member. *)
LEMMA HasLargest ==
    ASSUME NEW S, \A x \in S : x \in Nat, IsFiniteSet(S), S # {}
    PROVE  \E m \in S : \A x \in S : x <= m
<1> DEFINE Up(x) == {y \in S : y >= x}
           F == {Up(x) : x \in S}
<1>1. F \in SUBSET SUBSET S /\ F # {}
    OBVIOUS
<1>2. PICK T \in F : \A U \in F : U \subseteq T => U = T
    <2> HIDE DEF F
    <2> QED BY <1>1, MinimalSubset
<1>3. PICK m \in S : T = Up(m)
    BY <1>2
<1>4. ASSUME NEW x \in S, ~(x <= m) PROVE FALSE
    <2>1. x \in Nat /\ m \in Nat /\ m < x /\ \A y \in S : y \in Nat
        BY <1>4
    <2>2. \A y \in S : y >= x => y >= m
        BY <2>1
    <2>3. ~(m >= x) /\ m >= m
        BY <2>1
    <2>4. Up(x) \subseteq Up(m) /\ m \notin Up(x) /\ m \in Up(m)
        BY <2>2, <2>3
    <2> QED BY <2>4, <1>2, <1>3
<1> QED BY <1>4

(* A nonempty finite set of naturals has a smallest member. *)
LEMMA HasSmallest ==
    ASSUME NEW S, \A x \in S : x \in Nat, IsFiniteSet(S), S # {}
    PROVE  \E m \in S : \A x \in S : m <= x
<1> DEFINE Down(x) == {y \in S : y <= x}
           F == {Down(x) : x \in S}
<1>1. F \in SUBSET SUBSET S /\ F # {}
    OBVIOUS
<1>2. PICK T \in F : \A U \in F : U \subseteq T => U = T
    <2> HIDE DEF F
    <2> QED BY <1>1, MinimalSubset
<1>3. PICK m \in S : T = Down(m)
    OBVIOUS
<1>4. ASSUME NEW x \in S, x < m PROVE FALSE
    <2>1. Down(x) \in F /\ Down(x) \subseteq T /\ m \in T
        BY <1>3, <1>4
    <2>2. m \notin Down(x)
        BY <1>4
    <2> QED BY <1>2, <2>1, <2>2
<1> QED BY <1>4

(* Taking a subset out of a sum. *)
LEMMA SumSplit ==
    ASSUME NEW D, IsFiniteSet(D), NEW f \in [D -> Int], NEW S \in SUBSET D, NEW T \in SUBSET S
    PROVE  SumFunctionOnSet(f, S) = SumFunctionOnSet(f, S \ T) + SumFunctionOnSet(f, T)
<1> DEFINE h == [x \in T |-> x]
           g == [x \in T |-> f[x]]
<1>1. IsFiniteSet(T)
    <2>1. T \in SUBSET D OBVIOUS
    <2> QED BY <2>1, FS_Subset
<1>2. /\ h \in [T -> S] /\ g \in [T -> Int]
      /\ \A x, y \in T : h[x] = h[y] => x = y
      /\ \A x \in T : f[h[x]] = g[x]
      /\ {h[x] : x \in T} = T
    OBVIOUS
<1>3. SumFunctionOnSet(g, T) = SumFunctionOnSet(f, T)
    <2>1. \A x \in T : g[x] = f[x] OBVIOUS
    <2> HIDE DEF g
    <2> QED BY <1>1, <2>1, SumAgree
<1> HIDE DEF g, h
<1>4. SumFunctionOnSet(f, S) = SumFunctionOnSet(f, S \ {h[x] : x \in T}) + SumFunctionOnSet(g, T)
    BY <1>1, <1>2, SumTake
<1> QED BY <1>2, <1>3, <1>4

(* Fewer terms that are not negative have a smaller sum. *)
LEMMA SumGrows ==
    ASSUME NEW D, IsFiniteSet(D), NEW f \in [D -> Int], NEW S \in SUBSET D, NEW T \in SUBSET S,
           \A x \in S : f[x] >= 0
    PROVE  SumFunctionOnSet(f, T) <= SumFunctionOnSet(f, S)
<1>1. SumFunctionOnSet(f, S) = SumFunctionOnSet(f, S \ T) + SumFunctionOnSet(f, T)
    BY SumSplit
<1>2. SumFunctionOnSet(f, S \ T) \in Int /\ SumFunctionOnSet(f, S \ T) >= 0
    <2>1. S \ T \in SUBSET D /\ \A x \in S \ T : f[x] >= 0
        OBVIOUS
    <2> QED BY <2>1, SumType
<1>3. SumFunctionOnSet(f, T) \in Int
    <2>1. T \in SUBSET D
        OBVIOUS
    <2> QED BY <2>1, SumType
<1> QED BY <1>1, <1>2, <1>3

(* A sum of which one term changes. *)
LEMMA SumChange ==
    ASSUME NEW D, IsFiniteSet(D), NEW f \in [D -> Int], NEW h \in [D -> Int]
    PROVE  \A S \in SUBSET D : \A k : (\A x \in S \ {k} : h[x] = f[x]) =>
              /\ k \in S => SumFunctionOnSet(h, S) = SumFunctionOnSet(f, S) - f[k] + h[k]
              /\ k \notin S => SumFunctionOnSet(h, S) = SumFunctionOnSet(f, S)
<1> SUFFICES ASSUME NEW S \in SUBSET D, NEW k, \A x \in S \ {k} : h[x] = f[x]
             PROVE  /\ k \in S => SumFunctionOnSet(h, S) = SumFunctionOnSet(f, S) - f[k] + h[k]
                    /\ k \notin S => SumFunctionOnSet(h, S) = SumFunctionOnSet(f, S)
    OBVIOUS
<1>1. ASSUME k \notin S PROVE SumFunctionOnSet(h, S) = SumFunctionOnSet(f, S)
    <2>1. \A x \in S : h[x] = f[x]
        BY <1>1
    <2> QED BY <2>1, SumAgree
<1>2. ASSUME k \in S PROVE SumFunctionOnSet(h, S) = SumFunctionOnSet(f, S) - f[k] + h[k]
    <2>1. /\ SumFunctionOnSet(f, S) = f[k] + SumFunctionOnSet(f, S \ {k})
          /\ SumFunctionOnSet(h, S) = h[k] + SumFunctionOnSet(h, S \ {k})
        BY <1>2, SumRemove
    <2>2. S \ {k} \in SUBSET D
        OBVIOUS
    <2>3. SumFunctionOnSet(h, S \ {k}) = SumFunctionOnSet(f, S \ {k})
        BY <2>2, SumAgree
    <2>4. SumFunctionOnSet(f, S \ {k}) \in Int /\ f[k] \in Int /\ h[k] \in Int
        BY <1>2, <2>2, SumType
    <2> QED BY <2>1, <2>3, <2>4
<1> QED BY <1>1, <1>2

(* A term that is nothing may be left out. *)
LEMMA SumSkip ==
    ASSUME NEW D, IsFiniteSet(D), NEW f \in [D -> Int]
    PROVE  \A S \in SUBSET D : \A x \in S :
              f[x] = 0 => SumFunctionOnSet(f, S) = SumFunctionOnSet(f, S \ {x})
<1> SUFFICES ASSUME NEW S \in SUBSET D, NEW x \in S, f[x] = 0
             PROVE  SumFunctionOnSet(f, S) = SumFunctionOnSet(f, S \ {x})
    OBVIOUS
<1>1. SumFunctionOnSet(f, S) = f[x] + SumFunctionOnSet(f, S \ {x})
    BY SumRemove
<1>2. SumFunctionOnSet(f, S \ {x}) \in Int
    <2>1. S \ {x} \in SUBSET D
        OBVIOUS
    <2> QED BY <2>1, SumType
<1> QED BY <1>1, <1>2
=============================================================================
