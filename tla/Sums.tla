---- MODULE Sums ----
(***************************************************************************)
(* What the sums of the models are: MapThenSumSet of the community modules *)
(* is a recursive function over subsets whose order of addition is left    *)
(* open.  The lemmas show, by induction on finite sets, that the order     *)
(* does not matter and how a sum changes with its set and its summands.    *)
(***************************************************************************)
EXTENDS FiniteSetsExt, FiniteSetTheorems, WellFoundedInduction, TLAPS

\* What MapThenSumSet adds up, for a function.
Sum(F, S) == MapThenSumSet(LAMBDA x : F[x], S)

Choice(s) == CHOOSE x \in s : TRUE

\* it adds the values of F up over every subset of S.
Adds(F, S, it) ==
  it = [s \in SUBSET S |-> IF s = {} THEN 0 ELSE F[Choice(s)] + it[s \ {Choice(s)}]]

LEMMA SumIs == ASSUME NEW F, NEW S PROVE Sum(F, S) = (CHOOSE it : Adds(F, S, it))[S]
  BY DEF Sum, MapThenSumSet, MapThenFoldSet, Adds, Choice

\* Induction on finite sets: of the sets with some property one has no smaller one.
LEMMA Smallest ==
  ASSUME NEW S, IsFiniteSet(S), NEW Bad \in SUBSET (SUBSET S), Bad # {}
  PROVE  \E T \in Bad : IsFiniteSet(T) /\ \A U \in Bad : U \subseteq T => U = T
<1>1. IsWellFoundedOn(StrictSubsetOrdering(S), SUBSET S)
  BY FS_StrictSubsetOrderingWellFounded, FS_FiniteSubsetsOfFinite
<1>2. PICK T \in Bad : \A U \in Bad : ~ (<<U, T>> \in StrictSubsetOrdering(S))
  BY <1>1, WFMin
<1>3. \A U \in Bad : U \subseteq T => U = T
  BY <1>2 DEF StrictSubsetOrdering
<1>4. IsFiniteSet(T)
  BY FS_Subset
<1> QED
  BY <1>3, <1>4

LEMMA ChoiceIn == ASSUME NEW s, s # {} PROVE Choice(s) \in s
  BY DEF Choice

\* Whichever set they are made for, they agree.
LEMMA AddsAgree ==
  ASSUME NEW F, NEW S, IsFiniteSet(S), NEW T \in SUBSET S, NEW f, NEW g,
         Adds(F, S, f), Adds(F, T, g)
  PROVE  \A s \in SUBSET T : f[s] = g[s]
<1> DEFINE Bad == {s \in SUBSET T : f[s] # g[s]}
<1> SUFFICES ASSUME Bad # {} PROVE FALSE
  OBVIOUS
<1>1. PICK s \in Bad : \A u \in Bad : u \subseteq s => u = s
  <2>1. Bad \in SUBSET (SUBSET S)
    OBVIOUS
  <2> HIDE DEF Bad
  <2> QED
    BY <2>1, Smallest
<1>2. s \in SUBSET T /\ s \in SUBSET S /\ f[s] # g[s]
  OBVIOUS
<1>3. /\ f[s] = IF s = {} THEN 0 ELSE F[Choice(s)] + f[s \ {Choice(s)}]
      /\ g[s] = IF s = {} THEN 0 ELSE F[Choice(s)] + g[s \ {Choice(s)}]
  BY <1>2 DEF Adds
<1>4. s # {}
  BY <1>2, <1>3
<1>5. Choice(s) \in s
  BY <1>4, ChoiceIn
<1>6. f[s \ {Choice(s)}] = g[s \ {Choice(s)}]
  <2>1. s \ {Choice(s)} \in SUBSET T /\ s \ {Choice(s)} # s /\ s \ {Choice(s)} \subseteq s
    BY <1>2, <1>5
  <2> QED
    BY <1>1, <2>1
<1> QED
  BY <1>2, <1>3, <1>4, <1>6

\* There is such a function.
LEMMA AddsExists ==
  ASSUME NEW F, NEW S, IsFiniteSet(S)
  PROVE  \E it : Adds(F, S, it)
<1> DEFINE Bad == {T \in SUBSET S : ~ \E it : Adds(F, T, it)}
<1> SUFFICES ASSUME Bad # {} PROVE FALSE
  OBVIOUS
<1>1. PICK T \in Bad : IsFiniteSet(T) /\ \A U \in Bad : U \subseteq T => U = T
  <2>1. Bad \in SUBSET (SUBSET S)
    OBVIOUS
  <2> HIDE DEF Bad
  <2> QED
    BY <2>1, Smallest
<1>2. T \in SUBSET S /\ ~ \E it : Adds(F, T, it)
  OBVIOUS
<1> DEFINE part(u) == CHOOSE it : Adds(F, u, it)
           rest(s) == s \ {Choice(s)}
           f == [s \in SUBSET T |-> IF s = {} THEN 0 ELSE F[Choice(s)] + part(rest(s))[rest(s)]]
<1>3. ASSUME NEW u \in SUBSET T, u # T
      PROVE  Adds(F, u, part(u)) /\ IsFiniteSet(u)
  <2>1. \E it : Adds(F, u, it)
    BY <1>1, <1>2, <1>3
  <2>2. IsFiniteSet(u)
    BY <1>1, FS_Subset
  <2> QED
    BY <2>1, <2>2
<1> HIDE DEF part
<1>4. ASSUME NEW u \in SUBSET T, u # T
      PROVE  f[u] = part(u)[u]
  <2>1. part(u)[u] = IF u = {} THEN 0 ELSE F[Choice(u)] + part(u)[rest(u)]
    BY <1>3, <1>4 DEF Adds
  <2>2. CASE u = {}
    BY <2>1, <2>2
  <2>3. CASE u # {}
    <3>1. Choice(u) \in u
      BY <2>3, ChoiceIn
    <3>2. rest(u) \in SUBSET u /\ rest(u) # T /\ rest(u) \in SUBSET T
      BY <3>1
    <3>3. Adds(F, u, part(u)) /\ Adds(F, rest(u), part(rest(u))) /\ IsFiniteSet(u)
      BY <1>3, <1>4, <3>2
    <3> HIDE DEF rest
    <3>4. part(u)[rest(u)] = part(rest(u))[rest(u)]
      BY <3>2, <3>3, AddsAgree
    <3> QED
      BY <2>1, <2>3, <3>4
  <2> QED
    BY <2>2, <2>3
<1>5. ASSUME NEW s \in SUBSET T, s # {}
      PROVE  f[s] = F[Choice(s)] + f[rest(s)]
  <2>1. Choice(s) \in s
    BY <1>5, ChoiceIn
  <2>2. rest(s) \in SUBSET T /\ rest(s) # T
    BY <2>1
  <2>3. f[rest(s)] = part(rest(s))[rest(s)]
    BY <1>4, <2>2
  <2> QED
    BY <1>5, <2>3
<1>6. f[{}] = 0
  OBVIOUS
<1>7. Adds(F, T, f)
  BY <1>5, <1>6 DEF Adds
<1> QED
  BY <1>2, <1>7

\* A sum, one element at a time.
LEMMA SumEmpty == ASSUME NEW F PROVE Sum(F, {}) = 0
<1>1. IsFiniteSet({})
  BY FS_EmptySet
<1>2. Adds(F, {}, CHOOSE it : Adds(F, {}, it))
  BY <1>1, AddsExists
<1> QED
  BY <1>2, SumIs DEF Adds

LEMMA SumChoice ==
  ASSUME NEW F, NEW S, IsFiniteSet(S), S # {}
  PROVE  Sum(F, S) = F[Choice(S)] + Sum(F, S \ {Choice(S)})
<1> DEFINE T == S \ {Choice(S)}
           f == CHOOSE it : Adds(F, S, it)
           g == CHOOSE it : Adds(F, T, it)
<1>1. IsFiniteSet(T) /\ T \in SUBSET S
  BY FS_Subset
<1> HIDE DEF T
<1>2. Adds(F, S, f) /\ Adds(F, T, g)
  BY <1>1, AddsExists
<1>3. Sum(F, S) = f[S] /\ Sum(F, T) = g[T]
  BY SumIs
<1> HIDE DEF f, g
<1>4. f[T] = g[T]
  BY <1>1, <1>2, AddsAgree
<1>5. f[S] = F[Choice(S)] + f[T]
  BY <1>2 DEF Adds, T
<1> QED
  BY <1>3, <1>4, <1>5 DEF T

LEMMA SumNat ==
  ASSUME NEW F, NEW S, IsFiniteSet(S), \A x \in S : F[x] \in Nat
  PROVE  Sum(F, S) \in Nat
<1> DEFINE Bad == {T \in SUBSET S : Sum(F, T) \notin Nat}
<1> SUFFICES ASSUME Bad # {} PROVE FALSE
  OBVIOUS
<1>1. PICK T \in Bad : IsFiniteSet(T) /\ \A U \in Bad : U \subseteq T => U = T
  <2>1. Bad \in SUBSET (SUBSET S)
    OBVIOUS
  <2> HIDE DEF Bad
  <2> QED
    BY <2>1, Smallest
<1>2. T # {}
  BY SumEmpty
<1>3. Choice(T) \in T /\ Sum(F, T) = F[Choice(T)] + Sum(F, T \ {Choice(T)})
  BY <1>1, <1>2, ChoiceIn, SumChoice
<1>4. Sum(F, T \ {Choice(T)}) \in Nat
  <2>1. T \ {Choice(T)} \in SUBSET S /\ T \ {Choice(T)} # T
    BY <1>3
  <2> QED
    BY <1>1, <2>1
<1> QED
  BY <1>3, <1>4

\* Any element can be taken out first.
LEMMA SumRemove ==
  ASSUME NEW F, NEW S, IsFiniteSet(S), \A x \in S : F[x] \in Nat, NEW e \in S
  PROVE  Sum(F, S) = F[e] + Sum(F, S \ {e})
<1> DEFINE Bad == {T \in SUBSET S : \E x \in T : Sum(F, T) # F[x] + Sum(F, T \ {x})}
<1> SUFFICES ASSUME Bad # {} PROVE FALSE
  OBVIOUS
<1>1. PICK T \in Bad : IsFiniteSet(T) /\ \A U \in Bad : U \subseteq T => U = T
  <2>1. Bad \in SUBSET (SUBSET S)
    OBVIOUS
  <2> HIDE DEF Bad
  <2> QED
    BY <2>1, Smallest
<1>2. PICK x \in T : Sum(F, T) # F[x] + Sum(F, T \ {x})
  OBVIOUS
<1> DEFINE y == Choice(T)
<1>3. y \in T /\ Sum(F, T) = F[y] + Sum(F, T \ {y})
  BY <1>1, ChoiceIn, SumChoice
<1> HIDE DEF y
<1>4. x # y
  BY <1>2, <1>3
<1>5. ASSUME NEW a \in T, NEW b \in T, a # b
      PROVE  Sum(F, T \ {a}) = F[b] + Sum(F, (T \ {a}) \ {b})
  <2>1. T \ {a} \in SUBSET S /\ T \ {a} # T /\ b \in T \ {a} /\ T \ {a} \subseteq T
    BY <1>5
  <2>2. T \ {a} \notin Bad
    BY <1>1, <2>1
  <2> QED
    BY <2>1, <2>2
<1>6. (T \ {x}) \ {y} = (T \ {y}) \ {x}
  OBVIOUS
<1>7. /\ Sum(F, T \ {y}) = F[x] + Sum(F, (T \ {x}) \ {y})
      /\ Sum(F, T \ {x}) = F[y] + Sum(F, (T \ {x}) \ {y})
  BY <1>3, <1>4, <1>5, <1>6
<1>8. F[x] \in Nat /\ F[y] \in Nat /\ Sum(F, (T \ {x}) \ {y}) \in Nat
  <2>1. IsFiniteSet((T \ {x}) \ {y})
    BY <1>1, FS_Subset
  <2> QED
    BY <1>3, <2>1, SumNat
<1> QED
  BY <1>2, <1>3, <1>7, <1>8

LEMMA SumAdd ==
  ASSUME NEW F, NEW S, IsFiniteSet(S), \A x \in S : F[x] \in Nat, NEW e, e \notin S, F[e] \in Nat
  PROVE  Sum(F, S \cup {e}) = F[e] + Sum(F, S)
<1>1. IsFiniteSet(S \cup {e}) /\ (S \cup {e}) \ {e} = S
  BY FS_AddElement
<1> QED
  BY <1>1, SumRemove

\* Functions that agree on a set have the same sum.
LEMMA SumSame ==
  ASSUME NEW F, NEW G, NEW S, IsFiniteSet(S), \A x \in S : F[x] = G[x]
  PROVE  Sum(F, S) = Sum(G, S)
<1> DEFINE Bad == {T \in SUBSET S : Sum(F, T) # Sum(G, T)}
<1> SUFFICES ASSUME Bad # {} PROVE FALSE
  OBVIOUS
<1>1. PICK T \in Bad : IsFiniteSet(T) /\ \A U \in Bad : U \subseteq T => U = T
  <2>1. Bad \in SUBSET (SUBSET S)
    OBVIOUS
  <2> HIDE DEF Bad
  <2> QED
    BY <2>1, Smallest
<1>2. T # {}
  BY SumEmpty
<1>3. /\ Choice(T) \in T /\ Sum(F, T) = F[Choice(T)] + Sum(F, T \ {Choice(T)})
      /\ Sum(G, T) = G[Choice(T)] + Sum(G, T \ {Choice(T)})
  BY <1>1, <1>2, ChoiceIn, SumChoice
<1>4. Sum(F, T \ {Choice(T)}) = Sum(G, T \ {Choice(T)})
  <2>1. T \ {Choice(T)} \in SUBSET S /\ T \ {Choice(T)} # T
    BY <1>3
  <2> QED
    BY <1>1, <2>1
<1> QED
  BY <1>3, <1>4

\* Nothing adds up to nothing.
LEMMA SumZero ==
  ASSUME NEW F, NEW S, IsFiniteSet(S), \A x \in S : F[x] = 0
  PROVE  Sum(F, S) = 0
<1> DEFINE Bad == {T \in SUBSET S : Sum(F, T) # 0}
<1> SUFFICES ASSUME Bad # {} PROVE FALSE
  OBVIOUS
<1>1. PICK T \in Bad : IsFiniteSet(T) /\ \A U \in Bad : U \subseteq T => U = T
  <2>1. Bad \in SUBSET (SUBSET S)
    OBVIOUS
  <2> HIDE DEF Bad
  <2> QED
    BY <2>1, Smallest
<1>2. T # {}
  BY SumEmpty
<1>3. Choice(T) \in T /\ Sum(F, T) = F[Choice(T)] + Sum(F, T \ {Choice(T)})
  BY <1>1, <1>2, ChoiceIn, SumChoice
<1>4. Sum(F, T \ {Choice(T)}) = 0
  <2>1. T \ {Choice(T)} \in SUBSET S /\ T \ {Choice(T)} # T
    BY <1>3
  <2> QED
    BY <1>1, <2>1
<1> QED
  BY <1>3, <1>4

\* One value of a function changes.
LEMMA SumChange ==
  ASSUME NEW S, IsFiniteSet(S), NEW F \in [S -> Nat], NEW e \in S, NEW v \in Nat
  PROVE  /\ Sum([F EXCEPT ![e] = v], S) + F[e] = Sum(F, S) + v
         /\ Sum(F, S) \in Nat /\ Sum(F, S) >= F[e]
<1> DEFINE G == [F EXCEPT ![e] = v]
<1> HIDE DEF G
<1>1. Sum(F, S) = F[e] + Sum(F, S \ {e}) /\ Sum(G, S) = G[e] + Sum(G, S \ {e})
  <2>1. \A x \in S : F[x] \in Nat /\ G[x] \in Nat
    BY DEF G
  <2> QED
    BY <2>1, SumRemove
<1>2. IsFiniteSet(S \ {e})
  BY FS_Subset
<1>3. Sum(F, S \ {e}) = Sum(G, S \ {e}) /\ Sum(F, S \ {e}) \in Nat
  <2>1. \A x \in S \ {e} : F[x] = G[x] /\ F[x] \in Nat
    BY DEF G
  <2> QED
    BY <1>2, <2>1, SumSame, SumNat
<1>4. G[e] = v /\ F[e] \in Nat
  BY DEF G
<1> QED
  BY <1>1, <1>3, <1>4 DEF G

\* Where two summands fit into a third, their sums do.
LEMMA SumsFit ==
  ASSUME NEW S, IsFiniteSet(S), NEW F, NEW G, NEW H,
         \A x \in S : F[x] \in Nat /\ G[x] \in Nat /\ H[x] \in Nat /\ F[x] + G[x] <= H[x]
  PROVE  Sum(F, S) + Sum(G, S) <= Sum(H, S)
<1> DEFINE Bad == {T \in SUBSET S : ~(Sum(F, T) + Sum(G, T) <= Sum(H, T))}
<1> SUFFICES ASSUME Bad # {} PROVE FALSE
  OBVIOUS
<1>1. PICK T \in Bad : IsFiniteSet(T) /\ \A U \in Bad : U \subseteq T => U = T
  <2>1. Bad \in SUBSET (SUBSET S)
    OBVIOUS
  <2> HIDE DEF Bad
  <2> QED
    BY <2>1, Smallest
<1>2. T # {}
  <2>1. Sum(F, {}) = 0 /\ Sum(G, {}) = 0 /\ Sum(H, {}) = 0
    BY SumEmpty
  <2>2. ~(Sum(F, T) + Sum(G, T) <= Sum(H, T))
    OBVIOUS
  <2> HIDE DEF Bad
  <2>3. ASSUME T = {} PROVE Sum(F, T) + Sum(G, T) <= Sum(H, T)
    <3>1. Sum(F, T) = 0 /\ Sum(G, T) = 0 /\ Sum(H, T) = 0
      BY <2>1, <2>3
    <3> QED
      BY <3>1
  <2> QED
    BY <2>2, <2>3
<1> DEFINE y == Choice(T)
           U == T \ {y}
<1>3. /\ y \in T /\ y \in S
      /\ Sum(F, T) = F[y] + Sum(F, U) /\ Sum(G, T) = G[y] + Sum(G, U)
      /\ Sum(H, T) = H[y] + Sum(H, U)
  BY <1>1, <1>2, ChoiceIn, SumChoice
<1>4. Sum(F, U) \in Nat /\ Sum(G, U) \in Nat /\ Sum(H, U) \in Nat
  <2>1. IsFiniteSet(U) /\ U \subseteq S
    BY <1>1, FS_Subset
  <2> HIDE DEF U
  <2> QED
    BY <2>1, SumNat
<1>5. Sum(F, U) + Sum(G, U) <= Sum(H, U)
  <2>1. U \in SUBSET S /\ U # T /\ U \subseteq T
    BY <1>3
  <2> QED
    BY <1>1, <2>1
<1> HIDE DEF U, y
<1>6. ~(Sum(F, T) + Sum(G, T) <= Sum(H, T))
  OBVIOUS
<1> HIDE DEF Bad
<1> QED
  BY <1>3, <1>4, <1>5, <1>6

\* A sum over a part of a set is a sum over the set.
LEMMA SumOfPart ==
  ASSUME NEW S, IsFiniteSet(S), NEW F, \A x \in S : F[x] \in Nat, NEW A \in SUBSET S
  PROVE  Sum(F, A) = Sum([x \in S |-> IF x \in A THEN F[x] ELSE 0], S)
<1> DEFINE G == [x \in S |-> IF x \in A THEN F[x] ELSE 0]
           Bad == {T \in SUBSET S : Sum(F, A \cap T) # Sum(G, T)}
<1>0. \A x \in S : G[x] = IF x \in A THEN F[x] ELSE 0
  OBVIOUS
<1> HIDE DEF G
<1>1. Bad = {}
  <2> SUFFICES ASSUME Bad # {} PROVE FALSE
    OBVIOUS
  <2>1. PICK T \in Bad : IsFiniteSet(T) /\ \A U \in Bad : U \subseteq T => U = T
    <3>1. Bad \in SUBSET (SUBSET S)
      OBVIOUS
    <3> HIDE DEF Bad
    <3> QED
      BY <3>1, Smallest
  <2>2. T # {}
    <3>1. A \cap {} = {}
      OBVIOUS
    <3> QED
      BY <3>1, SumEmpty
  <2> DEFINE y == Choice(T)
  <2>3. y \in T /\ y \in S /\ Sum(G, T) = G[y] + Sum(G, T \ {y})
    BY <2>1, <2>2, ChoiceIn, SumChoice
  <2> HIDE DEF y
  <2>4. Sum(F, A \cap (T \ {y})) = Sum(G, T \ {y})
    <3>1. T \ {y} \in SUBSET S /\ T \ {y} # T /\ T \ {y} \subseteq T
      BY <2>3
    <3> QED
      BY <2>1, <3>1
  <2>5. Sum(G, T \ {y}) \in Nat
    <3>1. IsFiniteSet(T \ {y}) /\ \A x \in T \ {y} : G[x] \in Nat
      BY <1>0, <2>1, FS_Subset
    <3> QED
      BY <3>1, SumNat
  <2>6. CASE y \in A
    <3>1. IsFiniteSet(A \cap T) /\ y \in A \cap T /\ (A \cap T) \ {y} = A \cap (T \ {y})
      BY <2>1, <2>3, <2>6, FS_Subset
    <3>2. Sum(F, A \cap T) = F[y] + Sum(F, A \cap (T \ {y}))
      BY <3>1, SumRemove
    <3> QED
      BY <1>0, <2>3, <2>4, <2>6, <3>2
  <2>7. CASE y \notin A
    <3>1. A \cap T = A \cap (T \ {y})
      BY <2>7
    <3>2. G[y] = 0
      BY <1>0, <2>3, <2>7
    <3>3. Sum(G, T) = Sum(G, T \ {y})
      BY <2>3, <2>5, <3>2
    <3>4. Sum(F, A \cap T) = Sum(G, T)
      BY <2>4, <3>1, <3>3
    <3> QED
      BY <2>1, <3>4
  <2> QED
    BY <2>6, <2>7
<1>2. A \cap S = A /\ S \in SUBSET S
  OBVIOUS
<1>3. Sum(F, A) = Sum(G, S)
  BY <1>1, <1>2
<1> QED
  BY <1>3 DEF G

\* What is added up need not be a function.
LEMMA SumOfProduct ==
  ASSUME NEW S, IsFiniteSet(S), NEW F, NEW G
  PROVE  MapThenSumSet(LAMBDA x : F[x] * G[x], S) = Sum([x \in S |-> F[x] * G[x]], S)
<1> DEFINE H == [x \in S |-> F[x] * G[x]]
           adds(it) == it = [s \in SUBSET S |-> IF s = {} THEN 0
                              ELSE F[Choice(s)] * G[Choice(s)] + it[s \ {Choice(s)}]]
<1>1. MapThenSumSet(LAMBDA x : F[x] * G[x], S) = (CHOOSE it : adds(it))[S]
  BY DEF MapThenSumSet, MapThenFoldSet, Choice
<1>2. \A s \in SUBSET S : s # {} => H[Choice(s)] = F[Choice(s)] * G[Choice(s)]
  BY ChoiceIn
<1> HIDE DEF H
<1>3. \A it : Adds(H, S, it) <=> adds(it)
  BY <1>2 DEF Adds
<1>4. PICK it : Adds(H, S, it)
  BY AddsExists
<1> DEFINE f == CHOOSE it1 : adds(it1)
           g == CHOOSE it2 : Adds(H, S, it2)
<1>5. adds(f)
  BY <1>3, <1>4
<1>6. Adds(H, S, g)
  BY <1>4
<1>7. Adds(H, S, f)
  BY <1>3, <1>5
<1> HIDE DEF f, g
<1>8. f[S] = g[S]
  BY <1>6, <1>7, AddsAgree
<1>9. Sum(H, S) = g[S]
  BY SumIs DEF g
<1> QED
  BY <1>1, <1>8, <1>9 DEF f, H

\* A field of records is added up.
LEMMA SumOfAmounts ==
  ASSUME NEW S, IsFiniteSet(S), NEW F
  PROVE  MapThenSumSet(LAMBDA x : F[x].amount, S) = Sum([x \in S |-> F[x].amount], S)
<1> DEFINE H == [x \in S |-> F[x].amount]
           adds(it) == it = [s \in SUBSET S |-> IF s = {} THEN 0
                              ELSE F[Choice(s)].amount + it[s \ {Choice(s)}]]
<1>1. MapThenSumSet(LAMBDA x : F[x].amount, S) = (CHOOSE it : adds(it))[S]
  BY DEF MapThenSumSet, MapThenFoldSet, Choice
<1>2. \A s \in SUBSET S : s # {} => H[Choice(s)] = F[Choice(s)].amount
  BY ChoiceIn
<1> HIDE DEF H
<1>3. \A it : Adds(H, S, it) <=> adds(it)
  BY <1>2 DEF Adds
<1>4. PICK it : Adds(H, S, it)
  BY AddsExists
<1> DEFINE f == CHOOSE it1 : adds(it1)
           g == CHOOSE it2 : Adds(H, S, it2)
<1>5. adds(f)
  BY <1>3, <1>4
<1>6. Adds(H, S, g)
  BY <1>4
<1>7. Adds(H, S, f)
  BY <1>3, <1>5
<1> HIDE DEF f, g
<1>8. f[S] = g[S]
  BY <1>6, <1>7, AddsAgree
<1>9. Sum(H, S) = g[S]
  BY SumIs DEF g
<1> QED
  BY <1>1, <1>8, <1>9 DEF f, H

LEMMA SumOfDifferences ==
  ASSUME NEW S, IsFiniteSet(S), NEW F, NEW G
  PROVE  MapThenSumSet(LAMBDA x : F[x] - G[x], S) = Sum([x \in S |-> F[x] - G[x]], S)
<1> DEFINE H == [x \in S |-> F[x] - G[x]]
           adds(it) == it = [s \in SUBSET S |-> IF s = {} THEN 0
                              ELSE (F[Choice(s)] - G[Choice(s)]) + it[s \ {Choice(s)}]]
<1>1. MapThenSumSet(LAMBDA x : F[x] - G[x], S) = (CHOOSE it : adds(it))[S]
  BY DEF MapThenSumSet, MapThenFoldSet, Choice
<1>2. \A s \in SUBSET S : s # {} => H[Choice(s)] = F[Choice(s)] - G[Choice(s)]
  BY ChoiceIn
<1> HIDE DEF H
<1>3. \A it : Adds(H, S, it) <=> adds(it)
  BY <1>2 DEF Adds
<1>4. PICK it : Adds(H, S, it)
  BY AddsExists
<1> DEFINE f == CHOOSE it1 : adds(it1)
           g == CHOOSE it2 : Adds(H, S, it2)
<1>5. adds(f)
  BY <1>3, <1>4
<1>6. Adds(H, S, g)
  BY <1>4
<1>7. Adds(H, S, f)
  BY <1>3, <1>5
<1> HIDE DEF f, g
<1>8. f[S] = g[S]
  BY <1>6, <1>7, AddsAgree
<1>9. Sum(H, S) = g[S]
  BY SumIs DEF g
<1> QED
  BY <1>1, <1>8, <1>9 DEF f, H

\* A summand of nothing may be left out.
LEMMA SumSkips ==
  ASSUME NEW S, IsFiniteSet(S), NEW F, NEW G, \A x \in S : F[x] = G[x] /\ G[x] \in Nat,
         NEW e, e \notin S, F[e] = 0, NEW T, T = S \/ T = S \cup {e}
  PROVE  Sum(F, T) = Sum(G, S) /\ Sum(G, S) \in Nat
<1>1. Sum(G, S) \in Nat
  BY SumNat
<1>2. Sum(F, S) = Sum(G, S)
  BY SumSame
<1>3. Sum(F, S \cup {e}) = F[e] + Sum(F, S)
  BY SumAdd
<1> QED
  BY <1>1, <1>2, <1>3

\* Summands of at most c add up to at most c times their number.
LEMMA SumAtMost ==
  ASSUME NEW S, IsFiniteSet(S), NEW c \in Nat, NEW F, \A x \in S : F[x] \in Nat /\ F[x] <= c
  PROVE  Sum(F, S) \in Nat /\ Sum(F, S) <= Cardinality(S) * c
<1>0. \A T \in SUBSET S : IsFiniteSet(T) /\ Sum(F, T) \in Nat /\ Cardinality(T) \in Nat
  BY FS_Subset, FS_CardinalityType, SumNat
<1> DEFINE Bad == {T \in SUBSET S : ~(Sum(F, T) <= Cardinality(T) * c)}
<1> SUFFICES ASSUME Bad # {} PROVE FALSE
  BY <1>0
<1>1. PICK T \in Bad : IsFiniteSet(T) /\ \A U \in Bad : U \subseteq T => U = T
  <2>1. Bad \in SUBSET (SUBSET S)
    OBVIOUS
  <2> HIDE DEF Bad
  <2> QED
    BY <2>1, Smallest
<1>2. T # {}
  <2>1. Sum(F, {}) = 0 /\ Cardinality({}) = 0
    BY SumEmpty, FS_EmptySet
  <2> QED
    BY <2>1
<1> PICK y : y = Choice(T)
  OBVIOUS
<1> DEFINE U == T \ {y}
<1>3. y \in T /\ Sum(F, T) = F[y] + Sum(F, U)
  BY <1>1, <1>2, ChoiceIn, SumChoice
<1>4. Cardinality(T) = Cardinality(U) + 1
  <2>1. U = T \ {y} /\ Cardinality(U) = Cardinality(T) - 1
    BY <1>1, <1>3, FS_RemoveElement
  <2> QED
    BY <1>0, <2>1
<1>5. U \in SUBSET S /\ U # T
  BY <1>3
<1>6. Sum(F, U) <= Cardinality(U) * c
  BY <1>1, <1>5
<1>7. Sum(F, T) \in Nat /\ Sum(F, U) \in Nat /\ Cardinality(U) \in Nat /\ F[y] \in Nat /\ F[y] <= c
  BY <1>0, <1>3
<1>8. ~(Sum(F, T) <= Cardinality(T) * c)
  OBVIOUS
<1> HIDE DEF U, Bad
<1>9. \A n \in Nat : (n + 1) * c = n * c + c /\ n * c \in Nat
  OBVIOUS
<1> QED
  BY <1>3, <1>4, <1>6, <1>7, <1>8, <1>9

\* Summands that are matched, each with one that is no smaller, add up to no more.
LEMMA SumMatched ==
  ASSUME NEW S, IsFiniteSet(S), NEW T, IsFiniteSet(T), NEW F, NEW G, NEW to,
         \A x \in S : F[x] \in Nat /\ to[x] \in T /\ F[x] <= G[to[x]],
         \A y \in T : G[y] \in Nat,
         \A x, y \in S : to[x] = to[y] => x = y
  PROVE  Sum(F, S) <= Sum(G, T)
<1>0. /\ \A A \in SUBSET S : IsFiniteSet(A) /\ Sum(F, A) \in Nat
      /\ \A B \in SUBSET T : IsFiniteSet(B) /\ Sum(G, B) \in Nat
  BY FS_Subset, SumNat
<1> DEFINE Fails(A, B) == (\A x \in A : to[x] \in B) /\ ~(Sum(F, A) <= Sum(G, B))
           Bad == {A \in SUBSET S : \E B \in SUBSET T : Fails(A, B)}
<1> SUFFICES ASSUME S \in Bad PROVE FALSE
  <2>1. Fails(S, T) \/ Sum(F, S) <= Sum(G, T)
    OBVIOUS
  <2> HIDE DEF Fails
  <2> QED
    BY <2>1
<1>1. PICK A \in Bad : IsFiniteSet(A) /\ \A C \in Bad : C \subseteq A => C = A
  <2>1. Bad \in SUBSET (SUBSET S) /\ Bad # {}
    OBVIOUS
  <2> HIDE DEF Bad
  <2> QED
    BY <2>1, Smallest
<1>2. PICK B \in SUBSET T : Fails(A, B)
  OBVIOUS
<1>3. A # {}
  BY <1>0, <1>2, SumEmpty
<1> PICK y : y = Choice(A)
  OBVIOUS
<1> DEFINE C == A \ {y}
           D == B \ {to[y]}
<1>4. y \in A /\ Sum(F, A) = F[y] + Sum(F, C)
  BY <1>1, <1>3, ChoiceIn, SumChoice
<1>5. to[y] \in B /\ Sum(G, B) = G[to[y]] + Sum(G, D)
  <2>1. to[y] \in B
    BY <1>2, <1>4
  <2>2. IsFiniteSet(B) /\ \A x \in B : G[x] \in Nat
    BY <1>0
  <2> QED
    BY <2>1, <2>2, SumRemove
<1>6. C \in SUBSET S /\ D \in SUBSET T /\ C \subseteq A /\ C # A /\ \A x \in C : to[x] \in D
  BY <1>2, <1>4
<1>7. ~Fails(C, D)
  <2>1. C \notin Bad
    <3> HIDE DEF C, D, Bad
    <3> QED
      BY <1>1, <1>6
  <2> HIDE DEF Fails, C, D
  <2> QED
    BY <1>6, <2>1
<1>8. Sum(F, C) <= Sum(G, D)
  BY <1>6, <1>7
<1>9. Sum(F, C) \in Nat /\ Sum(G, D) \in Nat /\ F[y] \in Nat /\ G[to[y]] \in Nat /\ F[y] <= G[to[y]]
  BY <1>0, <1>4, <1>6
<1>10. ~(Sum(F, A) <= Sum(G, B))
  BY <1>2
<1> HIDE DEF C, D
<1> QED
  BY <1>4, <1>5, <1>8, <1>9, <1>10
====
