----------------------------- MODULE Sums_proofs -----------------------------
(* What SumFunctionOnSet(f, S), the sum of f[x] over the x in a finite set S, *)
(* comes to: the totals of carts and accounts are such sums.  The operator is *)
(* a recursive function on the subsets of S; what holds of every subset is    *)
(* shown of a smallest one for which it would fail.                           *)
EXTENDS Integers, Functions, FiniteSetTheorems, WellFoundedInduction, TLAPS

\* Every nonempty family of subsets of a finite set has a minimal member.
LEMMA MinimalSubset ==
    ASSUME NEW S, IsFiniteSet(S), NEW F, F \subseteq SUBSET S, F # {}
    PROVE  \E T \in F : \A U \in F : U \subseteq T => U = T
<1> DEFINE R == StrictSubsetOrdering(S)
<1>1. IsWellFoundedOn(R, SUBSET S)
  BY FS_StrictSubsetOrderingWellFounded, FS_FiniteSubsetsOfFinite
<1>2. PICK T \in F : \A U \in F : <<U, T>> \notin R
  <2> HIDE DEF R
  <2> QED BY <1>1, WFMin
<1>3. \A U \in F : U \subseteq T => U = T
  BY <1>2 DEF StrictSubsetOrdering
<1> QED BY <1>3

-----------------------------------------------------------------------------
(* The recursive function behind the sum *)

Some(S) == CHOOSE x \in S : TRUE

\* One unfolding of the recursive function h on the subsets of S.
Unfold(f, S, h) ==
    [s \in SUBSET S |-> IF s = {} THEN 0 ELSE f[Some(s)] + h[s \ {Some(s)}]]

SumsBelow(f, S) == CHOOSE h : h = Unfold(f, S, h)

LEMMA SumIsBelow ==
    ASSUME NEW f, NEW S
    PROVE  SumFunctionOnSet(f, S) = SumsBelow(f, S)[S]
BY DEF SumFunctionOnSet, FoldFunctionOnSet, MapThenFoldSet, SumsBelow, Unfold, Some

LEMMA SomeIsMember ==
    ASSUME NEW S, S # {}
    PROVE  /\ Some(S) \in S
           /\ S \ {Some(S)} \subseteq S
           /\ S \ {Some(S)} # S
BY DEF Some

LEMMA UnfoldUnique ==
    ASSUME NEW f, NEW S, IsFiniteSet(S), NEW T \in SUBSET S,
           NEW h, h = Unfold(f, S, h), NEW k, k = Unfold(f, T, k)
    PROVE  \A s \in SUBSET T : h[s] = k[s]
<1> DEFINE F == {s \in SUBSET T : h[s] # k[s]}
<1>1. ASSUME NEW s \in SUBSET T, s # {}
      PROVE  h[s] = f[Some(s)] + h[s \ {Some(s)}] /\ k[s] = f[Some(s)] + k[s \ {Some(s)}]
  BY <1>1, SomeIsMember DEF Unfold
<1>2. h[{}] = 0 /\ k[{}] = 0 BY DEF Unfold
<1>3. SUFFICES ASSUME F # {} PROVE FALSE OBVIOUS
<1>4. F \subseteq SUBSET S OBVIOUS
<1>5. PICK s \in F : \A u \in F : u \subseteq s => u = s
  <2> HIDE DEF F
  <2> QED BY <1>3, <1>4, MinimalSubset
<1>6. s # {} BY <1>2
<1>7. s \ {Some(s)} \in SUBSET T /\ s \ {Some(s)} # s /\ s \ {Some(s)} \subseteq s
  BY <1>6, SomeIsMember
<1>8. h[s \ {Some(s)}] = k[s \ {Some(s)}] BY <1>5, <1>7
<1> QED BY <1>1, <1>6, <1>8

\* The value at a subset does not depend on the set the function was built for.
LEMMA SumAtSubset ==
    ASSUME NEW f, NEW S, IsFiniteSet(S), NEW h, h = Unfold(f, S, h), NEW T \in SUBSET S
    PROVE  /\ SumFunctionOnSet(f, T) = h[T]
           /\ SumsBelow(f, T) = Unfold(f, T, SumsBelow(f, T))
<1> DEFINE k == [s \in SUBSET T |-> h[s]]
<1>1. k = Unfold(f, T, k)
  <2>1. ASSUME NEW s \in SUBSET T
        PROVE  h[s] = IF s = {} THEN 0 ELSE f[Some(s)] + h[s \ {Some(s)}]
    BY DEF Unfold
  <2>2. ASSUME NEW s \in SUBSET T, s # {}
        PROVE  k[s \ {Some(s)}] = h[s \ {Some(s)}]
    BY <2>2, SomeIsMember
  <2>3. k = [s \in SUBSET T |-> IF s = {} THEN 0 ELSE f[Some(s)] + k[s \ {Some(s)}]]
    BY <2>1, <2>2
  <2> QED BY <2>3 DEF Unfold
<1>2. SumsBelow(f, T) = Unfold(f, T, SumsBelow(f, T))
  <2> HIDE DEF k
  <2> QED BY <1>1 DEF SumsBelow
<1>3. SumsBelow(f, T)[T] = h[T]
  BY <1>2, UnfoldUnique
<1> QED BY <1>2, <1>3, SumIsBelow

\* The recursion has a solution on every finite set.
LEMMA UnfoldExists ==
    ASSUME NEW f, NEW S, IsFiniteSet(S)
    PROVE  \E h : h = Unfold(f, S, h)
<1> DEFINE F == {T \in SUBSET S : ~ \E h : h = Unfold(f, T, h)}
<1>1. SUFFICES ASSUME F # {} PROVE FALSE OBVIOUS
<1>2. PICK T \in F : \A U \in F : U \subseteq T => U = T
  <2> F \subseteq SUBSET S OBVIOUS
  <2> HIDE DEF F
  <2> QED BY <1>1, MinimalSubset
<1> DEFINE v(s) == SumFunctionOnSet(f, s)
           k == [s \in SUBSET T |-> IF s = {} THEN 0
                     ELSE f[Some(s)] + v(s \ {Some(s)})]
<1>3. ASSUME NEW U \in SUBSET T, U # T
      PROVE  v(U) = IF U = {} THEN 0 ELSE f[Some(U)] + v(U \ {Some(U)})
  <2>1. PICK h : h = Unfold(f, U, h) BY <1>2, <1>3
  <2>2. IsFiniteSet(U) BY FS_Subset
  <2>3. v(U) = h[U] BY <2>1, <2>2, SumAtSubset
  <2>4. h[U] = IF U = {} THEN 0 ELSE f[Some(U)] + h[U \ {Some(U)}]
    BY <2>1 DEF Unfold
  <2>5. v(U \ {Some(U)}) = h[U \ {Some(U)}] BY <2>1, <2>2, SumAtSubset
  <2> QED BY <2>3, <2>4, <2>5
<1>4. ASSUME NEW s \in SUBSET T, s # {}
      PROVE  k[s \ {Some(s)}] = v(s \ {Some(s)})
  <2>1. s \ {Some(s)} \in SUBSET T /\ s \ {Some(s)} # T BY <1>4, SomeIsMember
  <2> HIDE DEF v
  <2> QED BY <1>3, <2>1
<1>5. k = Unfold(f, T, k)
  <2> HIDE DEF v
  <2>1. k = [s \in SUBSET T |-> IF s = {} THEN 0 ELSE f[Some(s)] + k[s \ {Some(s)}]]
    BY <1>4
  <2> QED BY <2>1 DEF Unfold
<1> HIDE DEF k
<1> QED BY <1>2, <1>5

-----------------------------------------------------------------------------
(* What the other proofs cite *)

LEMMA SumEmpty ==
    ASSUME NEW f
    PROVE  SumFunctionOnSet(f, {}) = 0
<1>1. IsFiniteSet({}) BY FS_EmptySet
<1>2. PICK h : h = Unfold(f, {}, h) BY <1>1, UnfoldExists
<1>3. SumFunctionOnSet(f, {}) = h[{}] BY <1>1, <1>2, SumAtSubset
<1> QED BY <1>2, <1>3 DEF Unfold

LEMMA SumStep ==
    ASSUME NEW f, NEW S, IsFiniteSet(S), S # {}
    PROVE  SumFunctionOnSet(f, S) = f[Some(S)] + SumFunctionOnSet(f, S \ {Some(S)})
<1>1. PICK h : h = Unfold(f, S, h) BY UnfoldExists
<1>2. SumFunctionOnSet(f, S) = h[S] BY <1>1, SumAtSubset
<1>3. SumFunctionOnSet(f, S \ {Some(S)}) = h[S \ {Some(S)}] BY <1>1, SumAtSubset
<1>4. h[S] = f[Some(S)] + h[S \ {Some(S)}] BY <1>1 DEF Unfold
<1> QED BY <1>2, <1>3, <1>4

LEMMA SumInt ==
    ASSUME NEW f, NEW S, IsFiniteSet(S), \A x \in S : f[x] \in Int
    PROVE  SumFunctionOnSet(f, S) \in Int
<1> DEFINE F == {T \in SUBSET S : SumFunctionOnSet(f, T) \notin Int}
<1>1. SUFFICES ASSUME F # {} PROVE FALSE OBVIOUS
<1>2. PICK T \in F : \A U \in F : U \subseteq T => U = T
  <2> F \subseteq SUBSET S OBVIOUS
  <2> HIDE DEF F
  <2> QED BY <1>1, MinimalSubset
<1>3. T # {} BY SumEmpty
<1>4. Some(T) \in S /\ SumFunctionOnSet(f, T \ {Some(T)}) \in Int
  BY <1>2, <1>3, SomeIsMember
<1>5. IsFiniteSet(T) BY FS_Subset
<1>6. SumFunctionOnSet(f, T) = f[Some(T)] + SumFunctionOnSet(f, T \ {Some(T)})
  BY <1>3, <1>5, SumStep
<1> QED BY <1>4, <1>6

\* Any element may be taken out, not only the one the recursion chooses.
LEMMA SumRemove ==
    ASSUME NEW f, NEW S, IsFiniteSet(S), \A x \in S : f[x] \in Int, NEW x \in S
    PROVE  SumFunctionOnSet(f, S) = f[x] + SumFunctionOnSet(f, S \ {x})
<1> DEFINE Splits(T) == \A y \in T :
              SumFunctionOnSet(f, T) = f[y] + SumFunctionOnSet(f, T \ {y})
           F == {T \in SUBSET S : ~Splits(T)}
<1>1. SUFFICES ASSUME F # {} PROVE FALSE OBVIOUS
<1>2. PICK T \in F : \A U \in F : U \subseteq T => U = T
  <2> F \subseteq SUBSET S OBVIOUS
  <2> HIDE DEF F
  <2> QED BY <1>1, MinimalSubset
<1>3. PICK y \in T : SumFunctionOnSet(f, T) # f[y] + SumFunctionOnSet(f, T \ {y})
  OBVIOUS
<1> DEFINE z == Some(T)
<1>4. z \in T BY <1>3 DEF Some
<1>5. IsFiniteSet(T) BY FS_Subset
<1>6. SumFunctionOnSet(f, T) = f[z] + SumFunctionOnSet(f, T \ {z}) BY <1>4, <1>5, SumStep
<1> HIDE DEF z
<1>7. y # z BY <1>3, <1>6
<1>8. Splits(T \ {z}) /\ Splits(T \ {y}) BY <1>2, <1>3, <1>4
<1> DEFINE rest == SumFunctionOnSet(f, (T \ {z}) \ {y})
<1>9. SumFunctionOnSet(f, T \ {z}) = f[y] + rest BY <1>3, <1>7, <1>8
<1>10. SumFunctionOnSet(f, T \ {y}) = f[z] + rest
  <2>1. (T \ {y}) \ {z} = (T \ {z}) \ {y} OBVIOUS
  <2> QED BY <1>4, <1>7, <1>8, <2>1
<1>11. rest \in Int
  <2>1. IsFiniteSet((T \ {z}) \ {y}) BY <1>5, FS_RemoveElement
  <2> QED BY <2>1, SumInt
<1>12. f[y] \in Int /\ f[z] \in Int BY <1>3, <1>4
<1> HIDE DEF rest
<1> QED BY <1>3, <1>6, <1>9, <1>10, <1>11, <1>12

LEMMA SumAdd ==
    ASSUME NEW f, NEW S, IsFiniteSet(S), NEW x, x \notin S,
           \A y \in S \cup {x} : f[y] \in Int
    PROVE  SumFunctionOnSet(f, S \cup {x}) = f[x] + SumFunctionOnSet(f, S)
<1>1. IsFiniteSet(S \cup {x}) BY FS_AddElement
<1>2. (S \cup {x}) \ {x} = S OBVIOUS
<1>3. x \in S \cup {x} OBVIOUS
<1> QED BY <1>1, <1>2, <1>3, SumRemove

LEMMA SumSame ==
    ASSUME NEW f, NEW g, NEW S, IsFiniteSet(S), \A x \in S : f[x] = g[x]
    PROVE  SumFunctionOnSet(f, S) = SumFunctionOnSet(g, S)
<1> DEFINE F == {T \in SUBSET S : SumFunctionOnSet(f, T) # SumFunctionOnSet(g, T)}
<1>1. SUFFICES ASSUME F # {} PROVE FALSE OBVIOUS
<1>2. PICK T \in F : \A U \in F : U \subseteq T => U = T
  <2> F \subseteq SUBSET S OBVIOUS
  <2> HIDE DEF F
  <2> QED BY <1>1, MinimalSubset
<1>3. T # {} BY SumEmpty
<1>4. /\ f[Some(T)] = g[Some(T)]
      /\ SumFunctionOnSet(f, T \ {Some(T)}) = SumFunctionOnSet(g, T \ {Some(T)})
  BY <1>2, <1>3, SomeIsMember
<1>5. IsFiniteSet(T) BY FS_Subset
<1>6. /\ SumFunctionOnSet(f, T) = f[Some(T)] + SumFunctionOnSet(f, T \ {Some(T)})
      /\ SumFunctionOnSet(g, T) = g[Some(T)] + SumFunctionOnSet(g, T \ {Some(T)})
  BY <1>3, <1>5, SumStep
<1> QED BY <1>4, <1>6

\* What counts nothing may be left out.
LEMMA SumOfPart ==
    ASSUME NEW f, NEW g, NEW S, IsFiniteSet(S), NEW P \in SUBSET S,
           \A x \in P : f[x] \in Int /\ g[x] = f[x],
           \A x \in S \ P : g[x] = 0
    PROVE  SumFunctionOnSet(g, S) = SumFunctionOnSet(f, P)
<1> DEFINE F == {T \in SUBSET S : SumFunctionOnSet(g, T) # SumFunctionOnSet(f, T \cap P)}
<1>1. SUFFICES ASSUME F # {} PROVE FALSE
  <2>1. S \cap P = P OBVIOUS
  <2> QED BY <1>1, <2>1
<1>2. PICK T \in F : \A U \in F : U \subseteq T => U = T
  <2> F \subseteq SUBSET S OBVIOUS
  <2> HIDE DEF F
  <2> QED BY <1>1, MinimalSubset
<1>3. T # {}
  <2>1. {} \cap P = {} OBVIOUS
  <2> QED BY <2>1, SumEmpty
<1> DEFINE x == Some(T)
<1>4. x \in T /\ SumFunctionOnSet(g, T \ {x}) = SumFunctionOnSet(f, (T \ {x}) \cap P)
  BY <1>2, <1>3, SomeIsMember
<1>5. IsFiniteSet(T) /\ IsFiniteSet(T \cap P) BY FS_Subset
<1>6. SumFunctionOnSet(g, T) = g[x] + SumFunctionOnSet(g, T \ {x})
  BY <1>3, <1>5, SumStep
<1> HIDE DEF x
<1>7. SumFunctionOnSet(f, (T \ {x}) \cap P) \in Int
  <2>1. IsFiniteSet((T \ {x}) \cap P) BY FS_Subset
  <2> QED BY <2>1, SumInt
<1>8. CASE x \in P
  <2>1. (T \ {x}) \cap P = (T \cap P) \ {x} OBVIOUS
  <2>2. x \in T \cap P BY <1>4, <1>8
  <2>3. SumFunctionOnSet(f, T \cap P) = f[x] + SumFunctionOnSet(f, (T \cap P) \ {x})
    BY <1>5, <2>2, SumRemove
  <2> QED BY <1>4, <1>6, <1>8, <2>1, <2>3
<1>9. CASE x \notin P
  <2>1. (T \ {x}) \cap P = T \cap P BY <1>9
  <2>2. g[x] = 0 BY <1>4, <1>9
  <2>3. SumFunctionOnSet(f, (T \ {x}) \cap P) = SumFunctionOnSet(f, T \cap P)
    BY <2>1
  <2> DEFINE part == SumFunctionOnSet(f, T \cap P)
  <2>4. part \in Int /\ SumFunctionOnSet(g, T \ {x}) = part BY <1>4, <1>7, <2>3
  <2> HIDE DEF part
  <2>5. SumFunctionOnSet(g, T) = part BY <1>6, <2>2, <2>4
  <2> QED BY <2>5 DEF part
<1> QED BY <1>8, <1>9
=============================================================================
