---------------------------- MODULE Sums_proofs ----------------------------
(***************************************************************************)
(* What the sums over sets of requests and accounts, by which the modules  *)
(* state what balances must be, do when one term changes.                  *)
(***************************************************************************)
EXTENDS Integers, FiniteSetsExt, FiniteSetTheorems, WellFoundedInduction, TLAPS

SumOver(f, S) == MapThenSumSet(LAMBDA x : f[x], S)

Chosen(s) == CHOOSE x \in s : TRUE

(* The function by which the fold is defined, on the subsets of S.         *)
Adds(g, f, S) ==
    g = [s \in SUBSET S |-> IF s = {} THEN 0 ELSE f[Chosen(s)] + g[s \ {Chosen(s)}]]

(* MapThenSumSet, without its operator parameters.                         *)
LEMMA SumIsFold == \A f, S : SumOver(f, S) = (CHOOSE g : Adds(g, f, S))[S]
  BY DEF SumOver, MapThenSumSet, MapThenFoldSet, Adds, Chosen

(***************************************************************************)
(* Induction over the subsets of a finite set, with a set of subsets in    *)
(* the place of a predicate.                                               *)
(***************************************************************************)
LEMMA SubsetInduction ==
    ASSUME NEW S, IsFiniteSet(S), NEW G,
           \A T \in SUBSET S : (\A U \in SUBSET T : U # T => U \in G) => T \in G
    PROVE  \A T \in SUBSET S : T \in G
  <1> DEFINE Bad == (SUBSET S) \ G
  <1> SUFFICES ASSUME Bad # {} PROVE FALSE
    OBVIOUS
  <1>1. IsWellFoundedOn(StrictSubsetOrdering(S), SUBSET S)
    <2>1. FiniteSubsetsOf(S) = SUBSET S
      BY FS_FiniteSubsetsOfFinite
    <2>2. IsWellFoundedOn(StrictSubsetOrdering(S), FiniteSubsetsOf(S))
      BY FS_StrictSubsetOrderingWellFounded
    <2> QED BY <2>1, <2>2
  <1>2. PICK T \in Bad : \A U \in Bad : <<U, T>> \notin StrictSubsetOrdering(S)
    <2> HIDE DEF Bad
    <2>1. Bad \subseteq SUBSET S
      BY DEF Bad
    <2> QED BY <1>1, <2>1, WFMin
  <1>3. \A U \in SUBSET T : U # T => U \in G
    <2> SUFFICES ASSUME NEW U \in SUBSET T, U # T, U \notin G PROVE FALSE
      OBVIOUS
    <2>1. U \in Bad
      OBVIOUS
    <2>2. <<U, T>> \in StrictSubsetOrdering(S)
      BY DEF StrictSubsetOrdering
    <2> QED BY <1>2, <2>1, <2>2
  <1> QED BY <1>3

(* Adds determines its function wherever two have it.                      *)
LEMMA AddsUnique ==
    ASSUME NEW f, NEW S, NEW T, NEW g, NEW h, Adds(g, f, S), Adds(h, f, T),
           NEW U, U \subseteq S, U \subseteq T, IsFiniteSet(U)
    PROVE  g[U] = h[U]
  <1> DEFINE G == {s \in SUBSET U : g[s] = h[s]}
  <1>1. ASSUME NEW s \in SUBSET U, \A u \in SUBSET s : u # s => u \in G
        PROVE  s \in G
    <2>1. CASE s = {}
      BY <2>1 DEF Adds
    <2>2. CASE s # {}
      <3>1. Chosen(s) \in s
        BY <2>2 DEF Chosen
      <3>2. g[s \ {Chosen(s)}] = h[s \ {Chosen(s)}]
        BY <1>1, <3>1
      <3>3. s \in SUBSET S /\ s \in SUBSET T
        OBVIOUS
      <3>4. g[s] = f[Chosen(s)] + g[s \ {Chosen(s)}]
        BY <2>2, <3>3 DEF Adds
      <3>5. h[s] = f[Chosen(s)] + h[s \ {Chosen(s)}]
        BY <2>2, <3>3 DEF Adds
      <3> QED BY <3>2, <3>4, <3>5
    <2> QED BY <2>1, <2>2
  <1>2. \A s \in SUBSET U : s \in G
    <2> HIDE DEF G
    <2> QED BY <1>1, SubsetInduction
  <1> QED BY <1>2

(* On a finite set it has one.                                             *)
LEMMA AddsExists ==
    ASSUME NEW f, NEW S, IsFiniteSet(S)
    PROVE  \E g : Adds(g, f, S)
  <1> DEFINE G == {T \in SUBSET S : \E g : Adds(g, f, T)}
             F(U) == CHOOSE g : Adds(g, f, U)
  <1>1. ASSUME NEW T \in SUBSET S, \A U \in SUBSET T : U # T => U \in G
        PROVE  T \in G
    <2> DEFINE rest(s) == s \ {Chosen(s)}
               h == [s \in SUBSET T |-> IF s = {} THEN 0
                                        ELSE f[Chosen(s)] + F(rest(s))[rest(s)]]
    <2>1. \A s \in SUBSET T : s # {} => rest(s) \in SUBSET T /\ rest(s) # T
      BY DEF Chosen
    <2>2. \A u \in SUBSET T : u # T => Adds(F(u), f, u)
      BY <1>1
    <2>3. ASSUME NEW u \in SUBSET T, u # T
          PROVE  h[u] = F(u)[u]
      <3>1. Adds(F(u), f, u)
        BY <2>2, <2>3
      <3>2. CASE u = {}
        BY <3>1, <3>2 DEF Adds
      <3>3. CASE u # {}
        <4>1. F(u)[u] = f[Chosen(u)] + F(u)[rest(u)]
          <5> HIDE DEF F
          <5> QED BY <3>1, <3>3 DEF Adds
        <4>2. Adds(F(rest(u)), f, rest(u))
          BY <2>1, <2>2, <3>3
        <4>3. IsFiniteSet(rest(u)) /\ rest(u) \subseteq u
          BY FS_Subset
        <4>4. F(u)[rest(u)] = F(rest(u))[rest(u)]
          <5> HIDE DEF F, rest
          <5> QED BY <3>1, <4>2, <4>3, AddsUnique
        <4> QED BY <3>3, <4>1, <4>4
      <3> QED BY <3>2, <3>3
    <2>4. Adds(h, f, T)
      <3>1. \A s \in SUBSET T : s # {} => h[rest(s)] = F(rest(s))[rest(s)]
        <4> HIDE DEF h, F, rest
        <4> QED BY <2>1, <2>3
      <3> DEFINE old(s) == IF s = {} THEN 0 ELSE f[Chosen(s)] + F(rest(s))[rest(s)]
                 new(s) == IF s = {} THEN 0 ELSE f[Chosen(s)] + h[rest(s)]
      <3>2. \A s \in SUBSET T : old(s) = new(s)
        <4> HIDE DEF h, F, rest
        <4> QED BY <3>1
      <3>3. h = [s \in SUBSET T |-> old(s)]
        OBVIOUS
      <3>4. h = [s \in SUBSET T |-> new(s)]
        <4> HIDE DEF h, old, new
        <4> QED BY <3>2, <3>3
      <3> QED
        <4> HIDE DEF h
        <4> QED BY <3>4 DEF Adds
    <2> QED BY <2>4
  <1>2. \A T \in SUBSET S : T \in G
    <2> HIDE DEF G
    <2> QED BY <1>1, SubsetInduction
  <1> QED BY <1>2

(* A sum takes out what it chooses first.                                  *)
LEMMA SumChosen ==
    ASSUME NEW f, NEW S, IsFiniteSet(S)
    PROVE  SumOver(f, S) = IF S = {} THEN 0
                           ELSE f[Chosen(S)] + SumOver(f, S \ {Chosen(S)})
  <1> DEFINE g == CHOOSE g : Adds(g, f, S)
             R == S \ {Chosen(S)}
             h == CHOOSE h : Adds(h, f, R)
  <1>1. Adds(g, f, S)
    BY AddsExists
  <1>2. IsFiniteSet(R) /\ R \subseteq S
    BY FS_Subset
  <1>3. Adds(h, f, R)
    BY <1>2, AddsExists
  <1>4. SumOver(f, S) = g[S] /\ SumOver(f, R) = h[R]
    BY SumIsFold
  <1>5. g[R] = h[R]
    <2> HIDE DEF g, h, R
    <2> QED BY <1>1, <1>2, <1>3, AddsUnique
  <1>6. g[S] = IF S = {} THEN 0 ELSE f[Chosen(S)] + g[R]
    <2> HIDE DEF g
    <2> QED BY <1>1 DEF Adds
  <1> QED BY <1>4, <1>5, <1>6

-----------------------------------------------------------------------------

LEMMA SumEmpty == \A f : SumOver(f, {}) = 0
  BY SumChosen, FS_EmptySet

(* A sum of integers is an integer.                                        *)
LEMMA SumInt ==
    ASSUME NEW S, IsFiniteSet(S), NEW f, \A x \in S : f[x] \in Int
    PROVE  SumOver(f, S) \in Int
  <1> DEFINE G == {T \in SUBSET S : SumOver(f, T) \in Int}
  <1>1. ASSUME NEW T \in SUBSET S, \A U \in SUBSET T : U # T => U \in G
        PROVE  T \in G
    <2>1. IsFiniteSet(T)
      BY FS_Subset
    <2>2. CASE T = {}
      BY <2>2, SumEmpty
    <2>3. CASE T # {}
      <3>1. Chosen(T) \in T
        BY <2>3 DEF Chosen
      <3>2. SumOver(f, T \ {Chosen(T)}) \in Int
        BY <1>1, <3>1
      <3> QED BY <2>1, <2>3, <3>1, <3>2, SumChosen
    <2> QED BY <2>2, <2>3
  <1>2. \A T \in SUBSET S : T \in G
    <2> HIDE DEF G
    <2> QED BY <1>1, SubsetInduction
  <1> QED BY <1>2

(* Any term can be taken out of a sum.                                     *)
LEMMA SumRemove ==
    ASSUME NEW S, IsFiniteSet(S), NEW f, \A x \in S : f[x] \in Int, NEW y \in S
    PROVE  SumOver(f, S) = f[y] + SumOver(f, S \ {y})
  <1> DEFINE G == {T \in SUBSET S :
                      \A x \in T : SumOver(f, T) = f[x] + SumOver(f, T \ {x})}
  <1>1. ASSUME NEW T \in SUBSET S, \A U \in SUBSET T : U # T => U \in G
        PROVE  T \in G
    <2> SUFFICES ASSUME NEW x \in T
                 PROVE  SumOver(f, T) = f[x] + SumOver(f, T \ {x})
      OBVIOUS
    <2> DEFINE c == Chosen(T)
    <2>1. c \in T
      BY DEF Chosen
    <2>2. IsFiniteSet(T) /\ IsFiniteSet(T \ {x})
      BY FS_Subset
    <2>3. SumOver(f, T) = f[c] + SumOver(f, T \ {c})
      BY <2>2, SumChosen
    <2>4. CASE x = c
      BY <2>3, <2>4
    <2>5. CASE x # c
      <3> HIDE DEF c
      <3>1. T \ {c} \in G /\ T \ {x} \in G
        BY <1>1, <2>1
      <3> DEFINE R == T \ {c, x}
      <3>2. (T \ {c}) \ {x} = R /\ (T \ {x}) \ {c} = R /\ IsFiniteSet(R)
        BY <2>2, FS_Subset
      <3> HIDE DEF R
      <3>3. SumOver(f, T \ {c}) = f[x] + SumOver(f, R)
        BY <2>5, <3>1, <3>2
      <3>4. SumOver(f, T \ {x}) = f[c] + SumOver(f, R)
        BY <2>1, <2>5, <3>1, <3>2
      <3>5. SumOver(f, R) \in Int
        BY <3>2, SumInt DEF R
      <3>6. f[x] \in Int /\ f[c] \in Int
        BY <2>1
      <3> QED BY <2>3, <3>3, <3>4, <3>5, <3>6
    <2> QED BY <2>4, <2>5
  <1>2. \A T \in SUBSET S : T \in G
    <2> HIDE DEF G
    <2> QED BY <1>1, SubsetInduction
  <1> QED BY <1>2

(* A sum depends on the terms that are in it.                              *)
LEMMA SumSame ==
    ASSUME NEW S, IsFiniteSet(S), NEW f, NEW g, \A x \in S : f[x] = g[x]
    PROVE  SumOver(f, S) = SumOver(g, S)
  <1> DEFINE G == {T \in SUBSET S : SumOver(f, T) = SumOver(g, T)}
  <1>1. ASSUME NEW T \in SUBSET S, \A U \in SUBSET T : U # T => U \in G
        PROVE  T \in G
    <2>1. IsFiniteSet(T)
      BY FS_Subset
    <2>2. CASE T = {}
      BY <2>2, SumEmpty
    <2>3. CASE T # {}
      <3>1. Chosen(T) \in T
        BY <2>3 DEF Chosen
      <3>2. SumOver(f, T \ {Chosen(T)}) = SumOver(g, T \ {Chosen(T)})
        BY <1>1, <3>1
      <3> QED BY <2>1, <2>3, <3>1, <3>2, SumChosen
    <2> QED BY <2>2, <2>3
  <1>2. \A T \in SUBSET S : T \in G
    <2> HIDE DEF G
    <2> QED BY <1>1, SubsetInduction
  <1> QED BY <1>2

(* Adding an element adds its term.                                        *)
LEMMA SumAdd ==
    ASSUME NEW S, IsFiniteSet(S), NEW f, NEW y, y \notin S,
           \A x \in S \cup {y} : f[x] \in Int
    PROVE  SumOver(f, S \cup {y}) = SumOver(f, S) + f[y]
  <1>1. IsFiniteSet(S \cup {y}) /\ (S \cup {y}) \ {y} = S
    BY FS_AddElement
  <1>2. SumOver(f, S \cup {y}) = f[y] + SumOver(f, (S \cup {y}) \ {y})
    BY <1>1, SumRemove
  <1>3. SumOver(f, S) \in Int /\ f[y] \in Int
    BY SumInt
  <1>4. SumOver(f, S \cup {y}) = f[y] + SumOver(f, S)
    BY <1>1, <1>2, Zenon
  <1> QED BY <1>3, <1>4

(* Changing one term changes the sum by as much.                           *)
LEMMA SumChange ==
    ASSUME NEW S, IsFiniteSet(S), NEW f, NEW g, NEW y \in S,
           \A x \in S : f[x] \in Int /\ g[x] \in Int,
           \A x \in S \ {y} : f[x] = g[x]
    PROVE  SumOver(g, S) = SumOver(f, S) + g[y] - f[y]
  <1>1. IsFiniteSet(S \ {y})
    BY FS_Subset
  <1>2. SumOver(f, S \ {y}) = SumOver(g, S \ {y})
    BY <1>1, SumSame
  <1>3. SumOver(f, S) = f[y] + SumOver(f, S \ {y})
    BY SumRemove
  <1>4. SumOver(g, S) = g[y] + SumOver(g, S \ {y})
    BY SumRemove
  <1>5. SumOver(f, S \ {y}) \in Int
    BY <1>1, SumInt
  <1> QED BY <1>2, <1>3, <1>4, <1>5

(* A sum of natural numbers is at least each of them.                      *)
LEMMA SumBounds ==
    ASSUME NEW S, IsFiniteSet(S), NEW f, \A x \in S : f[x] \in Nat
    PROVE  /\ SumOver(f, S) \in Nat
           /\ \A y \in S : f[y] <= SumOver(f, S)
  <1> DEFINE G == {T \in SUBSET S : SumOver(f, T) \in Nat}
  <1>1. ASSUME NEW T \in SUBSET S, \A U \in SUBSET T : U # T => U \in G
        PROVE  T \in G
    <2>1. IsFiniteSet(T)
      BY FS_Subset
    <2>2. CASE T = {}
      BY <2>2, SumEmpty
    <2>3. CASE T # {}
      <3>1. Chosen(T) \in T
        BY <2>3 DEF Chosen
      <3>2. SumOver(f, T \ {Chosen(T)}) \in Nat
        BY <1>1, <3>1
      <3> QED BY <2>1, <2>3, <3>1, <3>2, SumChosen
    <2> QED BY <2>2, <2>3
  <1>2. \A T \in SUBSET S : SumOver(f, T) \in Nat
    <2>1. \A T \in SUBSET S : T \in G
      <3> HIDE DEF G
      <3> QED BY <1>1, SubsetInduction
    <2> QED BY <2>1
  <1>3. ASSUME NEW y \in S
        PROVE  f[y] <= SumOver(f, S)
    <2>1. SumOver(f, S \ {y}) \in Nat
      BY <1>2
    <2> QED BY <2>1, SumRemove
  <1> QED BY <1>2, <1>3

(* The same, with the terms' type behind a name.                           *)
IntsOn(f, S) == \A x \in S : f[x] \in Int

LEMMA SumInserted ==
    ASSUME NEW S, IsFiniteSet(S), NEW f, NEW y, y \notin S, IntsOn(f, S \cup {y})
    PROVE  SumOver(f, S \cup {y}) = SumOver(f, S) + f[y]
  BY SumAdd DEF IntsOn

(* The sum of two functions, term by term.                                 *)
LEMMA SumPlus ==
    ASSUME NEW S, IsFiniteSet(S), NEW f, NEW g, NEW h,
           \A x \in S : f[x] \in Int /\ g[x] \in Int /\ h[x] = f[x] + g[x]
    PROVE  SumOver(h, S) = SumOver(f, S) + SumOver(g, S)
  <1> DEFINE G == {T \in SUBSET S : SumOver(h, T) = SumOver(f, T) + SumOver(g, T)}
  <1>1. ASSUME NEW T \in SUBSET S, \A U \in SUBSET T : U # T => U \in G
        PROVE  T \in G
    <2>1. IsFiniteSet(T)
      BY FS_Subset
    <2>2. CASE T = {}
      BY <2>2, SumEmpty
    <2>3. CASE T # {}
      <3> DEFINE c == Chosen(T)
                 R == T \ {c}
      <3>1. c \in T
        BY <2>3 DEF Chosen
      <3>2. SumOver(h, R) = SumOver(f, R) + SumOver(g, R)
        BY <1>1, <3>1
      <3>3. /\ SumOver(f, T) = f[c] + SumOver(f, R)
            /\ SumOver(g, T) = g[c] + SumOver(g, R)
            /\ SumOver(h, T) = h[c] + SumOver(h, R)
        BY <2>1, <2>3, SumChosen
      <3> HIDE DEF c
      <3>4. IsFiniteSet(R) /\ R \subseteq S
        BY <2>1, FS_Subset
      <3> HIDE DEF R
      <3>5. SumOver(f, R) \in Int /\ SumOver(g, R) \in Int
        BY <3>4, SumInt
      <3>6. f[c] \in Int /\ g[c] \in Int /\ h[c] = f[c] + g[c]
        BY <3>1
      <3> QED BY <3>2, <3>3, <3>5, <3>6
    <2> QED BY <2>2, <2>3
  <1>2. \A T \in SUBSET S : T \in G
    <2> HIDE DEF G
    <2> QED BY <1>1, SubsetInduction
  <1> QED BY <1>2

(* The sum over two disjoint sets.                                         *)
LEMMA SumUnion ==
    ASSUME NEW S, IsFiniteSet(S), NEW T, IsFiniteSet(T), S \cap T = {}, NEW f,
           \A x \in S \cup T : f[x] \in Int
    PROVE  SumOver(f, S \cup T) = SumOver(f, S) + SumOver(f, T)
  <1> DEFINE G == {U \in SUBSET T : SumOver(f, S \cup U) = SumOver(f, S) + SumOver(f, U)}
  <1>0. SumOver(f, S) \in Int
    BY SumInt
  <1>1. ASSUME NEW U \in SUBSET T, \A V \in SUBSET U : V # U => V \in G
        PROVE  U \in G
    <2>1. CASE U = {}
      <3>1. S \cup U = S
        BY <2>1
      <3> QED BY <1>0, <2>1, <3>1, SumEmpty
    <2>2. CASE U # {}
      <3>1. PICK y : y \in U
        BY <2>2
      <3> DEFINE R == U \ {y}
                 A == S \cup R
      <3>2. IsFiniteSet(R) /\ IsFiniteSet(A)
        BY FS_Subset, FS_Union
      <3>3. y \notin R /\ y \notin A /\ R \cup {y} = U /\ A \cup {y} = S \cup U
        BY <3>1
      <3>4. \A x \in A \cup {y} : f[x] \in Int
        BY <3>1
      <3>5. \A x \in R \cup {y} : f[x] \in Int
        BY <3>1
      <3>6. SumOver(f, A) = SumOver(f, S) + SumOver(f, R)
        BY <1>1, <3>1
      <3> HIDE DEF R, A
      <3>7. SumOver(f, A \cup {y}) = SumOver(f, A) + f[y]
        BY <3>2, <3>3, <3>4, SumAdd
      <3>8. SumOver(f, R \cup {y}) = SumOver(f, R) + f[y]
        BY <3>2, <3>3, <3>5, SumAdd
      <3>9. SumOver(f, R) \in Int /\ f[y] \in Int
        BY <3>2, <3>5, SumInt
      <3>10. /\ SumOver(f, S \cup U) = SumOver(f, A) + f[y]
             /\ SumOver(f, U) = SumOver(f, R) + f[y]
        BY <3>3, <3>7, <3>8, Zenon
      <3>11. SumOver(f, S \cup U) = SumOver(f, S) + SumOver(f, U)
        BY <1>0, <3>6, <3>9, <3>10
      <3> QED BY <3>11
    <2> QED BY <2>1, <2>2
  <1>2. \A U \in SUBSET T : U \in G
    <2> HIDE DEF G
    <2> QED BY <1>1, SubsetInduction
  <1> QED BY <1>2

(* The same terms at indices n further on.                                 *)
Shifts(f, g, n, S) == \A i \in S : g[i + n] = f[i]

LEMMA SumShift ==
    ASSUME NEW n \in Int, NEW S, IsFiniteSet(S), S \subseteq Int, NEW f, NEW g,
           IntsOn(f, S), Shifts(f, g, n, S)
    PROVE  /\ IsFiniteSet({i + n : i \in S})
           /\ SumOver(g, {i + n : i \in S}) = SumOver(f, S)
  <1> DEFINE On(U) == {i + n : i \in U}
             G == {U \in SUBSET S : IsFiniteSet(On(U)) /\ SumOver(g, On(U)) = SumOver(f, U)}
  <1>1. ASSUME NEW U \in SUBSET S, \A V \in SUBSET U : V # U => V \in G
        PROVE  U \in G
    <2>1. CASE U = {}
      <3>1. On(U) = {}
        BY <2>1
      <3> QED BY <2>1, <3>1, SumEmpty, FS_EmptySet
    <2>2. CASE U # {}
      <3>1. PICK y : y \in U
        BY <2>2
      <3> DEFINE R == U \ {y}
      <3>2. R \in G
        BY <1>1, <3>1
      <3> DEFINE z == y + n
      <3>3. /\ On(U) = On(R) \cup {z} /\ z \notin On(R)
            /\ U = R \cup {y} /\ y \notin R
        <4>1. U = R \cup {y} /\ y \notin R /\ U \subseteq Int
          BY <3>1
        <4> HIDE DEF R
        <4>2. On(U) = On(R) \cup {z}
          BY <4>1
        <4>3. z \notin On(R)
          BY <4>1
        <4> QED BY <4>1, <4>2, <4>3
      <3>4. IsFiniteSet(R) /\ R \subseteq S /\ y \in S
        BY <3>1, FS_Subset
      <3>5. IntsOn(g, On(R) \cup {z})
        BY <3>4 DEF IntsOn, Shifts
      <3>6. IntsOn(f, R \cup {y})
        BY <3>4 DEF IntsOn
      <3>7. g[z] = f[y]
        BY <3>4 DEF Shifts
      <3>8. IsFiniteSet(On(R)) /\ SumOver(g, On(R)) = SumOver(f, R)
        BY <3>2
      <3> HIDE DEF R, z
      <3>9. SumOver(g, On(R) \cup {z}) = SumOver(g, On(R)) + g[z]
        <4> DEFINE onR == On(R)
        <4>1. IsFiniteSet(onR) /\ z \notin onR /\ IntsOn(g, onR \cup {z})
          BY <3>3, <3>5, <3>8
        <4> HIDE DEF onR
        <4>2. SumOver(g, onR \cup {z}) = SumOver(g, onR) + g[z]
          BY <4>1, SumInserted
        <4> QED BY <4>2 DEF onR
      <3>10. SumOver(f, R \cup {y}) = SumOver(f, R) + f[y]
        <4>1. IsFiniteSet(R) /\ y \notin R
          BY <3>3, <3>4
        <4> QED BY <3>6, <4>1, SumInserted
      <3>11. IsFiniteSet(On(R) \cup {z})
        BY <3>8, FS_AddElement
      <3>12. IsFiniteSet(On(U)) /\ SumOver(g, On(U)) = SumOver(f, U)
        BY <3>3, <3>7, <3>8, <3>9, <3>10, <3>11, Zenon
      <3> QED BY <3>12
    <2> QED BY <2>1, <2>2
  <1>2. \A U \in SUBSET S : U \in G
    <2> HIDE DEF G
    <2> QED BY <1>1, SubsetInduction
  <1> QED BY <1>2

(* Summing by key, and then over the keys, is summing.                     *)
Groups(h, A, f, S, key) == \A a \in A : h[a] = SumOver(f, {i \in S : key[i] = a})

LEMMA SumByKey ==
    ASSUME NEW S, IsFiniteSet(S), NEW f, IntsOn(f, S),
           NEW key, NEW A, IsFiniteSet(A), NEW h, Groups(h, A, f, S, key)
    PROVE  SumOver(h, A) = SumOver(f, {i \in S : key[i] \in A})
  <1> DEFINE In(B) == {i \in S : key[i] \in B}
             G == {B \in SUBSET A : SumOver(h, B) = SumOver(f, In(B))}
  <1>0. \A B : IsFiniteSet(In(B)) /\ In(B) \subseteq S
    BY FS_Subset
  <1>1. ASSUME NEW B \in SUBSET A, \A C \in SUBSET B : C # B => C \in G
        PROVE  B \in G
    <2>1. CASE B = {}
      <3>1. In(B) = {}
        BY <2>1
      <3> QED BY <2>1, <3>1, SumEmpty
    <2>2. CASE B # {}
      <3>1. PICK b : b \in B
        BY <2>2
      <3> DEFINE R == B \ {b}
                 At == {i \in S : key[i] = b}
      <3>2. SumOver(h, R) = SumOver(f, In(R))
        BY <1>1, <3>1
      <3>3. In(B) = In(R) \cup At /\ In(R) \cap At = {} /\ b \notin R /\ B = R \cup {b}
        BY <3>1
      <3>4. IsFiniteSet(In(R)) /\ IsFiniteSet(At) /\ At \subseteq S /\ In(R) \subseteq S
        BY FS_Subset
      <3>5. h[b] = SumOver(f, At)
        BY <3>1 DEF Groups
      <3>6. IsFiniteSet(R)
        BY FS_Subset
      <3>7. IntsOn(h, R \cup {b})
        <4> SUFFICES ASSUME NEW a \in R \cup {b} PROVE h[a] \in Int
          BY DEF IntsOn
        <4> DEFINE K == {i \in S : key[i] = a}
        <4>1. IsFiniteSet(K) /\ K \subseteq S /\ h[a] = SumOver(f, K)
          BY <3>1, FS_Subset DEF Groups
        <4> HIDE DEF K
        <4>2. \A i \in K : f[i] \in Int
          BY <4>1 DEF IntsOn
        <4> QED BY <4>1, <4>2, SumInt
      <3> HIDE DEF R, At
      <3>8. SumOver(f, In(R) \cup At) = SumOver(f, In(R)) + SumOver(f, At)
        <4> DEFINE I == In(R)
        <4>1. \A i \in I \cup At : f[i] \in Int
          BY <3>4 DEF IntsOn
        <4>2. IsFiniteSet(I) /\ IsFiniteSet(At) /\ I \cap At = {}
          BY <3>3, <3>4
        <4> HIDE DEF I
        <4>3. SumOver(f, I \cup At) = SumOver(f, I) + SumOver(f, At)
          BY <4>1, <4>2, SumUnion
        <4> QED BY <4>3 DEF I
      <3>9. SumOver(h, R \cup {b}) = SumOver(h, R) + h[b]
        <4>1. b \notin R
          BY <3>3
        <4> QED BY <3>6, <3>7, <4>1, SumInserted
      <3>10. SumOver(h, B) = SumOver(f, In(B))
        BY <3>2, <3>3, <3>5, <3>8, <3>9
      <3> QED BY <3>10
    <2> QED BY <2>1, <2>2
  <1>2. \A B \in SUBSET A : B \in G
    <2> HIDE DEF G
    <2> QED BY <1>1, SubsetInduction
  <1> QED BY <1>2

=============================================================================
