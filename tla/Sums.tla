-------------------------------- MODULE Sums --------------------------------
(***************************************************************************)
(* Sums over finite sets, for the books that are kept beside rows.         *)
(*                                                                         *)
(* Invariants add up with the folds of the community modules.  A fold is   *)
(* a recursive function; here that it is well defined, and what it then    *)
(* satisfies, is proved for addition, by looking at a smallest subset on   *)
(* which the statement would fail.                                         *)
(***************************************************************************)
EXTENDS Integers, FiniteSets, Functions, FiniteSetTheorems, TLAPS

Picked(s) == CHOOSE x \in s : TRUE

\* The function that the folds define by recursion, on the subsets of S.
SumsUp(g, f, S) ==
  g = [s \in SUBSET S |-> IF s = {} THEN 0
                          ELSE f[Picked(s)] + g[s \ {Picked(s)}]]

\* The sum of f over S.
Total(f, S) == (CHOOSE g : SumsUp(g, f, S))[S]

LEMMA FoldIsTotal ==
  ASSUME NEW f
  PROVE  FoldFunction(+, 0, f) = Total(f, DOMAIN f)
BY DEF FoldFunction, FoldFunctionOnSet, MapThenFoldSet, Total, SumsUp, Picked

LEMMA SumOnSetIsTotal ==
  ASSUME NEW f, NEW S
  PROVE  SumFunctionOnSet(f, S) = Total(f, S)
BY DEF SumFunctionOnSet, FoldFunctionOnSet, MapThenFoldSet, Total, SumsUp, Picked

-----------------------------------------------------------------------------
(* Among the subsets of a finite set with some fault there is a smallest.    *)
LEMMA Smallest ==
  ASSUME NEW S, IsFiniteSet(S), NEW Faulty, Faulty \subseteq SUBSET S, Faulty # {}
  PROVE  \E T \in Faulty : \A U \in SUBSET T : U # T => U \notin Faulty
<1>1. IsWellFoundedOn(StrictSubsetOrdering(S), FiniteSubsetsOf(S))
  BY FS_StrictSubsetOrderingWellFounded
<1>2. FiniteSubsetsOf(S) = SUBSET S
  BY FS_FiniteSubsetsOfFinite
<1>3. \E T \in Faulty : \A U \in Faulty : <<U, T>> \notin StrictSubsetOrdering(S)
  BY <1>1, <1>2, WFMin
<1>4. QED
  BY <1>3 DEF StrictSubsetOrdering

LEMMA PickedIsIn ==
  ASSUME NEW s, s # {}
  PROVE  Picked(s) \in s
BY DEF Picked

LEMMA SumsUpAt ==
  ASSUME NEW f, NEW S, NEW g, SumsUp(g, f, S), NEW s \in SUBSET S
  PROVE  g[s] = IF s = {} THEN 0 ELSE f[Picked(s)] + g[s \ {Picked(s)}]
BY DEF SumsUp

(* Two such functions agree wherever both are defined.                       *)
LEMMA SumsAgree ==
  ASSUME NEW f, NEW S, NEW T, IsFiniteSet(S), T \subseteq S,
         NEW g, SumsUp(g, f, S), NEW h, SumsUp(h, f, T)
  PROVE  \A s \in SUBSET T : g[s] = h[s]
<1> DEFINE Faulty == {s \in SUBSET T : g[s] # h[s]}
<1>1. SUFFICES ASSUME Faulty # {} PROVE FALSE
  OBVIOUS
<1>2. PICK s \in Faulty : \A u \in SUBSET s : u # s => u \notin Faulty
  <2>1. Faulty \subseteq SUBSET S
    OBVIOUS
  <2> HIDE DEF Faulty
  <2>2. QED
    BY <1>1, <2>1, Smallest
<1>3. s \in SUBSET S /\ s \in SUBSET T /\ g[s] # h[s]
  OBVIOUS
<1>4. CASE s = {}
  BY <1>3, <1>4, SumsUpAt
<1>5. CASE s # {}
  <2> DEFINE u == s \ {Picked(s)}
  <2>1. u \in SUBSET s /\ u # s
    BY <1>5, PickedIsIn
  <2>2. g[u] = h[u]
    BY <1>2, <1>3, <2>1
  <2>3. QED
    BY <1>3, <1>5, <2>2, SumsUpAt
<1>6. QED
  BY <1>4, <1>5

(* The recursion is well founded.                                            *)
LEMMA SumsExist ==
  ASSUME NEW f, NEW S, IsFiniteSet(S)
  PROVE  \E g : SumsUp(g, f, S)
<1> DEFINE Faulty == {T \in SUBSET S : ~ \E g : SumsUp(g, f, T)}
<1>1. SUFFICES ASSUME Faulty # {} PROVE FALSE
  OBVIOUS
<1>2. PICK T \in Faulty : \A U \in SUBSET T : U # T => U \notin Faulty
  <2>1. Faulty \subseteq SUBSET S
    OBVIOUS
  <2> HIDE DEF Faulty
  <2>2. QED
    BY <1>1, <2>1, Smallest
<1>3. /\ T \in SUBSET S /\ IsFiniteSet(T)
      /\ \A U \in SUBSET T : U # T => \E g : SumsUp(g, f, U)
  <2>1. T \in SUBSET S
    OBVIOUS
  <2>2. ASSUME NEW U \in SUBSET T, U # T PROVE \E g : SumsUp(g, f, U)
    BY <1>2, <2>1, <2>2
  <2>3. QED
    BY <2>1, <2>2, FS_Subset
<1> DEFINE part(U) == CHOOSE g : SumsUp(g, f, U)
           rest(s) == s \ {Picked(s)}
           G == [s \in SUBSET T |-> IF s = {} THEN 0
                                    ELSE f[Picked(s)] + part(rest(s))[rest(s)]]
<1>4. \A U \in SUBSET T : U # T => SumsUp(part(U), f, U)
  BY <1>3
<1>5. ASSUME NEW s \in SUBSET T, s # {}
      PROVE  G[rest(s)] = part(rest(s))[rest(s)]
  <2> DEFINE u == rest(s)
  <2>1. u \in SUBSET T /\ u # T
    BY <1>5, PickedIsIn
  <2>2. SumsUp(part(u), f, u)
    BY <1>4, <2>1
  <2>0. part(u)[u] = IF u = {} THEN 0 ELSE f[Picked(u)] + part(u)[rest(u)]
    <3> HIDE DEF part, u
    <3>1. QED
      BY <2>2, SumsUpAt
  <2>3. CASE u = {}
    <3>1. part(u)[u] = 0
      BY <2>0, <2>3
    <3>2. G[u] = 0
      BY <2>1, <2>3
    <3>3. QED
      BY <3>1, <3>2
  <2>4. CASE u # {}
    <3>1. part(u)[u] = f[Picked(u)] + part(u)[rest(u)]
      BY <2>0, <2>4
    <3>2. rest(u) \subseteq u /\ rest(u) \in SUBSET T /\ rest(u) # T
      BY <2>1, <2>4, PickedIsIn
    <3>3. SumsUp(part(rest(u)), f, rest(u))
      BY <1>4, <3>2
    <3>4. IsFiniteSet(u)
      BY <1>3, <2>1, FS_Subset
    <3>5. part(u)[rest(u)] = part(rest(u))[rest(u)]
      <4> HIDE DEF part, u
      <4>1. \A x \in SUBSET rest(u) : part(u)[x] = part(rest(u))[x]
        BY <2>2, <3>2, <3>3, <3>4, SumsAgree
      <4>2. QED
        BY <4>1
    <3>6. QED
      BY <2>1, <2>4, <3>1, <3>5
  <2>5. QED
    BY <2>3, <2>4
<1>6. SumsUp(G, f, T)
  <2>1. ASSUME NEW s \in SUBSET T
        PROVE  G[s] = IF s = {} THEN 0 ELSE f[Picked(s)] + G[rest(s)]
    <3>1. G[s] = IF s = {} THEN 0 ELSE f[Picked(s)] + part(rest(s))[rest(s)]
      OBVIOUS
    <3> HIDE DEF G, part, rest
    <3>2. QED
      BY <1>5, <3>1
  <2> HIDE DEF G
  <2>2. G = [s \in SUBSET T |-> G[s]]
    BY DEF G
  <2>3. QED
    BY <2>1, <2>2 DEF SumsUp
<1>7. QED
  BY <1>2, <1>6

-----------------------------------------------------------------------------
(* The defining equation, and that any element may be taken out first.       *)

LEMMA TotalStep ==
  ASSUME NEW f, NEW S, IsFiniteSet(S)
  PROVE  Total(f, S) = IF S = {} THEN 0
                       ELSE f[Picked(S)] + Total(f, S \ {Picked(S)})
<1>1. PICK u : u = S \ {Picked(S)}
  OBVIOUS
<1>2. u \subseteq S /\ IsFiniteSet(u)
  BY <1>1, FS_Subset
<1>3. PICK g : SumsUp(g, f, S) /\ Total(f, S) = g[S]
  BY SumsExist DEF Total
<1>4. PICK h : SumsUp(h, f, u) /\ Total(f, u) = h[u]
  BY <1>2, SumsExist DEF Total
<1>5. g[S] = IF S = {} THEN 0 ELSE f[Picked(S)] + g[u]
  BY <1>1, <1>3, SumsUpAt
<1>6. g[u] = h[u]
  <2>1. \A s \in SUBSET u : g[s] = h[s]
    BY <1>2, <1>3, <1>4, SumsAgree
  <2>2. QED
    BY <2>1
<1>7. QED
  BY <1>1, <1>3, <1>4, <1>5, <1>6

LEMMA TotalEmpty ==
  ASSUME NEW f
  PROVE  Total(f, {}) = 0
BY TotalStep, FS_EmptySet

LEMMA TotalType ==
  ASSUME NEW S, IsFiniteSet(S), NEW f, \A x \in S : f[x] \in Int
  PROVE  Total(f, S) \in Int
<1> DEFINE Faulty == {T \in SUBSET S : Total(f, T) \notin Int}
<1>1. SUFFICES ASSUME Faulty # {} PROVE FALSE
  OBVIOUS
<1>2. PICK T \in Faulty : \A U \in SUBSET T : U # T => U \notin Faulty
  <2>1. Faulty \subseteq SUBSET S
    OBVIOUS
  <2> HIDE DEF Faulty
  <2>2. QED
    BY <1>1, <2>1, Smallest
<1>3. T \in SUBSET S /\ Total(f, T) \notin Int /\ IsFiniteSet(T)
  BY FS_Subset
<1>4. T # {}
  BY <1>3, TotalEmpty
<1>5. Picked(T) \in T
  BY <1>4, PickedIsIn
<1>6. Total(f, T \ {Picked(T)}) \in Int
  BY <1>2, <1>3, <1>5
<1>7. QED
  BY <1>3, <1>4, <1>5, <1>6, TotalStep

LEMMA TotalWithout ==
  ASSUME NEW S, IsFiniteSet(S), NEW f, \A x \in S : f[x] \in Int, NEW x \in S
  PROVE  Total(f, S) = f[x] + Total(f, S \ {x})
<1> DEFINE Faulty ==
      {T \in SUBSET S : \E y \in T : Total(f, T) # f[y] + Total(f, T \ {y})}
<1>1. SUFFICES ASSUME Faulty # {} PROVE FALSE
  OBVIOUS
<1>2. PICK T \in Faulty : \A U \in SUBSET T : U # T => U \notin Faulty
  <2>1. Faulty \subseteq SUBSET S
    OBVIOUS
  <2> HIDE DEF Faulty
  <2>2. QED
    BY <1>1, <2>1, Smallest
<1>3. T \in SUBSET S /\ IsFiniteSet(T)
  BY FS_Subset
<1>4. PICK y \in T : Total(f, T) # f[y] + Total(f, T \ {y})
  OBVIOUS
<1> DEFINE p == Picked(T)
<1>5. p \in T
  BY <1>4, PickedIsIn
<1>6. Total(f, T) = f[p] + Total(f, T \ {p})
  BY <1>3, <1>4, TotalStep
<1>7. y # p
  BY <1>4, <1>6
<1>8. Total(f, T \ {p}) = f[y] + Total(f, (T \ {p}) \ {y})
  <2>1. y \in T \ {p} /\ T \ {p} \in SUBSET T /\ T \ {p} # T
    BY <1>5, <1>7
  <2>2. T \ {p} \notin Faulty
    BY <1>2, <2>1
  <2>3. QED
    BY <1>3, <2>1, <2>2
<1>9. Total(f, T \ {y}) = f[p] + Total(f, (T \ {y}) \ {p})
  <2>1. p \in T \ {y} /\ T \ {y} \in SUBSET T /\ T \ {y} # T
    BY <1>5, <1>7
  <2>2. T \ {y} \notin Faulty
    BY <1>2, <2>1
  <2>3. QED
    BY <1>3, <2>1, <2>2
<1>10. (T \ {p}) \ {y} = (T \ {y}) \ {p}
  OBVIOUS
<1>11. Total(f, (T \ {p}) \ {y}) \in Int /\ f[p] \in Int /\ f[y] \in Int
  <2>1. IsFiniteSet((T \ {p}) \ {y})
    BY <1>3, FS_Subset
  <2>2. QED
    BY <1>3, <1>5, <2>1, TotalType
<1>12. QED
  BY <1>4, <1>6, <1>8, <1>9, <1>10, <1>11

(* A sum looks only at the elements it adds.                                 *)
LEMMA TotalSame ==
  ASSUME NEW S, IsFiniteSet(S), NEW f, NEW g, \A x \in S : f[x] = g[x]
  PROVE  Total(f, S) = Total(g, S)
<1> DEFINE Faulty == {T \in SUBSET S : Total(f, T) # Total(g, T)}
<1>1. SUFFICES ASSUME Faulty # {} PROVE FALSE
  OBVIOUS
<1>2. PICK T \in Faulty : \A U \in SUBSET T : U # T => U \notin Faulty
  <2>1. Faulty \subseteq SUBSET S
    OBVIOUS
  <2> HIDE DEF Faulty
  <2>2. QED
    BY <1>1, <2>1, Smallest
<1>3. T \in SUBSET S /\ Total(f, T) # Total(g, T) /\ IsFiniteSet(T)
  BY FS_Subset
<1>4. T # {}
  BY <1>3, TotalEmpty
<1>5. Picked(T) \in T
  BY <1>4, PickedIsIn
<1>6. Total(f, T \ {Picked(T)}) = Total(g, T \ {Picked(T)})
  BY <1>2, <1>3, <1>5
<1>7. QED
  BY <1>3, <1>4, <1>5, <1>6, TotalStep

(* Sums are added element by element.                                        *)
LEMMA TotalAdds ==
  ASSUME NEW S, IsFiniteSet(S), NEW f, NEW g, NEW h,
         \A x \in S : f[x] \in Int /\ g[x] \in Int /\ h[x] = f[x] + g[x]
  PROVE  Total(h, S) = Total(f, S) + Total(g, S)
<1> DEFINE Faulty ==
      {T \in SUBSET S : Total(h, T) # Total(f, T) + Total(g, T)}
<1>1. SUFFICES ASSUME Faulty # {} PROVE FALSE
  OBVIOUS
<1>2. PICK T \in Faulty : \A U \in SUBSET T : U # T => U \notin Faulty
  <2>1. Faulty \subseteq SUBSET S
    OBVIOUS
  <2> HIDE DEF Faulty
  <2>2. QED
    BY <1>1, <2>1, Smallest
<1>3. /\ T \in SUBSET S /\ Total(h, T) # Total(f, T) + Total(g, T)
      /\ IsFiniteSet(T)
  BY FS_Subset
<1>4. T # {}
  BY <1>3, TotalEmpty
<1> DEFINE p == Picked(T)
           u == T \ {p}
<1>5. p \in T
  BY <1>4, PickedIsIn
<1>6. Total(h, u) = Total(f, u) + Total(g, u)
  BY <1>2, <1>3, <1>5
<1>7. /\ Total(h, T) = h[p] + Total(h, u) /\ Total(f, T) = f[p] + Total(f, u)
      /\ Total(g, T) = g[p] + Total(g, u)
  BY <1>3, <1>4, TotalStep
<1>8. Total(f, u) \in Int /\ Total(g, u) \in Int
  <2>1. IsFiniteSet(u)
    BY <1>3, FS_Subset
  <2>2. QED
    BY <1>3, <2>1, TotalType
<1>9. QED
  BY <1>3, <1>5, <1>6, <1>7, <1>8

LEMMA TotalZero ==
  ASSUME NEW S, IsFiniteSet(S), NEW f, \A x \in S : f[x] = 0
  PROVE  Total(f, S) = 0
<1>1. Total(f, S) = Total(f, S) + Total(f, S)
  BY TotalAdds
<1>2. PICK n \in Int : n = Total(f, S)
  BY TotalType
<1>3. n = n + n
  BY <1>1, <1>2
<1>4. n = 0
  BY <1>3
<1>5. QED
  BY <1>2, <1>4

(* What one element changes, it changes of the sum.                          *)
LEMMA TotalChange ==
  ASSUME NEW S, IsFiniteSet(S), NEW x \in S, NEW f, NEW g,
         \A y \in S : f[y] \in Int /\ g[y] \in Int,
         \A y \in S \ {x} : g[y] = f[y]
  PROVE  Total(g, S) = Total(f, S) - f[x] + g[x]
<1>1. IsFiniteSet(S \ {x})
  BY FS_Subset
<1>2. Total(f, S) = f[x] + Total(f, S \ {x})
  BY TotalWithout
<1>3. Total(g, S) = g[x] + Total(g, S \ {x})
  BY TotalWithout
<1>4. Total(f, S \ {x}) = Total(g, S \ {x})
  BY <1>1, TotalSame
<1>5. Total(f, S \ {x}) \in Int
  BY <1>1, TotalType
<1>6. QED
  BY <1>2, <1>3, <1>4, <1>5

(* A sum over some elements is the sum over all, where the others count 0.   *)
LEMMA TotalOfPart ==
  ASSUME NEW S, IsFiniteSet(S), NEW R, R \subseteq S, NEW f, NEW g,
         \A x \in R : f[x] \in Int,
         \A x \in S : g[x] = IF x \in R THEN f[x] ELSE 0
  PROVE  Total(f, R) = Total(g, S)
<1> DEFINE Faulty == {T \in SUBSET S : Total(g, T) # Total(f, T \cap R)}
<1>1. SUFFICES ASSUME Faulty # {} PROVE FALSE
  <2>1. S \cap R = R /\ S \in SUBSET S
    OBVIOUS
  <2>2. Faulty = {} => Total(g, S) = Total(f, S \cap R)
    BY <2>1
  <2>3. QED
    BY <2>1, <2>2
<1>2. PICK T \in Faulty : \A U \in SUBSET T : U # T => U \notin Faulty
  <2>1. Faulty \subseteq SUBSET S
    OBVIOUS
  <2> HIDE DEF Faulty
  <2>2. QED
    BY <1>1, <2>1, Smallest
<1>3. T \in SUBSET S /\ Total(g, T) # Total(f, T \cap R) /\ IsFiniteSet(T)
  BY FS_Subset
<1>4. T # {}
  BY <1>3, TotalEmpty
<1>5. PICK p : p \in T
  BY <1>4
<1>6. Total(g, T \ {p}) = Total(f, (T \ {p}) \cap R)
  BY <1>2, <1>3, <1>5
<1>7. Total(g, T) = g[p] + Total(g, T \ {p})
  BY <1>3, <1>5, TotalWithout
<1>8. Total(g, T \ {p}) \in Int
  <2>1. IsFiniteSet(T \ {p})
    BY <1>3, FS_Subset
  <2>2. QED
    BY <1>3, <2>1, TotalType
<1>9. CASE p \in R
  <2>1. (T \ {p}) \cap R = (T \cap R) \ {p} /\ IsFiniteSet(T \cap R)
    BY <1>3, FS_Subset
  <2>2. Total(f, T \cap R) = f[p] + Total(f, (T \cap R) \ {p})
    BY <1>5, <1>9, <2>1, TotalWithout
  <2>3. QED
    BY <1>3, <1>5, <1>6, <1>7, <1>9, <2>1, <2>2
<1>10. CASE p \notin R
  <2>1. (T \ {p}) \cap R = T \cap R
    BY <1>10
  <2>2. QED
    BY <1>3, <1>5, <1>6, <1>7, <1>8, <1>10, <2>1
<1>11. QED
  BY <1>9, <1>10

(* What is never negative adds up to what each of its parts is at most.      *)
LEMMA TotalNat ==
  ASSUME NEW S, IsFiniteSet(S), NEW f, \A x \in S : f[x] \in Nat
  PROVE  /\ Total(f, S) \in Nat
         /\ \A x \in S : f[x] <= Total(f, S)
<1> DEFINE Faulty == {T \in SUBSET S : Total(f, T) \notin Nat}
<1>1. ASSUME Faulty # {} PROVE FALSE
  <2>1. PICK T \in Faulty : \A U \in SUBSET T : U # T => U \notin Faulty
    <3>1. Faulty \subseteq SUBSET S
      OBVIOUS
    <3> HIDE DEF Faulty
    <3>2. QED
      BY <1>1, <3>1, Smallest
  <2>2. T \in SUBSET S /\ Total(f, T) \notin Nat /\ IsFiniteSet(T)
    BY FS_Subset
  <2>3. T # {}
    BY <2>2, TotalEmpty
  <2>4. Picked(T) \in T
    BY <2>3, PickedIsIn
  <2>5. Total(f, T \ {Picked(T)}) \in Nat
    BY <2>1, <2>2, <2>4
  <2>6. QED
    BY <2>2, <2>3, <2>4, <2>5, TotalStep
<1>2. \A T \in SUBSET S : Total(f, T) \in Nat
  BY <1>1
<1>3. ASSUME NEW x \in S PROVE f[x] <= Total(f, S)
  <2>1. Total(f, S) = f[x] + Total(f, S \ {x})
    BY TotalWithout
  <2>2. Total(f, S \ {x}) \in Nat
    BY <1>2
  <2>3. QED
    BY <2>1, <2>2
<1>4. QED
  BY <1>2, <1>3

(* A sum grows with its terms.                                               *)
LEMMA TotalGrows ==
  ASSUME NEW S, IsFiniteSet(S), NEW f, NEW g,
         \A x \in S : f[x] \in Int /\ g[x] \in Int /\ f[x] <= g[x]
  PROVE  Total(f, S) <= Total(g, S)
<1> DEFINE h == [x \in S |-> g[x] - f[x]]
<1>1. \A x \in S : h[x] \in Nat /\ h[x] \in Int /\ g[x] = f[x] + h[x]
  OBVIOUS
<1> HIDE DEF h
<1>2. Total(g, S) = Total(f, S) + Total(h, S)
  BY <1>1, TotalAdds
<1>3. Total(h, S) \in Nat
  BY <1>1, TotalNat
<1>4. Total(f, S) \in Int
  BY TotalType
<1>5. QED
  BY <1>2, <1>3, <1>4
=============================================================================
