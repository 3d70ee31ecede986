-------------------------------- MODULE Sums --------------------------------
(***************************************************************************)
(* Sums over finite sets: what HintLedger, Graders and Content add up with   *)
(* the folds of the community modules.  A fold recurs through the subsets    *)
(* of its set, and the facts here hold for sets of every size: each is an    *)
(* induction over those subsets, made as an argument about a least           *)
(* counterexample, which the well-founded ordering of the library provides.  *)
(* Then places among numbers, and sequences laid end to end.                 *)
(***************************************************************************)
EXTENDS Integers, Sequences, Functions, SequencesExt, FiniteSetTheorems, SequenceTheorems, WellFoundedInduction, TLAPS

\* Induction over the subsets of a finite set: among bad ones there is a least.
LEMMA LeastSubset ==
    ASSUME NEW S, IsFiniteSet(S), NEW Bad, Bad \subseteq SUBSET S, Bad # {}
    PROVE  \E T \in Bad : \A U \in Bad : U \subseteq T => U = T
<1>1. IsWellFoundedOn(StrictSubsetOrdering(S), SUBSET S)
  BY FS_StrictSubsetOrderingWellFounded, FS_FiniteSubsetsOfFinite
<1>2. PICK T \in Bad : \A U \in Bad : ~(<<U, T>> \in StrictSubsetOrdering(S)) BY <1>1, WFMin
<1>3. \A U \in Bad : U \subseteq T => U = T
  <2> SUFFICES ASSUME NEW U \in Bad, U \subseteq T PROVE U = T OBVIOUS
  <2>1. U \in SUBSET S /\ T \in SUBSET S OBVIOUS
  <2>2. QED BY <1>2, <2>1 DEF StrictSubsetOrdering
<1>4. QED BY <1>3

\* A finite set of numbers has a largest.
LEMMA Largest ==
    ASSUME NEW S, IsFiniteSet(S), \A x \in S : x \in Int, S # {}
    PROVE  \E x \in S : \A y \in S : y <= x
<1> DEFINE Bad == {T \in SUBSET S : T # {} /\ ~\E x \in T : \A y \in T : y <= x}
<1>1. Bad \subseteq SUBSET S /\ \A T : T \in Bad <=> T \in SUBSET S /\ T # {} /\ ~\E x \in T : \A y \in T : y <= x
  OBVIOUS
<1> HIDE DEF Bad
<1>2. SUFFICES ASSUME Bad # {} PROVE FALSE BY <1>1
<1>3. PICK T \in Bad : \A U \in Bad : U \subseteq T => U = T
  <2>1. Bad \subseteq SUBSET S BY <1>1
  <2>2. QED BY <1>2, <2>1, LeastSubset
<1>4. PICK x \in T : TRUE BY <1>1
<1>5. (\A y \in T : y \in Int) /\ ~\E y \in T : \A z \in T : z <= y BY <1>1
<1>6. CASE T \ {x} = {} BY <1>4, <1>5, <1>6
<1>7. CASE T \ {x} # {}
  <2>1. T \ {x} \notin Bad BY <1>3, <1>4
  <2>2. PICK m \in T \ {x} : \A y \in T \ {x} : y <= m BY <1>1, <1>7, <2>1
  <2>3. CASE m <= x
    <3>1. \A y \in T : y <= x BY <1>4, <1>5, <2>2, <2>3
    <3>2. QED BY <1>4, <1>5, <3>1
  <2>4. CASE ~(m <= x)
    <3>1. \A y \in T : y <= m BY <1>4, <1>5, <2>2, <2>4
    <3>2. QED BY <1>5, <2>2, <3>1
  <2>5. QED BY <2>3, <2>4
<1>8. QED BY <1>6, <1>7

\* The sum of a function over a set, and the function its definition recurs
\* through.
Total(f, S) == SumFunctionOnSet(f, S)
First(s) == CHOOSE x \in s : TRUE
SumsUp(g, f, S) == g = [s \in SUBSET S |-> IF s = {} THEN 0 ELSE f[First(s)] + g[s \ {First(s)}]]

\* The sum is the value of that function at the whole set.
LEMMA TotalIs == ASSUME NEW f, NEW S PROVE Total(f, S) = (CHOOSE g : SumsUp(g, f, S))[S]
<1>1. Total(f, S) = LET iter[s \in SUBSET S] ==
                          IF s = {} THEN 0
                          ELSE LET x == CHOOSE y \in s : TRUE IN f[x] + iter[s \ {x}]
                    IN  iter[S]
  BY DEF Total, SumFunctionOnSet, FoldFunctionOnSet, MapThenFoldSet
<1>2. QED BY <1>1 DEF SumsUp, First

\* Two functions that sum up agree where both are defined.
LEMMA SumsAgree ==
    ASSUME NEW f, NEW S, NEW T, IsFiniteSet(S), T \subseteq S, NEW g, NEW h, SumsUp(g, f, S), SumsUp(h, f, T)
    PROVE  \A s \in SUBSET T : g[s] = h[s]
<1> DEFINE Bad == {s \in SUBSET T : g[s] # h[s]}
<1> SUFFICES ASSUME Bad # {} PROVE FALSE OBVIOUS
<1>1. Bad \subseteq SUBSET S /\ \A s : s \in Bad <=> s \in SUBSET T /\ g[s] # h[s] OBVIOUS
<1> HIDE DEF Bad
<1>2. PICK s \in Bad : \A u \in Bad : u \subseteq s => u = s BY <1>1, LeastSubset
<1>3. s \in SUBSET T /\ s \in SUBSET S /\ g[s] # h[s] BY <1>1
<1>4. g[s] = (IF s = {} THEN 0 ELSE f[First(s)] + g[s \ {First(s)}]) BY <1>3 DEF SumsUp
<1>5. h[s] = (IF s = {} THEN 0 ELSE f[First(s)] + h[s \ {First(s)}]) BY <1>3 DEF SumsUp
<1>6. s # {} BY <1>3, <1>4, <1>5
<1>7. First(s) \in s BY <1>6 DEF First
<1>8. s \ {First(s)} \in SUBSET T /\ s \ {First(s)} \subseteq s /\ s \ {First(s)} # s BY <1>3, <1>7
<1>9. g[s \ {First(s)}] = h[s \ {First(s)}] BY <1>1, <1>2, <1>8
<1>10. QED BY <1>3, <1>4, <1>5, <1>6, <1>9

\* There is a function that sums up.
LEMMA SumsExist == ASSUME NEW f, NEW S, IsFiniteSet(S) PROVE \E g : SumsUp(g, f, S)
<1> DEFINE Bad == {T \in SUBSET S : ~\E g : SumsUp(g, f, T)}
<1> SUFFICES ASSUME Bad # {} PROVE FALSE OBVIOUS
<1>0. Bad \subseteq SUBSET S /\ \A T : T \in Bad <=> T \in SUBSET S /\ ~\E g : SumsUp(g, f, T) OBVIOUS
<1> HIDE DEF Bad
<1>1. PICK T \in Bad : \A U \in Bad : U \subseteq T => U = T BY <1>0, LeastSubset
<1>2. T \in SUBSET S /\ ~\E g : SumsUp(g, f, T) BY <1>0
<1> DEFINE G(U) == CHOOSE g : SumsUp(g, f, U)
<1>3. ASSUME NEW U \in SUBSET T, U # T PROVE SumsUp(G(U), f, U)
  <2>1. U \notin Bad BY <1>1, <1>3
  <2>2. \E g : SumsUp(g, f, U) BY <1>0, <1>2, <1>3, <2>1
  <2>3. QED BY <2>2
<1> DEFINE rest(s) == s \ {First(s)}
           up(s) == IF s = {} THEN 0 ELSE f[First(s)] + G(rest(s))[rest(s)]
           g == [s \in SUBSET T |-> up(s)]
<1>4. ASSUME NEW s \in SUBSET T, s # {}
      PROVE  rest(s) \in SUBSET T /\ rest(s) # T /\ rest(s) # s /\ rest(s) \subseteq s
  BY <1>4 DEF First
<1> HIDE DEF G, rest
<1>5. ASSUME NEW u \in SUBSET T, u # T PROVE G(u)[u] = up(u)
  <2>1. SumsUp(G(u), f, u) BY <1>3, <1>5
  <2>2. G(u)[u] = (IF u = {} THEN 0 ELSE f[First(u)] + G(u)[rest(u)])
    <3>1. u \in SUBSET u OBVIOUS
    <3>2. QED BY <2>1, <3>1 DEF SumsUp, rest
  <2>3. CASE u = {} BY <2>2, <2>3
  <2>4. CASE u # {}
    <3>1. rest(u) \in SUBSET T /\ rest(u) # T /\ rest(u) \subseteq u BY <1>4, <2>4
    <3>2. SumsUp(G(rest(u)), f, rest(u)) BY <1>3, <3>1
    <3>3. IsFiniteSet(u) BY <1>2, FS_Subset
    <3>4. rest(u) \in SUBSET rest(u) OBVIOUS
    <3>5. G(u)[rest(u)] = G(rest(u))[rest(u)] BY <2>1, <3>1, <3>2, <3>3, <3>4, SumsAgree
    <3>6. QED BY <2>2, <2>4, <3>5
  <2>5. QED BY <2>3, <2>4
<1>6. ASSUME NEW s \in SUBSET T
      PROVE  g[s] = IF s = {} THEN 0 ELSE f[First(s)] + g[rest(s)]
  <2>1. g[s] = up(s) OBVIOUS
  <2>2. CASE s = {} BY <2>1, <2>2
  <2>3. CASE s # {}
    <3>1. rest(s) \in SUBSET T /\ rest(s) # T BY <1>4, <2>3
    <3>2. g[rest(s)] = up(rest(s)) BY <3>1
    <3>3. G(rest(s))[rest(s)] = up(rest(s)) BY <1>5, <3>1
    <3>4. QED BY <2>1, <2>3, <3>2, <3>3
  <2>4. QED BY <2>2, <2>3
<1>7. g = [s \in SUBSET T |-> IF s = {} THEN 0 ELSE f[First(s)] + g[rest(s)]]
  <2>1. g = [s \in SUBSET T |-> g[s]] OBVIOUS
  <2> HIDE DEF g
  <2>2. QED BY <1>6, <2>1
<1>8. SumsUp(g, f, T) BY <1>7 DEF SumsUp, rest
<1>9. QED BY <1>1, <1>2, <1>8

\* The sum over a set, from the element its definition takes first.
LEMMA TotalFirst ==
    ASSUME NEW f, NEW S, IsFiniteSet(S)
    PROVE  Total(f, S) = IF S = {} THEN 0 ELSE f[First(S)] + Total(f, S \ {First(S)})
<1> DEFINE G(U) == CHOOSE g : SumsUp(g, f, U)
           R == S \ {First(S)}
<1>1. SumsUp(G(S), f, S) BY SumsExist
<1>2. IsFiniteSet(R) /\ R \subseteq S BY FS_Subset
<1>3. SumsUp(G(R), f, R) BY <1>2, SumsExist
<1>4. Total(f, S) = G(S)[S] /\ Total(f, R) = G(R)[R] BY TotalIs
<1> HIDE DEF G, R
<1>5. G(S)[R] = G(R)[R]
  <2>1. R \in SUBSET R OBVIOUS
  <2>2. QED BY <1>1, <1>2, <1>3, <2>1, SumsAgree
<1>6. G(S)[S] = IF S = {} THEN 0 ELSE f[First(S)] + G(S)[R]
  <2>1. S \in SUBSET S OBVIOUS
  <2>2. QED BY <1>1, <2>1 DEF SumsUp, R
<1>7. QED BY <1>4, <1>5, <1>6 DEF R

\* A sum of naturals is a natural.
LEMMA TotalNat ==
    ASSUME NEW D, NEW f \in [D -> Nat], NEW S \in SUBSET D, IsFiniteSet(S)
    PROVE  Total(f, S) \in Nat
<1> DEFINE Bad == {s \in SUBSET S : Total(f, s) \notin Nat}
<1>1. Bad \subseteq SUBSET S /\ \A s : s \in Bad <=> s \in SUBSET S /\ Total(f, s) \notin Nat OBVIOUS
<1> HIDE DEF Bad
<1>2. SUFFICES ASSUME Bad # {} PROVE FALSE BY <1>1
<1>3. PICK s \in Bad : \A u \in Bad : u \subseteq s => u = s BY <1>1, <1>2, LeastSubset
<1>4. IsFiniteSet(s) BY <1>1, FS_Subset
<1>5. Total(f, s) = IF s = {} THEN 0 ELSE f[First(s)] + Total(f, s \ {First(s)}) BY <1>4, TotalFirst
<1>6. s # {} BY <1>1, <1>5
<1>7. First(s) \in s BY <1>6 DEF First
<1>8. Total(f, s \ {First(s)}) \in Nat BY <1>1, <1>3, <1>7
<1>9. f[First(s)] \in Nat BY <1>1, <1>7
<1>10. QED BY <1>1, <1>5, <1>6, <1>8, <1>9

\* Any element may be taken out of a sum, not only the one its definition takes.
LEMMA TotalTakes ==
    ASSUME NEW D, NEW f \in [D -> Nat], NEW S \in SUBSET D, IsFiniteSet(S), NEW x \in S
    PROVE  Total(f, S) = f[x] + Total(f, S \ {x})
<1> DEFINE Bad == {s \in SUBSET S : \E y \in s : Total(f, s) # f[y] + Total(f, s \ {y})}
<1>1. Bad \subseteq SUBSET S
      /\ \A s : s \in Bad <=> s \in SUBSET S /\ \E y \in s : Total(f, s) # f[y] + Total(f, s \ {y})
  OBVIOUS
<1> HIDE DEF Bad
<1>2. SUFFICES ASSUME Bad # {} PROVE FALSE BY <1>1
<1>3. PICK s \in Bad : \A u \in Bad : u \subseteq s => u = s BY <1>1, <1>2, LeastSubset
<1>4. PICK y \in s : Total(f, s) # f[y] + Total(f, s \ {y}) BY <1>1
<1> DEFINE a == First(s)
<1>5. a \in s BY <1>4 DEF First
<1>6. \A u \in SUBSET S : IsFiniteSet(u) /\ Total(f, u) \in Nat
  <2> SUFFICES ASSUME NEW u \in SUBSET S PROVE IsFiniteSet(u) /\ Total(f, u) \in Nat OBVIOUS
  <2>1. IsFiniteSet(u) BY FS_Subset
  <2>2. QED BY <2>1, TotalNat
<1>7. s \in SUBSET S BY <1>1
<1>8. Total(f, s) = f[a] + Total(f, s \ {a}) BY <1>4, <1>6, <1>7, TotalFirst
<1> HIDE DEF a
<1>9. y # a BY <1>4, <1>8
<1>10. \A u \in SUBSET s : u # s => \A z \in u : Total(f, u) = f[z] + Total(f, u \ {z})
  BY <1>1, <1>3, <1>7
<1>11. Total(f, s \ {a}) = f[y] + Total(f, (s \ {a}) \ {y})
  <2>1. s \ {a} \in SUBSET s /\ s \ {a} # s /\ y \in s \ {a} BY <1>5, <1>9
  <2>2. QED BY <1>10, <2>1
<1>12. Total(f, s \ {y}) = f[a] + Total(f, (s \ {y}) \ {a})
  <2>1. s \ {y} \in SUBSET s /\ s \ {y} # s /\ a \in s \ {y} BY <1>5, <1>9
  <2>2. QED BY <1>10, <2>1
<1>13. (s \ {a}) \ {y} = (s \ {y}) \ {a} OBVIOUS
<1>14. f[a] \in Nat /\ f[y] \in Nat /\ Total(f, (s \ {y}) \ {a}) \in Nat BY <1>5, <1>6, <1>7
<1>15. Total(f, s) = f[a] + (f[y] + Total(f, (s \ {y}) \ {a})) BY <1>8, <1>11, <1>13
<1>16. f[a] + (f[y] + Total(f, (s \ {y}) \ {a})) = f[y] + (f[a] + Total(f, (s \ {y}) \ {a}))
  BY <1>14
<1>17. QED BY <1>4, <1>12, <1>15, <1>16

\* Functions equal over a set have the same sum over it.
LEMMA TotalCongruent ==
    ASSUME NEW f, NEW g, NEW S, IsFiniteSet(S), \A x \in S : f[x] = g[x]
    PROVE  Total(f, S) = Total(g, S)
<1> DEFINE Bad == {s \in SUBSET S : Total(f, s) # Total(g, s)}
<1>1. Bad \subseteq SUBSET S /\ \A s : s \in Bad <=> s \in SUBSET S /\ Total(f, s) # Total(g, s) OBVIOUS
<1> HIDE DEF Bad
<1>2. SUFFICES ASSUME Bad # {} PROVE FALSE BY <1>1
<1>3. PICK s \in Bad : \A u \in Bad : u \subseteq s => u = s BY <1>1, <1>2, LeastSubset
<1>4. IsFiniteSet(s) BY <1>1, FS_Subset
<1>5. /\ Total(f, s) = IF s = {} THEN 0 ELSE f[First(s)] + Total(f, s \ {First(s)})
      /\ Total(g, s) = IF s = {} THEN 0 ELSE g[First(s)] + Total(g, s \ {First(s)})
  BY <1>4, TotalFirst
<1>6. s # {} BY <1>1, <1>5
<1>7. First(s) \in s BY <1>6 DEF First
<1>8. Total(f, s \ {First(s)}) = Total(g, s \ {First(s)}) BY <1>1, <1>3, <1>7
<1>9. QED BY <1>1, <1>5, <1>6, <1>7, <1>8

\* Zeros sum up to zero.
LEMMA TotalZero ==
    ASSUME NEW f, NEW S, IsFiniteSet(S), \A x \in S : f[x] = 0
    PROVE  Total(f, S) = 0
<1> DEFINE Bad == {s \in SUBSET S : Total(f, s) # 0}
<1>1. Bad \subseteq SUBSET S /\ \A s : s \in Bad <=> s \in SUBSET S /\ Total(f, s) # 0 OBVIOUS
<1> HIDE DEF Bad
<1>2. SUFFICES ASSUME Bad # {} PROVE FALSE BY <1>1
<1>3. PICK s \in Bad : \A u \in Bad : u \subseteq s => u = s BY <1>1, <1>2, LeastSubset
<1>4. IsFiniteSet(s) BY <1>1, FS_Subset
<1>5. Total(f, s) = IF s = {} THEN 0 ELSE f[First(s)] + Total(f, s \ {First(s)}) BY <1>4, TotalFirst
<1>6. s # {} BY <1>1, <1>5
<1>7. First(s) \in s BY <1>6 DEF First
<1>8. Total(f, s \ {First(s)}) = 0 BY <1>1, <1>3, <1>7
<1>9. QED BY <1>1, <1>5, <1>6, <1>7, <1>8

\* Writing one value over another moves the sum by their difference.
LEMMA TotalWrites ==
    ASSUME NEW S, IsFiniteSet(S), NEW f \in [S -> Nat], NEW g \in [S -> Nat], NEW x \in S,
           \A y \in S : y # x => g[y] = f[y]
    PROVE  Total(g, S) = Total(f, S) - f[x] + g[x]
<1>1. IsFiniteSet(S \ {x}) BY FS_Subset
<1>2. Total(g, S) = g[x] + Total(g, S \ {x}) /\ Total(f, S) = f[x] + Total(f, S \ {x})
  BY TotalTakes
<1>3. Total(f, S \ {x}) = Total(g, S \ {x}) BY <1>1, TotalCongruent
<1>4. Total(f, S \ {x}) \in Nat /\ f[x] \in Nat /\ g[x] \in Nat BY <1>1, TotalNat
<1>5. QED BY <1>2, <1>3, <1>4

\* The sum of a function is its sum over its domain.
LEMMA TotalIsSum == ASSUME NEW f PROVE SumFunction(f) = Total(f, DOMAIN f)
BY DEF SumFunction, Total

\* A sum grows by what a new element brings.
LEMMA SumGrows ==
    ASSUME NEW S, IsFiniteSet(S), NEW x, x \notin S, NEW f \in [S -> Nat], NEW g \in [S \union {x} -> Nat],
           \A y \in S : g[y] = f[y]
    PROVE  SumFunction(g) = SumFunction(f) + g[x]
<1>1. IsFiniteSet(S \union {x}) BY FS_AddElement
<1>2. Total(g, S \union {x}) = g[x] + Total(g, (S \union {x}) \ {x}) BY <1>1, TotalTakes
<1>3. (S \union {x}) \ {x} = S OBVIOUS
<1>4. Total(g, S) = Total(f, S) BY TotalCongruent
<1>5. DOMAIN f = S /\ DOMAIN g = S \union {x} OBVIOUS
<1>6. SumFunction(f) = Total(f, S) /\ SumFunction(g) = Total(g, S \union {x}) BY <1>5, TotalIsSum
<1>7. Total(f, S) \in Nat /\ g[x] \in Nat BY TotalNat
<1>8. QED BY <1>2, <1>3, <1>4, <1>6, <1>7

\* The sum of naturals is a natural, and of none is nothing.
LEMMA SumNat ==
    ASSUME NEW S, IsFiniteSet(S), NEW f \in [S -> Nat]
    PROVE  SumFunction(f) \in Nat /\ (S = {} => SumFunction(f) = 0)
<1>1. DOMAIN f = S OBVIOUS
<1>2. SumFunction(f) = Total(f, S) BY <1>1, TotalIsSum
<1>3. Total(f, S) \in Nat BY TotalNat
<1>4. QED BY <1>2, <1>3, TotalFirst

\* The numbers up to n are n numbers.
LEMMA UpTo == ASSUME NEW n \in Nat PROVE IsFiniteSet(1..n) /\ Cardinality(1..n) = n
<1>1. 1 \in Int /\ n \in Int OBVIOUS
<1>2. IsFiniteSet(1..n) /\ Cardinality(1..n) = IF 1 > n THEN 0 ELSE n - 1 + 1 BY <1>1, FS_Interval
<1>3. QED BY <1>2

\* How many of the places are up to one of them: its place among them.
Nth(places, k) == Cardinality({j \in places : j <= k})

LEMMA NthsAre ==
    ASSUME NEW m \in Nat, NEW places \in SUBSET (1..m)
    PROVE  /\ IsFiniteSet(places) /\ Cardinality(places) \in Nat /\ Cardinality(places) <= m
           /\ \A k \in places : Nth(places, k) \in 1..Cardinality(places)
           /\ \A k, l \in places : k < l => Nth(places, k) < Nth(places, l)
           /\ \A n \in 1..Cardinality(places) : \E k \in places : Nth(places, k) = n
<1> DEFINE upto(k) == {j \in places : j <= k}
           N == Cardinality(places)
<1>0. \A k \in places : k \in Int OBVIOUS
<1>1. IsFiniteSet(places) /\ N \in Nat /\ N <= m
  <2>1. IsFiniteSet(1..m) /\ Cardinality(1..m) \in Nat /\ Cardinality(1..m) <= m BY UpTo
  <2>2. IsFiniteSet(places) /\ Cardinality(places) <= Cardinality(1..m) BY <2>1, FS_Subset
  <2>3. N \in Nat BY <2>2, FS_CardinalityType
  <2>4. QED BY <2>1, <2>2, <2>3
<1>2. \A k : IsFiniteSet(upto(k)) /\ Cardinality(upto(k)) \in Nat /\ Cardinality(upto(k)) <= N
  <2> SUFFICES ASSUME NEW k PROVE IsFiniteSet(upto(k)) /\ Cardinality(upto(k)) \in Nat /\ Cardinality(upto(k)) <= N
    OBVIOUS
  <2>1. upto(k) \in SUBSET places OBVIOUS
  <2> HIDE DEF upto
  <2>2. QED BY <1>1, <2>1, FS_Subset, FS_CardinalityType
<1>3. \A k \in places : Nth(places, k) \in 1..N
  <2> SUFFICES ASSUME NEW k \in places PROVE Nth(places, k) \in 1..N OBVIOUS
  <2>1. k \in upto(k) BY <1>0
  <2>2. Nth(places, k) = Cardinality(upto(k)) BY DEF Nth
  <2> HIDE DEF upto
  <2>3. Cardinality(upto(k)) # 0
    <3> DEFINE U == upto(k)
    <3>1. IsFiniteSet(U) /\ U # {} BY <1>2, <2>1
    <3> HIDE DEF U
    <3>2. Cardinality(U) # 0 BY <3>1, FS_EmptySet
    <3>3. QED BY <3>2 DEF U
  <2>4. QED BY <1>1, <1>2, <2>2, <2>3
<1>4. \A k, l \in places : k < l => Nth(places, k) < Nth(places, l)
  <2> SUFFICES ASSUME NEW k \in places, NEW l \in places, k < l PROVE Nth(places, k) < Nth(places, l) OBVIOUS
  <2>1. upto(k) \subseteq upto(l) /\ l \notin upto(k) /\ l \in upto(l)
    <3>1. k \in Int /\ l \in Int BY <1>0
    <3>2. ~(l <= k) /\ l <= l BY <3>1
    <3>3. \A j \in places : j <= k => j <= l BY <1>0, <3>1
    <3>4. QED BY <3>2, <3>3
  <2>2. Nth(places, k) = Cardinality(upto(k)) /\ Nth(places, l) = Cardinality(upto(l)) BY DEF Nth
  <2> HIDE DEF upto
  <2>3. Cardinality(upto(k)) <= Cardinality(upto(l)) /\ Cardinality(upto(k)) # Cardinality(upto(l))
    BY <1>2, <2>1, FS_Subset
  <2>4. QED BY <1>2, <2>2, <2>3
<1> DEFINE r == [k \in places |-> Nth(places, k)]
<1>5. r \in [places -> 1..N] BY <1>3
<1>6. \A k, l \in places : r[k] = r[l] => k = l
  <2> SUFFICES ASSUME NEW k \in places, NEW l \in places, Nth(places, k) = Nth(places, l) PROVE k = l OBVIOUS
  <2>1. Nth(places, k) \in Int /\ Nth(places, l) \in Int BY <1>3
  <2>2. ~(k < l) /\ ~(l < k) BY <1>4, <2>1
  <2>3. QED BY <1>0, <2>2
<1>7. r \in Injection(places, 1..N)
  <2> HIDE DEF r
  <2>1. QED BY <1>5, <1>6 DEF Injection, IsInjective
<1>8. r \in Surjection(places, 1..N)
  <2>1. IsFiniteSet(1..N) /\ Cardinality(1..N) = N BY <1>1, UpTo
  <2> HIDE DEF r
  <2>2. QED BY <1>1, <1>7, <2>1, FS_Injection
<1>9. \A n \in 1..N : \E k \in places : Nth(places, k) = n
  <2>1. \A n \in 1..N : \E k \in places : r[k] = n
    <3> HIDE DEF r
    <3>1. QED BY <1>8 DEF Surjection
  <2>2. QED BY <2>1
<1>10. QED BY <1>1, <1>3, <1>4, <1>9

\* Sequences laid end to end: the function the definition of FlattenSeq recurs
\* through, which there is.
Joins(g, seqs, n) == g = [i \in 1..n |-> IF i = 1 THEN seqs[i] ELSE g[i - 1] \o seqs[i]]

LEMMA JoinsExist == ASSUME NEW seqs, NEW N \in Nat PROVE \E g : Joins(g, seqs, N)
<1> DEFINE Good == {n \in 0..N : \E g : Joins(g, seqs, n)}
<1>1. \A n : n \in Good <=> n \in 0..N /\ \E g : Joins(g, seqs, n) OBVIOUS
<1>2. IsFiniteSet(Good)
  <2>1. 0 \in Int /\ N \in Int OBVIOUS
  <2>2. IsFiniteSet(0..N) BY <2>1, FS_Interval
  <2>3. Good \in SUBSET (0..N) OBVIOUS
  <2> HIDE DEF Good
  <2>4. QED BY <2>2, <2>3, FS_Subset
<1>3. 0 \in Good
  <2> DEFINE g == [i \in 1..0 |-> IF i = 1 THEN seqs[i] ELSE seqs]
  <2>1. \A i \in 1..0 : FALSE OBVIOUS
  <2>2. g = [i \in 1..0 |-> IF i = 1 THEN seqs[i] ELSE g[i - 1] \o seqs[i]] BY <2>1
  <2> HIDE DEF g
  <2>3. Joins(g, seqs, 0) BY <2>2 DEF Joins
  <2>4. QED BY <1>1, <2>3
<1> HIDE DEF Good
<1>4. \A n \in Good : n \in Int BY <1>1
<1>5. PICK n \in Good : \A m \in Good : m <= n BY <1>2, <1>3, <1>4, Largest
<1>6. n \in 0..N /\ n \in Nat BY <1>1
<1>7. PICK g : Joins(g, seqs, n) BY <1>1
<1>8. SUFFICES ASSUME n # N PROVE FALSE BY <1>7
<1> DEFINE h == [i \in 1..(n + 1) |-> IF i <= n THEN g[i] ELSE IF i = 1 THEN seqs[i] ELSE g[i - 1] \o seqs[i]]
<1>9. \A i \in 1..(n + 1) : h[i] = IF i = 1 THEN seqs[i] ELSE h[i - 1] \o seqs[i]
  <2> SUFFICES ASSUME NEW i \in 1..(n + 1) PROVE h[i] = IF i = 1 THEN seqs[i] ELSE h[i - 1] \o seqs[i] OBVIOUS
  <2>1. i # 1 => i - 1 \in 1..(n + 1) /\ i - 1 <= n BY <1>6
  <2>2. i # 1 => h[i - 1] = g[i - 1] BY <2>1
  <2>3. CASE i <= n
    <3>1. i \in 1..n BY <1>6, <2>3
    <3>2. g[i] = IF i = 1 THEN seqs[i] ELSE g[i - 1] \o seqs[i] BY <1>7, <3>1 DEF Joins
    <3>3. h[i] = g[i] BY <2>3
    <3> HIDE DEF h
    <3>4. QED BY <2>2, <3>2, <3>3
  <2>4. CASE ~(i <= n)
    <3>1. h[i] = IF i = 1 THEN seqs[i] ELSE g[i - 1] \o seqs[i] BY <2>4
    <3> HIDE DEF h
    <3>2. QED BY <2>2, <3>1
  <2>5. QED BY <2>3, <2>4
<1>10. h = [i \in 1..(n + 1) |-> h[i]] OBVIOUS
<1> HIDE DEF h
<1>11. Joins(h, seqs, n + 1) BY <1>9, <1>10 DEF Joins
<1>12. n + 1 \in Good BY <1>1, <1>6, <1>8, <1>11
<1>13. n + 1 <= n BY <1>5, <1>12
<1>14. QED BY <1>6, <1>13

\* A set of places has a first.
LEMMA FirstPlace ==
    ASSUME NEW m \in Nat, NEW S \in SUBSET (1..m), S # {}
    PROVE  Min(S) \in S /\ \A k \in S : Min(S) <= k
<1> DEFINE L == {x \in 0..m : \A k \in S : x < k}
<1>1. IsFiniteSet(L)
  <2>1. IsFiniteSet(0..m)
    <3>1. 0 \in Int /\ m \in Int OBVIOUS
    <3>2. QED BY <3>1, FS_Interval
  <2>2. L \in SUBSET (0..m) OBVIOUS
  <2> HIDE DEF L
  <2>3. QED BY <2>1, <2>2, FS_Subset
<1>2. \A x : x \in L <=> x \in 0..m /\ \A k \in S : x < k OBVIOUS
<1>3. \A k \in S : k \in Int /\ 1 <= k /\ k <= m OBVIOUS
<1>4. 0 \in L BY <1>2, <1>3
<1> HIDE DEF L
<1>5. \A x \in L : x \in Int BY <1>2
<1>6. PICK x \in L : \A y \in L : y <= x BY <1>1, <1>4, <1>5, Largest
<1>7. x \in 0..m /\ x \in Int /\ \A k \in S : x < k BY <1>2
<1>8. x + 1 \in S
  <2> SUFFICES ASSUME x + 1 \notin S PROVE FALSE OBVIOUS
  <2>1. \A k \in S : x + 1 < k
    <3> SUFFICES ASSUME NEW k \in S PROVE x + 1 < k OBVIOUS
    <3>1. k \in Int /\ x < k /\ k # x + 1 BY <1>3, <1>7
    <3>2. QED BY <1>7, <3>1
  <2>2. PICK k \in S : TRUE OBVIOUS
  <2>3. x + 1 \in 0..m BY <1>3, <1>7, <2>1, <2>2
  <2>4. x + 1 \in L BY <1>2, <2>1, <2>3
  <2>5. x + 1 <= x BY <1>6, <2>4
  <2>6. QED BY <1>7, <2>5
<1>9. \A k \in S : x + 1 <= k BY <1>3, <1>7
<1>10. \E y \in S : \A k \in S : y <= k BY <1>8, <1>9
<1>11. QED BY <1>10 DEF Min

\* A finite set laid out in order has its elements, each once.
LEMMA LaidOut ==
    ASSUME NEW S, IsFiniteSet(S)
    PROVE  SetToSeq(S) \in Seq(S) /\ ToSet(SetToSeq(S)) = S
<1> DEFINE N == Cardinality(S)
           f == SetToSeq(S)
<1>1. PICK n \in Nat : ExistsBijection(1..n, S) BY FS_NatBijection
<1>2. n = N BY <1>1, FS_CountingElements
<1>3. PICK g : g \in Bijection(1..n, S) BY <1>1 DEF ExistsBijection
<1>4. g \in [1..N -> S] /\ IsInjective(g)
  BY <1>2, <1>3 DEF Bijection, Injection, IsInjective
<1>5. f \in [1..N -> S] /\ IsInjective(f)
  <2> HIDE DEF N
  <2>1. f = CHOOSE h \in [1..N -> S] : IsInjective(h) BY DEF SetToSeq, N
  <2> HIDE DEF f
  <2>2. QED BY <1>4, <2>1
<1> HIDE DEF f
<1>6. f \in Seq(S) BY <1>2, <1>5
<1>7. f \in Surjection(1..N, S)
  <2>1. f \in Injection(1..N, S) BY <1>5 DEF Injection
  <2>2. IsFiniteSet(1..N) /\ Cardinality(1..N) = N BY <1>2, UpTo
  <2>3. QED BY <2>1, <2>2, FS_Injection
<1>8. ToSet(f) = S
  <2>1. DOMAIN f = 1..N BY <1>5
  <2>2. \A x \in S : \E k \in 1..N : f[k] = x BY <1>7 DEF Surjection
  <2>3. \A k \in 1..N : f[k] \in S BY <1>5
  <2>4. QED BY <2>1, <2>2, <2>3 DEF ToSet
<1>9. QED BY <1>6, <1>8 DEF f

\* What FlattenSeq makes of sequences over a set.
LEMMA FlattenedIs ==
    ASSUME NEW S, NEW seqs, NEW N \in Nat, seqs \in [1..N -> Seq(S)]
    PROVE  FlattenSeq(seqs) \in Seq(S)
<1>1. seqs \in Seq(Seq(S)) /\ Len(seqs) = N OBVIOUS
<1>2. CASE N = 0
  <2>1. FlattenSeq(seqs) = seqs BY <1>1, <1>2 DEF FlattenSeq
  <2>2. seqs = <<>> BY <1>1, <1>2
  <2>3. QED BY <2>1, <2>2
<1>3. CASE N # 0
  <2> DEFINE g == CHOOSE h : Joins(h, seqs, N)
  <2>1. FlattenSeq(seqs) = LET flatten[i \in 1..Len(seqs)] == IF i = 1 THEN seqs[i] ELSE flatten[i-1] \o seqs[i]
                           IN  flatten[Len(seqs)]
    BY <1>1, <1>3 DEF FlattenSeq
  <2>2. FlattenSeq(seqs) = g[N] BY <1>1, <2>1 DEF Joins
  <2>3. Joins(g, seqs, N) BY JoinsExist
  <2> HIDE DEF g
  <2> DEFINE Bad == {i \in 1..N : g[i] \notin Seq(S)}
  <2>4. \A i : i \in Bad <=> i \in 1..N /\ g[i] \notin Seq(S) OBVIOUS
  <2>5. Bad \in SUBSET (1..N) OBVIOUS
  <2> HIDE DEF Bad
  <2>6. SUFFICES ASSUME Bad # {} PROVE FALSE BY <1>3, <2>2, <2>4
  <2> DEFINE i == Min(Bad)
  <2>7. i \in Bad /\ \A k \in Bad : i <= k BY <2>5, <2>6, FirstPlace
  <2> HIDE DEF i
  <2>8. i \in 1..N /\ g[i] \notin Seq(S) BY <2>4, <2>7
  <2>9. g[i] = IF i = 1 THEN seqs[i] ELSE g[i - 1] \o seqs[i] BY <2>3, <2>8 DEF Joins
  <2>10. seqs[i] \in Seq(S) BY <2>8
  <2>11. i # 1 BY <2>8, <2>9, <2>10
  <2>12. i - 1 \in 1..N /\ ~(i <= i - 1) BY <2>8, <2>11
  <2>13. g[i - 1] \in Seq(S) BY <2>4, <2>7, <2>12
  <2>14. g[i - 1] \o seqs[i] \in Seq(S) BY <2>10, <2>13, ConcatProperties
  <2>15. QED BY <2>8, <2>9, <2>11, <2>14
<1>4. QED BY <1>2, <1>3
=============================================================================
