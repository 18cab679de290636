------------------------------ MODULE SumProofs ------------------------------
(***************************************************************************)
(* What a sum over a finite set does when an element joins or leaves it.   *)
(* The fold takes its elements in an order that CHOOSE fixes and nothing   *)
(* tells; that any element may be taken first is proved by looking at a    *)
(* smallest set for which it fails, which well-foundedness of the strict   *)
(* subset order provides.                                                  *)
(***************************************************************************)
EXTENDS Sums, Integers, FiniteSetTheorems, WellFoundedInduction, TLAPS

(* The element the fold takes first, and the sums of the subsets of S, as  *)
(* the fold defines them from each other.                                  *)
Chosen(s) == CHOOSE x \in s : TRUE

IsSum(g, f, S) ==
  g = [s \in SUBSET S |-> IF s = {} THEN 0 ELSE f[Chosen(s)] + g[s \ {Chosen(s)}]]

(* A family of finite sets has a smallest one.                             *)
LEMMA SmallestSet ==
  ASSUME NEW S, IsFiniteSet(S), NEW T, T \subseteq SUBSET S, T # {}
  PROVE  \E x \in T : \A y \in T : y \subseteq x => y = x
<1>1. IsWellFoundedOn(StrictSubsetOrdering(S), FiniteSubsetsOf(S))
  BY FS_StrictSubsetOrderingWellFounded
<1>2. T \subseteq FiniteSubsetsOf(S) BY FS_FiniteSubsetsOfFinite
<1>3. \E x \in T : \A y \in T : ~(<<y, x>> \in StrictSubsetOrdering(S))
  BY <1>1, <1>2, WFMin
<1> QED BY <1>3 DEF StrictSubsetOrdering

(* The sum is what the function of the fold gives for the whole set.       *)
LEMMA SumIs == ASSUME NEW f, NEW S PROVE SumOver(f, S) = (CHOOSE h : IsSum(h, f, S))[S]
  BY DEF SumOver, MapThenSumSet, MapThenFoldSet, IsSum, Chosen

(* What is chosen from a set is in it.                                     *)
LEMMA ChosenIn == ASSUME NEW s, s # {} PROVE Chosen(s) \in s
  BY DEF Chosen

(* Only one function satisfies the definition ...                          *)
LEMMA SumUnique ==
  ASSUME NEW S, IsFiniteSet(S), NEW f, NEW g, NEW h, IsSum(g, f, S), IsSum(h, f, S)
  PROVE  g = h
<1> DEFINE T == {s \in SUBSET S : g[s] # h[s]}
<1>1. CASE T # {}
  <2>0. T \subseteq SUBSET S OBVIOUS
  <2>1. PICK s \in T : \A y \in T : y \subseteq s => y = s
    <3> HIDE DEF T
    <3> QED BY <1>1, <2>0, SmallestSet
  <2>2. g[s] = (IF s = {} THEN 0 ELSE f[Chosen(s)] + g[s \ {Chosen(s)}]) BY DEF IsSum
  <2>3. h[s] = (IF s = {} THEN 0 ELSE f[Chosen(s)] + h[s \ {Chosen(s)}]) BY DEF IsSum
  <2>4. CASE s # {}
    <3>1. Chosen(s) \in s BY <2>4, ChosenIn
    <3>2. s \ {Chosen(s)} \notin T BY <2>1, <3>1
    <3> QED BY <2>1, <2>2, <2>3, <3>2
  <2> QED BY <2>1, <2>2, <2>3, <2>4
<1>2. CASE T = {}
  <2>1. \A s \in SUBSET S : g[s] = h[s] BY <1>2
  <2> QED BY <2>1 DEF IsSum
<1> QED BY <1>1, <1>2

(* ... its restriction to the subsets of a part does so for the part ...   *)
LEMMA SumRestrict ==
  ASSUME NEW S, NEW f, NEW g, IsSum(g, f, S), NEW t \in SUBSET S
  PROVE  IsSum([s \in SUBSET t |-> g[s]], f, t)
<1> DEFINE h == [s \in SUBSET t |-> g[s]]
<1>1. ASSUME NEW s \in SUBSET t
      PROVE  h[s] = IF s = {} THEN 0 ELSE f[Chosen(s)] + h[s \ {Chosen(s)}]
  <2>1. g[s] = IF s = {} THEN 0 ELSE f[Chosen(s)] + g[s \ {Chosen(s)}] BY DEF IsSum
  <2>2. s \ {Chosen(s)} \in SUBSET t OBVIOUS
  <2> QED BY <2>1, <2>2
<1> HIDE DEF h
<1>2. h = [s \in SUBSET t |-> h[s]] BY DEF h
<1>3. h = [s \in SUBSET t |-> IF s = {} THEN 0 ELSE f[Chosen(s)] + h[s \ {Chosen(s)}]]
  BY <1>1, <1>2
<1> QED BY <1>3 DEF IsSum, h

(* ... and there is one, put together from those of the smaller sets.      *)
LEMMA SumExists ==
  ASSUME NEW S, IsFiniteSet(S), NEW f
  PROVE  \E g : IsSum(g, f, S)
<1> DEFINE T == {t \in SUBSET S : ~\E g : IsSum(g, f, t)}
           val(s) == SumOver(f, s)
<1>1. SUFFICES T = {} OBVIOUS
<1>2. SUFFICES ASSUME T # {} PROVE FALSE OBVIOUS
<1>0. T \subseteq SUBSET S OBVIOUS
<1>3. PICK t \in T : \A y \in T : y \subseteq t => y = t
  <2> HIDE DEF T
  <2> QED BY <1>0, <1>2, SmallestSet
<1>4. ASSUME NEW s \in SUBSET t, s # t
      PROVE  val(s) = IF s = {} THEN 0 ELSE f[Chosen(s)] + val(s \ {Chosen(s)})
  <2>1. \E g : IsSum(g, f, s) BY <1>3, <1>4
  <2>2. PICK g : g = CHOOSE h : IsSum(h, f, s) OBVIOUS
  <2>3. IsSum(g, f, s) BY <2>1, <2>2
  <2>4. val(s) = g[s] BY <2>2, SumIs
  <2>5. g[s] = IF s = {} THEN 0 ELSE f[Chosen(s)] + g[s \ {Chosen(s)}] BY <2>3 DEF IsSum
  <2>6. CASE s # {}
    <3> DEFINE r == s \ {Chosen(s)}
               h == [x \in SUBSET r |-> g[x]]
               k == CHOOSE x : IsSum(x, f, r)
    <3>1. IsSum(h, f, r) BY <2>3, SumRestrict
    <3>2. IsSum(k, f, r) BY <3>1
    <3>3. IsFiniteSet(r) BY FS_Subset
    <3> HIDE DEF h, k
    <3>4. h = k BY <3>1, <3>2, <3>3, SumUnique
    <3>5. val(r) = k[r] BY SumIs DEF k
    <3>6. h[r] = g[r] BY DEF h
    <3> QED BY <2>4, <2>5, <2>6, <3>4, <3>5, <3>6
  <2> QED BY <2>4, <2>5, <2>6
<1> DEFINE body(s) == IF s = {} THEN 0 ELSE f[Chosen(s)] + val(s \ {Chosen(s)})
           G == [s \in SUBSET t |-> body(s)]
<1>5. ASSUME NEW s \in SUBSET t, s # {} PROVE val(s \ {Chosen(s)}) = G[s \ {Chosen(s)}]
  <2>1. s \ {Chosen(s)} \in SUBSET t /\ s \ {Chosen(s)} # t BY <1>5, ChosenIn
  <2> QED BY <1>4, <2>1
<1>6. IsSum(G, f, t)
  <2>1. \A s \in SUBSET t : G[s] = IF s = {} THEN 0 ELSE f[Chosen(s)] + G[s \ {Chosen(s)}]
    BY <1>5
  <2>2. G = [s \in SUBSET t |-> G[s]] OBVIOUS
  <2> HIDE DEF G
  <2>3. G = [s \in SUBSET t |-> IF s = {} THEN 0 ELSE f[Chosen(s)] + G[s \ {Chosen(s)}]]
    BY <2>1, <2>2
  <2> QED BY <2>3 DEF IsSum
<1> QED BY <1>3, <1>6

(* The recursion of the fold, for every finite set.                        *)
LEMMA SumStep ==
  ASSUME NEW S, IsFiniteSet(S), NEW f
  PROVE  SumOver(f, S) = IF S = {} THEN 0 ELSE f[Chosen(S)] + SumOver(f, S \ {Chosen(S)})
<1> DEFINE g == CHOOSE h : IsSum(h, f, S)
           r == S \ {Chosen(S)}
           h == [x \in SUBSET r |-> g[x]]
           k == CHOOSE x : IsSum(x, f, r)
<1>1. IsSum(g, f, S) BY SumExists
<1> HIDE DEF g
<1>2. IsSum(h, f, r) BY <1>1, SumRestrict
<1>3. IsSum(k, f, r) BY <1>2
<1>4. IsFiniteSet(r) BY FS_Subset
<1>5. h[r] = g[r] OBVIOUS
<1>6. SumOver(f, S) = g[S] BY SumIs DEF g
<1> HIDE DEF h, k
<1>7. h = k BY <1>2, <1>3, <1>4, SumUnique
<1>8. SumOver(f, r) = k[r] BY SumIs DEF k
<1>9. g[S] = IF S = {} THEN 0 ELSE f[Chosen(S)] + g[r] BY <1>1 DEF IsSum
<1> QED BY <1>5, <1>6, <1>7, <1>8, <1>9

(* The sum over a finite set of integers is an integer.                    *)
LEMMA SumType ==
  ASSUME NEW S, IsFiniteSet(S), NEW f, \A x \in S : f[x] \in Int
  PROVE  SumOver(f, S) \in Int
<1> DEFINE T == {t \in SUBSET S : SumOver(f, t) \notin Int}
<1>1. CASE T = {} BY <1>1
<1>2. CASE T # {}
  <2>0. T \subseteq SUBSET S OBVIOUS
  <2>1. PICK t \in T : \A y \in T : y \subseteq t => y = t
    <3> HIDE DEF T
    <3> QED BY <1>2, <2>0, SmallestSet
  <2>2. SumOver(f, t) = IF t = {} THEN 0 ELSE f[Chosen(t)] + SumOver(f, t \ {Chosen(t)})
    BY FS_Subset, SumStep
  <2>3. CASE t # {}
    <3>1. Chosen(t) \in t BY <2>3, ChosenIn
    <3>2. t \ {Chosen(t)} \notin T /\ t \ {Chosen(t)} \in SUBSET S BY <2>1, <3>1
    <3> QED BY <2>1, <2>2, <2>3, <3>1, <3>2
  <2> QED BY <2>1, <2>2, <2>3
<1> QED BY <1>1, <1>2

(* Any element may be taken out first.                                     *)
LEMMA SumRemove ==
  ASSUME NEW S, IsFiniteSet(S), NEW f, \A x \in S : f[x] \in Int, NEW e \in S
  PROVE  SumOver(f, S) = f[e] + SumOver(f, S \ {e})
<1> DEFINE Good(t, x) == SumOver(f, t) = f[x] + SumOver(f, t \ {x})
           T == {t \in SUBSET S : \E x \in t : ~Good(t, x)}
<1>1. CASE T = {} BY <1>1
<1>2. CASE T # {}
  <2>0. T \subseteq SUBSET S OBVIOUS
  <2>1. PICK t \in T : \A y \in T : y \subseteq t => y = t
    <3> HIDE DEF T
    <3> QED BY <1>2, <2>0, SmallestSet
  <2>2. PICK x \in t : ~Good(t, x) BY <2>1
  <2> DEFINE y == Chosen(t)
             r == t \ {x, y}
  <2>3. y \in t BY <2>2, ChosenIn
  <2>4. Good(t, y) BY <2>2, FS_Subset, SumStep
  <2>5. x # y BY <2>2, <2>4
  <2> HIDE DEF y
  <2>6. t \ {x} \notin T /\ t \ {y} \notin T BY <2>1, <2>2, <2>3
  <2>7. Good(t \ {y}, x) /\ Good(t \ {x}, y)
    BY <2>2, <2>3, <2>5, <2>6
  <2>8. (t \ {y}) \ {x} = r /\ (t \ {x}) \ {y} = r OBVIOUS
  <2>9. IsFiniteSet(r) /\ r \in SUBSET S BY FS_Subset
  <2>10. SumOver(f, r) \in Int BY <2>9, SumType
  <2>11. f[x] \in Int /\ f[y] \in Int BY <2>1, <2>2, <2>3
  <2>12. SumOver(f, t) = f[y] + SumOver(f, t \ {y}) BY <2>4
  <2>13. SumOver(f, t \ {y}) = f[x] + SumOver(f, r) BY <2>7, <2>8
  <2>14. SumOver(f, t \ {x}) = f[y] + SumOver(f, r) BY <2>7, <2>8
  <2>15. SumOver(f, t) # f[x] + SumOver(f, t \ {x}) BY <2>2
  <2> HIDE DEF r
  <2> QED BY <2>10, <2>11, <2>12, <2>13, <2>14, <2>15
<1> QED BY <1>1, <1>2

(* It depends on nothing but the values of the elements.                   *)
LEMMA SumAgree ==
  ASSUME NEW S, IsFiniteSet(S), NEW f, NEW g, \A x \in S : f[x] = g[x]
  PROVE  SumOver(f, S) = SumOver(g, S)
<1> DEFINE T == {t \in SUBSET S : SumOver(f, t) # SumOver(g, t)}
<1>1. CASE T = {} BY <1>1
<1>2. CASE T # {}
  <2>0. T \subseteq SUBSET S OBVIOUS
  <2>1. PICK t \in T : \A y \in T : y \subseteq t => y = t
    <3> HIDE DEF T
    <3> QED BY <1>2, <2>0, SmallestSet
  <2>2. SumOver(f, t) = IF t = {} THEN 0 ELSE f[Chosen(t)] + SumOver(f, t \ {Chosen(t)})
    BY FS_Subset, SumStep
  <2>3. SumOver(g, t) = IF t = {} THEN 0 ELSE g[Chosen(t)] + SumOver(g, t \ {Chosen(t)})
    BY FS_Subset, SumStep
  <2>4. CASE t # {}
    <3>1. Chosen(t) \in t BY <2>4, ChosenIn
    <3>2. t \ {Chosen(t)} \notin T /\ t \ {Chosen(t)} \in SUBSET S BY <2>1, <3>1
    <3> QED BY <2>1, <2>2, <2>3, <2>4, <3>1, <3>2
  <2> QED BY <2>1, <2>2, <2>3, <2>4
<1> QED BY <1>1, <1>2

(* The sum of nothing, and the sum when one more element joins.            *)
LEMMA SumEmpty == ASSUME NEW f PROVE SumOver(f, {}) = 0
  BY FS_EmptySet, SumStep

LEMMA SumAdd ==
  ASSUME NEW S, IsFiniteSet(S), NEW e, e \notin S, NEW f, \A x \in S \cup {e} : f[x] \in Int
  PROVE  SumOver(f, S \cup {e}) = SumOver(f, S) + f[e]
<1> DEFINE T == S \cup {e}
<1>1. IsFiniteSet(T) BY FS_AddElement
<1>2. T \ {e} = S /\ e \in T OBVIOUS
<1>3. SumOver(f, S) \in Int BY SumType
<1>4. SumOver(f, T) = f[e] + SumOver(f, S)
  <2> HIDE DEF T
  <2>1. \A x \in T : f[x] \in Int BY DEF T
  <2> QED BY <1>1, <1>2, <2>1, SumRemove
<1> QED BY <1>3, <1>4
=============================================================================
