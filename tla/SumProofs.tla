----------------------------- MODULE SumProofs -----------------------------
(***************************************************************************)
(* Sums over a finite set of what a function says of its elements          *)
(* (SumFunctionOnSet of Functions), for any function to the naturals.      *)
(*                                                                         *)
(* SumFunctionOnSet hides a recursive function on the subsets of the set.  *)
(* What it computes is shown by the least counterexample: a set of sets    *)
(* that is not empty has one with as few elements as any, and removing an  *)
(* element from that one leaves the set of counterexamples.                *)
(***************************************************************************)
EXTENDS FiniteSetTheorems, TLAPS

LEMMA Smallest ==
  ASSUME NEW U, IsFiniteSet(U), NEW Bad, Bad \subseteq SUBSET U, Bad # {}
  PROVE  \E s \in Bad : \A x \in s : s \ {x} \notin Bad
<1> DEFINE Sizes == {Cardinality(s) : s \in Bad}
<1>1. \A s \in Bad : IsFiniteSet(s) /\ Cardinality(s) \in Nat
  BY FS_Subset, FS_CardinalityType
<1>2. PICK n \in Sizes : \A k \in Sizes : ~ (<<k, n>> \in OpToRel(<, Nat))
  <2>1. Sizes \subseteq Nat /\ Sizes # {} BY <1>1
  <2> HIDE DEF Sizes
  <2> QED BY <2>1, WFMin, NatLessThanWellFounded
<1>3. PICK s \in Bad : n = Cardinality(s) OBVIOUS
<1>4. ASSUME NEW x \in s, s \ {x} \in Bad PROVE FALSE
  <2>1. Cardinality(s \ {x}) = n - 1 /\ Cardinality(s \ {x}) \in Nat /\ n \in Nat
    BY <1>1, <1>3, <1>4, FS_RemoveElement
  <2>2. <<Cardinality(s \ {x}), n>> \in OpToRel(<, Nat) BY <2>1 DEF OpToRel
  <2> QED BY <1>2, <1>4, <2>2
<1> QED BY <1>3, <1>4
-----------------------------------------------------------------------------
Pick(s) == CHOOSE x \in s : TRUE

LEMMA PickIsIn == \A s : s # {} => Pick(s) \in s
BY DEF Pick

\* g adds up what w says, for every subset of S.
IsSum(g, w, S) ==
  g = [s \in SUBSET S |-> IF s = {} THEN 0 ELSE w[Pick(s)] + g[s \ {Pick(s)}]]

LEMMA SumStep ==
  ASSUME NEW g, NEW w, NEW S, IsSum(g, w, S), NEW s \in SUBSET S
  PROVE  g[s] = IF s = {} THEN 0 ELSE w[Pick(s)] + g[s \ {Pick(s)}]
BY DEF IsSum

LEMMA SumUnique ==
  ASSUME NEW g, NEW w, NEW S, IsSum(g, w, S),
         NEW h, NEW v, NEW T, IsSum(h, v, T),
         NEW U \in SUBSET (S \cap T), IsFiniteSet(U), \A x \in U : w[x] = v[x]
  PROVE  g[U] = h[U]
<1> DEFINE Bad == {s \in SUBSET U : g[s] # h[s]}
<1> SUFFICES ASSUME Bad # {} PROVE FALSE
  OBVIOUS
<1>1. PICK s \in Bad : \A x \in s : s \ {x} \notin Bad
  <2>1. Bad \subseteq SUBSET U OBVIOUS
  <2> HIDE DEF Bad
  <2> QED BY <2>1, Smallest
<1>2. /\ g[s] = IF s = {} THEN 0 ELSE w[Pick(s)] + g[s \ {Pick(s)}]
      /\ h[s] = IF s = {} THEN 0 ELSE v[Pick(s)] + h[s \ {Pick(s)}]
  BY SumStep
<1>3. s # {} BY <1>2
<1>4. Pick(s) \in s BY <1>3, PickIsIn
<1>5. g[s \ {Pick(s)}] = h[s \ {Pick(s)}] BY <1>1, <1>4
<1>6. w[Pick(s)] = v[Pick(s)] BY <1>4
<1> QED BY <1>2, <1>3, <1>5, <1>6

TheSum(w, S) == CHOOSE g : IsSum(g, w, S)

LEMMA SumExists ==
  ASSUME NEW w, NEW S, IsFiniteSet(S)
  PROVE  IsSum(TheSum(w, S), w, S)
<1> DEFINE Bad == {T \in SUBSET S : ~ \E g : IsSum(g, w, T)}
<1>1. ASSUME NEW T \in SUBSET S, T \notin Bad PROVE IsSum(TheSum(w, T), w, T)
  BY <1>1 DEF TheSum
<1> SUFFICES ASSUME Bad # {} PROVE FALSE
  BY <1>1
<1>2. PICK T \in Bad : \A x \in T : T \ {x} \notin Bad
  <2>1. Bad \subseteq SUBSET S OBVIOUS
  <2> HIDE DEF Bad
  <2> QED BY <2>1, Smallest
<1>3. T \in SUBSET S /\ IsFiniteSet(T) BY FS_Subset
<1>4. ASSUME NEW x \in T PROVE IsSum(TheSum(w, T \ {x}), w, T \ {x})
  BY <1>1, <1>2
<1> DEFINE without(s) == CHOOSE x \in T : x \notin s
           \* For a proper subset of T, what some smaller sum says of it.
           part(s) == TheSum(w, T \ {without(s)})[s]
           g == [s \in SUBSET T |->
                  IF s = T /\ T # {} THEN w[Pick(T)] + part(T \ {Pick(T)})
                  ELSE IF s = {} THEN 0 ELSE part(s)]
<1>5. ASSUME NEW s \in SUBSET T, s # T
      PROVE  /\ without(s) \in T /\ without(s) \notin s
             /\ s \in SUBSET (T \ {without(s)})
  BY <1>5
<1> HIDE DEF without
<1>6. ASSUME NEW s \in SUBSET T, s # T, s # {}
      PROVE  part(s) = w[Pick(s)] + part(s \ {Pick(s)})
  <2> DEFINE x == without(s)
             t == s \ {Pick(s)}
             y == without(t)
  <2>1. x \in T /\ s \in SUBSET (T \ {x}) BY <1>5, <1>6
  <2>2. IsSum(TheSum(w, T \ {x}), w, T \ {x}) BY <1>4, <2>1
  <2>3. part(s) = w[Pick(s)] + TheSum(w, T \ {x})[t] BY <1>6, <2>1, <2>2, SumStep
  <2>4. t \in SUBSET T /\ t # T /\ t \in SUBSET (T \ {x})
    BY <1>6, <2>1, PickIsIn
  <2>5. y \in T /\ t \in SUBSET (T \ {y}) BY <1>5, <2>4
  <2>6. IsSum(TheSum(w, T \ {y}), w, T \ {y}) BY <1>4, <2>5
  <2>7. IsFiniteSet(t) BY <1>3, <2>4, FS_Subset
  <2>8. t \in SUBSET ((T \ {x}) \cap (T \ {y})) BY <2>4, <2>5
  <2> HIDE DEF x, t, y
  <2>9. TheSum(w, T \ {x})[t] = TheSum(w, T \ {y})[t]
    BY <2>2, <2>6, <2>7, <2>8, SumUnique
  <2> QED BY <2>3, <2>9 DEF t, y
<1>7. ASSUME T # {} PROVE part({}) = 0
  <2>1. without({}) \in T BY <1>5, <1>7
  <2>2. IsSum(TheSum(w, T \ {without({})}), w, T \ {without({})}) BY <1>4, <2>1
  <2>3. {} \in SUBSET (T \ {without({})}) OBVIOUS
  <2> QED BY <2>2, <2>3, SumStep
<1> HIDE DEF part
<1>8. ASSUME NEW s \in SUBSET T
      PROVE  g[s] = IF s = {} THEN 0 ELSE w[Pick(s)] + g[s \ {Pick(s)}]
  <2>1. CASE s = {} BY <2>1
  <2>2. CASE s # {}
    <3> DEFINE t == s \ {Pick(s)}
    <3>1. Pick(s) \in s BY <2>2, PickIsIn
    <3>2. t \in SUBSET T /\ t # T /\ T # {} BY <3>1
    <3>3. g[t] = part(t) BY <1>7, <3>2
    <3>4. CASE s = T BY <2>2, <3>3, <3>4
    <3>5. CASE s # T BY <1>6, <2>2, <3>3, <3>5
    <3> QED BY <3>4, <3>5
  <2> QED BY <2>1, <2>2
<1>9. IsSum(g, w, T)
  <2>1. g = [s \in SUBSET T |-> g[s]] OBVIOUS
  <2> HIDE DEF g
  <2> QED BY <1>8, <2>1 DEF IsSum
<1> QED BY <1>2, <1>9
-----------------------------------------------------------------------------
\* The community modules' sum is this one.
LEMMA SumIsTheSum ==
  ASSUME NEW w, NEW S, IsFiniteSet(S)
  PROVE  /\ SumFunctionOnSet(w, S) = TheSum(w, S)[S]
         /\ IsSum(TheSum(w, S), w, S)
<1>1. IsSum(TheSum(w, S), w, S) BY SumExists
<1>2. SumFunctionOnSet(w, S) = TheSum(w, S)[S]
  BY DEF SumFunctionOnSet, FoldFunctionOnSet, MapThenFoldSet, TheSum, IsSum, Pick
<1> QED BY <1>1, <1>2

LEMMA SumOfNone == \A w : SumFunctionOnSet(w, {}) = 0
<1> TAKE w
<1>1. IsFiniteSet({}) BY FS_EmptySet
<1>2. {} \in SUBSET {} OBVIOUS
<1> QED BY <1>1, <1>2, SumIsTheSum, SumStep

\* A sum says nothing of what is not added up.
LEMMA SumSame ==
  ASSUME NEW w, NEW v, NEW S, IsFiniteSet(S), \A x \in S : w[x] = v[x]
  PROVE  SumFunctionOnSet(w, S) = SumFunctionOnSet(v, S)
<1>1. /\ IsSum(TheSum(w, S), w, S) /\ SumFunctionOnSet(w, S) = TheSum(w, S)[S]
      /\ IsSum(TheSum(v, S), v, S) /\ SumFunctionOnSet(v, S) = TheSum(v, S)[S]
  BY SumIsTheSum
<1>2. S \in SUBSET (S \cap S) OBVIOUS
<1> QED BY <1>1, <1>2, SumUnique

\* What TheSum says of a subset is that subset's sum.
LEMMA SumOfPart ==
  ASSUME NEW w, NEW S, IsFiniteSet(S), NEW T \in SUBSET S
  PROVE  SumFunctionOnSet(w, T) = TheSum(w, S)[T]
<1>1. IsFiniteSet(T) BY FS_Subset
<1>2. /\ IsSum(TheSum(w, S), w, S)
      /\ IsSum(TheSum(w, T), w, T) /\ SumFunctionOnSet(w, T) = TheSum(w, T)[T]
  BY <1>1, SumIsTheSum
<1>3. T \in SUBSET (T \cap S) OBVIOUS
<1> QED BY <1>1, <1>2, <1>3, SumUnique

LEMMA SumByPick ==
  ASSUME NEW w, NEW S, IsFiniteSet(S), S # {}
  PROVE  SumFunctionOnSet(w, S) = w[Pick(S)] + SumFunctionOnSet(w, S \ {Pick(S)})
<1>1. SumFunctionOnSet(w, S) = TheSum(w, S)[S] /\ IsSum(TheSum(w, S), w, S)
  BY SumIsTheSum
<1>2. TheSum(w, S)[S] = w[Pick(S)] + TheSum(w, S)[S \ {Pick(S)}]
  <2>1. S \in SUBSET S OBVIOUS
  <2> QED BY <1>1, <2>1, SumStep
<1>3. SumFunctionOnSet(w, S \ {Pick(S)}) = TheSum(w, S)[S \ {Pick(S)}]
  <2>1. S \ {Pick(S)} \in SUBSET S OBVIOUS
  <2> QED BY <2>1, SumOfPart
<1> QED BY <1>1, <1>2, <1>3

LEMMA SumIsNat ==
  ASSUME NEW w, NEW S, IsFiniteSet(S), \A x \in S : w[x] \in Nat
  PROVE  SumFunctionOnSet(w, S) \in Nat
<1> DEFINE Bad == {s \in SUBSET S : SumFunctionOnSet(w, s) \notin Nat}
<1> SUFFICES ASSUME Bad # {} PROVE FALSE
  OBVIOUS
<1>1. PICK s \in Bad : \A x \in s : s \ {x} \notin Bad
  <2>1. Bad \subseteq SUBSET S OBVIOUS
  <2> HIDE DEF Bad
  <2> QED BY <2>1, Smallest
<1>2. s # {} BY SumOfNone
<1>3. Pick(s) \in s BY <1>2, PickIsIn
<1>4. SumFunctionOnSet(w, s \ {Pick(s)}) \in Nat BY <1>1, <1>3
<1>5. IsFiniteSet(s) BY FS_Subset
<1>6. SumFunctionOnSet(w, s) = w[Pick(s)] + SumFunctionOnSet(w, s \ {Pick(s)})
  BY <1>2, <1>5, SumByPick
<1>7. w[Pick(s)] \in Nat BY <1>3
<1> QED BY <1>4, <1>6, <1>7

\* Nothing added to nothing.
LEMMA SumOfZeros ==
  ASSUME NEW w, NEW S, IsFiniteSet(S), \A x \in S : w[x] = 0
  PROVE  SumFunctionOnSet(w, S) = 0
<1> DEFINE Bad == {s \in SUBSET S : SumFunctionOnSet(w, s) # 0}
<1> SUFFICES ASSUME Bad # {} PROVE FALSE
  OBVIOUS
<1>1. PICK s \in Bad : \A x \in s : s \ {x} \notin Bad
  <2>1. Bad \subseteq SUBSET S OBVIOUS
  <2> HIDE DEF Bad
  <2> QED BY <2>1, Smallest
<1>2. s # {} BY SumOfNone
<1>3. Pick(s) \in s BY <1>2, PickIsIn
<1>4. SumFunctionOnSet(w, s \ {Pick(s)}) = 0 BY <1>1, <1>3
<1>5. IsFiniteSet(s) BY FS_Subset
<1>6. SumFunctionOnSet(w, s) = w[Pick(s)] + SumFunctionOnSet(w, s \ {Pick(s)})
  BY <1>2, <1>5, SumByPick
<1>7. w[Pick(s)] = 0 BY <1>3
<1> QED BY <1>4, <1>6, <1>7

\* Any element may be taken out first.
LEMMA SumSplit ==
  ASSUME NEW w, NEW S, IsFiniteSet(S), \A x \in S : w[x] \in Nat, NEW z \in S
  PROVE  SumFunctionOnSet(w, S) = w[z] + SumFunctionOnSet(w, S \ {z})
<1> DEFINE Total(s) == SumFunctionOnSet(w, s)
           Bad == {s \in SUBSET S : \E x \in s : Total(s) # w[x] + Total(s \ {x})}
<1> SUFFICES ASSUME Bad # {} PROVE FALSE
  OBVIOUS
<1>1. PICK s \in Bad : \A x \in s : s \ {x} \notin Bad
  <2>1. Bad \subseteq SUBSET S OBVIOUS
  <2> HIDE DEF Bad
  <2> QED BY <2>1, Smallest
<1>2. PICK x \in s : Total(s) # w[x] + Total(s \ {x}) OBVIOUS
<1> DEFINE y == Pick(s)
           rest == (s \ {x}) \ {y}
<1>3. y \in s BY <1>2, PickIsIn
<1>4. \A t \in SUBSET s : IsFiniteSet(t) /\ Total(t) \in Nat BY FS_Subset, SumIsNat
<1>5. Total(s) = w[y] + Total(s \ {y}) BY <1>2, <1>4, SumByPick
<1>6. x # y BY <1>2, <1>5
<1> HIDE DEF Total, y
<1>7. Total(s \ {y}) = w[x] + Total((s \ {y}) \ {x})
  <2>1. s \ {y} \notin Bad /\ x \in s \ {y} /\ s \ {y} \in SUBSET S BY <1>1, <1>3, <1>6
  <2> QED BY <2>1
<1>8. Total(s \ {x}) = w[y] + Total(rest)
  <2>1. s \ {x} \notin Bad /\ y \in s \ {x} /\ s \ {x} \in SUBSET S BY <1>1, <1>3, <1>6
  <2> QED BY <2>1
<1>9. (s \ {y}) \ {x} = rest OBVIOUS
<1>10. Total(rest) \in Nat /\ w[x] \in Nat /\ w[y] \in Nat BY <1>3, <1>4
<1>11. Total((s \ {y}) \ {x}) = Total(rest) BY <1>9
<1> DEFINE r == Total(rest)
<1>12. Total(s) = w[y] + (w[x] + r) BY <1>5, <1>7, <1>11
<1>13. w[x] + Total(s \ {x}) = w[x] + (w[y] + r) BY <1>8
<1>14. r \in Nat BY <1>10
<1> HIDE DEF r
<1>15. w[y] + (w[x] + r) = w[x] + (w[y] + r) BY <1>10, <1>14
<1> QED BY <1>2, <1>12, <1>13, <1>15

\* One element says something else.
LEMMA SumChange ==
  ASSUME NEW w, NEW v, NEW S, IsFiniteSet(S), \A x \in S : w[x] \in Nat /\ v[x] \in Nat,
         NEW z \in S, \A x \in S \ {z} : w[x] = v[x]
  PROVE  SumFunctionOnSet(v, S) = SumFunctionOnSet(w, S) - w[z] + v[z]
<1>1. IsFiniteSet(S \ {z}) BY FS_RemoveElement
<1>2. SumFunctionOnSet(w, S \ {z}) = SumFunctionOnSet(v, S \ {z}) BY <1>1, SumSame
<1>3. SumFunctionOnSet(w, S \ {z}) \in Nat BY <1>1, SumIsNat
<1>4. /\ SumFunctionOnSet(w, S) = w[z] + SumFunctionOnSet(w, S \ {z})
      /\ SumFunctionOnSet(v, S) = v[z] + SumFunctionOnSet(v, S \ {z})
  BY SumSplit
<1> QED BY <1>2, <1>3, <1>4

\* One element more.
LEMMA SumMore ==
  ASSUME NEW w, NEW v, NEW S, IsFiniteSet(S), NEW z, z \notin S,
         \A x \in S : w[x] \in Nat /\ v[x] = w[x], v[z] \in Nat
  PROVE  SumFunctionOnSet(v, S \cup {z}) = SumFunctionOnSet(w, S) + v[z]
<1>1. IsFiniteSet(S \cup {z}) BY FS_AddElement
<1>2. (S \cup {z}) \ {z} = S OBVIOUS
<1>3. SumFunctionOnSet(v, S \cup {z}) = v[z] + SumFunctionOnSet(v, S)
  BY <1>1, <1>2, SumSplit
<1>4. SumFunctionOnSet(v, S) = SumFunctionOnSet(w, S) BY SumSame
<1>5. SumFunctionOnSet(w, S) \in Nat BY SumIsNat
<1> QED BY <1>3, <1>4, <1>5

\* Two sets that have nothing in common.
LEMMA SumUnion ==
  ASSUME NEW w, NEW S, NEW T, IsFiniteSet(S), IsFiniteSet(T), S \cap T = {},
         \A x \in S \cup T : w[x] \in Nat
  PROVE  SumFunctionOnSet(w, S \cup T) = SumFunctionOnSet(w, S) + SumFunctionOnSet(w, T)
<1> DEFINE Total(s) == SumFunctionOnSet(w, s)
           Bad == {s \in SUBSET T : Total(S \cup s) # Total(S) + Total(s)}
<1> SUFFICES ASSUME Bad # {} PROVE FALSE
  OBVIOUS
<1>1. PICK s \in Bad : \A x \in s : s \ {x} \notin Bad
  <2>1. Bad \subseteq SUBSET T OBVIOUS
  <2> HIDE DEF Bad
  <2> QED BY <2>1, Smallest
<1>2. \A t \in SUBSET T : IsFiniteSet(t) /\ IsFiniteSet(S \cup t) BY FS_Subset, FS_Union
<1>3. \A t \in SUBSET T : Total(t) \in Nat BY <1>2, SumIsNat
<1>4. Total(S) \in Nat BY SumIsNat
<1>5. s # {}
  <2>1. ASSUME s = {} PROVE Total(S \cup s) = Total(S) + Total(s)
    <3>1. Total(s) = 0 BY <2>1, SumOfNone
    <3>2. S \cup s = S BY <2>1
    <3>3. Total(S \cup s) = Total(S) BY <3>2
    <3> HIDE DEF Total
    <3> QED BY <1>4, <3>1, <3>3
  <2> QED BY <2>1
<1>6. PICK z \in s : TRUE BY <1>5
<1> DEFINE t == s \ {z}
<1>7. t \in SUBSET T /\ s \in SUBSET T /\ z \in T /\ t \notin Bad BY <1>1, <1>6
<1>8. Total(S \cup t) = Total(S) + Total(t) BY <1>7
<1>9. Total(s) = w[z] + Total(t) BY <1>2, <1>6, <1>7, SumSplit
<1>10. Total(S \cup s) = w[z] + Total(S \cup t)
  <2>1. (S \cup s) \ {z} = S \cup t BY <1>6, <1>7
  <2>2. Total(S \cup s) = w[z] + Total((S \cup s) \ {z})
    BY <1>2, <1>6, <1>7, SumSplit
  <2> QED BY <2>1, <2>2
<1>11. w[z] \in Nat /\ Total(t) \in Nat BY <1>3, <1>7
<1> HIDE DEF Total, t
<1>12. Total(S \cup s) = Total(S) + Total(s) BY <1>4, <1>8, <1>9, <1>10, <1>11
<1> QED BY <1>12

\* A sum is at most that over any set that holds whatever counts in it.
LEMMA SumCovered ==
  ASSUME NEW w, NEW S, NEW T, IsFiniteSet(S), IsFiniteSet(T),
         \A x \in S \cup T : w[x] \in Nat, \A x \in S : w[x] # 0 => x \in T
  PROVE  SumFunctionOnSet(w, S) <= SumFunctionOnSet(w, T)
<1> DEFINE both == S \cap T
           only == S \ T
           rest == T \ S
<1>1. IsFiniteSet(both) /\ IsFiniteSet(only) /\ IsFiniteSet(rest) BY FS_Subset
<1>2. /\ SumFunctionOnSet(w, both) \in Nat
      /\ SumFunctionOnSet(w, rest) \in Nat
  BY <1>1, SumIsNat
<1>3. SumFunctionOnSet(w, only) = 0 BY <1>1, SumOfZeros
<1>4. S = both \cup only /\ T = both \cup rest OBVIOUS
<1>5. /\ SumFunctionOnSet(w, both \cup only)
           = SumFunctionOnSet(w, both) + SumFunctionOnSet(w, only)
      /\ SumFunctionOnSet(w, both \cup rest)
           = SumFunctionOnSet(w, both) + SumFunctionOnSet(w, rest)
  BY <1>1, SumUnion
<1> HIDE DEF both, only, rest
<1> QED BY <1>2, <1>3, <1>4, <1>5
=============================================================================
