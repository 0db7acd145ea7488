----------------------------- MODULE SumTheorems -----------------------------
(***************************************************************************)
(* Sums over finite sets, as MapThenSumSet computes them: the result does  *)
(* not depend on the order in which the elements are chosen. Induction is  *)
(* by the least number of a set of numbers.                                *)
(***************************************************************************)
EXTENDS Integers, FiniteSets, FiniteSetsExt, FiniteSetTheorems, WellFoundedInduction, TLAPS

SumOf(f, S) == MapThenSumSet(LAMBDA x : f[x], S)

Chosen(s) == CHOOSE x \in s : TRUE

\* g maps every part of S to its sum.
Summing(g, f, S) ==
    g = [s \in SUBSET S |-> IF s = {} THEN 0 ELSE f[Chosen(s)] + g[s \ {Chosen(s)}]]

\* ... those of at most n elements
SummingUpTo(g, f, S, n) ==
    \A s \in SUBSET S : Cardinality(s) <= n =>
        g[s] = IF s = {} THEN 0 ELSE f[Chosen(s)] + g[s \ {Chosen(s)}]

-----------------------------------------------------------------------------
LEMMA LeastNumber ==
    ASSUME NEW T \in SUBSET Nat, T # {}
    PROVE  \E n \in T : \A m \in T : n <= m
<1>. DEFINE R == {ss \in Nat \X Nat : ss[1] < ss[2]}
<1>1. IsWellFoundedOn(R, Nat)
  BY NatLessThanWellFounded, Zenon DEF OpToRel
<1>2. \A m, n \in Nat : m < n => <<m, n>> \in R
  OBVIOUS
<1>. HIDE DEF R
<1>3. \E n \in T : \A m \in T : ~ (<<m, n>> \in R)
  BY <1>1, WFMin, Zenon
<1>4. PICK n \in T : \A m \in T : <<m, n>> \notin R
  BY <1>3
<1>5. ASSUME NEW m \in T PROVE n <= m
  <2>1. ~(m < n)
    BY <1>2, <1>4
  <2>. QED BY <2>1
<1>. QED BY <1>5

LEMMA ChosenIn == ASSUME NEW s, s # {} PROVE Chosen(s) \in s
  BY DEF Chosen

LEMMA Smaller ==
    ASSUME NEW S, IsFiniteSet(S), NEW s \in SUBSET S, NEW x \in s
    PROVE  /\ IsFiniteSet(s) /\ IsFiniteSet(s \ {x})
           /\ Cardinality(s) \in Nat /\ Cardinality(s \ {x}) \in Nat
           /\ Cardinality(s \ {x}) = Cardinality(s) - 1
  BY FS_Subset, FS_RemoveElement, FS_CardinalityType

LEMMA TableUpTo ==
    ASSUME NEW f, NEW S, IsFiniteSet(S), NEW n \in Nat
    PROVE  \E g : SummingUpTo(g, f, S, n)
<1>. DEFINE Bad == {m \in Nat : ~\E g : SummingUpTo(g, f, S, m)}
<1>. SUFFICES ASSUME Bad # {} PROVE FALSE
  OBVIOUS
<1>1. PICK m \in Bad : \A k \in Bad : m <= k
  BY LeastNumber
<1>2. \A s \in SUBSET S : Cardinality(s) \in Nat /\ (Cardinality(s) = 0 <=> s = {})
  BY FS_Subset, FS_CardinalityType, FS_EmptySet
<1>3. CASE m = 0
  <2>1. SummingUpTo([s \in SUBSET S |-> 0], f, S, 0)
    BY <1>2 DEF SummingUpTo
  <2>. QED BY <1>3, <2>1
<1>4. CASE m # 0
  <2>1. m - 1 \in Nat /\ m - 1 \notin Bad
    BY <1>1, <1>4
  <2>2. PICK g : SummingUpTo(g, f, S, m - 1)
    BY <2>1
  <2>. DEFINE h == [s \in SUBSET S |-> IF Cardinality(s) <= m - 1 THEN g[s]
                                       ELSE f[Chosen(s)] + g[s \ {Chosen(s)}]]
  <2>3. ASSUME NEW s \in SUBSET S, Cardinality(s) <= m
        PROVE  h[s] = IF s = {} THEN 0 ELSE f[Chosen(s)] + h[s \ {Chosen(s)}]
    <3>1. CASE s = {}
      <4>1. s \in SUBSET S /\ Cardinality(s) <= m - 1
        BY <1>2, <2>1, <3>1
      <4>2. g[s] = 0
        BY <2>2, <3>1, <4>1 DEF SummingUpTo
      <4>. QED BY <3>1, <4>1, <4>2
    <3>2. CASE s # {}
      <4>1. /\ Cardinality(s) \in Nat /\ Cardinality(s \ {Chosen(s)}) = Cardinality(s) - 1
            /\ s \ {Chosen(s)} \in SUBSET S
        BY <3>2, ChosenIn, Smaller
      <4>2. h[s \ {Chosen(s)}] = g[s \ {Chosen(s)}]
        BY <2>1, <2>3, <4>1
      <4>3. CASE Cardinality(s) <= m - 1
        <5>1. h[s] = g[s] /\ g[s] = f[Chosen(s)] + g[s \ {Chosen(s)}]
          BY <2>2, <3>2, <4>3 DEF SummingUpTo
        <5>. QED BY <3>2, <4>2, <5>1
      <4>4. CASE ~(Cardinality(s) <= m - 1)
        BY <3>2, <4>2, <4>4
      <4>. QED BY <4>3, <4>4
    <3>. QED BY <3>1, <3>2
  <2>4. SummingUpTo(h, f, S, m)
    BY <2>3 DEF SummingUpTo
  <2>. QED BY <2>4
<1>. QED BY <1>3, <1>4

LEMMA TableExists ==
    ASSUME NEW f, NEW S, IsFiniteSet(S)
    PROVE  \E g : Summing(g, f, S)
<1>1. Cardinality(S) \in Nat /\ \A s \in SUBSET S : Cardinality(s) <= Cardinality(S)
  BY FS_Subset, FS_CardinalityType
<1>2. PICK g : SummingUpTo(g, f, S, Cardinality(S))
  BY <1>1, TableUpTo
<1>. DEFINE h == [s \in SUBSET S |-> g[s]]
<1>3. ASSUME NEW s \in SUBSET S
      PROVE  h[s] = IF s = {} THEN 0 ELSE f[Chosen(s)] + h[s \ {Chosen(s)}]
  BY <1>1, <1>2 DEF SummingUpTo
<1>4. Summing(h, f, S)
  BY <1>3 DEF Summing
<1>. QED BY <1>4

LEMMA SumTable ==
    ASSUME NEW f, NEW S, IsFiniteSet(S)
    PROVE  \E g : Summing(g, f, S) /\ SumOf(f, S) = g[S]
<1>. DEFINE g == CHOOSE g : Summing(g, f, S)
<1>1. Summing(g, f, S)
  BY TableExists
<1>2. SumOf(f, S) = g[S]
  BY Zenon DEF SumOf, MapThenSumSet, MapThenFoldSet, Summing, Chosen
<1>. QED BY <1>1, <1>2

\* Two tables agree where what they add up does.
LEMMA TablesAgree ==
    ASSUME NEW f, NEW S, NEW g, Summing(g, f, S),
           NEW f2, NEW S2, NEW g2, Summing(g2, f2, S2),
           NEW s \in SUBSET (S \intersect S2), IsFiniteSet(s), \A x \in s : f[x] = f2[x]
    PROVE  g[s] = g2[s]
<1>. DEFINE Bad == {n \in Nat : \E t \in SUBSET s : Cardinality(t) = n /\ g[t] # g2[t]}
<1>1. ASSUME Bad # {} PROVE FALSE
  <2>1. PICK n \in Bad : \A m \in Bad : n <= m
    BY <1>1, LeastNumber
  <2>2. PICK t \in SUBSET s : Cardinality(t) = n /\ g[t] # g2[t]
    BY <2>1
  <2>3. t \in SUBSET S /\ t \in SUBSET S2
    OBVIOUS
  <2>4. CASE t = {}
    BY <2>2, <2>3, <2>4 DEF Summing
  <2>5. CASE t # {}
    <3>. DEFINE x == Chosen(t)
    <3>1. x \in t /\ f[x] = f2[x]
      BY <2>5, ChosenIn
    <3>2. Cardinality(t \ {x}) \in Nat /\ Cardinality(t \ {x}) = n - 1 /\ n \in Nat
      BY <2>2, <3>1, Smaller
    <3>3. g[t \ {x}] = g2[t \ {x}]
      <4>1. n - 1 \notin Bad
        BY <2>1, <3>2
      <4>. QED BY <3>2, <4>1
    <3>4. g[t] = f[x] + g[t \ {x}]
      BY <2>3, <2>5 DEF Summing
    <3>5. g2[t] = f2[x] + g2[t \ {x}]
      BY <2>3, <2>5 DEF Summing
    <3>. QED BY <2>2, <3>1, <3>3, <3>4, <3>5
  <2>. QED BY <2>4, <2>5
<1>2. Cardinality(s) \in Nat
  BY FS_CardinalityType
<1>. QED BY <1>1, <1>2

LEMMA TableType ==
    ASSUME NEW f, NEW S, NEW g, Summing(g, f, S), IsFiniteSet(S), \A x \in S : f[x] \in Nat
    PROVE  \A s \in SUBSET S : g[s] \in Nat
<1>. DEFINE Bad == {n \in Nat : \E t \in SUBSET S : Cardinality(t) = n /\ g[t] \notin Nat}
<1>1. ASSUME Bad # {} PROVE FALSE
  <2>1. PICK n \in Bad : \A m \in Bad : n <= m
    BY <1>1, LeastNumber
  <2>2. PICK t \in SUBSET S : Cardinality(t) = n /\ g[t] \notin Nat
    BY <2>1
  <2>3. CASE t = {}
    BY <2>2, <2>3 DEF Summing
  <2>4. CASE t # {}
    <3>. DEFINE x == Chosen(t)
    <3>1. x \in t /\ f[x] \in Nat
      BY <2>4, ChosenIn
    <3>2. Cardinality(t \ {x}) \in Nat /\ Cardinality(t \ {x}) = n - 1 /\ n \in Nat
      BY <2>2, <3>1, Smaller
    <3>3. g[t \ {x}] \in Nat
      <4>1. n - 1 \notin Bad
        BY <2>1, <3>2
      <4>. QED BY <3>2, <4>1
    <3>4. g[t] = f[x] + g[t \ {x}]
      BY <2>4 DEF Summing
    <3>. QED BY <2>2, <3>1, <3>3, <3>4
  <2>. QED BY <2>3, <2>4
<1>2. \A s \in SUBSET S : Cardinality(s) \in Nat
  BY FS_Subset, FS_CardinalityType
<1>. QED BY <1>1, <1>2

\* Whichever element is taken out first
LEMMA TableRemove ==
    ASSUME NEW f, NEW S, NEW g, Summing(g, f, S), IsFiniteSet(S), \A x \in S : f[x] \in Nat,
           NEW s \in SUBSET S, NEW y \in s
    PROVE  g[s] = f[y] + g[s \ {y}]
<1>. DEFINE Bad == {n \in Nat : \E t \in SUBSET S : \E z \in t :
                                  Cardinality(t) = n /\ g[t] # f[z] + g[t \ {z}]}
<1>1. ASSUME Bad # {} PROVE FALSE
  <2>1. PICK n \in Bad : \A m \in Bad : n <= m
    BY <1>1, LeastNumber
  <2>0. PICK t \in SUBSET S : \E z \in t : Cardinality(t) = n /\ g[t] # f[z] + g[t \ {z}]
    BY <2>1
  <2>2. PICK z \in t : Cardinality(t) = n /\ g[t] # f[z] + g[t \ {z}]
    BY <2>0
  <2>. DEFINE x == Chosen(t)
  <2>3. x \in t /\ g[t] = f[x] + g[t \ {x}]
    BY <2>2, ChosenIn DEF Summing
  <2>4. x # z
    BY <2>2, <2>3
  <2>5. Cardinality(t \ {x}) = n - 1 /\ Cardinality(t \ {x}) \in Nat /\ n \in Nat
        /\ Cardinality(t \ {z}) = n - 1
    BY <2>2, <2>3, Smaller
  <2>6. n - 1 \notin Bad
    <3>. HIDE DEF Bad, x
    <3>. QED BY <2>1, <2>5
  <2>. HIDE DEF x
  <2>7. g[t \ {x}] = f[z] + g[(t \ {x}) \ {z}]
    BY <2>2, <2>4, <2>5, <2>6
  <2>8. g[t \ {z}] = f[x] + g[(t \ {z}) \ {x}]
    BY <2>2, <2>3, <2>4, <2>5, <2>6
  <2>9. (t \ {x}) \ {z} = (t \ {z}) \ {x}
    OBVIOUS
  <2>10. f[x] \in Nat /\ f[z] \in Nat /\ g[(t \ {z}) \ {x}] \in Nat
    BY <2>2, <2>3, TableType
  <2>11. g[t \ {z}] = f[x] + g[(t \ {x}) \ {z}]
    BY <2>8, <2>9
  <2>. DEFINE rest == g[(t \ {x}) \ {z}]
  <2>12. rest \in Nat
    BY <2>9, <2>10
  <2>13. g[t] = f[x] + (f[z] + rest) /\ g[t \ {z}] = f[x] + rest
    BY <2>3, <2>7, <2>11
  <2>. HIDE DEF rest
  <2>. QED BY <2>2, <2>10, <2>12, <2>13
<1>2. Cardinality(s) \in Nat
  BY FS_Subset, FS_CardinalityType
<1>. QED BY <1>1, <1>2

-----------------------------------------------------------------------------
(* Sums *)

\* A sum is what any table says of its set.
LEMMA SumIs ==
    ASSUME NEW f, NEW S, IsFiniteSet(S), NEW S2, NEW g, Summing(g, f, S2), S \subseteq S2
    PROVE  SumOf(f, S) = g[S]
<1>1. PICK h : Summing(h, f, S) /\ SumOf(f, S) = h[S]
  BY SumTable
<1>2. S \in SUBSET (S \intersect S2)
  OBVIOUS
<1>. QED BY <1>1, <1>2, TablesAgree

LEMMA SumEmpty == \A f : SumOf(f, {}) = 0
<1>. SUFFICES ASSUME NEW f PROVE SumOf(f, {}) = 0
  OBVIOUS
<1>1. PICK h : Summing(h, f, {}) /\ SumOf(f, {}) = h[{}]
  BY SumTable, FS_EmptySet
<1>. QED BY <1>1 DEF Summing

LEMMA SumType ==
    ASSUME NEW f, NEW S, IsFiniteSet(S), \A x \in S : f[x] \in Nat
    PROVE  SumOf(f, S) \in Nat
<1>1. PICK h : Summing(h, f, S) /\ SumOf(f, S) = h[S]
  BY SumTable
<1>. QED BY <1>1, TableType

LEMMA SumSame ==
    ASSUME NEW f, NEW f2, NEW S, IsFiniteSet(S), \A x \in S : f[x] = f2[x]
    PROVE  SumOf(f, S) = SumOf(f2, S)
<1>1. PICK h : Summing(h, f, S) /\ SumOf(f, S) = h[S]
  BY SumTable
<1>2. PICK h2 : Summing(h2, f2, S) /\ SumOf(f2, S) = h2[S]
  BY SumTable
<1>3. S \in SUBSET (S \intersect S)
  OBVIOUS
<1>. QED BY <1>1, <1>2, <1>3, TablesAgree

LEMMA SumRemove ==
    ASSUME NEW f, NEW S, IsFiniteSet(S), NEW y \in S, \A x \in S : f[x] \in Nat
    PROVE  /\ SumOf(f, S) = f[y] + SumOf(f, S \ {y})
           /\ SumOf(f, S \ {y}) \in Nat
<1>1. PICK h : Summing(h, f, S) /\ SumOf(f, S) = h[S]
  BY SumTable
<1>2. h[S] = f[y] + h[S \ {y}]
  BY <1>1, TableRemove
<1>3. IsFiniteSet(S \ {y}) /\ S \ {y} \subseteq S
  BY FS_RemoveElement
<1>4. SumOf(f, S \ {y}) = h[S \ {y}]
  BY <1>1, <1>3, SumIs
<1>. QED BY <1>1, <1>2, <1>3, <1>4, SumType

LEMMA SumAdd ==
    ASSUME NEW f, NEW S, IsFiniteSet(S), NEW y, y \notin S, \A x \in S \union {y} : f[x] \in Nat
    PROVE  SumOf(f, S \union {y}) = SumOf(f, S) + f[y]
<1>1. IsFiniteSet(S \union {y}) /\ (S \union {y}) \ {y} = S
  BY FS_AddElement
<1>2. SumOf(f, S) \in Nat
  BY SumType
<1>. QED BY <1>1, <1>2, SumRemove

LEMMA SumChange ==
    ASSUME NEW f, NEW f2, NEW S, IsFiniteSet(S), NEW y \in S,
           \A x \in S : f[x] \in Nat, f2[y] \in Nat, \A x \in S \ {y} : f2[x] = f[x]
    PROVE  /\ SumOf(f2, S) = SumOf(f, S) - f[y] + f2[y]
           /\ SumOf(f, S) \in Nat /\ SumOf(f, S) >= f[y]
<1>1. \A x \in S : f2[x] \in Nat
  OBVIOUS
<1>2. IsFiniteSet(S \ {y})
  BY FS_RemoveElement
<1>3. SumOf(f, S \ {y}) = SumOf(f2, S \ {y})
  BY <1>2, SumSame
<1>4. SumOf(f, S) = f[y] + SumOf(f, S \ {y}) /\ SumOf(f, S \ {y}) \in Nat
  BY SumRemove
<1>5. SumOf(f2, S) = f2[y] + SumOf(f2, S \ {y})
  BY <1>1, SumRemove
<1>. QED BY <1>3, <1>4, <1>5

LEMMA SumSubset ==
    ASSUME NEW f, NEW S, IsFiniteSet(S), NEW T \in SUBSET S, \A x \in S : f[x] \in Nat
    PROVE  /\ SumOf(f, T) <= SumOf(f, S)
           /\ SumOf(f, T) \in Nat /\ SumOf(f, S) \in Nat
<1>0. \A s \in SUBSET S : IsFiniteSet(s) /\ Cardinality(s) \in Nat /\ SumOf(f, s) \in Nat
  BY FS_Subset, FS_CardinalityType, SumType
<1>. DEFINE Bad == {n \in Nat : \E s \in SUBSET S :
                      T \subseteq s /\ Cardinality(s) = n /\ ~(SumOf(f, T) <= SumOf(f, s))}
<1>1. ASSUME Bad # {} PROVE FALSE
  <2>1. PICK n \in Bad : \A m \in Bad : n <= m
    BY <1>1, LeastNumber
  <2>2. PICK s \in SUBSET S : T \subseteq s /\ Cardinality(s) = n /\ ~(SumOf(f, T) <= SumOf(f, s))
    BY <2>1
  <2>3. CASE s = T
    BY <1>0, <2>2, <2>3
  <2>4. ASSUME NEW x \in s, x \notin T PROVE FALSE
    <3>1. Cardinality(s \ {x}) \in Nat /\ Cardinality(s \ {x}) = n - 1 /\ n \in Nat
      BY <2>2, Smaller
    <3>2. SumOf(f, T) <= SumOf(f, s \ {x})
      <4>1. n - 1 \notin Bad
        BY <2>1, <3>1
      <4>. QED BY <2>2, <2>4, <3>1, <4>1
    <3>3. SumOf(f, s) = f[x] + SumOf(f, s \ {x}) /\ f[x] \in Nat
      BY <1>0, SumRemove
    <3>. QED BY <1>0, <2>2, <3>2, <3>3
  <2>. QED BY <2>2, <2>3, <2>4
<1>. QED BY <1>0, <1>1

LEMMA SumZero ==
    ASSUME NEW f, NEW S, IsFiniteSet(S), \A x \in S : f[x] = 0
    PROVE  SumOf(f, S) = 0
<1>1. PICK h : Summing(h, f, S) /\ SumOf(f, S) = h[S]
  BY SumTable
<1>. DEFINE z == [s \in SUBSET S |-> 0]
<1>2. \A s \in SUBSET S : z[s] = IF s = {} THEN 0 ELSE f[Chosen(s)] + z[s \ {Chosen(s)}]
  BY ChosenIn
<1>3. Summing(z, f, S)
  BY <1>2 DEF Summing
<1>. QED BY <1>1, <1>3, SumIs

LEMMA SumDisjoint ==
    ASSUME NEW f, NEW A, NEW B, IsFiniteSet(A), IsFiniteSet(B), A \intersect B = {},
           \A x \in A \union B : f[x] \in Nat
    PROVE  /\ IsFiniteSet(A \union B)
           /\ SumOf(f, A \union B) = SumOf(f, A) + SumOf(f, B)
<1>0. \A s \in SUBSET B : IsFiniteSet(s) /\ Cardinality(s) \in Nat /\ IsFiniteSet(A \union s)
  BY FS_Subset, FS_CardinalityType, FS_Union
<1>. DEFINE Bad == {n \in Nat : \E s \in SUBSET B :
                      Cardinality(s) = n /\ SumOf(f, A \union s) # SumOf(f, A) + SumOf(f, s)}
<1>1. ASSUME Bad # {} PROVE FALSE
  <2>1. PICK n \in Bad : \A m \in Bad : n <= m
    BY <1>1, LeastNumber
  <2>2. PICK s \in SUBSET B :
           Cardinality(s) = n /\ SumOf(f, A \union s) # SumOf(f, A) + SumOf(f, s)
    BY <2>1
  <2>3. SumOf(f, A) \in Nat
    BY SumType
  <2>4. CASE s = {}
    <3>1. A \union s = A /\ SumOf(f, s) = 0
      BY <2>4, SumEmpty
    <3>. QED BY <2>2, <2>3, <3>1
  <2>5. ASSUME NEW x \in s PROVE FALSE
    <3>1. Cardinality(s \ {x}) \in Nat /\ Cardinality(s \ {x}) = n - 1 /\ n \in Nat
      BY <2>2, Smaller
    <3>2. SumOf(f, A \union (s \ {x})) = SumOf(f, A) + SumOf(f, s \ {x})
      <4>1. n - 1 \notin Bad
        <5>. HIDE DEF Bad
        <5>. QED BY <2>1, <3>1
      <4>. QED BY <2>2, <3>1, <4>1
    <3>3. SumOf(f, s) = f[x] + SumOf(f, s \ {x}) /\ SumOf(f, s \ {x}) \in Nat /\ f[x] \in Nat
      BY <1>0, <2>2, SumRemove
    <3>4. (A \union s) \ {x} = A \union (s \ {x})
      BY <2>5
    <3>5. SumOf(f, A \union s) = f[x] + SumOf(f, A \union (s \ {x}))
      BY <1>0, <2>2, <3>4, SumRemove
    <3>. QED BY <2>2, <2>3, <3>2, <3>3, <3>5
  <2>. QED BY <2>4, <2>5
<1>2. SumOf(f, A \union B) = SumOf(f, A) + SumOf(f, B)
  BY <1>0, <1>1
<1>. QED BY <1>0, <1>2

\* A sum is that of the images when no two elements have the same.
LEMMA SumImage ==
    ASSUME NEW f, NEW g, NEW h, NEW S, IsFiniteSet(S),
           \A x \in S : f[x] \in Nat /\ g[h[x]] = f[x],
           \A x, y \in S : h[x] = h[y] => x = y
    PROVE  /\ IsFiniteSet({h[x] : x \in S})
           /\ SumOf(g, {h[x] : x \in S}) = SumOf(f, S)
<1>. DEFINE Image(s) == {h[x] : x \in s}
<1>0. \A s \in SUBSET S : IsFiniteSet(s) /\ Cardinality(s) \in Nat
  BY FS_Subset, FS_CardinalityType
<1>1. \A s \in SUBSET S : IsFiniteSet(Image(s))
  <2>. SUFFICES ASSUME NEW s \in SUBSET S PROVE IsFiniteSet(Image(s))
    OBVIOUS
  <2>. DEFINE m == [x \in s |-> h[x]]
  <2>1. m \in Surjection(s, Image(s))
    BY DEF Surjection
  <2>. HIDE DEF m, Image
  <2>. QED BY <1>0, <2>1, FS_Surjection
<1>. DEFINE Bad == {n \in Nat : \E s \in SUBSET S :
                      Cardinality(s) = n /\ SumOf(g, Image(s)) # SumOf(f, s)}
<1>2. ASSUME Bad # {} PROVE FALSE
  <2>1. PICK n \in Bad : \A m \in Bad : n <= m
    BY <1>2, LeastNumber
  <2>2. PICK s \in SUBSET S : Cardinality(s) = n /\ SumOf(g, Image(s)) # SumOf(f, s)
    BY <2>1
  <2>3. CASE s = {}
    <3>1. Image(s) = {}
      BY <2>3
    <3>2. SumOf(g, Image(s)) = 0 /\ SumOf(f, s) = 0
      BY <2>3, <3>1, SumEmpty
    <3>. QED BY <2>2, <3>2
  <2>4. ASSUME NEW x \in s PROVE FALSE
    <3>1. Cardinality(s \ {x}) \in Nat /\ Cardinality(s \ {x}) = n - 1 /\ n \in Nat
      BY <2>2, Smaller
    <3>2. SumOf(g, Image(s \ {x})) = SumOf(f, s \ {x})
      <4>1. n - 1 \notin Bad
        <5>. HIDE DEF Bad
        <5>. QED BY <2>1, <3>1
      <4>2. s \ {x} \in SUBSET S
        BY <2>2
      <4>. HIDE DEF Image
      <4>. QED BY <3>1, <4>1, <4>2
    <3>3. SumOf(f, s) = f[x] + SumOf(f, s \ {x}) /\ f[x] \in Nat
      BY <1>0, <2>2, SumRemove
    <3>4. Image(s) \ {h[x]} = Image(s \ {x}) /\ h[x] \in Image(s)
      BY <2>2
    <3>5. \A y \in Image(s) : g[y] \in Nat
      BY <2>2
    <3>6. g[h[x]] = f[x] /\ IsFiniteSet(Image(s))
      BY <1>1, <2>2
    <3>. HIDE DEF Image
    <3>7. SumOf(g, Image(s)) = g[h[x]] + SumOf(g, Image(s) \ {h[x]})
      BY <3>4, <3>5, <3>6, SumRemove
    <3>. QED BY <2>2, <3>2, <3>3, <3>4, <3>6, <3>7
  <2>. QED BY <2>3, <2>4
<1>3. SumOf(g, Image(S)) = SumOf(f, S)
  BY <1>0, <1>2
<1>. QED BY <1>1, <1>3

\* The sum over the union of a family of disjoint sets
LEMMA SumFamily ==
    ASSUME NEW f, NEW C, IsFiniteSet(C), NEW P, \A c \in C : IsFiniteSet(P[c]),
           \A c, d \in C : c # d => P[c] \intersect P[d] = {},
           \A c \in C : \A x \in P[c] : f[x] \in Nat,
           NEW g, \A c \in C : g[c] = SumOf(f, P[c]),
           NEW U, U = UNION {P[c] : c \in C}
    PROVE  IsFiniteSet(U) /\ SumOf(f, U) = SumOf(g, C)
<1>. DEFINE All(s) == UNION {P[c] : c \in s}
<1>0. \A s \in SUBSET C : IsFiniteSet(s) /\ Cardinality(s) \in Nat
  BY FS_Subset, FS_CardinalityType
<1>1. \A c \in C : g[c] \in Nat /\ g[c] = SumOf(f, P[c])
  BY SumType
<1>. DEFINE Bad == {n \in Nat : \E s \in SUBSET C :
                      Cardinality(s) = n /\ ~(IsFiniteSet(All(s)) /\ SumOf(f, All(s)) = SumOf(g, s))}
<1>2. ASSUME Bad # {} PROVE FALSE
  <2>1. PICK n \in Bad : \A m \in Bad : n <= m
    BY <1>2, LeastNumber
  <2>2. PICK s \in SUBSET C :
           Cardinality(s) = n /\ ~(IsFiniteSet(All(s)) /\ SumOf(f, All(s)) = SumOf(g, s))
    BY <2>1
  <2>3. CASE s = {}
    <3>1. All(s) = {}
      BY <2>3
    <3>2. SumOf(f, All(s)) = 0 /\ SumOf(g, s) = 0 /\ IsFiniteSet(All(s))
      BY <2>3, <3>1, SumEmpty, FS_EmptySet
    <3>. QED BY <2>2, <3>2
  <2>4. ASSUME NEW c \in s PROVE FALSE
    <3>. DEFINE rest == s \ {c}
    <3>1. Cardinality(rest) \in Nat /\ Cardinality(rest) = n - 1 /\ n \in Nat
      BY <2>2, Smaller
    <3>2. IsFiniteSet(All(rest)) /\ SumOf(f, All(rest)) = SumOf(g, rest)
      <4>1. n - 1 \notin Bad
        <5>. HIDE DEF Bad
        <5>. QED BY <2>1, <3>1
      <4>2. rest \in SUBSET C
        BY <2>2
      <4>. HIDE DEF All, rest
      <4>. QED BY <3>1, <4>1, <4>2
    <3>3. SumOf(g, s) = g[c] + SumOf(g, rest) /\ SumOf(g, rest) \in Nat
      <4>1. \A d \in s : g[d] \in Nat
        BY <1>1, <2>2
      <4>. QED BY <1>0, <2>2, <4>1, SumRemove
    <3>4. All(s) = All(rest) \union P[c]
      BY <2>4
    <3>5. All(rest) \intersect P[c] = {}
      BY <2>2, <2>4
    <3>6. \A x \in All(rest) \union P[c] : f[x] \in Nat
      BY <2>2, <2>4
    <3>7. c \in C /\ IsFiniteSet(P[c]) /\ g[c] = SumOf(f, P[c]) /\ g[c] \in Nat
      BY <1>1, <2>2, <2>4
    <3>. HIDE DEF All, rest
    <3>8. IsFiniteSet(All(rest) \union P[c])
          /\ SumOf(f, All(rest) \union P[c]) = SumOf(f, All(rest)) + SumOf(f, P[c])
      <4>. DEFINE A == All(rest)
                  B == P[c]
      <4>1. /\ IsFiniteSet(A) /\ IsFiniteSet(B) /\ A \intersect B = {}
            /\ \A x \in A \union B : f[x] \in Nat
        BY <3>2, <3>5, <3>6, <3>7
      <4>. HIDE DEF A, B
      <4>2. IsFiniteSet(A \union B) /\ SumOf(f, A \union B) = SumOf(f, A) + SumOf(f, B)
        BY <4>1, SumDisjoint
      <4>. QED BY <4>2 DEF A, B
    <3>. QED BY <2>2, <3>2, <3>3, <3>4, <3>7, <3>8
  <2>. QED BY <2>3, <2>4
<1>3. IsFiniteSet(All(C)) /\ SumOf(f, All(C)) = SumOf(g, C)
  <2>1. C \in SUBSET C
    OBVIOUS
  <2>. HIDE DEF All
  <2>. QED BY <1>0, <1>2, <2>1
<1>. QED BY <1>3

\* What is covered element by element is covered as a whole.
LEMMA SumCovered ==
    ASSUME NEW f, NEW g, NEW h, NEW S, IsFiniteSet(S),
           \A x \in S : f[x] \in Nat /\ g[x] \in Nat /\ h[x] \in Nat /\ f[x] <= g[x] + h[x]
    PROVE  SumOf(f, S) <= SumOf(g, S) + SumOf(h, S)
<1>0. \A s \in SUBSET S : IsFiniteSet(s) /\ Cardinality(s) \in Nat
  BY FS_Subset, FS_CardinalityType
<1>. DEFINE Bad == {n \in Nat : \E s \in SUBSET S :
                      Cardinality(s) = n /\ ~(SumOf(f, s) <= SumOf(g, s) + SumOf(h, s))}
<1>1. ASSUME Bad # {} PROVE FALSE
  <2>1. PICK n \in Bad : \A m \in Bad : n <= m
    BY <1>1, LeastNumber
  <2>2. PICK s \in SUBSET S : Cardinality(s) = n /\ ~(SumOf(f, s) <= SumOf(g, s) + SumOf(h, s))
    BY <2>1
  <2>3. CASE s = {}
    BY <2>2, <2>3, SumEmpty
  <2>4. ASSUME NEW x \in s PROVE FALSE
    <3>1. Cardinality(s \ {x}) \in Nat /\ Cardinality(s \ {x}) = n - 1 /\ n \in Nat
      BY <2>2, Smaller
    <3>2. SumOf(f, s \ {x}) <= SumOf(g, s \ {x}) + SumOf(h, s \ {x})
      <4>1. n - 1 \notin Bad
        BY <2>1, <3>1
      <4>. QED BY <2>2, <3>1, <4>1
    <3>3. SumOf(f, s) = f[x] + SumOf(f, s \ {x}) /\ SumOf(f, s \ {x}) \in Nat
      BY <1>0, <2>2, SumRemove
    <3>4. SumOf(g, s) = g[x] + SumOf(g, s \ {x}) /\ SumOf(g, s \ {x}) \in Nat
      BY <1>0, <2>2, SumRemove
    <3>5. SumOf(h, s) = h[x] + SumOf(h, s \ {x}) /\ SumOf(h, s \ {x}) \in Nat
      BY <1>0, <2>2, SumRemove
    <3>6. f[x] \in Nat /\ g[x] \in Nat /\ h[x] \in Nat /\ f[x] <= g[x] + h[x]
      BY <2>2
    <3>. QED BY <2>2, <3>2, <3>3, <3>4, <3>5, <3>6
  <2>. QED BY <2>3, <2>4
<1>. QED BY <1>0, <1>1

\* Where g is zero, or else the share of A that k names, and no share is
\* named twice, the sum of g stays within that of A.
LEMMA SumInto ==
    ASSUME NEW g, NEW S, IsFiniteSet(S), NEW A, NEW T, IsFiniteSet(T), NEW k, NEW W \in SUBSET S,
           \A x \in S \ W : g[x] = 0,
           \A x \in W : k[x] \in T /\ g[x] = A[k[x]],
           \A x, y \in W : k[x] = k[y] => x = y,
           \A t \in T : A[t] \in Nat
    PROVE  SumOf(g, S) <= SumOf(A, T)
<1>. DEFINE Named == {k[x] : x \in W}
<1>1. IsFiniteSet(W) /\ IsFiniteSet(S \ W) /\ W \intersect (S \ W) = {} /\ W \union (S \ W) = S
  BY FS_Subset
<1>2. \A x \in W \union (S \ W) : g[x] \in Nat
  OBVIOUS
<1>3. SumOf(g, S) = SumOf(g, W) + SumOf(g, S \ W)
  <2>1. SumOf(g, W \union (S \ W)) = SumOf(g, W) + SumOf(g, S \ W)
    BY <1>1, <1>2, SumDisjoint
  <2>. QED BY <1>1, <2>1
<1>4. SumOf(g, S \ W) = 0
  BY <1>1, SumZero
<1>5. SumOf(A, Named) = SumOf(g, W)
  <2>1. \A x \in W : g[x] \in Nat /\ A[k[x]] = g[x]
    BY <1>2
  <2>. QED BY <1>1, <2>1, SumImage
<1>6. SumOf(A, Named) <= SumOf(A, T) /\ SumOf(A, Named) \in Nat
  <2>1. Named \in SUBSET T
    OBVIOUS
  <2>. HIDE DEF Named
  <2>. QED BY <2>1, SumSubset
<1>. QED BY <1>3, <1>4, <1>5, <1>6

\* What is covered with a margin element by element keeps a margin.
LEMMA SumMargin ==
    ASSUME NEW f, NEW g, NEW h, NEW S, IsFiniteSet(S), S # {},
           \A x \in S : /\ f[x] \in Nat /\ g[x] \in Nat /\ h[x] \in Nat
                        /\ 49 * f[x] + 100 <= 50 * (g[x] + h[x])
    PROVE  /\ SumOf(f, S) \in Nat /\ SumOf(g, S) \in Nat /\ SumOf(h, S) \in Nat
           /\ 49 * SumOf(f, S) + 100 <= 50 * (SumOf(g, S) + SumOf(h, S))
<1>. DEFINE Margin(s) == 49 * SumOf(f, s) + 100 <= 50 * (SumOf(g, s) + SumOf(h, s))
<1>0. \A s \in SUBSET S : /\ IsFiniteSet(s) /\ Cardinality(s) \in Nat
                          /\ SumOf(f, s) \in Nat /\ SumOf(g, s) \in Nat /\ SumOf(h, s) \in Nat
  BY FS_Subset, FS_CardinalityType, SumType
<1>. DEFINE Bad == {n \in Nat : \E s \in SUBSET S : s # {} /\ Cardinality(s) = n /\ ~Margin(s)}
<1>1. ASSUME Bad # {} PROVE FALSE
  <2>1. PICK n \in Bad : \A m \in Bad : n <= m
    BY <1>1, LeastNumber
  <2>2. PICK s \in SUBSET S : s # {} /\ Cardinality(s) = n /\ ~Margin(s)
    BY <2>1
  <2>3. PICK x \in s : TRUE
    BY <2>2
  <2>. DEFINE rest == s \ {x}
  <2>4. Cardinality(rest) \in Nat /\ Cardinality(rest) = n - 1 /\ n \in Nat
    BY <2>2, Smaller
  <2>5. /\ SumOf(f, s) = f[x] + SumOf(f, rest) /\ SumOf(g, s) = g[x] + SumOf(g, rest)
        /\ SumOf(h, s) = h[x] + SumOf(h, rest)
    <3>1. IsFiniteSet(s) /\ \A y \in s : f[y] \in Nat /\ g[y] \in Nat /\ h[y] \in Nat
      BY <1>0
    <3>2. SumOf(f, s) = f[x] + SumOf(f, s \ {x})
      BY <3>1, SumRemove
    <3>3. SumOf(g, s) = g[x] + SumOf(g, s \ {x})
      BY <3>1, SumRemove
    <3>4. SumOf(h, s) = h[x] + SumOf(h, s \ {x})
      BY <3>1, SumRemove
    <3>. QED BY <3>2, <3>3, <3>4
  <2>6. /\ f[x] \in Nat /\ g[x] \in Nat /\ h[x] \in Nat
        /\ 49 * f[x] + 100 <= 50 * (g[x] + h[x])
    BY <2>2
  <2>7. rest \in SUBSET S
    BY <2>2
  <2>8. SumOf(f, rest) \in Nat /\ SumOf(g, rest) \in Nat /\ SumOf(h, rest) \in Nat
    BY <1>0, <2>7
  <2>9. CASE rest = {}
    <3>1. SumOf(f, rest) = 0 /\ SumOf(g, rest) = 0 /\ SumOf(h, rest) = 0
      BY <2>9, SumEmpty
    <3>. HIDE DEF rest
    <3>. QED BY <2>2, <2>5, <2>6, <3>1
  <2>10. CASE rest # {}
    <3>1. n - 1 \notin Bad
      <4>. HIDE DEF Bad, rest
      <4>. QED BY <2>1, <2>4
    <3>2. Margin(rest)
      <4>. HIDE DEF Margin, rest
      <4>. QED BY <2>4, <2>7, <2>10, <3>1
    <3>. HIDE DEF rest
    <3>. QED BY <2>2, <2>5, <2>6, <2>8, <3>2
  <2>. QED BY <2>9, <2>10
<1>2. Margin(S)
  <2>1. S \in SUBSET S
    OBVIOUS
  <2>. HIDE DEF Margin
  <2>. QED BY <1>0, <1>1, <2>1
<1>. QED BY <1>0, <1>2
=============================================================================
