------------------------ MODULE RoutingMetrics_proofs ------------------------
(***************************************************************************)
(* Theorems about Metrics and Routing, whose proofs rest on sums over sets *)
(* of minutes and on maxima of sets of similarities.  The library's        *)
(* induction theorems take an operator as a parameter; what is proved by   *)
(* induction here takes a minimal counterexample of a set instead.         *)
(***************************************************************************)
EXTENDS Metrics, Routing, FiniteSetTheorems, SequenceTheorems, WellFoundedInduction, TLAPS

(* Induction over data.                                                    *)

\* Every non-empty set of natural numbers has a least element.
LEMMA LeastNumber ==
    ASSUME NEW T \in SUBSET Nat, T # {}
    PROVE  \E n \in T : \A m \in T : n <= m
<1> DEFINE Below == {p \in Nat \X Nat : p[1] < p[2]}
<1>1. Below = OpToRel(<, Nat)
    BY Zenon DEF OpToRel
<1>2. IsWellFoundedOn(Below, Nat)
    BY <1>1, NatLessThanWellFounded, Zenon
<1>3. \E n \in T : \A m \in T : ~(<<m, n>> \in Below)
  <2> HIDE DEF Below
  <2> QED
    BY <1>2, WFMin
<1>4. \A m, n \in Nat : <<m, n>> \notin Below => n <= m
    OBVIOUS
<1> HIDE DEF Below
<1>5. PICK n \in T : \A m \in T : <<m, n>> \notin Below
    BY <1>3
<1>6. \A m \in T : m \in Nat /\ n \in Nat
    OBVIOUS
<1> QED
    BY <1>4, <1>5, <1>6

\* Induction over data: a family of subsets of a finite set has a minimal member.
LEMMA MinimalSet ==
    ASSUME NEW S, IsFiniteSet(S), NEW B \in SUBSET SUBSET S, B # {}
    PROVE  \E s \in B : \A x \in s : s \ {x} \notin B
<1> DEFINE Sizes == {Cardinality(s) : s \in B}
<1>1. \A s \in B : IsFiniteSet(s) /\ Cardinality(s) \in Nat
    BY FS_Subset, FS_CardinalityType
<1>2. Sizes \in SUBSET Nat /\ Sizes # {}
    BY <1>1
<1>3. PICK n \in Sizes : \A m \in Sizes : n <= m
  <2> HIDE DEF Sizes
  <2> QED
    BY <1>2, LeastNumber
<1>4. PICK s \in B : Cardinality(s) = n
    BY <1>3
<1>5. ASSUME NEW x \in s, s \ {x} \in B PROVE FALSE
  <2>1. Cardinality(s \ {x}) = Cardinality(s) - 1
      BY <1>1, FS_RemoveElement
  <2> QED
      BY <2>1, <1>1, <1>3, <1>4, <1>5
<1> QED
    BY <1>5
----------------------------------------------------------------------------
Pick(s) == CHOOSE x \in s : TRUE

Totals(f, S, g) ==
    g = [s \in SUBSET S |-> IF s = {} THEN 0 ELSE f[Pick(s)] + g[s \ {Pick(s)}]]

LEMMA SumIsTotal ==
    ASSUME NEW f, NEW S
    PROVE  SumOver(f, S) = (CHOOSE g : Totals(f, S, g))[S]
  BY DEF SumOver, MapThenSumSet, MapThenFoldSet, Totals, Pick

LEMMA PickIn == ASSUME NEW s, s # {} PROVE Pick(s) \in s
  BY DEF Pick

\* The recursion is well defined on the subsets of a finite set.
LEMMA TotalsExist ==
    ASSUME NEW f, NEW S, IsFiniteSet(S)
    PROVE  Totals(f, S, CHOOSE g : Totals(f, S, g))
<1> DEFINE Level(n) == {s \in SUBSET S : Cardinality(s) <= n}
           Body(g, s) == IF s = {} THEN 0 ELSE f[Pick(s)] + g[s \ {Pick(s)}]
           OnLevel(n, g) == g = [s \in Level(n) |-> Body(g, s)]
           Bad == {n \in Nat : \A g : ~OnLevel(n, g)}
<1>1. \A s \in SUBSET S : IsFiniteSet(s) /\ Cardinality(s) \in Nat
    BY FS_Subset, FS_CardinalityType
<1>2. \A s \in SUBSET S : s # {} => /\ s \ {Pick(s)} \in SUBSET S
                                    /\ Cardinality(s \ {Pick(s)}) = Cardinality(s) - 1
    BY <1>1, PickIn, FS_RemoveElement
<1>3. 0 \notin Bad
  <2> DEFINE g == [s \in Level(0) |-> 0]
  <2>1. ASSUME NEW s \in Level(0) PROVE s = {}
      BY <1>1, FS_EmptySet
  <2>2. OnLevel(0, g)
      BY <2>1
  <2> HIDE DEF OnLevel
  <2> QED
      BY <2>2
<1>4. ASSUME NEW n \in Nat, n \notin Bad PROVE n + 1 \notin Bad
  <2>1. PICK g : OnLevel(n, g)
      BY <1>4
  <2> DEFINE h == [s \in Level(n + 1) |-> Body(g, s)]
  <2>2. ASSUME NEW s \in Level(n) PROVE s \in Level(n + 1) /\ h[s] = g[s]
    <3>1. s \in Level(n + 1)
        BY <1>1
    <3>2. g[s] = Body(g, s)
        BY <2>1
    <3> QED
        BY <3>1, <3>2
  <2>3. ASSUME NEW s \in Level(n + 1), s # {} PROVE s \ {Pick(s)} \in Level(n)
      BY <1>1, <1>2, <2>3
  <2>4. ASSUME NEW s \in Level(n + 1) PROVE Body(g, s) = Body(h, s)
      BY <2>2, <2>3
  <2>5. OnLevel(n + 1, h)
      BY <2>4
  <2> HIDE DEF OnLevel, h
  <2> QED
      BY <2>5
<1>5. Bad = {}
  <2> SUFFICES ASSUME Bad # {} PROVE FALSE
      OBVIOUS
  <2>1. PICK n \in Bad : \A m \in Bad : n <= m
    <3> HIDE DEF OnLevel
    <3>1. Bad \in SUBSET Nat
        OBVIOUS
    <3> HIDE DEF Bad
    <3> QED
      BY <3>1, LeastNumber
  <2> HIDE DEF OnLevel
  <2>2. n \in Nat /\ n # 0
      BY <1>3
  <2>3. n - 1 \in Nat /\ n - 1 \notin Bad /\ (n - 1) + 1 = n
      BY <2>1, <2>2
  <2> HIDE DEF Bad
  <2> QED
      BY <1>4, <2>3
<1>6. Level(Cardinality(S)) = SUBSET S
  <2>1. \A s \in SUBSET S : Cardinality(s) <= Cardinality(S)
      BY FS_Subset
  <2> QED
      BY <2>1
<1>7. PICK g : OnLevel(Cardinality(S), g)
  <2>1. Cardinality(S) \in Nat
      BY <1>1
  <2> HIDE DEF OnLevel
  <2> QED
      BY <1>5, <2>1
<1>8. Totals(f, S, g)
    BY <1>6, <1>7 DEF Totals
<1> QED
    BY <1>8

\* The sum over a part of S is the value of the same recursion.
LEMMA TotalsAgree ==
    ASSUME NEW f, NEW S, IsFiniteSet(S), NEW T \in SUBSET S
    PROVE  SumOver(f, T) = (CHOOSE g : Totals(f, S, g))[T]
<1> DEFINE g == CHOOSE g : Totals(f, S, g)
           h == CHOOSE h : Totals(f, T, h)
           Bad == {s \in SUBSET T : g[s] # h[s]}
<1>1. IsFiniteSet(T)
    BY FS_Subset
<1>2. Totals(f, S, g) /\ Totals(f, T, h)
    BY <1>1, TotalsExist
<1>3. SumOver(f, T) = h[T]
    BY SumIsTotal
<1> HIDE DEF g, h
<1>4. Bad = {}
  <2> SUFFICES ASSUME Bad # {} PROVE FALSE
      OBVIOUS
  <2>1. PICK s \in Bad : \A x \in s : s \ {x} \notin Bad
    <3>1. Bad \in SUBSET SUBSET T
        OBVIOUS
    <3> HIDE DEF Bad
    <3> QED
        BY <1>1, <3>1, MinimalSet
  <2>2. s # {}
      BY <1>2, <2>1 DEF Totals
  <2>3. Pick(s) \in s /\ s \in SUBSET T /\ s \in SUBSET S /\ s \ {Pick(s)} \in SUBSET T
      BY <2>1, <2>2, PickIn
  <2>4. g[s \ {Pick(s)}] = h[s \ {Pick(s)}]
      BY <2>1, <2>3
  <2>5. g[s] = f[Pick(s)] + g[s \ {Pick(s)}] /\ h[s] = f[Pick(s)] + h[s \ {Pick(s)}]
      BY <1>2, <2>2, <2>3 DEF Totals
  <2> QED
      BY <2>1, <2>4, <2>5
<1> QED
    BY <1>3, <1>4 DEF g

LEMMA SumEmpty == \A f : SumOver(f, {}) = 0
<1> SUFFICES ASSUME NEW f PROVE SumOver(f, {}) = 0
    OBVIOUS
<1>1. IsFiniteSet({})
    BY FS_EmptySet
<1>2. Totals(f, {}, CHOOSE g : Totals(f, {}, g))
    BY <1>1, TotalsExist
<1> QED
    BY <1>2, SumIsTotal DEF Totals

LEMMA SumPick ==
    ASSUME NEW f, NEW S, IsFiniteSet(S), S # {}
    PROVE  SumOver(f, S) = f[Pick(S)] + SumOver(f, S \ {Pick(S)})
<1> DEFINE g == CHOOSE g : Totals(f, S, g)
<1>1. Totals(f, S, g)
    BY TotalsExist
<1>2. S \ {Pick(S)} \in SUBSET S /\ S \in SUBSET S
    OBVIOUS
<1>3. SumOver(f, S) = g[S] /\ SumOver(f, S \ {Pick(S)}) = g[S \ {Pick(S)}]
    BY <1>2, TotalsAgree
<1> HIDE DEF g
<1> QED
    BY <1>1, <1>2, <1>3 DEF Totals

LEMMA SumType ==
    ASSUME NEW f, NEW S, IsFiniteSet(S), \A x \in S : f[x] \in Nat
    PROVE  SumOver(f, S) \in Nat
<1> DEFINE Bad == {s \in SUBSET S : SumOver(f, s) \notin Nat}
<1> SUFFICES ASSUME Bad # {} PROVE FALSE
    OBVIOUS
<1>1. PICK s \in Bad : \A x \in s : s \ {x} \notin Bad
  <2>1. Bad \in SUBSET SUBSET S
      OBVIOUS
  <2> HIDE DEF Bad
  <2> QED
      BY <2>1, MinimalSet
<1>2. s # {} /\ IsFiniteSet(s)
  <2>1. SumOver(f, {}) \in Nat
      BY SumEmpty
  <2> QED
      BY <1>1, <2>1, FS_Subset
<1>3. Pick(s) \in s
    BY <1>2, PickIn
<1>4. SumOver(f, s \ {Pick(s)}) \in Nat /\ f[Pick(s)] \in Nat
    BY <1>1, <1>3
<1> QED
    BY <1>1, <1>2, <1>4, SumPick

\* The order of a sum does not matter.
LEMMA SumRemove ==
    ASSUME NEW f, NEW S, IsFiniteSet(S), \A x \in S : f[x] \in Nat, NEW a \in S
    PROVE  SumOver(f, S) = f[a] + SumOver(f, S \ {a})
<1> DEFINE Bad == {s \in SUBSET S : \E x \in s : SumOver(f, s) # f[x] + SumOver(f, s \ {x})}
<1> SUFFICES ASSUME Bad # {} PROVE FALSE
    OBVIOUS
<1>1. PICK s \in Bad : \A x \in s : s \ {x} \notin Bad
  <2>1. Bad \in SUBSET SUBSET S
      OBVIOUS
  <2> HIDE DEF Bad
  <2> QED
      BY <2>1, MinimalSet
<1>2. PICK x \in s : SumOver(f, s) # f[x] + SumOver(f, s \ {x})
    BY <1>1
<1> DEFINE p == Pick(s)
<1>3. p \in s /\ IsFiniteSet(s) /\ \A t \in SUBSET s : IsFiniteSet(t) /\ SumOver(f, t) \in Nat
    BY <1>1, <1>2, PickIn, FS_Subset, SumType
<1>4. SumOver(f, s) = f[p] + SumOver(f, s \ {p})
    BY <1>2, <1>3, SumPick
<1> HIDE DEF p
<1>5. p # x
    BY <1>2, <1>4
<1>6. /\ SumOver(f, s \ {p}) = f[x] + SumOver(f, (s \ {p}) \ {x})
      /\ SumOver(f, s \ {x}) = f[p] + SumOver(f, (s \ {x}) \ {p})
    BY <1>1, <1>2, <1>3, <1>5
<1>7. (s \ {p}) \ {x} = (s \ {x}) \ {p}
    OBVIOUS
<1> DEFINE rest == SumOver(f, (s \ {x}) \ {p})
<1>8. f[x] \in Nat /\ f[p] \in Nat /\ rest \in Nat
    BY <1>1, <1>3
<1>9. /\ SumOver(f, s) = f[p] + (f[x] + rest)
      /\ f[x] + SumOver(f, s \ {x}) = f[x] + (f[p] + rest)
    BY <1>4, <1>6, <1>7
<1> HIDE DEF rest
<1>10. f[p] + (f[x] + rest) = f[x] + (f[p] + rest)
    BY <1>8
<1> QED
    BY <1>2, <1>9, <1>10

LEMMA SumAdd ==
    ASSUME NEW f, NEW S, IsFiniteSet(S), NEW a, a \notin S, \A x \in S \union {a} : f[x] \in Nat
    PROVE  SumOver(f, S \union {a}) = f[a] + SumOver(f, S)
<1>1. IsFiniteSet(S \union {a}) /\ (S \union {a}) \ {a} = S
    BY FS_AddElement
<1> QED
    BY <1>1, SumRemove

LEMMA SumSame ==
    ASSUME NEW f, NEW g, NEW S, IsFiniteSet(S), \A x \in S : f[x] = g[x] /\ f[x] \in Nat
    PROVE  SumOver(f, S) = SumOver(g, S)
<1> DEFINE Bad == {s \in SUBSET S : SumOver(f, s) # SumOver(g, s)}
<1> SUFFICES ASSUME Bad # {} PROVE FALSE
    OBVIOUS
<1>1. PICK s \in Bad : \A x \in s : s \ {x} \notin Bad
  <2>1. Bad \in SUBSET SUBSET S
      OBVIOUS
  <2> HIDE DEF Bad
  <2> QED
      BY <2>1, MinimalSet
<1>2. s # {} /\ IsFiniteSet(s)
    BY <1>1, SumEmpty, FS_Subset
<1>3. Pick(s) \in s
    BY <1>2, PickIn
<1>4. SumOver(f, s \ {Pick(s)}) = SumOver(g, s \ {Pick(s)}) /\ f[Pick(s)] = g[Pick(s)]
    BY <1>1, <1>3
<1> QED
    BY <1>1, <1>2, <1>4, SumPick

\* One request more in one bucket is one more in the sum.
LEMMA SumBump ==
    ASSUME NEW f, NEW g, NEW S, IsFiniteSet(S), NEW a \in S, \A x \in S : f[x] \in Nat,
           g[a] = f[a] + 1, \A x \in S \ {a} : g[x] = f[x]
    PROVE  SumOver(g, S) = SumOver(f, S) + 1
<1>1. IsFiniteSet(S \ {a}) /\ SumOver(f, S \ {a}) \in Nat
    BY FS_Subset, SumType
<1>2. SumOver(f, S \ {a}) = SumOver(g, S \ {a})
    BY <1>1, SumSame
<1>3. \A x \in S : g[x] \in Nat
    OBVIOUS
<1> QED
    BY <1>1, <1>2, <1>3, SumRemove

LEMMA SumUnion ==
    ASSUME NEW f, NEW S, NEW T, IsFiniteSet(S), IsFiniteSet(T), S \intersect T = {},
           \A x \in S \union T : f[x] \in Nat
    PROVE  SumOver(f, S \union T) = SumOver(f, S) + SumOver(f, T)
<1> DEFINE Bad == {t \in SUBSET T : SumOver(f, S \union t) # SumOver(f, S) + SumOver(f, t)}
<1> SUFFICES ASSUME Bad # {} PROVE FALSE
    OBVIOUS
<1>1. PICK t \in Bad : \A x \in t : t \ {x} \notin Bad
  <2>1. Bad \in SUBSET SUBSET T
      OBVIOUS
  <2> HIDE DEF Bad
  <2> QED
      BY <2>1, MinimalSet
<1>2. IsFiniteSet(t) /\ IsFiniteSet(S \union t)
    BY <1>1, FS_Subset, FS_Union
<1>3. SumOver(f, S) \in Nat
    BY SumType
<1>4. t # {}
  <2>1. S \union {} = S /\ SumOver(f, {}) = 0
      BY SumEmpty
  <2>2. SumOver(f, S \union {}) = SumOver(f, S) + SumOver(f, {})
      BY <1>3, <2>1
  <2> QED
      BY <1>1, <2>2
<1>5. PICK a \in t : TRUE
    BY <1>4
<1>6. SumOver(f, S \union (t \ {a})) = SumOver(f, S) + SumOver(f, t \ {a})
    BY <1>1, <1>5
<1>7. (S \union t) \ {a} = S \union (t \ {a})
    BY <1>1, <1>5
<1>8. /\ SumOver(f, S \union t) = f[a] + SumOver(f, S \union (t \ {a}))
      /\ SumOver(f, t) = f[a] + SumOver(f, t \ {a})
    BY <1>1, <1>2, <1>5, <1>7, SumRemove
<1>9. SumOver(f, t \ {a}) \in Nat /\ f[a] \in Nat
  <2>1. IsFiniteSet(t \ {a})
      BY <1>2, FS_Subset
  <2> QED
    BY <1>1, <1>5, <2>1, SumType
<1> QED
    BY <1>1, <1>3, <1>6, <1>8, <1>9

LEMMA SumZero ==
    ASSUME NEW f, NEW S, IsFiniteSet(S), \A x \in S : f[x] = 0
    PROVE  SumOver(f, S) = 0
<1> DEFINE Bad == {s \in SUBSET S : SumOver(f, s) # 0}
<1> SUFFICES ASSUME Bad # {} PROVE FALSE
    OBVIOUS
<1>1. PICK s \in Bad : \A x \in s : s \ {x} \notin Bad
  <2>1. Bad \in SUBSET SUBSET S
      OBVIOUS
  <2> HIDE DEF Bad
  <2> QED
      BY <2>1, MinimalSet
<1>2. s # {} /\ IsFiniteSet(s)
    BY <1>1, SumEmpty, FS_Subset
<1>3. Pick(s) \in s
    BY <1>2, PickIn
<1>4. SumOver(f, s \ {Pick(s)}) = 0 /\ f[Pick(s)] = 0
    BY <1>1, <1>3
<1> QED
    BY <1>1, <1>2, <1>4, SumPick

LEMMA SumSplit ==
    ASSUME NEW f, NEW S, IsFiniteSet(S), \A x \in S : f[x] \in Nat, NEW T \in SUBSET S
    PROVE  /\ SumOver(f, T) \in Nat /\ SumOver(f, S \ T) \in Nat
           /\ SumOver(f, S) = SumOver(f, T) + SumOver(f, S \ T)
           /\ SumOver(f, T) <= SumOver(f, S)
<1>1. IsFiniteSet(T) /\ IsFiniteSet(S \ T)
    BY FS_Subset
<1>2. SumOver(f, T) \in Nat
    BY <1>1, SumType
<1>3. SumOver(f, S \ T) \in Nat
    BY <1>1, SumType
<1>4. T \union (S \ T) = S /\ T \intersect (S \ T) = {}
    OBVIOUS
<1>5. SumOver(f, S) = SumOver(f, T) + SumOver(f, S \ T)
    BY <1>1, <1>4, SumUnion
<1> QED
    BY <1>2, <1>3, <1>5

LEMMA MinutesFinite == \A S \in SUBSET Minutes : IsFiniteSet(S)
<1>1. IsFiniteSet(Minutes)
    BY FS_Interval, BoundsAssumption DEF Minutes
<1> QED
    BY <1>1, FS_Subset

----------------------------------------------------------------------------
(* The entries of a list that are errors, and those that are none.         *)

Count(entries, b) == Cardinality({i \in DOMAIN entries : entries[i] = b})

LEMMA CountSplit ==
    ASSUME NEW s \in Seq(BOOLEAN)
    PROVE  /\ Errors(s) = Count(s, TRUE)
           /\ Count(s, TRUE) \in Nat /\ Count(s, FALSE) \in Nat
           /\ Len(s) = Count(s, TRUE) + Count(s, FALSE)
           /\ Errors(s) \in Nat /\ Errors(s) <= Len(s)
<1> DEFINE Yes == {i \in DOMAIN s : s[i] = TRUE}
           No  == {i \in DOMAIN s : s[i] = FALSE}
<1>1. DOMAIN s = 1 .. Len(s) /\ Len(s) \in Nat /\ \A i \in DOMAIN s : s[i] \in BOOLEAN
    OBVIOUS
<1>2. IsFiniteSet(DOMAIN s) /\ Cardinality(DOMAIN s) = Len(s)
    BY <1>1, FS_Interval
<1>3. IsFiniteSet(Yes) /\ IsFiniteSet(No)
    BY <1>2, FS_Subset
<1>4. {i \in DOMAIN s : s[i]} = Yes
    BY <1>1, Zenon
<1>5. Yes \union No = DOMAIN s /\ Yes \intersect No = {}
    BY <1>1, Zenon
<1>6. Cardinality(Yes) \in Nat /\ Cardinality(No) \in Nat
    BY <1>3, FS_CardinalityType
<1>7. Cardinality(DOMAIN s) = Cardinality(Yes) + Cardinality(No)
  <2> HIDE DEF Yes, No
  <2>1. Cardinality({}) = 0
      BY FS_EmptySet
  <2>2. Cardinality(Yes \union No)
          = Cardinality(Yes) + Cardinality(No)
            - Cardinality(Yes \intersect No)
      BY <1>3, FS_Union
  <2>3. Cardinality(DOMAIN s) = Cardinality(Yes) + Cardinality(No) - Cardinality({})
      BY <1>5, <2>2, Zenon
  <2> QED
      BY <1>6, <2>1, <2>3
<1>8. Cardinality(Yes) <= Cardinality(DOMAIN s)
    BY <1>6, <1>7
<1>9. Errors(s) = Cardinality(Yes)
    BY <1>4 DEF Errors
<1> QED
    BY <1>2, <1>6, <1>7, <1>8, <1>9 DEF Count

\* lpush and ltrim.
Pushed(s, e) == SubSeq(<<e>> \o s, 1, Smaller(Len(s) + 1, RecentMax))

LEMMA PushedType ==
    ASSUME NEW s \in Seq(BOOLEAN), NEW e \in BOOLEAN
    PROVE  /\ Pushed(s, e) \in Seq(BOOLEAN)
           /\ Len(Pushed(s, e)) = Smaller(Len(s) + 1, RecentMax)
           /\ \A i \in DOMAIN Pushed(s, e) :
                 Pushed(s, e)[i] = IF i = 1 THEN e ELSE s[i - 1]
<1> DEFINE n == Smaller(Len(s) + 1, RecentMax)
           t == <<e>> \o s
<1>1. n \in Nat /\ n <= Len(s) + 1
    BY RecentAssumption DEF Smaller
<1>2. t \in Seq(BOOLEAN) /\ Len(t) = Len(s) + 1
    OBVIOUS
<1>3. \A i \in 1 .. Len(t) : t[i] = IF i = 1 THEN e ELSE s[i - 1]
    OBVIOUS
<1> HIDE DEF n, t
<1>4. /\ SubSeq(t, 1, n) \in Seq(BOOLEAN)
      /\ Len(SubSeq(t, 1, n)) = n
      /\ \A i \in 1 .. n : SubSeq(t, 1, n)[i] = t[i]
    BY <1>1, <1>2
<1>5. DOMAIN SubSeq(t, 1, n) = 1 .. n
    BY <1>4
<1>6. \A i \in 1 .. n : i \in 1 .. Len(t)
    BY <1>1, <1>2
<1>7. Pushed(s, e) = SubSeq(t, 1, n)
    BY DEF Pushed, t, n
<1> QED
    BY <1>3, <1>4, <1>5, <1>6, <1>7 DEF n

LEMMA PushedCount ==
    ASSUME NEW s \in Seq(BOOLEAN), NEW e \in BOOLEAN, NEW b \in BOOLEAN
    PROVE  /\ e = b => Count(Pushed(s, e), b) <= Count(s, b) + 1
           /\ e # b => Count(Pushed(s, e), b) <= Count(s, b)
<1> DEFINE t == Pushed(s, e)
           A == {i \in DOMAIN t : t[i] = b}
           B == {i \in DOMAIN s : s[i] = b}
           Next1 == [i \in B |-> i + 1]
           C == {Next1[i] : i \in B}
           F == IF e = b THEN {1} ELSE {}
<1>1. /\ t \in Seq(BOOLEAN) /\ Len(t) <= Len(s) + 1
      /\ \A i \in DOMAIN t : t[i] = IF i = 1 THEN e ELSE s[i - 1]
  <2>1. Smaller(Len(s) + 1, RecentMax) <= Len(s) + 1
      BY RecentAssumption DEF Smaller
  <2> QED
      BY <2>1, PushedType
<1>2. DOMAIN s = 1 .. Len(s) /\ Len(s) \in Nat /\ DOMAIN t = 1 .. Len(t) /\ Len(t) \in Nat
    BY <1>1
<1> HIDE DEF t
<1>3. IsFiniteSet(DOMAIN s) /\ IsFiniteSet(B)
  <2>1. IsFiniteSet(DOMAIN s)
      BY <1>2, FS_Interval
  <2> QED
      BY <2>1, FS_Subset
<1>4. IsFiniteSet(C) /\ Cardinality(C) <= Cardinality(B)
  <2>1. Next1 \in [B -> C]
      OBVIOUS
  <2>2. Next1 \in Surjection(B, C)
      BY <2>1 DEF Surjection
  <2> HIDE DEF Next1, B, C
  <2> QED
      BY <1>3, <2>2, FS_Surjection
<1>5. A \subseteq F \union C
  <2> SUFFICES ASSUME NEW i \in A, i # 1 PROVE i \in C
      BY <1>1
  <2>1. i - 1 \in B
      BY <1>1, <1>2
  <2>2. Next1[i - 1] = i
      BY <1>2, <2>1
  <2> QED
      BY <2>1, <2>2
<1>6. IsFiniteSet(F) /\ (e = b => Cardinality(F) = 1) /\ (e # b => Cardinality(F) = 0)
    BY FS_EmptySet, FS_Singleton
<1> HIDE DEF A, B, C, F
<1>7. Cardinality(B) \in Nat /\ Cardinality(C) \in Nat /\ Cardinality(F) \in Nat
    BY <1>3, <1>4, <1>6, FS_CardinalityType
<1>8. /\ IsFiniteSet(F \union C) /\ IsFiniteSet(F \intersect C)
      /\ Cardinality(F \union C)
            = Cardinality(F) + Cardinality(C) - Cardinality(F \intersect C)
    BY <1>4, <1>6, FS_Union, FS_Subset
<1>9. Cardinality(F \intersect C) \in Nat /\ Cardinality(F \union C) \in Nat
    BY <1>8, FS_CardinalityType
<1>10. Cardinality(A) <= Cardinality(F \union C) /\ Cardinality(A) \in Nat
    BY <1>5, <1>8, FS_Subset, FS_CardinalityType
<1>11. /\ Cardinality(F) = 1 => Cardinality(A) <= Cardinality(B) + 1
       /\ Cardinality(F) = 0 => Cardinality(A) <= Cardinality(B)
    BY <1>4, <1>7, <1>8, <1>9, <1>10
<1> QED
    BY <1>6, <1>11, Zenon DEF Count, A, B, t

----------------------------------------------------------------------------
(* Types.                                                                  *)

Stages == {"new", "intent", "dispatch", "counters", "series",
           "recent", "tasks", "accepted", "respond", "record", "done"}

Database ==
    [total : Nat, errors : Nat, recent : Seq(BOOLEAN), dispatched : Nat,
     intents : [Intents -> Nat], rpm : [Minutes -> Nat], until : [Minutes -> Nat]]

\* The series of a view has a domain of its own.
IsView(v) ==
    /\ v = [total |-> v.total, errors |-> v.errors, series |-> v.series, recent |-> v.recent]
    /\ v.total \in Nat /\ v.errors \in Nat /\ v.recent \in 0 .. Shown

Types ==
    /\ now \in Minutes
    /\ db \in Database /\ saved \in Database
    /\ stage \in [Requests -> Stages]
    /\ failed \in [Requests -> BOOLEAN]
    /\ clock \in [Requests -> Minutes]
    /\ view = [r \in Requests |-> view[r]]
    /\ \A r \in Requests : IsView(view[r])
    /\ torn \subseteq Requests
    /\ unpaired \in Nat
    /\ faults \in 0 .. MaxFaults
    /\ IsFiniteSet(Counting)

LEMMA Fields ==
    ASSUME NEW d \in Database
    PROVE  /\ d.total \in Nat /\ d.errors \in Nat /\ d.dispatched \in Nat
           /\ d.recent \in Seq(BOOLEAN)
           /\ d.intents \in [Intents -> Nat]
           /\ d.rpm \in [Minutes -> Nat] /\ d.until \in [Minutes -> Nat]
  BY DEF Database

LEMMA TypesImplyTypeOK == Types => TypeOK
<1> SUFFICES ASSUME Types PROVE TypeOK
    OBVIOUS
<1>1. ASSUME NEW d \in Database
      PROVE  /\ {d.total, d.errors, d.dispatched} \subseteq Nat
             /\ d.intents \in [Intents -> Nat]
             /\ d.rpm \in [Minutes -> Nat] /\ d.until \in [Minutes -> Nat]
    BY DEF Database
<1> QED
    BY <1>1 DEF Types, TypeOK, IsView, Stages

LEMMA EmptyDbType == EmptyDb \in Database
  BY DEF EmptyDb, Database

LEMMA BucketType == ASSUME Types, NEW m PROVE Bucket(m) \in Nat
  BY DEF Types, Database, Bucket

LEMMA RecordedType ==
    ASSUME Types, NEW r \in Requests
    PROVE  /\ Recorded(r) \in Database
           /\ Recorded(r).total = db.total + 1
           /\ Recorded(r).errors = (IF failed[r] THEN db.errors + 1 ELSE db.errors)
           /\ Recorded(r).rpm = [db.rpm EXCEPT ![clock[r]] = Bucket(clock[r]) + 1]
           /\ Recorded(r).until = [db.until EXCEPT ![clock[r]] = now + RpmTtl]
           /\ Recorded(r).recent = Pushed(db.recent, failed[r])
           /\ Recorded(r).dispatched = db.dispatched
           /\ Recorded(r).intents = db.intents
<1> DEFINE d == Recorded(r)
           p == Pushed(db.recent, failed[r])
           b == Bucket(clock[r])
           e == IF failed[r] THEN db.errors + 1 ELSE db.errors
<1>1. p \in Seq(BOOLEAN) /\ b \in Nat
  <2>1. db.recent \in Seq(BOOLEAN) /\ failed[r] \in BOOLEAN
      BY Fields DEF Types
  <2> QED
      BY <2>1, PushedType, BucketType
<1> DEFINE m == clock[r]
           x0 == [total |-> db.total, errors |-> db.errors, recent |-> db.recent,
                  dispatched |-> db.dispatched, intents |-> db.intents,
                  rpm |-> db.rpm, until |-> db.until]
           x1 == [x0 EXCEPT !.total = @ + 1]
           x2 == [x1 EXCEPT !.errors = IF failed[r] THEN @ + 1 ELSE @]
           x3 == [x2 EXCEPT !.rpm[m] = b + 1]
           x4 == [x3 EXCEPT !.until[m] = now + RpmTtl]
           x5 == [x4 EXCEPT !.recent = Pushed(@, failed[r])]
           result == [total  |-> db.total + 1, errors |-> e, recent |-> p,
                      dispatched |-> db.dispatched, intents |-> db.intents,
                      rpm    |-> [db.rpm EXCEPT ![m] = b + 1],
                      until  |-> [db.until EXCEPT ![m] = now + RpmTtl]]
<1>2. db = x0
    BY DEF Types, Database
<1>3. d = x5
  <2>1. d = [db EXCEPT !.total    = @ + 1,
                       !.errors   = IF failed[r] THEN @ + 1 ELSE @,
                       !.rpm[m]   = b + 1,
                       !.until[m] = now + RpmTtl,
                       !.recent   = Pushed(@, failed[r])]
      BY Zenon DEF Recorded, Pushed
  <2> HIDE DEF d, b
  <2> QED
      BY <1>2, <2>1, Zenon
<1>4. x2 = [x1 EXCEPT !.errors = e]
  <2>1. x1.errors = db.errors
      OBVIOUS
  <2> HIDE DEF x1
  <2> QED
      BY <2>1, Zenon
<1>5. x5 = result
  <2> HIDE DEF b, m, e, x2
  <2>1. x2 = [total |-> db.total + 1, errors |-> e, recent |-> db.recent,
              dispatched |-> db.dispatched, intents |-> db.intents,
              rpm |-> db.rpm, until |-> db.until]
      BY <1>4
  <2> HIDE DEF p
  <2>2. x4 = [total |-> db.total + 1, errors |-> e, recent |-> db.recent,
              dispatched |-> db.dispatched, intents |-> db.intents,
              rpm |-> [db.rpm EXCEPT ![m] = b + 1],
              until |-> [db.until EXCEPT ![m] = now + RpmTtl]]
    <3>1. x2.rpm = db.rpm
        BY <2>1
    <3>2. x3 = [x2 EXCEPT !.rpm = [db.rpm EXCEPT ![m] = b + 1]]
        BY <3>1, Zenon
    <3> HIDE DEF x3
    <3>3. x3 = [total |-> db.total + 1, errors |-> e, recent |-> db.recent,
                dispatched |-> db.dispatched, intents |-> db.intents,
                rpm |-> [db.rpm EXCEPT ![m] = b + 1], until |-> db.until]
        BY <2>1, <3>2
    <3>4. x3.until = db.until
        BY <3>3
    <3>5. x4 = [x3 EXCEPT !.until = [db.until EXCEPT ![m] = now + RpmTtl]]
        BY <3>4, Zenon
    <3> QED
        BY <3>3, <3>5
  <2> HIDE DEF x4
  <2>3. x4.recent = db.recent
      BY <2>2
  <2>4. x5 = [x4 EXCEPT !.recent = p]
      BY <2>3, Zenon DEF p
  <2> QED
      BY <2>2, <2>4
<1>6. now + RpmTtl \in Nat
    BY TtlAssumption, BoundsAssumption DEF Types, Minutes
<1>7. e \in Nat
    BY Fields DEF Types
<1> HIDE DEF d, p, b, e, x5
<1>8. result \in Database
  <2>1. [db.rpm EXCEPT ![m] = b + 1] \in [Minutes -> Nat]
      BY <1>1, Fields DEF Types
  <2>2. [db.until EXCEPT ![m] = now + RpmTtl] \in [Minutes -> Nat]
      BY <1>6, Fields DEF Types
  <2>3. db.total + 1 \in Nat /\ db.dispatched \in Nat /\ db.intents \in [Intents -> Nat]
      BY Fields DEF Types
  <2> QED
      BY <1>1, <1>7, <2>1, <2>2, <2>3 DEF Database
<1>9. d = result
    BY <1>3, <1>5
<1>10. /\ d.total = db.total + 1
       /\ d.errors = e
       /\ d.rpm = [db.rpm EXCEPT ![m] = b + 1]
       /\ d.until = [db.until EXCEPT ![m] = now + RpmTtl]
       /\ d.recent = p
       /\ d.dispatched = db.dispatched
       /\ d.intents = db.intents
    BY <1>9
<1> QED
    BY <1>8, <1>9, <1>10, Zenon DEF d, p, b, e

LEMMA InitTypes == Init => Types
<1> SUFFICES ASSUME Init PROVE Types
    OBVIOUS
<1>1. Counting = {}
    BY DEF Init, Counting
<1>2. IsFiniteSet(Counting)
    BY <1>1, FS_EmptySet
<1>3. IsView(NoView)
    BY RecentAssumption DEF IsView, NoView
<1>4. 0 \in Minutes
    BY BoundsAssumption DEF Minutes
<1>5. view = [r \in Requests |-> view[r]] /\ \A r \in Requests : IsView(view[r])
    BY <1>3 DEF Init
<1>6. 0 \in 0 .. MaxFaults
    BY BoundsAssumption
<1> QED
    BY <1>2, <1>4, <1>5, <1>6, EmptyDbType DEF Init, Types, Stages

\* What a move of r does to the stages, and to the tasks that are about to be counted.
LEMMA Moved ==
    ASSUME Types, NEW r \in Requests, NEW to \in Stages,
           stage' = [stage EXCEPT ![r] = to]
    PROVE  /\ stage' \in [Requests -> Stages] /\ stage'[r] = to
           /\ \A s \in Requests \ {r} : stage'[s] = stage[s]
           /\ Counting' = IF to = "dispatch" THEN Counting \union {r} ELSE Counting \ {r}
           /\ IsFiniteSet(Counting')
<1>1. stage \in [Requests -> Stages] /\ IsFiniteSet(Counting)
    BY DEF Types
<1>2. /\ stage' \in [Requests -> Stages] /\ stage'[r] = to
      /\ \A s \in Requests \ {r} : stage'[s] = stage[s]
    BY <1>1
<1>3. Counting' = IF to = "dispatch" THEN Counting \union {r} ELSE Counting \ {r}
    BY <1>2 DEF Counting
<1>4. IsFiniteSet(Counting \union {r}) /\ IsFiniteSet(Counting \ {r})
    BY <1>1, FS_AddElement, FS_Subset
<1> QED
    BY <1>2, <1>3, <1>4

LEMMA Forgotten ==
    ASSUME Types, NEW r \in Requests, Forget(r)
    PROVE  /\ failed' \in [Requests -> BOOLEAN]
           /\ clock' \in [Requests -> Minutes] /\ clock'[r] = 0
           /\ view' = [s \in Requests |-> view'[s]] /\ view'[r] = NoView
           /\ \A s \in Requests \ {r} : clock'[s] = clock[s] /\ view'[s] = view[s]
           /\ \A s \in Requests : IsView(view'[s])
<1>1. IsView(NoView)
    BY RecentAssumption DEF IsView, NoView
<1>2. 0 \in Minutes
    BY BoundsAssumption DEF Minutes
<1>3. /\ failed' \in [Requests -> BOOLEAN]
      /\ clock' \in [Requests -> Minutes] /\ clock'[r] = 0
      /\ \A s \in Requests \ {r} : clock'[s] = clock[s]
    BY <1>2 DEF Forget, Types
<1>4. /\ view' = [s \in Requests |-> view'[s]] /\ view'[r] = NoView
      /\ \A s \in Requests \ {r} : view'[s] = view[s]
    BY DEF Forget, Types
<1>5. \A s \in Requests : IsView(view'[s])
    BY <1>1, <1>4 DEF Types
<1> QED
    BY <1>3, <1>4, <1>5

\* A handler or the middleware writes one of the keys.
LEMMA IntentCounted ==
    ASSUME Types, NEW i \in Intents, db' = [db EXCEPT !.intents[i] = @ + 1]
    PROVE  /\ db' \in Database
           /\ db'.intents = [db.intents EXCEPT ![i] = @ + 1]
           /\ /\ db'.total = db.total /\ db'.errors = db.errors /\ db'.recent = db.recent
              /\ db'.rpm = db.rpm /\ db'.until = db.until /\ db'.dispatched = db.dispatched
<1>1. db \in Database
    BY DEF Types
<1>2. [db.intents EXCEPT ![i] = @ + 1] \in [Intents -> Nat]
    BY <1>1, Fields
<1> HIDE DEF Types
<1>3. db' = [db EXCEPT !.intents = [db.intents EXCEPT ![i] = @ + 1]]
    BY Zenon
<1> QED
    BY <1>1, <1>2, <1>3 DEF Database

LEMMA TaskCounted ==
    ASSUME Types, db' = [db EXCEPT !.dispatched = @ + 1]
    PROVE  /\ db' \in Database
           /\ db'.dispatched = db.dispatched + 1
           /\ /\ db'.total = db.total /\ db'.errors = db.errors /\ db'.recent = db.recent
              /\ db'.rpm = db.rpm /\ db'.until = db.until /\ db'.intents = db.intents
<1>1. db \in Database
    BY DEF Types
<1>2. db.dispatched + 1 \in Nat
    BY <1>1, Fields
<1>3. db' = [db EXCEPT !.dispatched = db.dispatched + 1]
    OBVIOUS
<1> QED
    BY <1>1, <1>2, <1>3 DEF Database

LEMMA Viewed ==
    ASSUME Types, NEW r \in Requests, NEW v, IsView(v), view' = [view EXCEPT ![r] = v]
    PROVE  /\ view' = [s \in Requests |-> view'[s]] /\ view'[r] = v
           /\ \A s \in Requests \ {r} : view'[s] = view[s]
           /\ \A s \in Requests : IsView(view'[s])
<1>1. /\ view' = [s \in Requests |-> view'[s]] /\ view'[r] = v
      /\ \A s \in Requests \ {r} : view'[s] = view[s]
    BY DEF Types
<1> QED
    BY <1>1 DEF Types

\* What the three reads of a summary leave in it.
LEMMA SummaryRead ==
    ASSUME Types, NEW r \in Requests
    PROVE  /\ ReadCounters(r) =>
                view' = [view EXCEPT ![r] = [total |-> db.total, errors |-> db.errors,
                                             series |-> @.series, recent |-> @.recent]]
           /\ \A m : view' = [view EXCEPT ![r].series = SeriesOf(m)] =>
                view' = [view EXCEPT ![r] = [total |-> @.total, errors |-> @.errors,
                                             series |-> SeriesOf(m), recent |-> @.recent]]
           /\ ReadRecent(r) =>
                view' = [view EXCEPT ![r] = [total |-> @.total, errors |-> @.errors,
                                             series |-> @.series,
                                             recent |-> Smaller(Len(db.recent), Shown)]]
<1> DEFINE v == view[r]
<1>1. /\ v = [total |-> v.total, errors |-> v.errors, series |-> v.series, recent |-> v.recent]
      /\ r \in DOMAIN view
    BY DEF Types, IsView
<1> HIDE DEF v
<1>2. [v EXCEPT !.total = db.total, !.errors = db.errors]
        = [total |-> db.total, errors |-> db.errors, series |-> v.series, recent |-> v.recent]
  <2> DEFINE u == [v EXCEPT !.total = db.total]
  <2>1. u = [total |-> db.total, errors |-> v.errors, series |-> v.series, recent |-> v.recent]
      BY <1>1
  <2> HIDE DEF u
  <2>2. [u EXCEPT !.errors = db.errors]
          = [total |-> db.total, errors |-> db.errors, series |-> v.series, recent |-> v.recent]
      BY <2>1
  <2> QED
      BY <2>2 DEF u
<1>3. \A m : [v EXCEPT !.series = SeriesOf(m)]
        = [total |-> v.total, errors |-> v.errors, series |-> SeriesOf(m), recent |-> v.recent]
    BY <1>1
<1>4. [v EXCEPT !.recent = Smaller(Len(db.recent), Shown)]
        = [total |-> v.total, errors |-> v.errors, series |-> v.series,
           recent |-> Smaller(Len(db.recent), Shown)]
    BY <1>1
<1>5. ASSUME ReadCounters(r)
      PROVE  view' = [view EXCEPT ![r] = [v EXCEPT !.total = db.total, !.errors = db.errors]]
  <2> DEFINE w == [view EXCEPT ![r].total = db.total]
  <2>1. view' = [w EXCEPT ![r].errors = db.errors]
      BY <1>5 DEF ReadCounters
  <2>2. w[r] = [v EXCEPT !.total = db.total] /\ \A s \in DOMAIN view \ {r} : w[s] = view[s]
      BY <1>1 DEF v
  <2>3. DOMAIN w = DOMAIN view
      OBVIOUS
  <2> HIDE DEF w
  <2>4. view' = [w EXCEPT ![r] = [w[r] EXCEPT !.errors = db.errors]]
      BY <2>1
  <2> QED
      BY <1>1, <2>2, <2>3, <2>4
<1>6. ASSUME NEW m, view' = [view EXCEPT ![r].series = SeriesOf(m)]
      PROVE  view' = [view EXCEPT ![r] = [v EXCEPT !.series = SeriesOf(m)]]
    BY <1>6, Zenon DEF v
<1>7. ASSUME ReadRecent(r)
      PROVE  view' = [view EXCEPT ![r] = [v EXCEPT !.recent = Smaller(Len(db.recent), Shown)]]
    BY <1>7, Zenon DEF v, ReadRecent
<1> QED
    BY <1>2, <1>3, <1>4, <1>5, <1>6, <1>7, Zenon DEF v

LEMMA TypesStep == Types /\ [Next]_vars => Types'
<1> SUFFICES ASSUME Types, [Next]_vars PROVE Types'
    OBVIOUS
<1> USE DEF Types
<1>1. ASSUME NEW r \in Requests, Start(r) PROVE Types'
  <2>1. PICK to \in {"intent", "counters", "respond"} : Go(r, "new", to)
      BY <1>1 DEF Start
  <2>2. to \in Stages /\ stage' = [stage EXCEPT ![r] = to]
      BY <2>1 DEF Go, Stages
  <2> QED
      BY <1>1, <2>2, Moved DEF Start, historyVars
<1>2. ASSUME NEW r \in Requests, RecordIntent(r) PROVE Types'
  <2>1. PICK i \in Intents :
           /\ Go(r, "intent", IF i = Quant THEN "dispatch" ELSE "respond")
           /\ \/ db' = [db EXCEPT !.intents[i] = @ + 1] /\ UNCHANGED <<unpaired, faults>>
              \/ Fault /\ unpaired' = unpaired + (IF i = Quant THEN 1 ELSE 0) /\ UNCHANGED db
           /\ UNCHANGED <<now, saved, failed, clock, view, torn>>
      BY <1>2 DEF RecordIntent
  <2>2. PICK to \in Stages : stage' = [stage EXCEPT ![r] = to]
      BY <2>1 DEF Go, Stages
  <2>3. stage' \in [Requests -> Stages] /\ IsFiniteSet(Counting')
      BY <2>2, Moved
  <2>4. db' \in Database
      BY <2>1, IntentCounted
  <2>5. faults' \in 0 .. MaxFaults /\ unpaired' \in Nat
      BY <2>1, BoundsAssumption DEF Fault
  <2> QED
      BY <2>1, <2>3, <2>4, <2>5
<1>3. ASSUME NEW r \in Requests, CountDispatch(r) PROVE Types'
  <2>1. stage' = [stage EXCEPT ![r] = "accepted"] /\ "accepted" \in Stages
      BY <1>3 DEF CountDispatch, Go, Stages
  <2>2. stage' \in [Requests -> Stages] /\ IsFiniteSet(Counting')
      BY <2>1, Moved
  <2>3. db' \in Database
      BY <1>3, TaskCounted DEF CountDispatch
  <2>4. faults' \in 0 .. MaxFaults
      BY <1>3, BoundsAssumption DEF CountDispatch, Fault, NoFault
  <2> QED
      BY <1>3, <2>2, <2>3, <2>4 DEF CountDispatch
<1>4. ASSUME NEW r \in Requests, Raise(r) \/ RecordFails(r) PROVE Types'
  <2>1. stage' = [stage EXCEPT ![r] = "done"] /\ "done" \in Stages /\ Forget(r)
      BY <1>4 DEF Raise, RecordFails, Go, Stages
  <2>2. stage' \in [Requests -> Stages] /\ IsFiniteSet(Counting')
      BY <2>1, Moved
  <2>3. faults' \in 0 .. MaxFaults
      BY <1>4, BoundsAssumption DEF Raise, RecordFails, Fault
  <2> QED
      BY <1>4, <2>1, <2>2, <2>3, Forgotten DEF Raise, RecordFails
<1>5. ASSUME NEW r \in Requests, Respond(r) PROVE Types'
  <2>1. stage' = [stage EXCEPT ![r] = "record"] /\ "record" \in Stages
      BY <1>5 DEF Respond, Stages
  <2>2. stage' \in [Requests -> Stages] /\ IsFiniteSet(Counting')
      BY <2>1, Moved
  <2>3. failed' \in [Requests -> BOOLEAN] /\ clock' \in [Requests -> Minutes]
      BY <1>5 DEF Respond
  <2> QED
      BY <1>5, <2>2, <2>3 DEF Respond, historyVars
<1>6. ASSUME NEW r \in Requests, Record(r) PROVE Types'
  <2>1. stage' = [stage EXCEPT ![r] = "done"] /\ "done" \in Stages /\ Forget(r)
      BY <1>6 DEF Record, Go, Stages
  <2>2. stage' \in [Requests -> Stages] /\ IsFiniteSet(Counting')
      BY <2>1, Moved
  <2>3. db' \in Database
      BY <1>6, RecordedType DEF Record
  <2> QED
      BY <1>6, <2>1, <2>2, <2>3, Forgotten DEF Record, historyVars
<1>7. ASSUME NEW r \in Requests, ReadCounters(r) PROVE Types'
  <2>1. stage' = [stage EXCEPT ![r] = "series"] /\ "series" \in Stages
      BY <1>7 DEF ReadCounters, Go, Stages
  <2>2. stage' \in [Requests -> Stages] /\ IsFiniteSet(Counting')
      BY <2>1, Moved
  <2> DEFINE v == [total |-> db.total, errors |-> db.errors,
                   series |-> view[r].series, recent |-> view[r].recent]
  <2>3. IsView(v)
      BY Fields DEF IsView
  <2>4. view' = [view EXCEPT ![r] = v]
      BY <1>7, SummaryRead
  <2> HIDE DEF v
  <2>5. view' = [s \in Requests |-> view'[s]] /\ \A s \in Requests : IsView(view'[s])
      BY <2>3, <2>4, Viewed
  <2>6. clock' \in [Requests -> Minutes]
      BY <1>7 DEF ReadCounters
  <2> QED
      BY <1>7, <2>2, <2>5, <2>6 DEF ReadCounters, historyVars
<1>8. ASSUME NEW r \in Requests, ReadSeries(r) PROVE Types'
  <2>1. stage' = [stage EXCEPT ![r] = "recent"] /\ "recent" \in Stages
      BY <1>8 DEF ReadSeries, Go, Stages
  <2>2. stage' \in [Requests -> Stages] /\ IsFiniteSet(Counting')
      BY <2>1, Moved
  <2>3. PICK m \in clock[r] .. now : clock' = [clock EXCEPT ![r] = m]
                                     /\ view' = [view EXCEPT ![r].series = SeriesOf(m)]
      BY <1>8 DEF ReadSeries
  <2> DEFINE v == [total |-> view[r].total, errors |-> view[r].errors,
                   series |-> SeriesOf(m), recent |-> view[r].recent]
  <2>4. IsView(v)
      BY DEF IsView
  <2>5. view' = [view EXCEPT ![r] = v]
      BY <2>3, SummaryRead
  <2> HIDE DEF v
  <2>6. view' = [s \in Requests |-> view'[s]] /\ \A s \in Requests : IsView(view'[s])
      BY <2>4, <2>5, Viewed
  <2>7. clock' \in [Requests -> Minutes]
    <3>1. m \in Minutes
        BY BoundsAssumption DEF Minutes
    <3> QED
        BY <2>3, <3>1
  <2> QED
      BY <1>8, <2>2, <2>6, <2>7 DEF ReadSeries, historyVars
<1>9. ASSUME NEW r \in Requests, ReadRecent(r) PROVE Types'
  <2>1. stage' = [stage EXCEPT ![r] = "tasks"] /\ "tasks" \in Stages
      BY <1>9 DEF ReadRecent, Go, Stages
  <2>2. stage' \in [Requests -> Stages] /\ IsFiniteSet(Counting')
      BY <2>1, Moved
  <2> DEFINE v == [total |-> view[r].total, errors |-> view[r].errors, series |-> view[r].series,
                   recent |-> Smaller(Len(db.recent), Shown)]
  <2>3. IsView(v)
    <3>1. Len(db.recent) \in Nat
        BY Fields
    <3> QED
        BY <3>1, RecentAssumption DEF IsView, Smaller
  <2>4. view' = [view EXCEPT ![r] = v]
      BY <1>9, SummaryRead
  <2> HIDE DEF v
  <2>5. view' = [s \in Requests |-> view'[s]] /\ \A s \in Requests : IsView(view'[s])
      BY <2>3, <2>4, Viewed
  <2> QED
      BY <1>9, <2>2, <2>5 DEF ReadRecent, historyVars
<1>10. ASSUME NEW r \in Requests, ReadTasks(r) PROVE Types'
  <2>1. stage' = [stage EXCEPT ![r] = "respond"] /\ "respond" \in Stages /\ Forget(r)
      BY <1>10 DEF ReadTasks, Go, Stages
  <2>2. stage' \in [Requests -> Stages] /\ IsFiniteSet(Counting')
      BY <2>1, Moved
  <2> QED
      BY <1>10, <2>1, <2>2, Forgotten DEF ReadTasks, historyVars
<1>11. CASE Tick
    BY <1>11, BoundsAssumption DEF Tick, requestVars, historyVars, Minutes, Counting
<1>12. CASE SaveSnapshot
    BY <1>12 DEF SaveSnapshot, requestVars, historyVars, Counting
<1>13. CASE RedisCrash
  <2>1. unpaired' \in Nat /\ faults' \in 0 .. MaxFaults
      BY <1>13, FS_CardinalityType, BoundsAssumption DEF RedisCrash, Fault
  <2> QED
      BY <1>13, <2>1 DEF RedisCrash, requestVars, Counting, Reading
<1>14. CASE UNCHANGED vars
    BY <1>14 DEF vars, Counting
<1> HIDE DEF Types
<1> QED
    BY <1>1, <1>2, <1>3, <1>4, <1>5, <1>6, <1>7, <1>8, <1>9, <1>10, <1>11, <1>12, <1>13, <1>14
       DEF Next, Summarise

----------------------------------------------------------------------------
(* The inductive invariant.                                                *)

\* The counters d, whichever of them is in use or saved, at minute t: the list
\* and the buckets go with the totals, and a bucket that counts anything outlives
\* every reader of its minute.
Tally(d, t) ==
    /\ Len(d.recent) = Smaller(d.total, RecentMax)
    /\ Errors(d.recent) <= d.errors
    /\ d.total - d.errors >= Len(d.recent) - Errors(d.recent)
    /\ SumOver(d.rpm, Minutes) = d.total
    /\ \A m \in Minutes : d.rpm[m] > 0 => m <= t /\ m + RpmTtl <= d.until[m]

\* A request uses a clock that is at most MaxLag minutes late.
ClockInv(r) ==
    /\ clock[r] <= now
    /\ stage[r] \in {"series", "record"} => now - clock[r] <= MaxLag

UpTo(m) == {k \in Minutes : k <= m}

\* What the series of r counts.
Seen(r) == SumOver(view[r].series, DOMAIN view[r].series)

\* A summary during which Redis did not restart: what it read so far lies between
\* its total and the total in Redis.
ViewInv(r) ==
    /\ view[r].errors <= view[r].total
    /\ stage[r] = "series" => view[r].total <= SumOver(db.rpm, UpTo(clock[r]))
    /\ stage[r] \in {"recent", "tasks"} =>
          /\ Seen(r) \in Nat
          /\ view[r].total <= Seen(r) + Older(r)
          /\ Seen(r) + Older(r) <= db.total
    /\ stage[r] = "tasks" => view[r].recent >= Smaller(view[r].total, Shown)

\* No more tasks than queries for them, those being counted included.
PairInv ==
    /\ db.dispatched + Cardinality(Counting) <= db.intents[Quant] + unpaired
    /\ saved.dispatched <= saved.intents[Quant] + unpaired

Inv ==
    /\ Types
    /\ Tally(db, now) /\ Tally(saved, now)
    /\ PairInv
    /\ \A r \in Requests :
          /\ ClockInv(r)
          /\ stage[r] \notin {"series", "recent", "tasks"} => view[r] = NoView
          /\ r \notin torn => ViewInv(r)

----------------------------------------------------------------------------
(* Sums over the buckets.                                                  *)

LEMMA BucketSums ==
    ASSUME NEW d \in Database
    PROVE  /\ \A S \in SUBSET Minutes : SumOver(d.rpm, S) \in Nat
           /\ \A S \in SUBSET Minutes : SumOver(d.rpm, S) <= SumOver(d.rpm, Minutes)
           /\ \A S, T \in SUBSET Minutes : S \subseteq T => SumOver(d.rpm, S) <= SumOver(d.rpm, T)
<1>1. ASSUME NEW T \in SUBSET Minutes, NEW S \in SUBSET T
      PROVE  SumOver(d.rpm, S) \in Nat /\ SumOver(d.rpm, S) <= SumOver(d.rpm, T)
  <2>1. IsFiniteSet(T) /\ \A x \in T : d.rpm[x] \in Nat
      BY MinutesFinite, Fields
  <2> QED
      BY <2>1, SumSplit
<1> QED
    BY <1>1

\* Every request that is counted came in a minute that is not in the future.
LEMMA TotalUpToNow ==
    ASSUME NEW d \in Database, NEW t \in Minutes, Tally(d, t)
    PROVE  SumOver(d.rpm, UpTo(t)) = d.total
<1>1. UpTo(t) \in SUBSET Minutes
    BY DEF UpTo
<1>2. \A x \in Minutes : d.rpm[x] \in Nat
    BY Fields
<1>3. IsFiniteSet(Minutes) /\ IsFiniteSet(Minutes \ UpTo(t))
    BY MinutesFinite
<1>4. \A m \in Minutes \ UpTo(t) : d.rpm[m] = 0
    BY <1>2 DEF Tally, UpTo
<1>5. SumOver(d.rpm, Minutes \ UpTo(t)) = 0
    BY <1>3, <1>4, SumZero
<1>6. /\ SumOver(d.rpm, Minutes) = SumOver(d.rpm, UpTo(t)) + SumOver(d.rpm, Minutes \ UpTo(t))
      /\ SumOver(d.rpm, UpTo(t)) \in Nat
    BY <1>1, <1>2, <1>3, SumSplit
<1> QED
    BY <1>5, <1>6 DEF Tally

\* The buckets of a window that is at most MaxLag minutes late have not expired:
\* with the requests before the window, its series counts all up to its last minute.
LEMMA SeriesCounts ==
    ASSUME NEW c \in Minutes, NEW m \in c .. now, now \in Minutes, now - c <= MaxLag,
           db \in Database, Tally(db, now)
    PROVE  LET s == SeriesOf(m)
               n == SumOver(s, DOMAIN s)
           IN  /\ n \in Nat
               /\ n + SumOver(db.rpm, {k \in Minutes : k <= m - Window})
                    = SumOver(db.rpm, UpTo(m))
<1> DEFINE s == SeriesOf(m)
           D == (m - Window + 1) .. m
           In == D \intersect Minutes
           Before == {k \in Minutes : k <= m - Window}
<1>1. m \in Int /\ Window \in Nat \ {0} /\ MaxLag \in Nat /\ RpmTtl \in Nat
      /\ RpmTtl >= Window + MaxLag /\ m <= now /\ c <= m /\ now \in Nat /\ c \in Nat
    BY TtlAssumption, BoundsAssumption DEF Minutes
<1>2. s = [k \in D |-> Bucket(k)]
    BY DEF SeriesOf
<1>3. \A k \in Minutes : k \in Nat /\ db.rpm[k] \in Nat /\ db.until[k] \in Nat
    BY Fields, BoundsAssumption DEF Minutes
<1>4. \A k \in In : s[k] = db.rpm[k]
  <2> SUFFICES ASSUME NEW k \in In PROVE Bucket(k) = db.rpm[k]
      BY <1>2
  <2>1. CASE db.rpm[k] = 0
      BY <1>3, <2>1 DEF Bucket
  <2>2. CASE db.rpm[k] > 0
    <3>1. k + RpmTtl <= db.until[k]
        BY <2>2 DEF Tally
    <3>2. k \in Int /\ k >= m - Window + 1
        BY <1>1
    <3>3. now < db.until[k]
        BY <1>1, <1>3, <3>1, <3>2
    <3> QED
        BY <3>3 DEF Bucket
  <2> QED
      BY <1>3, <2>1, <2>2
<1>5. \A k \in D \ In : s[k] = 0
    BY <1>2 DEF Bucket
<1>6. IsFiniteSet(D) /\ IsFiniteSet(In) /\ IsFiniteSet(D \ In)
  <2>1. IsFiniteSet(D)
      BY <1>1, FS_Interval
  <2> QED
      BY <2>1, FS_Subset
<1>7. \A k \in D : s[k] \in Nat
    BY <1>3, <1>4, <1>5
<1> HIDE DEF s
<1>8. SumOver(s, D) = SumOver(s, In)
  <2>1. SumOver(s, D \ In) = 0
      BY <1>5, <1>6, SumZero
  <2>2. In \union (D \ In) = D /\ In \intersect (D \ In) = {}
      OBVIOUS
  <2> HIDE DEF D, In
  <2>3. SumOver(s, In) \in Nat
      BY <1>6, <1>7, <2>2, SumType
  <2>4. SumOver(s, In \union (D \ In)) = SumOver(s, In) + SumOver(s, D \ In)
    <3>1. \A x \in In \union (D \ In) : s[x] \in Nat
        BY <1>7, <2>2
    <3>2. In \intersect (D \ In) = {}
        OBVIOUS
    <3> QED
        BY ONLY <1>6, <3>1, <3>2, SumUnion
  <2>5. SumOver(s, D) = SumOver(s, In) + SumOver(s, D \ In)
      BY <2>2, <2>4, Zenon
  <2> QED
      BY <2>1, <2>3, <2>5
<1>9. SumOver(s, In) = SumOver(db.rpm, In)
  <2>1. \A k \in In : s[k] = db.rpm[k] /\ s[k] \in Nat
      BY <1>4, <1>7
  <2> QED
      BY <1>6, <2>1, SumSame
<1>10. UpTo(m) = In \union Before /\ In \intersect Before = {}
  <2>1. ASSUME NEW k \in Minutes
        PROVE  /\ k \in UpTo(m) <=> k \in D \/ k <= m - Window
               /\ ~(k \in D /\ k <= m - Window)
      BY <1>1, <1>3 DEF UpTo
  <2>2. UpTo(m) \subseteq Minutes
      BY DEF UpTo
  <2> HIDE DEF D
  <2> QED
      BY <2>1, <2>2
<1>11. SumOver(db.rpm, In \union Before) = SumOver(db.rpm, In) + SumOver(db.rpm, Before)
  <2>1. IsFiniteSet(Before) /\ IsFiniteSet(In) /\ In \subseteq Minutes /\ Before \subseteq Minutes
      BY MinutesFinite
  <2>2. \A x \in In \union Before : db.rpm[x] \in Nat
      BY <1>3
  <2> HIDE DEF In, Before
  <2> QED
      BY <1>10, <2>1, <2>2, SumUnion
<1>12. SumOver(db.rpm, In) \in Nat
  <2>1. In \in SUBSET Minutes
      OBVIOUS
  <2> QED
      BY <2>1, BucketSums
<1>13. DOMAIN s = D
    BY <1>2
<1> QED
    BY <1>8, <1>9, <1>10, <1>11, <1>12, <1>13 DEF s

----------------------------------------------------------------------------
(* Recording a request.                                                    *)

\* What Record does to the buckets: one more in the minute of the request.
LEMMA RecordedSums ==
    ASSUME Types, Tally(db, now), NEW r \in Requests, ClockInv(r), stage[r] = "record"
    PROVE  /\ Bucket(clock[r]) = db.rpm[clock[r]]
           /\ \A S \in SUBSET Minutes :
                 SumOver(Recorded(r).rpm, S)
                    = SumOver(db.rpm, S) + (IF clock[r] \in S THEN 1 ELSE 0)
<1> DEFINE m == clock[r]
           f == db.rpm
           g == Recorded(r).rpm
<1>1. m \in Minutes /\ f \in [Minutes -> Nat] /\ db.until[m] \in Nat /\ now \in Nat /\ m \in Nat
    BY Fields, BoundsAssumption DEF Types, Minutes
<1>2. Bucket(m) = f[m]
  <2>1. CASE f[m] = 0
      BY <2>1 DEF Bucket
  <2>2. CASE f[m] > 0
    <3>1. m + RpmTtl <= db.until[m]
        BY <1>1, <2>2 DEF Tally
    <3>2. now - m <= MaxLag
        BY DEF ClockInv
    <3>3. now < db.until[m]
        BY <1>1, <3>1, <3>2, TtlAssumption
    <3> QED
        BY <1>1, <3>3 DEF Bucket
  <2> QED
      BY <1>1, <2>1, <2>2
<1>3. g = [f EXCEPT ![m] = f[m] + 1]
    BY <1>2, RecordedType
<1> HIDE DEF m, f, g
<1>4. ASSUME NEW S \in SUBSET Minutes
      PROVE  SumOver(g, S) = SumOver(f, S) + (IF m \in S THEN 1 ELSE 0)
  <2>1. IsFiniteSet(S) /\ \A x \in S : f[x] \in Nat
      BY <1>1, MinutesFinite
  <2>2. \A x \in S : g[x] = IF x = m THEN f[m] + 1 ELSE f[x]
      BY <1>1, <1>3
  <2>3. CASE m \in S
    <3>1. SumOver(g, S) = SumOver(f, S) + 1
        BY <2>1, <2>2, <2>3, SumBump
    <3> QED
        BY <2>3, <3>1
  <2>4. CASE m \notin S
    <3>1. \A x \in S : f[x] = g[x] /\ f[x] \in Nat
        BY <2>1, <2>2, <2>4
    <3>2. SumOver(f, S) = SumOver(g, S)
        BY <2>1, <3>1, SumSame
    <3>3. SumOver(f, S) \in Nat
        BY <2>1, SumType
    <3> QED
        BY <2>4, <3>2, <3>3
  <2> QED
      BY <2>3, <2>4
<1> QED
    BY <1>2, <1>4 DEF m, f, g

LEMMA RecordedTally ==
    ASSUME Types, Tally(db, now), NEW r \in Requests, ClockInv(r), stage[r] = "record"
    PROVE  Tally(Recorded(r), now)
<1> DEFINE d == Recorded(r)
           e == failed[r]
           p == Pushed(db.recent, e)
<1>1. db.recent \in Seq(BOOLEAN) /\ e \in BOOLEAN /\ db.total \in Nat /\ db.errors \in Nat
    BY Fields DEF Types
<1>2. /\ d.total = db.total + 1
      /\ d.errors = (IF e THEN db.errors + 1 ELSE db.errors)
      /\ d.recent = p
    BY RecordedType, Zenon
<1>3. /\ p \in Seq(BOOLEAN) /\ Len(p) = Smaller(Len(db.recent) + 1, RecentMax)
      /\ \A b \in BOOLEAN :
            /\ e = b => Count(p, b) <= Count(db.recent, b) + 1
            /\ e # b => Count(p, b) <= Count(db.recent, b)
    BY <1>1, PushedType, PushedCount
<1>4. /\ Errors(p) = Count(p, TRUE) /\ Errors(db.recent) = Count(db.recent, TRUE)
      /\ Count(p, TRUE) \in Nat /\ Count(p, FALSE) \in Nat
      /\ Count(db.recent, TRUE) \in Nat /\ Count(db.recent, FALSE) \in Nat
      /\ Len(p) = Count(p, TRUE) + Count(p, FALSE)
      /\ Len(db.recent) = Count(db.recent, TRUE) + Count(db.recent, FALSE)
    BY <1>1, <1>3, CountSplit
<1>5. /\ Len(db.recent) = Smaller(db.total, RecentMax)
      /\ Errors(db.recent) <= db.errors
      /\ db.total - db.errors >= Len(db.recent) - Errors(db.recent)
    BY DEF Tally
<1> DEFINE y0 == Count(db.recent, TRUE)
           n0 == Count(db.recent, FALSE)
           y1 == Count(p, TRUE)
           n1 == Count(p, FALSE)
<1> HIDE DEF d, e, p, y0, n0, y1, n1
<1>6. Len(p) = Smaller(db.total + 1, RecentMax)
    BY <1>1, <1>3, <1>5, RecentAssumption DEF Smaller
<1>7. /\ Errors(p) <= d.errors
      /\ d.total - d.errors >= Len(p) - Errors(p)
  <2>0. /\ Errors(p) = y1 /\ Errors(db.recent) = y0
        /\ y0 \in Nat /\ n0 \in Nat /\ y1 \in Nat /\ n1 \in Nat
        /\ Len(p) = y1 + n1 /\ Len(db.recent) = y0 + n0
      BY <1>4, Zenon DEF y0, n0, y1, n1
  <2>1. CASE e = TRUE
    <3>1. d.errors = db.errors + 1
        BY <1>2, <2>1, Zenon
    <3>2. y1 <= y0 + 1 /\ n1 <= n0
        BY <1>3, <2>1, Zenon DEF y0, n0, y1, n1
    <3> QED
        BY <1>1, <1>2, <1>5, <2>0, <3>1, <3>2
  <2>2. CASE e = FALSE
    <3>1. d.errors = db.errors
        BY <1>2, <2>2, Zenon
    <3>2. y1 <= y0 /\ n1 <= n0 + 1
        BY <1>3, <2>2, Zenon DEF y0, n0, y1, n1
    <3> QED
        BY <1>1, <1>2, <1>5, <2>0, <3>1, <3>2
  <2> QED
      BY <1>1, <2>1, <2>2
<1>8. SumOver(d.rpm, Minutes) = d.total
  <2>1. clock[r] \in Minutes
      BY DEF Types
  <2>2. SumOver(d.rpm, Minutes) = SumOver(db.rpm, Minutes) + (IF clock[r] \in Minutes THEN 1 ELSE 0)
      BY RecordedSums DEF d
  <2> QED
      BY <1>2, <2>1, <2>2 DEF Tally
<1>9. ASSUME NEW m \in Minutes, d.rpm[m] > 0
      PROVE  m <= now /\ m + RpmTtl <= d.until[m]
  <2>1. /\ db.rpm \in [Minutes -> Nat] /\ db.until \in [Minutes -> Nat]
        /\ clock[r] \in Minutes
      BY Fields DEF Types
  <2>2. /\ d.rpm = [db.rpm EXCEPT ![clock[r]] = Bucket(clock[r]) + 1]
        /\ d.until = [db.until EXCEPT ![clock[r]] = now + RpmTtl]
      BY RecordedType DEF d
  <2>3. CASE m = clock[r]
    <3>1. d.until[m] = now + RpmTtl /\ m <= now
        BY <2>1, <2>2, <2>3 DEF ClockInv
    <3>2. m \in Nat /\ now \in Nat /\ RpmTtl \in Nat
        BY BoundsAssumption, TtlAssumption DEF Types, Minutes
    <3> QED
        BY <3>1, <3>2
  <2>4. CASE m # clock[r]
    <3>1. d.rpm[m] = db.rpm[m] /\ d.until[m] = db.until[m]
        BY <2>1, <2>2, <2>4
    <3> QED
        BY <1>9, <3>1 DEF Tally
  <2> QED
      BY <2>3, <2>4
<1> QED
    BY <1>2, <1>6, <1>7, <1>8, <1>9 DEF Tally, d

----------------------------------------------------------------------------
(* The steps of one request.                                               *)

\* Requests are counted, none is taken back.
Growth ==
    \A S \in SUBSET Minutes :
        /\ SumOver(db.rpm, S) <= SumOver(db'.rpm, S)
        /\ SumOver(db'.rpm, S) - SumOver(db.rpm, S) <= db'.total - db.total

LEMMA NothingCounted ==
    ASSUME Types, db'.rpm = db.rpm, db'.total = db.total
    PROVE  Growth
<1>1. db.total \in Nat /\ \A S \in SUBSET Minutes : SumOver(db.rpm, S) \in Nat
    BY BucketSums, Fields DEF Types
<1> QED
    BY <1>1 DEF Growth

LEMMA RecordedGrowth ==
    ASSUME Types, Tally(db, now), NEW r \in Requests, ClockInv(r), stage[r] = "record",
           db' = Recorded(r)
    PROVE  Growth
<1>1. db.total \in Nat /\ \A S \in SUBSET Minutes : SumOver(db.rpm, S) \in Nat
    BY BucketSums, Fields DEF Types
<1>2. db'.total = db.total + 1
    BY RecordedType
<1>3. \A S \in SUBSET Minutes :
         SumOver(db'.rpm, S) = SumOver(db.rpm, S) + (IF clock[r] \in S THEN 1 ELSE 0)
    BY RecordedSums
<1> QED
    BY <1>1, <1>2, <1>3 DEF Growth

\* What holds of a summary survives the requests that are counted during it.
LEMMA ViewKept ==
    ASSUME Types, Types', NEW r \in Requests, Growth, ViewInv(r),
           stage'[r] = stage[r], clock'[r] = clock[r], view'[r] = view[r]
    PROVE  ViewInv(r)'
<1> DEFINE Early == {m \in Minutes : m <= clock[r] - Window}
           Sum(S) == SumOver(db.rpm, S)
           Sum1(S) == SumOver(db'.rpm, S)
<1>1. Early \in SUBSET Minutes /\ UpTo(clock[r]) \in SUBSET Minutes
    BY DEF UpTo
<1>2. \A S \in SUBSET Minutes : Sum(S) \in Nat /\ Sum1(S) \in Nat
    BY BucketSums DEF Types
<1>3. db.total \in Nat /\ db'.total \in Nat /\ view[r].total \in Nat
    BY Fields DEF Types, IsView
<1>4. \A S \in SUBSET Minutes : Sum(S) <= Sum1(S) /\ Sum1(S) - Sum(S) <= db'.total - db.total
    BY DEF Growth
<1>5. /\ Older(r) = Sum(Early) /\ Older(r)' = Sum1(Early)
      /\ Seen(r)' = Seen(r) /\ UpTo(clock[r])' = UpTo(clock[r])
    BY DEF Older, Seen, UpTo
<1>6. /\ Older(r) \in Nat /\ Older(r)' \in Nat
      /\ Older(r) <= Older(r)' /\ Older(r)' - Older(r) <= db'.total - db.total
  <2> HIDE DEF Early, Sum, Sum1
  <2> QED
      BY <1>1, <1>2, <1>4, <1>5
<1>7. /\ Sum(UpTo(clock[r])) \in Nat /\ Sum1(UpTo(clock[r])) \in Nat
      /\ Sum(UpTo(clock[r])) <= Sum1(UpTo(clock[r]))
  <2> HIDE DEF Sum, Sum1
  <2> QED
      BY <1>1, <1>2, <1>4
<1>8. ASSUME stage[r] = "series"
      PROVE  view[r].total <= Sum1(UpTo(clock[r]))
  <2>1. view[r].total <= Sum(UpTo(clock[r]))
      BY <1>8 DEF ViewInv
  <2> HIDE DEF Sum, Sum1
  <2> QED
      BY <1>3, <1>7, <2>1
<1>9. ASSUME stage[r] \in {"recent", "tasks"}
      PROVE  /\ Seen(r) \in Nat
             /\ view[r].total <= Seen(r) + Older(r)'
             /\ Seen(r) + Older(r)' <= db'.total
  <2>1. Seen(r) \in Nat /\ view[r].total <= Seen(r) + Older(r) /\ Seen(r) + Older(r) <= db.total
      BY <1>9 DEF ViewInv
  <2> QED
      BY <1>3, <1>6, <2>1
<1> HIDE DEF Early
<1> QED
    BY <1>5, <1>8, <1>9 DEF ViewInv

LEMMA PairKept ==
    ASSUME Types, Types', PairInv, Counting' \subseteq Counting, saved' = saved,
           db'.dispatched = db.dispatched, db'.intents = db.intents, unpaired' = unpaired
    PROVE  PairInv'
<1>1. IsFiniteSet(Counting)
    BY DEF Types
<1>2. /\ Cardinality(Counting) \in Nat /\ Cardinality(Counting') \in Nat
      /\ Cardinality(Counting') <= Cardinality(Counting)
    BY <1>1, FS_Subset, FS_CardinalityType
<1>3. db.dispatched \in Nat /\ db.intents[Quant] \in Nat /\ unpaired \in Nat
    BY Fields, IntentsAssumption DEF Types
<1> QED
    BY <1>2, <1>3 DEF PairInv

LEMMA RequestStep ==
    ASSUME Inv, Types', NEW r \in Requests, now' = now, saved' = saved, torn' = torn,
           \A s \in Requests \ {r} : /\ stage'[s] = stage[s] /\ clock'[s] = clock[s]
                                     /\ view'[s] = view[s],
           Growth, Tally(db, now)', PairInv', ClockInv(r)',
           stage'[r] \notin {"series", "recent", "tasks"} => view'[r] = NoView,
           r \notin torn => ViewInv(r)'
    PROVE  Inv'
<1>1. ASSUME NEW s \in Requests \ {r}
      PROVE  /\ ClockInv(s)'
             /\ stage'[s] \notin {"series", "recent", "tasks"} => view'[s] = NoView
             /\ s \notin torn => ViewInv(s)'
  <2>1. ClockInv(s)'
      BY DEF ClockInv, Inv
  <2>2. stage'[s] \notin {"series", "recent", "tasks"} => view'[s] = NoView
      BY DEF Inv
  <2>3. ASSUME s \notin torn PROVE ViewInv(s)'
    <3>1. ViewInv(s) /\ Types
        BY <2>3 DEF Inv
    <3> QED
        BY <3>1, ViewKept
  <2> QED
      BY <2>1, <2>2, <2>3
<1>2. Tally(saved, now)'
    BY DEF Inv
<1>3. \A s \in Requests :
         /\ ClockInv(s)'
         /\ stage'[s] \notin {"series", "recent", "tasks"} => view'[s] = NoView
         /\ s \notin torn' => ViewInv(s)'
    BY <1>1
<1> QED
    BY <1>2, <1>3 DEF Inv

LEMMA TallyKept ==
    ASSUME NEW d, NEW e, NEW t \in Minutes, NEW u \in Minutes, t <= u, Tally(d, t),
           e.total = d.total, e.errors = d.errors, e.recent = d.recent,
           e.rpm = d.rpm, e.until = d.until
    PROVE  Tally(e, u)
<1>1. \A m \in Minutes : m <= t => m <= u
    BY BoundsAssumption DEF Minutes
<1> QED
    BY <1>1 DEF Tally

\* A call that leaves the keys alone, or moves only the two counters of tasks.
LEMMA SameTally ==
    ASSUME Inv, now' = now,
           db'.total = db.total, db'.errors = db.errors, db'.recent = db.recent,
           db'.rpm = db.rpm, db'.until = db.until
    PROVE  Tally(db, now)'
<1>1. now \in Minutes /\ now <= now
    BY BoundsAssumption DEF Inv, Types, Minutes
<1> QED
    BY <1>1, TallyKept DEF Inv

LEMMA StartStep ==
    ASSUME Inv, Types', NEW r \in Requests, Start(r) PROVE Inv'
<1>1. Types
    BY DEF Inv
<1>2. PICK to \in {"intent", "counters", "respond"} : Go(r, "new", to)
    BY DEF Start
<1>3. to \in Stages /\ stage[r] = "new" /\ stage' = [stage EXCEPT ![r] = to]
    BY <1>2 DEF Go, Stages
<1>4. /\ stage'[r] = to /\ \A s \in Requests \ {r} : stage'[s] = stage[s]
      /\ Counting' \subseteq Counting
    BY <1>1, <1>2, <1>3, Moved
<1>5. Growth /\ Tally(db, now)'
    BY <1>1, NothingCounted, SameTally DEF Start
<1>6. PairInv'
    BY <1>1, <1>4, PairKept DEF Start, Inv, historyVars
<1>7. ClockInv(r)'
    BY <1>2, <1>4 DEF Start, Inv, ClockInv
<1>8. view'[r] = NoView
    BY <1>3 DEF Start, Inv
<1>9. ViewInv(r)'
    BY <1>2, <1>4, <1>8 DEF ViewInv, NoView
<1> QED
    BY <1>4, <1>5, <1>6, <1>7, <1>8, <1>9, RequestStep DEF Start, historyVars

LEMMA RecordIntentStep ==
    ASSUME Inv, Types', NEW r \in Requests, RecordIntent(r) PROVE Inv'
<1>1. Types
    BY DEF Inv
<1>2. PICK i \in Intents :
         /\ Go(r, "intent", IF i = Quant THEN "dispatch" ELSE "respond")
         /\ \/ db' = [db EXCEPT !.intents[i] = @ + 1] /\ UNCHANGED <<unpaired, faults>>
            \/ Fault /\ unpaired' = unpaired + (IF i = Quant THEN 1 ELSE 0) /\ UNCHANGED db
         /\ UNCHANGED <<now, saved, failed, clock, view, torn>>
    BY DEF RecordIntent
<1> DEFINE to == IF i = Quant THEN "dispatch" ELSE "respond"
<1>3. to \in Stages /\ stage[r] = "intent" /\ stage' = [stage EXCEPT ![r] = to]
    BY <1>2 DEF Go, Stages
<1>4. /\ stage'[r] = to /\ \A s \in Requests \ {r} : stage'[s] = stage[s]
      /\ Counting' = IF to = "dispatch" THEN Counting \union {r} ELSE Counting \ {r}
    BY <1>1, <1>3, Moved
<1>5. /\ db'.total = db.total /\ db'.errors = db.errors /\ db'.recent = db.recent
      /\ db'.rpm = db.rpm /\ db'.until = db.until /\ db'.dispatched = db.dispatched
    BY <1>1, <1>2, IntentCounted
<1>6. Growth /\ Tally(db, now)'
    BY <1>1, <1>2, <1>5, NothingCounted, SameTally
<1>7. PairInv'
  <2>1. /\ IsFiniteSet(Counting) /\ Cardinality(Counting) \in Nat /\ r \notin Counting
        /\ db.dispatched \in Nat /\ db.intents \in [Intents -> Nat] /\ unpaired \in Nat
      BY <1>1, <1>3, Fields, FS_CardinalityType DEF Types, Counting
  <2>2. PairInv
      BY DEF Inv
  <2>3. CASE i = Quant
    <3>1. Cardinality(Counting') = Cardinality(Counting) + 1
        BY <1>4, <2>1, <2>3, FS_AddElement
    <3>2. db'.intents[Quant] + unpaired' = db.intents[Quant] + unpaired + 1
      <4>1. CASE db' = [db EXCEPT !.intents[i] = @ + 1] /\ UNCHANGED <<unpaired, faults>>
        <5>1. db'.intents = [db.intents EXCEPT ![i] = @ + 1]
            BY <1>1, <4>1, IntentCounted
        <5> QED
            BY <2>1, <2>3, <4>1, <5>1
      <4>2. CASE unpaired' = unpaired + (IF i = Quant THEN 1 ELSE 0) /\ UNCHANGED db
          BY <2>1, <2>3, <4>2
      <4> QED
          BY <1>2, <4>1, <4>2
    <3>3. saved'.dispatched <= saved'.intents[Quant] + unpaired'
      <4>1. unpaired' >= unpaired /\ unpaired' \in Nat
          BY <1>2, <2>1
      <4>2. saved.dispatched \in Nat /\ saved.intents[Quant] \in Nat
          BY <1>1, Fields, IntentsAssumption DEF Types
      <4>3. saved' = saved
          BY <1>2
      <4> QED
          BY <2>1, <2>2, <4>1, <4>2, <4>3 DEF PairInv
    <3> QED
        BY <1>5, <2>1, <2>2, <3>1, <3>2, <3>3, IntentsAssumption DEF PairInv
  <2>4. CASE i # Quant
    <3>1. Counting' \subseteq Counting
        BY <1>4, <2>4
    <3>2. unpaired' = unpaired
        BY <1>2, <2>1, <2>4
    <3>3. db'.intents[Quant] = db.intents[Quant]
      <4>1. CASE db' = [db EXCEPT !.intents[i] = @ + 1] /\ UNCHANGED <<unpaired, faults>>
        <5>1. db'.intents = [db.intents EXCEPT ![i] = @ + 1]
            BY <1>1, <4>1, IntentCounted
        <5> QED
            BY <2>1, <2>4, <5>1, IntentsAssumption
      <4> QED
          BY <1>2, <4>1
    <3>4. Cardinality(Counting') \in Nat /\ Cardinality(Counting') <= Cardinality(Counting)
        BY <2>1, <3>1, FS_Subset, FS_CardinalityType
    <3> QED
        BY <1>2, <1>5, <2>1, <2>2, <3>2, <3>3, <3>4, IntentsAssumption DEF PairInv
  <2> QED
      BY <2>3, <2>4
<1>8. ClockInv(r)'
    BY <1>2, <1>4 DEF Inv, ClockInv
<1>9. view'[r] = NoView
    BY <1>2, <1>3 DEF Inv
<1>10. ViewInv(r)'
    BY <1>4, <1>9 DEF ViewInv, NoView
<1> QED
    BY <1>2, <1>4, <1>6, <1>7, <1>8, <1>9, <1>10, RequestStep

LEMMA CountDispatchStep ==
    ASSUME Inv, Types', NEW r \in Requests, CountDispatch(r) PROVE Inv'
<1>1. Types
    BY DEF Inv
<1>2. stage[r] = "dispatch" /\ stage' = [stage EXCEPT ![r] = "accepted"] /\ "accepted" \in Stages
    BY DEF CountDispatch, Go, Stages
<1>3. /\ stage'[r] = "accepted" /\ \A s \in Requests \ {r} : stage'[s] = stage[s]
      /\ Counting' = Counting \ {r}
    BY <1>1, <1>2, Moved
<1>4. /\ db'.total = db.total /\ db'.errors = db.errors /\ db'.recent = db.recent
      /\ db'.rpm = db.rpm /\ db'.until = db.until /\ db'.intents = db.intents
      /\ db'.dispatched \in {db.dispatched, db.dispatched + 1}
    BY <1>1, TaskCounted DEF CountDispatch
<1>5. Growth /\ Tally(db, now)'
    BY <1>1, <1>4, NothingCounted, SameTally DEF CountDispatch
<1>6. PairInv'
  <2>1. /\ IsFiniteSet(Counting) /\ Cardinality(Counting) \in Nat /\ r \in Counting
        /\ db.dispatched \in Nat /\ db.intents[Quant] \in Nat /\ unpaired \in Nat
      BY <1>1, <1>2, Fields, FS_CardinalityType, IntentsAssumption DEF Types, Counting
  <2>2. Cardinality(Counting') = Cardinality(Counting) - 1
      BY <1>3, <2>1, FS_RemoveElement
  <2> QED
      BY <1>4, <2>1, <2>2 DEF PairInv, Inv, CountDispatch
<1>7. ClockInv(r)'
    BY <1>3 DEF CountDispatch, Inv, ClockInv
<1>8. view'[r] = NoView
    BY <1>2 DEF CountDispatch, Inv
<1>9. ViewInv(r)'
    BY <1>3, <1>8 DEF ViewInv, NoView
<1> QED
    BY <1>3, <1>5, <1>6, <1>7, <1>8, <1>9, RequestStep DEF CountDispatch

\* A handler that raises, a recording that fails, a summary that is complete.
LEMMA LeaveStep ==
    ASSUME Inv, Types', NEW r \in Requests, NEW to \in {"respond", "done"},
           stage' = [stage EXCEPT ![r] = to], Forget(r),
           UNCHANGED <<now, db, saved, torn, unpaired>>
    PROVE  Inv'
<1>1. Types /\ to \in Stages
    BY DEF Inv, Stages
<1>2. /\ stage'[r] = to /\ \A s \in Requests \ {r} : stage'[s] = stage[s]
      /\ Counting' \subseteq Counting
    BY <1>1, Moved
<1>3. Growth /\ Tally(db, now)' /\ PairInv'
    BY <1>1, <1>2, NothingCounted, SameTally, PairKept DEF Inv
<1>4. /\ clock'[r] = 0 /\ view'[r] = NoView
      /\ \A s \in Requests \ {r} : clock'[s] = clock[s] /\ view'[s] = view[s]
    BY <1>1, Forgotten
<1>5. ClockInv(r)'
    BY <1>1, <1>2, <1>4, BoundsAssumption DEF ClockInv, Types, Minutes
<1>6. ViewInv(r)'
    BY <1>2, <1>4 DEF ViewInv, NoView
<1> QED
    BY <1>2, <1>3, <1>4, <1>5, <1>6, RequestStep

LEMMA RespondStep ==
    ASSUME Inv, Types', NEW r \in Requests, Respond(r) PROVE Inv'
<1>1. Types
    BY DEF Inv
<1>2. /\ stage[r] \in {"respond", "accepted"}
      /\ stage' = [stage EXCEPT ![r] = "record"] /\ "record" \in Stages
    BY DEF Respond, Stages
<1>3. /\ stage'[r] = "record" /\ \A s \in Requests \ {r} : stage'[s] = stage[s]
      /\ Counting' \subseteq Counting
    BY <1>1, <1>2, Moved
<1>4. Growth /\ Tally(db, now)' /\ PairInv'
    BY <1>1, <1>3, NothingCounted, SameTally, PairKept DEF Respond, Inv, historyVars
<1>5. clock'[r] = now /\ \A s \in Requests \ {r} : clock'[s] = clock[s]
    BY <1>1 DEF Respond, Types
<1>6. ClockInv(r)'
    BY <1>1, <1>5, TtlAssumption, BoundsAssumption DEF ClockInv, Respond, Types, Minutes
<1>7. view'[r] = NoView
    BY <1>2 DEF Respond, Inv
<1>8. ViewInv(r)'
    BY <1>3, <1>7 DEF ViewInv, NoView
<1> QED
    BY <1>3, <1>4, <1>5, <1>6, <1>7, <1>8, RequestStep DEF Respond, historyVars

LEMMA RecordStep ==
    ASSUME Inv, Types', NEW r \in Requests, Record(r) PROVE Inv'
<1>1. Types /\ Tally(db, now) /\ ClockInv(r) /\ "done" \in Stages
    BY DEF Inv, Stages
<1>2. stage[r] = "record" /\ stage' = [stage EXCEPT ![r] = "done"] /\ Forget(r)
    BY DEF Record, Go
<1>3. /\ stage'[r] = "done" /\ \A s \in Requests \ {r} : stage'[s] = stage[s]
      /\ Counting' \subseteq Counting
    BY <1>1, <1>2, Moved
<1>4. db' = Recorded(r) /\ now' = now
    BY DEF Record
<1>5. Growth
    BY <1>1, <1>2, <1>4, RecordedGrowth
<1>6. Tally(db, now)'
    BY <1>1, <1>2, <1>4, RecordedTally
<1>7. PairInv'
  <2>1. db'.dispatched = db.dispatched /\ db'.intents = db.intents
      BY <1>1, <1>4, RecordedType
  <2> QED
      BY <1>1, <1>3, <2>1, PairKept DEF Record, Inv, historyVars
<1>8. /\ clock'[r] = 0 /\ view'[r] = NoView
      /\ \A s \in Requests \ {r} : clock'[s] = clock[s] /\ view'[s] = view[s]
    BY <1>1, <1>2, Forgotten
<1>9. ClockInv(r)'
    BY <1>1, <1>3, <1>4, <1>8, BoundsAssumption DEF ClockInv, Types, Minutes
<1>10. ViewInv(r)'
    BY <1>3, <1>8 DEF ViewInv, NoView
<1> QED
    BY <1>3, <1>5, <1>6, <1>7, <1>8, <1>9, <1>10, RequestStep DEF Record, historyVars

LEMMA ReadCountersStep ==
    ASSUME Inv, Types', NEW r \in Requests, ReadCounters(r) PROVE Inv'
<1>1. Types /\ Tally(db, now)
    BY DEF Inv
<1>2. /\ stage' = [stage EXCEPT ![r] = "series"] /\ "series" \in Stages
      /\ UNCHANGED <<now, db, saved, failed, torn, unpaired>>
    BY DEF ReadCounters, Go, Stages, historyVars
<1>3. /\ stage'[r] = "series" /\ \A s \in Requests \ {r} : stage'[s] = stage[s]
      /\ Counting' \subseteq Counting
    BY <1>1, <1>2, Moved
<1>4. Growth /\ Tally(db, now)' /\ PairInv'
    BY <1>1, <1>2, <1>3, NothingCounted, SameTally, PairKept DEF Inv
<1>5. clock'[r] = now /\ \A s \in Requests \ {r} : clock'[s] = clock[s]
    BY <1>1 DEF ReadCounters, Types
<1>6. ClockInv(r)'
    BY <1>1, <1>2, <1>5, TtlAssumption, BoundsAssumption DEF ClockInv, Types, Minutes
<1>7. /\ view'[r].total = db.total /\ view'[r].errors = db.errors
      /\ \A s \in Requests \ {r} : view'[s] = view[s]
  <2> DEFINE v == [total |-> db.total, errors |-> db.errors,
                   series |-> view[r].series, recent |-> view[r].recent]
  <2>1. IsView(v)
      BY <1>1, Fields DEF IsView, Types
  <2>2. view' = [view EXCEPT ![r] = v]
      BY <1>1, SummaryRead
  <2>3. v.total = db.total /\ v.errors = db.errors
      OBVIOUS
  <2> HIDE DEF v
  <2> QED
      BY <1>1, <2>1, <2>2, <2>3, Viewed
<1>8. db.total = SumOver(db.rpm, UpTo(now))
    BY <1>1, TotalUpToNow DEF Types
<1>9. db.errors <= db.total
  <2>1. db.recent \in Seq(BOOLEAN) /\ db.total \in Nat /\ db.errors \in Nat
      BY <1>1, Fields DEF Types
  <2>2. Errors(db.recent) \in Nat /\ Errors(db.recent) <= Len(db.recent)
      BY <2>1, CountSplit, Zenon
  <2>3. Len(db.recent) \in Nat
      BY <2>1
  <2> QED
      BY <1>1, <2>1, <2>2, <2>3 DEF Tally
<1>10. SumOver(db.rpm, UpTo(clock[r]))' = SumOver(db.rpm, UpTo(now))
    BY <1>2, <1>5 DEF UpTo
<1>11. view'[r].total <= SumOver(db.rpm, UpTo(clock[r]))'
  <2>1. db.total \in Nat
      BY <1>1, Fields DEF Types
  <2>2. SumOver(db.rpm, UpTo(clock[r]))' = db.total
      BY <1>8, <1>10, Zenon
  <2>3. view'[r].total <= db.total
      BY <1>7, <2>1
  <2> QED
      BY <2>2, <2>3, Zenon
<1>12. ViewInv(r)'
    BY <1>3, <1>7, <1>9, <1>11 DEF ViewInv
<1> QED
    BY <1>2, <1>3, <1>4, <1>5, <1>6, <1>7, <1>12, RequestStep

LEMMA ReadSeriesStep ==
    ASSUME Inv, Types', NEW r \in Requests, ReadSeries(r) PROVE Inv'
<1>1. Types /\ Tally(db, now) /\ ClockInv(r) /\ now \in Minutes /\ db \in Database
      /\ clock[r] \in Minutes
    BY DEF Inv, Types
<1>2. /\ stage[r] = "series"
      /\ stage' = [stage EXCEPT ![r] = "recent"] /\ "recent" \in Stages
      /\ UNCHANGED <<now, db, saved, failed, torn, unpaired>>
    BY DEF ReadSeries, Go, Stages, historyVars
<1>3. /\ stage'[r] = "recent" /\ \A s \in Requests \ {r} : stage'[s] = stage[s]
      /\ Counting' \subseteq Counting
    BY <1>1, <1>2, Moved
<1>4. Growth /\ Tally(db, now)' /\ PairInv'
    BY <1>1, <1>2, <1>3, NothingCounted, SameTally, PairKept DEF Inv
<1>5. PICK m \in clock[r] .. now : /\ clock' = [clock EXCEPT ![r] = m]
                                   /\ view' = [view EXCEPT ![r].series = SeriesOf(m)]
    BY DEF ReadSeries
<1>6. clock'[r] = m /\ m <= now /\ \A s \in Requests \ {r} : clock'[s] = clock[s]
    BY <1>1, <1>5, BoundsAssumption DEF Types, Minutes
<1>7. ClockInv(r)'
    BY <1>2, <1>3, <1>6 DEF ClockInv
<1>8. /\ view'[r].total = view[r].total /\ view'[r].errors = view[r].errors
      /\ view'[r].series = SeriesOf(m)
      /\ \A s \in Requests \ {r} : view'[s] = view[s]
  <2> DEFINE v == [total |-> view[r].total, errors |-> view[r].errors,
                   series |-> SeriesOf(m), recent |-> view[r].recent]
  <2>1. IsView(v)
      BY <1>1 DEF IsView, Types
  <2>2. view' = [view EXCEPT ![r] = v]
      BY <1>1, <1>5, SummaryRead
  <2>3. v.total = view[r].total /\ v.errors = view[r].errors /\ v.series = SeriesOf(m)
      OBVIOUS
  <2> HIDE DEF v
  <2> QED
      BY <1>1, <2>1, <2>2, <2>3, Viewed
<1> DEFINE n == SumOver(SeriesOf(m), DOMAIN SeriesOf(m))
           old == SumOver(db.rpm, {k \in Minutes : k <= m - Window})
<1>9. n \in Nat /\ n + old = SumOver(db.rpm, UpTo(m))
  <2>1. now - clock[r] <= MaxLag
      BY <1>1, <1>2 DEF ClockInv
  <2> QED
      BY <1>1, <2>1, SeriesCounts
<1>10. Seen(r)' = n /\ Older(r)' = old
    BY <1>2, <1>6, <1>8 DEF Seen, Older
<1> HIDE DEF n, old
<1>11. ASSUME r \notin torn
       PROVE  view[r].total <= SumOver(db.rpm, UpTo(m)) /\ view[r].errors <= view[r].total
  <2>1. view[r].total <= SumOver(db.rpm, UpTo(clock[r])) /\ view[r].errors <= view[r].total
      BY <1>2, <1>11 DEF Inv, ViewInv
  <2>2. UpTo(clock[r]) \subseteq UpTo(m) /\ UpTo(m) \in SUBSET Minutes
      BY <1>1, <1>5, BoundsAssumption DEF UpTo, Minutes
  <2>3. SumOver(db.rpm, UpTo(clock[r])) <= SumOver(db.rpm, UpTo(m))
        /\ SumOver(db.rpm, UpTo(clock[r])) \in Nat /\ SumOver(db.rpm, UpTo(m)) \in Nat
      BY <1>1, <2>2, BucketSums
  <2>4. view[r].total \in Nat
      BY <1>1 DEF Types, IsView
  <2> QED
      BY <2>1, <2>3, <2>4
<1>12. SumOver(db.rpm, UpTo(m)) <= db.total
  <2>1. UpTo(m) \in SUBSET Minutes
      BY DEF UpTo
  <2> QED
      BY <1>1, <2>1, BucketSums DEF Tally
<1>13. r \notin torn => ViewInv(r)'
    BY <1>2, <1>3, <1>8, <1>9, <1>10, <1>11, <1>12 DEF ViewInv
<1> QED
    BY <1>2, <1>3, <1>4, <1>6, <1>7, <1>8, <1>13, RequestStep

LEMMA ReadRecentStep ==
    ASSUME Inv, Types', NEW r \in Requests, ReadRecent(r) PROVE Inv'
<1>1. Types /\ Tally(db, now)
    BY DEF Inv
<1>2. /\ stage[r] = "recent"
      /\ stage' = [stage EXCEPT ![r] = "tasks"] /\ "tasks" \in Stages
      /\ UNCHANGED <<now, db, saved, failed, clock, torn, unpaired>>
    BY DEF ReadRecent, Go, Stages, historyVars
<1>3. /\ stage'[r] = "tasks" /\ \A s \in Requests \ {r} : stage'[s] = stage[s]
      /\ Counting' \subseteq Counting
    BY <1>1, <1>2, Moved
<1>4. Growth /\ Tally(db, now)' /\ PairInv'
    BY <1>1, <1>2, <1>3, NothingCounted, SameTally, PairKept DEF Inv
<1>5. ClockInv(r)'
    BY <1>2, <1>3 DEF ClockInv, Inv
<1> DEFINE n == Smaller(Len(db.recent), Shown)
<1>6. /\ view'[r].total = view[r].total /\ view'[r].errors = view[r].errors
      /\ view'[r].series = view[r].series /\ view'[r].recent = n
      /\ \A s \in Requests \ {r} : view'[s] = view[s]
  <2> DEFINE v == [total |-> view[r].total, errors |-> view[r].errors,
                   series |-> view[r].series, recent |-> n]
  <2>1. IsView(v)
    <3>1. Len(db.recent) \in Nat
        BY <1>1, Fields DEF Types
    <3>2. n \in 0 .. Shown
        BY <3>1, RecentAssumption DEF Smaller
    <3> HIDE DEF n
    <3> QED
        BY <1>1, <3>2 DEF IsView, Types
  <2>2. view' = [view EXCEPT ![r] = v]
      BY <1>1, SummaryRead
  <2> HIDE DEF n
  <2>3. /\ v.total = view[r].total /\ v.errors = view[r].errors
        /\ v.series = view[r].series /\ v.recent = n
      OBVIOUS
  <2> HIDE DEF v
  <2> QED
      BY <1>1, <2>1, <2>2, <2>3, Viewed
<1>7. Seen(r)' = Seen(r) /\ Older(r)' = Older(r)
    BY <1>2, <1>6 DEF Seen, Older
<1>8. ASSUME r \notin torn
      PROVE  /\ view[r].errors <= view[r].total
             /\ Seen(r) \in Nat
             /\ view[r].total <= Seen(r) + Older(r)
             /\ Seen(r) + Older(r) <= db.total
    BY <1>2, <1>8 DEF Inv, ViewInv
<1>9. ASSUME r \notin torn PROVE n >= Smaller(view[r].total, Shown)
  <2>1. db.total \in Nat /\ view[r].total \in Nat /\ Older(r) \in Nat
    <3>1. {m \in Minutes : m <= clock[r] - Window} \in SUBSET Minutes
        OBVIOUS
    <3> QED
        BY <1>1, <3>1, Fields, BucketSums DEF Types, IsView, Older
  <2>2. view[r].total <= db.total
      BY <1>8, <1>9, <2>1
  <2>3. Len(db.recent) = Smaller(db.total, RecentMax)
      BY <1>1 DEF Tally
  <2> QED
      BY <2>1, <2>2, <2>3, RecentAssumption DEF Smaller
<1> HIDE DEF n
<1>10. r \notin torn => ViewInv(r)'
    BY <1>2, <1>3, <1>6, <1>7, <1>8, <1>9 DEF ViewInv
<1> QED
    BY <1>2, <1>3, <1>4, <1>5, <1>6, <1>10, RequestStep

----------------------------------------------------------------------------
(* The steps of time and of Redis.                                         *)

LEMMA TickStep == ASSUME Inv, Types', Tick PROVE Inv'
<1>1. Types /\ now \in Nat /\ now' = now + 1 /\ now' \in Minutes
    BY BoundsAssumption DEF Inv, Types, Minutes, Tick
<1>2. UNCHANGED <<db, saved, stage, failed, clock, view, torn, unpaired>>
    BY DEF Tick, requestVars, historyVars
<1>3. Tally(db, now)' /\ Tally(saved, now)'
  <2>1. now \in Minutes /\ now <= now'
      BY <1>1 DEF Types
  <2> QED
      BY <1>1, <1>2, <2>1, TallyKept DEF Inv
<1>4. PairInv'
    BY <1>2 DEF Inv, PairInv, Counting
<1>5. ASSUME NEW r \in Requests PROVE ClockInv(r)'
  <2>1. clock[r] \in Nat /\ MaxLag \in Nat /\ clock[r] <= now
      BY <1>1, BoundsAssumption, TtlAssumption DEF Types, Minutes, Inv, ClockInv
  <2>2. stage[r] \in {"series", "record"} => now - clock[r] < MaxLag
      BY DEF Tick
  <2> QED
      BY <1>1, <1>2, <2>1, <2>2 DEF ClockInv
<1>6. ASSUME NEW r \in Requests, r \notin torn PROVE ViewInv(r)'
    BY <1>2, <1>6 DEF Inv, ViewInv, Seen, Older, UpTo
<1> QED
    BY <1>2, <1>3, <1>4, <1>5, <1>6 DEF Inv

LEMMA SaveSnapshotStep == ASSUME Inv, Types', SaveSnapshot PROVE Inv'
<1>1. saved' = db /\ UNCHANGED <<now, db, stage, failed, clock, view, torn, unpaired>>
    BY DEF SaveSnapshot, requestVars, historyVars
<1>2. Tally(db, now)' /\ Tally(saved, now)'
    BY <1>1 DEF Inv
<1>3. PairInv'
  <2>1. Cardinality(Counting) \in Nat /\ db.dispatched \in Nat /\ db.intents[Quant] \in Nat
        /\ unpaired \in Nat
      BY FS_CardinalityType, Fields, IntentsAssumption DEF Inv, Types
  <2>2. Counting' = Counting
      BY <1>1 DEF Counting
  <2> QED
      BY <1>1, <2>1, <2>2 DEF Inv, PairInv
<1>4. ASSUME NEW r \in Requests
      PROVE  ClockInv(r)' /\ (r \notin torn => ViewInv(r)')
    BY <1>1 DEF Inv, ClockInv, ViewInv, Seen, Older, UpTo
<1> QED
    BY <1>1, <1>2, <1>3, <1>4 DEF Inv

LEMMA RedisCrashStep == ASSUME Inv, Types', RedisCrash PROVE Inv'
<1>1. /\ db' = saved /\ torn' = torn \union Reading /\ unpaired' = unpaired + Cardinality(Counting)
      /\ UNCHANGED <<now, saved, stage, failed, clock, view>>
    BY DEF RedisCrash, requestVars
<1>2. Tally(db, now)' /\ Tally(saved, now)'
    BY <1>1 DEF Inv
<1>3. PairInv'
  <2>1. Cardinality(Counting) \in Nat /\ unpaired \in Nat
        /\ saved.dispatched \in Nat /\ saved.intents[Quant] \in Nat
      BY FS_CardinalityType, Fields, IntentsAssumption DEF Inv, Types
  <2>2. Counting' = Counting
      BY <1>1 DEF Counting
  <2> QED
      BY <1>1, <2>1, <2>2 DEF Inv, PairInv
<1>4. ASSUME NEW r \in Requests PROVE ClockInv(r)'
    BY <1>1 DEF Inv, ClockInv
<1>5. ASSUME NEW r \in Requests, r \notin torn' PROVE ViewInv(r)'
  <2>1. stage[r] \notin {"series", "recent", "tasks"}
      BY <1>1, <1>5 DEF Reading
  <2>2. view[r] = NoView
      BY <2>1 DEF Inv
  <2> QED
      BY <1>1, <2>1, <2>2 DEF ViewInv, NoView
<1> QED
    BY <1>1, <1>2, <1>3, <1>4, <1>5 DEF Inv

LEMMA InvInit == Init => Inv
<1> SUFFICES ASSUME Init PROVE Inv
    OBVIOUS
<1>1. Types
    BY InitTypes
<1>2. Tally(EmptyDb, 0)
  <2>1. Errors(<<>>) = 0
    <3>1. {i \in DOMAIN <<>> : <<>>[i]} = {}
        OBVIOUS
    <3> QED
        BY <3>1, FS_EmptySet, Zenon DEF Errors
  <2>2. SumOver(EmptyDb.rpm, Minutes) = 0
    <3>1. \A m \in Minutes : EmptyDb.rpm[m] = 0
        BY DEF EmptyDb
    <3> QED
        BY <3>1, MinutesFinite, SumZero
  <2>3. EmptyDb.total = 0 /\ EmptyDb.errors = 0 /\ EmptyDb.recent = <<>>
        /\ EmptyDb.rpm = [m \in Minutes |-> 0]
      BY DEF EmptyDb
  <2> QED
      BY <2>1, <2>2, <2>3, RecentAssumption DEF Tally, Smaller
<1>3. PairInv
  <2>1. Counting = {}
      BY DEF Init, Counting
  <2>2. Cardinality(Counting) = 0
      BY <2>1, FS_EmptySet
  <2> QED
      BY <2>2, IntentsAssumption DEF Init, PairInv, EmptyDb
<1>4. ASSUME NEW r \in Requests
      PROVE  ClockInv(r) /\ view[r] = NoView /\ ViewInv(r)
    BY TtlAssumption DEF Init, ClockInv, ViewInv, NoView
<1> QED
    BY <1>1, <1>2, <1>3, <1>4 DEF Init, Inv

LEMMA InvStep == Inv /\ [Next]_vars => Inv'
<1> SUFFICES ASSUME Inv, [Next]_vars PROVE Inv'
    OBVIOUS
<1>1. Types'
    BY TypesStep DEF Inv
<1>2. ASSUME NEW r \in Requests,
             Start(r) \/ RecordIntent(r) \/ CountDispatch(r) \/ Respond(r) \/ Record(r)
      PROVE  Inv'
    BY <1>1, <1>2, StartStep, RecordIntentStep, CountDispatchStep, RespondStep, RecordStep
<1>3. ASSUME NEW r \in Requests, Raise(r) \/ RecordFails(r) \/ ReadTasks(r) PROVE Inv'
  <2>1. PICK to \in {"respond", "done"} : stage' = [stage EXCEPT ![r] = to]
      BY <1>3 DEF Raise, RecordFails, ReadTasks, Go
  <2>2. Forget(r) /\ UNCHANGED <<now, db, saved, torn, unpaired>>
      BY <1>3 DEF Raise, RecordFails, ReadTasks, historyVars
  <2> QED
      BY <1>1, <2>1, <2>2, LeaveStep
<1>4. ASSUME NEW r \in Requests, ReadCounters(r) \/ ReadSeries(r) \/ ReadRecent(r) PROVE Inv'
    BY <1>1, <1>4, ReadCountersStep, ReadSeriesStep, ReadRecentStep
<1>5. CASE Tick \/ SaveSnapshot \/ RedisCrash
    BY <1>1, <1>5, TickStep, SaveSnapshotStep, RedisCrashStep
<1>6. CASE UNCHANGED vars
  <2>1. \A r \in Requests : ClockInv(r)' <=> ClockInv(r)
      BY <1>6 DEF vars, ClockInv
  <2>2. \A r \in Requests : ViewInv(r)' <=> ViewInv(r)
      BY <1>6 DEF vars, ViewInv, Seen, Older, UpTo
  <2>3. PairInv'
      BY <1>6 DEF vars, Inv, PairInv, Counting
  <2> QED
      BY <1>1, <1>6, <2>1, <2>2, <2>3 DEF vars, Inv
<1> QED
    BY <1>2, <1>3, <1>4, <1>5, <1>6 DEF Next, Summarise

LEMMA InvAlways == Spec => []Inv
  BY InvInit, InvStep, PTL DEF Spec

----------------------------------------------------------------------------
(* The theorems about Metrics.                                             *)

\* The keys of src/api/middlewares/metrics.py and the state of every request keep
\* their types, whatever fails and whenever Redis is restarted.
THEOREM MetricsTypes == Spec => []TypeOK
<1>1. Inv => TypeOK
    BY TypesImplyTypeOK DEF Inv
<1> QED
    BY <1>1, InvAlways, PTL

\* The totals, the list of recent requests, the minutes' buckets and the two
\* counters of tasks agree, for any number of requests, minutes and faults.
THEOREM CountersCorrect == Spec => []CountersAgree
<1>1. Inv => CountersAgree
    BY DEF Inv, Tally, PairInv, CountersAgree
<1> QED
    BY <1>1, InvAlways, PTL

\* A summary of get_metrics that no restart of Redis tore covers the requests that
\* it counts, however many were recorded while it was read.
THEOREM SummaryCorrect == Spec => []SummaryCovers
<1>1. Inv => SummaryCovers
    BY DEF Inv, ViewInv, Seen, SummaryCovers
<1> QED
    BY <1>1, InvAlways, PTL

----------------------------------------------------------------------------
(* Maxima and minima.                                                      *)

\* Max and Min choose what exists.
LEMMA MaxOfSet ==
    ASSUME NEW S \in SUBSET Int, IsFiniteSet(S), S # {}
    PROVE  Max(S) \in S /\ \A x \in S : x <= Max(S)
<1> DEFINE HasMax(s) == \E x \in s : \A y \in s : x >= y
           Bad == {s \in SUBSET S : s # {} /\ ~HasMax(s)}
<1>1. HasMax(S)
  <2> SUFFICES ASSUME Bad # {} PROVE FALSE
      OBVIOUS
  <2>1. PICK s \in Bad : \A x \in s : s \ {x} \notin Bad
    <3>1. Bad \in SUBSET SUBSET S
        OBVIOUS
    <3> HIDE DEF Bad
    <3> QED
        BY <3>1, MinimalSet
  <2>2. PICK a \in s : TRUE
      BY <2>1
  <2>3. s \ {a} = {} \/ HasMax(s \ {a})
      BY <2>1, <2>2
  <2>4. CASE s \ {a} = {}
    <3>1. \A y \in s : a >= y
        BY <2>1, <2>2, <2>4
    <3> QED
        BY <2>1, <2>2, <3>1
  <2>5. CASE HasMax(s \ {a})
    <3>1. PICK b \in s \ {a} : \A y \in s \ {a} : b >= y
        BY <2>5
    <3>2. a \in Int /\ b \in Int /\ \A y \in s : y \in Int
        BY <2>1, <2>2, <3>1
    <3>3. (\A y \in s : a >= y) \/ (\A y \in s : b >= y)
        BY <3>1, <3>2
    <3> QED
        BY <2>1, <2>2, <3>1, <3>3
  <2> QED
      BY <2>3, <2>4, <2>5
<1>2. Max(S) = CHOOSE x \in S : \A y \in S : x >= y
    BY DEF Max
<1>3. Max(S) \in S /\ \A y \in S : Max(S) >= y
    BY <1>1, <1>2
<1> QED
    BY <1>3

LEMMA MinOfSet ==
    ASSUME NEW I \in SUBSET Nat, I # {}
    PROVE  Min(I) \in I /\ \A n \in I : Min(I) <= n
<1>1. \E n \in I : \A m \in I : n <= m
    BY LeastNumber
<1>2. Min(I) = CHOOSE n \in I : \A m \in I : n <= m
    BY DEF Min
<1> QED
    BY <1>1, <1>2

----------------------------------------------------------------------------
(* The loop over the routes.                                               *)

RoutingTypes ==
    /\ similarity \in [Phrases -> Scores]
    /\ words \in Seq(Word)
    /\ next \in 1 .. Len(Order) + 1
    /\ highest \in Nat
    /\ phase \in {"classify", "extract", "done"}

\* What the loop has found among the first next - 1 routes.
BestSoFar ==
    /\ \A n \in 1 .. next - 1 : MaxSim(Order[n]) <= highest
    /\ \/ highest = 0
       \/ \E m \in 1 .. next - 1 :
             /\ best = Order[m] /\ highest = MaxSim(Order[m])
             /\ \A n \in 1 .. m - 1 : MaxSim(Order[n]) < highest

Decided ==
    /\ phase # "classify" =>
          /\ next = Len(Order) + 1
          /\ intent = IF highest >= Threshold THEN best ELSE Fallback
          /\ confidence = Rounded(highest)
    /\ phase = "done" /\ intent = FinancialQuant => ticker = Chosen

RoutingInv == RoutingTypes /\ BestSoFar /\ Decided

LEMMA OrderFacts == Len(Order) \in Nat /\ DOMAIN Order = 1 .. Len(Order)
  BY OrderAssumption

\* The similarity of a route is that of one of its anchors.
LEMMA MaxSimType ==
    ASSUME similarity \in [Phrases -> Scores], NEW n \in 1 .. Len(Order)
    PROVE  MaxSim(Order[n]) \in Int
<1> DEFINE A == Anchors[Order[n]]
           S == {similarity[a] : a \in A}
           f == [a \in A |-> similarity[a]]
<1>1. Order[n] \in Routes
    BY OrderFacts DEF Routes
<1>2. IsFiniteSet(A) /\ A # {} /\ A \subseteq Phrases
    BY <1>1, AnchorsAssumption DEF Phrases
<1>3. S \in SUBSET Int /\ S # {}
    BY <1>2, ScoresAssumption
<1>4. IsFiniteSet(S)
  <2>1. f \in Surjection(A, S)
      BY DEF Surjection
  <2> HIDE DEF f, A, S
  <2> QED
      BY <1>2, <2>1, FS_Surjection
<1>5. MaxSim(Order[n]) = Max(S)
    BY DEF MaxSim
<1> HIDE DEF S
<1>6. Max(S) \in S
    BY <1>3, <1>4, MaxOfSet
<1> QED
    BY <1>3, <1>5, <1>6

LEMMA RoutingInvInit == RoutingInit => RoutingInv
<1> SUFFICES ASSUME RoutingInit PROVE RoutingInv
    OBVIOUS
<1>1. words \in Seq(Word)
    BY WordsAssumption DEF RoutingInit
<1> QED
    BY <1>1, OrderFacts DEF RoutingInit, RoutingInv, RoutingTypes, BestSoFar, Decided

LEMMA CompareStep == RoutingInv /\ Compare => RoutingInv'
<1> SUFFICES ASSUME RoutingInv, Compare PROVE RoutingInv'
    OBVIOUS
<1> DEFINE score == MaxSim(Order[next])
<1>1. /\ phase = "classify" /\ next \in 1 .. Len(Order) /\ next' = next + 1
      /\ UNCHANGED <<query, intent, confidence, ticker, phase>>
    BY OrderFacts DEF Compare, RoutingInv, RoutingTypes
<1>2. /\ highest' = IF score > highest THEN score ELSE highest
      /\ best' = IF score > highest THEN Order[next] ELSE best
    BY DEF Compare, Better
<1>3. score \in Int /\ highest \in Nat /\ \A n \in 1 .. next : MaxSim(Order[n]) \in Int
  <2>1. \A n \in 1 .. next : n \in 1 .. Len(Order)
      BY <1>1, OrderFacts
  <2> QED
      BY <1>1, <2>1, MaxSimType DEF RoutingInv, RoutingTypes
<1>4. \A i : MaxSim(i)' = MaxSim(i)
    BY <1>1 DEF MaxSim, query
<1> HIDE DEF score
<1>5. RoutingTypes'
    BY <1>1, <1>2, <1>3, OrderFacts DEF RoutingInv, RoutingTypes, query
<1>6. Decided'
    BY <1>1 DEF Decided
<1>7. BestSoFar'
  <2>1. /\ \A n \in 1 .. next - 1 : MaxSim(Order[n]) <= highest
        /\ \/ highest = 0
           \/ \E m \in 1 .. next - 1 :
                 /\ best = Order[m] /\ highest = MaxSim(Order[m])
                 /\ \A n \in 1 .. m - 1 : MaxSim(Order[n]) < highest
      BY DEF RoutingInv, BestSoFar
  <2>2. \A n \in 1 .. next' - 1 : n \in 1 .. next - 1 \/ n = next
      BY <1>1
  <2>3. ASSUME NEW n \in 1 .. next' - 1 PROVE MaxSim(Order[n]) <= highest'
    <3>1. highest <= highest' /\ score <= highest' /\ highest' \in Int
        BY <1>2, <1>3
    <3>2. CASE n \in 1 .. next - 1
      <4>1. MaxSim(Order[n]) <= highest /\ n \in 1 .. next
          BY <1>1, <2>1, <3>2
      <4>2. MaxSim(Order[n]) \in Int
          BY <1>3, <4>1
      <4> QED
          BY <1>3, <3>1, <4>1, <4>2
    <3> QED
        BY <2>2, <3>1, <3>2 DEF score
  <2>4. CASE score > highest
    <3>1. /\ next \in 1 .. next' - 1 /\ best' = Order[next] /\ highest' = MaxSim(Order[next])
          /\ \A n \in 1 .. next - 1 : MaxSim(Order[n]) < highest'
        BY <1>1, <1>2, <1>3, <2>1, <2>4 DEF score
    <3> QED
        BY <1>4, <2>3, <3>1 DEF BestSoFar
  <2>5. CASE ~(score > highest)
    <3>1. highest' = highest /\ best' = best
        BY <1>2, <2>5
    <3>2. \A m \in 1 .. next - 1 : m \in 1 .. next' - 1
        BY <1>1
    <3> QED
        BY <1>4, <2>1, <2>3, <3>1, <3>2 DEF BestSoFar
  <2> QED
      BY <2>4, <2>5
<1> QED
    BY <1>5, <1>6, <1>7 DEF RoutingInv

\* What a regular expression finds: the first place, or 0.
LEMMA FirstPlace ==
    ASSUME RoutingTypes
    PROVE  LET D == {i \in 1 .. Len(words) : words[i].dollar /\ Capitals(words[i])}
               C == {i \in 1 .. Len(words) : Capitals(words[i]) /\ words[i].text \notin Stop}
           IN  /\ D = {} => DollarMatch = 0
               /\ D # {} => DollarMatch \in D /\ \A n \in D : DollarMatch <= n
               /\ C = {} => Candidate = 0
               /\ C # {} => Candidate \in C /\ \A n \in C : Candidate <= n
<1> DEFINE D == {i \in 1 .. Len(words) : words[i].dollar /\ Capitals(words[i])}
           C == {i \in 1 .. Len(words) : Capitals(words[i]) /\ words[i].text \notin Stop}
<1>1. D \in SUBSET Nat /\ C \in SUBSET Nat
    BY DEF RoutingTypes
<1>2. DollarMatch = IF D # {} THEN Min(D) ELSE 0
    BY DEF DollarMatch, SelectInSeq
<1>3. Candidate = IF C # {} THEN Min(C) ELSE 0
    BY DEF Candidate, SelectInSeq
<1> HIDE DEF C, D
<1> QED
    BY <1>1, <1>2, <1>3, MinOfSet DEF C, D

LEMMA DecideStep == RoutingInv /\ Decide => RoutingInv'
<1> SUFFICES ASSUME RoutingInv, Decide PROVE RoutingInv'
    OBVIOUS
<1>1. \A i : MaxSim(i)' = MaxSim(i)
    BY DEF Decide, MaxSim, query
<1>2. RoutingTypes'
    BY DEF Decide, query, RoutingInv, RoutingTypes
<1>3. BestSoFar'
    BY <1>1 DEF Decide, RoutingInv, BestSoFar
<1>4. Decided'
    BY OrderFacts DEF Decide, Decided, RoutingInv, RoutingTypes, Rounded
<1> QED
    BY <1>2, <1>3, <1>4 DEF RoutingInv

LEMMA ExtractTickerStep == RoutingInv /\ ExtractTicker => RoutingInv'
<1> SUFFICES ASSUME RoutingInv, ExtractTicker PROVE RoutingInv'
    OBVIOUS
<1>1. \A i : MaxSim(i)' = MaxSim(i)
    BY DEF ExtractTicker, MaxSim, query
<1>2. RoutingTypes'
    BY DEF ExtractTicker, query, RoutingInv, RoutingTypes
<1>3. BestSoFar'
    BY <1>1 DEF ExtractTicker, RoutingInv, BestSoFar
<1>4. Chosen' = Chosen
    BY DEF ExtractTicker, query, Chosen, DollarMatch, Candidate, SelectInSeq, Capitals
<1>5. Decided'
    BY <1>4 DEF ExtractTicker, Decided, RoutingInv, Rounded
<1> QED
    BY <1>2, <1>3, <1>5 DEF RoutingInv

LEMMA RoutingInvAlways == RoutingSpec => []RoutingInv
<1>1. RoutingInv /\ UNCHANGED routingVars => RoutingInv'
  <2> SUFFICES ASSUME RoutingInv, UNCHANGED routingVars PROVE RoutingInv'
      OBVIOUS
  <2>1. \A i : MaxSim(i)' = MaxSim(i)
      BY DEF routingVars, MaxSim
  <2>2. Chosen' = Chosen
      BY DEF routingVars, Chosen, DollarMatch, Candidate, SelectInSeq, Capitals
  <2> QED
      BY <2>1, <2>2 DEF routingVars, RoutingInv, RoutingTypes, BestSoFar, Decided, Rounded
<1>2. RoutingInv /\ [RoutingNext]_routingVars => RoutingInv'
    BY <1>1, CompareStep, DecideStep, ExtractTickerStep DEF RoutingNext
<1> QED
    BY <1>2, RoutingInvInit, PTL DEF RoutingSpec

\* round keeps a similarity to within half of the last digit.
LEMMA RoundedNear ==
    ASSUME NEW h \in Nat
    PROVE  2 * Rounded(h) - 2 * h \in (-Grain) .. Grain
<1> DEFINE q == (2 * h + Grain) \div (2 * Grain)
           p == q * Grain
<1>1. Grain \in Nat /\ Grain > 0
    BY ScoresAssumption
<1>2. q \in Int /\ (2 * Grain) * q <= 2 * h + Grain /\ 2 * h + Grain < (2 * Grain) * q + 2 * Grain
    BY <1>1
<1>3. (2 * Grain) * q = 2 * p /\ p \in Int
  <2> HIDE DEF q
  <2> QED
      BY <1>1, <1>2
<1> HIDE DEF q, p
<1>4. 2 * p - 2 * h \in (-Grain) .. Grain
    BY <1>1, <1>2, <1>3
<1> QED
    BY <1>4 DEF Rounded, p, q

----------------------------------------------------------------------------
(* The theorems about Routing.                                             *)

\* The loop of classify_intent returns the first of the best routes when it reaches
\* the threshold, and the confidence is the best similarity, for all routes, anchors
\* and similarities.
THEOREM ClassificationCorrect == RoutingSpec => []ClassifiesBest
<1>1. ASSUME RoutingInv, phase # "classify" PROVE ClassifiesBest
  <2>1. /\ highest \in Nat /\ next = Len(Order) + 1 /\ Len(Order) \in Nat
        /\ intent = (IF highest >= Threshold THEN best ELSE Fallback)
        /\ confidence = Rounded(highest)
        /\ Threshold \in Nat /\ Threshold > 0
      BY <1>1, OrderFacts, ScoresAssumption DEF RoutingInv, RoutingTypes, Decided
  <2>2. \A n \in 1 .. Len(Order) : MaxSim(Order[n]) \in Int /\ MaxSim(Order[n]) <= highest
      BY <1>1, <2>1, MaxSimType DEF RoutingInv, RoutingTypes, BestSoFar
  <2>3. \A i \in Routes : \E n \in 1 .. Len(Order) : i = Order[n]
      BY OrderFacts DEF Routes
  <2>4. \A i \in Routes : MaxSim(i) \in Int /\ MaxSim(i) <= highest
      BY <2>2, <2>3
  <2>5. \/ highest = 0
        \/ \E m \in 1 .. Len(Order) :
              /\ best = Order[m] /\ highest = MaxSim(Order[m])
              /\ \A n \in 1 .. m - 1 : MaxSim(Order[n]) < highest
      BY <1>1, <2>1 DEF RoutingInv, BestSoFar
  <2> DEFINE Route == IF \A i \in Routes : MaxSim(i) < Threshold THEN intent = Fallback
                      ELSE \E m \in DOMAIN Order :
                              /\ intent = Order[m]
                              /\ MaxSim(intent) >= Threshold
                              /\ \A n \in DOMAIN Order :
                                    /\ MaxSim(Order[n]) <= MaxSim(intent)
                                    /\ n < m => MaxSim(Order[n]) < MaxSim(intent)
  <2>6. Route
    <3>1. CASE highest < Threshold
      <4>1. \A i \in Routes : MaxSim(i) < Threshold
          BY <2>1, <2>4, <3>1
      <4>2. intent = Fallback
          BY <2>1, <3>1
      <4> QED
          BY <4>1, <4>2
    <3>2. CASE highest >= Threshold
      <4>1. PICK m \in 1 .. Len(Order) :
               /\ best = Order[m] /\ highest = MaxSim(Order[m])
               /\ \A n \in 1 .. m - 1 : MaxSim(Order[n]) < highest
          BY <2>1, <2>5, <3>2
      <4>2. intent = Order[m] /\ MaxSim(intent) = highest
          BY <2>1, <3>2, <4>1
      <4>3. Order[m] \in Routes
          BY OrderFacts DEF Routes
      <4>4. ~(\A i \in Routes : MaxSim(i) < Threshold)
          BY <2>1, <3>2, <4>1, <4>3
      <4>5. \A n \in 1 .. Len(Order) : n < m => n \in 1 .. m - 1
          OBVIOUS
      <4> QED
          BY <2>2, <3>2, <4>1, <4>2, <4>4, <4>5, OrderFacts
    <3> QED
        BY <2>1, <3>1, <3>2
  <2>7. highest \in {0} \union {MaxSim(i) : i \in Routes}
    <3>1. \A m \in 1 .. Len(Order) : Order[m] \in Routes
        BY OrderFacts DEF Routes
    <3> QED
        BY <2>5, <3>1
  <2>8. 2 * confidence - 2 * highest \in (-Grain) .. Grain
      BY <2>1, RoundedNear
  <2> HIDE DEF Route
  <2>9. \E top \in {0} \union {MaxSim(i) : i \in Routes} :
            /\ top >= 0 /\ \A i \in Routes : MaxSim(i) <= top
            /\ 2 * confidence - 2 * top \in (-Grain) .. Grain
      BY <2>1, <2>4, <2>7, <2>8
  <2> QED
      BY <2>6, <2>9 DEF ClassifiesBest, Route
<1>2. RoutingInv => ClassifiesBest
    BY <1>1 DEF ClassifiesBest
<1> QED
    BY <1>2, RoutingInvAlways, PTL

\* _extract_ticker prefers the first word with a "$", then the first word in capitals
\* that is no stop word, for queries of any length.
THEOREM TickerCorrect == RoutingSpec => []TickerPreferred
<1>1. ASSUME RoutingInv, phase = "done", intent = FinancialQuant PROVE TickerPreferred
  <2> DEFINE D == {i \in 1 .. Len(words) : words[i].dollar /\ Capitals(words[i])}
             C == {i \in 1 .. Len(words) : Capitals(words[i]) /\ words[i].text \notin Stop}
             some == {m \in DOMAIN words : Eligible(m)}
  <2>1. /\ D = {} => DollarMatch = 0
        /\ D # {} => DollarMatch \in D /\ \A n \in D : DollarMatch <= n
        /\ C = {} => Candidate = 0
        /\ C # {} => Candidate \in C /\ \A n \in C : Candidate <= n
      BY <1>1, FirstPlace DEF RoutingInv
  <2>2. DOMAIN words = 1 .. Len(words) /\ Len(words) \in Nat
        /\ \A i \in 1 .. Len(words) : words[i].dollar \in BOOLEAN
    <3>1. words \in Seq(Word) /\ \A w \in Word : w.dollar \in BOOLEAN
        BY <1>1 DEF RoutingInv, RoutingTypes, Word
    <3> QED
        BY <3>1
  <2>3. ticker = Chosen
      BY <1>1 DEF RoutingInv, Decided
  <2>4. some = D \union C
      BY <2>2 DEF Eligible
  <2>5. CASE D # {}
    <3>1. DollarMatch \in D /\ DollarMatch # 0 /\ ticker = words[DollarMatch].text
        BY <2>1, <2>3, <2>5 DEF Chosen
    <3>2. ASSUME NEW n \in some PROVE Preferred(DollarMatch, n)
      <4>1. CASE words[n].dollar
        <5>1. n \in D
            BY <2>2, <3>2, <4>1 DEF Eligible
        <5> QED
            BY <2>1, <3>1, <5>1 DEF Preferred
      <4>2. CASE ~words[n].dollar
          BY <2>2, <3>1, <4>2 DEF Preferred
      <4> QED
          BY <4>1, <4>2
    <3> QED
        BY <2>4, <3>1, <3>2 DEF TickerPreferred
  <2>6. CASE D = {} /\ C # {}
    <3>1. Candidate \in C /\ Candidate # 0 /\ ticker = words[Candidate].text
        BY <2>1, <2>3, <2>6 DEF Chosen
    <3>2. ASSUME NEW n \in some PROVE Preferred(Candidate, n)
      <4>1. n \in C /\ n \notin D /\ Candidate \notin D
          BY <2>4, <2>6, <3>2
      <4>2. words[n].dollar = FALSE /\ words[Candidate].dollar = FALSE
          BY <2>2, <3>1, <4>1
      <4> QED
          BY <2>1, <3>1, <4>1, <4>2 DEF Preferred
    <3> QED
        BY <2>4, <2>6, <3>1, <3>2 DEF TickerPreferred
  <2>7. CASE D = {} /\ C = {}
      BY <2>1, <2>3, <2>4, <2>7 DEF Chosen, TickerPreferred
  <2> QED
      BY <2>5, <2>6, <2>7
<1>2. RoutingInv => TickerPreferred
    BY <1>1 DEF TickerPreferred
<1> QED
    BY <1>2, RoutingInvAlways, PTL
=============================================================================
