------------------------------ MODULE TallyProofs ------------------------------
(***************************************************************************)
(* What Tally makes of a function to natural numbers, for every finite     *)
(* domain: the facts about sums that the other proofs use.                 *)
(***************************************************************************)
EXTENDS Tally, FiniteSetTheorems, TLAPS

\* The units of a function, one by one.
LEMMA UnitsOf ==
  ASSUME NEW S, NEW f \in [S -> Nat], NEW u
  PROVE  u \in Units(f) <=> \E x \in S : \E i \in 1..f[x] : u = <<x, i>>
BY DEF Units

\* A place holds as many units as its number says.
LEMMA Row ==
  ASSUME NEW x, NEW n \in Nat
  PROVE  IsFiniteSet({x} \X (1..n)) /\ Cardinality({x} \X (1..n)) = n
<1> DEFINE A == {x}
           B == 1..n
<1>1. IsFiniteSet(A) /\ Cardinality(A) = 1
  BY FS_Singleton
<1>2. IsFiniteSet(B) /\ Cardinality(B) = n
  BY FS_Interval
<1> HIDE DEF A, B
<1>3. IsFiniteSet(A \X B) /\ Cardinality(A \X B) = Cardinality(A) * Cardinality(B)
  BY <1>1, <1>2, FS_Product
<1>4. IsFiniteSet(A \X B) /\ Cardinality(A \X B) = n
  BY <1>1, <1>2, <1>3
<1> QED
  BY <1>4 DEF A, B

\* There are finitely many of them.
LEMMA UnitsFinite ==
  ASSUME NEW S, IsFiniteSet(S), NEW f \in [S -> Nat]
  PROVE  IsFiniteSet(Units(f))
<1> DEFINE row == [x \in S |-> {x} \X (1..f[x])]
           rows == {{x} \X (1..f[x]) : x \in S}
<1>1. row \in Surjection(S, rows)
  BY DEF Surjection
<1>2. IsFiniteSet(rows)
  BY <1>1, FS_Surjection
<1>3. ASSUME NEW x \in S PROVE IsFiniteSet({x} \X (1..f[x]))
  BY Row
<1>4. \A T \in rows : IsFiniteSet(T)
  BY <1>3
<1>5. IsFiniteSet(UNION rows)
  BY <1>2, <1>4, FS_UNION
<1> QED
  BY <1>5 DEF Units

\* The sum is a natural number.
LEMMA TallyType ==
  ASSUME NEW S, IsFiniteSet(S), NEW f \in [S -> Nat]
  PROVE  Tally(f) \in Nat
BY UnitsFinite, FS_CardinalityType DEF Tally

\* One more in one place is one more in the sum.
LEMMA TallyGrows ==
  ASSUME NEW S, IsFiniteSet(S), NEW f \in [S -> Nat], NEW g \in [S -> Nat],
         NEW x \in S, g[x] = f[x] + 1, \A y \in S : y # x => g[y] = f[y]
  PROVE  Tally(g) = Tally(f) + 1
<1> DEFINE u == <<x, f[x] + 1>>
<1>1. u \notin Units(f)
  BY UnitsOf
<1>2. \A v : v \in Units(g) <=> v \in Units(f) \/ v = u
  <2> TAKE v
  <2>1. v \in Units(g) <=> \E y \in S : \E i \in 1..g[y] : v = <<y, i>>
    BY UnitsOf
  <2>2. v \in Units(f) <=> \E y \in S : \E i \in 1..f[y] : v = <<y, i>>
    BY UnitsOf
  <2>3. ASSUME v \in Units(g) PROVE v \in Units(f) \/ v = u
    <3>0. PICK y \in S : \E i \in 1..g[y] : v = <<y, i>>
      BY <2>1, <2>3
    <3>1. PICK i \in 1..g[y] : v = <<y, i>>
      BY <3>0
    <3>2. CASE y # x
      BY <2>2, <3>1, <3>2
    <3>3. CASE y = x
      BY <2>2, <3>1, <3>3
    <3> QED
      BY <3>2, <3>3
  <2>4. ASSUME v \in Units(f) PROVE v \in Units(g)
    <3>0. PICK y \in S : \E i \in 1..f[y] : v = <<y, i>>
      BY <2>2, <2>4
    <3>1. PICK i \in 1..f[y] : v = <<y, i>>
      BY <3>0
    <3>2. i \in 1..g[y]
      BY <3>1
    <3> QED
      BY <2>1, <3>1, <3>2
  <2>5. u \in Units(g)
    <3>1. f[x] + 1 \in 1..g[x]
      OBVIOUS
    <3> QED
      BY <3>1, UnitsOf
  <2> QED
    BY <2>3, <2>4, <2>5
<1> HIDE DEF u
<1>3. Units(g) = Units(f) \union {u}
  BY <1>2
<1> QED
  BY <1>1, <1>3, UnitsFinite, FS_AddElement DEF Tally

\* A new place adds what it holds.
LEMMA TallyExtends ==
  ASSUME NEW S, IsFiniteSet(S), NEW x, x \notin S, NEW T, T = S \union {x},
         NEW f \in [S -> Nat], NEW g \in [T -> Nat],
         \A y \in S : g[y] = f[y]
  PROVE  Tally(f) \in Nat /\ Tally(g) = Tally(f) + g[x]
<1> DEFINE new == {x} \X (1..g[x])
<1>1. \A v : v \in Units(g) <=> v \in Units(f) \/ v \in new
  <2> TAKE v
  <2>1. v \in Units(g) <=> \E y \in T : \E i \in 1..g[y] : v = <<y, i>>
    BY UnitsOf
  <2>2. v \in Units(f) <=> \E y \in S : \E i \in 1..f[y] : v = <<y, i>>
    BY UnitsOf
  <2> QED
    BY <2>1, <2>2
<1>2. Units(f) \cap new = {}
  <2> SUFFICES ASSUME NEW v \in Units(f), v \in new PROVE FALSE
    OBVIOUS
  <2>1. PICK y \in S : \E i \in 1..f[y] : v = <<y, i>>
    BY UnitsOf
  <2> QED
    BY <2>1
<1>3. IsFiniteSet(new) /\ Cardinality(new) = g[x]
  BY Row
<1> HIDE DEF new
<1>4. Units(g) = Units(f) \union new
  BY <1>1
<1>5. Cardinality(Units(f) \union new) = Cardinality(Units(f)) + Cardinality(new) - Cardinality({})
  BY <1>2, <1>3, UnitsFinite, FS_Union
<1> QED
  BY <1>3, <1>4, <1>5, TallyType, FS_EmptySet DEF Tally

\* In a sequence the new place is the last.
LEMMA TallyAppends ==
  ASSUME NEW n \in Nat, NEW f, NEW g, f \in [1..n -> Nat], g \in [1..(n + 1) -> Nat],
         \A i \in 1..n : g[i] = f[i]
  PROVE  Tally(f) \in Nat /\ Tally(g) = Tally(f) + g[n + 1]
<1>1. PICK S, T, x : S = 1..n /\ T = 1..(n + 1) /\ x = n + 1
  OBVIOUS
<1>2. f \in [S -> Nat]
  BY <1>1
<1>3. g \in [T -> Nat]
  BY <1>1
<1>4. \A i \in S : g[i] = f[i]
  BY <1>1
<1>5. IsFiniteSet(S)
  BY <1>1, FS_Interval
<1>6. x \notin S /\ T = S \union {x}
  BY <1>1
<1>7. Tally(f) \in Nat /\ Tally(g) = Tally(f) + g[x]
  BY ONLY <1>2, <1>3, <1>4, <1>5, <1>6, TallyExtends
<1> QED
  BY <1>1, <1>7

\* No place holds more than the sum.
LEMMA TallyBounds ==
  ASSUME NEW S, IsFiniteSet(S), NEW f \in [S -> Nat], NEW x \in S
  PROVE  f[x] <= Tally(f)
<1> DEFINE row == {x} \X (1..f[x])
<1>1. row \subseteq Units(f)
  <2> SUFFICES ASSUME NEW v \in row PROVE v \in Units(f)
    OBVIOUS
  <2>1. PICK i \in 1..f[x] : v = <<x, i>>
    OBVIOUS
  <2> QED
    BY <2>1, UnitsOf
<1>2. Cardinality(row) = f[x]
  BY Row
<1> HIDE DEF row
<1> QED
  BY <1>1, <1>2, UnitsFinite, FS_Subset DEF Tally

\* The sum of zeros is zero.
LEMMA TallyZero ==
  ASSUME NEW S, NEW f \in [S -> Nat], \A x \in S : f[x] = 0
  PROVE  Tally(f) = 0
<1>1. \A u : u \notin Units(f)
  BY UnitsOf
<1>2. Units(f) = {}
  BY <1>1
<1> QED
  BY <1>2, FS_EmptySet DEF Tally

\* One place that is not zero is the whole sum.
LEMMA TallySingle ==
  ASSUME NEW S, NEW f \in [S -> Nat], NEW x \in S, \A y \in S : y # x => f[y] = 0
  PROVE  Tally(f) = f[x]
<1> DEFINE row == {x} \X (1..f[x])
<1>1. \A u : u \in Units(f) <=> u \in row
  <2> TAKE u
  <2>1. u \in Units(f) <=> \E y \in S : \E i \in 1..f[y] : u = <<y, i>>
    BY UnitsOf
  <2>2. u \in row <=> \E i \in 1..f[x] : u = <<x, i>>
    OBVIOUS
  <2>3. \A y \in S : y # x => 1..f[y] = {}
    OBVIOUS
  <2> QED
    BY <2>1, <2>2, <2>3
<1>2. Cardinality(row) = f[x]
  BY Row
<1> HIDE DEF row
<1>3. Units(f) = row
  BY <1>1
<1> QED
  BY <1>2, <1>3 DEF Tally
===============================================================================
