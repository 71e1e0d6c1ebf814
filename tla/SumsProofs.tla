----------------------------- MODULE SumsProofs -----------------------------
(***************************************************************************)
(* How sums move, for any amounts in any places: the lemmas that what is   *)
(* proved of the two ledgers rests on.                                     *)
(***************************************************************************)
EXTENDS Sums, Integers, FiniteSetTheorems, TLAPS

(* Nothing adds up to nothing. *)
LEMMA TotalOfNothing ==
  ASSUME NEW f, \A k \in DOMAIN f : f[k] = 0
  PROVE  IsFiniteSet(Units(f)) /\ Total(f) = 0
  <1>1. Units(f) = {}
    <2>1. \A k \in DOMAIN f : 1 .. f[k] = {}
      OBVIOUS
    <2> QED
      BY <2>1 DEF Units
  <1> QED
    BY <1>1, FS_EmptySet DEF Total

(* A sum of which one amount changes, changes by as much. *)
LEMMA TotalMoves ==
  ASSUME NEW D, NEW f \in [D -> Nat], NEW g \in [D -> Nat], NEW k \in D,
         \A x \in D : x # k => g[x] = f[x],
         IsFiniteSet(Units(f))
  PROVE  /\ IsFiniteSet(Units(g))
         /\ Total(f) \in Nat /\ Total(g) \in Nat
         /\ Total(g) = Total(f) - f[k] + g[k]
  <1> DEFINE column(n) == {k} \X (1 .. n)
             rest == UNION {{x} \X (1 .. f[x]) : x \in D \ {k}}
  <1>1. ASSUME NEW n \in Nat
        PROVE  /\ IsFiniteSet(column(n)) /\ Cardinality(column(n)) = n
               /\ rest \cap column(n) = {}
    <2>1. IsFiniteSet({k}) /\ Cardinality({k}) = 1
      BY FS_Singleton
    <2>2. IsFiniteSet(1 .. n) /\ Cardinality(1 .. n) = n
      <3>1. 1 \in Int /\ n \in Int
        OBVIOUS
      <3>2. IsFiniteSet(1 .. n) /\ Cardinality(1 .. n) = IF 1 > n THEN 0 ELSE n - 1 + 1
        BY <3>1, FS_Interval
      <3> QED
        BY <3>1, <3>2
    <2> DEFINE one == {k}
               many == 1 .. n
    <2>3. IsFiniteSet(one \X many) /\ Cardinality(one \X many) = 1 * n
      <3> HIDE DEF one, many
      <3>1. IsFiniteSet(one) /\ Cardinality(one) = 1 /\ IsFiniteSet(many) /\ Cardinality(many) = n
        BY <2>1, <2>2 DEF one, many
      <3>2. /\ IsFiniteSet(one \X many)
            /\ Cardinality(one \X many) = Cardinality(one) * Cardinality(many)
        BY <3>1, FS_Product
      <3> QED
        BY <3>1, <3>2
    <2> QED
      BY <2>3
  <1>2. ASSUME NEW h \in [D -> Nat], \A x \in D : x # k => h[x] = f[x]
        PROVE  Units(h) = rest \union column(h[k])
    <2>1. Units(h) = UNION {{x} \X (1 .. h[x]) : x \in D}
      BY DEF Units
    <2> QED
      BY <1>2, <2>1
  <1>3. f[k] \in Nat /\ g[k] \in Nat
    OBVIOUS
  <1>4. Units(f) = rest \union column(f[k]) /\ Units(g) = rest \union column(g[k])
    BY <1>2
  <1>5. /\ IsFiniteSet(column(f[k])) /\ Cardinality(column(f[k])) = f[k]
        /\ IsFiniteSet(column(g[k])) /\ Cardinality(column(g[k])) = g[k]
        /\ rest \cap column(f[k]) = {} /\ rest \cap column(g[k]) = {}
    BY <1>1, <1>3
  <1> HIDE DEF rest, column
  <1>6. IsFiniteSet(rest) /\ Cardinality(rest) \in Nat
    BY <1>4, FS_Subset, FS_CardinalityType
  <1>7. ASSUME NEW n \in Nat, IsFiniteSet(column(n)), Cardinality(column(n)) = n,
               rest \cap column(n) = {}
        PROVE  /\ IsFiniteSet(rest \union column(n))
               /\ Cardinality(rest \union column(n)) = Cardinality(rest) + n
    <2>1. /\ IsFiniteSet(rest \union column(n))
          /\ Cardinality(rest \union column(n))
               = Cardinality(rest) + Cardinality(column(n)) - Cardinality(rest \cap column(n))
      BY <1>6, <1>7, FS_Union
    <2>2. Cardinality(rest \cap column(n)) = 0
      BY <1>7, FS_EmptySet
    <2> QED
      BY <1>6, <1>7, <2>1, <2>2
  <1>8. /\ Cardinality(rest \union column(f[k])) = Cardinality(rest) + f[k]
        /\ Cardinality(rest \union column(g[k])) = Cardinality(rest) + g[k]
        /\ IsFiniteSet(rest \union column(g[k]))
    BY <1>3, <1>5, <1>7
  <1>9. Total(f) = Cardinality(rest) + f[k] /\ Total(g) = Cardinality(rest) + g[k]
    BY <1>4, <1>8 DEF Total
  <1> QED
    BY <1>3, <1>4, <1>6, <1>8, <1>9

(* A sum over some places, each of them at most m and one of them empty,   *)
(* is at most m times the others.                                          *)
LEMMA TotalOfOthers ==
  ASSUME NEW D, IsFiniteSet(D), NEW m \in Nat, NEW f \in [D -> 0 .. m],
         NEW k \in D, f[k] = 0
  PROVE  Total(f) <= (Cardinality(D) - 1) * m
  <1> DEFINE others == D \ {k}
             amounts == 1 .. m
  <1>1. IsFiniteSet(others) /\ Cardinality(others) = Cardinality(D) - 1
    BY FS_RemoveElement
  <1>2. IsFiniteSet(amounts) /\ Cardinality(amounts) = m
    BY FS_Interval
  <1>3. Units(f) \subseteq others \X amounts
    BY DEF Units
  <1> HIDE DEF others, amounts
  <1>4. /\ IsFiniteSet(others \X amounts)
        /\ Cardinality(others \X amounts) = Cardinality(others) * Cardinality(amounts)
    BY <1>1, <1>2, FS_Product
  <1>5. Cardinality(Units(f)) <= Cardinality(others \X amounts)
    BY <1>3, <1>4, FS_Subset
  <1> QED
    BY <1>1, <1>2, <1>4, <1>5 DEF Total

(* No amount is more than the sum it is part of.                           *)
LEMMA TotalCovers ==
  ASSUME NEW D, NEW f \in [D -> Nat], NEW k \in D, IsFiniteSet(Units(f))
  PROVE  f[k] <= Total(f) /\ Total(f) \in Nat
  <1> DEFINE g == [f EXCEPT ![k] = 0]
  <1>1. g \in [D -> Nat] /\ g[k] = 0 /\ \A x \in D : x # k => g[x] = f[x]
    OBVIOUS
  <1> HIDE DEF g
  <1>2. /\ Total(f) \in Nat /\ Total(g) \in Nat
        /\ Total(g) = Total(f) - f[k] + g[k]
    BY <1>1, TotalMoves
  <1>3. f[k] \in Nat
    OBVIOUS
  <1> QED
    BY <1>1, <1>2, <1>3

=============================================================================
