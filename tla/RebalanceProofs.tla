-------------------------- MODULE RebalanceProofs --------------------------
(***************************************************************************)
(* Proofs about Rebalance for any allow-list, prices, targets, caps, band, *)
(* buffer and number of signals.                                           *)
(***************************************************************************)
EXTENDS Rebalance, FiniteSetTheorems, WellFoundedInduction, TLAPS

USE RebalanceAssumption, CapAssumption

-----------------------------------------------------------------------------
(* Sums over the allow-list.                                               *)

(* A set of numbers that holds 0 and each successor holds every number: a  *)
(* set without the least one of those it lacks lacks none.                 *)
LEMMA Induction ==
    ASSUME NEW S, 0 \in S, \A n \in Nat : n \in S => n + 1 \in S
    PROVE  \A n \in Nat : n \in S
  <1> DEFINE Missing == Nat \ S
  <1> SUFFICES ASSUME Missing # {} PROVE FALSE
    OBVIOUS
  <1>1. PICK m \in Missing : \A k \in Missing : <<k, m>> \notin OpToRel(<, Nat)
    BY WFMin, NatLessThanWellFounded, Missing \subseteq Nat, Zenon
  <1>2. m \in Missing /\ m \in Nat /\ m # 0 /\ m - 1 \in Nat /\ m - 1 < m
    <2>1. m \in Nat /\ m \notin S
      OBVIOUS
    <2> QED
      BY <2>1
  <1>3. m - 1 \notin Missing
    BY <1>1, <1>2, Zenon DEF OpToRel
  <1>4. m - 1 + 1 \in S
    BY <1>2, <1>3
  <1> QED
    BY <1>2, <1>4

(* A recursion over the allow-list has a solution.                         *)
LEMMA Recursion ==
    ASSUME NEW base \in Int, NEW h \in [Symbols \X Int -> Int]
    PROVE  \E g \in [0..NumSymbols -> Int] :
              /\ g[0] = base
              /\ \A n \in Symbols : g[n] = h[<<n, g[n - 1]>>]
  <1> DEFINE Solves(g, k) == /\ g \in [0..k -> Int]
                             /\ g[0] = base
                             /\ \A n \in 1..k : g[n] = h[<<n, g[n - 1]>>]
             Solved == {k \in Nat : k <= NumSymbols => \E g : Solves(g, k)}
  <1>1. 0 \in Solved
    <2>1. Solves([n \in 0..0 |-> base], 0)
      OBVIOUS
    <2> HIDE DEF Solves
    <2> QED
      BY <2>1
  <1>2. ASSUME NEW k \in Nat, k \in Solved PROVE k + 1 \in Solved
    <2> SUFFICES ASSUME k + 1 <= NumSymbols PROVE \E g : Solves(g, k + 1)
      OBVIOUS
    <2>1. PICK g : Solves(g, k)
      BY <1>2
    <2> DEFINE new == h[<<k + 1, g[k]>>]
               f   == [n \in 0..(k + 1) |-> IF n = k + 1 THEN new ELSE g[n]]
    <2>2. new \in Int
      BY <2>1 DEF Symbols
    <2>3. f \in [0..(k + 1) -> Int] /\ f[0] = base
      BY <2>1, <2>2
    <2>4. ASSUME NEW n \in 1..(k + 1) PROVE f[n] = h[<<n, f[n - 1]>>]
      <3>1. n - 1 \in 0..k /\ f[n - 1] = g[n - 1]
        OBVIOUS
      <3>2. CASE n = k + 1
        <4>1. n - 1 = k /\ f[n] = new
          BY <3>2
        <4> QED
          BY <4>1, <3>1, <3>2
      <3>3. CASE n # k + 1
        <4>1. n \in 1..k /\ f[n] = g[n]
          BY <3>3
        <4> QED
          BY <4>1, <3>1, <2>1
      <3> QED
        BY <3>2, <3>3
    <2>5. Solves(f, k + 1)
      BY <2>3, <2>4
    <2> HIDE DEF Solves
    <2> QED
      BY <2>5
  <1>3. NumSymbols \in Solved
    <2> HIDE DEF Solved
    <2> QED
      BY <1>1, <1>2, Induction
  <1>4. PICK g : Solves(g, NumSymbols)
    <2> HIDE DEF Solves
    <2> QED
      BY <1>3
  <1> QED
    BY <1>4, Zenon DEF Symbols

(* The partial sums of f.                                                  *)
LEMMA PartialSums ==
    ASSUME NEW f \in [Symbols -> Int]
    PROVE  \E g \in [0..NumSymbols -> Int] :
              /\ g[0] = 0 /\ SumOf(f) = g[NumSymbols]
              /\ \A n \in Symbols : g[n] = g[n - 1] + f[n]
  <1> DEFINE h     == [p \in Symbols \X Int |-> p[2] + f[p[1]]]
             Is(g) == g = [n \in 0..NumSymbols |-> IF n = 0 THEN 0 ELSE g[n - 1] + f[n]]
  <1>1. h \in [Symbols \X Int -> Int]
    OBVIOUS
  <1>2. PICK g \in [0..NumSymbols -> Int] :
            g[0] = 0 /\ \A n \in Symbols : g[n] = h[<<n, g[n - 1]>>]
    <2> HIDE DEF h
    <2>1. 0 \in Int
      OBVIOUS
    <2> QED
      BY <1>1, <2>1, Recursion, Zenon
  <1>3. \A n \in Symbols : g[n] = g[n - 1] + f[n]
    <2> SUFFICES ASSUME NEW n \in Symbols PROVE g[n] = g[n - 1] + f[n]
      OBVIOUS
    <2>1. ASSUME NEW r \in Int PROVE h[<<n, r>>] = r + f[n]
      OBVIOUS
    <2> HIDE DEF h
    <2>2. g[n - 1] \in Int /\ h[<<n, g[n - 1]>>] = g[n - 1] + f[n]
      <3>1. n - 1 \in 0..NumSymbols
        BY DEF Symbols
      <3>2. g[n - 1] \in Int
        BY <3>1
      <3> QED
        BY <2>1, <3>2, Zenon
    <2>3. g[n] = h[<<n, g[n - 1]>>]
      BY <1>2, Zenon
    <2> QED
      BY <2>2, <2>3, Zenon
  <1>4. Is(g)
    <2>1. \A n \in 0..NumSymbols : g[n] = IF n = 0 THEN 0 ELSE g[n - 1] + f[n]
      BY <1>2, <1>3 DEF Symbols
    <2> QED
      BY <2>1
  <1> DEFINE sum == CHOOSE x : Is(x)
  <1>5. Is(sum)
    <2> HIDE DEF Is
    <2> QED
      BY <1>4, Zenon
  <1>6. SumOf(f) = sum[NumSymbols]
    BY DEF SumOf
  <1> HIDE DEF sum
  <1> DEFINE Agree == {n \in Nat : n <= NumSymbols => sum[n] = g[n]}
  <1>7. 0 \in Agree
    <2>1. sum[0] = 0
      BY <1>5
    <2> QED
      BY <2>1, <1>2
  <1>8. ASSUME NEW n \in Nat, n \in Agree PROVE n + 1 \in Agree
    <2> SUFFICES ASSUME n + 1 <= NumSymbols PROVE sum[n + 1] = g[n + 1]
      OBVIOUS
    <2>1. sum[n + 1] = sum[n] + f[n + 1]
      BY <1>5
    <2>2. g[n + 1] = g[n] + f[n + 1]
      BY <1>3 DEF Symbols
    <2> QED
      BY <2>1, <2>2, <1>8
  <1>9. NumSymbols \in Agree
    <2> HIDE DEF Agree
    <2> QED
      BY <1>7, <1>8, Induction
  <1>10. SumOf(f) = g[NumSymbols]
    BY <1>6, <1>9
  <1> HIDE DEF Is, Agree
  <1> QED
    BY <1>2, <1>3, <1>10

LEMMA SumType ==
    ASSUME NEW f \in [Symbols -> Int]
    PROVE  SumOf(f) \in Int
  BY PartialSums

LEMMA SumMonotone ==
    ASSUME NEW e \in [Symbols -> Int], NEW f \in [Symbols -> Int],
           \A s \in Symbols : e[s] <= f[s]
    PROVE  SumOf(e) <= SumOf(f)
  <1>1. PICK a \in [0..NumSymbols -> Int] :
            /\ a[0] = 0 /\ SumOf(e) = a[NumSymbols]
            /\ \A n \in Symbols : a[n] = a[n - 1] + e[n]
    BY PartialSums
  <1>2. PICK b \in [0..NumSymbols -> Int] :
            /\ b[0] = 0 /\ SumOf(f) = b[NumSymbols]
            /\ \A n \in Symbols : b[n] = b[n - 1] + f[n]
    BY PartialSums
  <1> DEFINE Below == {n \in Nat : n <= NumSymbols => a[n] <= b[n]}
  <1>3. 0 \in Below
    BY <1>1, <1>2
  <1>4. ASSUME NEW n \in Nat, n \in Below PROVE n + 1 \in Below
    <2> SUFFICES ASSUME n + 1 <= NumSymbols PROVE a[n + 1] <= b[n + 1]
      OBVIOUS
    <2>1. n + 1 \in Symbols /\ n \in 0..NumSymbols /\ (n + 1) - 1 = n
      BY DEF Symbols
    <2>2. a[n + 1] = a[n] + e[n + 1] /\ b[n + 1] = b[n] + f[n + 1]
      BY <1>1, <1>2, <2>1
    <2> QED
      BY <1>4, <2>1, <2>2
  <1>5. NumSymbols \in Below
    <2> HIDE DEF Below
    <2> QED
      BY <1>3, <1>4, Induction
  <1> QED
    BY <1>1, <1>2, <1>5

LEMMA SumExcept ==
    ASSUME NEW f \in [Symbols -> Int], NEW s \in Symbols, NEW v \in Int
    PROVE  SumOf([f EXCEPT ![s] = v]) = SumOf(f) + v - f[s]
  <1> DEFINE e == [f EXCEPT ![s] = v]
  <1>1. PICK a \in [0..NumSymbols -> Int] :
            /\ a[0] = 0 /\ SumOf(e) = a[NumSymbols]
            /\ \A n \in Symbols : a[n] = a[n - 1] + e[n]
    BY PartialSums
  <1>2. PICK b \in [0..NumSymbols -> Int] :
            /\ b[0] = 0 /\ SumOf(f) = b[NumSymbols]
            /\ \A n \in Symbols : b[n] = b[n - 1] + f[n]
    BY PartialSums
  <1> DEFINE Moved == {n \in Nat : n <= NumSymbols =>
                           a[n] = b[n] + (IF n < s THEN 0 ELSE v - f[s])}
  <1>3. 0 \in Moved
    BY <1>1, <1>2 DEF Symbols
  <1>4. ASSUME NEW n \in Nat, n \in Moved PROVE n + 1 \in Moved
    <2> SUFFICES ASSUME n + 1 <= NumSymbols
                 PROVE  a[n + 1] = b[n + 1] + (IF n + 1 < s THEN 0 ELSE v - f[s])
      OBVIOUS
    <2>1. n + 1 \in Symbols /\ n \in 0..NumSymbols /\ (n + 1) - 1 = n
      BY DEF Symbols
    <2>2. a[n + 1] = a[n] + e[n + 1] /\ b[n + 1] = b[n] + f[n + 1]
      BY <1>1, <1>2, <2>1
    <2>3. e[n + 1] = IF n + 1 = s THEN v ELSE f[n + 1]
      BY <2>1
    <2>4. /\ a[n] \in Int /\ b[n] \in Int
          /\ f[s] \in Int /\ f[n + 1] \in Int
      BY <2>1
    <2>5. a[n] = b[n] + (IF n < s THEN 0 ELSE v - f[s])
      BY <1>4, <2>1
    <2>6. n + 1 = s => f[n + 1] = f[s]
      OBVIOUS
    <2> DEFINE an == a[n]    am == a[n + 1]
               bn == b[n]    bm == b[n + 1]
               fs == f[s]    fm == f[n + 1]    em == e[n + 1]
    <2>7. s \in Int /\ an \in Int /\ bn \in Int /\ fs \in Int /\ fm \in Int
      BY <2>4 DEF Symbols
    <2>8. am = an + em /\ bm = bn + fm /\ (em = IF n + 1 = s THEN v ELSE fm)
      BY <2>2, <2>3, Zenon
    <2>9. an = bn + (IF n < s THEN 0 ELSE v - fs) /\ (n + 1 = s => fm = fs)
      BY <2>5, <2>6, Zenon
    <2> HIDE DEF an, am, bn, bm, fs, fm, em
    <2>10. am = bm + (IF n + 1 < s THEN 0 ELSE v - fs)
      BY <2>7, <2>8, <2>9
    <2> QED
      BY <2>10 DEF am, bm, fs
  <1>5. NumSymbols \in Moved
    <2> HIDE DEF Moved
    <2> QED
      BY <1>3, <1>4, Induction
  <1> QED
    BY <1>1, <1>2, <1>5 DEF Symbols

(* A sum of naturals is one, and no less than each of them.                *)
LEMMA SumOfNaturals ==
    ASSUME NEW f \in [Symbols -> Nat]
    PROVE  /\ SumOf(f) \in Nat
           /\ \A s \in Symbols : f[s] <= SumOf(f)
  <1>0. None \in [Symbols -> Int] /\ \A s \in Symbols : None[s] = 0
    BY DEF None
  <1>1. PICK z \in [0..NumSymbols -> Int] :
            /\ z[0] = 0 /\ SumOf(None) = z[NumSymbols]
            /\ \A n \in Symbols : z[n] = z[n - 1] + None[n]
    BY <1>0, PartialSums
  <1>2. SumOf(None) = 0
    <2> DEFINE Zero == {n \in Nat : n <= NumSymbols => z[n] = 0}
    <2>1. 0 \in Zero
      BY <1>1
    <2>2. ASSUME NEW n \in Nat, n \in Zero PROVE n + 1 \in Zero
      <3> SUFFICES ASSUME n + 1 <= NumSymbols PROVE z[n + 1] = 0
        OBVIOUS
      <3>1. n + 1 \in Symbols /\ n \in 0..NumSymbols /\ (n + 1) - 1 = n
        BY DEF Symbols
      <3> QED
        BY <1>0, <1>1, <2>2, <3>1
    <2>3. NumSymbols \in Zero
      <3> HIDE DEF Zero
      <3> QED
        BY <2>1, <2>2, Induction
    <2> QED
      BY <1>1, <2>3
  <1>3. SumOf(f) \in Nat
    <2>1. SumOf(None) <= SumOf(f)
      BY <1>0, SumMonotone
    <2> QED
      BY <1>2, <2>1, SumType
  <1>4. ASSUME NEW s \in Symbols PROVE f[s] <= SumOf(f)
    <2> DEFINE e == [None EXCEPT ![s] = f[s]]
    <2>1. e \in [Symbols -> Int] /\ \A u \in Symbols : e[u] <= f[u]
      BY <1>0
    <2>2. SumOf(e) = SumOf(None) + f[s] - None[s]
      BY <1>0, SumExcept, f[s] \in Int
    <2>3. SumOf(e) <= SumOf(f)
      <3>1. f \in [Symbols -> Int]
        OBVIOUS
      <3> HIDE DEF e
      <3> QED
        BY <2>1, <3>1, SumMonotone, Zenon
    <2>4. f[s] \in Nat /\ None[s] = 0
      BY <1>0
    <2> DEFINE of == SumOf(e)   all == SumOf(f)   one == f[s]
    <2>5. of \in Int /\ all \in Int
      <3> HIDE DEF e
      <3>1. of \in Int
        BY <2>1, SumType, Zenon
      <3> QED
        BY <1>3, <3>1
    <2>6. of = 0 + one - 0 /\ of <= all /\ one \in Nat
      BY <1>2, <2>2, <2>3, <2>4, Zenon
    <2> HIDE DEF e, of, all, one
    <2>7. one <= all
      BY <2>5, <2>6
    <2> QED
      BY <2>7 DEF all, one
  <1> QED
    BY <1>3, <1>4

-----------------------------------------------------------------------------
(* The plan and the sizes.                                                 *)

LEMMA LeastOfFour ==
    ASSUME NEW a \in Int, NEW b \in Int, NEW c \in Int, NEW d \in Int
    PROVE  LET m == Min({a, b, c, d})
           IN  m \in {a, b, c, d} /\ m <= a /\ m <= b /\ m <= c /\ m <= d
  <1>1. \E m \in {a, b, c, d} : \A y \in {a, b, c, d} : m <= y
    <2>1. \E m \in {a, b} : m <= a /\ m <= b
      OBVIOUS
    <2>2. \E m \in {c, d} : m <= c /\ m <= d
      OBVIOUS
    <2> QED
      BY <2>1, <2>2
  <1> QED
    BY <1>1 DEF Min

LEMMA LeastOfThree ==
    ASSUME NEW a \in Int, NEW b \in Int, NEW c \in Int
    PROVE  LET m == Min({a, b, c})
           IN  m \in Int /\ m <= a /\ m <= b /\ m <= c
  <1> DEFINE m == Min({a, b, c, c})
  <1>1. m \in {a, b, c, c} /\ m <= a /\ m <= b /\ m <= c
    BY LeastOfFour, Zenon
  <1>2. Min({a, b, c}) = m
    <2>1. {a, b, c} = {a, b, c, c}
      OBVIOUS
    <2> QED
      BY <2>1, Zenon
  <1> HIDE DEF m
  <1> QED
    BY <1>1, <1>2

LEMMA GreatestOfTwo ==
    ASSUME NEW a \in Int, NEW b \in Int
    PROVE  Max({a, b}) = IF a <= b THEN b ELSE a
  BY DEF Max

(* What the division into whole shares leaves is not negative.             *)
LEMMA WholeSharesFit ==
    ASSUME NEW q \in Int, NEW r \in Int, NEW p \in Nat \ {0}, q <= r \div p
    PROVE  q * p <= r
  <1> DEFINE d == r \div p
  <1>1. d \in Int /\ d * p <= r
    OBVIOUS
  <1>2. q * p <= d * p
    BY <1>1
  <1> QED
    BY <1>1, <1>2

LEMMA ProductIsMonotone ==
    ASSUME NEW a \in Int, NEW b \in Int, NEW p \in Nat, a <= b
    PROVE  a * p <= b * p
  OBVIOUS

(* The state a plan is computed from.                                      *)
Held ==
    /\ position \in [Symbols -> Int]
    /\ score \in [Symbols -> 0..MaxScore] /\ short \in [Symbols -> Nat]

Target(s) == Weight(s) * Total
Worth(s, qty) == qty * (Price[s] * Scale)

LEMMA ScaleType ==
    ASSUME Held
    PROVE  /\ Scale \in Nat
           /\ Scored # {} => Scale > 0
  <1>1. score \in [Symbols -> Nat] /\ SumOf(score) \in Nat
    BY SumOfNaturals DEF Held
  <1>2. Scored # {} => SumOf(score) > 0
    BY <1>1, SumOfNaturals DEF Scored
  <1> DEFINE sum == SumOf(score)
  <1> HIDE DEF sum
  <1>3. sum * 100 \in Nat /\ (sum > 0 => sum * 100 > 0)
    BY <1>1 DEF sum
  <1> DEFINE t == sum * 100
  <1> HIDE DEF t
  <1>4. t * NumSymbols \in Nat /\ (t > 0 => t * NumSymbols > 0)
    BY <1>3 DEF t
  <1> QED
    BY <1>2, <1>3, <1>4 DEF Scale, sum, t

LEMMA TargetType ==
    ASSUME Held, NEW s \in Symbols
    PROVE  Target(s) \in Nat
  <1>1. IsFiniteSet(Symbols)
    BY FS_Interval DEF Symbols
  <1>2. IsFiniteSet(Scored)
    BY <1>1, FS_Subset DEF Scored
  <1>3. Cardinality(Scored) \in Nat
    BY <1>2, FS_CardinalityType
  <1>4. score[s] \in Nat /\ 100 - Buffer \in Nat
    BY DEF Held
  <1>5. score[s] * (100 - Buffer) \in Nat
    BY <1>4
  <1>6. Weight(s) \in Nat
    BY <1>3, <1>5 DEF Weight
  <1> QED
    BY <1>6 DEF Target

LEMMA DriftIs ==
    ASSUME Held, NEW book \in [Symbols -> Int], NEW s \in Symbols
    PROVE  /\ Drift(s, book) \in Int
           /\ Drift(s, book) = Worth(s, book[s]) - Target(s)
           /\ Overweight(s, book)  => Drift(s, book) > 0
           /\ Underweight(s, book) => Drift(s, book) < 0
  <1>1. /\ book[s] \in Int /\ Price[s] \in Nat /\ Scale \in Nat
        /\ Target(s) \in Nat /\ Total \in Nat
    BY ScaleType, TargetType DEF Held
  <1>2. book[s] * Price[s] * Scale = book[s] * (Price[s] * Scale)
    BY <1>1
  <1>3. book[s] * (Price[s] * Scale) \in Int
    BY <1>1
  <1>4. Drift(s, book) \in Int /\ Drift(s, book) = Worth(s, book[s]) - Target(s)
    BY <1>1, <1>2, <1>3 DEF Drift, Worth, Target
  <1>5. Band * Total * Scale \in Nat
    BY <1>1
  <1> QED
    BY <1>4, <1>5 DEF Overweight, Underweight

(* A trim is a number of whole shares that are held, cover nothing and     *)
(* leave the position at its target or above.                              *)
LEMMA TrimFits ==
    ASSUME Held, NEW book \in [Symbols -> Int], NEW s \in Scored
    PROVE  /\ Trim(s, book) \in Nat
           /\ Trim(s, book) > 0 =>
                /\ Overweight(s, book)
                /\ Trim(s, book) <= book[s]
                /\ Trim(s, book) <= book[s] - short[s] * Lot
                /\ Worth(s, book[s] - Trim(s, book)) >= Target(s)
  <1> DEFINE cover == short[s] * Lot
             room  == Trimmable(s, book)
             whole == WholeShares(s, Drift(s, book))
             qty   == Min({whole, book[s], room})
             unit  == Price[s] * Scale
  <1>1. s \in Symbols /\ book[s] \in Int /\ cover \in Nat
    BY DEF Scored, Held
  <1>2. Scale \in Nat /\ Scale > 0 /\ Price[s] \in Nat \ {0} /\ Drift(s, book) \in Int
    BY <1>1, ScaleType, DriftIs
  <1>3. unit \in Nat \ {0} /\ unit = Scale * Price[s]
    BY <1>2
  <1>4. whole \in Int /\ whole = Drift(s, book) \div unit
    BY <1>2, <1>3 DEF WholeShares
  <1>5. room = IF 0 <= book[s] - cover THEN book[s] - cover ELSE 0
    BY <1>1, GreatestOfTwo DEF Trimmable
  <1>6. qty \in Int /\ qty <= whole /\ qty <= book[s] /\ qty <= room
    <2>1. room \in Int
      BY <1>1, <1>5
    <2> HIDE DEF whole, room
    <2> QED
      BY <1>1, <1>4, <2>1, LeastOfThree, Zenon
  <1>7. Trim(s, book) = IF Overweight(s, book) THEN Sizeable(s, qty) ELSE 0
    BY DEF Trim
  <1> HIDE DEF qty, room, whole, cover, unit
  <1>8. Trim(s, book) \in Nat /\ (Trim(s, book) > 0 => Overweight(s, book) /\ Trim(s, book) = qty)
    BY <1>6, <1>7 DEF Sizeable
  <1>9. ASSUME Trim(s, book) > 0 PROVE Worth(s, book[s] - Trim(s, book)) >= Target(s)
    <2>1. qty * unit <= Drift(s, book)
      BY <1>2, <1>3, <1>4, <1>6, WholeSharesFit
    <2>2. Drift(s, book) = book[s] * unit - Target(s) /\ Target(s) \in Nat
      BY <1>1, DriftIs, TargetType, Zenon DEF Worth, unit
    <2>3. (book[s] - qty) * unit = book[s] * unit - qty * unit
      BY <1>1, <1>3, <1>6
    <2>4. book[s] * unit \in Int /\ qty * unit \in Int
      BY <1>1, <1>3, <1>6
    <2>5. (book[s] - qty) * unit >= Target(s)
      BY <2>1, <2>2, <2>3, <2>4
    <2> QED
      BY <1>8, <1>9, <2>5 DEF Worth, unit
  <1>10. ASSUME Trim(s, book) > 0 PROVE Trim(s, book) <= book[s] - cover
    BY <1>1, <1>5, <1>6, <1>8, <1>10
  <1> QED
    BY <1>6, <1>8, <1>9, <1>10 DEF cover

(* A top-up keeps to every cap and leaves the position at its target or    *)
(* below.                                                                  *)
LEMMA TopupFits ==
    ASSUME Held, NEW book \in [Symbols -> Int], NEW s \in Scored, NEW running \in Int
    PROVE  /\ Topup(s, running, book) \in Nat
           /\ Topup(s, running, book) > 0 =>
                /\ Underweight(s, book)
                /\ book[s] + Topup(s, running, book) <= MaxPositionQty
                /\ Topup(s, running, book) * Price[s] <= MaxOrderNotional
                /\ running + Topup(s, running, book) * Price[s] <= MaxGross
                /\ Worth(s, book[s] + Topup(s, running, book)) <= Target(s)
  <1> DEFINE whole == WholeShares(s, -Drift(s, book))
             order == OrderRoom(s)
             room  == PositionRoom(s, book)
             gross == GrossRoom(s, running)
             qty   == Min({whole, order, room, gross})
             unit  == Price[s] * Scale
             left  == IF 0 <= MaxGross - running THEN MaxGross - running ELSE 0
  <1>1. s \in Symbols /\ book[s] \in Int
    BY DEF Scored, Held
  <1>2. Scale \in Nat /\ Scale > 0 /\ Price[s] \in Nat \ {0} /\ Drift(s, book) \in Int
    BY <1>1, ScaleType, DriftIs
  <1>3. unit \in Nat \ {0} /\ unit = Scale * Price[s]
    BY <1>2
  <1>4. whole \in Int /\ whole = (-Drift(s, book)) \div unit
    BY <1>2, <1>3 DEF WholeShares
  <1>5. room = IF 0 <= MaxPositionQty - book[s] THEN MaxPositionQty - book[s] ELSE 0
    BY <1>1, GreatestOfTwo DEF PositionRoom
  <1>6. order \in Int /\ order = MaxOrderNotional \div Price[s]
    BY <1>2 DEF OrderRoom
  <1>7. gross \in Int /\ gross = left \div Price[s] /\ left \in Nat
    <2>1. Max({0, MaxGross - running}) = left
      BY GreatestOfTwo
    <2>2. left \in Nat
      OBVIOUS
    <2> HIDE DEF left
    <2> QED
      BY <1>2, <2>1, <2>2 DEF GrossRoom
  <1>8. room \in Int
    BY <1>1, <1>5
  <1> HIDE DEF whole, room, order, gross, unit, left
  <1>9. qty \in Int /\ qty <= whole /\ qty <= order /\ qty <= room /\ qty <= gross
    <2>1. whole \in Int /\ order \in Int /\ gross \in Int
      BY <1>4, <1>6, <1>7
    <2>2. /\ qty \in {whole, order, room, gross}
          /\ qty <= whole /\ qty <= order /\ qty <= room /\ qty <= gross
      BY <1>8, <2>1, LeastOfFour
    <2> QED
      BY <1>8, <2>1, <2>2
  <1>10. Topup(s, running, book) = IF Underweight(s, book) THEN Sizeable(s, qty) ELSE 0
    BY DEF Topup, whole, room, order, gross
  <1> HIDE DEF qty
  <1>11. /\ Topup(s, running, book) \in Nat
         /\ Topup(s, running, book) > 0 => Underweight(s, book) /\ Topup(s, running, book) = qty
    BY <1>9, <1>10 DEF Sizeable
  <1> SUFFICES ASSUME qty > 0, Topup(s, running, book) = qty, Underweight(s, book)
               PROVE  /\ book[s] + qty <= MaxPositionQty
                      /\ qty * Price[s] <= MaxOrderNotional
                      /\ running + qty * Price[s] <= MaxGross
                      /\ Worth(s, book[s] + qty) <= Target(s)
    BY <1>11
  <1>12. book[s] + qty <= MaxPositionQty
    BY <1>1, <1>5, <1>9
  <1>13. qty * Price[s] <= MaxOrderNotional
    <2>1. qty <= MaxOrderNotional \div Price[s]
      BY <1>6, <1>9
    <2> QED
      BY <1>2, <1>9, <2>1, WholeSharesFit
  <1>14. running + qty * Price[s] <= MaxGross
    <2>1. qty * Price[s] <= left
      BY <1>2, <1>7, <1>9, WholeSharesFit
    <2>2. qty * Price[s] \in Int /\ qty * Price[s] > 0
      BY <1>2, <1>9
    <2> QED
      BY <2>1, <2>2 DEF left
  <1>15. Worth(s, book[s] + qty) <= Target(s)
    <2>1. qty * unit <= -Drift(s, book)
      <3>1. qty <= (-Drift(s, book)) \div unit /\ -Drift(s, book) \in Int
        BY <1>2, <1>4, <1>9
      <3> QED
        BY <1>3, <1>9, <3>1, WholeSharesFit
    <2>2. Drift(s, book) = book[s] * unit - Target(s) /\ Target(s) \in Nat
      BY <1>1, DriftIs, TargetType DEF Worth, unit
    <2>3. (book[s] + qty) * unit = book[s] * unit + qty * unit
      BY <1>1, <1>3, <1>9
    <2>4. book[s] * unit \in Int /\ qty * unit \in Int
      BY <1>1, <1>3, <1>9
    <2>5. (book[s] + qty) * unit <= Target(s)
      BY <2>1, <2>2, <2>3, <2>4
    <2> QED
      BY <2>5 DEF Worth, unit
  <1> QED
    BY <1>12, <1>13, <1>14, <1>15

LEMMA ExposureType ==
    ASSUME NEW p \in [Symbols -> Int]
    PROVE  Value(p) \in [Symbols -> Nat] /\ Exposure(p) \in Nat
  <1>1. ASSUME NEW s \in Symbols
        PROVE  (IF p[s] < 0 THEN -p[s] ELSE p[s]) * Price[s] \in Nat
    <2>1. (IF p[s] < 0 THEN -p[s] ELSE p[s]) \in Nat /\ Price[s] \in Nat
      OBVIOUS
    <2> DEFINE q == IF p[s] < 0 THEN -p[s] ELSE p[s]
    <2> HIDE DEF q
    <2>2. q * Price[s] \in Nat
      BY <2>1 DEF q
    <2> QED
      BY <2>2 DEF q
  <1>2. Value(p) \in [Symbols -> Nat]
    BY <1>1 DEF Value
  <1> QED
    BY <1>2, SumOfNaturals DEF Exposure

(* What the sizer gives an entry keeps to every cap.                       *)
LEMMA SizedFits ==
    ASSUME Held, NEW s \in Symbols, NEW base \in Nat
    PROVE  /\ Sized(s, base) \in Nat
           /\ Sized(s, base) > 0 =>
                /\ position[s] + Sized(s, base) <= MaxPositionQty
                /\ Sized(s, base) * Price[s] <= MaxOrderNotional
                /\ Exposure(position) + Sized(s, base) * Price[s] <= MaxGross
  <1> DEFINE order == OrderRoom(s)
             room  == MaxPositionQty - position[s]
             gross == (MaxGross - Exposure(position)) \div Price[s]
             qty   == Min({base, room, order, gross})
  <1>1. position[s] \in Int /\ Price[s] \in Nat \ {0} /\ Exposure(position) \in Nat
    BY ExposureType DEF Held
  <1>2. room \in Int
    BY <1>1
  <1>3. order \in Int /\ order = MaxOrderNotional \div Price[s]
    BY <1>1 DEF OrderRoom
  <1>4. gross \in Int
    BY <1>1
  <1>5. Sized(s, base) = Max({0, qty})
    BY DEF Sized
  <1> HIDE DEF order, gross
  <1>6. qty \in Int /\ qty <= order /\ qty <= room /\ qty <= gross
    <2> HIDE DEF room
    <2>1. order \in Int /\ base \in Int /\ room \in Int /\ gross \in Int
      BY <1>2, <1>3, <1>4
    <2>2. /\ qty \in {base, room, order, gross}
          /\ qty <= room /\ qty <= order /\ qty <= gross
      BY <2>1, LeastOfFour
    <2> QED
      BY <2>1, <2>2
  <1> HIDE DEF qty
  <1>7. Sized(s, base) \in Nat /\ (Sized(s, base) > 0 => Sized(s, base) = qty)
    BY <1>5, <1>6, GreatestOfTwo
  <1>8. qty * Price[s] <= MaxOrderNotional
    <2>1. qty <= MaxOrderNotional \div Price[s]
      BY <1>3, <1>6
    <2>2. qty \in Int /\ MaxOrderNotional \in Int /\ Price[s] \in Nat \ {0}
      BY <1>1, <1>6
    <2> QED
      BY <2>1, <2>2, WholeSharesFit
  <1>9. qty * Price[s] <= MaxGross - Exposure(position)
    BY <1>1, <1>6, WholeSharesFit DEF gross
  <1>10. qty * Price[s] \in Int
    BY <1>1, <1>6
  <1>11. Sized(s, base) > 0 => /\ position[s] + qty <= MaxPositionQty
                               /\ Exposure(position) + qty * Price[s] <= MaxGross
    BY <1>1, <1>6, <1>9, <1>10
  <1> QED
    BY <1>7, <1>8, <1>11

(* running_gross, with the top-ups of the plan.                            *)
Runs(g, Q, book) ==
    /\ g[0] = Exposure(book)
    /\ \A n \in Symbols :
          /\ RunningGross(Q, book)[n - 1] = g[n - 1]
          /\ g[n] = g[n - 1] + (IF n \in Q THEN Topup(n, g[n - 1], book) * Price[n] ELSE 0)

LEMMA RunningIs ==
    ASSUME Held, NEW book \in [Symbols -> Int], NEW Q \in SUBSET Scored
    PROVE  \E g \in [0..NumSymbols -> Int] : Runs(g, Q, book)
  <1> DEFINE gain(n, r) == IF n \in Q THEN Topup(n, r, book) * Price[n] ELSE 0
             h     == [p \in Symbols \X Int |-> p[2] + gain(p[1], p[2])]
             Is(g) == g = [n \in 0..NumSymbols |->
                              IF n = 0 THEN Exposure(book)
                              ELSE LET before == g[n - 1]
                                   IN  before + (IF n \in Q THEN Topup(n, before, book) * Price[n]
                                                 ELSE 0)]
  <1>1. ASSUME NEW n \in Symbols, NEW r \in Int PROVE gain(n, r) \in Int
    <2>1. CASE n \in Q
      <3>1. n \in Scored
        BY <2>1
      <3>2. Topup(n, r, book) \in Nat /\ Price[n] \in Nat
        BY <3>1, TopupFits
      <3> QED
        BY <3>2
    <2> QED
      BY <2>1
  <1>2. h \in [Symbols \X Int -> Int]
    <2> HIDE DEF gain
    <2> QED
      BY <1>1
  <1>3. Exposure(book) \in Int
    BY ExposureType DEF Held
  <1>4. PICK g \in [0..NumSymbols -> Int] :
            g[0] = Exposure(book) /\ \A n \in Symbols : g[n] = h[<<n, g[n - 1]>>]
    <2> HIDE DEF h
    <2> QED
      BY <1>2, <1>3, Recursion, Zenon
  <1>5. ASSUME NEW n \in Symbols
        PROVE  g[n] = g[n - 1] + gain(n, g[n - 1])
    <2>1. <<n, g[n - 1]>> \in Symbols \X Int
      BY DEF Symbols
    <2>2. g[n] = h[<<n, g[n - 1]>>]
      BY <1>4
    <2> HIDE DEF gain
    <2> QED
      BY <2>1, <2>2
  <1>6. Is(g)
    <2>1. \A n \in 0..NumSymbols : g[n] = IF n = 0 THEN Exposure(book)
                                          ELSE g[n - 1] + gain(n, g[n - 1])
      BY <1>4, <1>5 DEF Symbols
    <2>2. g = [n \in 0..NumSymbols |-> IF n = 0 THEN Exposure(book)
                                      ELSE g[n - 1] + gain(n, g[n - 1])]
      <3> HIDE DEF gain
      <3> QED
        BY <2>1
    <2> QED
      BY <2>2, Zenon
  <1> DEFINE running == CHOOSE x : Is(x)
  <1>7. Is(running)
    <2> HIDE DEF Is
    <2> QED
      BY <1>6, Zenon
  <1>8. RunningGross(Q, book) = running
    BY DEF RunningGross
  <1> HIDE DEF running
  <1>9. /\ running[0] = Exposure(book)
        /\ \A n \in Symbols : running[n] = running[n - 1] + gain(n, running[n - 1])
    <2>1. running = [n \in 0..NumSymbols |-> IF n = 0 THEN Exposure(book)
                                      ELSE running[n - 1] + gain(n, running[n - 1])]
      BY <1>7, Zenon
    <2> HIDE DEF gain, Is
    <2> QED
      BY <2>1 DEF Symbols
  <1> DEFINE Agree == {n \in Nat : n <= NumSymbols => running[n] = g[n]}
  <1>10. 0 \in Agree
    BY <1>4, <1>9
  <1>11. ASSUME NEW n \in Nat, n \in Agree PROVE n + 1 \in Agree
    <2> SUFFICES ASSUME n + 1 <= NumSymbols PROVE running[n + 1] = g[n + 1]
      OBVIOUS
    <2>1. n + 1 \in Symbols /\ (n + 1) - 1 = n
      BY DEF Symbols
    <2> HIDE DEF gain, h
    <2>2. running[n + 1] = running[n] + gain(n + 1, running[n])
      BY <1>9, <2>1
    <2>3. g[n + 1] = g[n] + gain(n + 1, g[n])
      BY <1>5, <2>1
    <2>4. running[n] = g[n]
      BY <1>11
    <2> QED
      BY <2>2, <2>3, <2>4
  <1>12. ASSUME NEW n \in Symbols PROVE running[n - 1] = g[n - 1]
    <2>0. n - 1 \in Nat /\ n - 1 <= NumSymbols
      BY DEF Symbols
    <2>1. n - 1 \in Agree
      <3> HIDE DEF Agree
      <3> QED
        BY <1>10, <1>11, <2>0, Induction
    <2> QED
      BY <2>0, <2>1
  <1> HIDE DEF h, Agree, Is
  <1>13. Runs(g, Q, book)
    BY <1>4, <1>5, <1>8, <1>12 DEF Runs
  <1> QED
    BY <1>13, Zenon

-----------------------------------------------------------------------------
(* Types.                                                                  *)

(* What a plan makes of the book it sees.                                  *)
PlannedOn(book, Q) ==
    /\ trims'  = [s \in Symbols |-> IF s \in Q THEN Trim(s, book) ELSE 0]
    /\ topups' = [s \in Symbols |->
                     IF s \in Q THEN Topup(s, RunningGross(Q, book)[s - 1], book) ELSE 0]

LEMMA PlanHasABook ==
    ASSUME Held, Plan
    PROVE  \E book \in [Symbols -> Int], Q \in SUBSET Scored :
               /\ PlannedOn(book, Q)
               /\ clean' => Flat /\ book = position
  <1>1. {position, None} \subseteq [Symbols -> Int]
    BY DEF Held, None
  <1>2. PICK book \in {position, None}, Q \in SUBSET Scored :
            PlannedOn(book, Q) /\ clean' = (Flat /\ book = position)
    BY Zenon DEF Plan, PlannedOn
  <1>3. book \in [Symbols -> Int] /\ (clean' => Flat /\ book = position)
    BY <1>1, <1>2, Zenon
  <1> QED
    BY <1>2, <1>3, Zenon

LEMMA PlanTypes ==
    ASSUME Held, Plan
    PROVE  trims' \in [Symbols -> Nat] /\ topups' \in [Symbols -> Nat]
  <1>0. PICK book \in [Symbols -> Int], Q \in SUBSET Scored : PlannedOn(book, Q)
    BY PlanHasABook, Zenon
  <1>1. /\ trims'  = [s \in Symbols |-> IF s \in Q THEN Trim(s, book) ELSE 0]
        /\ topups' = [s \in Symbols |->
                        IF s \in Q THEN Topup(s, RunningGross(Q, book)[s - 1], book) ELSE 0]
    BY <1>0, Zenon DEF PlannedOn
  <1>2. PICK g \in [0..NumSymbols -> Int] : Runs(g, Q, book)
    BY RunningIs, Zenon
  <1>3. ASSUME NEW s \in Symbols PROVE trims'[s] \in Nat /\ topups'[s] \in Nat
    <2>0. RunningGross(Q, book)[s - 1] = g[s - 1]
      BY <1>2, Zenon DEF Runs
    <2>1. RunningGross(Q, book)[s - 1] \in Int
      BY <2>0 DEF Symbols
    <2>2. CASE s \in Q
      BY <1>1, <2>1, <2>2, TrimFits, TopupFits
    <2>3. CASE s \notin Q
      BY <1>1, <2>3
    <2> QED
      BY <2>2, <2>3
  <1> QED
    BY <1>1, <1>3

(* The variables keep their types: quantities of trims and top-ups, which  *)
(* come out of differences and divisions, are never negative.              *)
THEOREM RebalanceTypes == Spec => []TypeOK
  <1> DEFINE Flags   == breached \in BOOLEAN /\ clean \in BOOLEAN
             Numbers == /\ position \in [Symbols -> Int]
                        /\ buy \in [Symbols -> Nat] /\ sell \in [Symbols -> Nat]
                        /\ score \in [Symbols -> 0..MaxScore] /\ short \in [Symbols -> Nat]
                        /\ pc \in {"before", "send", "after"}
                        /\ trims \in [Symbols -> Nat] /\ topups \in [Symbols -> Nat]
                        /\ signals \in 0..MaxSignals /\ gross0 \in Nat
                        /\ last \in [Symbols -> {"none", "trim", "topup"}]
  <1>1. Init => Flags /\ Numbers
    <2>1. Init => Flags
      BY Zenon DEF Init
    <2>2. Init => Numbers
      BY DEF Init, None
    <2> QED
      BY <2>1, <2>2
  <1>2. Flags /\ Numbers /\ [Next]_vars => Flags' /\ Numbers'
    <2> SUFFICES ASSUME Flags, Numbers, [Next]_vars
                 PROVE  Flags' /\ Numbers'
      OBVIOUS
    <2>1. Flags'
      <3>1. Plan => clean' \in BOOLEAN /\ breached' = breached
        BY Zenon DEF Plan
      <3> QED
        BY <3>1, Zenon DEF Next, vars, orderVars, planVars, SendTrim, SendTopup, Finish,
                           Entry, Exit, Signal, Fill, PnlMoves, EndOfDay
    <2>2. CASE Plan
      <3>1. Held
        BY DEF Held
      <3>2. trims' \in [Symbols -> Nat] /\ topups' \in [Symbols -> Nat]
        BY <2>2, <3>1, PlanTypes
      <3>3. gross0' \in Nat
        BY <2>2, ExposureType DEF Plan
      <3> HIDE DEF Flags
      <3> QED
        BY <2>1, <2>2, <3>2, <3>3 DEF Plan, orderVars
    <2> HIDE DEF Flags
    <2>3. ASSUME NEW s \in Symbols, SendTrim(s) PROVE Numbers'
      BY <2>3 DEF SendTrim, Remember
    <2>4. ASSUME NEW s \in Symbols, SendTopup(s) PROVE Numbers'
      BY <2>4 DEF SendTopup, Remember
    <2>5. CASE Finish
      BY <2>1, <2>5 DEF Finish, None, orderVars
    <2>6. ASSUME NEW s \in Symbols, Entry(s) PROVE Numbers'
      <3>1. \A base \in Nat : Sized(s, base) \in Nat
        BY SizedFits DEF Held
      <3>2. 1..(MaxPositionQty + 1) \subseteq Nat
        OBVIOUS
      <3>3. PICK base \in 1..(MaxPositionQty + 1) :
                buy' = [buy EXCEPT ![s] = @ + Sized(s, base)]
        BY <2>6 DEF Entry
      <3>4. buy' \in [Symbols -> Nat]
        BY <3>1, <3>2, <3>3
      <3> QED
        BY <2>6, <3>4 DEF Entry, Signal, planVars
    <2>7. ASSUME NEW s \in Symbols, Exit(s) PROVE Numbers'
      BY <2>7 DEF Exit, Signal, planVars
    <2>8. ASSUME NEW s \in Symbols, Fill(s) PROVE Numbers'
      BY <2>8 DEF Fill, planVars
    <2>9. CASE PnlMoves
      BY <2>1, <2>9 DEF PnlMoves, orderVars, planVars
    <2>10. CASE EndOfDay
      BY <2>1, <2>10 DEF EndOfDay, None
    <2>11. CASE UNCHANGED vars
      BY <2>1, <2>11 DEF vars, orderVars, planVars
    <2> QED
      BY <2>1, <2>2, <2>3, <2>4, <2>5, <2>6, <2>7, <2>8, <2>9, <2>10, <2>11 DEF Next
  <1>3. TypeOK <=> Flags /\ Numbers
    BY DEF TypeOK
  <1> QED
    BY <1>1, <1>2, <1>3, PTL DEF Spec

-----------------------------------------------------------------------------
(* The invariants.                                                         *)

(* What the positions, the orders in flight and the top-ups still to send  *)
(* come to, at most.                                                       *)
Claim     == [s \in Symbols |-> (position[s] + buy[s] + topups[s]) * Price[s]]
Committed == SumOf(Claim)

(* A trim that waits for its turn sells neither shares that are not held   *)
(* nor such as cover a short call, whatever is filled by then.             *)
TrimInv ==
    pc = "send" /\ clean =>
        \A s \in Symbols :
            /\ position[s] - sell[s] - trims[s] >= 0
            /\ trims[s] > 0 => position[s] - sell[s] - trims[s] >= short[s] * Lot

(* A top-up that waits for its turn is within the caps of the order and of *)
(* the position, and all that wait are within the cap of the exposure.     *)
TopupInv ==
    pc = "send" /\ clean =>
        /\ \A s \in Symbols : topups[s] > 0 =>
               /\ position[s] + buy[s] + topups[s] <= MaxPositionQty
               /\ topups[s] * Price[s] <= MaxOrderNotional
        /\ Committed <= MaxGross \/ (topups = None /\ Committed <= gross0)

(* A plan trims a symbol or tops it up, never both and neither past its    *)
(* target; and what was trimmed stays above the target, what was topped    *)
(* up below it, whatever part of the orders is filled.                     *)
Lowest(s)  == position[s] - sell[s]
Highest(s) == position[s] + buy[s]

Settled(s) ==
    /\ pc = "send" => ~(trims[s] > 0 /\ topups[s] > 0)
    /\ pc = "send" /\ clean /\ trims[s] > 0  => Worth(s, Lowest(s) - trims[s]) >= Target(s)
    /\ pc = "send" /\ clean /\ topups[s] > 0 => Worth(s, Highest(s) + topups[s]) <= Target(s)
    /\ pc = "send" /\ ~clean => last[s] = "none"
    /\ pc # "send" => trims[s] = 0 /\ topups[s] = 0
    /\ last[s] = "trim"  => Worth(s, Lowest(s)) >= Target(s) /\ topups[s] = 0
    /\ last[s] = "topup" => Worth(s, Highest(s)) <= Target(s) /\ trims[s] = 0

ReversalInv == \A s \in Symbols : Settled(s)

LEMMA FlatMeans ==
    ASSUME Flat, NEW s \in Symbols
    PROVE  position[s] >= 0 /\ buy[s] = 0 /\ sell[s] = 0
  BY DEF Flat

-----------------------------------------------------------------------------
(* Trims.                                                                  *)

(* A step of the plan or of the broker that leaves no position lower than  *)
(* its trims and sells would.                                              *)
LEMMA TrimsShrink ==
    ASSUME TypeOK, TypeOK', TrimInv, pc' = pc, clean' = clean, short' = short,
           \A s \in Symbols :
               /\ trims'[s] \in {trims[s], 0}
               /\ position'[s] - sell'[s] - trims'[s] >= position[s] - sell[s] - trims[s]
    PROVE  TrimInv'
  <1> SUFFICES ASSUME pc = "send", clean, NEW s \in Symbols
               PROVE  /\ position'[s] - sell'[s] - trims'[s] >= 0
                      /\ trims'[s] > 0 => position'[s] - sell'[s] - trims'[s] >= short[s] * Lot
    BY DEF TrimInv
  <1> DEFINE low  == position[s] - sell[s] - trims[s]
             new  == position'[s] - sell'[s] - trims'[s]
             cover == short[s] * Lot
  <1>1. low \in Int /\ new \in Int /\ cover \in Int
    BY DEF TypeOK
  <1>2. low >= 0 /\ (trims[s] > 0 => low >= cover) /\ new >= low /\ trims'[s] \in {trims[s], 0}
    BY DEF TrimInv
  <1> HIDE DEF low, new, cover
  <1>3. new >= 0 /\ (trims'[s] > 0 => new >= cover)
    BY <1>1, <1>2
  <1> QED
    BY <1>3 DEF new, cover

LEMMA PlanTrims ==
    ASSUME TypeOK, Plan
    PROVE  TrimInv'
  <1>1. Held
    BY DEF TypeOK, Held
  <1>0. PICK book \in [Symbols -> Int], Q \in SUBSET Scored :
            PlannedOn(book, Q) /\ (clean' => Flat /\ book = position)
    BY <1>1, PlanHasABook, Zenon
  <1>3. position' = position /\ sell' = sell /\ short' = short
    BY DEF Plan, orderVars
  <1> SUFFICES ASSUME clean', NEW s \in Symbols
               PROVE  /\ position[s] - sell[s] - trims'[s] >= 0
                      /\ trims'[s] > 0 => position[s] - sell[s] - trims'[s] >= short[s] * Lot
    BY <1>3 DEF TrimInv
  <1>2. /\ Flat /\ position \in [Symbols -> Int]
        /\ trims' = [u \in Symbols |-> IF u \in Q THEN Trim(u, position) ELSE 0]
    BY <1>0, Zenon DEF PlannedOn
  <1>4. position[s] \in Nat /\ sell[s] = 0
    BY <1>2, FlatMeans DEF TypeOK
  <1>5. CASE s \in Q
    <2>1. trims'[s] = Trim(s, position) /\ Trim(s, position) \in Nat
      BY <1>1, <1>2, <1>5, TrimFits
    <2>2. Trim(s, position) > 0 => /\ Trim(s, position) <= position[s]
                                   /\ Trim(s, position) <= position[s] - short[s] * Lot
      BY <1>1, <1>2, <1>5, TrimFits
    <2> DEFINE cover == short[s] * Lot
    <2>3. cover \in Int
      BY DEF TypeOK
    <2> HIDE DEF cover
    <2>4. Trim(s, position) > 0 => Trim(s, position) <= position[s] - cover
      BY <2>2 DEF cover
    <2>5. /\ position[s] - sell[s] - trims'[s] >= 0
          /\ trims'[s] > 0 => position[s] - sell[s] - trims'[s] >= cover
      BY <1>4, <2>1, <2>2, <2>3, <2>4
    <2> QED
      BY <2>5 DEF cover
  <1>6. CASE s \notin Q
    <2>1. trims'[s] = 0
      BY <1>2, <1>6
    <2> QED
      BY <1>4, <2>1
  <1> QED
    BY <1>5, <1>6

(* Trims fit what is held and not covering, in every order of fills.       *)
LEMMA TrimsFit == Spec => []TrimInv
  <1>1. Init => TrimInv
    BY DEF Init, TrimInv
  <1>2. TypeOK /\ TypeOK' /\ TrimInv /\ [Next]_vars => TrimInv'
    <2> SUFFICES ASSUME TypeOK, TypeOK', TrimInv, [Next]_vars
                 PROVE  TrimInv'
      OBVIOUS
    <2>1. CASE Plan
      BY <2>1, PlanTrims
    <2>2. ASSUME NEW s \in Symbols, SendTrim(s) PROVE TrimInv'
      <3>1. \A u \in Symbols :
               /\ trims'[u] \in {trims[u], 0}
               /\ position'[u] - sell'[u] - trims'[u] >= position[u] - sell[u] - trims[u]
        BY <2>2 DEF SendTrim, TypeOK
      <3> QED
        BY <2>2, <3>1, TrimsShrink DEF SendTrim
    <2>3. ASSUME NEW s \in Symbols, SendTopup(s) PROVE TrimInv'
      BY <2>3 DEF SendTopup, TrimInv
    <2>4. CASE Finish \/ EndOfDay
      BY <2>4 DEF Finish, EndOfDay, TrimInv
    <2>5. ASSUME NEW s \in Symbols, Entry(s) \/ Exit(s) PROVE TrimInv'
      BY <2>5 DEF Entry, Exit, Signal, planVars, TrimInv
    <2>6. ASSUME NEW s \in Symbols, Fill(s) PROVE TrimInv'
      <3>1. trims' = trims /\ pc' = pc /\ clean' = clean /\ short' = short
        BY <2>6 DEF Fill, planVars
      <3>2. \A u \in Symbols :
               position'[u] - sell'[u] - trims'[u] >= position[u] - sell[u] - trims[u]
        BY <2>6, <3>1 DEF Fill, TypeOK
      <3> QED
        BY <3>1, <3>2, TrimsShrink
    <2>7. CASE PnlMoves \/ UNCHANGED vars
      BY <2>7 DEF PnlMoves, vars, orderVars, planVars, TrimInv
    <2> QED
      BY <2>1, <2>2, <2>3, <2>4, <2>5, <2>6, <2>7 DEF Next
  <1> QED
    BY <1>1, <1>2, RebalanceTypes, PTL DEF Spec

(* A trim never sells shares that cover a short call: only SendTrim sells  *)
(* while a plan is under way, and what it sends fits.                      *)
THEOREM CoverIsKept == Spec => TrimsKeepCover
  <1>1. TypeOK /\ TrimInv /\ [Next]_vars =>
            \A s \in Symbols : pc = "send" /\ clean /\ sell'[s] > sell[s]
                => position[s] - sell'[s] >= short[s] * Lot
    <2> SUFFICES ASSUME TypeOK, TrimInv, [Next]_vars, NEW s \in Symbols,
                        pc = "send", clean, sell'[s] > sell[s]
                 PROVE  position[s] - sell'[s] >= short[s] * Lot
      OBVIOUS
    <2>1. ASSUME NEW u \in Symbols, SendTrim(u)
          PROVE  position[s] - sell'[s] >= short[s] * Lot
      <3> DEFINE cover == short[s] * Lot
      <3>1. u = s /\ trims[s] > 0 /\ sell'[s] = sell[s] + trims[s]
        BY <2>1 DEF SendTrim, TypeOK
      <3>2. position[s] - sell[s] - trims[s] >= cover /\ cover \in Int
        BY <3>1 DEF TrimInv, TypeOK
      <3> HIDE DEF cover
      <3>3. position[s] - sell'[s] >= cover
        BY <3>1, <3>2 DEF TypeOK
      <3> QED
        BY <3>3 DEF cover
    <2>2. ASSUME NEW u \in Symbols, Fill(u) PROVE FALSE
      BY <2>2 DEF Fill, TypeOK
    <2>3. ASSUME NEW u \in Symbols, SendTopup(u) \/ Entry(u) \/ Exit(u) PROVE FALSE
      BY <2>3 DEF SendTopup, Entry, Exit, Signal, TypeOK
    <2>4. ASSUME Plan \/ Finish \/ PnlMoves \/ EndOfDay \/ UNCHANGED vars PROVE FALSE
      <3>1. sell' = sell
        BY <2>4 DEF Plan, Finish, PnlMoves, EndOfDay, vars, orderVars
      <3> QED
        BY <3>1 DEF TypeOK
    <2> QED
      BY <2>1, <2>2, <2>3, <2>4, Zenon DEF Next
  <1> QED
    BY <1>1, RebalanceTypes, TrimsFit, PTL DEF Spec, TrimsKeepCover

-----------------------------------------------------------------------------
(* Top-ups.                                                                *)

(* A step of the plan or of the broker that commits no more than before.   *)
LEMMA TopupsShrink ==
    ASSUME TypeOK, TypeOK', TopupInv, pc' = pc, clean' = clean, gross0' = gross0,
           \A s \in Symbols :
               /\ topups'[s] \in {topups[s], 0}
               /\ position'[s] + buy'[s] + topups'[s] <= position[s] + buy[s] + topups[s]
    PROVE  TopupInv'
  <1> SUFFICES ASSUME pc = "send", clean PROVE TopupInv'
    BY DEF TopupInv
  <1>1. Claim \in [Symbols -> Int] /\ Claim' \in [Symbols -> Int]
    BY DEF Claim, TypeOK
  <1>2. ASSUME NEW s \in Symbols PROVE Claim'[s] <= Claim[s]
    <2>1. /\ position'[s] + buy'[s] + topups'[s] \in Int
          /\ position[s] + buy[s] + topups[s] \in Int /\ Price[s] \in Nat
      BY DEF TypeOK
    <2> QED
      BY <2>1, ProductIsMonotone DEF Claim
  <1>3. Committed' <= Committed /\ Committed \in Int /\ Committed' \in Int
    <2>1. SumOf(Claim') <= SumOf(Claim) /\ SumOf(Claim) \in Int /\ SumOf(Claim') \in Int
      <3> HIDE DEF Claim
      <3> QED
        BY <1>1, <1>2, SumMonotone, SumType
    <2>2. Committed = SumOf(Claim) /\ Committed' = SumOf(Claim')
      BY DEF Committed, Claim
    <2> QED
      BY <2>1, <2>2
  <1>4. ASSUME NEW s \in Symbols, topups'[s] > 0
        PROVE  /\ position'[s] + buy'[s] + topups'[s] <= MaxPositionQty
               /\ topups'[s] * Price[s] <= MaxOrderNotional
    <2>1. topups'[s] = topups[s] /\ topups[s] > 0
      BY <1>4
    <2>2. /\ position[s] + buy[s] + topups[s] <= MaxPositionQty
          /\ topups[s] * Price[s] <= MaxOrderNotional
      BY <2>1 DEF TopupInv
    <2> QED
      BY <2>1, <2>2 DEF TypeOK
  <1>5. Committed' <= MaxGross \/ (topups' = None /\ Committed' <= gross0)
    <2>1. CASE Committed <= MaxGross
      BY <1>3, <2>1
    <2>2. CASE topups = None /\ Committed <= gross0
      <3>1. topups' = None
        BY <2>2 DEF None, TypeOK
      <3> QED
        BY <1>3, <2>2, <3>1 DEF TypeOK
    <2> QED
      BY <2>1, <2>2 DEF TopupInv
  <1> QED
    BY <1>4, <1>5 DEF TopupInv

(* The top-ups of a flat account, added to its exposure, are the running   *)
(* gross exposure after the last symbol.                                   *)
LEMMA PlanTopups ==
    ASSUME TypeOK, TypeOK', Plan
    PROVE  TopupInv'
  <1>1. Held
    BY DEF TypeOK, Held
  <1>0. PICK book \in [Symbols -> Int], Q \in SUBSET Scored :
            PlannedOn(book, Q) /\ (clean' => Flat /\ book = position)
    BY <1>1, PlanHasABook, Zenon
  <1>3. /\ position' = position /\ buy' = buy
        /\ gross0' = Exposure(position)
    BY DEF Plan, orderVars
  <1> SUFFICES ASSUME clean' PROVE TopupInv'
    BY DEF TopupInv
  <1>2. /\ Flat /\ position \in [Symbols -> Int]
        /\ topups' = [s \in Symbols |->
                        IF s \in Q THEN Topup(s, RunningGross(Q, position)[s - 1], position)
                        ELSE 0]
    BY <1>0, Zenon DEF PlannedOn
  <1>4. \A s \in Symbols : position[s] \in Nat /\ buy[s] = 0
    BY <1>2, FlatMeans DEF TypeOK
  <1>5. PICK g \in [0..NumSymbols -> Int] : Runs(g, Q, position)
    BY <1>1, <1>2, RunningIs, Zenon
  <1>6. ASSUME NEW n \in Symbols
        PROVE  /\ g[n - 1] \in Int /\ g[n] \in Int
               /\ topups'[n] \in Nat
               /\ g[n] = g[n - 1] + topups'[n] * Price[n]
               /\ topups'[n] > 0 => /\ position[n] + topups'[n] <= MaxPositionQty
                                    /\ topups'[n] * Price[n] <= MaxOrderNotional
                                    /\ g[n] <= MaxGross
    <2>1. g[n - 1] \in Int /\ g[n] \in Int
      BY DEF Symbols
    <2>2. RunningGross(Q, position)[n - 1] = g[n - 1]
      BY <1>5, Zenon DEF Runs
    <2>3. g[n] = g[n - 1] + (IF n \in Q THEN Topup(n, g[n - 1], position) * Price[n] ELSE 0)
      BY <1>5, Zenon DEF Runs
    <2>4. topups'[n] = IF n \in Q THEN Topup(n, g[n - 1], position) ELSE 0
      BY <1>2, <2>2
    <2>5. CASE n \in Q
      <3>1. topups'[n] = Topup(n, g[n - 1], position) /\ g[n] = g[n - 1] + topups'[n] * Price[n]
        BY <2>3, <2>4, <2>5
      <3>2. n \in Scored
        BY <2>5
      <3>3. /\ topups'[n] \in Nat
            /\ topups'[n] > 0 => /\ position[n] + topups'[n] <= MaxPositionQty
                                 /\ topups'[n] * Price[n] <= MaxOrderNotional
                                 /\ g[n - 1] + topups'[n] * Price[n] <= MaxGross
        BY <1>1, <1>2, <2>1, <3>1, <3>2, TopupFits
      <3> QED
        BY <2>1, <3>1, <3>3
    <2>6. CASE n \notin Q
      BY <2>1, <2>3, <2>4, <2>6
    <2> QED
      BY <2>5, <2>6
  <1>7. PICK c \in [0..NumSymbols -> Int] :
            /\ c[0] = 0 /\ SumOf(Claim') = c[NumSymbols]
            /\ \A n \in Symbols : c[n] = c[n - 1] + Claim'[n]
    <2>1. ASSUME NEW s \in Symbols
          PROVE  (position'[s] + buy'[s] + topups'[s]) * Price[s] \in Int
      <3> DEFINE held == position'[s] + buy'[s] + topups'[s]
      <3>0. position'[s] \in Int /\ buy'[s] \in Int /\ topups'[s] \in Int
        BY DEF TypeOK
      <3>1. held \in Int
        BY <3>0
      <3> HIDE DEF held
      <3>2. Price[s] \in Int
        BY RebalanceAssumption
      <3>3. held * Price[s] \in Int
        BY <3>1, <3>2
      <3> QED
        BY <3>3 DEF held
    <2>2. Claim' \in [Symbols -> Int]
      BY <2>1 DEF Claim
    <2> HIDE DEF Claim
    <2> QED
      BY <2>2, PartialSums
  <1>8. PICK v \in [0..NumSymbols -> Int] :
            /\ v[0] = 0 /\ Exposure(position) = v[NumSymbols]
            /\ \A n \in Symbols : v[n] = v[n - 1] + Value(position)[n]
    <2>0. position \in [Symbols -> Int]
      BY DEF TypeOK
    <2>1. Value(position) \in [Symbols -> Int]
      BY <2>0, ExposureType
    <2> QED
      BY <2>1, PartialSums DEF Exposure
  <1>9. ASSUME NEW n \in Symbols
        PROVE  c[n] - v[n] - g[n] = c[n - 1] - v[n - 1] - g[n - 1]
    <2>1. Claim'[n] = (position[n] + topups'[n]) * Price[n]
      BY <1>3, <1>4, <1>6 DEF Claim, TypeOK
    <2>2. Value(position)[n] = position[n] * Price[n]
      BY <1>4 DEF Value
    <2>3. (position[n] + topups'[n]) * Price[n] = position[n] * Price[n] + topups'[n] * Price[n]
      BY <1>4, <1>6
    <2>4. position[n] * Price[n] \in Int /\ topups'[n] * Price[n] \in Int
      BY <1>4, <1>6
    <2>14. n - 1 \in 0..NumSymbols /\ n \in 0..NumSymbols
      BY DEF Symbols
    <2>5. c[n - 1] \in Int /\ v[n - 1] \in Int /\ c[n] \in Int /\ v[n] \in Int
      BY <2>14, Zenon
    <2>6. c[n] = c[n - 1] + Claim'[n] /\ v[n] = v[n - 1] + Value(position)[n]
      BY <1>7, <1>8
    <2>7. g[n] = g[n - 1] + topups'[n] * Price[n]
      BY <1>6
    <2>10. g[n] \in Int /\ g[n - 1] \in Int
      BY <1>6
    <2> DEFINE x == position[n] * Price[n]
               y == topups'[n] * Price[n]
    <2> HIDE DEF x, y
    <2>8. c[n] = c[n - 1] + (x + y) /\ v[n] = v[n - 1] + x /\ g[n] = g[n - 1] + y
      BY <2>1, <2>2, <2>3, <2>6, <2>7, Zenon DEF x, y
    <2>9. x \in Int /\ y \in Int
      BY <2>4 DEF x, y
    <2> DEFINE c0 == c[n - 1]
               v0 == v[n - 1]
               g0 == g[n - 1]
               c1 == c[n]
               v1 == v[n]
               g1 == g[n]
    <2>11. c1 = c0 + (x + y) /\ v1 = v0 + x /\ g1 = g0 + y
      BY <2>8
    <2>12. c0 \in Int /\ v0 \in Int /\ g0 \in Int
      BY <2>5, <2>10
    <2> HIDE DEF c0, v0, g0, c1, v1, g1
    <2>13. c1 - v1 - g1 = c0 - v0 - g0
      BY <2>9, <2>11, <2>12
    <2> QED
      BY <2>13 DEF c0, v0, g0, c1, v1, g1
  <1> DEFINE Agree == {n \in Nat : n <= NumSymbols =>
                          /\ c[n] - v[n] - g[n] = -g[0]
                          /\ \/ g[n] <= MaxGross
                             \/ g[n] = g[0] /\ \A m \in 1..n : topups'[m] = 0}
  <1>10. g[0] \in Int
    OBVIOUS
  <1>11. 0 \in Agree
    BY <1>7, <1>8, <1>10
  <1>12. ASSUME NEW n \in Nat, n \in Agree PROVE n + 1 \in Agree
    <2> SUFFICES ASSUME n + 1 <= NumSymbols
                 PROVE  /\ c[n + 1] - v[n + 1] - g[n + 1] = -g[0]
                        /\ \/ g[n + 1] <= MaxGross
                           \/ g[n + 1] = g[0] /\ \A m \in 1..(n + 1) : topups'[m] = 0
      OBVIOUS
    <2>1. n + 1 \in Symbols /\ (n + 1) - 1 = n
      BY DEF Symbols
    <2>5. c[n + 1] - v[n + 1] - g[n + 1] = c[(n + 1) - 1] - v[(n + 1) - 1] - g[(n + 1) - 1]
      BY <1>9, <2>1, Zenon
    <2>2. c[n + 1] - v[n + 1] - g[n + 1] = -g[0]
      BY <1>12, <2>1, <2>5
    <2>6. g[n + 1] = g[(n + 1) - 1] + topups'[n + 1] * Price[n + 1]
      BY <1>6, <2>1, Zenon
    <2>3. CASE topups'[n + 1] > 0
      BY <1>6, <2>1, <2>2, <2>3
    <2>4. CASE topups'[n + 1] = 0
      <3>1. g[n + 1] = g[n]
        BY <2>1, <2>4, <2>6
      <3>2. ASSUME NEW m \in 1..(n + 1), \A k \in 1..n : topups'[k] = 0
            PROVE  topups'[m] = 0
        <4>1. m = n + 1 \/ m \in 1..n
          OBVIOUS
        <4> QED
          BY <2>4, <3>2, <4>1
      <3> QED
        BY <1>12, <2>2, <3>1, <3>2
    <2> QED
      BY <1>6, <2>1, <2>3, <2>4
  <1>13. NumSymbols \in Agree
    <2> HIDE DEF Agree
    <2> QED
      BY <1>11, <1>12, Induction
  <1>14. Committed' = g[NumSymbols]
    <2>1. Committed' = c[NumSymbols]
      BY <1>7 DEF Committed, Claim
    <2>2. v[NumSymbols] = g[0]
      BY <1>5, <1>8 DEF Runs
    <2>3. c[NumSymbols] - v[NumSymbols] - g[NumSymbols] = -g[0]
      BY <1>13
    <2>4. c[NumSymbols] \in Int /\ g[NumSymbols] \in Int
      OBVIOUS
    <2> QED
      BY <1>10, <2>1, <2>2, <2>3, <2>4
  <1>15. Committed' <= MaxGross \/ (topups' = None /\ Committed' <= gross0')
    <2>1. CASE g[NumSymbols] <= MaxGross
      BY <1>14, <2>1
    <2>2. CASE g[NumSymbols] = g[0] /\ \A m \in 1..NumSymbols : topups'[m] = 0
      <3>1. topups' = None
        BY <2>2 DEF None, TypeOK, Symbols
      <3>2. Committed' = gross0' /\ Committed' \in Int
        BY <1>3, <1>5, <1>10, <1>14, <2>2 DEF Runs
      <3> QED
        BY <3>1, <3>2
    <2> QED
      BY <1>13, <2>1, <2>2
  <1>16. ASSUME NEW s \in Symbols, topups'[s] > 0
         PROVE  /\ position'[s] + buy'[s] + topups'[s] <= MaxPositionQty
                /\ topups'[s] * Price[s] <= MaxOrderNotional
    <2>1. position'[s] + buy'[s] + topups'[s] = position[s] + topups'[s]
      BY <1>3, <1>4, <1>6
    <2> QED
      BY <1>6, <1>16, <2>1
  <1> QED
    BY <1>15, <1>16 DEF TopupInv

(* The top-ups of a plan keep to the caps, one by one and together, in     *)
(* every order of fills.                                                   *)
LEMMA TopupsFit == Spec => []TopupInv
  <1>1. Init => TopupInv
    BY DEF Init, TopupInv
  <1>2. TypeOK /\ TypeOK' /\ TopupInv /\ TrimInv /\ [Next]_vars => TopupInv'
    <2> SUFFICES ASSUME TypeOK, TypeOK', TopupInv, TrimInv, [Next]_vars
                 PROVE  TopupInv'
      OBVIOUS
    <2>1. CASE Plan
      BY <2>1, PlanTopups
    <2>2. ASSUME NEW s \in Symbols, SendTrim(s) PROVE TopupInv'
      BY <2>2 DEF SendTrim, TopupInv, Committed, Claim
    <2>3. ASSUME NEW s \in Symbols, SendTopup(s) PROVE TopupInv'
      <3>1. pc' = pc /\ clean' = clean /\ gross0' = gross0
        BY <2>3 DEF SendTopup
      <3>2. \A u \in Symbols :
               /\ topups'[u] \in {topups[u], 0}
               /\ position'[u] + buy'[u] + topups'[u] <= position[u] + buy[u] + topups[u]
        BY <2>3 DEF SendTopup, TypeOK
      <3> QED
        BY <3>1, <3>2, TopupsShrink
    <2>4. CASE Finish \/ EndOfDay
      BY <2>4 DEF Finish, EndOfDay, TopupInv
    <2>5. ASSUME NEW s \in Symbols, Entry(s) \/ Exit(s) PROVE TopupInv'
      BY <2>5 DEF Entry, Exit, Signal, planVars, TopupInv
    <2>6. ASSUME NEW s \in Symbols, Fill(s) PROVE TopupInv'
      <3>1. topups' = topups /\ pc' = pc /\ clean' = clean /\ gross0' = gross0
        BY <2>6 DEF Fill, planVars
      <3>2. \A u \in Symbols :
               position'[u] + buy'[u] + topups'[u] <= position[u] + buy[u] + topups[u]
        BY <2>6, <3>1 DEF Fill, TypeOK
      <3> QED
        BY <3>1, <3>2, TopupsShrink
    <2>7. CASE PnlMoves \/ UNCHANGED vars
      BY <2>7 DEF PnlMoves, vars, orderVars, planVars, TopupInv, Committed, Claim
    <2> QED
      BY <2>1, <2>2, <2>3, <2>4, <2>5, <2>6, <2>7 DEF Next
  <1> QED
    BY <1>1, <1>2, RebalanceTypes, TrimsFit, PTL DEF Spec

(* While a plan is under way nothing is held short, so that what is held,  *)
(* and some of what is in flight or waits, is worth no more than all.      *)
LEMMA ExposureIsClaimed ==
    ASSUME TypeOK, TrimInv, pc = "send", clean,
           NEW p \in [Symbols -> Int],
           \A s \in Symbols : p[s] >= position[s] /\ p[s] <= position[s] + buy[s] + topups[s]
    PROVE  /\ Exposure(p) <= Committed
           /\ Exposure(p) \in Nat /\ Committed \in Int
  <1>1. Claim \in [Symbols -> Int] /\ Value(p) \in [Symbols -> Int] /\ Exposure(p) \in Nat
    <2>1. Claim \in [Symbols -> Int]
      BY DEF Claim, TypeOK
    <2>2. Value(p) \in [Symbols -> Nat] /\ Exposure(p) \in Nat
      BY ExposureType
    <2> QED
      BY <2>1, <2>2
  <1>2. ASSUME NEW s \in Symbols PROVE Value(p)[s] <= Claim[s]
    <2>1. position[s] >= 0
      BY DEF TrimInv, TypeOK
    <2>2. p[s] >= 0
      BY <2>1 DEF TypeOK
    <2>3. Value(p)[s] = p[s] * Price[s]
      BY <2>2 DEF Value
    <2>4. position[s] + buy[s] + topups[s] \in Int /\ Price[s] \in Nat
      BY DEF TypeOK
    <2>5. p[s] * Price[s] <= (position[s] + buy[s] + topups[s]) * Price[s]
      BY <2>4, ProductIsMonotone
    <2> QED
      BY <2>3, <2>5 DEF Claim
  <1> HIDE DEF Claim
  <1>3. SumOf(Value(p)) <= SumOf(Claim) /\ SumOf(Claim) \in Int
    BY <1>1, <1>2, SumMonotone, SumType
  <1> QED
    BY <1>1, <1>3 DEF Exposure, Committed

LEMMA TopupsPassTheCore ==
    ASSUME TypeOK, TrimInv, TopupInv
    PROVE  TopupsPass
  <1> SUFFICES ASSUME pc = "send", clean, breached = FALSE, NEW s \in Symbols, topups[s] > 0
               PROVE  Passes("BUY", s, topups[s])
    <2>1. breached \in BOOLEAN
      BY DEF TypeOK
    <2> QED
      BY <2>1 DEF TopupsPass
  <1> DEFINE p == [position EXCEPT ![s] = @ + topups[s]]
  <1>1. /\ position[s] \in Int /\ topups[s] \in Nat /\ Price[s] \in Nat
        /\ position \in [Symbols -> Int]
    BY DEF TypeOK
  <1>2. \A u \in Symbols : position[u] >= 0
    BY DEF TrimInv, TypeOK
  <1>3. Exposure(p) <= Committed /\ Exposure(p) \in Nat /\ Committed \in Int
    <2>1. p \in [Symbols -> Int]
      BY <1>1
    <2>2. \A u \in Symbols : p[u] >= position[u] /\ p[u] <= position[u] + buy[u] + topups[u]
      BY DEF TypeOK
    <2> HIDE DEF p
    <2> QED
      BY <2>1, <2>2, ExposureIsClaimed
  <1>4. Committed <= MaxGross
    <2>1. topups # None
      BY DEF None
    <2> QED
      BY <2>1 DEF TopupInv
  <1>5. Exposure(p) = Exposure(position) + topups[s] * Price[s]
    <2>1. Value(position) \in [Symbols -> Int]
      BY <1>1, ExposureType
    <2>2. Value(position)[s] = position[s] * Price[s]
      BY <1>1, <1>2 DEF Value
    <2>3. Value(p) = [Value(position) EXCEPT ![s] = (position[s] + topups[s]) * Price[s]]
      <3> DEFINE e == [Value(position) EXCEPT ![s] = (position[s] + topups[s]) * Price[s]]
      <3>1. ASSUME NEW u \in Symbols PROVE Value(p)[u] = e[u]
        <4>1. CASE u = s
          <5>1. p[s] = position[s] + topups[s] /\ ~(p[s] < 0)
            BY <1>1, <1>2
          <5>2. Value(p)[s] = p[s] * Price[s]
            BY <5>1 DEF Value
          <5>3. e[s] = (position[s] + topups[s]) * Price[s]
            BY <2>1
          <5> QED
            BY <4>1, <5>1, <5>2, <5>3
        <4>2. CASE u # s
          <5>1. p[u] = position[u]
            BY <1>1, <4>2
          <5>2. e[u] = Value(position)[u]
            BY <2>1, <4>2
          <5> QED
            BY <5>1, <5>2 DEF Value
        <4> QED
          BY <4>1, <4>2
      <3>2. Value(p) = [u \in Symbols |-> Value(p)[u]]
        BY DEF Value
      <3>3. e = [u \in Symbols |-> e[u]]
        BY <2>1
      <3> HIDE DEF e, p
      <3>4. Value(p) = e
        BY <3>1, <3>2, <3>3
      <3> QED
        BY <3>4 DEF e
    <2>4. (position[s] + topups[s]) * Price[s] = position[s] * Price[s] + topups[s] * Price[s]
      BY <1>1
    <2>5. position[s] * Price[s] \in Int /\ topups[s] * Price[s] \in Int
      BY <1>1
    <2>6. (position[s] + topups[s]) * Price[s] \in Int
      BY <2>4, <2>5
    <2>7. SumOf(Value(p)) = SumOf(Value(position)) + (position[s] + topups[s]) * Price[s]
                                - Value(position)[s]
      BY <2>1, <2>3, <2>6, SumExcept
    <2>8. SumOf(Value(position)) \in Int
      BY <2>1, SumType
    <2> QED
      BY <2>2, <2>4, <2>5, <2>7, <2>8 DEF Exposure
  <1>6. Resulting("BUY", topups[s], position[s]) \in 0..MaxPositionQty
    <2>1. position[s] + buy[s] + topups[s] <= MaxPositionQty /\ buy[s] \in Nat
      BY DEF TopupInv, TypeOK
    <2> QED
      BY <1>1, <1>2, <2>1 DEF Resulting
  <1>7. WithinCaps(topups[s] * Price[s], Exposure(position), breached)
    <2>1. topups[s] * Price[s] <= MaxOrderNotional
      BY DEF TopupInv
    <2>2. Exposure(position) + topups[s] * Price[s] <= MaxGross
      BY <1>3, <1>4, <1>5
    <2> QED
      BY <2>1, <2>2 DEF WithinCaps
  <1> QED
    BY <1>6, <1>7 DEF Passes, Approved

(* The planner, the sizer and the risk core agree on the caps, whatever is *)
(* filled between the plan and the order.                                  *)
THEOREM CapsAlwaysHold == Spec => []CapsHold
  <1>1. TypeOK /\ TrimInv /\ TopupInv => PlanWithinGross
    <2> SUFFICES ASSUME TypeOK, TrimInv, TopupInv, pc = "send", clean
                 PROVE  Exposure([s \in Symbols |-> position[s] + buy[s]])
                            <= Max({MaxGross, gross0})
      BY DEF PlanWithinGross
    <2> DEFINE p == [s \in Symbols |-> position[s] + buy[s]]
    <2>1. p \in [Symbols -> Int]
      BY DEF TypeOK
    <2>2. \A s \in Symbols : p[s] >= position[s] /\ p[s] <= position[s] + buy[s] + topups[s]
      BY DEF TypeOK
    <2> HIDE DEF p
    <2>3. Exposure(p) <= Committed /\ Exposure(p) \in Nat /\ Committed \in Int
      BY <2>1, <2>2, ExposureIsClaimed
    <2>4. Committed <= MaxGross \/ Committed <= gross0
      BY DEF TopupInv
    <2>5. MaxGross \in Int /\ gross0 \in Int
      BY CapAssumption DEF TypeOK
    <2>6. Max({MaxGross, gross0}) = IF MaxGross <= gross0 THEN gross0 ELSE MaxGross
      BY <2>5, GreatestOfTwo, Zenon
    <2>7. Exposure(p) <= Max({MaxGross, gross0})
      BY <2>3, <2>4, <2>5, <2>6
    <2> QED
      BY <2>7 DEF p
  <1>2. TypeOK => SizedEntriesPass
    <2> SUFFICES ASSUME TypeOK, NEW s \in Symbols, position[s] >= 0, ~breached,
                        NEW base \in 1..(MaxPositionQty + 1), Sized(s, base) > 0
                 PROVE  Passes("BUY", s, Sized(s, base))
      BY DEF SizedEntriesPass
    <2>1. base \in Nat /\ position[s] \in Int
      BY DEF TypeOK
    <2>2. /\ Sized(s, base) \in Nat
          /\ position[s] + Sized(s, base) <= MaxPositionQty
          /\ Sized(s, base) * Price[s] <= MaxOrderNotional
          /\ Exposure(position) + Sized(s, base) * Price[s] <= MaxGross
      BY <2>1, SizedFits DEF TypeOK, Held
    <2>3. Resulting("BUY", Sized(s, base), position[s]) \in 0..MaxPositionQty
      BY <2>1, <2>2 DEF Resulting
    <2>4. WithinCaps(Sized(s, base) * Price[s], Exposure(position), breached)
      BY <2>2 DEF WithinCaps
    <2> QED
      BY <2>3, <2>4 DEF Passes, Approved
  <1>3. TypeOK /\ TrimInv /\ TopupInv => CapsHold
    BY <1>1, <1>2, TopupsPassTheCore DEF CapsHold
  <1> QED
    BY <1>3, RebalanceTypes, TrimsFit, TopupsFit, PTL

-----------------------------------------------------------------------------
(* Reversals.                                                              *)

LEMMA WorthIsMonotone ==
    ASSUME Held, NEW s \in Symbols, NEW a \in Int, NEW b \in Int, a <= b
    PROVE  /\ Worth(s, a) \in Int /\ Worth(s, b) \in Int
           /\ Worth(s, a) <= Worth(s, b)
  <1> DEFINE unit == Price[s] * Scale
  <1>1. unit \in Nat
    BY ScaleType
  <1> HIDE DEF unit
  <1>2. a * unit \in Int /\ b * unit \in Int /\ a * unit <= b * unit
    BY <1>1, ProductIsMonotone
  <1> QED
    BY <1>2 DEF Worth, unit

LEMMA TargetsAreFixed ==
    ASSUME score' = score
    PROVE  \A s \in Symbols : /\ Target(s)' = Target(s)
                              /\ \A q \in Int : Worth(s, q)' = Worth(s, q)
  BY DEF Target, Weight, Worth, Scale, Scored

(* A step that changes neither what was last traded nor takes the orders   *)
(* of a symbol any further from its target.                                *)
LEMMA StaysSettled ==
    ASSUME TypeOK, TypeOK', NEW s \in Symbols, Settled(s),
           score' = score, clean' = clean, last'[s] = last[s],
           pc' = pc \/ (pc' # "send" /\ trims'[s] = 0 /\ topups'[s] = 0),
           trims'[s] \in {trims[s], 0}, topups'[s] \in {topups[s], 0},
           Lowest(s)' >= Lowest(s), Highest(s)' <= Highest(s)
    PROVE  Settled(s)'
  <1>1. Held
    BY DEF TypeOK, Held
  <1>2. /\ Lowest(s) \in Int /\ Lowest(s)' \in Int
        /\ Highest(s) \in Int /\ Highest(s)' \in Int
        /\ trims[s] \in Nat /\ topups[s] \in Nat /\ Target(s) \in Nat
    BY <1>1, TargetType DEF TypeOK, Lowest, Highest
  <1>3. /\ Worth(s, Lowest(s)) \in Int /\ Worth(s, Lowest(s)') \in Int
        /\ Worth(s, Lowest(s)) <= Worth(s, Lowest(s)')
    BY <1>1, <1>2, WorthIsMonotone
  <1>4. /\ Worth(s, Highest(s)) \in Int /\ Worth(s, Highest(s)') \in Int
        /\ Worth(s, Highest(s)') <= Worth(s, Highest(s))
    BY <1>1, <1>2, WorthIsMonotone
  <1>5. /\ Worth(s, Lowest(s) - trims[s]) \in Int /\ Worth(s, Lowest(s)' - trims[s]) \in Int
        /\ Worth(s, Lowest(s) - trims[s]) <= Worth(s, Lowest(s)' - trims[s])
    BY <1>1, <1>2, WorthIsMonotone
  <1>6. /\ Worth(s, Highest(s) + topups[s]) \in Int /\ Worth(s, Highest(s)' + topups[s]) \in Int
        /\ Worth(s, Highest(s)' + topups[s]) <= Worth(s, Highest(s) + topups[s])
    BY <1>1, <1>2, WorthIsMonotone
  <1> DEFINE low  == Lowest(s)'
             high == Highest(s)'
  <1>7. /\ Target(s)' = Target(s)
        /\ Worth(s, Lowest(s))' = Worth(s, low)
        /\ Worth(s, Highest(s))' = Worth(s, high)
        /\ Worth(s, Lowest(s) - trims[s])' = Worth(s, low - trims'[s])
        /\ Worth(s, Highest(s) + topups[s])' = Worth(s, high + topups'[s])
    <2>1. Scale' = Scale
      BY DEF Scale
    <2> QED
      BY <2>1, TargetsAreFixed DEF Worth
  <1> HIDE DEF low, high
  <1>8. trims'[s] > 0 => trims'[s] = trims[s] /\ trims[s] > 0 /\ pc' = pc
    BY <1>2, Settled(s) DEF TypeOK
  <1>9. topups'[s] > 0 => topups'[s] = topups[s] /\ topups[s] > 0 /\ pc' = pc
    BY <1>2, Settled(s) DEF TypeOK
  <1>10. (pc = "send" => ~(trims[s] > 0 /\ topups[s] > 0))'
    BY <1>8, <1>9 DEF Settled
  <1>11. ASSUME pc' = "send", clean', trims'[s] > 0
         PROVE  Worth(s, low - trims'[s]) >= Target(s)
    <2>1. Worth(s, Lowest(s) - trims[s]) >= Target(s)
      BY <1>8, <1>11 DEF Settled
    <2>2. Worth(s, low - trims[s]) >= Target(s)
      BY <1>2, <1>5, <2>1 DEF low
    <2> QED
      BY <1>8, <1>11, <2>2
  <1>12. ASSUME pc' = "send", clean', topups'[s] > 0
         PROVE  Worth(s, high + topups'[s]) <= Target(s)
    <2>1. Worth(s, Highest(s) + topups[s]) <= Target(s)
      BY <1>9, <1>12 DEF Settled
    <2>2. Worth(s, high + topups[s]) <= Target(s)
      BY <1>2, <1>6, <2>1 DEF high
    <2> QED
      BY <1>9, <1>12, <2>2
  <1>13. (pc = "send" /\ ~clean => last[s] = "none")'
    BY DEF Settled
  <1>14. (pc # "send" => trims[s] = 0 /\ topups[s] = 0)'
    BY DEF Settled
  <1>15. ASSUME last'[s] = "trim" PROVE Worth(s, low) >= Target(s) /\ topups'[s] = 0
    <2>1. Worth(s, Lowest(s)) >= Target(s) /\ topups[s] = 0
      BY <1>15 DEF Settled
    <2> QED
      BY <1>2, <1>3, <2>1 DEF low
  <1>16. ASSUME last'[s] = "topup" PROVE Worth(s, high) <= Target(s) /\ trims'[s] = 0
    <2>1. Worth(s, Highest(s)) <= Target(s) /\ trims[s] = 0
      BY <1>16 DEF Settled
    <2> QED
      BY <1>2, <1>4, <2>1 DEF high
  <1> QED
    BY <1>7, <1>10, <1>11, <1>12, <1>13, <1>14, <1>15, <1>16, Zenon DEF Settled

LEMMA PlanSettles ==
    ASSUME TypeOK, TypeOK', Plan, NEW s \in Symbols, Settled(s)
    PROVE  Settled(s)'
  <1>1. Held
    BY DEF TypeOK, Held
  <1>0. PICK book \in [Symbols -> Int], Q \in SUBSET Scored :
            PlannedOn(book, Q) /\ (clean' => Flat /\ book = position)
    BY <1>1, PlanHasABook, Zenon
  <1>2. /\ trims'  = [u \in Symbols |-> IF u \in Q THEN Trim(u, book) ELSE 0]
        /\ topups' = [u \in Symbols |->
                        IF u \in Q THEN Topup(u, RunningGross(Q, book)[u - 1], book) ELSE 0]
    BY <1>0, Zenon DEF PlannedOn
  <1>3. PICK g \in [0..NumSymbols -> Int] : Runs(g, Q, book)
    BY <1>1, RunningIs, Zenon
  <1>4. /\ position' = position /\ buy' = buy /\ sell' = sell /\ score' = score
        /\ pc' = "send"
        /\ last' = IF clean' THEN last ELSE [u \in Symbols |-> "none"]
    BY DEF Plan, orderVars
  <1>5. /\ book[s] \in Int /\ Drift(s, book) \in Int /\ Target(s) \in Nat
        /\ Drift(s, book) = Worth(s, book[s]) - Target(s)
        /\ Overweight(s, book) => Drift(s, book) > 0
        /\ Underweight(s, book) => Drift(s, book) < 0
    BY <1>1, DriftIs, TargetType DEF Held
  <1>6. /\ trims'[s] > 0 => Overweight(s, book) /\ Worth(s, book[s] - trims'[s]) >= Target(s)
        /\ topups'[s] > 0 => Underweight(s, book) /\ Worth(s, book[s] + topups'[s]) <= Target(s)
    <2>1. CASE s \in Q
      <3>1. RunningGross(Q, book)[s - 1] = g[s - 1]
        BY <1>3, Zenon DEF Runs
      <3>2. g[s - 1] \in Int
        BY DEF Symbols
      <3>3. s \in Scored /\ trims'[s] = Trim(s, book) /\ topups'[s] = Topup(s, g[s - 1], book)
        BY <1>2, <2>1, <3>1
      <3> QED
        BY <1>1, <3>2, <3>3, TrimFits, TopupFits
    <2>2. CASE s \notin Q
      BY <1>2, <2>2
    <2> QED
      BY <2>1, <2>2
  <1>7. /\ trims'[s] \in Nat /\ topups'[s] \in Nat
        /\ ~(trims'[s] > 0 /\ topups'[s] > 0)
    <2>1. trims'[s] \in Nat /\ topups'[s] \in Nat
      BY DEF TypeOK
    <2>2. ~(Overweight(s, book) /\ Underweight(s, book))
      BY <1>5
    <2>3. ~(trims'[s] > 0 /\ topups'[s] > 0)
      BY <1>6, <2>2, Zenon
    <2> QED
      BY <2>1, <2>3
  <1>8. /\ Target(s)' = Target(s) /\ \A q \in Int : Worth(s, q)' = Worth(s, q)
        /\ Scale' = Scale
    BY <1>4, TargetsAreFixed DEF Scale
  <1>9. Lowest(s)' = Lowest(s) /\ Highest(s)' = Highest(s)
    BY <1>4 DEF Lowest, Highest
  <1>10. CASE clean'
    <2>0. Flat /\ book = position
      BY <1>0, <1>10, Zenon
    <2>1. last' = last /\ clean' /\ buy[s] = 0 /\ sell[s] = 0
      BY <1>4, <1>10, <2>0, FlatMeans
    <2>2. Lowest(s) = position[s] /\ Highest(s) = position[s]
      BY <1>5, <2>0, <2>1 DEF Lowest, Highest
    <2>3. Worth(s, position[s]) \in Int
      BY <1>1, <1>5, <2>0, WorthIsMonotone
    <2>4. ASSUME last[s] = "trim"
          PROVE  Worth(s, position[s]) >= Target(s) /\ topups'[s] = 0
      <3>1. Worth(s, position[s]) >= Target(s)
        BY <2>2, <2>4 DEF Settled
      <3>2. ~Underweight(s, book)
        BY <1>5, <2>0, <2>3, <3>1
      <3> QED
        BY <1>6, <1>7, <3>1, <3>2
    <2>5. ASSUME last[s] = "topup"
          PROVE  Worth(s, position[s]) <= Target(s) /\ trims'[s] = 0
      <3>1. Worth(s, position[s]) <= Target(s)
        BY <2>2, <2>5 DEF Settled
      <3>2. ~Overweight(s, book)
        BY <1>5, <2>0, <2>3, <3>1
      <3> QED
        BY <1>6, <1>7, <3>1, <3>2
    <2>6. /\ Worth(s, Lowest(s) - trims[s])' = Worth(s, position[s] - trims'[s])
          /\ Worth(s, Highest(s) + topups[s])' = Worth(s, position[s] + topups'[s])
          /\ Worth(s, Lowest(s))' = Worth(s, position[s])
          /\ Worth(s, Highest(s))' = Worth(s, position[s])
      BY <1>8, <1>9, <2>2 DEF Worth
    <2> QED
      BY <1>4, <1>6, <1>7, <1>8, <1>10, <2>0, <2>4, <2>5, <2>6, Zenon DEF Settled
  <1>11. CASE ~clean'
    <2>1. ~clean' /\ last'[s] = "none"
      BY <1>4, <1>11
    <2> QED
      BY <1>4, <1>7, <2>1 DEF Settled
  <1> QED
    BY <1>10, <1>11

LEMMA TrimSettles ==
    ASSUME TypeOK, TypeOK', NEW s \in Symbols, SendTrim(s), Settled(s)
    PROVE  Settled(s)'
  <1>1. /\ score' = score /\ clean' = clean /\ pc' = pc /\ pc = "send"
        /\ position' = position /\ buy' = buy /\ topups' = topups
        /\ trims'[s] = 0 /\ trims[s] > 0
    BY DEF SendTrim, TypeOK
  <1>2. CASE sell' = sell /\ last' = last
    <2>1. Lowest(s)' >= Lowest(s) /\ Highest(s)' <= Highest(s)
      BY <1>1, <1>2 DEF Lowest, Highest, TypeOK
    <2> QED
      BY <1>1, <1>2, <2>1, StaysSettled
  <1>3. CASE sell' = [sell EXCEPT ![s] = @ + trims[s]] /\ Remember(s, "trim")
    <2>1. /\ position[s] \in Int /\ sell[s] \in Nat /\ trims[s] \in Nat
          /\ topups[s] \in Nat /\ sell'[s] = sell[s] + trims[s]
      BY <1>3 DEF TypeOK
    <2>2. topups[s] = 0
      BY <1>1, <2>1 DEF Settled
    <2>3. Lowest(s)' = Lowest(s) - trims[s]
      BY <1>1, <2>1 DEF Lowest
    <2>4. Target(s)' = Target(s) /\ Worth(s, Lowest(s))' = Worth(s, Lowest(s) - trims[s])
      <3>1. Scale' = Scale
        BY <1>1 DEF Scale
      <3> QED
        BY <1>1, <2>3, <3>1, TargetsAreFixed DEF Worth
    <2>5. CASE clean
      <3>1. last'[s] = "trim"
        BY <1>3, <2>5 DEF Remember, TypeOK
      <3>2. Worth(s, Lowest(s) - trims[s]) >= Target(s)
        BY <1>1, <2>5 DEF Settled
      <3> QED
        BY <1>1, <2>2, <2>4, <2>5, <3>1, <3>2 DEF Settled
    <2>6. CASE ~clean
      <3>1. last'[s] = "none"
        BY <1>1, <1>3, <2>6 DEF Remember, Settled
      <3> QED
        BY <1>1, <2>2, <2>6, <3>1 DEF Settled
    <2> QED
      BY <2>5, <2>6
  <1> QED
    BY <1>2, <1>3 DEF SendTrim

LEMMA TopupSettles ==
    ASSUME TypeOK, TypeOK', NEW s \in Symbols, SendTopup(s), Settled(s)
    PROVE  Settled(s)'
  <1>1. /\ score' = score /\ clean' = clean /\ pc' = pc /\ pc = "send"
        /\ position' = position /\ sell' = sell /\ trims' = trims
        /\ topups'[s] = 0 /\ topups[s] > 0
    BY DEF SendTopup, TypeOK
  <1>2. CASE buy' = buy /\ last' = last
    <2>1. Lowest(s)' >= Lowest(s) /\ Highest(s)' <= Highest(s)
      BY <1>1, <1>2 DEF Lowest, Highest, TypeOK
    <2> QED
      BY <1>1, <1>2, <2>1, StaysSettled
  <1>3. CASE buy' = [buy EXCEPT ![s] = @ + topups[s]] /\ Remember(s, "topup")
    <2>1. /\ position[s] \in Int /\ buy[s] \in Nat /\ topups[s] \in Nat
          /\ trims[s] \in Nat /\ buy'[s] = buy[s] + topups[s]
      BY <1>3 DEF TypeOK
    <2>2. trims[s] = 0
      BY <1>1, <2>1 DEF Settled
    <2>3. Highest(s)' = Highest(s) + topups[s]
      BY <1>1, <2>1 DEF Highest
    <2>4. Target(s)' = Target(s) /\ Worth(s, Highest(s))' = Worth(s, Highest(s) + topups[s])
      <3>1. Scale' = Scale
        BY <1>1 DEF Scale
      <3> QED
        BY <1>1, <2>3, <3>1, TargetsAreFixed DEF Worth
    <2>5. CASE clean
      <3>1. last'[s] = "topup"
        BY <1>3, <2>5 DEF Remember, TypeOK
      <3>2. Worth(s, Highest(s) + topups[s]) <= Target(s)
        BY <1>1, <2>5 DEF Settled
      <3> QED
        BY <1>1, <2>2, <2>4, <2>5, <3>1, <3>2 DEF Settled
    <2>6. CASE ~clean
      <3>1. last'[s] = "none"
        BY <1>1, <1>3, <2>6 DEF Remember, Settled
      <3> QED
        BY <1>1, <2>2, <2>6, <3>1 DEF Settled
    <2> QED
      BY <2>5, <2>6
  <1> QED
    BY <1>2, <1>3 DEF SendTopup

(* A signal settles its symbol: it is not of a plan any more.              *)
LEMMA SignalSettles ==
    ASSUME TypeOK, TypeOK', NEW s \in Symbols, NEW u \in Symbols, Entry(u) \/ Exit(u), Settled(s)
    PROVE  Settled(s)'
  <1>1. /\ score' = score /\ clean' = clean /\ pc' = pc /\ pc # "send"
        /\ position' = position /\ trims' = trims /\ topups' = topups
        /\ last' = [last EXCEPT ![u] = "none"]
    BY DEF Entry, Exit, Signal, planVars
  <1>2. CASE s = u
    <2>1. last'[s] = "none"
      BY <1>1, <1>2 DEF TypeOK
    <2> QED
      BY <1>1, <2>1 DEF Settled
  <1>3. CASE s # u
    <2>1. last'[s] = last[s] /\ buy'[s] = buy[s] /\ sell'[s] = sell[s]
      BY <1>1, <1>3 DEF Entry, Exit, TypeOK
    <2>2. Lowest(s)' >= Lowest(s) /\ Highest(s)' <= Highest(s)
      BY <1>1, <2>1 DEF Lowest, Highest, TypeOK
    <2> QED
      BY <1>1, <2>1, <2>2, StaysSettled
  <1> QED
    BY <1>2, <1>3

LEMMA PlansSettle == Spec => []ReversalInv
  <1>1. Init => ReversalInv
    <2> SUFFICES ASSUME Init, NEW s \in Symbols PROVE Settled(s)
      BY DEF ReversalInv
    <2>1. pc = "before" /\ trims[s] = 0 /\ topups[s] = 0 /\ last[s] = "none"
      BY DEF Init, None
    <2> QED
      BY <2>1 DEF Settled
  <1>2. TypeOK /\ TypeOK' /\ ReversalInv /\ [Next]_vars => ReversalInv'
    <2> SUFFICES ASSUME TypeOK, TypeOK', ReversalInv, [Next]_vars, NEW s \in Symbols
                 PROVE  Settled(s)'
      BY DEF ReversalInv
    <2>1. Settled(s)
      BY DEF ReversalInv
    <2>2. CASE Plan
      BY <2>1, <2>2, PlanSettles
    <2>3. ASSUME NEW u \in Symbols, SendTrim(u) \/ SendTopup(u) PROVE Settled(s)'
      <3>1. CASE u = s
        BY <2>1, <2>3, <3>1, TrimSettles, TopupSettles
      <3>2. CASE u # s
        <4>1. /\ score' = score /\ clean' = clean /\ pc' = pc
              /\ position' = position /\ buy'[s] = buy[s] /\ sell'[s] = sell[s]
              /\ trims'[s] = trims[s] /\ topups'[s] = topups[s] /\ last'[s] = last[s]
          BY <2>3, <3>2 DEF SendTrim, SendTopup, Remember, TypeOK
        <4>2. Lowest(s)' >= Lowest(s) /\ Highest(s)' <= Highest(s)
          BY <4>1 DEF Lowest, Highest, TypeOK
        <4> QED
          BY <2>1, <4>1, <4>2, StaysSettled
      <3> QED
        BY <3>1, <3>2
    <2>4. CASE Finish \/ EndOfDay \/ PnlMoves \/ UNCHANGED vars
      <3>1. /\ score' = score /\ clean' = clean /\ last' = last
            /\ trims'[s] \in {trims[s], 0} /\ topups'[s] \in {topups[s], 0}
            /\ pc' = pc \/ (pc' # "send" /\ trims'[s] = 0 /\ topups'[s] = 0)
        BY <2>1, <2>4 DEF Finish, EndOfDay, PnlMoves, vars, orderVars, planVars, None, Settled
      <3>2. Lowest(s)' >= Lowest(s) /\ Highest(s)' <= Highest(s)
        BY <2>4 DEF Finish, EndOfDay, PnlMoves, vars, orderVars, None, Lowest, Highest, TypeOK
      <3> QED
        BY <2>1, <3>1, <3>2, StaysSettled
    <2>5. ASSUME NEW u \in Symbols, Entry(u) \/ Exit(u) PROVE Settled(s)'
      BY <2>1, <2>5, SignalSettles
    <2>6. ASSUME NEW u \in Symbols, Fill(u) PROVE Settled(s)'
      <3>1. /\ score' = score /\ clean' = clean /\ pc' = pc /\ last' = last
            /\ trims' = trims /\ topups' = topups
        BY <2>6 DEF Fill, planVars
      <3>2. Lowest(s)' >= Lowest(s) /\ Highest(s)' <= Highest(s)
        BY <2>6 DEF Fill, Lowest, Highest, TypeOK
      <3> QED
        BY <2>1, <3>1, <3>2, StaysSettled
    <2> QED
      BY <2>2, <2>3, <2>4, <2>5, <2>6 DEF Next
  <1> QED
    BY <1>1, <1>2, RebalanceTypes, PTL DEF Spec

(* With unchanged targets no plan undoes an earlier one: what an earlier   *)
(* one traded is still on its side of the target, where the other side is  *)
(* out of the question.                                                    *)
THEOREM PlansAreNotUndone == Spec => []NoReversal
  <1>1. ReversalInv => NoReversal
    BY DEF ReversalInv, Settled, NoReversal
  <1> QED
    BY <1>1, PlansSettle, PTL
=============================================================================
