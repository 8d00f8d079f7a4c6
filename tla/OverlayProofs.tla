--------------------------- MODULE OverlayProofs ---------------------------
(***************************************************************************)
(* Proofs about Overlay for any chain, plans and failures, in this order:  *)
(* sums over finite sets; the shapes of plans; types; what was sent of the *)
(* current plan; that a short leg comes after its cover; that a confirmed  *)
(* leg is done; what the answers mean; and that the book stays hedged.     *)
(***************************************************************************)
EXTENDS Overlay, FiniteSetTheorems, TLAPS

-----------------------------------------------------------------------------
(* Sums of natural numbers over finite sets.                               *)

(* Induction over the natural numbers, for a set instead of an operator.   *)
LEMMA Induction ==
    ASSUME NEW S, 0 \in S, \A n \in Nat : n \in S => n + 1 \in S
    PROVE  \A n \in Nat : n \in S
  <1> DEFINE Missing == Nat \ S
  <1> SUFFICES ASSUME Missing # {} PROVE FALSE
    OBVIOUS
  <1>1. PICK m \in Missing : \A k \in Missing : <<k, m>> \notin OpToRel(<, Nat)
    BY WFMin, NatLessThanWellFounded, Missing \subseteq Nat, Zenon
  <1>2. m \in Missing /\ m \in Nat /\ m # 0 /\ m - 1 \in Nat /\ m - 1 < m
    <2>1. m \in Nat /\ m \notin S
      OBVIOUS
    <2> QED
      BY <2>1
  <1>3. m - 1 \notin Missing
    BY <1>1, <1>2, Zenon DEF OpToRel
  <1>4. m - 1 + 1 \in S
    BY <1>2, <1>3
  <1> QED
    BY <1>2, <1>4

Some(T) == CHOOSE x \in T : TRUE

(* The recursion that a sum of f over S is defined by.                     *)
Adds(f, S, g) == g = [T \in SUBSET S |-> IF T = {} THEN 0 ELSE f[Some(T)] + g[T \ {Some(T)}]]

(* SumFunctionOnSet, as the library defines it.                            *)
LEMMA SumIs == ASSUME NEW f, NEW S PROVE SumFunctionOnSet(f, S) = (CHOOSE g : Adds(f, S, g))[S]
  BY DEF SumFunctionOnSet, FoldFunctionOnSet, MapThenFoldSet, Adds, Some

(* What is left of a finite set without one of its members is smaller.     *)
LEMMA OneLess ==
    ASSUME NEW T, IsFiniteSet(T), T # {}, NEW x \in T
    PROVE  /\ IsFiniteSet(T \ {x}) /\ Cardinality(T \ {x}) \in Nat
           /\ Cardinality(T) \in Nat /\ Cardinality(T) = Cardinality(T \ {x}) + 1
  <1>1. Cardinality(T) \in Nat /\ Cardinality(T \ {x}) \in Nat
    BY FS_CardinalityType, FS_RemoveElement
  <1>2. IsFiniteSet(T \ {x}) /\ Cardinality(T \ {x}) = Cardinality(T) - 1
    BY FS_RemoveElement
  <1> QED
    BY <1>1, <1>2

(* A sum over a finite set has a solution.                                 *)
LEMMA SumExists ==
    ASSUME NEW D, NEW f \in [D -> Nat], NEW S \in SUBSET D, IsFiniteSet(S)
    PROVE  \E g \in [SUBSET S -> Nat] : Adds(f, S, g)
  <1> DEFINE Unfold(g, T) == IF T = {} THEN 0 ELSE f[Some(T)] + g[T \ {Some(T)}]
             Holds(g, n)  == /\ g \in [SUBSET S -> Nat]
                             /\ \A T \in SUBSET S : Cardinality(T) <= n => g[T] = Unfold(g, T)
             Solved == {n \in Nat : \E g : Holds(g, n)}
  <1>0. \A T \in SUBSET S : IsFiniteSet(T) /\ Cardinality(T) \in Nat /\ Cardinality(T) <= Cardinality(S)
    BY FS_Subset, FS_CardinalityType
  <1>1. 0 \in Solved
    <2> DEFINE g == [T \in SUBSET S |-> 0]
    <2>1. ASSUME NEW T \in SUBSET S, Cardinality(T) <= 0 PROVE T = {}
      BY <1>0, <2>1, FS_EmptySet
    <2>2. Holds(g, 0)
      BY <2>1
    <2> HIDE DEF Holds, g
    <2> QED
      BY <2>2
  <1>2. ASSUME NEW n \in Nat, n \in Solved PROVE n + 1 \in Solved
    <2>1. PICK g : Holds(g, n)
      BY <1>2
    <2> DEFINE h == [T \in SUBSET S |-> Unfold(g, T)]
    <2>2. ASSUME NEW T \in SUBSET S PROVE Unfold(g, T) \in Nat
      <3>1. CASE T # {}
        <4>1. Some(T) \in T
          BY <3>1 DEF Some
        <4>2. f[Some(T)] \in Nat /\ g[T \ {Some(T)}] \in Nat
          BY <2>1, <4>1
        <4> QED
          BY <3>1, <4>2
      <3> QED
        BY <3>1
    <2>3. h \in [SUBSET S -> Nat]
      BY <2>2
    <2>4. ASSUME NEW T \in SUBSET S, Cardinality(T) <= n + 1 PROVE h[T] = Unfold(h, T)
      <3>1. CASE T = {}
        BY <3>1
      <3>2. CASE T # {}
        <4> DEFINE U == T \ {Some(T)}
        <4>1. Some(T) \in T
          BY <3>2 DEF Some
        <4>2. U \in SUBSET S /\ Cardinality(U) <= n
          BY <1>0, <2>4, <4>1, OneLess
        <4>3. h[U] = Unfold(g, U) /\ g[U] = Unfold(g, U)
          BY <2>1, <4>2
        <4>4. h[T] = f[Some(T)] + g[U] /\ Unfold(h, T) = f[Some(T)] + h[U]
          BY <3>2
        <4> QED
          BY <4>3, <4>4
      <3> QED
        BY <3>1, <3>2
    <2>5. Holds(h, n + 1)
      BY <2>3, <2>4
    <2> HIDE DEF Holds, h
    <2> QED
      BY <2>5
  <1>3. Cardinality(S) \in Solved
    <2> HIDE DEF Solved
    <2> QED
      BY <1>0, <1>1, <1>2, Induction
  <1>4. PICK g : Holds(g, Cardinality(S))
    BY <1>3
  <1>5. g = [T \in SUBSET S |-> Unfold(g, T)]
    BY <1>0, <1>4
  <1> QED
    BY <1>4, <1>5 DEF Adds

(* Two solutions agree on the sets that both are about.                    *)
LEMMA SumIsOne ==
    ASSUME NEW f, NEW S, IsFiniteSet(S), NEW R \in SUBSET S, NEW g, Adds(f, S, g),
           NEW h, Adds(f, R, h)
    PROVE  g[R] = h[R]
  <1> DEFINE Agree == {n \in Nat : \A T \in SUBSET R : Cardinality(T) <= n => g[T] = h[T]}
  <1>0. \A T \in SUBSET R : /\ T \in SUBSET S /\ IsFiniteSet(T) /\ Cardinality(T) \in Nat
                            /\ Cardinality(T) <= Cardinality(S)
    BY FS_Subset, FS_CardinalityType
  <1>1. \A T \in SUBSET R :
            /\ g[T] = IF T = {} THEN 0 ELSE f[Some(T)] + g[T \ {Some(T)}]
            /\ h[T] = IF T = {} THEN 0 ELSE f[Some(T)] + h[T \ {Some(T)}]
    BY <1>0 DEF Adds
  <1>2. 0 \in Agree
    <2> SUFFICES ASSUME NEW T \in SUBSET R, Cardinality(T) <= 0 PROVE g[T] = h[T]
      OBVIOUS
    <2>1. T = {}
      BY <1>0, FS_EmptySet
    <2> QED
      BY <1>1, <2>1
  <1>3. ASSUME NEW n \in Nat, n \in Agree PROVE n + 1 \in Agree
    <2> SUFFICES ASSUME NEW T \in SUBSET R, Cardinality(T) <= n + 1 PROVE g[T] = h[T]
      OBVIOUS
    <2>0. CASE T = {}
      BY <1>1, <2>0
    <2> SUFFICES ASSUME T # {} PROVE g[T] = h[T]
      BY <2>0
    <2> DEFINE U == T \ {Some(T)}
    <2>1. Some(T) \in T
      BY DEF Some
    <2>2. U \in SUBSET R /\ Cardinality(U) <= n
      BY <1>0, <2>1, OneLess
    <2>3. g[U] = h[U]
      BY <1>3, <2>2
    <2>4. g[T] = f[Some(T)] + g[U] /\ h[T] = f[Some(T)] + h[U]
      BY <1>1
    <2> QED
      BY <2>3, <2>4, Zenon
  <1>4. Cardinality(S) \in Agree
    <2>1. Cardinality(S) \in Nat
      BY FS_CardinalityType
    <2> HIDE DEF Agree
    <2> QED
      BY <2>1, <1>2, <1>3, Induction
  <1> QED
    BY <1>0, <1>4, R \in SUBSET R

(* The sum of f over a finite set of natural numbers is one of them, and   *)
(* is taken one member at a time.                                          *)
LEMMA SumByChoice ==
    ASSUME NEW D, NEW f \in [D -> Nat], NEW S \in SUBSET D, IsFiniteSet(S)
    PROVE  /\ SumFunctionOnSet(f, S) \in Nat
           /\ S = {} => SumFunctionOnSet(f, S) = 0
           /\ S # {} => SumFunctionOnSet(f, S) = f[Some(S)] + SumFunctionOnSet(f, S \ {Some(S)})
  <1> DEFINE Solution(R) == CHOOSE g : Adds(f, R, g)
  <1>1. PICK g \in [SUBSET S -> Nat] : Adds(f, S, g)
    BY SumExists
  <1>2. ASSUME NEW R \in SUBSET S PROVE SumFunctionOnSet(f, R) = g[R]
    <2>1. R \in SUBSET D /\ IsFiniteSet(R)
      BY FS_Subset
    <2>2. \E h \in [SUBSET R -> Nat] : Adds(f, R, h)
      BY <2>1, SumExists
    <2>3. PICK h : Adds(f, R, h) /\ h = Solution(R)
      BY <2>2
    <2>4. g[R] = h[R]
      BY <1>1, <2>3, SumIsOne
    <2> QED
      BY <2>3, <2>4, SumIs
  <1>3. /\ g[S] \in Nat /\ S = {} => g[S] = 0
        /\ S # {} => g[S] = f[Some(S)] + g[S \ {Some(S)}]
    BY <1>1 DEF Adds
  <1>4. S \ {Some(S)} \in SUBSET S /\ S \in SUBSET S
    OBVIOUS
  <1> QED
    BY <1>2, <1>3, <1>4

(* ... in any order.                                                       *)
LEMMA SumByMember ==
    ASSUME NEW D, NEW f \in [D -> Nat], NEW S \in SUBSET D, IsFiniteSet(S), NEW x \in S
    PROVE  SumFunctionOnSet(f, S) = f[x] + SumFunctionOnSet(f, S \ {x})
  <1> DEFINE Sum(T) == SumFunctionOnSet(f, T)
             Solved == {n \in Nat : \A T \in SUBSET S : Cardinality(T) <= n =>
                                        \A y \in T : Sum(T) = f[y] + Sum(T \ {y})}
  <1>0. \A T \in SUBSET S : /\ T \in SUBSET D /\ IsFiniteSet(T) /\ Cardinality(T) \in Nat
                            /\ Cardinality(T) <= Cardinality(S)
    BY FS_Subset, FS_CardinalityType
  <1>1. ASSUME NEW T \in SUBSET S
        PROVE  Sum(T) \in Nat /\ (T # {} => Sum(T) = f[Some(T)] + Sum(T \ {Some(T)}))
    <2>1. T \in SUBSET D /\ IsFiniteSet(T)
      BY <1>0
    <2> QED
      BY <2>1, SumByChoice
  <1> HIDE DEF Sum
  <1>2. 0 \in Solved
    <2> SUFFICES ASSUME NEW T \in SUBSET S, Cardinality(T) <= 0, NEW y \in T
                 PROVE  FALSE
      OBVIOUS
    <2> QED
      BY <1>0, FS_EmptySet
  <1>3. ASSUME NEW n \in Nat, n \in Solved PROVE n + 1 \in Solved
    <2> SUFFICES ASSUME NEW T \in SUBSET S, Cardinality(T) <= n + 1, NEW y \in T, y # Some(T)
                 PROVE  Sum(T) = f[y] + Sum(T \ {y})
      BY <1>1
    <2> DEFINE z == Some(T)
               U == T \ {y, z}
    <2>1. z \in T
      BY DEF Some
    <2>2. /\ T \ {z} \in SUBSET S /\ Cardinality(T \ {z}) <= n
          /\ T \ {y} \in SUBSET S /\ Cardinality(T \ {y}) <= n
      BY <1>0, <2>1, OneLess
    <2>3. U = (T \ {z}) \ {y} /\ U = (T \ {y}) \ {z}
      OBVIOUS
    <2>4. Sum(T \ {z}) = f[y] + Sum(U)
      BY <1>3, <2>2, <2>3
    <2>5. Sum(T \ {y}) = f[z] + Sum(U)
      BY <1>3, <2>1, <2>2, <2>3
    <2>6. Sum(T) = f[z] + Sum(T \ {z})
      BY <1>1
    <2>7. f[y] \in Nat /\ f[z] \in Nat /\ Sum(U) \in Nat
      BY <1>1, <2>1
    <2> QED
      BY <2>4, <2>5, <2>6, <2>7
  <1>4. Cardinality(S) \in Solved
    <2> HIDE DEF Solved
    <2> QED
      BY <1>0, <1>2, <1>3, Induction
  <1> QED
    BY <1>0, <1>4 DEF Sum

(* A sum is at most another if each of its members adds nothing, or is one *)
(* of the other's too and adds no more.                                    *)
LEMMA SumMonotone ==
    ASSUME NEW D, NEW f \in [D -> Nat], NEW g \in [D -> Nat],
           NEW S \in SUBSET D, IsFiniteSet(S), NEW R \in SUBSET D, IsFiniteSet(R),
           \A x \in S : f[x] = 0 \/ (x \in R /\ f[x] <= g[x])
    PROVE  SumFunctionOnSet(f, S) <= SumFunctionOnSet(g, R)
  <1> DEFINE F(T) == SumFunctionOnSet(f, T)
             G(T) == SumFunctionOnSet(g, T)
             Less(T, U) == \A x \in T : f[x] = 0 \/ (x \in U /\ f[x] <= g[x])
             Solved == {n \in Nat : \A T \in SUBSET S, U \in SUBSET R :
                                       Cardinality(T) <= n /\ Less(T, U) => F(T) <= G(U)}
  <1>0. \A T \in SUBSET S : /\ T \in SUBSET D /\ IsFiniteSet(T) /\ Cardinality(T) \in Nat
                            /\ Cardinality(T) <= Cardinality(S)
    BY FS_Subset, FS_CardinalityType
  <1>1. ASSUME NEW T \in SUBSET S
        PROVE  /\ F(T) \in Nat /\ (T = {} => F(T) = 0)
               /\ \A x \in T : F(T) = f[x] + F(T \ {x})
    <2>1. T \in SUBSET D /\ IsFiniteSet(T)
      BY <1>0
    <2>2. ASSUME NEW x \in T PROVE F(T) = f[x] + F(T \ {x})
      BY <2>1, SumByMember
    <2> QED
      BY <2>1, <2>2, SumByChoice
  <1>2. ASSUME NEW U \in SUBSET R
        PROVE  G(U) \in Nat /\ \A x \in U : G(U) = g[x] + G(U \ {x})
    <2>1. U \in SUBSET D /\ IsFiniteSet(U)
      BY FS_Subset
    <2>2. ASSUME NEW x \in U PROVE G(U) = g[x] + G(U \ {x})
      BY <2>1, SumByMember
    <2> QED
      BY <2>1, <2>2, SumByChoice
  <1> HIDE DEF F, G
  <1>3. 0 \in Solved
    <2> SUFFICES ASSUME NEW T \in SUBSET S, NEW U \in SUBSET R, Cardinality(T) <= 0
                 PROVE  F(T) <= G(U)
      OBVIOUS
    <2>1. T = {}
      BY <1>0, FS_EmptySet
    <2> QED
      BY <1>1, <1>2, <2>1
  <1>4. ASSUME NEW n \in Nat, n \in Solved PROVE n + 1 \in Solved
    <2> SUFFICES ASSUME NEW T \in SUBSET S, NEW U \in SUBSET R, Cardinality(T) <= n + 1, Less(T, U)
                 PROVE  F(T) <= G(U)
      OBVIOUS
    <2>1. CASE T = {}
      BY <1>1, <1>2, <2>1
    <2>2. CASE T # {}
      <3>1. PICK x \in T : TRUE
        BY <2>2
      <3>2. T \ {x} \in SUBSET S /\ Cardinality(T \ {x}) <= n
        BY <1>0, OneLess
      <3>3. F(T) = f[x] + F(T \ {x}) /\ F(T \ {x}) \in Nat /\ f[x] \in Nat /\ g[x] \in Nat
        BY <1>1, <3>2
      <3>4. CASE f[x] = 0
        <4>1. F(T \ {x}) <= G(U)
          BY <1>4, <3>2
        <4> QED
          BY <1>2, <3>3, <3>4, <4>1
      <3>5. CASE x \in U /\ f[x] <= g[x]
        <4>1. F(T \ {x}) <= G(U \ {x})
          BY <1>4, <3>2
        <4>2. G(U) = g[x] + G(U \ {x}) /\ G(U \ {x}) \in Nat
          BY <1>2, <3>5
        <4> QED
          BY <3>3, <3>5, <4>1, <4>2
      <3> QED
        BY <3>4, <3>5
    <2> QED
      BY <2>1, <2>2
  <1>5. Cardinality(S) \in Solved
    <2> HIDE DEF Solved
    <2> QED
      BY <1>0, <1>3, <1>4, Induction
  <1> QED
    BY <1>0, <1>5 DEF F, G

-----------------------------------------------------------------------------
(* The shapes of plans: one leg or two, the long one first, of different   *)
(* contracts and one quantity; a short leg is near, and a long call that   *)
(* precedes one is far.                                                    *)

LEMMA RegistryIs ==
    /\ Overlays = {"COVERED_CALL", "PROTECTIVE_PUT", "COLLAR", "BEAR_PUT_SPREAD", "CALL_DIAGONAL", "LEAP"}
    /\ Registry["COVERED_CALL"] = <<LegSpec("SELL", "CALL", Near)>>
    /\ Registry["PROTECTIVE_PUT"] = <<LegSpec("BUY", "PUT", Near)>>
    /\ Registry["COLLAR"] = <<LegSpec("BUY", "PUT", Near), LegSpec("SELL", "CALL", Near)>>
    /\ Registry["BEAR_PUT_SPREAD"] = <<LegSpec("BUY", "PUT", Near), LegSpec("SELL", "PUT", Near)>>
    /\ Registry["CALL_DIAGONAL"] = <<LegSpec("BUY", "CALL", Far), LegSpec("SELL", "CALL", Near)>>
    /\ Registry["LEAP"] = <<LegSpec("BUY", "CALL", Far)>>
  BY DEF Overlays, Registry

PlanInv ==
    /\ plan \in Seq(Legs) /\ Len(plan) <= 2
    /\ \A k \in DOMAIN plan :
          /\ plan[k].corr = plans /\ plan[k].qty > 0 /\ plan[k].qty = plan[1].qty
          /\ plan[k].side = "SELL" => k = Len(plan) /\ plan[k].contract.expiry \in Near
    /\ \A k, l \in DOMAIN plan : plan[k].contract = plan[l].contract => k = l
    /\ Len(plan) = 2 /\ plan[1].contract.right = "CALL" => plan[1].contract.expiry \in Far

(* LegSpec is a record of its arguments.                                   *)
LEMMA LegSpecIs ==
    \A s, r, e : LegSpec(s, r, e).side = s /\ LegSpec(s, r, e).right = r /\ LegSpec(s, r, e).expiries = e
  BY DEF LegSpec

(* What the proofs need of REGISTRY.                                       *)
LEMMA Shapes ==
    ASSUME NEW o \in Overlays
    PROVE  LET specs == Registry[o]
           IN  /\ DOMAIN specs = 1..Len(specs) /\ Len(specs) \in {1, 2}
               /\ \A i \in 1..Len(specs) : /\ specs[i].side \in {"BUY", "SELL"}
                                           /\ specs[i].side = "SELL" => i = Len(specs) /\ specs[i].expiries = Near
               /\ Len(specs) = 2 => /\ specs[1].side = "BUY"
                                    /\ specs[1].right = "CALL" => specs[1].expiries = Far
                                    /\ \/ specs[1].right # specs[2].right
                                       \/ o \in {"BEAR_PUT_SPREAD", "CALL_DIAGONAL"}
  <1> DEFINE One(sp)     == /\ sp.side \in {"BUY", "SELL"}
                            /\ sp.side = "SELL" => sp.expiries = Near
             Two(sp, sq) == /\ sp.side = "BUY" /\ sq.side = "SELL" /\ sq.expiries = Near
                            /\ sp.right = "CALL" => sp.expiries = Far
                            /\ sp.right # sq.right \/ o \in {"BEAR_PUT_SPREAD", "CALL_DIAGONAL"}
             Single(s)   == \E sp : s = <<sp>> /\ One(sp)
             Double(s)   == \E sp, sq : s = <<sp, sq>> /\ Two(sp, sq)
  <1>1. ASSUME o \in {"COVERED_CALL", "PROTECTIVE_PUT", "LEAP"} PROVE Single(Registry[o])
    BY <1>1, RegistryIs, LegSpecIs
  <1>2. ASSUME o \in {"COLLAR", "BEAR_PUT_SPREAD", "CALL_DIAGONAL"} PROVE Double(Registry[o])
    <2>1. CASE o = "COLLAR"
      BY <2>1, RegistryIs, LegSpecIs
    <2>2. CASE o = "BEAR_PUT_SPREAD"
      BY <2>2, RegistryIs, LegSpecIs
    <2>3. CASE o = "CALL_DIAGONAL"
      BY <2>3, RegistryIs, LegSpecIs
    <2> QED
      BY <1>2, <2>1, <2>2, <2>3
  <1>3. CASE Single(Registry[o])
    <2>1. PICK sp : Registry[o] = <<sp>> /\ One(sp)
      BY <1>3
    <2>2. /\ DOMAIN Registry[o] = 1..1 /\ Len(Registry[o]) = 1 /\ Registry[o][1] = sp
      BY <2>1
    <2> QED
      BY <2>1, <2>2
  <1>4. CASE Double(Registry[o])
    <2>1. PICK sp, sq : Registry[o] = <<sp, sq>> /\ Two(sp, sq)
      BY <1>4
    <2>2. /\ DOMAIN Registry[o] = 1..2 /\ Len(Registry[o]) = 2
          /\ Registry[o][1] = sp /\ Registry[o][2] = sq
      BY <2>1
    <2> QED
      BY <2>1, <2>2
  <1> QED
    BY <1>1, <1>2, <1>3, <1>4, RegistryIs

(* build_overlay_plan makes plans of that shape.                           *)
LEMMA PlansAreShaped ==
    ASSUME TypeOK, Plan
    PROVE  PlanInv' /\ Len(plan') > 0
  <1>0. PICK o \in Overlays : \E cs \in Selected(o) :
            Number(o) >= 1 /\ Valid(o, cs) /\ plan' = LongsFirst(LegsOf(o, cs))
    BY DEF Plan
  <1>1. PICK cs \in Selected(o) :
            Number(o) >= 1 /\ Valid(o, cs) /\ plan' = LongsFirst(LegsOf(o, cs))
    BY <1>0
  <1> DEFINE specs == Registry[o]
             legs  == LegsOf(o, cs)
             n     == Len(specs)
             leg(i) == [side |-> specs[i].side, contract |-> cs[i], qty |-> Number(o), corr |-> plans + 1]
  <1>2. Number(o) \in Nat /\ Number(o) > 0 /\ plans' = plans + 1 /\ plans + 1 \in 1..MaxPlans
    <2>1. lots \in Nat /\ plans \in 0..MaxPlans /\ plans < MaxPlans /\ plans' = plans + 1
      BY DEF TypeOK, Plan
    <2>2. DefaultContracts \in Nat /\ MaxContracts \in Nat /\ MaxPlans \in Nat
      BY OverlayAssumption
    <2> QED
      BY <1>1, <2>1, <2>2 DEF Number, Least
  <1>3. /\ DOMAIN specs = 1..n /\ n \in {1, 2}
        /\ \A i \in 1..n : /\ specs[i].side \in {"BUY", "SELL"}
                           /\ specs[i].side = "SELL" => i = n /\ specs[i].expiries = Near
        /\ n = 2 => /\ specs[1].side = "BUY"
                    /\ specs[1].right = "CALL" => specs[1].expiries = Far
                    /\ \/ specs[1].right # specs[2].right
                       \/ o \in {"BEAR_PUT_SPREAD", "CALL_DIAGONAL"}
    BY Shapes
  <1>15. \A i \in 1..n : specs[i].side \in {"BUY", "SELL"}
    BY <1>3
  <1> HIDE DEF specs, n
  <1>4. /\ cs \in [1..n -> Contracts]
        /\ \A i \in 1..n : cs[i].right = specs[i].right /\ cs[i].expiry \in specs[i].expiries
    BY <1>3 DEF Selected, specs
  <1>5. legs = [i \in 1..n |-> leg(i)]
    BY <1>4 DEF LegsOf, specs
  <1>6. \A i \in 1..n : leg(i) \in Legs
    <2> SUFFICES ASSUME NEW i \in 1..n PROVE leg(i) \in Legs
      OBVIOUS
    <2>1. specs[i].side \in {"BUY", "SELL"}
      BY <1>15
    <2>2. cs[i] \in Contracts
      BY <1>4
    <2> QED
      BY <1>2, <2>1, <2>2 DEF Legs
  <1>7. /\ legs \in Seq(Legs) /\ Len(legs) = n
        /\ \A i \in 1..n : legs[i] = leg(i)
    <2> HIDE DEF leg, legs
    <2> QED
      BY <1>3, <1>5, <1>6
  <1>8. \A i \in 1..n :
            /\ legs[i].side = specs[i].side /\ legs[i].contract = cs[i]
            /\ legs[i].qty = Number(o) /\ legs[i].corr = plans + 1
    BY <1>7
  <1> HIDE DEF legs, leg
  <1>9. plan' = legs
    BY <1>1, <1>3, <1>7, <1>8 DEF LongsFirst, First, legs
  <1>10. n = 2 => cs[1] # cs[2]
    <2>1. CASE specs[1].right # specs[2].right
      BY <1>4, <2>1
    <2>2. CASE o \in {"BEAR_PUT_SPREAD", "CALL_DIAGONAL"} /\ n = 2
      <3>1. cs[1] \in Contracts
        BY <1>4, <2>2
      <3>2. cs[1].strike \in Nat /\ cs[1].expiry \in Nat
        BY <3>1, OverlayAssumption DEF Contracts
      <3> QED
        BY <1>1, <2>2, <3>2 DEF Valid
    <2> QED
      BY <1>3, <2>1, <2>2
  <1>11. DOMAIN legs = 1..n
    BY <1>7
  <1>12. \A k \in 1..n : /\ legs[k].corr = plans' /\ legs[k].qty > 0 /\ legs[k].qty = legs[1].qty
                         /\ legs[k].side = "SELL" => k = n /\ legs[k].contract.expiry \in Near
    BY <1>2, <1>3, <1>4, <1>8
  <1>13. \A k, l \in 1..n : legs[k].contract = legs[l].contract => k = l
    BY <1>3, <1>8, <1>10
  <1>14. n = 2 /\ legs[1].contract.right = "CALL" => legs[1].contract.expiry \in Far
    BY <1>3, <1>4, <1>8
  <1> QED
    BY <1>3, <1>7, <1>9, <1>11, <1>12, <1>13, <1>14 DEF PlanInv

-----------------------------------------------------------------------------
(* Types, and that a plan sends at most its legs.                          *)

BrokerTypes ==
    /\ order \in Seq(Legs) /\ left \in Seq(Nat) /\ next \in Nat \ {0}
    /\ Len(order) = next - 1 /\ Len(left) = next - 1
    /\ \A i \in Sent : left[i] <= order[i].qty
    /\ working \subseteq Sent
    /\ \A i \in working : left[i] > 0
    /\ position \in [Contracts -> Int] /\ lots \in Nat

EngineTypes ==
    /\ confirmed \subseteq Sent
    /\ pc \in {"idle", "leg", "poll"}
    /\ at \in Nat /\ (pc # "idle" => at \in DOMAIN plan)
    /\ shorts \in [Rights -> Nat] /\ looks \in 0..Attempts
    /\ answer \in Answers /\ plans \in 0..MaxPlans /\ errors \in 0..MaxErrors
    /\ lost \in BOOLEAN /\ calm \in BOOLEAN

SizeInv ==
    /\ pc = "idle" => next - 1 <= 2 * plans
    /\ pc = "leg"  => next <= 2 * plans - 2 + at
    /\ pc = "poll" => next <= 2 * plans - 1 + at /\ next > 1

TypeInv == BrokerTypes /\ EngineTypes /\ PlanInv /\ SizeInv

LEMMA TypesAre == TypeInv => TypeOK
  <1> SUFFICES ASSUME TypeInv PROVE TypeOK
    OBVIOUS
  <1>1. Cardinality(Ids) = 2 * MaxPlans
    BY OverlayAssumption, FS_Interval DEF Ids
  <1>2. next - 1 <= 2 * plans
    <2>1. pc # "idle" => at <= 2
      BY DEF TypeInv, EngineTypes, PlanInv
    <2>2. plans \in Nat /\ next \in Nat /\ at \in Nat /\ pc \in {"idle", "leg", "poll"}
      BY DEF TypeInv, EngineTypes, BrokerTypes
    <2> QED
      BY <2>1, <2>2 DEF TypeInv, SizeInv
  <1>3. next \in 1..(Cardinality(Ids) + 1)
    BY <1>1, <1>2, OverlayAssumption DEF TypeInv, BrokerTypes, EngineTypes
  <1> QED
    BY <1>3 DEF TypeInv, BrokerTypes, EngineTypes, PlanInv, TypeOK

(* The broker appends a leg.                                               *)
LEMMA AcceptedIs ==
    ASSUME BrokerTypes, NEW leg \in Legs, leg.qty > 0, Accepted(leg)
    PROVE  /\ BrokerTypes' /\ next' = next + 1 /\ Sent' = Sent \cup {next} /\ next \notin Sent
           /\ order'[next] = leg /\ left'[next] = leg.qty
           /\ \A i \in Sent : order'[i] = order[i] /\ left'[i] = left[i]
  <1>1. leg.qty \in Nat
    BY DEF Legs
  <1>2. /\ order' = Append(order, leg) /\ left' = Append(left, leg.qty)
        /\ working' = working \cup {next} /\ next' = next + 1
        /\ position' = position /\ lots' = lots
    BY DEF Accepted
  <1>3. next \in Nat /\ next > 0 /\ Sent = 1..(next - 1) /\ Sent' = 1..next
    BY <1>2 DEF BrokerTypes, Sent
  <1>4. /\ order' \in Seq(Legs) /\ Len(order') = next /\ order'[next] = leg
        /\ \A i \in 1..(next - 1) : order'[i] = order[i]
    BY <1>2, <1>3 DEF BrokerTypes
  <1>5. /\ left' \in Seq(Nat) /\ Len(left') = next /\ left'[next] = leg.qty
        /\ \A i \in 1..(next - 1) : left'[i] = left[i]
    BY <1>1, <1>2, <1>3 DEF BrokerTypes
  <1>6. Sent' = Sent \cup {next} /\ next \notin Sent
    BY <1>3
  <1>7. \A i \in Sent' : left'[i] <= order'[i].qty
    <2> SUFFICES ASSUME NEW i \in Sent' PROVE left'[i] <= order'[i].qty
      OBVIOUS
    <2>1. CASE i = next
      BY <1>1, <1>4, <1>5, <2>1
    <2>2. CASE i \in Sent
      BY <1>3, <1>4, <1>5, <2>2 DEF BrokerTypes
    <2> QED
      BY <1>6, <2>1, <2>2
  <1>8. working' \subseteq Sent' /\ \A i \in working' : left'[i] > 0
    BY <1>2, <1>3, <1>5, <1>6 DEF BrokerTypes
  <1> QED
    BY <1>2, <1>3, <1>4, <1>5, <1>6, <1>7, <1>8 DEF BrokerTypes

(* The chain is finite.                                                    *)
LEMMA ContractsAreFinite == IsFiniteSet(Contracts)
  <1> DEFINE T == (Rights \X Strikes) \X Expiries
             f == [t \in T |-> [right |-> t[1][1], strike |-> t[1][2], expiry |-> t[2]]]
  <1>1. IsFiniteSet(Rights)
    <2>1. IsFiniteSet({"CALL"})
      BY FS_Singleton
    <2>2. IsFiniteSet({"CALL"} \cup {"PUT"})
      BY <2>1, FS_AddElement
    <2>3. Rights = {"CALL"} \cup {"PUT"}
      BY DEF Rights
    <2> QED
      BY <2>2, <2>3
  <1>2. IsFiniteSet(T)
    BY <1>1, OverlayAssumption, FS_Product
  <1>3. f \in Surjection(T, Contracts)
    <2>1. f \in [T -> Contracts]
      BY DEF Contracts
    <2>2. ASSUME NEW c \in Contracts PROVE \E t \in T : f[t] = c
      <3> DEFINE t == <<<<c.right, c.strike>>, c.expiry>>
      <3>1. t \in T
        BY DEF Contracts
      <3>2. f[t] = c
        BY <3>1 DEF Contracts
      <3> QED
        BY <3>1, <3>2
    <2> QED
      BY <2>1, <2>2 DEF Surjection
  <1> QED
    BY <1>2, <1>3, FS_Surjection

(* What the answers of a step are.                                         *)
LEMMA FailsWith ==
    ASSUME NEW a \in Answers, Fails(a)
    PROVE  pc' = "idle" /\ answer' \in {a, "OVERLAY_RESIDUAL_LONG"} /\ answer' \in Answers
           /\ (answer' = "OVERLAY_RESIDUAL_LONG" => FilledLong \/ a = "OVERLAY_RESIDUAL_LONG")
  BY DEF Fails, Answer, Answers

(* What an ack leads to.                                                   *)
LEMMA SendLegIs ==
    ASSUME SendLeg
    PROVE  /\ pc = "leg" /\ Coverable(plan[at]) /\ at' = at /\ UNCHANGED planVars
           /\ confirmed' = confirmed /\ calm' = calm
           /\ \/ /\ Accepted(plan[at]) /\ pc' = "poll" /\ looks' = 0
                 /\ UNCHANGED <<answer, errors, lost>>
              \/ /\ UNCHANGED brokerVars /\ Fails("ORDER_REJECTED")
                 /\ UNCHANGED <<looks, errors, lost>>
              \/ /\ Accepted(plan[at]) \/ UNCHANGED brokerVars
                 /\ Fails("ORDER_UNKNOWN") /\ looks' = looks
                 /\ errors < MaxErrors /\ errors' = errors + 1 /\ lost' = TRUE
  <1>1. /\ AckedWith("SUBMITTED") => pc' = "poll" /\ looks' = 0 /\ UNCHANGED <<at, answer>>
        /\ AckedWith("REJECTED") => Fails("ORDER_REJECTED") /\ UNCHANGED <<at, looks>>
        /\ AckedWith("UNKNOWN") => Fails("ORDER_UNKNOWN") /\ UNCHANGED <<at, looks>>
    BY DEF AckedWith, NotPlaced
  <1> QED
    BY <1>1 DEF SendLeg

(* What a look at the open orders leads to.                                *)
LEMMA PollIs ==
    ASSUME Poll
    PROVE  /\ pc = "poll" /\ UNCHANGED <<brokerVars, planVars, lost, calm>>
           /\ errors' = errors \/ (errors < MaxErrors /\ errors' = errors + 1)
           /\ confirmed' = confirmed \/ (next - 1 \notin working /\ confirmed' = confirmed \cup {next - 1})
           /\ \/ /\ pc' = pc /\ at' = at /\ answer' = answer /\ looks' = Least(looks + 1, Attempts)
                 /\ confirmed' = confirmed
              \/ /\ looks' = looks /\ at < Len(plan) /\ pc' = "leg" /\ at' = at + 1 /\ answer' = answer
              \/ /\ looks' = looks /\ ~(at < Len(plan)) /\ pc' = "idle" /\ at' = at
                 /\ answer' = "OVERLAY_PLACED"
  <1>1. PICK seen \in {"working", "off the book", "unknown"} :
            /\ IF seen = "unknown" THEN errors < MaxErrors /\ errors' = errors + 1
               ELSE (seen = "working" <=> next - 1 \in working) /\ UNCHANGED errors
            /\ \/ /\ Done(seen) /\ confirmed' = confirmed \cup {next - 1}
                  /\ Advance /\ UNCHANGED looks
               \/ ~Done(seen) /\ Tired /\ Advance /\ UNCHANGED <<confirmed, looks>>
               \/ /\ ~Done(seen) /\ ~Tired /\ looks' = Least(looks + 1, Attempts)
                  /\ UNCHANGED <<pc, at, answer, confirmed>>
    BY DEF Poll
  <1>2. pc = "poll" /\ UNCHANGED <<brokerVars, planVars, lost, calm>>
    BY DEF Poll
  <1>3. errors' = errors \/ (errors < MaxErrors /\ errors' = errors + 1)
    BY <1>1
  <1>4. confirmed' = confirmed \/ (next - 1 \notin working /\ confirmed' = confirmed \cup {next - 1})
    BY <1>1 DEF Done
  <1>5. Advance => \/ at < Len(plan) /\ pc' = "leg" /\ at' = at + 1 /\ answer' = answer
                   \/ ~(at < Len(plan)) /\ pc' = "idle" /\ at' = at /\ answer' = "OVERLAY_PLACED"
    BY DEF Advance, Answer
  <1> QED
    BY <1>1, <1>2, <1>3, <1>4, <1>5

(* What the broker does to a working order.                                *)
LEMMA BrokerTypesHold ==
    ASSUME BrokerTypes, NEW i \in working, Fill(i) \/ Lapse(i)
    PROVE  BrokerTypes'
  <1>1. i \in Sent /\ left[i] \in Nat /\ i \in DOMAIN left /\ order[i] \in Legs
    BY DEF BrokerTypes, Sent
  <1>2. order[i].contract \in Contracts
    BY <1>1 DEF Legs
  <1>3. CASE Lapse(i)
    BY <1>3 DEF Lapse, planVars, BrokerTypes, Sent
  <1>4. CASE Fill(i)
    <2>1. PICK q \in 1..left[i] :
              /\ left' = [left EXCEPT ![i] = @ - q]
              /\ working' = IF q = left[i] THEN working \ {i} ELSE working
              /\ position' = [position EXCEPT ![order[i].contract] =
                                  @ + (IF order[i].side = "BUY" THEN q ELSE -q)]
      BY <1>4 DEF Fill
    <2>2. order' = order /\ next' = next /\ lots' = lots /\ Sent' = Sent
      BY <1>4 DEF Fill, Sent
    <2>3. left[i] - q \in Nat /\ q \in Int
      BY <1>1
    <2>4. /\ left' \in Seq(Nat) /\ Len(left') = Len(left) /\ left'[i] = left[i] - q
          /\ \A j \in Sent \ {i} : left'[j] = left[j]
      BY <1>1, <2>1, <2>3 DEF BrokerTypes, Sent
    <2>5. position' \in [Contracts -> Int]
      <3>1. (IF order[i].side = "BUY" THEN q ELSE -q) \in Int
        BY <2>3
      <3>2. position[order[i].contract] \in Int
        BY <1>2 DEF BrokerTypes
      <3> QED
        BY <1>2, <2>1, <3>1, <3>2 DEF BrokerTypes
    <2>6. \A j \in Sent : left'[j] <= order[j].qty
      <3> SUFFICES ASSUME NEW j \in Sent PROVE left'[j] <= order[j].qty
        OBVIOUS
      <3>0. left[j] <= order[j].qty /\ left[j] \in Nat /\ order[j] \in Legs
        BY DEF BrokerTypes, Sent
      <3>1. order[j].qty \in Nat
        BY <3>0 DEF Legs
      <3> QED
        BY <1>1, <2>3, <2>4, <3>0, <3>1
    <2>7. working' \subseteq Sent /\ \A j \in working' : left'[j] > 0
      BY <1>1, <2>1, <2>3, <2>4 DEF BrokerTypes
    <2> QED
      BY <2>2, <2>4, <2>5, <2>6, <2>7 DEF BrokerTypes
  <1> QED
    BY <1>3, <1>4

(* The snapshot of a plan counts contracts.                                *)
LEMMA SumIsNat ==
    ASSUME TypeInv, NEW right \in Rights PROVE OpenShorts(right) \in Nat
  <1>1. Held \in [Contracts -> Nat]
    BY DEF Held, TypeInv, BrokerTypes
  <1>2. Short(right) \in SUBSET Contracts /\ IsFiniteSet(Short(right))
    BY ContractsAreFinite, FS_Subset DEF Short
  <1> QED
    BY <1>1, <1>2, SumByChoice DEF OpenShorts, Quantity

(* The leg that the call is about.                                        *)
LEMMA CurrentLeg ==
    ASSUME TypeInv, pc # "idle"
    PROVE  /\ at \in 1..Len(plan) /\ at \in DOMAIN plan /\ Len(plan) \in {1, 2}
           /\ plan[at] \in Legs /\ plan[at].qty > 0 /\ plan[at].corr = plans
  <1>1. at \in DOMAIN plan /\ plan \in Seq(Legs)
    BY DEF TypeInv, EngineTypes, PlanInv
  <1>2. at \in 1..Len(plan) /\ plan[at] \in Legs
    BY <1>1
  <1>3. Len(plan) \in {1, 2}
    <2>1. Len(plan) \in Nat /\ Len(plan) <= 2
      BY <1>1 DEF TypeInv, PlanInv
    <2>2. \A n \in Nat : at \in 1..n /\ n <= 2 => n \in {1, 2}
      OBVIOUS
    <2> QED
      BY <1>2, <2>1, <2>2
  <1> QED
    BY <1>1, <1>2, <1>3 DEF TypeInv, PlanInv

(* The numbers among the types.                                            *)
LEMMA Numbers ==
    ASSUME EngineTypes, BrokerTypes, SizeInv
    PROVE  /\ next \in Nat \ {0} /\ plans \in 0..MaxPlans /\ at \in Nat /\ errors \in 0..MaxErrors
           /\ looks \in 0..Attempts /\ pc \in {"idle", "leg", "poll"}
           /\ pc = "idle" => next - 1 <= 2 * plans
           /\ pc = "leg"  => next <= 2 * plans - 2 + at
           /\ pc = "poll" => next <= 2 * plans - 1 + at /\ next > 1
  BY DEF EngineTypes, BrokerTypes, SizeInv

(* Every step keeps the types.                                             *)
LEMMA TypesStep ==
    ASSUME TypeInv, [Next]_vars
    PROVE  TypeInv'
  <1> USE OverlayAssumption
  <1>1. /\ BrokerTypes /\ EngineTypes /\ PlanInv /\ SizeInv /\ TypeOK
        /\ UNCHANGED brokerVars => BrokerTypes' /\ next' = next /\ Sent' = Sent
        /\ UNCHANGED planVars => PlanInv' /\ plans' = plans /\ plan' = plan /\ shorts' = shorts
    BY TypesAre DEF TypeInv, brokerVars, BrokerTypes, Sent, planVars, PlanInv
  <1>2. CASE Plan
    <2>1. PlanInv' /\ Len(plan') > 0
      BY <1>1, <1>2, PlansAreShaped
    <2>2. /\ pc' = "leg" /\ at' = 1 /\ plans' = plans + 1 /\ confirmed' = {} /\ answer' = "none"
          /\ looks' = 0 /\ lost' = FALSE /\ calm' = (calm /\ working = {}) /\ UNCHANGED brokerVars
          /\ errors' = errors /\ shorts' = [r \in Rights |-> OpenShorts(r)]
          /\ pc = "idle" /\ plans < MaxPlans
      BY <1>2 DEF Plan
    <2>3. shorts' \in [Rights -> Nat]
      BY <2>2, SumIsNat
    <2>4. at' \in DOMAIN plan'
      BY <2>1, <2>2 DEF PlanInv
    <2>5. calm' \in BOOLEAN
      BY <1>1, <2>2, Zenon DEF EngineTypes
    <2>6. EngineTypes'
      <3>1. /\ plans' \in 0..MaxPlans /\ errors' \in 0..MaxErrors /\ looks' \in 0..Attempts
            /\ at' \in Nat
        BY <1>1, <2>2, Numbers
      <3>2. pc' \in {"idle", "leg", "poll"} /\ answer' \in Answers /\ confirmed' \subseteq Sent'
        BY <2>2 DEF Answers
      <3>3. lost' \in BOOLEAN
        BY <2>2
      <3> QED
        BY <2>3, <2>4, <2>5, <3>1, <3>2, <3>3, Zenon DEF EngineTypes
    <2>7. SizeInv'
      BY <1>1, <2>2 DEF SizeInv, EngineTypes, BrokerTypes
    <2> QED
      BY <1>1, <2>1, <2>2, <2>6, <2>7 DEF TypeInv
  <1>3. ASSUME /\ UNCHANGED <<planVars, at, looks, confirmed, errors, lost, calm, brokerVars>>
               /\ pc # "idle" /\ pc' = "idle" /\ answer' \in Answers
        PROVE  TypeInv'
    <2>1. EngineTypes'
      BY <1>1, <1>3 DEF EngineTypes
    <2>2. SizeInv'
      <3>1. next' = next /\ plans' = plans /\ at' = at /\ at \in 1..2
        BY <1>1, <1>3, CurrentLeg
      <3> QED
        BY <1>1, <1>3, <3>1, Numbers DEF SizeInv
    <2> QED
      BY <1>1, <1>3, <2>1, <2>2 DEF TypeInv
  <1>4. CASE RejectedByRisk
    <2>1. answer' \in Answers /\ pc' = "idle" /\ pc = "leg"
      BY <1>4, FailsWith DEF RejectedByRisk, Answers
    <2> QED
      BY <1>3, <1>4, <2>1 DEF RejectedByRisk
  <1>5. CASE Abandon
    BY <1>3, <1>5 DEF Abandon, Answers
  <1>6. CASE SendLeg
    <2>1. /\ pc = "leg" /\ at' = at /\ UNCHANGED planVars /\ confirmed' = confirmed /\ calm' = calm
      BY <1>6, SendLegIs
    <2>2. ASSUME Accepted(plan[at]) PROVE BrokerTypes' /\ next' = next + 1 /\ Sent \subseteq Sent'
      BY <1>1, <2>1, <2>2, CurrentLeg, AcceptedIs
    <2>3. ASSUME Fails("ORDER_REJECTED") \/ Fails("ORDER_UNKNOWN") PROVE pc' = "idle" /\ answer' \in Answers
      BY <2>3, FailsWith DEF Answers
    <2>4. CASE Accepted(plan[at])
      <3>1. next' = next + 1 /\ BrokerTypes' /\ Sent \subseteq Sent'
        BY <2>2, <2>4
      <3>2. /\ pc' \in {"poll", "idle"} /\ answer' \in Answers /\ looks' \in 0..Attempts
            /\ errors' \in 0..MaxErrors /\ lost' \in BOOLEAN
        <4>1. lost' = lost \/ lost' = TRUE
          BY <1>6, SendLegIs
        <4>2. lost' \in BOOLEAN
          BY <1>1, <4>1, Zenon DEF EngineTypes
        <4>3. /\ pc' \in {"poll", "idle"} /\ answer' \in Answers /\ looks' \in {0, looks}
              /\ errors' = errors \/ (errors < MaxErrors /\ errors' = errors + 1)
          <5>1. answer \in Answers
            BY <1>1 DEF EngineTypes
          <5> QED
            BY <1>6, <2>3, <5>1, SendLegIs
        <4> QED
          BY <1>1, <4>2, <4>3, Numbers
      <3>3. EngineTypes'
        <4>1. plan' = plan /\ plans' = plans /\ shorts' = shorts /\ confirmed' \subseteq Sent'
          BY <1>1, <2>1, <3>1 DEF EngineTypes
        <4> QED
          BY <1>1, <2>1, <3>2, <4>1, Zenon DEF EngineTypes
      <3>4. SizeInv'
        <4>1. plans' = plans /\ at' = at /\ at \in 1..2
          BY <1>1, <2>1, CurrentLeg
        <4> QED
          BY <1>1, <2>1, <3>1, <3>2, <4>1, Numbers DEF SizeInv
      <3> QED
        BY <1>1, <2>1, <3>1, <3>3, <3>4 DEF TypeInv
    <2>5. CASE UNCHANGED brokerVars /\ ~Accepted(plan[at])
      <3>1. /\ pc' = "idle" /\ answer' \in Answers /\ looks' = looks
            /\ errors' \in 0..MaxErrors /\ lost' \in BOOLEAN
        <4>1. lost' = lost \/ lost' = TRUE
          BY <1>6, SendLegIs
        <4>2. lost' \in BOOLEAN
          BY <1>1, <4>1, Zenon DEF EngineTypes
        <4>3. /\ pc' = "idle" /\ answer' \in Answers /\ looks' = looks
              /\ errors' = errors \/ (errors < MaxErrors /\ errors' = errors + 1)
          BY <1>1, <1>6, <2>3, <2>5, SendLegIs
        <4> QED
          BY <1>1, <4>2, <4>3, Numbers
      <3>2. EngineTypes'
        <4>1. plan' = plan /\ plans' = plans /\ shorts' = shorts /\ confirmed' \subseteq Sent'
          BY <1>1, <2>1, <2>5 DEF EngineTypes
        <4> QED
          BY <1>1, <2>1, <3>1, <4>1, Zenon DEF EngineTypes
      <3>3. SizeInv'
        <4>1. plans' = plans /\ at' = at /\ at \in 1..2 /\ next' = next
          BY <1>1, <2>1, <2>5, CurrentLeg
        <4> QED
          BY <1>1, <2>1, <3>1, <4>1, Numbers DEF SizeInv
      <3> QED
        BY <1>1, <2>1, <2>5, <3>2, <3>3 DEF TypeInv
    <2> QED
      BY <1>6, <2>4, <2>5, SendLegIs
  <1>7. CASE Poll
    <2>1. /\ pc = "poll" /\ UNCHANGED <<brokerVars, planVars, lost, calm>>
          /\ errors' = errors \/ (errors < MaxErrors /\ errors' = errors + 1)
          /\ confirmed' \in {confirmed, confirmed \cup {next - 1}}
      BY <1>7, PollIs
    <2>2. next - 1 \in Sent
      BY <1>1, <2>1, Numbers DEF Sent
    <2>3. looks' \in 0..Attempts
      BY <1>1, <1>7, PollIs DEF Least, EngineTypes
    <2>4. /\ pc' \in {"idle", "leg", "poll"} /\ at' \in Nat /\ answer' \in Answers
          /\ pc' # "idle" => at' \in DOMAIN plan'
      <3>1. answer \in Answers /\ "OVERLAY_PLACED" \in Answers
        BY <1>1 DEF EngineTypes, Answers
      <3>2. at \in 1..Len(plan) /\ Len(plan) \in Nat /\ DOMAIN plan = 1..Len(plan)
        BY <1>1, <2>1, CurrentLeg DEF PlanInv
      <3>3. (pc' = pc /\ at' = at /\ answer' = answer) \/ (pc' = "leg" /\ at' = at + 1 /\ at < Len(plan) /\ answer' = answer)
               \/ (pc' = "idle" /\ at' = at /\ answer' = "OVERLAY_PLACED")
        BY <1>7, PollIs
      <3> QED
        BY <1>1, <2>1, <3>1, <3>2, <3>3
    <2>5. EngineTypes'
      <3>1. errors' \in 0..MaxErrors
        BY <1>1, <2>1, Numbers
      <3>2. confirmed' \subseteq Sent'
        BY <1>1, <2>1, <2>2 DEF EngineTypes
      <3>3. /\ plan' = plan /\ plans' = plans /\ shorts' = shorts /\ lost' = lost /\ calm' = calm
        BY <1>1, <2>1
      <3> QED
        BY <1>1, <2>3, <2>4, <3>1, <3>2, <3>3, Zenon DEF EngineTypes
    <2>6. SizeInv'
      <3>1. next' = next /\ plans' = plans /\ at \in 1..2
        BY <1>1, <2>1, CurrentLeg
      <3>2. (pc' = pc /\ at' = at) \/ (pc' = "leg" /\ at' = at + 1) \/ (pc' = "idle" /\ at' = at)
        BY <1>7, PollIs
      <3> QED
        BY <1>1, <2>1, <3>1, <3>2, Numbers DEF SizeInv
    <2> QED
      BY <1>1, <2>1, <2>5, <2>6 DEF TypeInv
  <1>8. ASSUME NEW i \in working, Fill(i) \/ Lapse(i) PROVE TypeInv'
    <2>1. /\ UNCHANGED <<next, planVars, pc, at, looks, confirmed, answer, errors, lost>>
          /\ calm' = calm \/ calm' = FALSE
      BY <1>8 DEF Fill, Lapse
    <2>2. calm' \in BOOLEAN
      BY <1>1, <2>1, Zenon DEF EngineTypes
    <2>3. EngineTypes' /\ SizeInv'
      BY <1>1, <2>1, <2>2 DEF EngineTypes, SizeInv, Sent
    <2> QED
      BY <1>1, <1>8, <2>1, <2>3, BrokerTypesHold DEF TypeInv
  <1>9. CASE UNCHANGED vars
    BY <1>1, <1>9 DEF vars, TypeInv, EngineTypes, SizeInv, Sent
  <1> QED
    BY <1>2, <1>4, <1>5, <1>6, <1>7, <1>8, <1>9 DEF Next, Engine
-----------------------------------------------------------------------------
(* What was sent of the current plan.                                      *)

Mine == {i \in Sent : order[i].corr = plans}
Upto == IF pc = "poll" THEN at ELSE at - 1

SentInv ==
    /\ \A i \in Sent : order[i].corr <= plans
    /\ \A i, j \in Mine : order[i].contract = order[j].contract => i = j
    /\ pc # "idle" => /\ answer = "none"
                      /\ \A i \in Mine : \E k \in 1..Upto : order[i] = plan[k]
                      /\ \A k \in 1..Upto : \E i \in Mine : order[i] = plan[k]
    /\ pc = "poll" => next - 1 \in Mine
    /\ confirmed \subseteq Mine

(* What the answers mean.                                                  *)
PlacedInv ==
    answer = "OVERLAY_PLACED" => \A k \in DOMAIN plan : \E i \in Mine : order[i] = plan[k]
LongsOnlyInv ==
    answer \in {"OVERLAY_RESIDUAL_LONG", "REJECTED_BY_RISK", "ORDER_REJECTED"} /\ ~lost =>
        \A i \in Mine : order[i].side = "BUY"
ResidualInv ==
    answer = "OVERLAY_RESIDUAL_LONG" => \E i \in Mine : order[i].side = "BUY" /\ i \notin working

LEMMA AnswersMean == PlacedInv /\ LongsOnlyInv /\ ResidualInv <=> AnswersAreTrue
  BY DEF PlacedInv, LongsOnlyInv, ResidualInv, AnswersAreTrue, Mine

(* A short leg that passes is covered by shares, or by an earlier leg.     *)
LEMMA PassedIsCovered ==
    ASSUME TypeInv, pc = "leg", plan[at].side = "SELL", Coverable(plan[at])
    PROVE  /\ ShareCover(plan[at].contract.right) \in Nat
           /\ shorts[plan[at].contract.right] \in Nat
           /\ \/ shorts[plan[at].contract.right] + plan[at].qty <= ShareCover(plan[at].contract.right)
              \/ /\ shorts[plan[at].contract.right] <= ShareCover(plan[at].contract.right)
                 /\ at = 2 /\ plan[1].side = "BUY" /\ Covers(plan[1].contract, plan[at].contract)
                 /\ plan[1].qty = plan[at].qty
  <1> DEFINE leg == plan[at]
             f   == [i \in DOMAIN plan |-> plan[i].qty]
             S   == {i \in DOMAIN plan : /\ plan[i].side = "BUY" /\ Covers(plan[i].contract, leg.contract)}
             right == leg.contract.right
  <1>1. /\ at \in 1..Len(plan) /\ Len(plan) \in {1, 2} /\ DOMAIN plan = 1..Len(plan)
        /\ leg \in Legs /\ leg.qty > 0
    BY CurrentLeg DEF TypeInv, PlanInv
  <1>2. at = Len(plan)
    BY <1>1 DEF TypeInv, PlanInv
  <1>3. leg.qty \in Nat /\ right \in Rights
    BY <1>1 DEF Legs, Contracts
  <1>4. ShareCover(right) \in Nat /\ shorts[right] \in Nat
    <2>1. lots \in Nat /\ shorts \in [Rights -> Nat]
      BY DEF TypeInv, BrokerTypes, EngineTypes
    <2> QED
      BY <1>3, <2>1 DEF ShareCover
  <1>5. f \in [1..Len(plan) -> Nat] /\ \A i \in 1..Len(plan) : f[i] = plan[i].qty /\ plan[i].qty \in Nat
    <2> SUFFICES ASSUME NEW i \in 1..Len(plan) PROVE plan[i].qty \in Nat
      BY <1>1
    <2>1. plan[i] \in Legs
      BY <1>1 DEF TypeInv, PlanInv
    <2> QED
      BY <2>1 DEF Legs
  <1>6. S \in SUBSET (1..Len(plan)) /\ IsFiniteSet(S)
    <2>1. S \in SUBSET (1..Len(plan))
      BY <1>1
    <2>2. IsFiniteSet(1..Len(plan))
      BY <1>1, FS_Interval
    <2> HIDE DEF S
    <2> QED
      BY <2>1, <2>2, FS_Subset
  <1>7. SumFunctionOnSet(f, S) = LongCover(leg)
    BY DEF LongCover
  <1> HIDE DEF f
  <1>8. LongCover(leg) \in Nat
    <2> HIDE DEF S
    <2>1. SumFunctionOnSet(f, S) \in Nat
      BY <1>5, <1>6, SumByChoice, Zenon
    <2> QED
      BY <1>7, <2>1, Zenon
  <1>9. ShareCover(right) + LongCover(leg) - shorts[right] >= leg.qty
    BY DEF Coverable, Available
  <1>10. CASE S = {}
    <2>1. LongCover(leg) = 0
      BY <1>5, <1>6, <1>7, <1>10, SumByChoice
    <2> QED
      BY <1>3, <1>4, <1>9, <2>1
  <1>11. CASE S # {}
    <2>1. at \notin S
      OBVIOUS
    <2>2. Len(plan) = 2 /\ S = {1}
      BY <1>1, <1>2, <1>6, <1>11, <2>1
    <2>3. IsFiniteSet({}) /\ SumFunctionOnSet(f, {}) = 0
      BY <1>5, FS_EmptySet, SumByChoice
    <2>4. LongCover(leg) = f[1]
      <3>1. SumFunctionOnSet(f, S) = f[1] + SumFunctionOnSet(f, S \ {1})
        BY <1>5, <1>6, <2>2, SumByMember
      <3>2. S \ {1} = {}
        BY <2>2
      <3>3. f[1] \in Nat
        BY <1>5, <2>2
      <3> QED
        BY <1>7, <2>3, <3>1, <3>2, <3>3
    <2>5. plan[1].qty = leg.qty /\ f[1] = plan[1].qty
      <3>1. \A k \in DOMAIN plan : plan[k].qty = plan[1].qty
        BY DEF TypeInv, PlanInv
      <3> QED
        BY <1>1, <1>5, <2>2, <3>1
    <2>6. plan[1].side = "BUY" /\ Covers(plan[1].contract, leg.contract)
      BY <2>2
    <2>7. shorts[right] <= ShareCover(right)
      BY <1>3, <1>4, <1>8, <1>9, <2>4, <2>5
    <2> QED
      BY <1>2, <1>4, <2>2, <2>5, <2>6, <2>7
  <1> QED
    BY <1>4, <1>10, <1>11

(* Steps that send nothing change nothing of what was sent.                *)
LEMMA SentStays ==
    ASSUME TypeInv, SentInv, UNCHANGED <<order, next, plan, plans, confirmed, at, pc, answer>>
    PROVE  SentInv'
  <1>1. Sent' = Sent /\ Mine' = Mine /\ Upto' = Upto
    BY DEF Sent, Mine, Upto
  <1> QED
    BY <1>1 DEF SentInv

(* ... nor does a plan that ends.                                          *)
LEMMA SentEnds ==
    ASSUME TypeInv, SentInv, UNCHANGED <<order, next, plan, plans, confirmed>>, pc' = "idle"
    PROVE  SentInv'
  <1>1. Sent' = Sent /\ Mine' = Mine
    BY DEF Sent, Mine
  <1> QED
    BY <1>1 DEF SentInv

(* A leg is sent under the number of its plan, once.                       *)
LEMMA LegIsSent ==
    ASSUME TypeInv, SentInv, pc = "leg", Accepted(plan[at]), UNCHANGED <<planVars, at, confirmed>>,
           \/ pc' = "idle"
           \/ pc' = "poll" /\ answer' = answer
    PROVE  /\ SentInv' /\ Mine' = Mine \cup {next} /\ next \notin Sent /\ Sent' = Sent \cup {next}
           /\ order'[next] = plan[at] /\ \A i \in Sent : order'[i] = order[i]
           /\ left'[next] = plan[at].qty /\ \A i \in Sent : left'[i] = left[i]
  <1>1. /\ at \in 1..Len(plan) /\ plan[at] \in Legs /\ plan[at].qty > 0 /\ plan[at].corr = plans
        /\ DOMAIN plan = 1..Len(plan) /\ Len(plan) \in {1, 2}
    BY CurrentLeg DEF TypeInv, PlanInv
  <1>2. /\ next' = next + 1 /\ Sent' = Sent \cup {next} /\ next \notin Sent
        /\ order'[next] = plan[at] /\ \A i \in Sent : order'[i] = order[i]
        /\ left'[next] = plan[at].qty /\ \A i \in Sent : left'[i] = left[i]
    BY <1>1, AcceptedIs DEF TypeInv
  <1>3. plan' = plan /\ plans' = plans /\ at' = at /\ confirmed' = confirmed
    BY DEF planVars
  <1>4. Mine' = Mine \cup {next}
    BY <1>1, <1>2, <1>3 DEF Mine
  <1>5. Mine \subseteq Sent /\ Upto = at - 1 /\ plans \in Nat
    BY DEF Mine, Upto, TypeInv, EngineTypes
  <1>6. \A i \in Sent' : order'[i].corr <= plans'
    BY <1>1, <1>2, <1>3, <1>5 DEF SentInv
  <1>7. \A i \in Mine : order[i].contract # plan[at].contract
    <2> SUFFICES ASSUME NEW i \in Mine, order[i].contract = plan[at].contract PROVE FALSE
      OBVIOUS
    <2>1. PICK k \in 1..Upto : order[i] = plan[k]
      BY DEF SentInv
    <2>2. k \in DOMAIN plan /\ k # at
      BY <1>1, <1>5
    <2>3. plan[k].contract = plan[at].contract
      BY <2>1
    <2> QED
      BY <1>1, <2>2, <2>3 DEF TypeInv, PlanInv
  <1>8. \A i, j \in Mine' : order'[i].contract = order'[j].contract => i = j
    BY <1>2, <1>4, <1>5, <1>7 DEF SentInv
  <1>9. ASSUME pc' = "poll", answer' = answer
        PROVE  /\ answer' = "none"
               /\ \A i \in Mine' : \E k \in 1..Upto' : order'[i] = plan'[k]
               /\ \A k \in 1..Upto' : \E i \in Mine' : order'[i] = plan'[k]
               /\ next' - 1 \in Mine'
    <2>1. Upto' = at /\ at \in Nat
      BY <1>1, <1>3, <1>9 DEF Upto
    <2>2. ASSUME NEW i \in Mine' PROVE \E k \in 1..at : order'[i] = plan[k]
      <3>1. CASE i = next
        BY <1>1, <1>2, <3>1
      <3>2. CASE i \in Mine
        <4>1. PICK k \in 1..Upto : order[i] = plan[k]
          BY <3>2 DEF SentInv
        <4>2. k \in 1..at /\ order'[i] = plan[k]
          BY <1>2, <1>5, <2>1, <3>2, <4>1
        <4> QED
          BY <4>2
      <3> QED
        BY <1>4, <3>1, <3>2
    <2>3. ASSUME NEW k \in 1..at PROVE \E i \in Mine' : order'[i] = plan[k]
      <3>1. CASE k = at
        BY <1>2, <1>4, <3>1
      <3>2. CASE k # at
        <4>1. k \in 1..Upto
          BY <1>5, <2>1, <3>2
        <4>2. PICK i \in Mine : order[i] = plan[k]
          BY <4>1 DEF SentInv
        <4> QED
          BY <1>2, <1>4, <1>5, <4>2
      <3> QED
        BY <3>1, <3>2
    <2>4. next' - 1 \in Mine'
      BY <1>2, <1>4 DEF TypeInv, BrokerTypes
    <2>5. answer' = "none"
      BY <1>9 DEF SentInv
    <2> QED
      BY <1>3, <2>1, <2>2, <2>3, <2>4, <2>5
  <1>10. confirmed' \subseteq Mine'
    BY <1>3, <1>4 DEF SentInv
  <1>11. SentInv'
    <2>1. CASE pc' = "idle"
      BY <1>6, <1>8, <1>10, <2>1 DEF SentInv
    <2>2. CASE pc' = "poll" /\ answer' = answer
      BY <1>6, <1>8, <1>9, <1>10, <2>2, Zenon DEF SentInv
    <2> QED
      BY <2>1, <2>2
  <1> QED
    BY <1>2, <1>4, <1>11

(* A poll may go on to the next leg, and confirms the current one at most.  *)
LEMMA PollGoesOn ==
    ASSUME TypeInv, SentInv, Poll
    PROVE  SentInv'
  <1>1. /\ pc = "poll" /\ UNCHANGED <<brokerVars, planVars, lost, calm>>
        /\ confirmed' = confirmed \/ confirmed' = confirmed \cup {next - 1}
        /\ \/ pc' = pc /\ at' = at /\ answer' = answer
           \/ at < Len(plan) /\ pc' = "leg" /\ at' = at + 1 /\ answer' = answer
           \/ pc' = "idle"
    BY PollIs
  <1>2. Sent' = Sent /\ Mine' = Mine /\ order' = order /\ plan' = plan /\ plans' = plans /\ next' = next
    BY <1>1 DEF Sent, Mine, brokerVars, planVars
  <1>3. confirmed' \subseteq Mine'
    BY <1>1, <1>2 DEF SentInv
  <1>4. pc' # "idle" => Upto' = Upto /\ answer' = answer
    <2>1. at \in Nat
      BY DEF TypeInv, EngineTypes
    <2> QED
      BY <1>1, <2>1 DEF Upto
  <1> QED
    BY <1>1, <1>2, <1>3, <1>4 DEF SentInv

(* Every step keeps the book of what was sent.                             *)
LEMMA SentStep ==
    ASSUME TypeInv, SentInv, [Next]_vars
    PROVE  SentInv'
  <1>1. CASE Plan
    <2>1. /\ UNCHANGED brokerVars /\ plans' = plans + 1 /\ pc' = "leg" /\ at' = 1 /\ confirmed' = {}
          /\ answer' = "none"
      BY <1>1 DEF Plan
    <2>2. plans \in Nat /\ \A i \in Sent : order[i].corr \in Nat
      <3>1. \A i \in Sent : order[i] \in Legs
        BY DEF TypeInv, BrokerTypes, Sent
      <3> QED
        BY <3>1 DEF Legs, TypeInv, EngineTypes
    <2>3. Sent' = Sent /\ order' = order /\ Mine' = {}
      BY <2>1, <2>2 DEF Sent, Mine, brokerVars, SentInv
    <2>4. Upto' = 0
      BY <2>1 DEF Upto
    <2>5. \A i \in Sent' : order'[i].corr <= plans'
      BY <2>1, <2>2, <2>3 DEF SentInv
    <2> QED
      BY <2>1, <2>3, <2>4, <2>5 DEF SentInv
  <1>2. CASE RejectedByRisk \/ Abandon
    <2>1. pc' = "idle" /\ UNCHANGED <<brokerVars, planVars, confirmed>>
      BY <1>2 DEF RejectedByRisk, Abandon, Fails, Answer
    <2> QED
      BY <2>1, SentEnds DEF brokerVars, planVars
  <1>3. CASE SendLeg
    <2>1. /\ pc = "leg" /\ at' = at /\ UNCHANGED planVars /\ confirmed' = confirmed
      BY <1>3, SendLegIs
    <2>2. CASE Accepted(plan[at])
      <3>1. pc' = "idle" \/ (pc' = "poll" /\ answer' = answer)
        BY <1>3, SendLegIs DEF Fails, Answer
      <3> QED
        BY <2>1, <2>2, <3>1, LegIsSent
    <2>3. CASE ~Accepted(plan[at])
      <3>1. pc' = "idle" /\ UNCHANGED brokerVars
        BY <1>3, <2>3, SendLegIs DEF Fails, Answer
      <3> QED
        BY <2>1, <3>1, SentEnds DEF brokerVars, planVars
    <2> QED
      BY <2>2, <2>3
  <1>4. CASE Poll
    BY <1>4, PollGoesOn
  <1>5. ASSUME NEW i \in working, Fill(i) \/ Lapse(i) PROVE SentInv'
    <2>1. UNCHANGED <<order, next, plan, plans, confirmed, at, pc, answer>>
      BY <1>5 DEF Fill, Lapse, planVars
    <2> QED
      BY <2>1, SentStays
  <1>6. CASE UNCHANGED vars
    BY <1>6, SentStays DEF vars, brokerVars, planVars
  <1> QED
    BY <1>1, <1>2, <1>3, <1>4, <1>5, <1>6 DEF Next, Engine
-----------------------------------------------------------------------------
LEMMA InitTypes == Init => TypeInv /\ SentInv
  <1> SUFFICES ASSUME Init PROVE TypeInv /\ SentInv
    OBVIOUS
  <1>1. /\ order = <<>> /\ left = <<>> /\ working = {} /\ next = 1 /\ confirmed = {}
        /\ pc = "idle" /\ plan = <<>> /\ at = 0 /\ looks = 0 /\ plans = 0 /\ errors = 0
        /\ answer = "none" /\ lost = FALSE /\ calm = TRUE
    BY DEF Init
  <1>2. Sent = {} /\ Mine = {}
    BY <1>1 DEF Sent, Mine
  <1>3. BrokerTypes
    <2>1. lots \in Nat
      BY OverlayAssumption DEF Init
    <2>2. position \in [Contracts -> Int]
      BY DEF Init
    <2> QED
      BY <1>1, <1>2, <2>1, <2>2 DEF BrokerTypes
  <1>4. shorts \in [Rights -> Nat]
    BY DEF Init
  <1>5. EngineTypes
    <2>1. 0 \in 0..Attempts /\ 0 \in 0..MaxPlans /\ 0 \in 0..MaxErrors
      BY OverlayAssumption
    <2> QED
      BY <1>1, <1>4, <2>1, Zenon DEF EngineTypes, Answers
  <1>6. PlanInv /\ SizeInv
    BY <1>1 DEF PlanInv, SizeInv
  <1> QED
    BY <1>1, <1>2, <1>3, <1>5, <1>6 DEF TypeInv, SentInv

LEMMA BooksAreKept == Spec => [](TypeInv /\ SentInv)
  <1>1. TypeInv /\ SentInv /\ [Next]_vars => (TypeInv /\ SentInv)'
    BY TypesStep, SentStep
  <1> QED
    BY InitTypes, <1>1, PTL DEF Spec

(* The types of the state, and that there are at most two orders a plan.   *)
THEOREM OverlayTypes == Spec => []TypeOK
  <1>1. TypeInv /\ SentInv => TypeOK
    BY TypesAre
  <1> QED
    BY BooksAreKept, <1>1, PTL

-----------------------------------------------------------------------------
(* Short legs wait for their cover.                                        *)

LEMMA CoverIsAccepted ==
    ASSUME TypeInv, SentInv, CoverIsPlaced, SendLeg, Accepted(plan[at])
    PROVE  CoverIsPlaced'
  <1>1. /\ pc = "leg" /\ Coverable(plan[at]) /\ UNCHANGED <<planVars, at, confirmed>>
        /\ pc' = "idle" \/ (pc' = "poll" /\ answer' = answer)
    BY SendLegIs DEF Fails, Answer
  <1>2. /\ Sent' = Sent \cup {next} /\ next \notin Sent
        /\ order'[next] = plan[at] /\ \A i \in Sent : order'[i] = order[i]
    BY <1>1, LegIsSent
  <1>3. lots' = lots /\ Sent = 1..(next - 1) /\ next \in Nat
    BY DEF Accepted, Sent, TypeInv, BrokerTypes
  <1>4. ASSUME NEW i \in Sent, order[i].side = "SELL"
        PROVE  \/ order'[i].qty <= ShareCover(order'[i].contract.right)
               \/ \E j \in 1..(i - 1) :
                     /\ order'[j].side = "BUY" /\ order'[j].corr = order'[i].corr
                     /\ Covers(order'[j].contract, order'[i].contract)
    <2>1. order'[i] = order[i] /\ \A j \in 1..(i - 1) : order'[j] = order[j]
      BY <1>2, <1>3
    <2> QED
      BY <1>4, <2>1 DEF CoverIsPlaced
  <1>5. ASSUME plan[at].side = "SELL"
        PROVE  \/ plan[at].qty <= ShareCover(plan[at].contract.right)
               \/ \E j \in 1..(next - 1) :
                     /\ order'[j].side = "BUY" /\ order'[j].corr = plan[at].corr
                     /\ Covers(order'[j].contract, plan[at].contract)
    <2>0. /\ at \in DOMAIN plan /\ plan[at] \in Legs /\ plan[at].corr = plans
      BY <1>1, CurrentLeg DEF TypeInv, PlanInv
    <2>1. plan[at].qty \in Nat
      BY <2>0 DEF Legs
    <2>2. CASE /\ at = 2 /\ plan[1].side = "BUY" /\ Covers(plan[1].contract, plan[at].contract)
      <3>1. 1 \in 1..Upto
        BY <1>1, <2>2 DEF Upto
      <3>2. PICK j \in Mine : order[j] = plan[1]
        BY <1>1, <3>1 DEF SentInv
      <3>3. order'[j] = plan[1] /\ order[j].corr = plans /\ j \in 1..(next - 1)
        BY <1>2, <1>3, <3>2 DEF Mine
      <3> QED
        BY <2>0, <2>2, <3>2, <3>3
    <2> QED
      BY <1>1, <1>5, <2>1, <2>2, PassedIsCovered
  <1> QED
    <2>1. ASSUME NEW i \in Sent', order'[i].side = "SELL"
          PROVE  \/ order'[i].qty <= ShareCover(order'[i].contract.right)
                 \/ \E j \in 1..(i - 1) :
                       /\ order'[j].side = "BUY" /\ order'[j].corr = order'[i].corr
                       /\ Covers(order'[j].contract, order'[i].contract)
      <3>1. CASE i = next
        BY <1>2, <1>5, <2>1, <3>1
      <3>2. CASE i \in Sent
        BY <1>2, <1>4, <2>1, <3>2
      <3> QED
        BY <1>2, <3>1, <3>2
    <2>2. CoverIsPlaced' <=> \A i \in Sent' : order'[i].side = "SELL" =>
              \/ order'[i].qty <= ShareCover(order'[i].contract.right)
              \/ \E j \in 1..(i - 1) :
                    /\ order'[j].side = "BUY" /\ order'[j].corr = order'[i].corr
                    /\ Covers(order'[j].contract, order'[i].contract)
      BY <1>3 DEF CoverIsPlaced, ShareCover
    <2> QED
      BY <2>1, <2>2

LEMMA CoverStays ==
    ASSUME CoverIsPlaced, UNCHANGED <<order, next, lots>>
    PROVE  CoverIsPlaced'
  <1>1. Sent' = Sent /\ \A r : ShareCover(r)' = ShareCover(r)
    BY DEF Sent, ShareCover
  <1> QED
    BY <1>1 DEF CoverIsPlaced

(* A short leg is at the broker only if shares cover it, or an earlier     *)
(* long leg of its plan, for any chain, plans and failures (_route_overlay *)
(* sends the long legs first and stops at an ack that is not good).        *)
THEOREM CoverComesFirst == Spec => []CoverIsPlaced
<1>1. Init => CoverIsPlaced
  BY DEF Init, CoverIsPlaced, Sent
<1>2. TypeInv /\ SentInv /\ CoverIsPlaced /\ [Next]_vars => CoverIsPlaced'
  <2> SUFFICES ASSUME TypeInv, SentInv, CoverIsPlaced, [Next]_vars PROVE CoverIsPlaced'
    OBVIOUS
  <2>1. CASE SendLeg /\ Accepted(plan[at])
    BY <2>1, CoverIsAccepted
  <2>2. CASE SendLeg /\ ~Accepted(plan[at])
    <3>1. UNCHANGED brokerVars
      BY <2>2, SendLegIs
    <3> QED
      BY <3>1, CoverStays DEF brokerVars
  <2>3. CASE Plan \/ RejectedByRisk \/ Poll \/ Abandon \/ UNCHANGED vars
    BY <2>3, CoverStays DEF Plan, RejectedByRisk, Poll, Abandon, vars, brokerVars
  <2>4. ASSUME NEW i \in working, Fill(i) \/ Lapse(i) PROVE CoverIsPlaced'
    BY <2>4, CoverStays DEF Fill, Lapse
  <2> QED
    BY <2>1, <2>2, <2>3, <2>4 DEF Next, Engine
<1> QED
  BY BooksAreKept, <1>1, <1>2, PTL DEF Spec
ConfirmedInv ==
    /\ next \in Nat
    /\ \A i \in confirmed : i \in Int /\ i < next
    /\ ConfirmedIsDone

(* The broker accepts a leg under a new id.                                *)
LEMMA AcceptedIsNew ==
    ASSUME ConfirmedInv, UNCHANGED confirmed,
           (\E leg : Accepted(leg)) \/ UNCHANGED brokerVars
    PROVE  ConfirmedInv'
  <1>1. CASE \E leg : Accepted(leg)
    BY <1>1 DEF Accepted, ConfirmedInv, ConfirmedIsDone
  <1>2. CASE UNCHANGED brokerVars
    BY <1>2 DEF brokerVars, ConfirmedInv, ConfirmedIsDone
  <1> QED BY <1>1, <1>2

(* Only a leg that is off the book is confirmed.                           *)
LEMMA PollConfirms ==
    ASSUME ConfirmedInv, Poll
    PROVE  ConfirmedInv'
  <1>0. next - 1 \in Int /\ next - 1 < next
    BY DEF ConfirmedInv
  <1>1. next' = next /\ working' = working
    BY DEF Poll, brokerVars
  <1>2. PICK seen \in {"working", "off the book", "unknown"} :
            /\ IF seen = "unknown" THEN errors < MaxErrors /\ errors' = errors + 1
               ELSE (seen = "working" <=> next - 1 \in working) /\ UNCHANGED errors
            /\ \/ Done(seen) /\ confirmed' = confirmed \cup {next - 1}
               \/ UNCHANGED confirmed
    BY DEF Poll
  <1>3. CASE Done(seen) /\ confirmed' = confirmed \cup {next - 1}
    <2>1. next - 1 \notin working
      BY <1>2, <1>3 DEF Done
    <2>2. ConfirmedIsDone'
      BY <1>1, <1>3, <2>1 DEF ConfirmedInv, ConfirmedIsDone
    <2>3. \A i \in confirmed' : i \in Int /\ i < next
      BY <1>0, <1>3 DEF ConfirmedInv
    <2> QED BY <1>1, <2>2, <2>3 DEF ConfirmedInv
  <1>4. CASE UNCHANGED confirmed
    BY <1>1, <1>4 DEF ConfirmedInv, ConfirmedIsDone
  <1> QED BY <1>2, <1>3, <1>4

(* A leg that counts as confirmed works no more, whatever queries failed   *)
(* and whatever is sent after it (_confirm_hedge_fill).                    *)
THEOREM ConfirmedLegsAreDone == Spec => []ConfirmedIsDone
<1>1. Init => ConfirmedInv
  BY DEF Init, ConfirmedInv, ConfirmedIsDone
<1>2. ConfirmedInv /\ [Next]_vars => ConfirmedInv'
  <2> SUFFICES ASSUME ConfirmedInv, [Next]_vars PROVE ConfirmedInv'
    OBVIOUS
  <2>1. CASE Plan
    BY <2>1 DEF Plan, ConfirmedInv, ConfirmedIsDone, brokerVars
  <2>2. CASE RejectedByRisk \/ Abandon
    BY <2>2, AcceptedIsNew DEF RejectedByRisk, Abandon
  <2>3. CASE SendLeg
    BY <2>3, AcceptedIsNew DEF SendLeg
  <2>4. CASE Poll
    BY <2>4, PollConfirms
  <2>5. ASSUME NEW i \in working, Fill(i) \/ Lapse(i) PROVE ConfirmedInv'
    <3>1. working' \subseteq working /\ UNCHANGED <<next, confirmed>>
      BY <2>5 DEF Fill, Lapse
    <3> QED BY <3>1 DEF ConfirmedInv, ConfirmedIsDone
  <2>6. CASE UNCHANGED vars
    BY <2>6, AcceptedIsNew DEF vars
  <2> QED BY <2>1, <2>2, <2>3, <2>4, <2>5, <2>6 DEF Next, Engine
<1>3. ConfirmedInv => ConfirmedIsDone
  BY DEF ConfirmedInv
<1> QED BY <1>1, <1>2, <1>3, PTL DEF Spec
-----------------------------------------------------------------------------
(* What an answer says of the plan.                                        *)

(* As long as a leg is to be sent, nothing but long legs was.              *)
LEMMA LongsBefore ==
    ASSUME TypeInv, SentInv, pc = "leg"
    PROVE  \A i \in Mine : order[i].side = "BUY"
  <1> SUFFICES ASSUME NEW i \in Mine PROVE order[i].side = "BUY"
    OBVIOUS
  <1> DEFINE n == Len(plan)
  <1>1. at \in 1..n /\ n \in Nat /\ DOMAIN plan = 1..n /\ Upto = at - 1
    BY CurrentLeg DEF TypeInv, PlanInv, Upto
  <1>2. PICK k \in 1..Upto : order[i] = plan[k]
    BY DEF SentInv
  <1>3. k \in DOMAIN plan /\ k # n
    <2> HIDE DEF n
    <2> QED
      BY <1>1
  <1>4. plan[k] \in Legs
    BY <1>3 DEF TypeInv, PlanInv
  <1>5. plan[k].side \in {"BUY", "SELL"} /\ plan[k].side # "SELL"
    BY <1>3, <1>4 DEF TypeInv, PlanInv, Legs
  <1> QED
    BY <1>2, <1>5

AnswerInv == PlacedInv /\ LongsOnlyInv /\ ResidualInv

LEMMA AnswersStay ==
    ASSUME AnswerInv, UNCHANGED <<order, next, plan, plans, answer, lost>>, working' \subseteq working
    PROVE  AnswerInv'
  <1>1. Mine' = Mine
    BY DEF Mine, Sent
  <1>2. PlacedInv'
    BY <1>1 DEF AnswerInv, PlacedInv
  <1>3. LongsOnlyInv'
    BY <1>1 DEF AnswerInv, LongsOnlyInv
  <1>4. ResidualInv'
    BY <1>1 DEF AnswerInv, ResidualInv
  <1> QED
    BY <1>2, <1>3, <1>4 DEF AnswerInv

LEMMA NoAnswer == ASSUME answer' = "none" PROVE AnswerInv'
  BY DEF AnswerInv, PlacedInv, LongsOnlyInv, ResidualInv

(* A leg that is turned down ends a plan.                                  *)
LEMMA LegFails ==
    ASSUME TypeInv, SentInv, ConfirmedIsDone, pc = "leg", UNCHANGED <<brokerVars, planVars>>,
           NEW a \in {"REJECTED_BY_RISK", "ORDER_REJECTED", "ORDER_UNKNOWN"}, Fails(a),
           a = "ORDER_UNKNOWN" => lost' = TRUE
    PROVE  AnswerInv'
  <1>1. /\ answer' \in {a, "OVERLAY_RESIDUAL_LONG"}
        /\ answer' = "OVERLAY_RESIDUAL_LONG" => FilledLong
    BY FailsWith DEF Answers
  <1>2. Mine' = Mine /\ order' = order /\ working' = working
    BY DEF Mine, Sent, brokerVars, planVars
  <1>3. PlacedInv'
    BY <1>1 DEF PlacedInv
  <1>4. LongsOnlyInv'
    BY <1>2, LongsBefore DEF LongsOnlyInv
  <1>5. FilledLong => \E i \in Mine : order[i].side = "BUY" /\ i \notin working
    BY DEF FilledLong, SentInv, ConfirmedIsDone
  <1>6. ResidualInv'
    BY <1>1, <1>2, <1>5 DEF ResidualInv
  <1> QED
    BY <1>3, <1>4, <1>6 DEF AnswerInv

LEMMA LegIsLost ==
    ASSUME TypeInv, SentInv, ConfirmedIsDone, SendLeg, Accepted(plan[at]), Fails("ORDER_UNKNOWN"),
           lost' = TRUE
    PROVE  AnswerInv'
  <1>1. /\ pc = "leg" /\ UNCHANGED <<planVars, at, confirmed>> /\ pc' = "idle"
        /\ answer' \in {"ORDER_UNKNOWN", "OVERLAY_RESIDUAL_LONG"}
        /\ answer' = "OVERLAY_RESIDUAL_LONG" => FilledLong
    BY SendLegIs, FailsWith DEF Answers
  <1>2. /\ Mine' = Mine \cup {next} /\ next \notin Sent /\ \A i \in Sent : order'[i] = order[i]
    BY <1>1, LegIsSent
  <1>3. working' = working \cup {next} /\ Mine \subseteq Sent
    BY DEF Accepted, Mine
  <1>4. ASSUME FilledLong PROVE \E i \in Mine' : order'[i].side = "BUY" /\ i \notin working'
    <2>1. PICK i \in confirmed : order[i].side = "BUY"
      BY <1>4 DEF FilledLong
    <2>2. i \in Mine /\ i \notin working
      BY <2>1 DEF SentInv, ConfirmedIsDone
    <2> QED
      BY <1>2, <1>3, <2>1, <2>2
  <1> QED
    BY <1>1, <1>4 DEF AnswerInv, PlacedInv, LongsOnlyInv, ResidualInv

LEMMA PollAnswers ==
    ASSUME TypeInv, SentInv, Poll
    PROVE  AnswerInv'
  <1>1. /\ pc = "poll" /\ UNCHANGED <<brokerVars, planVars, lost, calm>>
        /\ answer' = answer \/ (~(at < Len(plan)) /\ answer' = "OVERLAY_PLACED")
    BY PollIs
  <1>2. Mine' = Mine /\ order' = order /\ plan' = plan
    BY <1>1 DEF Mine, Sent, brokerVars, planVars
  <1>3. CASE answer' = answer
    BY <1>1, <1>3, NoAnswer DEF SentInv
  <1>4. CASE ~(at < Len(plan)) /\ answer' = "OVERLAY_PLACED"
    <2>1. Upto = Len(plan) /\ DOMAIN plan = 1..Len(plan)
      <3> DEFINE n == Len(plan)
      <3>1. at \in 1..n /\ n \in Nat /\ DOMAIN plan = 1..n /\ ~(at < n)
        BY <1>1, <1>4, CurrentLeg DEF TypeInv, PlanInv
      <3>2. Upto = at
        BY <1>1 DEF Upto
      <3> HIDE DEF n
      <3>3. Upto = n
        BY <3>1, <3>2
      <3> QED
        BY <3>1, <3>3 DEF n
    <2>2. \A k \in DOMAIN plan : \E i \in Mine : order[i] = plan[k]
      BY <1>1, <2>1 DEF SentInv
    <2> QED
      BY <1>2, <1>4, <2>2 DEF AnswerInv, PlacedInv, LongsOnlyInv, ResidualInv
  <1> QED
    BY <1>1, <1>3, <1>4

(* OVERLAY_PLACED means that every leg was sent, a failure that no short   *)
(* leg was, and OVERLAY_RESIDUAL_LONG that a long leg is off the book, for *)
(* any chain, plans and failures but a lost ack (_route_overlay).          *)
THEOREM AnswersHold == Spec => []AnswersAreTrue
<1>1. Init => AnswerInv
  BY DEF Init, AnswerInv, PlacedInv, LongsOnlyInv, ResidualInv
<1>2. TypeInv /\ SentInv /\ ConfirmedIsDone /\ AnswerInv /\ [Next]_vars => AnswerInv'
  <2> SUFFICES ASSUME TypeInv, SentInv, ConfirmedIsDone, AnswerInv, [Next]_vars PROVE AnswerInv'
    OBVIOUS
  <2>1. CASE Plan \/ Abandon
    BY <2>1, NoAnswer DEF Plan, Abandon
  <2>2. CASE RejectedByRisk
    BY <2>2, LegFails DEF RejectedByRisk
  <2>3. CASE SendLeg
    <3>0. pc = "leg" /\ UNCHANGED planVars
      BY <2>3, SendLegIs
    <3>1. CASE pc' = "poll" /\ UNCHANGED <<answer, errors, lost>>
      BY <3>0, <3>1, NoAnswer DEF SentInv
    <3>2. CASE UNCHANGED brokerVars /\ Fails("ORDER_REJECTED")
      BY <3>0, <3>2, LegFails
    <3>3. CASE UNCHANGED brokerVars /\ Fails("ORDER_UNKNOWN") /\ lost' = TRUE
      BY <3>0, <3>3, LegFails
    <3>4. CASE Accepted(plan[at]) /\ Fails("ORDER_UNKNOWN") /\ lost' = TRUE
      BY <2>3, <3>4, LegIsLost
    <3> QED
      BY <2>3, <3>1, <3>2, <3>3, <3>4, SendLegIs
  <2>4. CASE Poll
    BY <2>4, PollAnswers
  <2>5. ASSUME NEW i \in working, Fill(i) \/ Lapse(i) PROVE AnswerInv'
    <3>1. UNCHANGED <<order, next, plan, plans, answer, lost>> /\ working' \subseteq working
      BY <2>5 DEF Fill, Lapse, planVars
    <3> QED
      BY <3>1, AnswersStay
  <2>6. CASE UNCHANGED vars
    BY <2>6, AnswersStay DEF vars, brokerVars, planVars
  <2> QED
    BY <2>1, <2>2, <2>3, <2>4, <2>5, <2>6 DEF Next, Engine
<1>3. AnswerInv => AnswersAreTrue
  BY AnswersMean DEF AnswerInv
<1> QED
  BY BooksAreKept, ConfirmedLegsAreDone, <1>1, <1>2, <1>3, PTL DEF Spec
-----------------------------------------------------------------------------
(* The book: what the positions come to when the working orders fill.      *)

Signed(leg, q) == IF leg.side = "BUY" THEN q ELSE -q

Rests(w, o, l, p, c) ==
    LET of == {i \in w : o[i].contract = c}
    IN  IF of = {} THEN p[c]
        ELSE LET i == CHOOSE i \in of : TRUE IN p[c] + Signed(o[i], l[i])

Rest == [c \in Contracts |-> Rests(working, order, left, position, c)]

(* The contracts of a right that a book is short of.                       *)
OfRight(r)       == {c \in Contracts : c.right = r}
ShortOf(rest)    == [c \in Contracts |-> IF rest[c] < 0 THEN -rest[c] ELSE 0]
Written(rest, r) == SumFunctionOnSet(ShortOf(rest), OfRight(r))

(* One pair of a long and a short leg covers what the shares do not.       *)
Pair(rest, q, r) ==
    \E long, short \in Contracts :
        short.right = r /\ Covers(long, short) /\ rest[short] <= -q /\ rest[long] >= q
Hedged(rest, share, r) ==
    \E q \in Nat : Written(rest, r) <= share + q /\ (q = 0 \/ Pair(rest, q, r))

(* The rest of the contract of an order, if no other order is about it,    *)
LEMMA RestOfOrder ==
    ASSUME NEW w, NEW o, NEW l, NEW p, NEW i \in w,
           \A j \in w : o[j].contract = o[i].contract => j = i
    PROVE  Rests(w, o, l, p, o[i].contract) = p[o[i].contract] + Signed(o[i], l[i])
  <1> DEFINE of == {j \in w : o[j].contract = o[i].contract}
  <1>1. of = {i}
    OBVIOUS
  <1>2. of # {} /\ (CHOOSE j \in of : TRUE) = i
    BY <1>1
  <1> QED
    BY <1>2 DEF Rests

(* and of a contract that no order is about.                               *)
LEMMA RestOfNone ==
    ASSUME NEW w, NEW o, NEW l, NEW p, NEW c, \A i \in w : o[i].contract # c
    PROVE  Rests(w, o, l, p, c) = p[c]
  <1>1. {i \in w : o[i].contract = c} = {}
    OBVIOUS
  <1> QED
    BY <1>1 DEF Rests

(* What is short of a contract.                                            *)
LEMMA ShortOfIs ==
    ASSUME NEW f \in [Contracts -> Int]
    PROVE  /\ ShortOf(f) \in [Contracts -> Nat]
           /\ \A c \in Contracts : /\ f[c] \in Int /\ ShortOf(f)[c] \in Nat
                                   /\ f[c] < 0 => ShortOf(f)[c] = -f[c]
                                   /\ f[c] >= 0 => ShortOf(f)[c] = 0
  BY DEF ShortOf

(* The contracts of a right are finite.                                    *)
LEMMA RightsAreFinite ==
    ASSUME NEW r
    PROVE  OfRight(r) \in SUBSET Contracts /\ IsFiniteSet(OfRight(r))
  <1>1. OfRight(r) \in SUBSET Contracts
    BY DEF OfRight
  <1> QED
    BY <1>1, ContractsAreFinite, FS_Subset

(* What is written of a right is at least what each contract is short.     *)
LEMMA WrittenIs ==
    ASSUME NEW f \in [Contracts -> Int], NEW r
    PROVE  /\ Written(f, r) \in Nat
           /\ \A c \in OfRight(r) : ShortOf(f)[c] <= Written(f, r)
  <1>1. /\ ShortOf(f) \in [Contracts -> Nat] /\ OfRight(r) \in SUBSET Contracts
        /\ IsFiniteSet(OfRight(r))
    BY ShortOfIs, RightsAreFinite
  <1>2. Written(f, r) \in Nat
    BY <1>1, SumByChoice DEF Written
  <1>3. ASSUME NEW c \in OfRight(r) PROVE ShortOf(f)[c] <= Written(f, r)
    <2>1. Written(f, r) = ShortOf(f)[c] + SumFunctionOnSet(ShortOf(f), OfRight(r) \ {c})
      BY <1>1, SumByMember DEF Written
    <2>2. IsFiniteSet(OfRight(r) \ {c}) /\ OfRight(r) \ {c} \in SUBSET Contracts
      BY <1>1, FS_Subset
    <2>3. SumFunctionOnSet(ShortOf(f), OfRight(r) \ {c}) \in Nat
      BY <1>1, <2>2, SumByChoice
    <2>4. ShortOf(f)[c] \in Nat
      BY <1>1
    <2> QED
      BY <2>1, <2>3, <2>4
  <1> QED
    BY <1>2, <1>3

(* A book that changes in one contract.                                    *)
LEMMA WrittenMoves ==
    ASSUME NEW f \in [Contracts -> Int], NEW g \in [Contracts -> Int], NEW x \in Contracts,
           \A c \in Contracts : c # x => g[c] = f[c], NEW r
    PROVE  /\ r = x.right => Written(g, r) + ShortOf(f)[x] = Written(f, r) + ShortOf(g)[x]
           /\ r # x.right => Written(g, r) = Written(f, r)
  <1> DEFINE S  == OfRight(r) \ {x}
             sf == ShortOf(f)
             sg == ShortOf(g)
  <1>1. sf \in [Contracts -> Nat] /\ sg \in [Contracts -> Nat]
    BY ShortOfIs
  <1>2. OfRight(r) \in SUBSET Contracts /\ IsFiniteSet(OfRight(r)) /\ S \in SUBSET Contracts
    BY RightsAreFinite
  <1>3. IsFiniteSet(S)
    BY <1>2, FS_Subset
  <1>4. \A c \in S : sf[c] = sg[c] /\ sf[c] \in Nat
    <2> SUFFICES ASSUME NEW c \in S PROVE sf[c] = sg[c]
      BY <1>1, <1>2
    <2>1. g[c] = f[c] /\ c \in Contracts
      BY <1>2
    <2> QED
      BY <2>1 DEF ShortOf
  <1> HIDE DEF sf, sg
  <1>5. SumFunctionOnSet(sf, S) = SumFunctionOnSet(sg, S)
    <2>1. \A c \in S : sf[c] <= sg[c] /\ sg[c] <= sf[c]
      BY <1>4
    <2>2. SumFunctionOnSet(sf, S) <= SumFunctionOnSet(sg, S)
      BY <1>1, <1>2, <1>3, <2>1, SumMonotone
    <2>3. SumFunctionOnSet(sg, S) <= SumFunctionOnSet(sf, S)
      BY <1>1, <1>2, <1>3, <2>1, SumMonotone
    <2>4. SumFunctionOnSet(sf, S) \in Nat /\ SumFunctionOnSet(sg, S) \in Nat
      BY <1>1, <1>2, <1>3, SumByChoice
    <2> QED
      BY <2>2, <2>3, <2>4
  <1>6. SumFunctionOnSet(sf, S) \in Nat
    BY <1>1, <1>2, <1>3, SumByChoice
  <1>7. Written(f, r) = SumFunctionOnSet(sf, OfRight(r)) /\ Written(g, r) = SumFunctionOnSet(sg, OfRight(r))
    BY DEF Written, sf, sg
  <1>8. CASE r = x.right
    <2>1. x \in OfRight(r)
      BY <1>8 DEF OfRight
    <2>2. /\ SumFunctionOnSet(sf, OfRight(r)) = sf[x] + SumFunctionOnSet(sf, S)
          /\ SumFunctionOnSet(sg, OfRight(r)) = sg[x] + SumFunctionOnSet(sg, S)
      BY <1>1, <1>2, <2>1, SumByMember
    <2>3. sf[x] \in Nat /\ sg[x] \in Nat
      BY <1>1
    <2>4. Written(g, r) + sf[x] = Written(f, r) + sg[x]
      BY <1>5, <1>6, <1>7, <2>2, <2>3
    <2> QED
      BY <1>8, <2>4 DEF sf, sg
  <1>9. CASE r # x.right
    <2>1. S = OfRight(r)
      BY <1>9 DEF OfRight
    <2> QED
      BY <1>5, <1>7, <1>9, <2>1
  <1> QED
    BY <1>8, <1>9

(* A contract of the other right does not matter.                          *)
LEMMA HedgedElsewhere ==
    ASSUME NEW f \in [Contracts -> Int], NEW g \in [Contracts -> Int], NEW x \in Contracts,
           \A c \in Contracts : c # x => g[c] = f[c],
           NEW r, r # x.right, NEW share, Hedged(f, share, r)
    PROVE  Hedged(g, share, r)
  <1>1. Written(g, r) = Written(f, r)
    BY WrittenMoves
  <1>2. ASSUME NEW q \in Nat, Pair(f, q, r) PROVE Pair(g, q, r)
    <2>1. PICK long \in Contracts, short \in Contracts :
              short.right = r /\ Covers(long, short) /\ f[short] <= -q /\ f[long] >= q
      BY <1>2 DEF Pair
    <2>2. long.right = r
      BY <2>1 DEF Covers
    <2>3. g[long] = f[long] /\ g[short] = f[short]
      BY <2>1, <2>2
    <2> QED
      BY <2>1, <2>3 DEF Pair
  <1> QED
    BY <1>1, <1>2 DEF Hedged

(* More of a contract.                                                     *)
LEMMA BuyingHedges ==
    ASSUME NEW f \in [Contracts -> Int], NEW x \in Contracts, NEW n \in Nat, NEW share \in Nat,
           NEW g \in [Contracts -> Int], g[x] = f[x] + n,
           \A c \in Contracts : c # x => g[c] = f[c],
           Hedged(f, share, x.right)
    PROVE  Hedged(g, share, x.right) /\ Written(g, x.right) <= Written(f, x.right)
  <1> DEFINE r  == x.right
             wf == Written(f, r)
             wg == Written(g, r)
             sf == ShortOf(f)[x]
             sg == ShortOf(g)[x]
  <1>1. wf \in Nat /\ wg \in Nat
    BY WrittenIs
  <1>2. wg + sf = wf + sg
    BY WrittenMoves
  <1>3. /\ f[x] \in Int /\ g[x] \in Int /\ sf \in Nat /\ sg \in Nat
        /\ f[x] < 0 => sf = -f[x]
        /\ f[x] >= 0 => sf = 0
        /\ g[x] < 0 => sg = -g[x]
        /\ g[x] >= 0 => sg = 0
    BY ShortOfIs
  <1>4. PICK q \in Nat : wf <= share + q /\ (q = 0 \/ Pair(f, q, r))
    BY DEF Hedged
  <1> HIDE DEF r, wf, wg, sf, sg
  <1>5. sg <= sf /\ wg <= wf
    BY <1>1, <1>2, <1>3
  <1>6. CASE q = 0 \/ wg <= share
    <2>1. wg <= share + 0
      BY <1>1, <1>4, <1>5, <1>6
    <2> QED
      BY <1>5, <2>1 DEF Hedged, r, wf, wg
  <1>7. CASE q > 0 /\ wg > share
    <2>1. PICK long \in Contracts, short \in Contracts :
              short.right = r /\ Covers(long, short) /\ f[short] <= -q /\ f[long] >= q
      BY <1>4, <1>7 DEF Pair
    <2>2. f[long] \in Int /\ f[short] \in Int /\ g[long] \in Int /\ g[short] \in Int
      OBVIOUS
    <2>3. f[long] <= g[long]
      <3>1. CASE long = x
        BY <2>2, <3>1
      <3>2. CASE long # x
        BY <2>2, <3>2
      <3> QED
        BY <3>1, <3>2
    <2>4. CASE short # x
      <3>1. g[short] <= -q /\ g[long] >= q
        BY <2>1, <2>2, <2>3, <2>4
      <3>2. Pair(g, q, r)
        BY <2>1, <3>1 DEF Pair
      <3>3. wg <= share + q
        BY <1>1, <1>4, <1>5
      <3> QED
        BY <1>5, <3>2, <3>3 DEF Hedged, r, wf, wg
    <2>5. CASE short = x
      <3> DEFINE p == q - n
      <3>1. f[x] <= -q
        BY <2>1, <2>5
      <3>2. p \in Nat /\ wg <= share + p /\ g[x] <= -p
        BY <1>1, <1>2, <1>3, <1>4, <1>7, <3>1
      <3>3. g[long] >= p
        BY <2>1, <2>2, <2>3, <3>2
      <3>4. Pair(g, p, r)
        BY <2>1, <2>5, <3>2, <3>3 DEF Pair
      <3> HIDE DEF p
      <3> QED
        BY <1>5, <3>2, <3>4 DEF Hedged, r, wf, wg
    <2> QED
      BY <2>4, <2>5
  <1> QED
    BY <1>1, <1>6, <1>7

(* Less of a contract, with shares or a long leg to cover it.              *)
LEMMA SellingHedges ==
    ASSUME NEW f \in [Contracts -> Int], NEW x \in Contracts, NEW n \in Nat, NEW share \in Nat,
           NEW g \in [Contracts -> Int], g[x] = f[x] - n,
           \A c \in Contracts : c # x => g[c] = f[c],
           NEW open \in Nat, Written(f, x.right) <= open,
           \/ open + n <= share
           \/ open <= share /\ \E long \in Contracts : long # x /\ Covers(long, x) /\ f[long] >= n
    PROVE  Hedged(g, share, x.right)
  <1> DEFINE r  == x.right
             wf == Written(f, r)
             wg == Written(g, r)
             sf == ShortOf(f)[x]
             sg == ShortOf(g)[x]
             d  == sg - sf
  <1>1. wf \in Nat /\ wg \in Nat
    BY WrittenIs
  <1>2. wg + sf = wf + sg
    BY WrittenMoves
  <1>3. /\ f[x] \in Int /\ g[x] \in Int /\ sf \in Nat /\ sg \in Nat
        /\ f[x] < 0 => sf = -f[x]
        /\ f[x] >= 0 => sf = 0
        /\ g[x] < 0 => sg = -g[x]
        /\ g[x] >= 0 => sg = 0
    BY ShortOfIs
  <1>4. wf <= open
    OBVIOUS
  <1> HIDE DEF r, wf, wg, sf, sg
  <1>5. d \in Nat /\ d <= n /\ wg = wf + d /\ (d = 0 \/ g[x] <= -d)
    BY <1>1, <1>2, <1>3
  <1> HIDE DEF d
  <1>6. CASE open + n <= share
    <2>1. wg <= share + 0
      BY <1>1, <1>4, <1>5, <1>6
    <2> QED
      BY <2>1 DEF Hedged, r, wg
  <1>7. CASE open <= share /\ \E long \in Contracts : long # x /\ Covers(long, x) /\ f[long] >= n
    <2>1. PICK long \in Contracts : long # x /\ Covers(long, x) /\ f[long] >= n
      BY <1>7
    <2>2. f[long] \in Int /\ g[long] = f[long]
      BY <2>1
    <2>3. g[long] >= d
      BY <1>5, <2>1, <2>2
    <2>4. wg <= share + d
      BY <1>1, <1>4, <1>5, <1>7
    <2>5. d = 0 \/ Pair(g, d, r)
      BY <1>5, <2>1, <2>3 DEF Pair, r
    <2> QED
      BY <1>5, <2>4, <2>5 DEF Hedged, r, wg
  <1> QED
    BY <1>6, <1>7

(* A hedged book of positions only covers what is short, whatever part of  *)
(* it is looked at.                                                        *)
LEMMA HedgedIsCovered ==
    ASSUME TypeInv, NEW r \in Rights, Hedged(position, ShareCover(r), r), NEW S \in SUBSET Short(r)
    PROVE  Quantity(S) <= ShareCover(r)
               + Quantity({c \in Contracts : position[c] > 0 /\ \E s \in S : Covers(c, s)})
  <1> DEFINE L == {c \in Contracts : position[c] > 0 /\ \E s \in S : Covers(c, s)}
             W == OfRight(r)
             f == ShortOf(position)
  <1>1. position \in [Contracts -> Int]
    BY DEF TypeInv, BrokerTypes
  <1>2. Held \in [Contracts -> Nat] /\ f \in [Contracts -> Nat]
    BY <1>1, ShortOfIs DEF Held
  <1>3. \A c \in Contracts : /\ position[c] \in Int /\ Held[c] \in Nat /\ f[c] \in Nat
                             /\ position[c] < 0 => Held[c] = f[c] /\ f[c] = -position[c]
                             /\ position[c] >= 0 => Held[c] = position[c]
    BY <1>1, ShortOfIs DEF Held
  <1>4. /\ S \in SUBSET Contracts /\ L \in SUBSET Contracts /\ W \in SUBSET Contracts
        /\ \A c \in S : c \in W /\ position[c] < 0
    BY DEF Short, OfRight
  <1>5. IsFiniteSet(S) /\ IsFiniteSet(L) /\ IsFiniteSet(W)
    BY <1>4, ContractsAreFinite, FS_Subset
  <1>6. Quantity(S) \in Nat /\ Quantity(L) \in Nat
    BY <1>2, <1>4, <1>5, SumByChoice DEF Quantity
  <1>7. ShareCover(r) \in Nat
    BY DEF ShareCover, TypeInv, BrokerTypes
  <1>8. PICK q \in Nat : Written(position, r) <= ShareCover(r) + q /\ (q = 0 \/ Pair(position, q, r))
    BY DEF Hedged
  <1>9. Written(position, r) \in Nat /\ Written(position, r) = SumFunctionOnSet(f, W)
    BY <1>1, WrittenIs DEF Written
  <1> HIDE DEF L, W, f
  <1>10. \A c \in S : Held[c] <= f[c]
    BY <1>3, <1>4
  <1>11. Quantity(S) <= Written(position, r)
    BY <1>2, <1>4, <1>5, <1>9, <1>10, SumMonotone DEF Quantity
  <1>12. CASE q = 0
    BY <1>6, <1>7, <1>8, <1>9, <1>11, <1>12 DEF L
  <1>13. CASE q > 0
    <2>1. PICK long \in Contracts, short \in Contracts :
              short.right = r /\ Covers(long, short) /\ position[short] <= -q /\ position[long] >= q
      BY <1>8, <1>13 DEF Pair
    <2>2. Held[long] = position[long] /\ position[long] > 0 /\ f[short] >= q
      BY <1>3, <1>13, <2>1
    <2>3. CASE short \in S
      <3>1. long \in L
        BY <2>1, <2>2, <2>3 DEF L
      <3>2. Quantity(L) = Held[long] + SumFunctionOnSet(Held, L \ {long})
        BY <1>2, <1>4, <1>5, <3>1, SumByMember DEF Quantity
      <3>3. SumFunctionOnSet(Held, L \ {long}) \in Nat
        <4>1. IsFiniteSet(L \ {long}) /\ L \ {long} \in SUBSET Contracts
          BY <1>4, <1>5, FS_Subset
        <4> QED
          BY <1>2, <4>1, SumByChoice
      <3>4. Quantity(L) >= q
        BY <1>3, <2>1, <2>2, <3>2, <3>3
      <3>5. Quantity(S) <= ShareCover(r) + Quantity(L)
        BY <1>6, <1>7, <1>8, <1>9, <1>11, <3>4
      <3> QED
        BY <3>5 DEF L
    <2>4. CASE short \notin S
      <3> DEFINE V == W \ {short}
      <3>1. short \in W
        BY <2>1 DEF W, OfRight
      <3>2. SumFunctionOnSet(f, W) = f[short] + SumFunctionOnSet(f, V)
        BY <1>2, <1>4, <1>5, <3>1, SumByMember
      <3>3. IsFiniteSet(V) /\ V \in SUBSET Contracts
        BY <1>4, <1>5, FS_Subset
      <3>4. SumFunctionOnSet(f, V) \in Nat
        BY <1>2, <3>3, SumByChoice
      <3>5. \A c \in S : c \in V /\ Held[c] <= f[c]
        BY <1>4, <1>10, <2>4
      <3>6. Quantity(S) <= SumFunctionOnSet(f, V)
        <4> HIDE DEF V
        <4> QED
          BY <1>2, <1>4, <1>5, <3>3, <3>5, SumMonotone DEF Quantity
      <3>7. f[short] \in Nat
        BY <1>3
      <3> HIDE DEF V
      <3>8. Quantity(S) <= ShareCover(r) + Quantity(L)
        BY <1>6, <1>7, <1>8, <1>9, <2>2, <3>2, <3>4, <3>6, <3>7
      <3> QED
        BY <3>8 DEF L
    <2> QED
      BY <2>3, <2>4
  <1> QED
    BY <1>8, <1>12, <1>13
-----------------------------------------------------------------------------
(* As long as orders fill completely and plans do not overlap, what is     *)
(* written is hedged, and a plan that only bought finds nothing written    *)
(* that its snapshot does not show.                                        *)

FarKept   == \A c \in Contracts : c.expiry \in Far => Rest[c] >= 0
AllHedged == \A r \in Rights : Hedged(Rest, ShareCover(r), r)
Snapshot  == (\A i \in Mine : order[i].side = "BUY") =>
                 \A r \in Rights : Written(Rest, r) <= shorts[r]
LongsKept ==
    \A i \in Mine : order[i].side = "BUY" =>
        LET c == order[i].contract
        IN  c.expiry \in Far \/ shorts[c.right] = 0 => Rest[c] >= order[i].qty

BookInv == calm => /\ working \subseteq Mine /\ FarKept /\ AllHedged
                   /\ pc # "idle" => Snapshot /\ LongsKept

(* The rest of each contract, if the orders at work are of one plan.       *)
LEMMA RestIs ==
    ASSUME TypeInv, SentInv, working \subseteq Mine
    PROVE  /\ Rest \in [Contracts -> Int]
           /\ \A i \in working : LET c == order[i].contract
                                 IN  c \in Contracts /\ Rest[c] = position[c] + Signed(order[i], left[i])
           /\ \A c \in Contracts : (\A i \in working : order[i].contract # c) => Rest[c] = position[c]
           /\ \A i \in Mine : order[i] \in Legs /\ order[i].contract \in Contracts
                              /\ order[i].qty \in Nat
  <1>1. \A i \in Mine : order[i] \in Legs /\ left[i] \in Nat
    BY DEF TypeInv, BrokerTypes, Mine, Sent
  <1>2. \A i \in Mine : order[i].contract \in Contracts /\ order[i].qty \in Nat
    BY <1>1 DEF Legs
  <1>3. position \in [Contracts -> Int]
    BY DEF TypeInv, BrokerTypes
  <1>4. \A i, j \in working : order[i].contract = order[j].contract => i = j
    BY DEF SentInv
  <1>5. /\ \A i \in working : Rests(working, order, left, position, order[i].contract)
                              = position[order[i].contract] + Signed(order[i], left[i])
        /\ \A c : (\A i \in working : order[i].contract # c) =>
                      Rests(working, order, left, position, c) = position[c]
    <2>1. ASSUME NEW i \in working
          PROVE  Rests(working, order, left, position, order[i].contract)
                     = position[order[i].contract] + Signed(order[i], left[i])
      <3>1. \A j \in working : order[j].contract = order[i].contract => j = i
        BY <1>4
      <3> QED
        BY <3>1, RestOfOrder
    <2>2. ASSUME NEW c, \A i \in working : order[i].contract # c
          PROVE  Rests(working, order, left, position, c) = position[c]
      BY <2>2, RestOfNone
    <2> QED
      BY <2>1, <2>2
  <1>6. \A c \in Contracts : Rest[c] = Rests(working, order, left, position, c)
    BY DEF Rest
  <1>7. ASSUME NEW c \in Contracts PROVE Rests(working, order, left, position, c) \in Int
    <2>1. position[c] \in Int
      BY <1>3
    <2>2. CASE \A i \in working : order[i].contract # c
      BY <1>5, <2>1, <2>2
    <2>3. ASSUME NEW i \in working, order[i].contract = c
          PROVE  Rests(working, order, left, position, c) \in Int
      <3>1. left[i] \in Nat
        BY <1>1
      <3> QED
        BY <1>5, <2>1, <2>3, <3>1 DEF Signed
    <2> QED
      BY <2>2, <2>3
  <1>8. Rest \in [Contracts -> Int]
    BY <1>7 DEF Rest
  <1> QED
    BY <1>1, <1>2, <1>5, <1>6, <1>8

(* A fill turns what is left into a position.                              *)
LEMMA FillKeepsRest ==
    ASSUME TypeInv, SentInv, working \subseteq Mine, NEW i \in working, Fill(i)
    PROVE  Rest' = Rest
  <1> DEFINE k == order[i].contract
  <1>1. /\ Rest \in [Contracts -> Int] /\ k \in Contracts
        /\ Rest[k] = position[k] + Signed(order[i], left[i])
        /\ \A c \in Contracts : (\A j \in working : order[j].contract # c) => Rest[c] = position[c]
        /\ \A j \in working : Rest[order[j].contract]
                              = position[order[j].contract] + Signed(order[j], left[j])
    BY RestIs
  <1>2. PICK q \in 1..left[i] :
            /\ left' = [left EXCEPT ![i] = @ - q]
            /\ working' = IF q = left[i] THEN working \ {i} ELSE working
            /\ position' = [position EXCEPT ![k] = @ + (IF order[i].side = "BUY" THEN q ELSE -q)]
    BY DEF Fill
  <1>3. order' = order
    BY DEF Fill
  <1>4. /\ position \in [Contracts -> Int] /\ left[i] \in Nat /\ i \in DOMAIN left
        /\ \A j \in working : j \in DOMAIN left
    BY DEF TypeInv, BrokerTypes, Sent
  <1>5. /\ left'[i] = left[i] - q /\ \A j \in working : j # i => left'[j] = left[j]
        /\ position'[k] = position[k] + Signed(order[i], q)
        /\ \A c \in Contracts : c # k => position'[c] = position[c]
    BY <1>1, <1>2, <1>4 DEF Signed
  <1>6. /\ \A j, l \in working : order[j].contract = order[l].contract => j = l
        /\ working' \subseteq working /\ \A j \in working : j # i => j \in working'
        /\ i \in working' <=> q # left[i]
    BY <1>2 DEF SentInv
  <1>7. /\ \A j \in working' : Rests(working', order, left', position', order[j].contract)
                               = position'[order[j].contract] + Signed(order[j], left'[j])
        /\ \A c : (\A j \in working' : order[j].contract # c) =>
                      Rests(working', order, left', position', c) = position'[c]
    <2>1. ASSUME NEW j \in working'
          PROVE  Rests(working', order, left', position', order[j].contract)
                     = position'[order[j].contract] + Signed(order[j], left'[j])
      <3>1. \A l \in working' : order[l].contract = order[j].contract => l = j
        BY <1>6
      <3> QED
        BY <3>1, RestOfOrder
    <2>2. ASSUME NEW c, \A j \in working' : order[j].contract # c
          PROVE  Rests(working', order, left', position', c) = position'[c]
      BY <2>2, RestOfNone
    <2> QED
      BY <2>1, <2>2
  <1>8. \A c \in Contracts : Rest'[c] = Rests(working', order, left', position', c)
    BY <1>3 DEF Rest
  <1> HIDE DEF k
  <1>9. ASSUME NEW c \in Contracts PROVE Rest'[c] = Rest[c]
    <2>1. CASE c = k
      <3>1. position[k] \in Int /\ left[i] \in Nat /\ q \in Nat
        BY <1>1, <1>4
      <3>2. CASE q # left[i]
        <4>1. Rest'[k] = position'[k] + Signed(order[i], left'[i])
          BY <1>1, <1>6, <1>7, <1>8, <3>2 DEF k
        <4> QED
          BY <1>1, <1>5, <2>1, <3>1, <4>1 DEF Signed
      <3>3. CASE q = left[i]
        <4>1. \A j \in working' : order[j].contract # k
          BY <1>6, <3>3 DEF k
        <4>2. Rest'[k] = position'[k]
          BY <1>1, <1>7, <1>8, <4>1
        <4> QED
          BY <1>1, <1>5, <2>1, <3>3, <4>2
      <3> QED
        BY <3>2, <3>3
    <2>2. CASE c # k
      <3>1. CASE \A j \in working : order[j].contract # c
        <4>1. Rest'[c] = position'[c]
          BY <1>6, <1>7, <1>8, <3>1
        <4> QED
          BY <1>1, <1>5, <2>2, <3>1, <4>1
      <3>2. ASSUME NEW j \in working, order[j].contract = c PROVE Rest'[c] = Rest[c]
        <4>1. j # i /\ j \in working'
          BY <1>6, <2>2, <3>2 DEF k
        <4>2. Rest'[c] = position'[c] + Signed(order[j], left'[j])
          BY <1>7, <1>8, <3>2, <4>1
        <4>3. left'[j] = left[j] /\ position'[c] = position[c]
          BY <1>5, <2>2, <4>1
        <4>4. Rest[c] = position[c] + Signed(order[j], left[j])
          BY <1>1, <3>2
        <4> QED
          BY <4>2, <4>3, <4>4
      <3> QED
        BY <3>1, <3>2
    <2> QED
      BY <2>1, <2>2
  <1> QED
    BY <1>9 DEF Rest

(* A leg that is accepted moves the rest of its contract.                  *)
LEMMA AcceptMovesRest ==
    ASSUME TypeInv, SentInv, working \subseteq Mine, SendLeg, Accepted(plan[at])
    PROVE  LET leg == plan[at]
           IN  /\ Rest' \in [Contracts -> Int] /\ leg.contract \in Contracts /\ leg.qty \in Nat
               /\ Rest'[leg.contract] = Rest[leg.contract] + Signed(leg, leg.qty)
               /\ \A c \in Contracts : c # leg.contract => Rest'[c] = Rest[c]
               /\ \A i \in Mine : order[i].contract # leg.contract
               /\ working' \subseteq Mine'
  <1> DEFINE leg == plan[at]
             k   == leg.contract
  <1>1. /\ pc = "leg" /\ UNCHANGED <<planVars, at, confirmed>>
        /\ pc' = "idle" \/ (pc' = "poll" /\ answer' = answer)
    BY SendLegIs DEF Fails, Answer
  <1>2. /\ Mine' = Mine \cup {next} /\ next \notin Sent
        /\ order'[next] = leg /\ \A i \in Sent : order'[i] = order[i]
        /\ left'[next] = leg.qty /\ \A i \in Sent : left'[i] = left[i]
        /\ SentInv'
    BY <1>1, LegIsSent
  <1>3. /\ working' = working \cup {next} /\ position' = position
        /\ Mine \subseteq Sent
    BY DEF Accepted, Mine
  <1>4. leg \in Legs /\ leg.contract \in Contracts /\ leg.qty \in Nat
    BY <1>1, CurrentLeg DEF Legs
  <1>5. working' \subseteq Mine'
    BY <1>2, <1>3
  <1>6. \A i \in Mine : order[i].contract # k
    <2> SUFFICES ASSUME NEW i \in Mine, order[i].contract = k PROVE FALSE
      OBVIOUS
    <2>1. i \in Mine' /\ next \in Mine' /\ order'[i].contract = order'[next].contract /\ i # next
      BY <1>2, <1>3
    <2> QED
      BY <1>2, <2>1 DEF SentInv
  <1>7. /\ Rest \in [Contracts -> Int]
        /\ \A i \in working : Rest[order[i].contract] = position[order[i].contract] + Signed(order[i], left[i])
        /\ \A c \in Contracts : (\A i \in working : order[i].contract # c) => Rest[c] = position[c]
    BY RestIs
  <1>8. /\ \A i \in working' : Rests(working', order', left', position', order'[i].contract)
                               = position'[order'[i].contract] + Signed(order'[i], left'[i])
        /\ \A c : (\A i \in working' : order'[i].contract # c) =>
                      Rests(working', order', left', position', c) = position'[c]
    <2>1. ASSUME NEW i \in working'
          PROVE  Rests(working', order', left', position', order'[i].contract)
                     = position'[order'[i].contract] + Signed(order'[i], left'[i])
      <3>1. \A j \in working' : order'[j].contract = order'[i].contract => j = i
        BY <1>2, <1>5 DEF SentInv
      <3> QED
        BY <3>1, RestOfOrder
    <2>2. ASSUME NEW c, \A i \in working' : order'[i].contract # c
          PROVE  Rests(working', order', left', position', c) = position'[c]
      BY <2>2, RestOfNone
    <2> QED
      BY <2>1, <2>2
  <1>9. \A c \in Contracts : Rest'[c] = Rests(working', order', left', position', c)
    BY DEF Rest
  <1>10. Rest[k] = position[k] /\ Rest'[k] = position[k] + Signed(leg, leg.qty)
    <2>1. Rest[k] = position[k]
      BY <1>4, <1>6, <1>7
    <2>2. next \in working' /\ order'[next].contract = k
      BY <1>2, <1>3
    <2>3. Rests(working', order', left', position', k) = position'[k] + Signed(order'[next], left'[next])
      BY <1>8, <2>2
    <2>4. Rest'[k] = Rests(working', order', left', position', k)
      BY <1>4, <1>9
    <2> QED
      BY <1>2, <1>3, <2>1, <2>3, <2>4
  <1> HIDE DEF leg, k
  <1>11. ASSUME NEW c \in Contracts, c # k PROVE Rest'[c] = Rest[c]
    <2>1. CASE \A i \in working : order[i].contract # c
      <3>1. \A i \in working' : order'[i].contract # c
        BY <1>2, <1>3, <1>11, <2>1 DEF k
      <3> QED
        BY <1>3, <1>7, <1>8, <1>9, <2>1, <3>1
    <2>2. ASSUME NEW i \in working, order[i].contract = c PROVE Rest'[c] = Rest[c]
      <3>1. i \in working' /\ order'[i] = order[i] /\ left'[i] = left[i]
        BY <1>2, <1>3
      <3>2. Rests(working', order', left', position', c) = position'[c] + Signed(order'[i], left'[i])
        BY <1>8, <2>2, <3>1
      <3>3. Rest[c] = position[c] + Signed(order[i], left[i])
        BY <1>7, <2>2
      <3>4. Rest'[c] = Rests(working', order', left', position', c)
        BY <1>9
      <3> QED
        BY <1>3, <3>1, <3>2, <3>3, <3>4
    <2> QED
      BY <2>1, <2>2
  <1>12. Rest' \in [Contracts -> Int]
    <2>1. Rest'[k] \in Int
      <3>1. Rest[k] \in Int /\ leg.qty \in Nat /\ position[k] \in Int
        BY <1>4, <1>7, <1>10 DEF k
      <3> QED
        BY <1>10, <3>1 DEF Signed
    <2>2. \A c \in Contracts : Rest'[c] \in Int
      BY <1>7, <1>11, <2>1
    <2>3. Rest' = [c \in Contracts |-> Rest'[c]]
      BY DEF Rest
    <2> QED
      BY <2>2, <2>3
  <1> QED
    BY <1>4, <1>5, <1>6, <1>10, <1>11, <1>12 DEF leg, k

(* Shares cover calls only.                                                *)
LEMMA SharesAre == TypeInv => lots \in Nat /\ \A r \in Rights : ShareCover(r) \in Nat
  BY DEF TypeInv, BrokerTypes, ShareCover

(* Steps that change no order but for what is left of it.                  *)
LEMMA BookStays ==
    ASSUME BookInv, calm' => calm /\ Rest' = Rest, working' \subseteq working,
           UNCHANGED <<order, next, plans, lots, shorts>>, pc' # "idle" => pc # "idle"
    PROVE  BookInv'
  <1> SUFFICES ASSUME calm'
               PROVE  /\ working' \subseteq Mine' /\ FarKept' /\ AllHedged'
                      /\ pc' # "idle" => Snapshot' /\ LongsKept'
    BY DEF BookInv
  <1>1. /\ calm /\ Rest' = Rest /\ Mine' = Mine
        /\ order' = order /\ shorts' = shorts /\ lots' = lots
    BY DEF Mine, Sent
  <1>2. /\ working \subseteq Mine /\ FarKept /\ AllHedged
        /\ pc # "idle" => Snapshot /\ LongsKept
    BY <1>1 DEF BookInv
  <1>3. working' \subseteq Mine'
    BY <1>1, <1>2
  <1>4. FarKept'
    BY <1>1, <1>2 DEF FarKept
  <1>5. AllHedged'
    BY <1>1, <1>2 DEF AllHedged, ShareCover
  <1>6. Snapshot => Snapshot'
    BY <1>1 DEF Snapshot
  <1>7. LongsKept => LongsKept'
    BY <1>1 DEF LongsKept
  <1> QED
    BY <1>2, <1>3, <1>4, <1>5, <1>6, <1>7

(* The rest depends on the book alone.                                     *)
LEMMA RestStays ==
    ASSUME UNCHANGED <<order, left, working, position>>
    PROVE  Rest' = Rest
  BY DEF Rest

(* A plan begins: its snapshot shows all that is written.                  *)
LEMMA PlanOpensBook ==
    ASSUME TypeInv, SentInv, BookInv, Plan, SentInv'
    PROVE  BookInv'
  <1> SUFFICES ASSUME calm'
               PROVE  /\ working' \subseteq Mine' /\ FarKept' /\ AllHedged'
                      /\ Snapshot' /\ LongsKept'
    BY DEF BookInv
  <1>1. /\ calm /\ working = {} /\ UNCHANGED brokerVars /\ plans' = plans + 1
        /\ shorts' = [r \in Rights |-> OpenShorts(r)]
    BY DEF Plan
  <1>2. Rest' = Rest /\ lots' = lots /\ order' = order /\ working' = {} /\ Sent' = Sent
    BY <1>1, RestStays DEF brokerVars, Sent
  <1>3. Mine' = {}
    <2>1. plans \in Nat /\ \A i \in Sent : order[i].corr \in Nat
      <3>1. \A i \in Sent : order[i] \in Legs
        BY DEF TypeInv, BrokerTypes, Sent
      <3> QED
        BY <3>1 DEF Legs, TypeInv, EngineTypes
    <2> QED
      BY <1>1, <1>2, <2>1 DEF Mine, SentInv
  <1>4. FarKept' /\ AllHedged'
    BY <1>1, <1>2 DEF BookInv, FarKept, AllHedged, ShareCover
  <1>5. Snapshot'
    <2>1. Rest \in [Contracts -> Int] /\ \A c \in Contracts : Rest[c] = position[c]
      BY <1>1, RestIs
    <2>2. position \in [Contracts -> Int]
      BY DEF TypeInv, BrokerTypes
    <2>3. ASSUME NEW r \in Rights PROVE Written(Rest, r) <= OpenShorts(r)
      <3> DEFINE f == ShortOf(Rest)
      <3>1. /\ f \in [Contracts -> Nat]
            /\ \A c \in Contracts : /\ Rest[c] >= 0 => f[c] = 0
                                    /\ Rest[c] < 0 => f[c] = -Rest[c]
        BY <2>1, ShortOfIs
      <3>2. /\ Held \in [Contracts -> Nat]
            /\ \A c \in Contracts : position[c] < 0 => Held[c] = -position[c]
        BY <2>2 DEF Held
      <3>3. /\ OfRight(r) \in SUBSET Contracts /\ IsFiniteSet(OfRight(r))
            /\ Short(r) \in SUBSET Contracts
        BY RightsAreFinite DEF Short
      <3>4. IsFiniteSet(Short(r))
        BY <3>3, ContractsAreFinite, FS_Subset
      <3> HIDE DEF f
      <3>5. \A c \in OfRight(r) : f[c] = 0 \/ (c \in Short(r) /\ f[c] <= Held[c])
        <4> SUFFICES ASSUME NEW c \in OfRight(r)
                     PROVE  f[c] = 0 \/ (c \in Short(r) /\ f[c] <= Held[c])
          OBVIOUS
        <4>1. c \in Contracts /\ c.right = r /\ Rest[c] = position[c] /\ position[c] \in Int
          BY <2>1, <2>2 DEF OfRight
        <4>2. CASE position[c] >= 0
          BY <3>1, <4>1, <4>2
        <4>3. CASE position[c] < 0
          <5>1. f[c] = -position[c] /\ Held[c] = -position[c]
            BY <3>1, <3>2, <4>1, <4>3
          <5>2. c \in Short(r)
            BY <4>1, <4>3 DEF Short
          <5> QED
            BY <4>1, <5>1, <5>2
        <4> QED
          BY <4>1, <4>2, <4>3
      <3>6. SumFunctionOnSet(f, OfRight(r)) <= SumFunctionOnSet(Held, Short(r))
        BY <3>1, <3>2, <3>3, <3>4, <3>5, SumMonotone
      <3> QED
        BY <3>6 DEF Written, OpenShorts, Quantity, f
    <2>4. \A r \in Rights : shorts'[r] = OpenShorts(r)
      BY <1>1
    <2> QED
      BY <1>2, <2>3, <2>4 DEF Snapshot
  <1>6. LongsKept'
    BY <1>3 DEF LongsKept
  <1> QED
    BY <1>2, <1>3, <1>4, <1>5, <1>6

(* A long leg of the plan is accepted.                                     *)
LEMMA LongEntersBook ==
    ASSUME TypeInv, SentInv, BookInv, SendLeg, Accepted(plan[at]), plan[at].side = "BUY"
    PROVE  BookInv'
  <1> SUFFICES ASSUME calm'
               PROVE  /\ working' \subseteq Mine' /\ FarKept' /\ AllHedged'
                      /\ Snapshot' /\ LongsKept'
    BY DEF BookInv
  <1> DEFINE leg == plan[at]
             k   == leg.contract
             n   == leg.qty
  <1>1. /\ pc = "leg" /\ UNCHANGED <<planVars, at, confirmed>> /\ calm
        /\ pc' = "idle" \/ (pc' = "poll" /\ answer' = answer)
    BY SendLegIs DEF Fails, Answer
  <1>2. /\ working \subseteq Mine /\ FarKept /\ AllHedged /\ Snapshot /\ LongsKept
    BY <1>1 DEF BookInv
  <1>3. /\ Rest' \in [Contracts -> Int] /\ k \in Contracts /\ n \in Nat
        /\ Rest'[k] = Rest[k] + Signed(leg, n)
        /\ \A c \in Contracts : c # k => Rest'[c] = Rest[c]
        /\ \A i \in Mine : order[i].contract # k
        /\ working' \subseteq Mine'
    BY <1>2, AcceptMovesRest
  <1>4. /\ Mine' = Mine \cup {next} /\ Mine \subseteq Sent /\ order'[next] = leg
        /\ \A i \in Sent : order'[i] = order[i]
    BY <1>1, LegIsSent DEF Mine
  <1>5. /\ Rest \in [Contracts -> Int]
        /\ \A i \in Mine : order[i].contract \in Contracts /\ order[i].qty \in Nat
    BY <1>2, RestIs
  <1>6. shorts' = shorts /\ lots' = lots /\ shorts \in [Rights -> Nat] /\ k.right \in Rights
    BY <1>1, <1>3 DEF planVars, Accepted, TypeInv, EngineTypes, Contracts
  <1>7. Rest'[k] = Rest[k] + n /\ Rest[k] \in Int /\ Rest'[k] \in Int
    BY <1>3, <1>5 DEF Signed
  <1>8. \A r \in Rights : ShareCover(r) \in Nat /\ ShareCover(r)' = ShareCover(r)
    BY <1>6, SharesAre DEF ShareCover
  <1>9. \A i \in Mine : order[i].side = "BUY"
    BY <1>1, LongsBefore
  <1> HIDE DEF leg, k, n
  <1>10. ASSUME NEW r \in Rights
         PROVE  Hedged(Rest', ShareCover(r), r) /\ Written(Rest', r) <= Written(Rest, r)
    <2>1. Hedged(Rest, ShareCover(r), r)
      BY <1>2 DEF AllHedged
    <2>2. CASE r = k.right
      BY <1>3, <1>5, <1>7, <1>8, <2>1, <2>2, BuyingHedges
    <2>3. CASE r # k.right
      <3>1. Written(Rest', r) = Written(Rest, r) /\ Written(Rest, r) \in Nat
        BY <1>3, <1>5, <2>3, WrittenMoves, WrittenIs
      <3>2. Hedged(Rest', ShareCover(r), r)
        BY <1>3, <1>5, <2>1, <2>3, HedgedElsewhere
      <3> QED
        BY <3>1, <3>2
    <2> QED
      BY <2>2, <2>3
  <1>11. AllHedged'
    <2>1. ASSUME NEW r \in Rights PROVE Hedged(Rest', ShareCover(r)', r)
      BY <1>8, <1>10
    <2> QED
      BY <2>1 DEF AllHedged
  <1>12. Snapshot'
    <2>1. ASSUME NEW r \in Rights PROVE Written(Rest', r) <= shorts'[r]
      <3>1. Written(Rest, r) <= shorts[r]
        BY <1>2, <1>9 DEF Snapshot
      <3>2. Written(Rest, r) \in Nat /\ Written(Rest', r) \in Nat /\ shorts[r] \in Nat
        BY <1>3, <1>5, <1>6, WrittenIs
      <3> QED
        BY <1>6, <1>10, <3>1, <3>2
    <2> QED
      BY <2>1 DEF Snapshot
  <1>13. FarKept'
    <2>1. ASSUME NEW c \in Contracts, c.expiry \in Far PROVE Rest'[c] >= 0
      <3>1. Rest[c] >= 0
        BY <1>2, <2>1 DEF FarKept
      <3> QED
        BY <1>3, <1>7, <3>1
    <2> QED
      BY <2>1 DEF FarKept
  <1>14. ASSUME k.expiry \in Far \/ shorts[k.right] = 0 PROVE Rest'[k] >= n
    <2>1. CASE k.expiry \in Far
      <3>1. Rest[k] >= 0
        BY <1>2, <1>3, <2>1 DEF FarKept
      <3> QED
        BY <1>3, <1>7, <3>1
    <2>2. CASE shorts[k.right] = 0
      <3>1. Written(Rest, k.right) <= 0
        BY <1>2, <1>6, <1>9, <2>2 DEF Snapshot
      <3>2. k \in OfRight(k.right)
        BY <1>3 DEF OfRight
      <3>3. ShortOf(Rest)[k] <= Written(Rest, k.right) /\ Written(Rest, k.right) \in Nat
        BY <1>5, <3>2, WrittenIs
      <3>4. Rest[k] < 0 => ShortOf(Rest)[k] = -Rest[k]
        BY <1>3, <1>5, ShortOfIs
      <3>5. Rest[k] >= 0
        BY <1>7, <3>1, <3>3, <3>4
      <3> QED
        BY <1>3, <1>7, <3>5
    <2> QED
      BY <1>14, <2>1, <2>2
  <1>15. LongsKept'
    <2>1. ASSUME NEW i \in Mine', order'[i].side = "BUY",
                 order'[i].contract.expiry \in Far \/ shorts'[order'[i].contract.right] = 0
          PROVE  Rest'[order'[i].contract] >= order'[i].qty
      <3>1. CASE i = next
        BY <1>4, <1>6, <1>14, <2>1, <3>1 DEF k, n
      <3>2. CASE i \in Mine
        <4>1. order'[i] = order[i] /\ order[i].contract # k /\ order[i].contract \in Contracts
          BY <1>3, <1>4, <1>5, <3>2
        <4>2. Rest[order[i].contract] >= order[i].qty
          BY <1>2, <1>6, <2>1, <3>2, <4>1 DEF LongsKept
        <4>3. Rest'[order[i].contract] = Rest[order[i].contract]
          BY <1>3, <4>1
        <4> QED
          BY <4>1, <4>2, <4>3
      <3> QED
        BY <1>4, <3>1, <3>2
    <2> QED
      BY <2>1 DEF LongsKept
  <1> QED
    BY <1>3, <1>11, <1>12, <1>13, <1>15

(* A short leg of the plan is accepted: the risk core passed it on the     *)
(* shares left, or on the long leg of the plan, and that leg is there to   *)
(* cover it unless the book was short of its contract before -- which a    *)
(* far leg never is, and a put that passes without shares is not either.   *)
LEMMA ShortEntersBook ==
    ASSUME TypeInv, SentInv, BookInv, SendLeg, Accepted(plan[at]), plan[at].side = "SELL"
    PROVE  BookInv'
  <1> SUFFICES ASSUME calm'
               PROVE  /\ working' \subseteq Mine' /\ FarKept' /\ AllHedged'
                      /\ Snapshot' /\ LongsKept'
    BY DEF BookInv
  <1> DEFINE leg == plan[at]
             k   == leg.contract
             n   == leg.qty
             r0  == k.right
  <1>1. /\ pc = "leg" /\ UNCHANGED <<planVars, at, confirmed>> /\ calm /\ Coverable(leg)
        /\ pc' = "idle" \/ (pc' = "poll" /\ answer' = answer)
    BY SendLegIs DEF Fails, Answer
  <1>2. /\ working \subseteq Mine /\ FarKept /\ AllHedged /\ Snapshot /\ LongsKept
    BY <1>1 DEF BookInv
  <1>3. /\ Rest' \in [Contracts -> Int] /\ k \in Contracts /\ n \in Nat
        /\ Rest'[k] = Rest[k] + Signed(leg, n)
        /\ \A c \in Contracts : c # k => Rest'[c] = Rest[c]
        /\ \A i \in Mine : order[i].contract # k
        /\ working' \subseteq Mine'
    BY <1>2, AcceptMovesRest
  <1>4. /\ Mine' = Mine \cup {next} /\ Mine \subseteq Sent /\ order'[next] = leg
        /\ \A i \in Sent : order'[i] = order[i]
    BY <1>1, LegIsSent DEF Mine
  <1>5. /\ Rest \in [Contracts -> Int]
        /\ \A i \in Mine : order[i].contract \in Contracts /\ order[i].qty \in Nat
    BY <1>2, RestIs
  <1>6. shorts' = shorts /\ lots' = lots /\ shorts \in [Rights -> Nat] /\ r0 \in Rights
    BY <1>1, <1>3 DEF planVars, Accepted, TypeInv, EngineTypes, Contracts
  <1>7. Rest'[k] = Rest[k] - n /\ Rest[k] \in Int /\ Rest'[k] \in Int
    BY <1>3, <1>5 DEF Signed
  <1>8. \A r \in Rights : ShareCover(r) \in Nat /\ ShareCover(r)' = ShareCover(r)
    BY <1>6, SharesAre DEF ShareCover
  <1>9. \A i \in Mine : order[i].side = "BUY"
    BY <1>1, LongsBefore
  <1>10. /\ at \in DOMAIN plan /\ at \in Nat /\ leg.side = "SELL" /\ plan \in Seq(Legs)
         /\ Len(plan) = at /\ DOMAIN plan = 1..Len(plan)
         /\ k.expiry \in Near
    <2>1. at \in DOMAIN plan /\ plan \in Seq(Legs) /\ at \in Nat
      BY <1>1 DEF TypeInv, EngineTypes, PlanInv
    <2> QED
      BY <2>1 DEF TypeInv, PlanInv
  <1>11. \/ shorts[r0] + n <= ShareCover(r0)
         \/ /\ shorts[r0] <= ShareCover(r0)
            /\ at = 2 /\ plan[1].side = "BUY" /\ Covers(plan[1].contract, k)
            /\ plan[1].qty = n
    BY <1>1, PassedIsCovered
  <1>12. ASSUME shorts[r0] <= ShareCover(r0), at = 2, plan[1].side = "BUY",
                Covers(plan[1].contract, k), plan[1].qty = n
         PROVE  \E long \in Contracts : long # k /\ Covers(long, k) /\ Rest[long] >= n
    <2>1. 1 \in 1..Upto
      BY <1>1, <1>12 DEF Upto
    <2>2. PICK j \in Mine : order[j] = plan[1]
      BY <1>1, <2>1 DEF SentInv
    <2>3. plan[1].contract \in Contracts /\ plan[1].contract.right = r0
      BY <1>5, <1>12, <2>2 DEF Covers
    <2>4. plan[1].contract # k
      BY <1>3, <2>2
    <2>5. plan[1].contract.expiry \in Far \/ shorts[plan[1].contract.right] = 0
      <3>1. CASE r0 = "CALL"
        <4>1. Len(plan) = 2
          BY <1>10, <1>12
        <4> QED
          BY <2>3, <3>1, <4>1 DEF TypeInv, PlanInv
      <3>2. CASE r0 # "CALL"
        <4>1. ShareCover(r0) = 0 /\ shorts[r0] \in Nat
          BY <1>6, <3>2 DEF ShareCover
        <4> QED
          BY <1>12, <2>3, <4>1
      <3> QED
        BY <3>1, <3>2
    <2>6. Rest[plan[1].contract] >= n
      BY <1>2, <1>12, <2>2, <2>5 DEF LongsKept
    <2> QED
      BY <1>12, <2>3, <2>4, <2>6
  <1> HIDE DEF leg, k, n, r0
  <1>13. Hedged(Rest', ShareCover(r0), r0)
    <2>1. Written(Rest, r0) <= shorts[r0] /\ shorts[r0] \in Nat /\ ShareCover(r0) \in Nat
      BY <1>2, <1>6, <1>8, <1>9 DEF Snapshot
    <2>2. \/ shorts[r0] + n <= ShareCover(r0)
          \/ /\ shorts[r0] <= ShareCover(r0)
             /\ \E long \in Contracts : long # k /\ Covers(long, k) /\ Rest[long] >= n
      BY <1>11, <1>12
    <2> QED
      BY <1>3, <1>5, <1>7, <2>1, <2>2, SellingHedges DEF r0
  <1>14. AllHedged'
    <2>1. ASSUME NEW r \in Rights PROVE Hedged(Rest', ShareCover(r)', r)
      <3>1. CASE r = r0
        BY <1>8, <1>13, <3>1
      <3>2. CASE r # r0
        <4>1. Hedged(Rest, ShareCover(r), r) /\ r # k.right
          BY <1>2, <3>2 DEF AllHedged, r0
        <4>2. Hedged(Rest', ShareCover(r), r)
          BY <1>3, <1>5, <4>1, HedgedElsewhere
        <4> QED
          BY <1>8, <4>2
      <3> QED
        BY <3>1, <3>2
    <2> QED
      BY <2>1 DEF AllHedged
  <1>15. Snapshot'
    <2>1. next \in Mine' /\ order'[next].side # "BUY"
      BY <1>4, <1>10
    <2> QED
      BY <2>1 DEF Snapshot
  <1>16. FarKept'
    <2>1. ASSUME NEW c \in Contracts, c.expiry \in Far PROVE Rest'[c] >= 0
      <3>1. c # k
        BY <1>10, <2>1 DEF Near
      <3> QED
        BY <1>2, <1>3, <2>1, <3>1 DEF FarKept
    <2> QED
      BY <2>1 DEF FarKept
  <1>17. LongsKept'
    <2>1. ASSUME NEW i \in Mine', order'[i].side = "BUY",
                 order'[i].contract.expiry \in Far \/ shorts'[order'[i].contract.right] = 0
          PROVE  Rest'[order'[i].contract] >= order'[i].qty
      <3>1. i \in Mine /\ order'[i] = order[i]
        BY <1>4, <1>10, <2>1
      <3>2. order[i].contract # k /\ order[i].contract \in Contracts
        BY <1>3, <1>5, <3>1
      <3>3. Rest[order[i].contract] >= order[i].qty
        BY <1>2, <1>6, <2>1, <3>1 DEF LongsKept
      <3>4. Rest'[order[i].contract] = Rest[order[i].contract]
        BY <1>3, <3>2
      <3> QED
        BY <3>1, <3>3, <3>4
    <2> QED
      BY <2>1 DEF LongsKept
  <1> QED
    BY <1>3, <1>14, <1>15, <1>16, <1>17

(* Nothing is written at first.                                            *)
LEMMA BookBegins == Init => BookInv
  <1> SUFFICES ASSUME Init
               PROVE  working \subseteq Mine /\ FarKept /\ AllHedged /\ pc = "idle"
    BY DEF BookInv
  <1>1. TypeInv /\ SentInv
    BY InitTypes
  <1>2. working = {} /\ pc = "idle" /\ \A c \in Contracts : position[c] = 0
    BY DEF Init
  <1>3. Rest \in [Contracts -> Int] /\ \A c \in Contracts : Rest[c] = 0
    BY <1>1, <1>2, RestIs
  <1>4. ASSUME NEW r \in Rights PROVE Hedged(Rest, ShareCover(r), r)
    <2>1. /\ ShortOf(Rest) \in [Contracts -> Nat] /\ \A c \in Contracts : ShortOf(Rest)[c] = 0
      BY <1>3, ShortOfIs
    <2>2. IsFiniteSet({}) /\ SumFunctionOnSet(ShortOf(Rest), {}) = 0
      BY <2>1, FS_EmptySet, SumByChoice
    <2>3. OfRight(r) \in SUBSET Contracts /\ IsFiniteSet(OfRight(r))
      BY RightsAreFinite
    <2>4. \A c \in OfRight(r) : ShortOf(Rest)[c] = 0
      BY <2>1, <2>3
    <2>5. SumFunctionOnSet(ShortOf(Rest), OfRight(r)) <= SumFunctionOnSet(ShortOf(Rest), {})
      BY <2>1, <2>2, <2>3, <2>4, SumMonotone
    <2>6. Written(Rest, r) <= 0 /\ Written(Rest, r) \in Nat
      BY <1>3, <2>2, <2>5, WrittenIs DEF Written
    <2>7. ShareCover(r) \in Nat
      BY <1>1, SharesAre
    <2>8. Written(Rest, r) <= ShareCover(r) + 0
      BY <2>6, <2>7
    <2> QED
      BY <2>8 DEF Hedged
  <1>5. FarKept
    BY <1>3 DEF FarKept
  <1> QED
    BY <1>2, <1>4, <1>5 DEF AllHedged

(* Overlays that are stacked upon each other never add up to a naked short *)
(* for any chain, any number of plans and lost acks, as long as orders     *)
(* fill completely and plans do not overlap (risk_core.py: available <     *)
(* need).                                                                  *)
THEOREM CoverAddsUp == Spec => []CoveredAtRest
<1>1. TypeInv /\ SentInv /\ BookInv /\ SentInv' /\ [Next]_vars => BookInv'
  <2> SUFFICES ASSUME TypeInv, SentInv, BookInv, SentInv', [Next]_vars PROVE BookInv'
    OBVIOUS
  <2>1. CASE Plan
    BY <2>1, PlanOpensBook
  <2>2. CASE RejectedByRisk \/ Poll \/ Abandon \/ UNCHANGED vars
    <3>1. /\ UNCHANGED <<brokerVars, planVars>> /\ calm' = calm
          /\ pc' # "idle" => pc # "idle"
      BY <2>2 DEF RejectedByRisk, Poll, Abandon, vars, Fails, Answer
    <3> QED
      BY <3>1, RestStays, BookStays DEF brokerVars, planVars
  <2>3. CASE SendLeg
    <3>1. CASE Accepted(plan[at])
      <4>1. plan[at].side \in {"BUY", "SELL"}
        BY <2>3, SendLegIs, CurrentLeg DEF Legs
      <4> QED
        BY <2>3, <3>1, <4>1, LongEntersBook, ShortEntersBook
    <3>2. CASE ~Accepted(plan[at])
      <4>1. UNCHANGED <<brokerVars, planVars>> /\ calm' = calm /\ pc' = "idle"
        BY <2>3, <3>2, SendLegIs DEF Fails, Answer
      <4> QED
        BY <4>1, RestStays, BookStays DEF brokerVars, planVars
    <3> QED
      BY <3>1, <3>2
  <2>4. ASSUME NEW i \in working, Fill(i) PROVE BookInv'
    <3>1. /\ UNCHANGED <<order, next, plans, lots, shorts, pc, calm>> /\ working' \subseteq working
      BY <2>4 DEF Fill, planVars
    <3>2. calm => Rest' = Rest
      BY <2>4, FillKeepsRest DEF BookInv
    <3> QED
      BY <3>1, <3>2, BookStays
  <2>5. ASSUME NEW i \in working, Lapse(i) PROVE BookInv'
    BY <2>5 DEF Lapse, BookInv
  <2> QED
    BY <2>1, <2>2, <2>3, <2>4, <2>5 DEF Next, Engine
<1>2. TypeInv /\ SentInv /\ BookInv => CoveredAtRest
  <2> SUFFICES ASSUME TypeInv, SentInv, BookInv, calm, working = {}, pc = "idle",
                      NEW r \in Rights, NEW S \in SUBSET Short(r)
               PROVE  Quantity(S) <= ShareCover(r)
                          + Quantity({c \in Contracts : position[c] > 0 /\ \E s \in S : Covers(c, s)})
    BY DEF CoveredAtRest, Covered
  <2>1. Rest \in [Contracts -> Int] /\ \A c \in Contracts : Rest[c] = position[c]
    BY RestIs
  <2>2. position \in [Contracts -> Int]
    BY DEF TypeInv, BrokerTypes
  <2>3. Rest = position
    BY <2>1, <2>2
  <2>4. Hedged(position, ShareCover(r), r)
    BY <2>3 DEF BookInv, AllHedged
  <2> QED
    BY <2>4, HedgedIsCovered
<1> QED
  BY BooksAreKept, BookBegins, <1>1, <1>2, PTL DEF Spec
=============================================================================
