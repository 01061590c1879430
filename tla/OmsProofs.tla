------------------------------- MODULE OmsProofs ------------------------------
(***************************************************************************)
(* Proofs about the order management system, for any symbols, prices,      *)
(* quantities, numbers of orders and ways to split a fill.  The sums and   *)
(* loops of Portfolio and Oms are recursive functions; each is unfolded    *)
(* once by induction on the number of its turns, and everything else is a  *)
(* step of those loops.                                                    *)
(***************************************************************************)
EXTENDS Oms, WellFoundedInduction, FiniteSetTheorems, TLAPS

------------------------------------------------------------------------------
\* Induction.

\* Every set of natural numbers that is not empty has a least element.
LEMMA LeastNumber ==
    ASSUME NEW T \in SUBSET Nat, T # {}
    PROVE  \E n \in T : \A m \in T : n <= m
<1> DEFINE R == {ss \in Nat \X Nat : ss[1] < ss[2]}
<1>1. IsWellFoundedOn(R, Nat)
  BY Zenon, NatLessThanWellFounded DEF OpToRel
<1>2. PICK n \in T : \A m \in T : ~ (<<m, n>> \in R)
  <2> HIDE DEF R
  <2> QED
    BY <1>1, WFMin, Zenon
<1>3. \A m \in T : n <= m
  <2> TAKE m \in T
  <2>1. ~ (<<m, n>> \in R)
    BY Zenon, <1>2
  <2> QED
    BY <2>1
<1> QED
  BY Zenon, <1>3

\* A set that has 0 and with n < top also n + 1 has every number up to top.
LEMMA Induction ==
    ASSUME NEW top \in Nat, NEW P, 0 \in P,
           \A n \in Nat : n \in P /\ n < top => n + 1 \in P
    PROVE  \A n \in 0 .. top : n \in P
<1> SUFFICES ASSUME (0 .. top) \ P # {} PROVE FALSE
  BY Zenon
<1> DEFINE T == (0 .. top) \ P
<1>1. PICK n \in T : \A m \in T : n <= m
  <2>1. T \in SUBSET Nat /\ T # {}
    OBVIOUS
  <2> HIDE DEF T
  <2> QED
    BY <2>1, LeastNumber, Zenon
<1>2. n # 0 /\ n - 1 \in Nat /\ n - 1 \in P /\ n - 1 < top
  BY <1>1
<1> QED
  BY <1>1, <1>2

------------------------------------------------------------------------------
\* Sums of sequences.

\* The numbers of a sequence.
Numbers(f) == \A i \in 1 .. Len(f) : f[i] \in Int

\* s adds up f from the front, as the function that defines Sum does.
Adds(s, f) ==
    /\ s \in [0 .. Len(f) -> Int]
    /\ s[0] = 0
    /\ \A i \in 1 .. Len(f) : s[i] = s[i - 1] + f[i]

\* Sum(f) is the last of the partial sums of f.
LEMMA SumUnfolds ==
    ASSUME NEW f, Len(f) \in Nat, Numbers(f)
    PROVE  \E s : Adds(s, f) /\ Sum(f) = s[Len(f)]
<1> DEFINE G(g, n) == g = [i \in 0 .. n |-> IF i = 0 THEN 0
                                            ELSE g[i - 1] + f[i]]
           P == {n \in Nat : \E g : G(g, n)}
           sum == CHOOSE g : G(g, Len(f))
<1>1. 0 \in P
  <2> DEFINE g == [i \in 0 .. 0 |-> 0]
  <2>1. G(g, 0)
    OBVIOUS
  <2> HIDE DEF g
  <2> QED
    BY <2>1, Zenon
<1>2. ASSUME NEW n \in Nat, n \in P
      PROVE  n + 1 \in P
  <2>1. PICK g : G(g, n)
    BY Zenon, <1>2
  <2> DEFINE h == [i \in 0 .. n + 1 |-> IF i = n + 1 THEN g[n] + f[n + 1]
                                        ELSE g[i]]
  <2>2. G(h, n + 1)
    <3>1. ASSUME NEW i \in 0 .. n + 1
          PROVE  h[i] = IF i = 0 THEN 0 ELSE h[i - 1] + f[i]
      <4>1. CASE i = n + 1
        BY <4>1
      <4>2. CASE i # n + 1
        <5>1. i \in 0 .. n /\ h[i] = g[i]
          BY <4>2
        <5>2. g[i] = IF i = 0 THEN 0 ELSE g[i - 1] + f[i]
          BY Zenon, <5>1, <2>1
        <5>3. i # 0 => h[i - 1] = g[i - 1]
          BY <5>1
        <5> QED
          BY Zenon, <5>1, <5>2, <5>3
      <4> QED
        BY Zenon, <4>1, <4>2
    <3>2. h = [i \in 0 .. n + 1 |-> h[i]]
      BY Zenon
    <3> HIDE DEF h
    <3> QED
      BY <3>1, <3>2, Zenon
  <2>3. n + 1 \in Nat
    OBVIOUS
  <2> HIDE DEF h
  <2> QED
    BY <2>2, <2>3, Zenon
<1>3. Len(f) \in P
  <2> HIDE DEF P
  <2>1. \A n \in 0 .. Len(f) : n \in P
    BY <1>1, <1>2, Induction, Zenon
  <2> QED
    BY <2>1
<1>4. G(sum, Len(f))
  BY <1>3, SMTT(30)
<1>5. Sum(f) = sum[Len(f)]
  BY Zenon DEF Sum
<1> HIDE DEF sum
<1>6. sum[0] = 0 /\ \A i \in 1 .. Len(f) : sum[i] = sum[i - 1] + f[i]
  BY <1>4
<1>7. \A n \in 0 .. Len(f) : sum[n] \in Int
  <2> DEFINE Q == {n \in Nat : n <= Len(f) /\ sum[n] \in Int}
  <2>1. 0 \in Q
    BY <1>6
  <2>2. ASSUME NEW n \in Nat, n \in Q, n < Len(f) PROVE n + 1 \in Q
    BY <2>2, <1>6 DEF Numbers
  <2>3. \A n \in 0 .. Len(f) : n \in Q
    <3> HIDE DEF Q
    <3> QED
      BY <2>1, <2>2, Induction, Zenon
  <2> QED
    BY Zenon, <2>3
<1> QED
  BY Zenon, <1>4, <1>5, <1>6, <1>7 DEF Adds

\* Two functions that add up the same sequence agree; so do the sums.
LEMMA SumIsLast ==
    ASSUME NEW f, Len(f) \in Nat, NEW s, Adds(s, f), Numbers(f)
    PROVE  Sum(f) = s[Len(f)] /\ Sum(f) \in Int
<1>1. PICK t : Adds(t, f) /\ Sum(f) = t[Len(f)]
  BY SumUnfolds, Zenon
<1> DEFINE P == {n \in Nat : n <= Len(f) => s[n] = t[n]}
<1>2. 0 \in P
  BY Zenon, <1>1 DEF Adds
<1>3. ASSUME NEW n \in Nat, n \in P, n < Len(f) PROVE n + 1 \in P
  BY <1>1, <1>3 DEF Adds
<1>4. \A n \in 0 .. Len(f) : n \in P
  <2> HIDE DEF P
  <2> QED
    BY <1>2, <1>3, Induction, Zenon
<1>5. s[Len(f)] = t[Len(f)]
  BY <1>4
<1> QED
  BY <1>1, <1>5 DEF Adds

\* A sum of numbers is a number.
LEMMA SumType ==
    ASSUME NEW n \in Nat, NEW f, Len(f) = n, Numbers(f)
    PROVE  Sum(f) \in Int
<1>1. Len(f) \in Nat
  BY Zenon
<1>2. PICK s : Adds(s, f) /\ Sum(f) = s[Len(f)]
  BY <1>1, SumUnfolds, Zenon
<1> QED
  BY <1>1, <1>2 DEF Adds

\* The sum of nothing is 0 ...
LEMMA SumEmpty ==
    ASSUME NEW f, Len(f) = 0
    PROVE  Sum(f) = 0
<1>1. Numbers(f)
  BY DEF Numbers
<1>2. PICK s : Adds(s, f) /\ Sum(f) = s[Len(f)]
  <2>1. Len(f) \in Nat
    OBVIOUS
  <2> QED
    BY <1>1, <2>1, SumUnfolds, Zenon
<1> QED
  BY Zenon, <1>2 DEF Adds

\* ... one more number at the end is added ...
LEMMA SumGrows ==
    ASSUME NEW n \in Nat, NEW f, Len(f) = n, Numbers(f), NEW g, Len(g) = n + 1,
           \A i \in 1 .. n : g[i] = f[i], g[n + 1] \in Int
    PROVE  Sum(g) = Sum(f) + g[n + 1]
<1>1. PICK s : Adds(s, f) /\ Sum(f) = s[Len(f)]
  <2>1. Len(f) \in Nat
    BY Zenon
  <2> QED
    BY <2>1, SumUnfolds, Zenon
<1> DEFINE t == [i \in 0 .. Len(g) |-> IF i = Len(g) THEN s[Len(f)] + g[Len(g)]
                                       ELSE s[i]]
<1>2. Adds(t, g)
  <2>1. t \in [0 .. Len(g) -> Int]
    BY <1>1 DEF Adds
  <2>2. t[0] = 0
    BY <1>1 DEF Adds
  <2>3. ASSUME NEW i \in 1 .. Len(g) PROVE t[i] = t[i - 1] + g[i]
    BY <1>1 DEF Adds
  <2> HIDE DEF t
  <2> QED
    BY <2>1, <2>2, <2>3, Zenon DEF Adds
<1>3. Numbers(g) /\ Len(g) \in Nat
  BY DEF Numbers
<1>4. Sum(g) = t[Len(g)]
  <2> HIDE DEF t
  <2> QED
    BY <1>2, <1>3, SumIsLast, Zenon
<1> QED
  BY <1>1, <1>4 DEF Adds

\* ... the first number can be taken off ...
LEMMA SumWithoutFirst ==
    ASSUME NEW n \in Nat, NEW f, Len(f) = n + 1, Numbers(f), NEW g, Len(g) = n,
           \A i \in 1 .. n : g[i] = f[i + 1]
    PROVE  Sum(g) = Sum(f) - f[1]
<1>1. PICK s : Adds(s, f) /\ Sum(f) = s[Len(f)]
  <2>1. Len(f) \in Nat
    OBVIOUS
  <2> QED
    BY <2>1, SumUnfolds, Zenon
<1> DEFINE t == [i \in 0 .. Len(g) |-> s[i + 1] - f[1]]
<1>2. Adds(t, g)
  <2>1. t \in [0 .. Len(g) -> Int]
    BY <1>1 DEF Adds, Numbers
  <2>2. t[0] = 0
    BY <1>1 DEF Adds, Numbers
  <2>3. ASSUME NEW i \in 1 .. Len(g) PROVE t[i] = t[i - 1] + g[i]
    <3>1. t[i] = s[i + 1] - f[1] /\ t[i - 1] = s[i] - f[1]
      OBVIOUS
    <3>2. i + 1 \in 1 .. Len(f) /\ (i + 1) - 1 = i /\ g[i] = f[i + 1]
      OBVIOUS
    <3>3. s[i + 1] = s[i] + f[i + 1]
      BY Zenon, <1>1, <3>2 DEF Adds
    <3>4. s[i] \in Int /\ f[1] \in Int /\ f[i + 1] \in Int
      BY <1>1, <3>2 DEF Adds, Numbers
    <3> QED
      BY <3>1, <3>3, <3>4
  <2> HIDE DEF t
  <2> QED
    BY <2>1, <2>2, <2>3, Zenon DEF Adds
<1>3. Numbers(g) /\ Len(g) \in Nat
  BY DEF Numbers
<1>4. Sum(g) = t[Len(g)]
  <2> HIDE DEF t
  <2> QED
    BY <1>2, <1>3, SumIsLast, Zenon
<1> QED
  BY <1>1, <1>4 DEF Adds

\* ... one number can change ...
LEMMA SumChanges ==
    ASSUME NEW n \in Nat, NEW f, Len(f) = n, Numbers(f), NEW g, Len(g) = n,
           NEW k \in 1 .. n, g[k] \in Int,
           \A i \in 1 .. n : i # k => g[i] = f[i]
    PROVE  Sum(g) = Sum(f) + g[k] - f[k]
<1>1. PICK s : Adds(s, f) /\ Sum(f) = s[Len(f)]
  <2>1. Len(f) \in Nat
    BY Zenon
  <2> QED
    BY <2>1, SumUnfolds, Zenon
<1> DEFINE t == [i \in 0 .. Len(g) |-> IF i < k THEN s[i]
                                       ELSE s[i] + g[k] - f[k]]
<1>2. Adds(t, g)
  <2>1. t \in [0 .. Len(g) -> Int]
    BY <1>1 DEF Adds, Numbers
  <2>2. t[0] = 0
    BY <1>1 DEF Adds
  <2>3. ASSUME NEW i \in 1 .. Len(g) PROVE t[i] = t[i - 1] + g[i]
    <3>1. s[i] = s[i - 1] + f[i] /\ s[i - 1] \in Int
      BY <1>1 DEF Adds
    <3>2. f[i] \in Int /\ f[k] \in Int /\ (i # k => g[i] = f[i])
      BY Zenon DEF Numbers
    <3> QED
      BY <3>1, <3>2
  <2> HIDE DEF t
  <2> QED
    BY <2>1, <2>2, <2>3, Zenon DEF Adds
<1>3. Numbers(g) /\ Len(g) \in Nat
  BY Zenon DEF Numbers
<1>4. Sum(g) = t[Len(g)]
  <2> HIDE DEF t
  <2> QED
    BY <1>2, <1>3, SumIsLast, Zenon
<1> QED
  BY <1>1, <1>4 DEF Adds

\* h is f plus g.
Added(h, f, g) == \A i \in 1 .. Len(h) : h[i] = f[i] + g[i]

\* ... two sequences can be added ...
LEMMA SumAdds ==
    ASSUME NEW n \in Nat, NEW f, Len(f) = n, Numbers(f), NEW g, Len(g) = n,
           Numbers(g), NEW h, Len(h) = n, Added(h, f, g)
    PROVE  Sum(h) = Sum(f) + Sum(g)
<1>1. PICK s : Adds(s, f) /\ Sum(f) = s[Len(f)]
  <2>1. Len(f) \in Nat
    BY Zenon
  <2> QED
    BY <2>1, SumUnfolds, Zenon
<1>2. PICK t : Adds(t, g) /\ Sum(g) = t[Len(g)]
  <2>1. Len(g) \in Nat
    BY Zenon
  <2> QED
    BY <2>1, SumUnfolds, Zenon
<1> DEFINE u == [i \in 0 .. Len(h) |-> s[i] + t[i]]
<1>3. Adds(u, h)
  <2>1. u \in [0 .. Len(h) -> Int]
    BY <1>1, <1>2 DEF Adds
  <2>2. u[0] = 0
    BY <1>1, <1>2 DEF Adds
  <2>3. ASSUME NEW i \in 1 .. Len(h) PROVE u[i] = u[i - 1] + h[i]
    <3>1. s[i] = s[i - 1] + f[i] /\ s[i - 1] \in Int /\ f[i] \in Int
      BY <1>1 DEF Adds, Numbers
    <3>2. i \in 1 .. Len(g) /\ i - 1 \in 0 .. Len(g)
      OBVIOUS
    <3>3. t[i] = t[i - 1] + g[i] /\ t[i - 1] \in Int /\ g[i] \in Int
      BY Zenon, <1>2, <3>2 DEF Adds, Numbers
    <3> QED
      BY <3>1, <3>3 DEF Added
  <2> HIDE DEF u
  <2> QED
    BY <2>1, <2>2, <2>3, Zenon DEF Adds
<1>4. Numbers(h) /\ Len(h) \in Nat
  BY DEF Numbers, Added
<1>5. Sum(h) = u[Len(h)]
  <2> HIDE DEF u
  <2> QED
    BY <1>3, <1>4, SumIsLast, Zenon
<1> QED
  BY <1>1, <1>2, <1>5 DEF Adds

\* The product of a number and a sum, or a difference.
LEMMA Distribute ==
    ASSUME NEW a \in Int, NEW x \in Int, NEW y \in Int
    PROVE  /\ a * (x + y) = a * x + a * y /\ a * (x - y) = a * x - a * y
           /\ a * x \in Int /\ a * y \in Int
  OBVIOUS

\* h is a times f.
Scaled(h, a, f) == \A i \in 1 .. Len(f) : h[i] = a * f[i]

\* ... and a sequence can be multiplied.
LEMMA SumScales ==
    ASSUME NEW f, Len(f) \in Nat, Numbers(f), NEW a \in Int,
           NEW h, Len(h) = Len(f), Scaled(h, a, f)
    PROVE  Sum(h) = a * Sum(f)
<1>1. PICK s : Adds(s, f) /\ Sum(f) = s[Len(f)]
  BY SumUnfolds, Zenon
<1> DEFINE u == [i \in 0 .. Len(f) |-> a * s[i]]
<1>2. \A i \in 0 .. Len(f) : u[i] = a * s[i] /\ u[i] \in Int
  BY <1>1 DEF Adds
<1>3. \A i \in 1 .. Len(f) : h[i] \in Int
  BY DEF Scaled, Numbers
<1>4. Adds(u, h)
  <2>1. u \in [0 .. Len(h) -> Int]
    BY Zenon, <1>2
  <2>2. u[0] = 0
    BY <1>1 DEF Adds
  <2>3. ASSUME NEW i \in 1 .. Len(h) PROVE u[i] = u[i - 1] + h[i]
    <3>1. s[i] = s[i - 1] + f[i] /\ s[i - 1] \in Int /\ f[i] \in Int
      BY <1>1 DEF Adds, Numbers
    <3>2. i \in 0 .. Len(f) /\ i - 1 \in 0 .. Len(f) /\ i \in 1 .. Len(f)
      OBVIOUS
    <3> HIDE DEF u
    <3>3. u[i] = a * s[i] /\ u[i - 1] = a * s[i - 1] /\ h[i] = a * f[i]
      BY <1>2, <3>2, Zenon DEF Scaled
    <3>4. a * s[i] = a * s[i - 1] + a * f[i]
      BY <3>1, Distribute
    <3> QED
      BY <3>3, <3>4, Zenon
  <2> HIDE DEF u
  <2> QED
    BY <2>1, <2>2, <2>3, Zenon DEF Adds
<1>5. Numbers(h) /\ Len(h) \in Nat
  BY Zenon, <1>3 DEF Numbers
<1>6. Sum(h) = u[Len(h)]
  <2> HIDE DEF u
  <2> QED
    BY <1>4, <1>5, SumIsLast, Zenon
<1>7. Len(h) \in 0 .. Len(f)
  OBVIOUS
<1> HIDE DEF u
<1> QED
  BY <1>1, <1>2, <1>6, <1>7, Zenon

------------------------------------------------------------------------------
\* The size and the cost of lots.

\* Prices are natural numbers, so every lot and every fill has a cost.
LEMMA LotType ==
    ASSUME NEW lots \in Seq(Lot), NEW i \in 1 .. Len(lots)
    PROVE  /\ lots[i] \in Lot
           /\ lots[i].price \in Nat /\ lots[i].quantity \in Nat \ {0}
           /\ lots[i].price * lots[i].quantity \in Int
<1>1. lots[i] \in Lot
  OBVIOUS
<1>2. lots[i].price \in Nat /\ lots[i].quantity \in Nat \ {0}
  BY <1>1, OmsAssumption, Zenon DEF Lot
<1> QED
  BY <1>1, <1>2

\* The money for qty at price px.
Value(px, qty) == px * qty

\* Money is a number.
LEMMA ValueType ==
    ASSUME NEW px \in Int, NEW qty \in Int
    PROVE  Value(px, qty) \in Int
  BY DEF Value

\* What Size and Cost add up.
Sizes(lots) == [i \in 1 .. Len(lots) |-> lots[i].quantity]
Costs(lots) == [i \in 1 .. Len(lots) |-> lots[i].price * lots[i].quantity]

\* Size and Cost are sums of numbers.
LEMMA LotNumbers ==
    ASSUME NEW lots \in Seq(Lot)
    PROVE  /\ Len(lots) \in Nat
           /\ Len(Sizes(lots)) = Len(lots) /\ Numbers(Sizes(lots))
           /\ Len(Costs(lots)) = Len(lots) /\ Numbers(Costs(lots))
           /\ Size(lots) = Sum(Sizes(lots)) /\ Cost(lots) = Sum(Costs(lots))
           /\ Size(lots) \in Int /\ Cost(lots) \in Int
<1>1. Len(lots) \in Nat
  OBVIOUS
<1>2. Len(Sizes(lots)) = Len(lots) /\ Len(Costs(lots)) = Len(lots)
  BY <1>1 DEF Sizes, Costs
<1>3. Numbers(Sizes(lots))
  BY <1>2, LotType DEF Numbers, Sizes
<1>4. Numbers(Costs(lots))
  <2>1. \A i \in 1 .. Len(lots) : Costs(lots)[i] \in Int
    BY Zenon, LotType DEF Costs
  <2> QED
    BY Zenon, <1>2, <2>1 DEF Numbers
<1>5. Size(lots) = Sum(Sizes(lots)) /\ Cost(lots) = Sum(Costs(lots))
  BY Zenon DEF Size, Cost, Sizes, Costs
<1>6. Sum(Sizes(lots)) \in Int /\ Sum(Costs(lots)) \in Int
  <2>1. PICK s : Adds(s, Sizes(lots))
    BY Zenon, <1>1, <1>2, <1>3, SumUnfolds
  <2>2. PICK t : Adds(t, Costs(lots))
    BY Zenon, <1>1, <1>2, <1>4, SumUnfolds
  <2> QED
    BY Zenon, <1>1, <1>2, <1>3, <1>4, <2>1, <2>2, SumIsLast
<1> QED
  BY Zenon, <1>1, <1>2, <1>3, <1>4, <1>5, <1>6

\* No lots: nothing held and nothing paid.
LEMMA NoLots ==
    Size(<<>>) = 0 /\ Cost(<<>>) = 0
<1>1. <<>> \in Seq(Lot) /\ Len(<<>>) = 0
  OBVIOUS
<1> QED
  BY <1>1, LotNumbers, SumEmpty, Zenon

\* A lot at the back adds its quantity and its cost ...
LEMMA LotAdded ==
    ASSUME NEW lots \in Seq(Lot), NEW lot \in Lot
    PROVE  /\ Append(lots, lot) \in Seq(Lot)
           /\ Size(Append(lots, lot)) = Size(lots) + lot.quantity
           /\ Cost(Append(lots, lot)) = Cost(lots) + Value(lot.price, lot.quantity)
<1>1. PICK new : new = Append(lots, lot)
  BY Zenon
<1>2. /\ new \in Seq(Lot) /\ Len(new) = Len(lots) + 1
      /\ Len(lots) + 1 \in 1 .. Len(new)
      /\ Len(lots) \in Nat
      /\ \A i \in 1 .. Len(lots) : new[i] = lots[i] /\ i \in 1 .. Len(new)
      /\ new[Len(lots) + 1] = lot
  BY <1>1
<1>3. Sum(Sizes(new)) = Sum(Sizes(lots)) + lot.quantity
  <2>1. Sizes(new)[Len(lots) + 1] = lot.quantity
    BY Zenon, <1>2 DEF Sizes
  <2>2. \A i \in 1 .. Len(lots) : Sizes(new)[i] = Sizes(lots)[i]
    BY Zenon, <1>2 DEF Sizes
  <2>3. lot.quantity \in Int
    BY DEF Lot
  <2>4. /\ Len(Sizes(lots)) = Len(lots) /\ Numbers(Sizes(lots))
        /\ Len(Sizes(new)) = Len(lots) + 1
    BY Zenon, <1>2, LotNumbers
  <2>5. Sizes(new)[Len(lots) + 1] \in Int
    BY <2>1, <2>3, Zenon
  <2>6. Sum(Sizes(new)) = Sum(Sizes(lots)) + Sizes(new)[Len(lots) + 1]
    BY <1>2, <2>2, <2>4, <2>5, SumGrows, Zenon
  <2> QED
    BY <2>1, <2>6, Zenon
<1>4. Sum(Costs(new)) = Sum(Costs(lots)) + lot.price * lot.quantity
  <2>1. Costs(new)[Len(lots) + 1] = lot.price * lot.quantity
    BY <1>2, Zenon DEF Costs
  <2>2. \A i \in 1 .. Len(lots) : Costs(new)[i] = Costs(lots)[i]
    BY <1>2, Zenon DEF Costs
  <2>3. lot.price * lot.quantity \in Int
    BY Zenon, <1>2, LotType
  <2>4. /\ Len(Costs(lots)) = Len(lots) /\ Numbers(Costs(lots))
        /\ Len(Costs(new)) = Len(lots) + 1
    BY Zenon, <1>2, LotNumbers
  <2>5. Costs(new)[Len(lots) + 1] \in Int
    BY <2>1, <2>3, Zenon
  <2>6. Sum(Costs(new)) = Sum(Costs(lots)) + Costs(new)[Len(lots) + 1]
    BY <1>2, <2>2, <2>4, <2>5, SumGrows, Zenon
  <2> QED
    BY <2>1, <2>6, Zenon
<1> QED
  BY <1>1, <1>2, <1>3, <1>4, LotNumbers, Zenon DEF Value

\* ... a lot taken from the front removes them ...
LEMMA LotRemoved ==
    ASSUME NEW lots \in Seq(Lot), lots # <<>>
    PROVE  /\ Head(lots) = lots[1] /\ 1 \in 1 .. Len(lots)
           /\ Tail(lots) \in Seq(Lot) /\ Len(Tail(lots)) = Len(lots) - 1
           /\ Size(Tail(lots)) = Size(lots) - lots[1].quantity
           /\ Cost(Tail(lots)) = Cost(lots) - Value(lots[1].price, lots[1].quantity)
<1>1. PICK new : new = Tail(lots)
  BY Zenon
<1>2. PICK n : n = Len(new)
  BY Zenon
<1>3. /\ new \in Seq(Lot) /\ Len(lots) = n + 1 /\ Len(new) = n /\ n \in Nat
      /\ 1 \in 1 .. Len(lots) /\ Head(lots) = lots[1]
      /\ \A i \in 1 .. n : new[i] = lots[i + 1] /\ i + 1 \in 1 .. Len(lots)
  BY <1>1, <1>2
<1>4. Sum(Sizes(new)) = Sum(Sizes(lots)) - lots[1].quantity
  <2>1. Sizes(lots)[1] = lots[1].quantity
    BY <1>3, Zenon DEF Sizes
  <2>2. \A i \in 1 .. n : Sizes(new)[i] = Sizes(lots)[i + 1]
    BY <1>3, Zenon DEF Sizes
  <2>3. /\ Len(Sizes(lots)) = n + 1 /\ Numbers(Sizes(lots))
        /\ Len(Sizes(new)) = n
    BY Zenon, <1>3, LotNumbers
  <2>4. Sum(Sizes(new)) = Sum(Sizes(lots)) - Sizes(lots)[1]
    BY <1>3, <2>2, <2>3, SumWithoutFirst, Zenon
  <2> QED
    BY <2>1, <2>4, Zenon
<1>5. Sum(Costs(new)) = Sum(Costs(lots)) - lots[1].price * lots[1].quantity
  <2>1. Costs(lots)[1] = lots[1].price * lots[1].quantity
    BY <1>3, Zenon DEF Costs
  <2>2. \A i \in 1 .. n : Costs(new)[i] = Costs(lots)[i + 1]
    BY <1>3, Zenon DEF Costs
  <2>3. /\ Len(Costs(lots)) = n + 1 /\ Numbers(Costs(lots))
        /\ Len(Costs(new)) = n
    BY Zenon, <1>3, LotNumbers
  <2>4. Sum(Costs(new)) = Sum(Costs(lots)) - Costs(lots)[1]
    BY <1>3, <2>2, <2>3, SumWithoutFirst, Zenon
  <2> QED
    BY <2>1, <2>4, Zenon
<1>6. Len(new) = Len(lots) - 1
  BY <1>3
<1> QED
  BY <1>1, <1>3, <1>4, <1>5, <1>6, LotNumbers, Zenon DEF Value

\* The lots after a part of the front lot is closed.
Reduced(lots, matched) == [lots EXCEPT ![1].quantity = @ - matched]

\* ... and a front lot that shrinks removes a part of them.
LEMMA LotReduced ==
    ASSUME NEW lots \in Seq(Lot), lots # <<>>,
           NEW matched \in Nat, matched < lots[1].quantity
    PROVE  /\ Reduced(lots, matched) \in Seq(Lot)
           /\ Size(Reduced(lots, matched)) = Size(lots) - matched
           /\ Cost(Reduced(lots, matched))
                = Cost(lots) - Value(lots[1].price, matched)
<1>1. PICK new : new = Reduced(lots, matched)
  BY Zenon
<1>2. PICK n : n = Len(lots)
  BY Zenon
<1>3. n \in Nat /\ 1 \in 1 .. n /\ Len(lots) = n
  BY <1>2
<1>4. /\ lots[1] \in Lot /\ lots[1].price \in Nat /\ lots[1].quantity \in Nat
  BY Zenon, <1>3, LotType
<1>5. [lots[1] EXCEPT !.quantity = @ - matched] \in Lot
  <2>1. lots[1].quantity - matched \in Nat \ {0}
    BY <1>4
  <2> QED
    BY <1>4, <2>1, Zenon DEF Lot
<1>6. /\ Len(new) = n
      /\ new[1] = [lots[1] EXCEPT !.quantity = @ - matched]
      /\ \A i \in 1 .. n : i # 1 => new[i] = lots[i]
  BY <1>1, <1>3 DEF Reduced
<1>7. new \in Seq(Lot)
  BY <1>1, <1>3, <1>5 DEF Reduced
<1>8. /\ new[1].quantity = lots[1].quantity - matched
      /\ new[1].price = lots[1].price
  BY Zenon, <1>4, <1>6 DEF Lot
<1>9. /\ Size(lots) = Sum(Sizes(lots)) /\ Cost(lots) = Sum(Costs(lots))
      /\ Size(new) = Sum(Sizes(new)) /\ Cost(new) = Sum(Costs(new))
      /\ Size(lots) \in Int /\ Cost(lots) \in Int
  BY Zenon, <1>7, LotNumbers
<1>10. Size(new) = Size(lots) - matched
  <2>1. Sizes(lots)[1] = lots[1].quantity /\ Sizes(new)[1] = new[1].quantity
    BY <1>3, <1>6, Zenon DEF Sizes
  <2>2. Sizes(new)[1] \in Int
    BY <2>1, <1>4, <1>8
  <2>3. \A i \in 1 .. n : i # 1 => Sizes(new)[i] = Sizes(lots)[i]
    BY <1>3, <1>6, Zenon DEF Sizes
  <2>4. Sum(Sizes(new)) = Sum(Sizes(lots)) + Sizes(new)[1] - Sizes(lots)[1]
    <3>1. Len(Sizes(lots)) = n /\ Numbers(Sizes(lots)) /\ Len(Sizes(new)) = n
      BY Zenon, <1>3, <1>6, <1>7, LotNumbers
    <3> QED
      BY <1>3, <2>2, <2>3, <3>1, SumChanges
  <2> QED
    BY <1>4, <1>8, <1>9, <2>1, <2>4
<1>11. Cost(new) = Cost(lots) - Value(lots[1].price, matched)
  <2>1. /\ Costs(lots)[1] = Value(lots[1].price, lots[1].quantity)
        /\ Costs(new)[1] = Value(new[1].price, new[1].quantity)
    BY <1>3, <1>6, Zenon DEF Costs, Value
  <2>2. /\ Value(lots[1].price, lots[1].quantity) \in Int
        /\ Value(lots[1].price, matched) \in Int
        /\ Value(lots[1].price, lots[1].quantity - matched)
             = Value(lots[1].price, lots[1].quantity) - Value(lots[1].price, matched)
    <3>1. lots[1].price \in Int /\ lots[1].quantity \in Int /\ matched \in Int
      BY <1>4
    <3> QED
      BY <3>1, SMTT(30) DEF Value
  <2>3. Costs(new)[1] = Value(lots[1].price, lots[1].quantity)
                          - Value(lots[1].price, matched)
    BY <1>8, <2>1, <2>2, Zenon
  <2>4. Costs(new)[1] \in Int
    BY <2>2, <2>3
  <2>5. \A i \in 1 .. n : i # 1 => Costs(new)[i] = Costs(lots)[i]
    BY <1>3, <1>6, Zenon DEF Costs
  <2>6. Sum(Costs(new)) = Sum(Costs(lots)) + Costs(new)[1] - Costs(lots)[1]
    <3>1. Len(Costs(lots)) = n /\ Numbers(Costs(lots)) /\ Len(Costs(new)) = n
      BY Zenon, <1>3, <1>6, <1>7, LotNumbers
    <3> QED
      BY <1>3, <2>4, <2>5, <3>1, SumChanges
  <2> QED
    BY <1>9, <2>1, <2>2, <2>3, <2>6
<1> QED
  BY <1>1, <1>7, <1>10, <1>11, Zenon

------------------------------------------------------------------------------
\* The loop of PnLCalculator::on_fill.

\* The signs of long and of short lots.
Signs == {1, -1}

\* The state of the loop.
Closing == [lots : Seq(Lot), remaining : Nat, realized : Int]

\* What the loop keeps: what the open lots and the rest of the fill have in
\* quantity and, with the realized profit, in money.
Uncovered(c) == Size(c.lots) - c.remaining
Worth(c, px, sign) ==
    IF sign = 1 THEN c.realized - Cost(c.lots) + Value(px, c.remaining)
                ELSE c.realized + Cost(c.lots) - Value(px, c.remaining)

\* The state after a turn that closes matched of the front lot.
Turned(c, px, sign, matched, lots) ==
    [lots |-> lots, remaining |-> c.remaining - matched,
     realized |-> c.realized + sign * (px - c.lots[1].price) * matched]

\* The numbers of one turn of the loop, whichever part of the lot it takes.
LEMMA TurnKeeps ==
    ASSUME NEW c, NEW px, NEW sign, NEW matched, NEW lots,
           NEW d, d = Turned(c, px, sign, matched, lots),
           c \in Closing, px \in Nat, sign \in Signs,
           matched \in Nat, matched <= c.remaining, c.lots # <<>>,
           lots \in Seq(Lot), Size(lots) = Size(c.lots) - matched,
           Cost(lots) = Cost(c.lots) - Value(c.lots[1].price, matched)
    PROVE  /\ d \in Closing
           /\ Uncovered(d) = Uncovered(c)
           /\ Worth(d, px, sign) = Worth(c, px, sign)
<1>1. d = Turned(c, px, sign, matched, lots)
  BY Zenon
<1>2. /\ c.lots \in Seq(Lot) /\ c.remaining \in Nat /\ c.realized \in Int
  BY Zenon DEF Closing
<1>3. c.lots[1].price \in Nat
  <2>1. 1 \in 1 .. Len(c.lots)
    BY <1>2
  <2> QED
    BY Zenon, <1>2, <2>1, LotType
<1>4. PICK open : open = c.lots[1].price
  BY Zenon
<1>5. px \in Int /\ open \in Int /\ matched \in Int /\ c.remaining \in Int
  BY <1>2, <1>3, <1>4
<1>6. PICK sold \in Int, bought \in Int, rest \in Int :
         /\ sold = Value(px, matched) /\ bought = Value(open, matched)
         /\ rest = Value(px, c.remaining)
  <2>1. /\ Value(px, matched) \in Int /\ Value(open, matched) \in Int
        /\ Value(px, c.remaining) \in Int
    BY <1>5, ValueType, Zenon
  <2> QED
    BY <2>1, Zenon
<1>7. /\ Value(px, c.remaining - matched) = rest - sold
      /\ 1 * (px - open) * matched = sold - bought
      /\ (-1) * (px - open) * matched = bought - sold
  <2>1. Value(px, c.remaining - matched)
          = Value(px, c.remaining) - Value(px, matched)
    BY <1>5 DEF Value
  <2>2. /\ 1 * (px - open) * matched = Value(px, matched) - Value(open, matched)
        /\ (-1) * (px - open) * matched = Value(open, matched) - Value(px, matched)
    BY <1>5 DEF Value
  <2> QED
    BY <1>6, <2>1, <2>2, Zenon
<1>8. /\ d.lots = lots /\ d.remaining = c.remaining - matched
      /\ d.realized = c.realized + sign * (px - open) * matched
  <2>1. /\ d.lots = lots /\ d.remaining = c.remaining - matched
        /\ d.realized = c.realized + sign * (px - c.lots[1].price) * matched
    BY Zenon DEF Turned
  <2> QED
    BY <1>4, <2>1, Zenon
<1>9. /\ sign = 1 => d.realized = c.realized + (sold - bought)
      /\ sign = -1 => d.realized = c.realized + (bought - sold)
  BY <1>7, <1>8, Zenon
<1>10. d \in Closing
  <2>1. c.remaining - matched \in Nat
    BY <1>2
  <2>2. d.realized \in Int
    BY <1>2, <1>9 DEF Signs
  <2> QED
    BY <1>1, <1>4, <1>8, <2>1, <2>2, Zenon DEF Turned, Closing
<1>11. Size(lots) \in Int /\ Cost(lots) \in Int
       /\ Size(c.lots) \in Int /\ Cost(c.lots) \in Int
  BY Zenon, <1>2, LotNumbers
<1>12. Uncovered(d) = Uncovered(c)
  BY <1>2, <1>8, <1>11 DEF Uncovered
<1>13. Value(px, d.remaining) = rest - sold
  BY <1>7, <1>8, Zenon
<1>14. Cost(d.lots) = Cost(c.lots) - bought
  BY <1>4, <1>6, <1>8, Zenon
<1>15. Worth(d, px, sign) = Worth(c, px, sign)
  <2>1. CASE sign = 1
    <3>1. /\ Worth(d, px, sign) = d.realized - Cost(d.lots) + (rest - sold)
          /\ Worth(c, px, sign) = c.realized - Cost(c.lots) + rest
      BY <1>6, <1>13, <2>1, Zenon DEF Worth
    <3>2. d.realized = c.realized + (sold - bought)
      BY Zenon, <1>9, <2>1
    <3> QED
      BY <1>2, <1>11, <1>14, <3>1, <3>2
  <2>2. CASE sign = -1
    <3>1. sign # 1
      BY <2>2
    <3>2. /\ Worth(d, px, sign) = d.realized + Cost(d.lots) - (rest - sold)
          /\ Worth(c, px, sign) = c.realized + Cost(c.lots) - rest
      BY <1>6, <1>13, <3>1, Zenon DEF Worth
    <3>3. d.realized = c.realized + (bought - sold)
      BY Zenon, <1>9, <2>2
    <3> QED
      BY <1>2, <1>11, <1>14, <3>2, <3>3
  <2> QED
    BY Zenon, <2>1, <2>2 DEF Signs
<1> QED
  BY <1>1, <1>10, <1>12, <1>15, Zenon

\* A turn keeps both, and removes a lot unless it ends the loop.
LEMMA FrontMatched ==
    ASSUME NEW c, NEW px, NEW sign, NEW d, d = MatchFront(c, px, sign),
           c \in Closing, px \in Nat, sign \in Signs
    PROVE  /\ d \in Closing
           /\ Uncovered(d) = Uncovered(c) /\ Worth(d, px, sign) = Worth(c, px, sign)
           /\ \/ d.remaining = 0 \/ d.lots = <<>>
              \/ Len(d.lots) = Len(c.lots) - 1
           /\ c.remaining = 0 \/ c.lots = <<>> => d = c
<1>1. c.lots \in Seq(Lot) /\ c.remaining \in Nat /\ c.realized \in Int
  BY Zenon DEF Closing
<1>2. CASE c.remaining = 0 \/ c.lots = <<>>
  <2>1. d = c
    BY Zenon, <1>2 DEF MatchFront
  <2> QED
    BY <1>2, <2>1, Zenon
<1>3. CASE c.remaining # 0 /\ c.lots # <<>>
  <2>1. PICK front : front = c.lots[1]
    BY Zenon
  <2>2. Head(c.lots) = front /\ 1 \in 1 .. Len(c.lots)
    BY Zenon, <1>1, <1>3, <2>1, LotRemoved
  <2>3. front \in Lot /\ front.quantity \in Nat \ {0}
    BY Zenon, <1>1, <2>1, <2>2, LotType
  <2>4. CASE c.remaining < front.quantity
    <3>1. d = Turned(c, px, sign, c.remaining, Reduced(c.lots, c.remaining))
      <4>1. c.remaining # front.quantity
        BY <1>1, <2>3, <2>4
      <4> QED
        BY <1>3, <2>1, <2>2, <2>4, <4>1, Zenon DEF MatchFront, Turned, Reduced
    <3>2. /\ Reduced(c.lots, c.remaining) \in Seq(Lot)
          /\ Size(Reduced(c.lots, c.remaining)) = Size(c.lots) - c.remaining
          /\ Cost(Reduced(c.lots, c.remaining))
               = Cost(c.lots) - Value(c.lots[1].price, c.remaining)
      BY <1>1, <1>3, <2>1, <2>4, LotReduced, Zenon
    <3>3. c.remaining <= c.remaining
      BY <1>1
    <3>4. /\ d \in Closing
          /\ Uncovered(d) = Uncovered(c) /\ Worth(d, px, sign) = Worth(c, px, sign)
      BY <1>1, <1>3, <3>1, <3>2, <3>3, TurnKeeps, SMTT(20)
    <3>5. d.remaining = 0
      BY <1>1, <3>1 DEF Turned
    <3> QED
      BY <1>3, <3>4, <3>5, Zenon
  <2>5. CASE ~(c.remaining < front.quantity)
    <3>1. PICK others : others = Tail(c.lots)
      BY Zenon
    <3>2. d = Turned(c, px, sign, front.quantity, others)
      BY <1>3, <2>1, <2>2, <2>5, <3>1, Zenon DEF MatchFront, Turned
    <3>3. /\ others \in Seq(Lot) /\ Len(others) = Len(c.lots) - 1
          /\ Size(others) = Size(c.lots) - front.quantity
          /\ Cost(others) = Cost(c.lots) - Value(c.lots[1].price, front.quantity)
      BY <1>1, <1>3, <2>1, <3>1, LotRemoved, Zenon
    <3>4. front.quantity <= c.remaining /\ front.quantity \in Nat
      BY <1>1, <2>3, <2>5
    <3>5. /\ d \in Closing
          /\ Uncovered(d) = Uncovered(c) /\ Worth(d, px, sign) = Worth(c, px, sign)
      BY <1>3, <3>2, <3>3, <3>4, TurnKeeps, SMTT(20)
    <3>6. d.lots = others
      BY <3>2 DEF Turned
    <3> QED
      BY <1>3, <3>3, <3>5, <3>6, Zenon
  <2> QED
    BY <2>4, <2>5, Zenon
<1> QED
  BY <1>2, <1>3, Zenon

\* t goes through the turns of the loop that closes lots.
Turns(t, lots, realized, px, qty, sign) ==
    /\ t[0] = [lots |-> lots, remaining |-> qty, realized |-> realized]
    /\ \A i \in 1 .. Len(lots) : t[i] = MatchFront(t[i - 1], px, sign)

\* The loop can be unfolded: its turns exist.
LEMMA CloseUnfolds ==
    ASSUME NEW lots, Len(lots) \in Nat, NEW realized, NEW px, NEW qty, NEW sign
    PROVE  \E t : /\ Turns(t, lots, realized, px, qty, sign)
                  /\ Close(lots, realized, px, qty, sign) = t[Len(lots)]
<1> DEFINE z == [lots |-> lots, remaining |-> qty, realized |-> realized]
           G(g, n) == g = [i \in 0 .. n |-> IF i = 0 THEN z
                                            ELSE MatchFront(g[i - 1], px, sign)]
           P == {n \in Nat : \E g : G(g, n)}
           turn == CHOOSE g : G(g, Len(lots))
<1>1. Close(lots, realized, px, qty, sign) = turn[Len(lots)]
  BY Zenon DEF Close
<1> HIDE DEF z
<1>2. 0 \in P
  <2> DEFINE g == [i \in 0 .. 0 |-> z]
  <2>1. G(g, 0)
    OBVIOUS
  <2> HIDE DEF g
  <2> QED
    BY <2>1, Zenon
<1>3. ASSUME NEW n \in Nat, n \in P
      PROVE  n + 1 \in P
  <2>1. PICK g : G(g, n)
    BY Zenon, <1>3
  <2> DEFINE h == [i \in 0 .. n + 1 |->
                      IF i = n + 1 THEN MatchFront(g[n], px, sign) ELSE g[i]]
  <2>2. G(h, n + 1)
    <3>1. ASSUME NEW i \in 0 .. n + 1
          PROVE  h[i] = IF i = 0 THEN z ELSE MatchFront(h[i - 1], px, sign)
      <4>1. CASE i = n + 1
        <5>1. h[i] = MatchFront(g[n], px, sign) /\ h[i - 1] = g[n] /\ i # 0
          BY <4>1
        <5> QED
          BY <5>1, Zenon
      <4>2. CASE i # n + 1
        <5>1. i \in 0 .. n /\ h[i] = g[i]
          BY <4>2
        <5>2. g[i] = IF i = 0 THEN z ELSE MatchFront(g[i - 1], px, sign)
          BY Zenon, <5>1, <2>1
        <5>3. i # 0 => h[i - 1] = g[i - 1]
          BY <5>1
        <5> HIDE DEF h
        <5> QED
          BY <5>1, <5>2, <5>3, Zenon
      <4> QED
        BY Zenon, <4>1, <4>2
    <3>2. h = [i \in 0 .. n + 1 |-> h[i]]
      BY Zenon
    <3> HIDE DEF h
    <3> QED
      BY <3>1, <3>2, Zenon
  <2>3. n + 1 \in Nat
    OBVIOUS
  <2> HIDE DEF h
  <2> QED
    BY <2>2, <2>3, Zenon
<1>4. Len(lots) \in P
  <2> HIDE DEF P
  <2>1. \A n \in 0 .. Len(lots) : n \in P
    BY <1>2, <1>3, Induction, Zenon
  <2> QED
    BY <2>1
<1>5. G(turn, Len(lots))
  BY <1>4, Zenon
<1> HIDE DEF turn
<1>6. turn[0] = z
  BY <1>5
<1>7. ASSUME NEW i \in 1 .. Len(lots)
      PROVE  turn[i] = MatchFront(turn[i - 1], px, sign)
  <2>1. i \in 0 .. Len(lots) /\ i # 0
    OBVIOUS
  <2> QED
    BY Zenon, <1>5, <2>1
<1> QED
  BY <1>1, <1>6, <1>7, Zenon DEF Turns, z

\* The loop ends with the fill used up or with no lot left, and keeps what
\* every turn keeps.
LEMMA LotsClosed ==
    ASSUME NEW lots, NEW realized, NEW px, NEW qty, NEW sign,
           NEW c, c = Close(lots, realized, px, qty, sign),
           lots \in Seq(Lot), realized \in Int, px \in Nat, qty \in Nat,
           sign \in Signs
    PROVE  /\ c \in Closing /\ (c.remaining = 0 \/ c.lots = <<>>)
           /\ lots = <<>> => c.lots = <<>>
           /\ Size(c.lots) - c.remaining = Size(lots) - qty
           /\ sign = 1 => c.realized - Cost(c.lots) + Value(px, c.remaining)
                           = realized - Cost(lots) + Value(px, qty)
           /\ sign = -1 => c.realized + Cost(c.lots) - Value(px, c.remaining)
                            = realized + Cost(lots) - Value(px, qty)
<1>1. Len(lots) \in Nat
  OBVIOUS
<1>2. PICK t : /\ Turns(t, lots, realized, px, qty, sign)
               /\ Close(lots, realized, px, qty, sign) = t[Len(lots)]
  BY <1>1, CloseUnfolds, Zenon
<1>3. PICK z : z = t[0]
  BY Zenon
<1>4. z = [lots |-> lots, remaining |-> qty, realized |-> realized]
  BY Zenon, <1>2, <1>3 DEF Turns
<1>5. z \in Closing /\ z.lots = lots /\ z.remaining = qty /\ z.realized = realized
  BY Zenon, <1>4 DEF Closing
<1> DEFINE Done(s, n) == \/ s.remaining = 0 \/ s.lots = <<>>
                         \/ Len(s.lots) = Len(lots) - n
           P == {n \in Nat : n <= Len(lots) =>
                    /\ t[n] \in Closing /\ Uncovered(t[n]) = Uncovered(z)
                    /\ Worth(t[n], px, sign) = Worth(z, px, sign)
                    /\ Done(t[n], n)}
<1>6. 0 \in P
  BY <1>1, <1>3, <1>5
<1>7. ASSUME NEW n \in Nat, n \in P, n < Len(lots) PROVE n + 1 \in P
  <2>1. /\ t[n] \in Closing /\ Uncovered(t[n]) = Uncovered(z)
        /\ Worth(t[n], px, sign) = Worth(z, px, sign) /\ Done(t[n], n)
    BY <1>1, <1>7
  <2>2. PICK a : a = t[n]
    BY Zenon
  <2>3. PICK b : b = t[n + 1]
    BY Zenon
  <2>4. b = MatchFront(a, px, sign)
    <3>1. n + 1 \in 1 .. Len(lots) /\ (n + 1) - 1 = n
      BY <1>1, <1>7
    <3> QED
      BY Zenon, <1>2, <2>2, <2>3, <3>1 DEF Turns
  <2>5. a \in Closing /\ Done(a, n)
    BY Zenon, <2>1, <2>2
  <2>6. /\ b \in Closing /\ Uncovered(b) = Uncovered(a)
        /\ Worth(b, px, sign) = Worth(a, px, sign)
        /\ b.remaining = 0 \/ b.lots = <<>> \/ Len(b.lots) = Len(a.lots) - 1
        /\ a.remaining = 0 \/ a.lots = <<>> => b = a
    <3>1. a \in Closing
      BY Zenon, <2>5
    <3> HIDE DEF P, Done
    <3> QED
      BY <2>4, <3>1, FrontMatched, SMTT(20)
  <2>7. Done(b, n + 1)
    BY <1>1, <2>5, <2>6
  <2> HIDE DEF Done
  <2>8. n + 1 \in Nat
    OBVIOUS
  <2> QED
    BY <2>1, <2>2, <2>3, <2>6, <2>7, <2>8, Zenon
<1>8. \A n \in 0 .. Len(lots) : n \in P
  <2> HIDE DEF P
  <2> QED
    BY <1>1, <1>6, <1>7, Induction, Zenon
<1>9. /\ c \in Closing /\ Uncovered(c) = Uncovered(z)
      /\ Worth(c, px, sign) = Worth(z, px, sign) /\ Done(c, Len(lots))
  <2>1. Len(lots) \in 0 .. Len(lots) /\ Len(lots) <= Len(lots)
    BY <1>1
  <2>2. c = t[Len(lots)]
    BY Zenon, <1>2
  <2>3. Len(lots) \in P
    BY Zenon, <1>8, <2>1
  <2> HIDE DEF Done
  <2> QED
    BY Zenon, <2>1, <2>2, <2>3
<1>10. c.remaining = 0 \/ c.lots = <<>>
  <2>1. c.lots \in Seq(Lot)
    BY Zenon, <1>9 DEF Closing
  <2> QED
    BY <1>1, <1>9, <2>1
<1>11. lots = <<>> => c.lots = <<>>
  BY Zenon, <1>2, <1>3, <1>5
<1>12. Size(c.lots) - c.remaining = Size(lots) - qty
  BY <1>5, <1>9, Zenon DEF Uncovered
<1>13. sign = 1 => c.realized - Cost(c.lots) + Value(px, c.remaining)
                    = realized - Cost(lots) + Value(px, qty)
  BY <1>5, <1>9, Zenon DEF Worth
<1>14. sign = -1 => c.realized + Cost(c.lots) - Value(px, c.remaining)
                     = realized + Cost(lots) - Value(px, qty)
  <2>1. sign = -1 => sign # 1
    OBVIOUS
  <2> QED
    BY <1>5, <1>9, <2>1, Zenon DEF Worth
<1> QED
  BY <1>9, <1>10, <1>11, <1>12, <1>13, <1>14, Zenon

------------------------------------------------------------------------------
\* The portfolio of a symbol.

\* What a fill brings, and what Cash adds up.
Flow(side, px, qty) == IF side = "Sell" THEN Value(px, qty) ELSE -Value(px, qty)
Flows(fills) == [i \in 1 .. Len(fills) |->
                    (IF fills[i].side = "Sell" THEN 1 ELSE -1)
                        * fills[i].price * fills[i].quantity]

\* A sale brings its value, a purchase costs it.
LEMMA FlowIs ==
    ASSUME NEW side, NEW px \in Nat, NEW qty \in Nat
    PROVE  /\ (IF side = "Sell" THEN 1 ELSE -1) * px * qty = Flow(side, px, qty)
           /\ Flow(side, px, qty) \in Int
<1>1. CASE side = "Sell"
  <2>1. 1 * px * qty = px * qty /\ px * qty \in Int
    OBVIOUS
  <2> QED
    BY <1>1, <2>1, Zenon DEF Flow, Value
<1>2. CASE side # "Sell"
  <2>1. (-1) * px * qty = -(px * qty) /\ -(px * qty) \in Int
    OBVIOUS
  <2> QED
    BY <1>2, <2>1, Zenon DEF Flow, Value
<1> QED
  BY <1>1, <1>2, Zenon

\* The sizes and the cash flows of the fills are numbers.
LEMMA FillNumbers ==
    ASSUME NEW fills \in Seq(Fill)
    PROVE  /\ Len(fills) \in Nat
           /\ Len(Sizes(fills)) = Len(fills) /\ Numbers(Sizes(fills))
           /\ Len(Flows(fills)) = Len(fills) /\ Numbers(Flows(fills))
           /\ Size(fills) = Sum(Sizes(fills)) /\ Size(fills) \in Int
           /\ Sum(Flows(fills)) \in Int
<1>1. Len(fills) \in Nat
  OBVIOUS
<1>2. Len(Sizes(fills)) = Len(fills) /\ Len(Flows(fills)) = Len(fills)
  BY <1>1 DEF Sizes, Flows
<1>3. ASSUME NEW i \in 1 .. Len(fills)
      PROVE  /\ Sizes(fills)[i] = fills[i].quantity /\ fills[i].quantity \in Nat
             /\ Flows(fills)[i] \in Int
  <2>1. fills[i].price \in Nat /\ fills[i].quantity \in Nat
    <3>1. fills[i] \in Fill
      OBVIOUS
    <3> QED
      BY <3>1, OmsAssumption, Zenon DEF Fill
  <2>2. PICK side, px, qty :
           side = fills[i].side /\ px = fills[i].price /\ qty = fills[i].quantity
    BY Zenon
  <2>3. Flows(fills)[i] \in Int
    <3>1. Flows(fills)[i] = (IF side = "Sell" THEN 1 ELSE -1) * px * qty
      BY <2>2, Zenon DEF Flows
    <3>2. px \in Nat /\ qty \in Nat
      BY Zenon, <2>1, <2>2
    <3> QED
      BY <3>1, <3>2, FlowIs, Zenon
  <2>4. Sizes(fills)[i] = fills[i].quantity
    BY Zenon DEF Sizes
  <2> QED
    BY Zenon, <2>1, <2>3, <2>4
<1>4. Numbers(Sizes(fills)) /\ Numbers(Flows(fills))
  BY <1>2, <1>3 DEF Numbers
<1>5. Size(fills) = Sum(Sizes(fills))
  BY Zenon DEF Size, Sizes
<1>6. Sum(Sizes(fills)) \in Int /\ Sum(Flows(fills)) \in Int
  <2>1. PICK s : Adds(s, Sizes(fills))
    BY Zenon, <1>1, <1>2, <1>4, SumUnfolds
  <2>2. PICK t : Adds(t, Flows(fills))
    BY Zenon, <1>1, <1>2, <1>4, SumUnfolds
  <2> QED
    BY Zenon, <1>1, <1>2, <1>4, <2>1, <2>2, SumIsLast
<1> QED
  BY Zenon, <1>1, <1>2, <1>4, <1>5, <1>6

\* A fill at the back adds its quantity and its cash flow.
LEMMA FillAdded ==
    ASSUME NEW fills \in Seq(Fill), NEW side \in Side, NEW px \in Price,
           NEW qty \in Nat, NEW new,
           new = Append(fills, [side |-> side, price |-> px, quantity |-> qty])
    PROVE  /\ new \in Seq(Fill) /\ Size(new) = Size(fills) + qty
           /\ Sum(Flows(new)) = Sum(Flows(fills)) + Flow(side, px, qty)
<1>1. PICK f : f = [side |-> side, price |-> px, quantity |-> qty]
  BY Zenon
<1>2. f \in Fill /\ f.side = side /\ f.price = px /\ f.quantity = qty
  BY Zenon, <1>1 DEF Fill
<1>3. /\ new \in Seq(Fill) /\ Len(new) = Len(fills) + 1
      /\ Len(fills) + 1 \in 1 .. Len(new) /\ Len(fills) \in Nat
      /\ \A i \in 1 .. Len(fills) : new[i] = fills[i] /\ i \in 1 .. Len(new)
      /\ new[Len(fills) + 1] = f
  <2>1. new = Append(fills, f)
    BY Zenon, <1>1
  <2> QED
    BY <1>2, <2>1
<1>4. Sum(Sizes(new)) = Sum(Sizes(fills)) + qty
  <2>1. Sizes(new)[Len(fills) + 1] = qty
    BY <1>2, <1>3, Zenon DEF Sizes
  <2>2. \A i \in 1 .. Len(fills) : Sizes(new)[i] = Sizes(fills)[i]
    BY <1>3, Zenon DEF Sizes
  <2>3. /\ Len(Sizes(fills)) = Len(fills) /\ Numbers(Sizes(fills))
        /\ Len(Sizes(new)) = Len(fills) + 1
    BY <1>3, FillNumbers, Zenon
  <2>4. Sizes(new)[Len(fills) + 1] \in Int
    BY <2>1
  <2>5. Sum(Sizes(new)) = Sum(Sizes(fills)) + Sizes(new)[Len(fills) + 1]
    BY <1>3, <2>2, <2>3, <2>4, SumGrows, Zenon
  <2> QED
    BY <2>1, <2>5, Zenon
<1>5. Sum(Flows(new)) = Sum(Flows(fills)) + Flow(side, px, qty)
  <2>1. px \in Nat
    BY Zenon, OmsAssumption
  <2>2. Flows(new)[Len(fills) + 1]
          = (IF side = "Sell" THEN 1 ELSE -1) * px * qty
    BY <1>2, <1>3, Zenon DEF Flows
  <2>3. /\ Flows(new)[Len(fills) + 1] = Flow(side, px, qty)
        /\ Flow(side, px, qty) \in Int
    BY <2>1, <2>2, FlowIs, Zenon
  <2>4. \A i \in 1 .. Len(fills) : Flows(new)[i] = Flows(fills)[i]
    BY <1>3, Zenon DEF Flows
  <2>5. /\ Len(Flows(fills)) = Len(fills) /\ Numbers(Flows(fills))
        /\ Len(Flows(new)) = Len(fills) + 1
    BY <1>3, FillNumbers, Zenon
  <2>6. Flows(new)[Len(fills) + 1] \in Int
    BY <2>3, Zenon
  <2>7. Sum(Flows(new)) = Sum(Flows(fills)) + Flows(new)[Len(fills) + 1]
    BY <1>3, <2>4, <2>5, <2>6, SumGrows, Zenon
  <2> QED
    BY <2>3, <2>7, Zenon
<1> QED
  BY <1>3, <1>4, <1>5, FillNumbers, Zenon

\* What the loop left opens a lot of that quantity and value.
LEMMA LotOpened ==
    ASSUME NEW lots \in Seq(Lot), NEW px \in Price, NEW left \in Nat
    PROVE  /\ OpenLot(lots, px, left) \in Seq(Lot)
           /\ Size(OpenLot(lots, px, left)) = Size(lots) + left
           /\ Cost(OpenLot(lots, px, left)) = Cost(lots) + Value(px, left)
           /\ left = 0 => OpenLot(lots, px, left) = lots
<1>1. CASE left = 0
  <2>1. OpenLot(lots, px, left) = lots
    BY <1>1 DEF OpenLot
  <2>2. Value(px, left) = 0
    BY <1>1, OmsAssumption DEF Value
  <2>3. Size(lots) \in Int /\ Cost(lots) \in Int
    BY Zenon, LotNumbers
  <2> QED
    BY <1>1, <2>1, <2>2, <2>3
<1>2. CASE left # 0
  <2>1. PICK lot : lot = [price |-> px, quantity |-> left]
    BY Zenon
  <2>2. lot \in Lot /\ lot.price = px /\ lot.quantity = left
    BY Zenon, <1>2, <2>1 DEF Lot
  <2>3. OpenLot(lots, px, left) = Append(lots, lot)
    BY <1>2, <2>1 DEF OpenLot
  <2> QED
    BY <1>2, <2>2, <2>3, LotAdded, Zenon
<1> QED
  BY Zenon, <1>1, <1>2

\* The accounts of a symbol agree: position, open lots, fills and profit.
PortfolioOK(p) ==
    /\ p \in SymbolState
    /\ p.position = Size(p.long_lots) - Size(p.short_lots)
    /\ p.long_lots = <<>> \/ p.short_lots = <<>>
    /\ p.realized = Cash(p) + Cost(p.long_lots) - Cost(p.short_lots)

\* A symbol that never traded is right.
LEMMA FlatOK ==
    PortfolioOK(Flat)
<1>1. Flat \in SymbolState
  <2>1. 0 \in Int /\ <<>> \in Seq(Fill) /\ <<>> \in Seq(Lot)
    OBVIOUS
  <2> QED
    BY <2>1, Zenon DEF Flat, SymbolState
<1>2. Flat.fills = <<>> /\ Flat.long_lots = <<>> /\ Flat.short_lots = <<>>
      /\ Flat.position = 0 /\ Flat.realized = 0
  BY Zenon DEF Flat
<1>3. Cash(Flat) = 0
  <2>1. Cash(Flat) = Sum(Flows(<<>>))
    BY <1>2, Zenon DEF Cash, Flows
  <2>2. <<>> \in Seq(Fill) /\ Len(<<>>) = 0
    OBVIOUS
  <2> QED
    BY <2>1, <2>2, FillNumbers, SumEmpty, Zenon
<1> QED
  BY <1>1, <1>2, <1>3, NoLots DEF PortfolioOK

\* The numbers of a symbol's state.
LEMMA StateNumbers ==
    ASSUME NEW p \in SymbolState
    PROVE  /\ p.fills \in Seq(Fill) /\ p.long_lots \in Seq(Lot)
           /\ p.short_lots \in Seq(Lot)
           /\ p.position \in Int /\ p.realized \in Int /\ p.unrealized \in Int
           /\ Size(p.long_lots) \in Int /\ Size(p.short_lots) \in Int
           /\ Cost(p.long_lots) \in Int /\ Cost(p.short_lots) \in Int
           /\ Cash(p) = Sum(Flows(p.fills)) /\ Cash(p) \in Int
<1>1. /\ p.fills \in Seq(Fill) /\ p.long_lots \in Seq(Lot)
      /\ p.short_lots \in Seq(Lot)
      /\ p.position \in Int /\ p.realized \in Int /\ p.unrealized \in Int
  BY Zenon DEF SymbolState
<1>2. Cash(p) = Sum(Flows(p.fills))
  BY Zenon DEF Cash, Flows
<1> QED
  BY <1>1, <1>2, LotNumbers, FillNumbers, Zenon

\* p with the position and the fills that PositionTracker and FillTracker have
\* after a fill.
Tracked(p, side, px, qty) ==
    [p EXCEPT !.position = Update(@, side, qty),
              !.fills = Append(@, [side |-> side, price |-> px,
                                   quantity |-> qty])]

\* The accounts that a loop which ended in c leaves behind.
Bought(b, px, c) == [b EXCEPT !.realized = c.realized, !.short_lots = c.lots,
                              !.long_lots = OpenLot(@, px, c.remaining)]
Sold(b, px, c) == [b EXCEPT !.realized = c.realized, !.long_lots = c.lots,
                            !.short_lots = OpenLot(@, px, c.remaining)]

\* The position, the fills and the cash after a fill.
LEMMA FillTracked ==
    ASSUME NEW p \in SymbolState, NEW side \in Side, NEW px \in Price,
           NEW qty \in Nat, NEW b, b = Tracked(p, side, px, qty)
    PROVE  /\ b \in SymbolState
           /\ b.position = Update(p.position, side, qty)
           /\ b.long_lots = p.long_lots /\ b.short_lots = p.short_lots
           /\ b.realized = p.realized
           /\ Size(b.fills) = Size(p.fills) + qty
           /\ Cash(b) = Cash(p) + Flow(side, px, qty)
<1>1. /\ b.position = Update(p.position, side, qty)
      /\ b.fills = Append(p.fills, [side |-> side, price |-> px,
                                    quantity |-> qty])
      /\ b.long_lots = p.long_lots /\ b.short_lots = p.short_lots
      /\ b.realized = p.realized
  BY Zenon DEF Tracked, SymbolState
<1>2. Update(p.position, side, qty) \in Int
  BY StateNumbers DEF Update
<1>3. /\ b.fills \in Seq(Fill) /\ Size(b.fills) = Size(p.fills) + qty
      /\ Sum(Flows(b.fills)) = Sum(Flows(p.fills)) + Flow(side, px, qty)
  <2>1. p.fills \in Seq(Fill)
    BY Zenon, StateNumbers
  <2> QED
    BY <1>1, <2>1, FillAdded, ZenonT(60)
<1>4. b \in SymbolState
  <2>1. Append(p.fills, [side |-> side, price |-> px, quantity |-> qty])
          \in Seq(Fill)
    BY <1>1, <1>3, Zenon
  <2> QED
    BY <1>2, <2>1, Zenon DEF Tracked, SymbolState
<1>5. Cash(b) = Cash(p) + Flow(side, px, qty)
  BY <1>3, <1>4, StateNumbers, Zenon
<1> QED
  BY Zenon, <1>1, <1>3, <1>4, <1>5

\* A fill keeps the accounts of its symbol: PnLCalculator, PositionTracker and
\* FillTracker still agree (Portfolio::on_fill).
LEMMA FillKeeps ==
    ASSUME NEW p, NEW side \in Side, NEW px \in Price, NEW qty \in Nat,
           NEW q, q = OnFill(p, side, px, qty), PortfolioOK(p)
    PROVE  PortfolioOK(q) /\ Size(q.fills) = Size(p.fills) + qty
<1>1. /\ p \in SymbolState /\ px \in Nat
      /\ p.position = Size(p.long_lots) - Size(p.short_lots)
      /\ p.long_lots = <<>> \/ p.short_lots = <<>>
      /\ p.realized = Cash(p) + Cost(p.long_lots) - Cost(p.short_lots)
  BY Zenon, OmsAssumption DEF PortfolioOK
<1>2. PICK b : b = Tracked(p, side, px, qty)
  BY Zenon
<1>3. /\ b \in SymbolState
      /\ b.position = Update(p.position, side, qty)
      /\ b.long_lots = p.long_lots /\ b.short_lots = p.short_lots
      /\ b.realized = p.realized
      /\ Size(b.fills) = Size(p.fills) + qty
      /\ Cash(b) = Cash(p) + Flow(side, px, qty)
  BY <1>1, <1>2, FillTracked
<1>4. q = PnLOnFill(b, side, px, qty)
  BY <1>2, Zenon DEF OnFill, Tracked
<1>5. PICK v \in Int : v = Value(px, qty)
  BY <1>1, ValueType
<1>6. /\ p.long_lots \in Seq(Lot) /\ p.short_lots \in Seq(Lot)
      /\ Size(p.long_lots) \in Int /\ Size(p.short_lots) \in Int
      /\ Cost(p.long_lots) \in Int /\ Cost(p.short_lots) \in Int
      /\ p.realized \in Int /\ Cash(p) \in Int
  BY Zenon, <1>1, StateNumbers
<1>7. CASE side = "Buy"
  <2>1. PICK c : c = Close(p.short_lots, p.realized, px, qty, -1)
    BY Zenon
  <2>2. q = Bought(b, px, c)
    BY <1>3, <1>4, <1>7, <2>1, Zenon DEF PnLOnFill, Bought
  <2>3. /\ c \in Closing /\ (c.remaining = 0 \/ c.lots = <<>>)
        /\ p.short_lots = <<>> => c.lots = <<>>
        /\ Size(c.lots) - c.remaining = Size(p.short_lots) - qty
        /\ c.realized + Cost(c.lots) - Value(px, c.remaining)
             = p.realized + Cost(p.short_lots) - v
    <3>1. PICK sign \in Signs : sign = -1
      BY Zenon DEF Signs
    <3>2. c = Close(p.short_lots, p.realized, px, qty, sign)
      BY <2>1, <3>1, Zenon
    <3>3. /\ c \in Closing /\ (c.remaining = 0 \/ c.lots = <<>>)
          /\ p.short_lots = <<>> => c.lots = <<>>
          /\ Size(c.lots) - c.remaining = Size(p.short_lots) - qty
          /\ sign = -1 => c.realized + Cost(c.lots) - Value(px, c.remaining)
                           = p.realized + Cost(p.short_lots) - Value(px, qty)
      <4>1. px \in Nat /\ p.short_lots \in Seq(Lot) /\ p.realized \in Int
        BY Zenon, <1>1, <1>6
      <4> QED
        BY <3>2, <4>1, LotsClosed, SMTT(30)
    <3> QED
      BY <1>5, <3>1, <3>3, Zenon
  <2>4. c.lots \in Seq(Lot) /\ c.remaining \in Nat /\ c.realized \in Int
    BY Zenon, <2>3 DEF Closing
  <2>5. PICK opened : opened = OpenLot(p.long_lots, px, c.remaining)
    BY Zenon
  <2>6. PICK w \in Int : w = Value(px, c.remaining)
    <3>1. px \in Int /\ c.remaining \in Int
      BY <1>1, <2>4
    <3> QED
      BY <3>1, ValueType, Zenon
  <2>7. /\ opened \in Seq(Lot) /\ Size(opened) = Size(p.long_lots) + c.remaining
        /\ Cost(opened) = Cost(p.long_lots) + w
        /\ c.remaining = 0 => opened = p.long_lots
    BY <1>6, <2>4, <2>5, <2>6, LotOpened, Zenon
  <2>8. /\ q.position = b.position /\ q.fills = b.fills /\ q.long_lots = opened
        /\ q.short_lots = c.lots /\ q.realized = c.realized
    BY Zenon, <1>3, <2>2, <2>5 DEF Bought, SymbolState
  <2>9. q \in SymbolState
    BY <1>3, <2>2, <2>4, <2>5, <2>7, Zenon DEF Bought, SymbolState
  <2>10. Cash(q) = Cash(p) - v
    <3>1. Flow(side, px, qty) = -v
      BY Zenon, <1>5, <1>7 DEF Flow
    <3>2. Cash(q) = Cash(b)
      BY <1>3, <2>8, <2>9, StateNumbers, Zenon
    <3> QED
      BY Zenon, <1>3, <1>6, <3>1, <3>2
  <2>11. q.position = Size(q.long_lots) - Size(q.short_lots)
    <3>1. PICK long \in Int, short \in Int, rest \in Int, left \in Int :
             /\ long = Size(p.long_lots) /\ short = Size(p.short_lots)
             /\ rest = Size(c.lots) /\ left = c.remaining
      <4>1. Size(c.lots) \in Int /\ c.remaining \in Int
        BY <2>4, LotNumbers
      <4> QED
        BY <1>6, <4>1, Zenon
    <3>2. q.position = (long - short) + qty
      BY <1>1, <1>3, <1>7, <2>8, <3>1, Zenon DEF Update
    <3>3. Size(q.long_lots) = long + left /\ Size(q.short_lots) = rest
      BY <2>7, <2>8, <3>1, Zenon
    <3>4. rest - left = short - qty
      BY <2>3, <3>1, Zenon
    <3> QED
      BY <3>2, <3>3, <3>4
  <2>12. q.long_lots = <<>> \/ q.short_lots = <<>>
    BY <1>1, <2>3, <2>7, <2>8, Zenon
  <2>13. q.realized = Cash(q) + Cost(q.long_lots) - Cost(q.short_lots)
    <3>1. PICK long \in Int, short \in Int, rest \in Int, cash \in Int,
               made \in Int :
             /\ long = Cost(p.long_lots) /\ short = Cost(p.short_lots)
             /\ rest = Cost(c.lots) /\ cash = Cash(p) /\ made = c.realized
      <4>1. Cost(c.lots) \in Int
        BY Zenon, <2>4, LotNumbers
      <4> QED
        BY <1>6, <2>4, <4>1, Zenon
    <3>2. /\ q.realized = made /\ Cash(q) = cash - v
          /\ Cost(q.long_lots) = long + w /\ Cost(q.short_lots) = rest
      BY <2>7, <2>8, <2>10, <3>1, Zenon
    <3>3. made + rest - w = (cash + long - short) + short - v
      BY <1>1, <2>3, <2>6, <3>1, Zenon
    <3> QED
      BY <3>2, <3>3
  <2> QED
    BY <1>3, <2>8, <2>9, <2>11, <2>12, <2>13, Zenon DEF PortfolioOK
<1>8. CASE side = "Sell"
  <2>1. PICK c : c = Close(p.long_lots, p.realized, px, qty, 1)
    BY Zenon
  <2>2. q = Sold(b, px, c)
    BY <1>3, <1>4, <1>8, <2>1, Zenon DEF PnLOnFill, Sold
  <2>3. /\ c \in Closing /\ (c.remaining = 0 \/ c.lots = <<>>)
        /\ p.long_lots = <<>> => c.lots = <<>>
        /\ Size(c.lots) - c.remaining = Size(p.long_lots) - qty
        /\ c.realized - Cost(c.lots) + Value(px, c.remaining)
             = p.realized - Cost(p.long_lots) + v
    <3>1. PICK sign \in Signs : sign = 1
      BY Zenon DEF Signs
    <3>2. c = Close(p.long_lots, p.realized, px, qty, sign)
      BY <2>1, <3>1, Zenon
    <3>3. /\ c \in Closing /\ (c.remaining = 0 \/ c.lots = <<>>)
          /\ p.long_lots = <<>> => c.lots = <<>>
          /\ Size(c.lots) - c.remaining = Size(p.long_lots) - qty
          /\ sign = 1 => c.realized - Cost(c.lots) + Value(px, c.remaining)
                          = p.realized - Cost(p.long_lots) + Value(px, qty)
      <4>1. px \in Nat /\ p.long_lots \in Seq(Lot) /\ p.realized \in Int
        BY Zenon, <1>1, <1>6
      <4> QED
        BY <3>2, <4>1, LotsClosed, SMTT(30)
    <3> QED
      BY <1>5, <3>1, <3>3, Zenon
  <2>4. c.lots \in Seq(Lot) /\ c.remaining \in Nat /\ c.realized \in Int
    BY Zenon, <2>3 DEF Closing
  <2>5. PICK opened : opened = OpenLot(p.short_lots, px, c.remaining)
    BY Zenon
  <2>6. PICK w \in Int : w = Value(px, c.remaining)
    <3>1. px \in Int /\ c.remaining \in Int
      BY <1>1, <2>4
    <3> QED
      BY <3>1, ValueType, Zenon
  <2>7. /\ opened \in Seq(Lot) /\ Size(opened) = Size(p.short_lots) + c.remaining
        /\ Cost(opened) = Cost(p.short_lots) + w
        /\ c.remaining = 0 => opened = p.short_lots
    BY <1>6, <2>4, <2>5, <2>6, LotOpened, Zenon
  <2>8. /\ q.position = b.position /\ q.fills = b.fills /\ q.short_lots = opened
        /\ q.long_lots = c.lots /\ q.realized = c.realized
    BY Zenon, <1>3, <2>2, <2>5 DEF Sold, SymbolState
  <2>9. q \in SymbolState
    BY <1>3, <2>2, <2>4, <2>5, <2>7, Zenon DEF Sold, SymbolState
  <2>10. Cash(q) = Cash(p) + v
    <3>1. Flow(side, px, qty) = v
      BY Zenon, <1>5, <1>8 DEF Flow
    <3>2. Cash(q) = Cash(b)
      BY <1>3, <2>8, <2>9, StateNumbers, Zenon
    <3> QED
      BY Zenon, <1>3, <1>6, <3>1, <3>2
  <2>11. q.position = Size(q.long_lots) - Size(q.short_lots)
    <3>1. PICK long \in Int, short \in Int, rest \in Int, left \in Int :
             /\ long = Size(p.long_lots) /\ short = Size(p.short_lots)
             /\ rest = Size(c.lots) /\ left = c.remaining
      <4>1. Size(c.lots) \in Int /\ c.remaining \in Int
        BY <2>4, LotNumbers
      <4> QED
        BY <1>6, <4>1, Zenon
    <3>2. q.position = (long - short) - qty
      BY <1>1, <1>3, <1>8, <2>8, <3>1, Zenon DEF Update
    <3>3. Size(q.short_lots) = short + left /\ Size(q.long_lots) = rest
      BY <2>7, <2>8, <3>1, Zenon
    <3>4. rest - left = long - qty
      BY <2>3, <3>1, Zenon
    <3>5. (long - short) - qty = rest - (short + left)
      BY <3>4
    <3> QED
      BY <3>2, <3>3, <3>5, Zenon
  <2>12. q.short_lots = <<>> \/ q.long_lots = <<>>
    BY <1>1, <2>3, <2>7, <2>8, Zenon
  <2>13. q.realized = Cash(q) + Cost(q.long_lots) - Cost(q.short_lots)
    <3>1. PICK long \in Int, short \in Int, rest \in Int, cash \in Int,
               made \in Int :
             /\ long = Cost(p.long_lots) /\ short = Cost(p.short_lots)
             /\ rest = Cost(c.lots) /\ cash = Cash(p) /\ made = c.realized
      <4>1. Cost(c.lots) \in Int
        BY Zenon, <2>4, LotNumbers
      <4> QED
        BY <1>6, <2>4, <4>1, Zenon
    <3>2. /\ q.realized = made /\ Cash(q) = cash + v
          /\ Cost(q.short_lots) = short + w /\ Cost(q.long_lots) = rest
      BY <2>7, <2>8, <2>10, <3>1, Zenon
    <3>3. made - rest + w = (cash + long - short) - long + v
      BY <1>1, <2>3, <2>6, <3>1, Zenon
    <3> QED
      BY <3>2, <3>3
  <2> QED
    BY <1>3, <2>8, <2>9, <2>11, <2>12, <2>13, Zenon DEF PortfolioOK
<1> QED
  BY <1>7, <1>8, Zenon DEF Side

\* What the lots would gain if they were closed at the mark.
LongGains(lots, mark) ==
    [i \in 1 .. Len(lots) |-> (mark - lots[i].price) * lots[i].quantity]
ShortGains(lots, mark) ==
    [i \in 1 .. Len(lots) |-> (lots[i].price - mark) * lots[i].quantity]

\* Together the gains are the value of the lots at the mark, less their cost.
LEMMA LotsMarked ==
    ASSUME NEW lots \in Seq(Lot), NEW mark \in Nat
    PROVE  /\ Sum(LongGains(lots, mark)) = Value(mark, Size(lots)) - Cost(lots)
           /\ Sum(ShortGains(lots, mark)) = Cost(lots) - Value(mark, Size(lots))
<1>1. PICK n \in Nat : n = Len(lots)
  OBVIOUS
<1>2. PICK f : f = Sizes(lots)
  BY Zenon
<1>3. PICK c : c = Costs(lots)
  BY Zenon
<1>4. PICK k : k = [i \in 1 .. n |-> mark * f[i]]
  BY Zenon
<1>5. PICK g : g = LongGains(lots, mark)
  BY Zenon
<1>6. PICK h : h = ShortGains(lots, mark)
  BY Zenon
<1>7. /\ Len(f) = n /\ Numbers(f) /\ Len(c) = n /\ Numbers(c)
      /\ Size(lots) = Sum(f) /\ Cost(lots) = Sum(c)
      /\ Sum(f) \in Int /\ Sum(c) \in Int
  BY <1>1, <1>2, <1>3, LotNumbers, Zenon
<1>8. Len(k) = n /\ Len(g) = n /\ Len(h) = n
  BY <1>1, <1>4, <1>5, <1>6 DEF LongGains, ShortGains
<1>9. ASSUME NEW i \in 1 .. n
      PROVE  /\ k[i] = mark * f[i] /\ k[i] \in Int
             /\ g[i] \in Int /\ h[i] \in Int
             /\ k[i] = g[i] + c[i] /\ c[i] = h[i] + k[i]
  <2>1. i \in 1 .. Len(lots)
    BY Zenon, <1>1
  <2>2. PICK a \in Nat, b \in Nat : a = lots[i].price /\ b = lots[i].quantity
    BY Zenon, <2>1, LotType
  <2>3. /\ k[i] = mark * b /\ c[i] = a * b /\ f[i] = b
        /\ g[i] = (mark - a) * b /\ h[i] = (a - mark) * b
    BY <1>2, <1>3, <1>4, <1>5, <1>6, <2>1, <2>2, Zenon
       DEF LongGains, ShortGains, Sizes, Costs
  <2>4. ASSUME NEW x \in Int, NEW y \in Int, NEW z \in Int
        PROVE  x * z = (x - y) * z + y * z
               /\ x * z \in Int /\ (x - y) * z \in Int
    OBVIOUS
  <2>5. mark \in Int /\ a \in Int /\ b \in Int
    OBVIOUS
  <2>6. mark * b = (mark - a) * b + a * b /\ a * b = (a - mark) * b + mark * b
        /\ mark * b \in Int /\ (mark - a) * b \in Int /\ (a - mark) * b \in Int
    BY <2>4, <2>5, ZenonT(60)
  <2> QED
    BY <2>3, <2>6, Zenon
<1>10. Numbers(k) /\ Numbers(g) /\ Numbers(h)
  BY <1>8, <1>9, Zenon DEF Numbers
<1>11. Sum(k) = mark * Sum(f)
  <2>1. Scaled(k, mark, f)
    BY <1>7, <1>9, Zenon DEF Scaled
  <2>2. Len(f) \in Nat /\ Len(k) = Len(f) /\ mark \in Int
    BY <1>7, <1>8
  <2> QED
    BY <1>7, <2>1, <2>2, SumScales, Zenon
<1>12. Sum(k) = Sum(g) + Sum(c)
  <2>1. Added(k, g, c)
    BY <1>7, <1>8, <1>9, Zenon DEF Added
  <2>2. Len(k) = n /\ Len(g) = n /\ Len(h) = n /\ Len(c) = n
        /\ Numbers(k) /\ Numbers(g) /\ Numbers(h) /\ Numbers(c)
    BY <1>7, <1>8, <1>10, Zenon
  <2> QED
    BY <2>1, <2>2, SumAdds, SMT
<1>13. Sum(c) = Sum(h) + Sum(k)
  <2>1. Added(c, h, k)
    BY <1>7, <1>8, <1>9, Zenon DEF Added
  <2>2. Len(k) = n /\ Len(g) = n /\ Len(h) = n /\ Len(c) = n
        /\ Numbers(k) /\ Numbers(g) /\ Numbers(h) /\ Numbers(c)
    BY <1>7, <1>8, <1>10, Zenon
  <2> QED
    BY <2>1, <2>2, SumAdds, SMT
<1>14. Sum(k) \in Int /\ Sum(g) \in Int /\ Sum(h) \in Int
  BY <1>8, <1>10, SumType, Zenon
<1>15. Sum(k) = Value(mark, Size(lots))
  BY <1>7, <1>11, Zenon DEF Value
<1>16. PICK x \in Int, y \in Int, v \in Int, w \in Int :
         x = Sum(g) /\ y = Sum(h) /\ v = Sum(k) /\ w = Sum(c)
  BY <1>7, <1>14, Zenon
<1>17. x = v - w /\ y = w - v
  <2>1. v = x + w /\ w = y + v
    BY <1>12, <1>13, <1>16, Zenon
  <2> QED
    BY <2>1
<1> QED
  BY <1>5, <1>6, <1>7, <1>15, <1>16, <1>17, Zenon

\* Marking keeps the accounts, and the profit it leaves is that of selling
\* everything at the mark (PnLCalculator::mark_to_market).
LEMMA MarkKeeps ==
    ASSUME NEW p, PortfolioOK(p), NEW mark \in Nat,
           NEW q, q = MarkToMarket(p, mark)
    PROVE  /\ PortfolioOK(q) /\ q.fills = p.fills /\ q.position = p.position
           /\ q.realized + q.unrealized = Cash(q) + q.position * mark
<1>1. /\ p \in SymbolState
      /\ p.position = Size(p.long_lots) - Size(p.short_lots)
      /\ p.long_lots = <<>> \/ p.short_lots = <<>>
      /\ p.realized = Cash(p) + Cost(p.long_lots) - Cost(p.short_lots)
  BY Zenon DEF PortfolioOK
<1>2. PICK gain \in Int, loss \in Int :
        /\ gain = Sum(LongGains(p.long_lots, mark))
        /\ loss = Sum(ShortGains(p.short_lots, mark))
        /\ gain = Value(mark, Size(p.long_lots)) - Cost(p.long_lots)
        /\ loss = Cost(p.short_lots) - Value(mark, Size(p.short_lots))
  <2>1. /\ p.long_lots \in Seq(Lot) /\ p.short_lots \in Seq(Lot)
        /\ Size(p.long_lots) \in Int /\ Size(p.short_lots) \in Int
        /\ Cost(p.long_lots) \in Int /\ Cost(p.short_lots) \in Int
    BY <1>1, StateNumbers, Zenon
  <2>2. /\ Sum(LongGains(p.long_lots, mark))
             = Value(mark, Size(p.long_lots)) - Cost(p.long_lots)
        /\ Sum(ShortGains(p.short_lots, mark))
             = Cost(p.short_lots) - Value(mark, Size(p.short_lots))
    BY <2>1, LotsMarked, Zenon
  <2>3. Value(mark, Size(p.long_lots)) \in Int
        /\ Value(mark, Size(p.short_lots)) \in Int
    <3>1. mark \in Int
      OBVIOUS
    <3> QED
      BY <2>1, <3>1, ValueType, Zenon
  <2>4. \A x, y \in Int : x - y \in Int
    OBVIOUS
  <2> QED
    BY <2>1, <2>2, <2>3, <2>4, Zenon
<1>3. q = [p EXCEPT !.unrealized = gain + loss]
  BY <1>2, Zenon DEF MarkToMarket, LongGains, ShortGains
<1>4. /\ q.unrealized = gain + loss /\ q.fills = p.fills
      /\ q.position = p.position /\ q.realized = p.realized
      /\ q.long_lots = p.long_lots /\ q.short_lots = p.short_lots
  BY Zenon, <1>1, <1>3 DEF SymbolState
<1>5. q \in SymbolState
  <2>1. gain + loss \in Int
    OBVIOUS
  <2> QED
    BY <1>1, <1>3, <2>1, Zenon DEF SymbolState
<1>6. Cash(q) = Cash(p)
  BY <1>4, Zenon DEF Cash
<1>7. PortfolioOK(q)
  BY <1>1, <1>4, <1>5, <1>6, Zenon DEF PortfolioOK
<1>8. q.realized + q.unrealized = Cash(q) + q.position * mark
  <2>1. PICK l \in Int, s \in Int, a \in Int, b \in Int, cash \in Int :
          /\ l = Size(p.long_lots) /\ s = Size(p.short_lots)
          /\ a = Cost(p.long_lots) /\ b = Cost(p.short_lots)
          /\ cash = Cash(p)
    BY <1>1, StateNumbers, Zenon
  <2>2. PICK x \in Int, y \in Int : x = mark * l /\ y = mark * s
    OBVIOUS
  <2>3. gain = x - a /\ loss = b - y
    BY <1>2, <2>1, <2>2, Zenon DEF Value
  <2>4. q.realized = cash + a - b /\ q.unrealized = gain + loss
        /\ q.position = l - s /\ Cash(q) = cash
    BY <1>1, <1>4, <1>6, <2>1, Zenon
  <2>5. (l - s) * mark = x - y
    BY <2>2
  <2>6. (cash + a - b) + (gain + loss) = cash + (x - y)
    BY <2>3
  <2> QED
    BY <2>4, <2>5, <2>6, Zenon
<1> QED
  BY Zenon, <1>4, <1>7, <1>8

------------------------------------------------------------------------------
\* The total over all symbols.

Total(f) == FoldFunction(+, 0, f)

\* The element that the fold takes first.
First(T) == CHOOSE x \in T : TRUE

\* h adds up f over the sets of D, as the function inside the fold does.
FoldsUp(h, f, D) ==
    h = [T \in D |-> IF T = {} THEN 0
                     ELSE f[First(T)] + h[T \ {First(T)}]]

\* The fold over a function's domain is such an h.
LEMMA TotalIs ==
    ASSUME NEW f
    PROVE  Total(f) = (CHOOSE h : FoldsUp(h, f, SUBSET DOMAIN f))[DOMAIN f]
  BY Zenon DEF Total, FoldFunction, FoldFunctionOnSet, MapThenFoldSet, FoldsUp, First

\* The subsets of S with at most n elements.
Small(S, n) == {T \in SUBSET S : Cardinality(T) <= n}

\* The first element of a set leaves a smaller set.
LEMMA FirstLeaves ==
    ASSUME NEW S, IsFiniteSet(S), NEW T \in SUBSET S, T # {}
    PROVE  /\ First(T) \in T /\ T \ {First(T)} \in SUBSET S
           /\ Cardinality(T) \in Nat
           /\ Cardinality(T \ {First(T)}) = Cardinality(T) - 1
<1>1. First(T) \in T
  BY Zenon DEF First
<1>2. IsFiniteSet(T)
  BY FS_Subset, Zenon
<1> QED
  BY Zenon, <1>1, <1>2, FS_RemoveElement, FS_CardinalityType

\* A finite set can be folded.
LEMMA FoldExists ==
    ASSUME NEW S, IsFiniteSet(S), NEW f
    PROVE  \E h : FoldsUp(h, f, SUBSET S)
<1> DEFINE P == {n \in Nat : \E h : FoldsUp(h, f, Small(S, n))}
<1>1. 0 \in P
  <2>1. \A T \in Small(S, 0) : T = {}
    <3> SUFFICES ASSUME NEW T \in Small(S, 0) PROVE T = {}
      BY Zenon
    <3>1. T \in SUBSET S /\ Cardinality(T) <= 0
      BY Zenon DEF Small
    <3>2. IsFiniteSet(T)
      BY <3>1, FS_Subset, Zenon
    <3> QED
      BY <3>1, <3>2, FS_EmptySet, FS_CardinalityType
  <2>2. FoldsUp([T \in Small(S, 0) |-> 0], f, Small(S, 0))
    BY Zenon, <2>1 DEF FoldsUp
  <2> QED
    BY Zenon, <2>2
<1>2. ASSUME NEW n \in Nat, n \in P PROVE n + 1 \in P
  <2>1. PICK h : FoldsUp(h, f, Small(S, n))
    BY Zenon, <1>2
  <2> DEFINE k == [T \in Small(S, n + 1) |->
                     IF T = {} THEN 0 ELSE f[First(T)] + h[T \ {First(T)}]]
  <2>2. ASSUME NEW T \in Small(S, n + 1), T # {}
        PROVE  k[T \ {First(T)}] = h[T \ {First(T)}]
    <3>1. PICK U : U = T \ {First(T)}
      BY Zenon
    <3>2. U \in Small(S, n) /\ U \in Small(S, n + 1)
      <4>1. T \in SUBSET S /\ Cardinality(T) <= n + 1
        BY Zenon DEF Small
      <4>2. U \in SUBSET S /\ Cardinality(U) = Cardinality(T) - 1
            /\ Cardinality(T) \in Nat
        BY <2>2, <3>1, <4>1, FirstLeaves, Zenon
      <4> QED
        BY <4>1, <4>2 DEF Small
    <3>3. h[U] = IF U = {} THEN 0 ELSE f[First(U)] + h[U \ {First(U)}]
      BY <2>1, <3>2, Zenon DEF FoldsUp
    <3>4. k[U] = IF U = {} THEN 0 ELSE f[First(U)] + h[U \ {First(U)}]
      BY <3>2, Zenon
    <3> QED
      BY <3>1, <3>3, <3>4, Zenon
  <2>3. k = [T \in Small(S, n + 1) |->
               IF T = {} THEN 0 ELSE f[First(T)] + k[T \ {First(T)}]]
    <3>1. \A T \in Small(S, n + 1) :
            (IF T = {} THEN 0 ELSE f[First(T)] + h[T \ {First(T)}])
              = (IF T = {} THEN 0 ELSE f[First(T)] + k[T \ {First(T)}])
      <4> HIDE DEF k
      <4> QED
        BY <2>2, Zenon
    <3> QED
      BY <3>1, Zenon
  <2>4. FoldsUp(k, f, Small(S, n + 1))
    BY <2>3, Zenon DEF FoldsUp
  <2> QED
    BY <2>4
<1>3. Cardinality(S) \in Nat
  BY FS_CardinalityType, Zenon
<1>4. \A n \in 0 .. Cardinality(S) : n \in P
  <2> HIDE DEF P
  <2> QED
    BY <1>1, <1>2, <1>3, Induction, Zenon
<1>5. Small(S, Cardinality(S)) = SUBSET S
  <2>1. \A T \in SUBSET S : Cardinality(T) <= Cardinality(S)
    BY FS_Subset, Zenon
  <2> QED
    BY <2>1, Zenon DEF Small
<1>6. Cardinality(S) \in P
  <2> HIDE DEF P
  <2> QED
    BY <1>3, <1>4
<1> QED
  BY <1>5, <1>6, Zenon

\* Induction over the subsets of a finite set, along the fold.
LEMMA SetInduction ==
    ASSUME NEW S, IsFiniteSet(S), NEW P, {} \in P,
           \A T \in SUBSET S : T # {} /\ T \ {First(T)} \in P => T \in P
    PROVE  \A T \in SUBSET S : T \in P
<1> DEFINE Q == {n \in Nat : Small(S, n) \subseteq P}
<1>1. ASSUME NEW n \in Nat, NEW T \in Small(S, n), T # {}
      PROVE  n # 0 /\ T \in SUBSET S /\ T \ {First(T)} \in Small(S, n - 1)
  <2>1. T \in SUBSET S /\ Cardinality(T) <= n
    BY Zenon DEF Small
  <2>2. /\ T \ {First(T)} \in SUBSET S
        /\ Cardinality(T) \in Nat /\ Cardinality(T \ {First(T)}) \in Nat
        /\ Cardinality(T \ {First(T)}) = Cardinality(T) - 1
    <3>1. /\ T \ {First(T)} \in SUBSET S /\ Cardinality(T) \in Nat
          /\ Cardinality(T \ {First(T)}) = Cardinality(T) - 1
      BY <1>1, <2>1, FirstLeaves, Zenon
    <3>2. IsFiniteSet(T \ {First(T)})
      BY <3>1, FS_Subset, Zenon
    <3>3. Cardinality(T \ {First(T)}) \in Nat
      BY <3>2, FS_CardinalityType, Zenon
    <3> QED
      BY <3>1, <3>3, Zenon
  <2> QED
    BY <2>1, <2>2 DEF Small
<1>2. 0 \in Q
  BY <1>1, Zenon
<1>3. ASSUME NEW n \in Nat, n \in Q PROVE n + 1 \in Q
  <2>1. ASSUME NEW T \in Small(S, n + 1), T # {} PROVE T \in P
    <3>1. T \in SUBSET S /\ T \ {First(T)} \in Small(S, (n + 1) - 1)
          /\ (n + 1) - 1 = n
      BY <1>1, <2>1
    <3>2. T \ {First(T)} \in P
      BY <1>3, <3>1, Zenon
    <3> QED
      BY <2>1, <3>1, <3>2, Zenon
  <2>2. n + 1 \in Nat
    OBVIOUS
  <2> QED
    BY <2>1, <2>2, Zenon
<1>4. Cardinality(S) \in Nat
  BY FS_CardinalityType, Zenon
<1>5. \A n \in 0 .. Cardinality(S) : n \in Q
  <2> HIDE DEF Q
  <2> QED
    BY <1>2, <1>3, <1>4, Induction, Zenon
<1>6. Cardinality(S) \in Q
  <2> HIDE DEF Q
  <2> QED
    BY <1>4, <1>5
<1>7. \A T \in SUBSET S : T \in Small(S, Cardinality(S))
  BY FS_Subset, Zenon DEF Small
<1> QED
  BY <1>6, <1>7, Zenon

\* h holds the totals of f over the subsets of S.
Totals(h, f, S) ==
    /\ h \in [SUBSET S -> Int] /\ h[{}] = 0
    /\ \A T \in SUBSET S :
          T # {} => h[T] = f[First(T)] + h[T \ {First(T)}]

\* The total is the last of the totals over the subsets.
LEMMA TotalUnfolds ==
    ASSUME NEW S, IsFiniteSet(S), NEW f \in [S -> Int]
    PROVE  \E h : Totals(h, f, S) /\ Total(f) = h[S]
<1>1. PICK h : h = CHOOSE k : FoldsUp(k, f, SUBSET S)
  BY Zenon
<1>2. FoldsUp(h, f, SUBSET S)
  BY <1>1, FoldExists, Zenon
<1>3. Total(f) = h[S]
  BY <1>1, TotalIs, Zenon
<1>4. h[{}] = 0
  BY <1>2, Zenon DEF FoldsUp
<1>5. ASSUME NEW T \in SUBSET S, T # {}
      PROVE  h[T] = f[First(T)] + h[T \ {First(T)}]
  BY <1>2, <1>5, Zenon DEF FoldsUp
<1>6. \A T \in SUBSET S : h[T] \in Int
  <2> DEFINE P == {T \in SUBSET S : h[T] \in Int}
  <2>1. {} \in P
    BY <1>4
  <2>2. ASSUME NEW T \in SUBSET S, T # {}, T \ {First(T)} \in P
        PROVE  T \in P
    <3>1. f[First(T)] \in Int
      BY <2>2, FirstLeaves, Zenon
    <3>2. h[T \ {First(T)}] \in Int
      BY Zenon, <2>2
    <3>3. h[T] = f[First(T)] + h[T \ {First(T)}]
      BY <1>5, <2>2, Zenon
    <3> QED
      BY <3>1, <3>2, <3>3
  <2>3. \A T \in SUBSET S : T \in P
    <3> HIDE DEF P
    <3> QED
      BY <2>1, <2>2, SetInduction, Zenon
  <2> QED
    BY <2>3, Zenon
<1>7. h \in [SUBSET S -> Int]
  BY <1>2, <1>6, Zenon DEF FoldsUp
<1> QED
  BY <1>3, <1>4, <1>5, <1>7, Zenon DEF Totals

\* Nothing anywhere adds up to 0 ...
LEMMA TotalZero ==
    ASSUME NEW S, IsFiniteSet(S), NEW f \in [S -> Int], \A x \in S : f[x] = 0
    PROVE  Total(f) = 0
<1>1. PICK h : Totals(h, f, S) /\ Total(f) = h[S]
  BY TotalUnfolds, Zenon
<1> DEFINE P == {T \in SUBSET S : h[T] = 0}
<1>2. {} \in P
  BY <1>1, Zenon DEF Totals
<1>3. ASSUME NEW T \in SUBSET S, T # {}, T \ {First(T)} \in P
      PROVE  T \in P
  <2>1. f[First(T)] = 0
    BY <1>3, FirstLeaves, Zenon
  <2>2. h[T] = f[First(T)] + h[T \ {First(T)}] /\ h[T \ {First(T)}] = 0
    BY <1>1, <1>3, Zenon DEF Totals
  <2> QED
    BY <2>1, <2>2
<1>4. \A T \in SUBSET S : T \in P
  <2> HIDE DEF P
  <2> QED
    BY <1>2, <1>3, SetInduction, Zenon
<1> QED
  BY <1>1, <1>4, Zenon

\* ... and the total moves with each of its parts.
LEMMA TotalChanges ==
    ASSUME NEW S, IsFiniteSet(S), NEW f \in [S -> Int], NEW g \in [S -> Int],
           NEW s \in S, \A x \in S : x # s => g[x] = f[x]
    PROVE  /\ Total(g) = Total(f) + (g[s] - f[s])
           /\ Total(f) \in Int /\ Total(g) \in Int
<1>1. PICK h : Totals(h, f, S) /\ Total(f) = h[S]
  BY TotalUnfolds, Zenon
<1>2. PICK k : Totals(k, g, S) /\ Total(g) = k[S]
  BY TotalUnfolds, Zenon
<1>3. PICK d \in Int : d = g[s] - f[s]
  OBVIOUS
<1> DEFINE P == {T \in SUBSET S : k[T] = h[T] + IF s \in T THEN d ELSE 0}
<1>4. {} \in P
  BY <1>1, <1>2 DEF Totals
<1>5. ASSUME NEW T \in SUBSET S, T # {}, T \ {First(T)} \in P
      PROVE  T \in P
  <2>1. PICK x \in S : x = First(T) /\ x \in T
    BY <1>5, FirstLeaves, Zenon
  <2>2. PICK U : U = T \ {x}
    BY Zenon
  <2>3. U \in SUBSET S /\ U \in P
    BY <1>5, <2>1, <2>2, Zenon
  <2>4. h[T] = f[x] + h[U] /\ k[T] = g[x] + k[U]
        /\ h[U] \in Int /\ k[U] \in Int
    BY <1>1, <1>2, <1>5, <2>1, <2>2, <2>3, Zenon DEF Totals
  <2>5. k[U] = h[U] + IF s \in U THEN d ELSE 0
    BY Zenon, <2>3
  <2>6. f[x] \in Int /\ g[x] \in Int
    BY Zenon
  <2>7. CASE x = s
    <3>1. s \in T /\ s \notin U
      BY Zenon, <2>1, <2>2, <2>7
    <3>2. k[T] = h[T] + d
      BY <1>3, <2>4, <2>5, <2>6, <2>7, <3>1
    <3> QED
      BY Zenon, <3>1, <3>2
  <2>8. CASE x # s
    <3>1. (s \in T) <=> (s \in U)
      BY Zenon, <2>2, <2>8
    <3>2. g[x] = f[x]
      BY Zenon, <2>8
    <3>3. k[T] = h[T] + IF s \in T THEN d ELSE 0
      BY <2>4, <2>5, <2>6, <3>1, <3>2
    <3> QED
      BY Zenon, <3>3
  <2> QED
    BY Zenon, <2>7, <2>8
<1>6. \A T \in SUBSET S : T \in P
  <2> HIDE DEF P
  <2> QED
    BY <1>4, <1>5, SetInduction, Zenon
<1>7. k[S] = h[S] + d
  BY Zenon, <1>6
<1>8. h[S] \in Int /\ k[S] \in Int
  <2>1. S \in SUBSET S
    BY Zenon
  <2> QED
    BY <1>1, <1>2, <2>1, Zenon DEF Totals
<1> QED
  BY <1>1, <1>2, <1>3, <1>7, <1>8, Zenon

------------------------------------------------------------------------------
\* The order manager: what a step may do to the state m.

\* The history h explains the state st.
Explained(h, st) ==
    /\ h \in Seq(OrderState) /\ Len(h) > 0
    /\ h[1] = "New" /\ h[Len(h)] = st
    /\ \A i \in 1 .. Len(h) - 1 : IsValid(h[i], h[i + 1])

OmsState == [orders : Seq(Order), journal : Seq(Seq(OrderState)),
             portfolio : [Symbol -> SymbolState], total_volume : Nat]

OmsRecord(orders, journal, portfolio, total_volume) ==
    [orders |-> orders, journal |-> journal, portfolio |-> portfolio,
     total_volume |-> total_volume]

\* What a portfolio recorded of each symbol, and what the orders count.
Booked(folio) == [s \in Symbol |-> Size(folio[s].fills)]
Filled(orders) == [id \in 1 .. Len(orders) |-> orders[id].filled_quantity]

\* The accounts of a portfolio agree, and volume is all that it recorded.
Books(folio, volume) ==
    /\ folio \in [Symbol -> SymbolState]
    /\ \A s \in Symbol : PortfolioOK(folio[s])
    /\ volume \in Nat /\ volume = Total(Booked(folio))

\* The accounts that every step of the order manager keeps.
Sound(m) ==
    /\ m \in OmsState /\ Len(m.journal) = Len(m.orders)
    /\ \A id \in 1 .. Len(m.orders) :
          Explained(m.journal[id], m.orders[id].state)
    /\ Books(m.portfolio, m.total_volume)
    /\ m.total_volume <= Sum(Filled(m.orders))

\* A step from m to n: only order id moved, by qty, and an order that was done
\* left the portfolio alone.
Moves(m, n, id, qty) ==
    /\ Sound(n) /\ Len(n.orders) = Len(m.orders)
    /\ \A j \in 1 .. Len(m.orders) : j # id => n.orders[j] = m.orders[j]
    /\ n.orders[id].quantity = m.orders[id].quantity
    /\ n.orders[id].filled_quantity = m.orders[id].filled_quantity + qty
    /\ IsTerminal(m.orders[id]) =>
          n.portfolio = m.portfolio /\ IsTerminal(n.orders[id])

\* A legal transition extends the history (OrderJournal::record).
LEMMA HistoryGrows ==
    ASSUME NEW h, NEW st, Explained(h, st), NEW target \in OrderState,
           IsValid(st, target), NEW k, k = Append(h, target)
    PROVE  Explained(k, target)
<1>1. /\ h \in Seq(OrderState) /\ Len(h) > 0 /\ h[1] = "New"
      /\ h[Len(h)] = st
      /\ \A i \in 1 .. Len(h) - 1 : IsValid(h[i], h[i + 1])
  BY Zenon DEF Explained
<1>2. /\ k \in Seq(OrderState) /\ Len(k) = Len(h) + 1 /\ k[Len(k)] = target
      /\ \A i \in 1 .. Len(h) : k[i] = h[i]
      /\ Len(h) \in Nat
  BY <1>1
<1>3. ASSUME NEW i \in 1 .. Len(k) - 1 PROVE IsValid(k[i], k[i + 1])
  <2>1. CASE i = Len(h)
    <3>1. k[i] = st /\ k[i + 1] = target
      BY <1>1, <1>2, <2>1
    <3> QED
      BY <3>1, Zenon
  <2>2. CASE i # Len(h)
    <3>1. i \in 1 .. Len(h) - 1 /\ k[i] = h[i] /\ k[i + 1] = h[i + 1]
      BY <1>2, <2>2
    <3> QED
      BY <1>1, <3>1, Zenon
  <2> QED
    BY Zenon, <2>1, <2>2
<1>4. Len(k) > 0 /\ k[1] = "New"
  BY <1>1, <1>2
<1> QED
  BY <1>2, <1>3, <1>4, Zenon DEF Explained

\* The fields of the state.
LEMMA StateType ==
    ASSUME NEW m \in OmsState
    PROVE  /\ m.orders \in Seq(Order) /\ m.journal \in Seq(Seq(OrderState))
           /\ m.portfolio \in [Symbol -> SymbolState]
           /\ m.total_volume \in Nat
           /\ Len(m.orders) \in Nat
<1>1. /\ m.orders \in Seq(Order) /\ m.journal \in Seq(Seq(OrderState))
      /\ m.portfolio \in [Symbol -> SymbolState]
      /\ m.total_volume \in Nat
  BY Zenon DEF OmsState
<1> QED
  BY <1>1

\* The fields of an order.
LEMMA OrderType ==
    ASSUME NEW o \in Order
    PROVE  /\ o.symbol \in Symbol /\ o.side \in Side /\ o.price \in Price
           /\ o.quantity \in Nat \ {0} /\ o.filled_quantity \in Nat
           /\ o.state \in OrderState
           /\ o.quantity \in Quantity \ {0}
  BY OmsAssumption, Zenon DEF Order

\* What the orders count are numbers.
LEMMA FilledNumbers ==
    ASSUME NEW orders \in Seq(Order)
    PROVE  /\ Len(orders) \in Nat
           /\ Len(Filled(orders)) = Len(orders) /\ Numbers(Filled(orders))
           /\ Sum(Filled(orders)) \in Int
<1>1. Len(orders) \in Nat /\ Len(Filled(orders)) = Len(orders)
  BY DEF Filled
<1>2. \A i \in 1 .. Len(orders) : Filled(orders)[i] \in Int
  <2> TAKE i \in 1 .. Len(orders)
  <2>1. orders[i] \in Order
    OBVIOUS
  <2>2. orders[i].filled_quantity \in Nat
    BY Zenon, <2>1, OrderType
  <2> QED
    BY <2>2 DEF Filled
<1>3. Numbers(Filled(orders))
  BY <1>1, <1>2, Zenon DEF Numbers
<1> QED
  BY <1>1, <1>3, SumType, Zenon

\* An order that fills by qty adds qty to what the orders count.
LEMMA FilledChanges ==
    ASSUME NEW orders \in Seq(Order), NEW id \in 1 .. Len(orders),
           NEW o \in Order, NEW qty \in Nat,
           o.filled_quantity = orders[id].filled_quantity + qty,
           NEW g, g = [orders EXCEPT ![id] = o]
    PROVE  Sum(Filled(g)) = Sum(Filled(orders)) + qty
<1>1. /\ g \in Seq(Order) /\ Len(g) = Len(orders) /\ g[id] = o
      /\ \A j \in 1 .. Len(orders) : j # id => g[j] = orders[j]
  OBVIOUS
<1>2. PICK e : e = Filled(orders)
  BY Zenon
<1>3. PICK f : f = Filled(g)
  BY Zenon
<1>4. /\ Len(orders) \in Nat /\ Len(e) = Len(orders) /\ Numbers(e)
      /\ Len(f) = Len(orders) /\ Numbers(f) /\ Sum(e) \in Int
  BY <1>1, <1>2, <1>3, FilledNumbers, Zenon
<1>5. ASSUME NEW j \in 1 .. Len(orders), j # id PROVE f[j] = e[j]
  <2>1. g[j] = orders[j] /\ j \in 1 .. Len(g)
    BY <1>1, <1>5, Zenon
  <2> QED
    BY <1>2, <1>3, <2>1 DEF Filled
<1>6. f[id] = e[id] + qty /\ e[id] \in Int /\ f[id] \in Int
  <2>1. f[id] = o.filled_quantity /\ e[id] = orders[id].filled_quantity
    BY <1>1, <1>2, <1>3, Zenon DEF Filled
  <2>2. orders[id] \in Order
    OBVIOUS
  <2>3. orders[id].filled_quantity \in Nat
    BY Zenon, <2>2, OrderType
  <2> QED
    BY <2>1, <2>3
<1>7. Sum(f) = Sum(e) + f[id] - e[id]
  BY <1>4, <1>5, <1>6, SumChanges, Zenon
<1>8. PICK x \in Int, y \in Int : x = Sum(e) /\ y = e[id]
  BY <1>4, <1>6, Zenon
<1>9. x + (y + qty) - y = x + qty
  OBVIOUS
<1>10. Sum(f) = x + (y + qty) - y
  BY <1>6, <1>7, <1>8, Zenon
<1> QED
  BY <1>2, <1>3, <1>8, <1>9, <1>10, Zenon

\* The books stay right when one symbol changes and its fills grow by qty.
LEMMA BooksChange ==
    ASSUME NEW folio, NEW volume, Books(folio, volume), NEW s \in Symbol,
           NEW q, PortfolioOK(q), NEW qty \in Nat,
           Size(q.fills) = Size(folio[s].fills) + qty,
           NEW g, g = [folio EXCEPT ![s] = q]
    PROVE  Books(g, volume + qty)
<1>1. /\ folio \in [Symbol -> SymbolState] /\ volume \in Nat
      /\ \A x \in Symbol : PortfolioOK(folio[x])
      /\ volume = Total(Booked(folio))
  BY Zenon DEF Books
<1>2. q \in SymbolState
  BY Zenon DEF PortfolioOK
<1>3. g \in [Symbol -> SymbolState]
      /\ g[s] = q /\ \A x \in Symbol : x # s => g[x] = folio[x]
  BY <1>1, <1>2, Zenon
<1>4. \A x \in Symbol : PortfolioOK(g[x])
  BY <1>1, <1>3, Zenon
<1>5. PICK e : e = Booked(folio)
  BY Zenon
<1>6. PICK f : f = Booked(g)
  BY Zenon
<1>7. ASSUME NEW x \in Symbol
      PROVE  Size(folio[x].fills) \in Int /\ Size(g[x].fills) \in Int
  <2>1. folio[x] \in SymbolState /\ g[x] \in SymbolState
    BY <1>1, <1>3, Zenon
  <2>2. folio[x].fills \in Seq(Fill) /\ g[x].fills \in Seq(Fill)
    BY <2>1, StateNumbers, Zenon
  <2> QED
    BY <2>2, FillNumbers, Zenon
<1>8. e \in [Symbol -> Int] /\ f \in [Symbol -> Int]
  BY <1>5, <1>6, <1>7, Zenon DEF Booked
<1>9. \A x \in Symbol : x # s => f[x] = e[x]
  BY <1>3, <1>5, <1>6, Zenon DEF Booked
<1>10. Total(f) = Total(e) + (f[s] - e[s]) /\ Total(e) \in Int
  <2>1. IsFiniteSet(Symbol)
    BY Zenon, OmsAssumption
  <2> QED
    BY <1>8, <1>9, <2>1, TotalChanges, ZenonT(60)
<1>11. f[s] = e[s] + qty
  BY <1>3, <1>5, <1>6, Zenon DEF Booked
<1>12. Total(f) = volume + qty
  <2>1. PICK x \in Int, y \in Int : x = e[s] /\ y = f[s]
    BY <1>8, Zenon
  <2>2. y = x + qty /\ Total(f) = volume + (y - x)
    BY <1>1, <1>5, <1>10, <1>11, <2>1, Zenon
  <2> QED
    BY <1>1, <2>2
<1>13. volume + qty \in Nat
  BY <1>1
<1> QED
  BY <1>3, <1>4, <1>6, <1>12, <1>13, Zenon DEF Books

\* Portfolio::on_fill for one symbol.
LEMMA BooksFill ==
    ASSUME NEW folio, NEW volume, Books(folio, volume), NEW s \in Symbol,
           NEW side \in Side, NEW px \in Price, NEW qty \in Nat,
           NEW g, g = [folio EXCEPT ![s] = OnFill(@, side, px, qty)]
    PROVE  Books(g, volume + qty)
<1>1. PICK q : q = OnFill(folio[s], side, px, qty)
  BY Zenon
<1>2. PortfolioOK(folio[s])
  BY Zenon DEF Books
<1>3. PortfolioOK(q) /\ Size(q.fills) = Size(folio[s].fills) + qty
  BY <1>1, <1>2, FillKeeps
<1>4. g = [folio EXCEPT ![s] = q]
  BY <1>1, Zenon
<1> QED
  BY <1>3, <1>4, BooksChange, Zenon

\* Order id becomes o, with history h, and the books follow.
LEMMA StepKeeps ==
    ASSUME NEW m, Sound(m), NEW id \in 1 .. Len(m.orders),
           NEW o \in Order, NEW qty \in Nat,
           o.quantity = m.orders[id].quantity,
           o.filled_quantity = m.orders[id].filled_quantity + qty,
           NEW h, Explained(h, o.state),
           NEW folio, NEW volume, Books(folio, volume),
           volume = m.total_volume \/ volume = m.total_volume + qty,
           IsTerminal(m.orders[id]) => folio = m.portfolio /\ IsTerminal(o),
           NEW n, n = OmsRecord([m.orders EXCEPT ![id] = o],
                                [m.journal EXCEPT ![id] = h], folio, volume)
    PROVE  Moves(m, n, id, qty)
<1>1. /\ m \in OmsState /\ Len(m.journal) = Len(m.orders)
      /\ \A j \in 1 .. Len(m.orders) :
            Explained(m.journal[j], m.orders[j].state)
      /\ m.total_volume <= Sum(Filled(m.orders))
  BY Zenon DEF Sound
<1>2. /\ m.orders \in Seq(Order) /\ m.journal \in Seq(Seq(OrderState))
      /\ m.total_volume \in Nat /\ Len(m.orders) \in Nat
  BY <1>1, StateType, Zenon
<1>3. /\ n.orders = [m.orders EXCEPT ![id] = o]
      /\ n.journal = [m.journal EXCEPT ![id] = h]
      /\ n.portfolio = folio /\ n.total_volume = volume
  BY Zenon DEF OmsRecord
<1>4. /\ n.orders \in Seq(Order) /\ Len(n.orders) = Len(m.orders)
      /\ n.orders[id] = o
      /\ \A j \in 1 .. Len(m.orders) : j # id => n.orders[j] = m.orders[j]
      /\ Sum(Filled(n.orders)) = Sum(Filled(m.orders)) + qty
  <2>1. PICK f : f = m.orders
    BY Zenon
  <2>2. PICK g : g = n.orders
    BY Zenon
  <2>3. /\ f \in Seq(Order) /\ id \in 1 .. Len(f) /\ g = [f EXCEPT ![id] = o]
        /\ o.filled_quantity = f[id].filled_quantity + qty
    BY <1>2, <1>3, <2>1, <2>2, Zenon
  <2>4. /\ g \in Seq(Order) /\ Len(g) = Len(f) /\ g[id] = o
        /\ \A j \in 1 .. Len(f) : j # id => g[j] = f[j]
    BY <2>3
  <2>5. Sum(Filled(g)) = Sum(Filled(f)) + qty
    BY <2>3, FilledChanges, Zenon
  <2> QED
    BY <2>1, <2>2, <2>4, <2>5, Zenon
<1>5. /\ n.journal \in Seq(Seq(OrderState)) /\ Len(n.journal) = Len(m.journal)
      /\ n.journal[id] = h
      /\ \A j \in 1 .. Len(m.journal) : j # id => n.journal[j] = m.journal[j]
  <2>1. h \in Seq(OrderState) /\ id \in 1 .. Len(m.journal)
    BY <1>1, Zenon DEF Explained
  <2>2. PICK f : f = m.journal
    BY Zenon
  <2>3. PICK g : g = n.journal
    BY Zenon
  <2>4. f \in Seq(Seq(OrderState)) /\ id \in 1 .. Len(f)
        /\ g = [f EXCEPT ![id] = h]
    BY <1>2, <1>3, <2>1, <2>2, <2>3, Zenon
  <2>5. /\ g \in Seq(Seq(OrderState)) /\ Len(g) = Len(f) /\ g[id] = h
        /\ \A j \in 1 .. Len(f) : j # id => g[j] = f[j]
    BY <2>1, <2>4
  <2> QED
    BY <2>2, <2>3, <2>5, Zenon
<1>6. folio \in [Symbol -> SymbolState] /\ volume \in Nat
  BY Zenon DEF Books
<1>7. n \in OmsState
  BY <1>3, <1>4, <1>5, <1>6, Zenon DEF OmsState, OmsRecord
<1>8. ASSUME NEW j \in 1 .. Len(m.orders)
      PROVE  Explained(n.journal[j], n.orders[j].state)
  <2>1. CASE j = id
    BY <1>4, <1>5, <2>1, Zenon
  <2>2. CASE j # id
    <3>1. n.journal[j] = m.journal[j] /\ n.orders[j] = m.orders[j]
      BY <1>1, <1>4, <1>5, <2>2, Zenon
    <3> QED
      BY <1>1, <3>1, Zenon
  <2> QED
    BY Zenon, <2>1, <2>2
<1>9. volume <= Sum(Filled(n.orders))
  <2>1. Sum(Filled(m.orders)) \in Int
    BY <1>2, FilledNumbers, Zenon
  <2> QED
    BY <1>1, <1>2, <1>4, <2>1
<1>10. Sound(n)
  <2>1. Len(n.journal) = Len(n.orders)
    BY <1>1, <1>4, <1>5, Zenon
  <2>2. \A j \in 1 .. Len(n.orders) :
          Explained(n.journal[j], n.orders[j].state)
    BY <1>4, <1>8, Zenon
  <2> QED
    BY <1>3, <1>7, <1>9, <2>1, <2>2, Zenon DEF Sound
<1> QED
  BY <1>3, <1>4, <1>10, Zenon DEF Moves

\* No transition leads out of a terminal state (TRANSITION_TABLE).
LEMMA TerminalIsFinal ==
    ASSUME NEW o, IsTerminal(o), NEW target
    PROVE  ~IsValid(o.state, target)
  BY Zenon DEF IsTerminal, IsValid, TRANSITION_TABLE

\* What Sound says of one order.
LEMMA OneOrder ==
    ASSUME NEW m, Sound(m), NEW id \in 1 .. Len(m.orders)
    PROVE  /\ m \in OmsState /\ m.orders[id] \in Order
           /\ m.orders[id].quantity \in Nat \ {0}
           /\ m.orders[id].filled_quantity \in Nat
           /\ Explained(m.journal[id], m.orders[id].state)
           /\ Books(m.portfolio, m.total_volume)
<1>1. /\ m \in OmsState /\ Explained(m.journal[id], m.orders[id].state)
      /\ Books(m.portfolio, m.total_volume)
  BY Zenon DEF Sound
<1>2. m.orders \in Seq(Order)
  BY <1>1, StateType, Zenon
<1>3. m.orders[id] \in Order
  BY <1>2
<1> QED
  BY <1>1, <1>3, OrderType, Zenon

\* Nothing happens: a move by 0.
LEMMA MovesNot ==
    ASSUME NEW m, Sound(m), NEW id \in 1 .. Len(m.orders)
    PROVE  Moves(m, m, id, 0)
<1>1. m.orders[id].filled_quantity \in Nat
  BY OneOrder, Zenon
<1>2. m.orders[id].filled_quantity = m.orders[id].filled_quantity + 0
  BY <1>1
<1> QED
  BY <1>2, Zenon DEF Moves

\* Two moves of the same order add up.
LEMMA MovesOn ==
    ASSUME NEW a, NEW b, NEW c, Sound(a), NEW id \in 1 .. Len(a.orders),
           NEW x \in Nat, NEW y \in Nat, Moves(a, b, id, x), Moves(b, c, id, y)
    PROVE  Moves(a, c, id, x + y)
<1>1. PICK f \in Nat : f = a.orders[id].filled_quantity
  BY OneOrder, Zenon
<1>2. (f + x) + y = f + (x + y)
  OBVIOUS
<1>3. c.orders[id].filled_quantity = f + (x + y)
  BY <1>1, <1>2, Zenon DEF Moves
<1>4. \A j \in 1 .. Len(a.orders) : j # id => c.orders[j] = a.orders[j]
  BY Zenon DEF Moves
<1>5. /\ Sound(c) /\ Len(c.orders) = Len(a.orders)
      /\ c.orders[id].quantity = a.orders[id].quantity
      /\ IsTerminal(a.orders[id]) =>
            c.portfolio = a.portfolio /\ IsTerminal(c.orders[id])
  BY Zenon DEF Moves
<1> QED
  BY <1>1, <1>3, <1>4, <1>5, Zenon DEF Moves

\* The state after an accepted transition, field by field.
LEMMA TransitionIs ==
    ASSUME NEW m \in OmsState, NEW id, NEW target, NEW n,
           n = [m EXCEPT !.orders[id].state = target,
                         !.journal[id] = Append(@, target)]
    PROVE  n = OmsRecord([m.orders EXCEPT ![id] = [@ EXCEPT !.state = target]],
                         [m.journal EXCEPT ![id] = Append(@, target)],
                         m.portfolio, m.total_volume)
  BY Zenon DEF OmsState, OmsRecord

\* OrderManager::apply_transition.
LEMMA TransitionKeeps ==
    ASSUME NEW m, Sound(m), NEW id \in 1 .. Len(m.orders),
           NEW target \in OrderState,
           NEW n, n = ApplyTransition(m, id, target)
    PROVE  Moves(m, n, id, 0) /\ n.portfolio = m.portfolio
<1>1. CASE ~IsValid(m.orders[id].state, target)
  BY <1>1, MovesNot, Zenon DEF ApplyTransition
<1>2. CASE IsValid(m.orders[id].state, target)
  <2>1. PICK o : o = [m.orders[id] EXCEPT !.state = target]
    BY Zenon
  <2>2. PICK h : h = Append(m.journal[id], target)
    BY Zenon
  <2>3. /\ m \in OmsState /\ m.orders[id] \in Order
        /\ m.orders[id].filled_quantity \in Nat
        /\ Explained(m.journal[id], m.orders[id].state)
        /\ Books(m.portfolio, m.total_volume)
    BY OneOrder, Zenon
  <2>4. n = OmsRecord([m.orders EXCEPT ![id] = o], [m.journal EXCEPT ![id] = h],
                      m.portfolio, m.total_volume)
    BY <1>2, <2>1, <2>2, <2>3, Zenon DEF ApplyTransition, OmsState, OmsRecord
  <2>5. o \in Order
    BY <2>1, <2>3, Zenon DEF Order
  <2>6. /\ o.quantity = m.orders[id].quantity /\ o.state = target
        /\ o.filled_quantity = m.orders[id].filled_quantity
    BY Zenon, <2>1, <2>3 DEF Order
  <2>7. Explained(h, o.state)
    BY <1>2, <2>2, <2>3, <2>6, HistoryGrows, Zenon
  <2>8. ~IsTerminal(m.orders[id])
    BY <1>2, TerminalIsFinal, Zenon
  <2>9. 0 \in Nat
        /\ o.filled_quantity = m.orders[id].filled_quantity + 0
    BY <2>3, <2>6
  <2>10. Moves(m, n, id, 0)
    BY <2>3, <2>4, <2>5, <2>6, <2>7, <2>8, <2>9, StepKeeps, Zenon
  <2>11. n.portfolio = m.portfolio
    BY <2>4 DEF OmsRecord
  <2> QED
    BY Zenon, <2>10, <2>11
<1> QED
  BY Zenon, <1>1, <1>2

\* The parts of FillManager::on_fill: the quantity that the order counts, the
\* state that it would take, and the fill in the portfolio and the volume.
Counted(m, id, qty) == [m EXCEPT !.orders[id].filled_quantity = @ + qty]
Target(o) == IF o.filled_quantity >= o.quantity THEN "Filled" ELSE "PartialFill"
Paid(m, o, px, qty) ==
    [m EXCEPT !.portfolio[o.symbol] = OnFill(@, o.side, px, qty),
              !.total_volume = @ + qty]

\* FillManager::on_fill in terms of these parts.
LEMMA BookFillIs ==
    ASSUME NEW m, NEW id, NEW px, NEW qty
    PROVE  BookFill(m, id, px, qty)
             = IF ~IsValid(Counted(m, id, qty).orders[id].state,
                           Target(Counted(m, id, qty).orders[id]))
               THEN Counted(m, id, qty)
               ELSE Paid(ApplyTransition(Counted(m, id, qty), id,
                                         Target(Counted(m, id, qty).orders[id])),
                         Counted(m, id, qty).orders[id], px, qty)
  BY Zenon DEF BookFill, Counted, Target, Paid

\* Writing back what is there changes nothing.
LEMMA Unchanged ==
    ASSUME NEW X, NEW f \in Seq(X), NEW i
    PROVE  f = [f EXCEPT ![i] = f[i]]
<1>1. f \in [1 .. Len(f) -> X]
  OBVIOUS
<1> QED
  BY <1>1, Zenon

\* FillManager::on_fill, whether the transition is accepted or refused.
LEMMA BookFillKeeps ==
    ASSUME NEW m, Sound(m), NEW id \in 1 .. Len(m.orders),
           NEW px \in Price, NEW qty \in Nat,
           NEW n, n = BookFill(m, id, px, qty)
    PROVE  Moves(m, n, id, qty)
<1>1. PICK o : o = [m.orders[id] EXCEPT !.filled_quantity = @ + qty]
  BY Zenon
<1>2. PICK counted : counted = Counted(m, id, qty)
  BY Zenon
<1>3. PICK target \in {"Filled", "PartialFill"} : target = Target(o)
  BY Zenon DEF Target
<1>4. /\ m \in OmsState /\ m.orders[id] \in Order
      /\ m.orders[id].filled_quantity \in Nat
      /\ Explained(m.journal[id], m.orders[id].state)
      /\ Books(m.portfolio, m.total_volume)
  BY OneOrder, Zenon
<1>5. o \in Order
  <2>1. m.orders[id].filled_quantity + qty \in Nat
    BY <1>4
  <2> QED
    BY <1>1, <1>4, <2>1, Zenon DEF Order
<1>6. /\ o.quantity = m.orders[id].quantity /\ o.state = m.orders[id].state
      /\ o.filled_quantity = m.orders[id].filled_quantity + qty
      /\ o.symbol = m.orders[id].symbol /\ o.side = m.orders[id].side
  BY Zenon, <1>1, <1>4 DEF Order
<1>7. m.orders \in Seq(Order) /\ m.journal \in Seq(Seq(OrderState))
  BY <1>4, StateType, Zenon
<1>8. counted = OmsRecord([m.orders EXCEPT ![id] = o], m.journal,
                          m.portfolio, m.total_volume)
  BY <1>1, <1>2, <1>4, Zenon DEF OmsState, OmsRecord, Counted
<1>9. counted.orders[id] = o
  <2>1. counted.orders = [m.orders EXCEPT ![id] = o]
    BY Zenon, <1>8 DEF OmsRecord
  <2> QED
    BY <1>7, <2>1
<1>10. n = IF ~IsValid(o.state, target) THEN counted
           ELSE Paid(ApplyTransition(counted, id, target), o, px, qty)
  <2>1. PICK u : u = counted.orders[id]
    BY Zenon
  <2>2. n = IF ~IsValid(u.state, Target(u)) THEN counted
            ELSE Paid(ApplyTransition(counted, id, Target(u)), u, px, qty)
    BY <1>2, <2>1, BookFillIs, Zenon
  <2> QED
    BY <1>3, <1>9, <2>1, <2>2, Zenon
<1>11. CASE ~IsValid(o.state, target)
  <2>1. m.journal = [m.journal EXCEPT ![id] = m.journal[id]]
    BY <1>7, Unchanged, Zenon
  <2>2. n = OmsRecord([m.orders EXCEPT ![id] = o],
                      [m.journal EXCEPT ![id] = m.journal[id]],
                      m.portfolio, m.total_volume)
    BY <1>8, <1>10, <1>11, <2>1, Zenon
  <2>3. IsTerminal(m.orders[id]) => IsTerminal(o)
    BY Zenon, <1>6 DEF IsTerminal
  <2> QED
    BY <1>4, <1>5, <1>6, <2>2, <2>3, StepKeeps, Zenon
<1>12. CASE IsValid(o.state, target)
  <2>1. PICK u : u = [o EXCEPT !.state = target]
    BY Zenon
  <2>2. PICK h : h = Append(m.journal[id], target)
    BY Zenon
  <2>3. PICK folio : folio = [m.portfolio EXCEPT ![o.symbol] =
                                 OnFill(@, o.side, px, qty)]
    BY Zenon
  <2>4. ApplyTransition(counted, id, target)
          = [counted EXCEPT !.orders[id].state = target,
                            !.journal[id] = Append(@, target)]
    BY <1>9, <1>12, Zenon DEF ApplyTransition
  <2>5. n = OmsRecord([m.orders EXCEPT ![id] = u], [m.journal EXCEPT ![id] = h],
                      folio, m.total_volume + qty)
    <3>1. PICK f : f = [m.orders EXCEPT ![id] = o]
      BY Zenon
    <3>2. [f EXCEPT ![id] = [@ EXCEPT !.state = target]]
            = [m.orders EXCEPT ![id] = u]
      BY <1>7, <2>1, <3>1, Zenon
    <3>3. [counted EXCEPT !.orders[id].state = target,
                          !.journal[id] = Append(@, target)]
            = OmsRecord([f EXCEPT ![id] = [@ EXCEPT !.state = target]],
                        [m.journal EXCEPT ![id] = h],
                        m.portfolio, m.total_volume)
      <4>1. counted = OmsRecord(f, m.journal, m.portfolio, m.total_volume)
        BY <1>8, <3>1, Zenon
      <4>2. counted \in OmsState
        <5>1. f \in Seq(Order)
          BY <1>5, <1>7, <3>1
        <5>2. m.portfolio \in [Symbol -> SymbolState] /\ m.total_volume \in Nat
          BY <1>4, StateType, Zenon
        <5> QED
          BY <1>7, <4>1, <5>1, <5>2, Zenon DEF OmsState, OmsRecord
      <4>3. [counted EXCEPT !.orders[id].state = target,
                            !.journal[id] = Append(@, target)]
              = OmsRecord([counted.orders EXCEPT ![id] =
                              [@ EXCEPT !.state = target]],
                          [counted.journal EXCEPT ![id] = Append(@, target)],
                          counted.portfolio, counted.total_volume)
        BY <4>2, TransitionIs, Zenon
      <4>4. counted.orders = f /\ counted.journal = m.journal
            /\ counted.portfolio = m.portfolio
            /\ counted.total_volume = m.total_volume
        BY Zenon, <4>1 DEF OmsRecord
      <4>5. [m.journal EXCEPT ![id] = Append(@, target)]
              = [m.journal EXCEPT ![id] = h]
        BY <2>2, Zenon
      <4> QED
        BY <4>3, <4>4, <4>5, Zenon
    <3>4. n = Paid(OmsRecord([m.orders EXCEPT ![id] = u],
                             [m.journal EXCEPT ![id] = h],
                             m.portfolio, m.total_volume), o, px, qty)
      BY <1>10, <1>12, <2>4, <3>2, <3>3, Zenon
    <3> QED
      BY <2>3, <3>4, Zenon DEF OmsRecord, Paid
  <2>6. target \in OrderState
    BY Zenon DEF OrderState
  <2>7. u \in Order
    BY <1>5, <2>1, <2>6, Zenon DEF Order
  <2>8. /\ u.quantity = m.orders[id].quantity /\ u.state = target
        /\ u.filled_quantity = m.orders[id].filled_quantity + qty
    BY Zenon, <1>5, <1>6, <2>1 DEF Order
  <2>9. Explained(h, u.state)
    BY <1>4, <1>6, <1>12, <2>2, <2>6, <2>8, HistoryGrows, Zenon
  <2>10. ~IsTerminal(m.orders[id])
    BY <1>6, <1>12, TerminalIsFinal, Zenon
  <2>11. Books(folio, m.total_volume + qty)
    <3>1. o.symbol \in Symbol /\ o.side \in Side
      BY <1>5, OrderType, Zenon
    <3> QED
      BY <1>4, <2>3, <3>1, BooksFill, Zenon
  <2> QED
    BY <2>5, <2>7, <2>8, <2>9, <2>10, <2>11, StepKeeps, Zenon
<1> QED
  BY Zenon, <1>11, <1>12

\* The callback of the client.
LEMMA CallbackKeeps ==
    ASSUME NEW m, Sound(m), NEW id \in 1 .. Len(m.orders),
           NEW px \in Price, NEW qty \in Nat, NEW ack \in BOOLEAN,
           NEW n, n = Callback(m, id, px, qty, ack)
    PROVE  Moves(m, n, id, qty)
<1>1. PICK k : k = IF ack THEN ApplyTransition(m, id, "Acked") ELSE m
  BY Zenon
<1>2. Moves(m, k, id, 0)
  <2>1. "Acked" \in OrderState
    BY Zenon DEF OrderState
  <2>2. Moves(m, ApplyTransition(m, id, "Acked"), id, 0)
    BY <2>1, TransitionKeeps, Zenon
  <2> QED
    BY <1>1, <2>2, MovesNot, Zenon
<1>3. Sound(k) /\ id \in 1 .. Len(k.orders)
  BY <1>2, Zenon DEF Moves
<1>4. Moves(k, n, id, qty)
  <2>1. n = BookFill(k, id, px, qty)
    BY <1>1, Zenon DEF Callback
  <2> QED
    BY <1>3, <2>1, BookFillKeeps, Zenon
<1>5. Moves(m, n, id, 0 + qty)
  <2>1. 0 \in Nat
    BY Zenon
  <2> QED
    BY <1>2, <1>4, <2>1, MovesOn, Zenon
<1>6. 0 + qty = qty
  OBVIOUS
<1> QED
  BY <1>5, <1>6, Zenon

------------------------------------------------------------------------------
\* The exchange's loops.

\* t goes through the callbacks for the parts of a fill.
Reports(t, m, id, px, parts, ack) ==
    /\ t[0] = m
    /\ \A i \in 1 .. Len(parts) :
          t[i] = Callback(t[i - 1], id, px, parts[i], ack)

\* The callbacks exist.
LEMMA GenerateUnfolds ==
    ASSUME NEW m, NEW id, NEW px, NEW parts, Len(parts) \in Nat, NEW ack
    PROVE  \E t : /\ Reports(t, m, id, px, parts, ack)
                  /\ GenerateFills(m, id, px, parts, ack) = t[Len(parts)]
<1> DEFINE F(x, i) == Callback(x, id, px, parts[i], ack)
           G(g, n) == g = [i \in 0 .. n |-> IF i = 0 THEN m ELSE F(g[i - 1], i)]
           P == {n \in Nat : \E g : G(g, n)}
           turn == CHOOSE g : G(g, Len(parts))
<1>1. GenerateFills(m, id, px, parts, ack) = turn[Len(parts)]
  BY Zenon DEF GenerateFills
<1> HIDE DEF F
<1>2. 0 \in P
  <2> DEFINE g == [i \in 0 .. 0 |-> m]
  <2>1. G(g, 0)
    OBVIOUS
  <2> HIDE DEF g
  <2> QED
    BY <2>1, Zenon
<1>3. ASSUME NEW n \in Nat, n \in P
      PROVE  n + 1 \in P
  <2>1. PICK g : G(g, n)
    BY Zenon, <1>3
  <2> DEFINE h == [i \in 0 .. n + 1 |->
                      IF i = n + 1 THEN F(g[n], i) ELSE g[i]]
  <2>2. G(h, n + 1)
    <3>1. ASSUME NEW i \in 0 .. n + 1
          PROVE  h[i] = IF i = 0 THEN m ELSE F(h[i - 1], i)
      <4>1. CASE i = n + 1
        <5>1. h[i] = F(g[n], i) /\ h[i - 1] = g[n] /\ i # 0
          BY <4>1
        <5> QED
          BY <5>1, Zenon
      <4>2. CASE i # n + 1
        <5>1. i \in 0 .. n /\ h[i] = g[i]
          BY <4>2
        <5>2. g[i] = IF i = 0 THEN m ELSE F(g[i - 1], i)
          BY Zenon, <5>1, <2>1
        <5>3. i # 0 => h[i - 1] = g[i - 1]
          BY <5>1
        <5> HIDE DEF h
        <5> QED
          BY <5>1, <5>2, <5>3, Zenon
      <4> QED
        BY Zenon, <4>1, <4>2
    <3>2. h = [i \in 0 .. n + 1 |-> h[i]]
      BY Zenon
    <3> HIDE DEF h
    <3> QED
      BY <3>1, <3>2, Zenon
  <2>3. n + 1 \in Nat
    OBVIOUS
  <2> HIDE DEF h
  <2> QED
    BY <2>2, <2>3, Zenon
<1>4. Len(parts) \in P
  <2> HIDE DEF P
  <2>1. \A n \in 0 .. Len(parts) : n \in P
    BY <1>2, <1>3, Induction, Zenon
  <2> QED
    BY <2>1
<1>5. G(turn, Len(parts))
  BY <1>4, Zenon
<1> HIDE DEF turn
<1>6. turn[0] = m
  BY <1>5
<1>7. ASSUME NEW i \in 1 .. Len(parts)
      PROVE  turn[i] = F(turn[i - 1], i)
  <2>1. i \in 0 .. Len(parts) /\ i # 0
    OBVIOUS
  <2> QED
    BY Zenon, <1>5, <2>1
<1> QED
  BY <1>1, <1>6, <1>7, Zenon DEF Reports, F

\* A fill in parts (SimExchange::generate_fills) moves the order by their sum.
LEMMA GenerateKeeps ==
    ASSUME NEW m, Sound(m), NEW id \in 1 .. Len(m.orders), NEW px \in Price,
           NEW ack \in BOOLEAN, NEW parts, Len(parts) \in Nat,
           \A i \in 1 .. Len(parts) : parts[i] \in Nat,
           NEW n, n = GenerateFills(m, id, px, parts, ack)
    PROVE  Moves(m, n, id, Sum(parts))
<1>1. PICK t : /\ Reports(t, m, id, px, parts, ack)
               /\ n = t[Len(parts)]
  <2>1. \E t : /\ Reports(t, m, id, px, parts, ack)
               /\ GenerateFills(m, id, px, parts, ack) = t[Len(parts)]
    BY GenerateUnfolds
  <2> QED
    BY <2>1, Zenon
<1>2. Numbers(parts)
  BY DEF Numbers
<1>3. PICK s : Adds(s, parts) /\ Sum(parts) = s[Len(parts)]
  BY <1>2, SumUnfolds, Zenon
<1> DEFINE P == {i \in Nat : i <= Len(parts) =>
                               s[i] \in Nat /\ Moves(m, t[i], id, s[i])}
<1>4. 0 \in P
  <2>1. s[0] = 0 /\ t[0] = m
    BY <1>1, <1>3, Zenon DEF Adds, Reports
  <2>2. Moves(m, m, id, 0)
    BY MovesNot, Zenon
  <2> QED
    BY <2>1, <2>2
<1>5. ASSUME NEW i \in Nat, i \in P, i < Len(parts) PROVE i + 1 \in P
  <2>1. s[i] \in Nat /\ Moves(m, t[i], id, s[i])
    BY <1>5
  <2>2. PICK j \in 1 .. Len(parts) : j = i + 1 /\ j - 1 = i /\ j \in Nat
    BY <1>5
  <2>3. s[j] = s[i] + parts[j] /\ t[j] = Callback(t[i], id, px, parts[j], ack)
        /\ parts[j] \in Nat
    BY <1>1, <1>3, <2>2, Zenon DEF Adds, Reports
  <2>4. Sound(t[i]) /\ id \in 1 .. Len(t[i].orders)
    BY <2>1, Zenon DEF Moves
  <2>5. Moves(t[i], t[j], id, parts[j])
    BY <2>3, <2>4, CallbackKeeps, Zenon
  <2>6. Moves(m, t[j], id, s[i] + parts[j])
    BY <2>1, <2>3, <2>5, MovesOn, Zenon
  <2>7. s[i] + parts[j] \in Nat
    BY <2>1, <2>3
  <2> QED
    BY <2>2, <2>3, <2>6, <2>7, Zenon
<1>6. Len(parts) \in P
  <2> HIDE DEF P
  <2>1. \A i \in 0 .. Len(parts) : i \in P
    BY <1>4, <1>5, Induction, Zenon
  <2> QED
    BY <2>1
<1>7. Moves(m, t[Len(parts)], id, s[Len(parts)])
  BY <1>6
<1> QED
  BY <1>1, <1>3, <1>7, Zenon

\* What split_quantity gives: parts that add up to the whole.
LEMMA SplitType ==
    ASSUME NEW total \in Nat, NEW parts \in SplitQuantity(total)
    PROVE  /\ Len(parts) \in Nat /\ \A i \in 1 .. Len(parts) : parts[i] \in Nat
           /\ Sum(parts) = total
<1>1. PICK n \in 1 .. MaxPartialFills : parts \in [1 .. n -> 1 .. total]
  BY Zenon DEF SplitQuantity
<1>2. n \in Nat
  BY <1>1, OmsAssumption
<1>3. Len(parts) = n
  BY <1>1, <1>2
<1>4. \A i \in 1 .. Len(parts) : parts[i] \in Nat
  BY <1>1, <1>2, <1>3
<1>5. Sum(parts) = total
  BY Zenon DEF SplitQuantity
<1> QED
  BY Zenon, <1>2, <1>3, <1>4, <1>5

\* A copy of an order, as SimExchange keeps it.
Copy == [id : Nat, order : Order]

\* p is the copy of an order of m that nothing has filled yet.
Unfilled(m, p) ==
    /\ p.id \in 1 .. Len(m.orders)
    /\ p.order \in Order /\ p.order.filled_quantity = 0
    /\ p.order.quantity = m.orders[p.id].quantity
    /\ m.orders[p.id].filled_quantity = 0

\* No order is filled beyond its quantity, or before it was sent.
FillsFit(m, sent) ==
    \A id \in 1 .. Len(m.orders) :
        /\ m.orders[id].filled_quantity <= m.orders[id].quantity
        /\ id \notin sent => m.orders[id].filled_quantity = 0

\* The exchange keeps at most one copy of an order, of an unfilled one.
Queue(m, q, sent) ==
    /\ q \in Seq(Copy)
    /\ \A i \in 1 .. Len(q) : q[i].id \in sent /\ Unfilled(m, q[i])
    /\ \A i, j \in 1 .. Len(q) : i # j => q[i].id # q[j].id

\* The order manager and the exchange agree.
Agree(m, q, sent) ==
    /\ Sound(m) /\ sent \subseteq 1 .. Len(m.orders)
    /\ FillsFit(m, sent) /\ Queue(m, q, sent)

\* When every order is done, a step leaves the portfolio alone.
AllDone(m) == \A id \in 1 .. Len(m.orders) : IsTerminal(m.orders[id])
Done(m, n) == AllDone(m) => n.portfolio = m.portfolio /\ AllDone(n)

\* A move of one order respects orders that are all done.
LEMMA DoneStays ==
    ASSUME NEW m, NEW n, NEW id \in 1 .. Len(m.orders), NEW x,
           Moves(m, n, id, x)
    PROVE  Done(m, n)
<1> SUFFICES ASSUME AllDone(m) PROVE n.portfolio = m.portfolio /\ AllDone(n)
  BY Zenon DEF Done
<1>1. IsTerminal(m.orders[id])
  BY Zenon DEF AllDone
<1>2. n.portfolio = m.portfolio /\ IsTerminal(n.orders[id])
      /\ Len(n.orders) = Len(m.orders)
  BY <1>1, Zenon DEF Moves
<1>3. ASSUME NEW j \in 1 .. Len(n.orders) PROVE IsTerminal(n.orders[j])
  <2>1. j \in 1 .. Len(m.orders)
    BY <1>2, Zenon
  <2>2. CASE j = id
    BY <1>2, <2>2, Zenon
  <2>3. CASE j # id
    BY <2>1, <2>3, Zenon DEF Moves, AllDone
  <2> QED
    BY Zenon, <2>2, <2>3
<1> QED
  BY <1>2, <1>3, Zenon DEF AllDone

\* A step of another order leaves a copy right.
LEMMA OtherUnfilled ==
    ASSUME NEW m, NEW n, NEW id, NEW x, Moves(m, n, id, x),
           NEW p, Unfilled(m, p), p.id # id
    PROVE  Unfilled(n, p)
<1>1. n.orders[p.id] = m.orders[p.id] /\ Len(n.orders) = Len(m.orders)
  BY Zenon DEF Moves, Unfilled
<1> QED
  BY <1>1, Zenon DEF Unfilled

\* A step that fills order id by nothing, or fully when it has no copy left,
\* keeps the agreement.
LEMMA MoveAgrees ==
    ASSUME NEW m, NEW q, NEW sent, Agree(m, q, sent),
           NEW id \in 1 .. Len(m.orders), NEW x, NEW n, Moves(m, n, id, x),
           \/ x = 0
           \/ /\ x = m.orders[id].quantity /\ m.orders[id].filled_quantity = 0
              /\ id \in sent /\ \A i \in 1 .. Len(q) : q[i].id # id
    PROVE  Agree(n, q, sent)
<1>1. /\ Sound(m) /\ Sound(n) /\ Len(n.orders) = Len(m.orders)
      /\ n.orders[id].quantity = m.orders[id].quantity
      /\ n.orders[id].filled_quantity = m.orders[id].filled_quantity + x
      /\ \A j \in 1 .. Len(m.orders) : j # id => n.orders[j] = m.orders[j]
  BY Zenon DEF Agree, Moves
<1>2. m.orders[id].quantity \in Nat /\ m.orders[id].filled_quantity \in Nat
  BY Zenon, <1>1, OneOrder
<1>3. FillsFit(n, sent)
  <2> SUFFICES ASSUME NEW j \in 1 .. Len(m.orders)
               PROVE  /\ n.orders[j].filled_quantity <= n.orders[j].quantity
                      /\ j \notin sent => n.orders[j].filled_quantity = 0
    BY <1>1, Zenon DEF FillsFit
  <2>1. /\ m.orders[j].filled_quantity <= m.orders[j].quantity
        /\ j \notin sent => m.orders[j].filled_quantity = 0
    BY Zenon DEF Agree, FillsFit
  <2>2. CASE j # id
    BY <1>1, <2>1, <2>2, Zenon
  <2>3. CASE j = id
    <3>1. PICK f \in Nat, g \in Nat, k \in Nat :
            /\ f = m.orders[id].filled_quantity /\ k = m.orders[id].quantity
            /\ g = f + x
      BY <1>2
    <3>2. f <= k /\ (id \notin sent => f = 0)
      BY <2>1, <2>3, <3>1, Zenon
    <3>3. x = 0 \/ (x = k /\ f = 0 /\ id \in sent)
      BY <3>1, Zenon
    <3>4. g <= k /\ (id \notin sent => g = 0)
      BY <3>1, <3>2, <3>3
    <3>5. n.orders[j].filled_quantity = g /\ n.orders[j].quantity = k
      BY <1>1, <2>3, <3>1, Zenon
    <3> QED
      BY <2>3, <3>4, <3>5, Zenon
  <2> QED
    BY Zenon, <2>2, <2>3
<1>4. Queue(n, q, sent)
  <2>1. Queue(m, q, sent)
    BY Zenon DEF Agree
  <2> SUFFICES ASSUME NEW i \in 1 .. Len(q) PROVE Unfilled(n, q[i])
    BY <2>1, Zenon DEF Queue
  <2>2. Unfilled(m, q[i])
    BY <2>1, Zenon DEF Queue
  <2>3. CASE q[i].id # id
    BY <2>2, <2>3, OtherUnfilled, Zenon
  <2>4. CASE q[i].id = id
    <3>1. x = 0
      BY Zenon, <2>4
    <3>2. n.orders[id].filled_quantity = m.orders[id].filled_quantity
      BY <1>1, <1>2, <3>1
    <3> QED
      BY <1>1, <2>2, <2>4, <3>2, Zenon DEF Unfilled
  <2> QED
    BY Zenon, <2>3, <2>4
<1> QED
  BY <1>1, <1>3, <1>4, Zenon DEF Agree

\* A new copy at the end of the queue keeps the agreement.
LEMMA KeepAgrees ==
    ASSUME NEW m, NEW q, NEW sent, Agree(m, q, sent),
           NEW p \in Copy, p.id \in sent, Unfilled(m, p),
           \A i \in 1 .. Len(q) : q[i].id # p.id,
           NEW k, k = Append(q, p)
    PROVE  Agree(m, k, sent)
<1>1. Queue(m, q, sent)
  BY Zenon DEF Agree
<1>2. q \in Seq(Copy) /\ Len(q) \in Nat
  BY <1>1 DEF Queue
<1>3. /\ k \in Seq(Copy) /\ Len(k) = Len(q) + 1 /\ k[Len(k)] = p
      /\ \A i \in 1 .. Len(q) : k[i] = q[i]
  BY <1>2
<1>4. \A i \in 1 .. Len(k) : i = Len(k) \/ i \in 1 .. Len(q)
  BY <1>2, <1>3
<1>5. \A i \in 1 .. Len(k) : k[i].id \in sent /\ Unfilled(m, k[i])
  BY <1>1, <1>3, <1>4, Zenon DEF Queue
<1>6. ASSUME NEW i \in 1 .. Len(k), NEW j \in 1 .. Len(k), i # j
      PROVE  k[i].id # k[j].id
  <2>1. CASE i = Len(k)
    <3>1. k[i] = p /\ j \in 1 .. Len(q) /\ k[j] = q[j]
      BY <1>3, <1>4, <1>6, <2>1, Zenon
    <3> QED
      BY <3>1, Zenon
  <2>2. CASE j = Len(k)
    <3>1. k[j] = p /\ i \in 1 .. Len(q) /\ k[i] = q[i]
      BY <1>3, <1>4, <1>6, <2>2, Zenon
    <3> QED
      BY <3>1, Zenon
  <2>3. CASE i \in 1 .. Len(q) /\ j \in 1 .. Len(q)
    <3>1. k[i] = q[i] /\ k[j] = q[j] /\ q[i].id # q[j].id
      BY <1>1, <1>3, <1>6, <2>3, Zenon DEF Queue
    <3> QED
      BY <3>1, Zenon
  <2> QED
    BY <1>4, <2>1, <2>2, <2>3, Zenon
<1> QED
  BY <1>3, <1>5, <1>6, Zenon DEF Agree, Queue

\* What try_fill_limit does with a copy p.
Tries(a, q, d, p) ==
    \/ d.pending = q /\ Moves(a, d.oms, p.id, p.order.quantity)
    \/ d.pending = Append(q, p) /\ d.oms = a

\* The two parts of the exchange's result.
Pair(a, q) == [oms |-> a, pending |-> q]

\* SimExchange::try_fill_limit fills the copy or keeps it.
LEMMA TryFills ==
    ASSUME NEW a, Sound(a), NEW q, NEW p, Unfilled(a, p), NEW qs,
           NEW parts \in SplitQuantity(Remaining(p.order)), NEW ack \in BOOLEAN,
           NEW d, d = TryFillLimit(Pair(a, q), p, qs, parts, ack)
    PROVE  Tries(a, q, d, p) /\ d = Pair(d.oms, d.pending)
<1>1. /\ p.id \in 1 .. Len(a.orders) /\ p.order \in Order
      /\ p.order.filled_quantity = 0
  BY Zenon DEF Unfilled
<1>2. p.order.quantity \in Nat /\ p.order.price \in Price
  BY Zenon, <1>1, OrderType
<1>3. Remaining(p.order) = p.order.quantity
  BY <1>1, <1>2 DEF Remaining
<1>4. CASE ShouldFill(qs[p.order.symbol], p.order)
  <2>1. PICK n : n = GenerateFills(a, p.id, p.order.price, parts, ack)
    BY Zenon
  <2>2. d = Pair(n, q)
    BY <1>4, <2>1, Zenon DEF TryFillLimit, Pair
  <2>3. /\ Len(parts) \in Nat /\ \A i \in 1 .. Len(parts) : parts[i] \in Nat
        /\ Sum(parts) = p.order.quantity
    BY <1>2, <1>3, SplitType, Zenon
  <2>4. Moves(a, n, p.id, Sum(parts))
    BY <1>1, <1>2, <2>1, <2>3, GenerateKeeps, Zenon
  <2>5. d.oms = n /\ d.pending = q
    BY <2>2 DEF Pair
  <2> QED
    BY <2>2, <2>3, <2>4, <2>5, Zenon DEF Tries
<1>5. CASE ~ShouldFill(qs[p.order.symbol], p.order)
  <2>1. d = Pair(a, Append(q, p))
    BY <1>5, Zenon DEF TryFillLimit, Pair
  <2>2. d.oms = a /\ d.pending = Append(q, p)
    BY <2>1 DEF Pair
  <2> QED
    BY <2>1, <2>2, Zenon DEF Tries
<1> QED
  BY Zenon, <1>4, <1>5

\* A copy that is tried keeps the agreement, whether it is filled or kept.
LEMMA TryAgrees ==
    ASSUME NEW a, NEW q, NEW sent, Agree(a, q, sent), NEW p \in Copy,
           p.id \in sent, Unfilled(a, p), NEW d, Tries(a, q, d, p),
           \A i \in 1 .. Len(q) : q[i].id # p.id
    PROVE  Agree(d.oms, d.pending, sent) /\ Done(a, d.oms)
<1>1. CASE d.pending = q /\ Moves(a, d.oms, p.id, p.order.quantity)
  <2>1. /\ p.id \in 1 .. Len(a.orders)
        /\ p.order.quantity = a.orders[p.id].quantity
        /\ a.orders[p.id].filled_quantity = 0
    BY Zenon DEF Unfilled
  <2>2. Agree(d.oms, q, sent)
    BY <1>1, <2>1, MoveAgrees, Zenon
  <2> QED
    BY <1>1, <2>1, <2>2, DoneStays, Zenon
<1>2. CASE d.pending = Append(q, p) /\ d.oms = a
  <2>1. Agree(a, d.pending, sent)
    BY <1>2, KeepAgrees, Zenon
  <2> QED
    BY <1>2, <2>1, Zenon DEF Done
<1> QED
  BY <1>1, <1>2, Zenon DEF Tries

\* t goes through the copies as check_pending_orders does.
Checks(t, m, qs, split, ack) ==
    /\ t[0] = Pair(m, <<>>)
    /\ \A i \in 1 .. Len(pending) :
          t[i] = TryFillLimit(t[i - 1], pending[i], qs, split[i], ack)

\* The turns of check_pending_orders exist.
LEMMA CheckUnfolds ==
    ASSUME NEW m, NEW qs, NEW split, NEW ack, Len(pending) \in Nat
    PROVE  \E t : /\ Checks(t, m, qs, split, ack)
                  /\ CheckPendingOrders(m, qs, split, ack) = t[Len(pending)]
<1> DEFINE z == [oms |-> m, pending |-> <<>>]
           F(x, i) == TryFillLimit(x, pending[i], qs, split[i], ack)
           G(g, n) == g = [i \in 0 .. n |-> IF i = 0 THEN z ELSE F(g[i - 1], i)]
           P == {n \in Nat : \E g : G(g, n)}
           turn == CHOOSE g : G(g, Len(pending))
<1>1. CheckPendingOrders(m, qs, split, ack) = turn[Len(pending)]
  BY Zenon DEF CheckPendingOrders
<1> HIDE DEF F, z
<1>2. 0 \in P
  <2> DEFINE g == [i \in 0 .. 0 |-> z]
  <2>1. G(g, 0)
    OBVIOUS
  <2> HIDE DEF g
  <2> QED
    BY <2>1, Zenon
<1>3. ASSUME NEW n \in Nat, n \in P
      PROVE  n + 1 \in P
  <2>1. PICK g : G(g, n)
    BY Zenon, <1>3
  <2> DEFINE h == [i \in 0 .. n + 1 |->
                      IF i = n + 1 THEN F(g[n], i) ELSE g[i]]
  <2>2. G(h, n + 1)
    <3>1. ASSUME NEW i \in 0 .. n + 1
          PROVE  h[i] = IF i = 0 THEN z ELSE F(h[i - 1], i)
      <4>1. CASE i = n + 1
        <5>1. h[i] = F(g[n], i) /\ h[i - 1] = g[n] /\ i # 0
          BY <4>1
        <5> QED
          BY <5>1, Zenon
      <4>2. CASE i # n + 1
        <5>1. i \in 0 .. n /\ h[i] = g[i]
          BY <4>2
        <5>2. g[i] = IF i = 0 THEN z ELSE F(g[i - 1], i)
          BY Zenon, <5>1, <2>1
        <5>3. i # 0 => h[i - 1] = g[i - 1]
          BY <5>1
        <5> HIDE DEF h
        <5> QED
          BY <5>1, <5>2, <5>3, Zenon
      <4> QED
        BY Zenon, <4>1, <4>2
    <3>2. h = [i \in 0 .. n + 1 |-> h[i]]
      BY Zenon
    <3> HIDE DEF h
    <3> QED
      BY <3>1, <3>2, Zenon
  <2>3. n + 1 \in Nat
    OBVIOUS
  <2> HIDE DEF h
  <2> QED
    BY <2>2, <2>3, Zenon
<1>4. Len(pending) \in P
  <2> HIDE DEF P
  <2>1. \A n \in 0 .. Len(pending) : n \in P
    BY <1>2, <1>3, Induction, Zenon
  <2> QED
    BY <2>1
<1>5. G(turn, Len(pending))
  BY <1>4, Zenon
<1> HIDE DEF turn
<1>6. turn[0] = z
  BY <1>5
<1>7. ASSUME NEW i \in 1 .. Len(pending)
      PROVE  turn[i] = F(turn[i - 1], i)
  <2>1. i \in 0 .. Len(pending) /\ i # 0
    OBVIOUS
  <2> QED
    BY Zenon, <1>5, <2>1
<1> QED
  BY <1>1, <1>6, <1>7, Zenon DEF Checks, F, z, Pair

\* The queue q has no copy of r's order.
Absent(q, r) == \A i \in 1 .. Len(q) : q[i].id # r.id

\* Another copy r that is still to be tried stays right, and is not kept twice.
LEMMA TryLeaves ==
    ASSUME NEW a, NEW q \in Seq(Copy), NEW p, NEW d, Tries(a, q, d, p),
           NEW r, Unfilled(a, r), r.id # p.id, Absent(q, r)
    PROVE  Unfilled(d.oms, r) /\ Absent(d.pending, r)
<1>1. CASE d.pending = q /\ Moves(a, d.oms, p.id, p.order.quantity)
  BY <1>1, OtherUnfilled, Zenon
<1>2. CASE d.pending = Append(q, p) /\ d.oms = a
  <2>1. ASSUME NEW i \in 1 .. Len(d.pending)
        PROVE  d.pending[i].id # r.id
    <3>1. d.pending[i] = p \/ (i \in 1 .. Len(q) /\ d.pending[i] = q[i])
      BY <1>2
    <3> QED
      BY <3>1, Zenon DEF Absent
  <2> QED
    BY <1>2, <2>1, Zenon DEF Absent
<1> QED
  BY <1>1, <1>2, Zenon DEF Tries

\* Copies from j on are still to be tried.
Untried(x, j) ==
    \A i \in j .. Len(pending) :
        Unfilled(x.oms, pending[i]) /\ Absent(x.pending, pending[i])

\* A market update fills and keeps copies, and everything still agrees.
LEMMA CheckKeeps ==
    ASSUME Agree(oms, pending, routed), NEW qs, NEW split, NEW ack \in BOOLEAN,
           \A i \in 1 .. Len(pending) :
              split[i] \in SplitQuantity(Remaining(pending[i].order)),
           NEW c, c = CheckPendingOrders(oms, qs, split, ack)
    PROVE  Agree(c.oms, c.pending, routed) /\ Done(oms, c.oms)
<1>1. Queue(oms, pending, routed)
  BY Zenon DEF Agree
<1>2. pending \in Seq(Copy) /\ Len(pending) \in Nat
  BY <1>1 DEF Queue
<1>3. PICK t : Checks(t, oms, qs, split, ack) /\ c = t[Len(pending)]
  <2>1. \E t : /\ Checks(t, oms, qs, split, ack)
               /\ CheckPendingOrders(oms, qs, split, ack) = t[Len(pending)]
    BY <1>2, CheckUnfolds
  <2> QED
    BY <2>1, Zenon
<1> DEFINE L(x, i) == /\ x = Pair(x.oms, x.pending)
                      /\ Agree(x.oms, x.pending, routed) /\ Done(oms, x.oms)
                      /\ Untried(x, i + 1)
           P == {i \in Nat : i <= Len(pending) => L(t[i], i)}
<1>4. 0 \in P
  <2>1. t[0] = Pair(oms, <<>>)
    BY <1>3, Zenon DEF Checks
  <2>2. t[0].oms = oms /\ t[0].pending = <<>>
    BY <2>1 DEF Pair
  <2>3. Queue(oms, <<>>, routed)
    <3>1. <<>> \in Seq(Copy) /\ \A i \in 1 .. Len(<<>>) : FALSE
      OBVIOUS
    <3> QED
      BY <3>1, Zenon DEF Queue
  <2>4. Agree(oms, <<>>, routed)
    BY <2>3, Zenon DEF Agree
  <2>5. Untried(t[0], 0 + 1)
    <3>1. 0 + 1 = 1 /\ \A k \in 1 .. Len(<<>>) : FALSE
      OBVIOUS
    <3> QED
      BY <1>1, <2>2, <3>1, Zenon DEF Untried, Queue, Absent
  <2>6. Done(oms, oms)
    BY Zenon DEF Done
  <2> QED
    BY Zenon, <2>1, <2>2, <2>4, <2>5, <2>6
<1>5. ASSUME NEW i \in Nat, i \in P, i < Len(pending) PROVE i + 1 \in P
  <2>1. L(t[i], i)
    BY <1>5, SMTT(30)
  <2>2. PICK j \in 1 .. Len(pending) : j = i + 1 /\ j - 1 = i /\ j \in Nat
    BY <1>5
  <2>3. PICK x : x = t[i]
    BY Zenon
  <2>4. PICK d : d = t[j]
    BY Zenon
  <2>5. PICK p \in Copy : p = pending[j]
    BY <1>2
  <2>6. d = TryFillLimit(Pair(x.oms, x.pending), p, qs, split[j], ack)
    <3>1. d = TryFillLimit(x, p, qs, split[j], ack)
      BY <1>3, <2>2, <2>3, <2>4, <2>5, Zenon DEF Checks
    <3>2. x = Pair(x.oms, x.pending)
      BY <2>1, <2>3, Zenon
    <3> QED
      BY <3>1, <3>2, Zenon
  <2>7. /\ Agree(x.oms, x.pending, routed) /\ Done(oms, x.oms)
        /\ Untried(x, j)
    BY <2>1, <2>2, <2>3, Zenon
  <2>8. j \in j .. Len(pending)
    OBVIOUS
  <2>9. /\ Unfilled(x.oms, p) /\ p.id \in routed
        /\ \A k \in 1 .. Len(x.pending) : x.pending[k].id # p.id
    BY <1>1, <2>5, <2>7, <2>8, ZenonT(60) DEF Untried, Queue, Absent
  <2>10. Tries(x.oms, x.pending, d, p) /\ d = Pair(d.oms, d.pending)
    <3>1. split[j] \in SplitQuantity(Remaining(p.order)) /\ Sound(x.oms)
      BY <2>5, <2>7, Zenon DEF Agree
    <3> QED
      BY <2>6, <2>9, <3>1, TryFills
  <2>11. Agree(d.oms, d.pending, routed) /\ Done(x.oms, d.oms)
    BY <2>7, <2>9, <2>10, TryAgrees, Zenon
  <2>12. Done(oms, d.oms)
    BY <2>7, <2>11, Zenon DEF Done
  <2>13. Untried(d, j + 1)
    <3> SUFFICES ASSUME NEW k \in j + 1 .. Len(pending)
                 PROVE  /\ Unfilled(d.oms, pending[k])
                        /\ Absent(d.pending, pending[k])
      BY Zenon DEF Untried
    <3>1. k \in j .. Len(pending) /\ k \in 1 .. Len(pending) /\ k # j
      OBVIOUS
    <3>2. PICK r : r = pending[k]
      BY Zenon
    <3>3. r.id # p.id
      BY <1>1, <2>5, <3>1, <3>2, Zenon DEF Queue
    <3>4. Unfilled(x.oms, r) /\ Absent(x.pending, r)
      BY <2>7, <3>1, <3>2, Zenon DEF Untried
    <3>5. x.pending \in Seq(Copy)
      BY <2>7, Zenon DEF Agree, Queue
    <3>6. Unfilled(d.oms, r) /\ Absent(d.pending, r)
      BY <2>10, <3>3, <3>4, <3>5, TryLeaves, Zenon
    <3> QED
      BY <3>2, <3>6, Zenon
  <2>14. L(d, j)
    BY <2>10, <2>11, <2>12, <2>13, Zenon
  <2> HIDE DEF L
  <2> QED
    BY <2>2, <2>4, <2>14, ZenonT(60)
<1>6. Len(pending) \in P
  <2> HIDE DEF P
  <2>1. \A i \in 0 .. Len(pending) : i \in P
    BY <1>2, <1>4, <1>5, Induction, ZenonT(60)
  <2> QED
    BY <1>2, <2>1
<1>7. L(t[Len(pending)], Len(pending))
  BY <1>2, <1>6
<1> QED
  BY <1>3, <1>7, Zenon

------------------------------------------------------------------------------
\* The invariant.

\* The order manager, its portfolio and the exchange agree.  The conjuncts about
\* the exchange's copies are what makes it inductive: a copy is filled by the
\* quantity that the order had when it was routed, so the order must still be
\* unfilled and must have no second copy.
OmsInv ==
    Agree(oms, pending, routed) /\ quotes \in [Symbol -> Quote]

\* The invariant holds at the start.
LEMMA InitOk ==
    Init => OmsInv
<1> SUFFICES ASSUME Init PROVE OmsInv
  BY Zenon
<1>1. PICK folio : folio = [s \in Symbol |-> Flat]
  BY Zenon
<1>2. oms = OmsRecord(<<>>, <<>>, folio, 0) /\ routed = {} /\ pending = <<>>
  BY <1>1, Zenon DEF Init, OmsRecord
<1>3. oms.orders = <<>> /\ oms.journal = <<>> /\ oms.portfolio = folio
      /\ oms.total_volume = 0
  BY Zenon, <1>2 DEF OmsRecord
<1>4. Books(folio, 0)
  <2>1. folio \in [Symbol -> SymbolState]
    BY <1>1, FlatOK, Zenon DEF PortfolioOK
  <2>2. \A s \in Symbol : PortfolioOK(folio[s])
    BY <1>1, FlatOK, Zenon
  <2>3. PICK f : f = Booked(folio)
    BY Zenon
  <2>4. f \in [Symbol -> Int] /\ \A s \in Symbol : f[s] = 0
    <3>1. \A s \in Symbol : Size(folio[s].fills) = 0
      <4>1. Flat.fills = <<>>
        BY Zenon DEF Flat
      <4> QED
        BY <1>1, <4>1, NoLots, Zenon
    <3>2. 0 \in Int
      OBVIOUS
    <3> QED
      BY <2>3, <3>1, <3>2, Zenon DEF Booked
  <2>5. Total(f) = 0
    BY <2>4, OmsAssumption, TotalZero, Zenon
  <2>6. 0 \in Nat
    BY Zenon
  <2> QED
    BY <2>1, <2>2, <2>3, <2>5, <2>6, Zenon DEF Books
<1>5. oms \in OmsState
  <2>1. <<>> \in Seq(Order) /\ <<>> \in Seq(Seq(OrderState)) /\ 0 \in Nat
    OBVIOUS
  <2> QED
    BY <1>2, <1>4, <2>1, Zenon DEF OmsState, OmsRecord, Books
<1>6. \A i \in 1 .. Len(<<>>) : FALSE
  OBVIOUS
<1>7. Sum(Filled(<<>>)) = 0
  BY SumEmpty DEF Filled
<1>8. Sound(oms)
  <2>1. 0 <= Sum(Filled(<<>>))
    BY <1>7
  <2> QED
    BY <1>3, <1>4, <1>5, <1>6, <2>1, Zenon DEF Sound
<1>9. Queue(oms, pending, routed)
  <2>1. <<>> \in Seq(Copy)
    OBVIOUS
  <2> QED
    BY <1>2, <1>6, <2>1, Zenon DEF Queue
<1>10. FillsFit(oms, routed)
  BY <1>3, <1>6, Zenon DEF FillsFit
<1>11. quotes \in [Symbol -> Quote]
  BY OmsAssumption, Zenon DEF Init, Quote
<1> QED
  BY Zenon, <1>2, <1>8, <1>9, <1>10, <1>11 DEF OmsInv, Agree

\* A new order joins m with the history "New".
Joins(m, n, o) ==
    n = OmsRecord(Append(m.orders, o), Append(m.journal, <<"New">>),
                  m.portfolio, m.total_volume)

\* A new order leaves everything in agreement.
LEMMA JoinAgrees ==
    ASSUME NEW m, NEW q, NEW sent, Agree(m, q, sent), NEW o \in Order,
           o.state = "New", o.filled_quantity = 0, NEW n, Joins(m, n, o)
    PROVE  /\ Agree(n, q, sent) /\ n.portfolio = m.portfolio
           /\ Len(n.orders) = Len(m.orders) + 1
<1>1. /\ m \in OmsState /\ Len(m.journal) = Len(m.orders)
      /\ \A id \in 1 .. Len(m.orders) :
            Explained(m.journal[id], m.orders[id].state)
      /\ Books(m.portfolio, m.total_volume)
      /\ m.total_volume <= Sum(Filled(m.orders))
  BY Zenon DEF Agree, Sound
<1>2. /\ m.orders \in Seq(Order) /\ m.journal \in Seq(Seq(OrderState))
      /\ m.portfolio \in [Symbol -> SymbolState] /\ m.total_volume \in Nat
      /\ Len(m.orders) \in Nat
  BY <1>1, StateType, Zenon
<1>3. /\ n.orders = Append(m.orders, o)
      /\ n.journal = Append(m.journal, <<"New">>)
      /\ n.portfolio = m.portfolio /\ n.total_volume = m.total_volume
  BY Zenon DEF Joins, OmsRecord
<1>4. PICK k \in Nat : k = Len(m.orders)
  BY Zenon, <1>2
<1>5. /\ n.orders \in Seq(Order) /\ Len(n.orders) = k + 1
      /\ n.orders[k + 1] = o
      /\ \A i \in 1 .. k : n.orders[i] = m.orders[i]
  BY <1>2, <1>3, <1>4, SMTT(30)
<1>6. /\ n.journal \in Seq(Seq(OrderState)) /\ Len(n.journal) = k + 1
      /\ n.journal[k + 1] = <<"New">>
      /\ \A i \in 1 .. k : n.journal[i] = m.journal[i]
  <2>1. <<"New">> \in Seq(OrderState)
    BY DEF OrderState
  <2> QED
    BY <1>1, <1>2, <1>3, <1>4, <2>1
<1>7. \A i \in 1 .. k + 1 : i = k + 1 \/ i \in 1 .. k
  OBVIOUS
<1>8. n \in OmsState
  BY <1>2, <1>3, <1>5, <1>6, Zenon DEF Joins, OmsState, OmsRecord
<1>9. Explained(<<"New">>, "New")
  BY DEF Explained, OrderState
<1>10. ASSUME NEW i \in 1 .. k + 1
       PROVE  Explained(n.journal[i], n.orders[i].state)
  <2>1. CASE i = k + 1
    BY <1>5, <1>6, <1>9, <2>1, Zenon
  <2>2. CASE i \in 1 .. k
    <3>1. n.journal[i] = m.journal[i] /\ n.orders[i] = m.orders[i]
      BY <1>5, <1>6, <2>2, Zenon
    <3>2. Explained(m.journal[i], m.orders[i].state)
      BY <1>1, <1>4, <2>2, Zenon
    <3> QED
      BY <3>1, <3>2, Zenon
  <2> QED
    BY <1>7, <2>1, <2>2, Zenon
<1>11. Sum(Filled(n.orders)) = Sum(Filled(m.orders))
  <2>1. PICK f : f = Filled(m.orders)
    BY Zenon
  <2>2. PICK g : g = Filled(n.orders)
    BY Zenon
  <2>3. /\ Len(f) = k /\ Numbers(f) /\ Len(g) = k + 1 /\ Numbers(g)
        /\ Sum(f) \in Int
    BY <1>2, <1>4, <1>5, <2>1, <2>2, FilledNumbers, ZenonT(60)
  <2>4. g[k + 1] = 0 /\ \A i \in 1 .. k : g[i] = f[i]
    BY <1>4, <1>5, <2>1, <2>2, SMTT(30) DEF Filled
  <2>5. Sum(g) = Sum(f) + g[k + 1]
    <3>1. g[k + 1] \in Int
      BY <2>4
    <3>2. \A i \in 1 .. k : g[i] = f[i]
      BY <2>4, Zenon
    <3> QED
      BY <2>3, <3>1, <3>2, SumGrows, SMT
  <2>6. Sum(f) + 0 = Sum(f)
    BY <2>3
  <2> QED
    BY <2>1, <2>2, <2>4, <2>5, <2>6, Zenon
<1>12. Sound(n)
  BY <1>1, <1>3, <1>5, <1>6, <1>8, <1>10, <1>11, Zenon DEF Sound
<1>13. sent \subseteq 1 .. k /\ sent \subseteq 1 .. k + 1
  BY <1>4 DEF Agree
<1>14. FillsFit(n, sent)
  <2> SUFFICES ASSUME NEW i \in 1 .. k + 1
               PROVE  /\ n.orders[i].filled_quantity <= n.orders[i].quantity
                      /\ i \notin sent => n.orders[i].filled_quantity = 0
    BY <1>5, Zenon DEF FillsFit
  <2>1. CASE i = k + 1
    <3>1. 0 <= o.quantity
      BY OrderType
    <3> QED
      BY <1>5, <2>1, <3>1, Zenon
  <2>2. CASE i \in 1 .. k
    BY <1>4, <1>5, <2>2, Zenon DEF Agree, FillsFit
  <2> QED
    BY <1>7, <2>1, <2>2, Zenon
<1>15. Queue(n, q, sent)
  <2> SUFFICES ASSUME NEW i \in 1 .. Len(q) PROVE Unfilled(n, q[i])
    BY Zenon DEF Agree, Queue
  <2>1. Unfilled(m, q[i])
    BY Zenon DEF Agree, Queue
  <2>2. q[i].id \in 1 .. k /\ q[i].id \in 1 .. k + 1
    BY <1>4, <2>1 DEF Unfilled
  <2> QED
    BY <1>5, <2>1, <2>2, Zenon DEF Unfilled
<1> QED
  BY <1>3, <1>4, <1>5, <1>12, <1>13, <1>14, <1>15, Zenon DEF Agree

\* What every step keeps: the invariant, and the positions when all orders are
\* done.
Kept ==
    /\ OmsInv'
    /\ AllDone(oms) =>
          \A s \in Symbol :
             oms'.portfolio[s].position = oms.portfolio[s].position

\* OrderManager::submit.
LEMMA SubmitOk ==
    ASSUME OmsInv, NEW s \in Symbol, NEW side \in Side,
           NEW type \in {"Market", "Limit"}, NEW px \in Price,
           NEW qty \in Quantity, Submit(s, side, type, px, qty)
    PROVE  Kept
<1>1. PICK o : o = [symbol |-> s, side |-> side, type |-> type, price |-> px,
                    quantity |-> qty, filled_quantity |-> 0, state |-> "New"]
  BY Zenon
<1>2. PICK n : n = [oms EXCEPT !.orders  = Append(@, o),
                               !.journal = Append(@, <<"New">>)]
  BY Zenon
<1>3. /\ oms' = ApplyTransition(n, Len(oms.orders) + 1, "Sent")
      /\ UNCHANGED <<routed, pending, quotes>> /\ qty > 0
  BY <1>1, <1>2, Zenon DEF Submit
<1>4. Agree(oms, pending, routed) /\ oms \in OmsState
  BY Zenon DEF OmsInv, Agree, Sound
<1>5. o \in Order /\ o.state = "New" /\ o.filled_quantity = 0
  <2>1. qty \in Quantity \ {0} /\ 0 \in Nat /\ "New" \in OrderState
    BY <1>3, OmsAssumption DEF OrderState
  <2> QED
    BY <1>1, <2>1, Zenon DEF Order
<1>6. Joins(oms, n, o)
  BY <1>2, <1>4, Zenon DEF Joins, OmsRecord, OmsState
<1>7. /\ Agree(n, pending, routed) /\ n.portfolio = oms.portfolio
      /\ Len(n.orders) = Len(oms.orders) + 1
  BY <1>4, <1>5, <1>6, JoinAgrees, Zenon
<1>8. PICK id \in 1 .. Len(n.orders) : id = Len(oms.orders) + 1
  <2>1. Len(oms.orders) \in Nat
    BY <1>4, StateType, Zenon
  <2> QED
    BY <1>7, <2>1
<1>9. Moves(n, oms', id, 0) /\ oms'.portfolio = n.portfolio
  <2>1. Sound(n) /\ "Sent" \in OrderState
    BY Zenon, <1>7 DEF Agree, OrderState
  <2>2. oms' = ApplyTransition(n, id, "Sent")
    BY <1>3, <1>8, Zenon
  <2> QED
    BY <2>1, <2>2, TransitionKeeps, Zenon
<1>10. Agree(oms', pending, routed)
  BY <1>7, <1>8, <1>9, MoveAgrees, Zenon
<1> QED
  BY <1>3, <1>7, <1>9, <1>10, Zenon DEF Kept, OmsInv

\* A step that moves one order by nothing: OnAck, OnReject, Cancel.
LEMMA TransitionOk ==
    ASSUME OmsInv, NEW id \in Ids, NEW target \in OrderState,
           oms' = ApplyTransition(oms, id, target),
           UNCHANGED <<routed, pending, quotes>>
    PROVE  Kept
<1>1. Agree(oms, pending, routed) /\ Sound(oms) /\ id \in 1 .. Len(oms.orders)
  BY Zenon DEF OmsInv, Agree, Ids
<1>2. Moves(oms, oms', id, 0) /\ oms'.portfolio = oms.portfolio
  BY <1>1, TransitionKeeps, Zenon
<1>3. Agree(oms', pending, routed)
  BY <1>1, <1>2, MoveAgrees, Zenon
<1> QED
  BY <1>2, <1>3, Zenon DEF Kept, OmsInv

\* Routing an order sends it: nothing of the agreement is lost.
LEMMA SendAgrees ==
    ASSUME NEW m, NEW q, NEW sent, Agree(m, q, sent),
           NEW id \in 1 .. Len(m.orders), id \notin sent
    PROVE  /\ Agree(m, q, sent \cup {id}) /\ m.orders[id].filled_quantity = 0
           /\ \A i \in 1 .. Len(q) : q[i].id # id
<1>1. m.orders[id].filled_quantity = 0 /\ \A i \in 1 .. Len(q) : q[i].id # id
  BY Zenon DEF Agree, FillsFit, Queue
<1>2. FillsFit(m, sent \cup {id}) /\ Queue(m, q, sent \cup {id})
  BY Zenon DEF Agree, FillsFit, Queue
<1> QED
  BY <1>1, <1>2, Zenon DEF Agree

\* OrderRouter::route, with what the exchange does inside the call.
LEMMA RouteOk ==
    ASSUME OmsInv, NEW id \in Ids, NEW ack \in BOOLEAN, Route(id, ack)
    PROVE  Kept
<1>1. PICK o : o = oms.orders[id]
  BY Zenon
<1>2. PICK px : px = MarketPriceFor(quotes[o.symbol], o.side)
  BY Zenon
<1>3. PICK sent : sent = routed \cup {id}
  BY Zenon
<1>4. /\ id \notin routed /\ routed' = sent /\ UNCHANGED quotes
      /\ \/ oms' = Reject(oms, id, ack) /\ UNCHANGED pending
         \/ /\ \E parts \in SplitQuantity(Remaining(o)) :
                  oms' = GenerateFills(oms, id, px, parts, ack)
            /\ UNCHANGED pending
         \/ \E parts \in SplitQuantity(Remaining(o)) :
               LET c == TryFillLimit(Pair(oms, pending),
                                     [id |-> id, order |-> o],
                                     quotes, parts, ack)
               IN  oms' = c.oms /\ pending' = c.pending
  BY <1>1, <1>2, <1>3, Zenon DEF Route, Pair
<1>5. /\ Agree(oms, pending, routed) /\ Sound(oms)
      /\ id \in 1 .. Len(oms.orders) /\ quotes \in [Symbol -> Quote]
  BY Zenon DEF OmsInv, Agree, Ids
<1>6. /\ Agree(oms, pending, sent) /\ oms.orders[id].filled_quantity = 0
      /\ \A i \in 1 .. Len(pending) : pending[i].id # id
  <2>1. /\ Agree(oms, pending, routed \cup {id})
        /\ oms.orders[id].filled_quantity = 0
        /\ \A i \in 1 .. Len(pending) : pending[i].id # id
    BY <1>4, <1>5, SendAgrees
  <2> QED
    BY <1>3, <2>1, ZenonT(60)
<1>7. id \in sent
  BY <1>3, SMTT(30)
<1>8. o \in Order /\ o.quantity \in Nat /\ o.symbol \in Symbol
      /\ o.side \in Side
  BY <1>1, <1>5, OneOrder, OrderType, Zenon
<1>9. Remaining(o) = o.quantity
  BY <1>1, <1>6, <1>8 DEF Remaining
<1>10. SUFFICES Agree(oms', pending', sent) /\ Done(oms, oms')
  BY <1>4, <1>5, Zenon DEF Kept, OmsInv, Done
<1>11. CASE oms' = Reject(oms, id, ack) /\ UNCHANGED pending
  <2>1. oms' = Callback(oms, id, 0, 0, ack) /\ 0 \in Price /\ 0 \in Nat
    BY Zenon, <1>11, OmsAssumption DEF Reject
  <2>2. Moves(oms, oms', id, 0)
    BY <1>5, <2>1, CallbackKeeps, Zenon
  <2>3. Agree(oms', pending, sent)
    BY <1>5, <1>6, <2>2, MoveAgrees, Zenon
  <2> QED
    BY <1>5, <1>11, <2>2, <2>3, DoneStays, Zenon
<1>12. CASE /\ \E parts \in SplitQuantity(Remaining(o)) :
                  oms' = GenerateFills(oms, id, px, parts, ack)
            /\ UNCHANGED pending
  <2>1. PICK parts \in SplitQuantity(Remaining(o)) :
               oms' = GenerateFills(oms, id, px, parts, ack)
    BY <1>12, Zenon
  <2>2. /\ Len(parts) \in Nat /\ \A i \in 1 .. Len(parts) : parts[i] \in Nat
        /\ Sum(parts) = o.quantity
    BY <1>8, <1>9, <2>1, SplitType, Zenon
  <2>3. px \in Price
    BY <1>2, <1>5, <1>8, Zenon DEF MarketPriceFor, Quote
  <2>4. Moves(oms, oms', id, Sum(parts))
    BY <1>5, <2>1, <2>2, <2>3, GenerateKeeps, Zenon
  <2>5. Moves(oms, oms', id, oms.orders[id].quantity)
    BY <1>1, <2>2, <2>4, Zenon
  <2>6. Agree(oms', pending, sent)
    BY <1>5, <1>6, <1>7, <2>5, MoveAgrees, Zenon
  <2> QED
    BY <1>5, <1>12, <2>5, <2>6, DoneStays, Zenon
<1>13. CASE \E parts \in SplitQuantity(Remaining(o)) :
               LET c == TryFillLimit(Pair(oms, pending),
                                     [id |-> id, order |-> o],
                                     quotes, parts, ack)
               IN  oms' = c.oms /\ pending' = c.pending
  <2>1. PICK p : p = [id |-> id, order |-> o]
    BY Zenon
  <2>2. PICK parts \in SplitQuantity(Remaining(o)) :
          \E d : /\ d = TryFillLimit(Pair(oms, pending), p, quotes, parts, ack)
                 /\ oms' = d.oms /\ pending' = d.pending
    BY <1>13, <2>1, Zenon
  <2>3. PICK d : /\ d = TryFillLimit(Pair(oms, pending), p, quotes, parts, ack)
                 /\ oms' = d.oms /\ pending' = d.pending
    BY <2>2, Zenon
  <2>4. p.id = id /\ p.order = o
    BY Zenon, <2>1
  <2>5. p \in Copy
    <3>1. id \in Nat
      BY <1>5
    <3> QED
      BY <1>8, <2>1, <3>1, Zenon DEF Copy
  <2>6. Unfilled(oms, p)
    BY <1>1, <1>5, <1>6, <1>8, <2>4, Zenon DEF Unfilled
  <2>7. Tries(oms, pending, d, p)
    BY <1>5, <2>3, <2>4, <2>6, TryFills, Zenon
  <2>8. p.id \in sent /\ \A i \in 1 .. Len(pending) : pending[i].id # p.id
    BY <1>6, <1>7, <2>4, ZenonT(60)
  <2>9. Agree(d.oms, d.pending, sent) /\ Done(oms, d.oms)
    BY Zenon, <1>6, <2>5, <2>6, <2>7, <2>8, TryAgrees
  <2> QED
    BY <2>3, <2>9, Zenon
<1> QED
  BY <1>4, <1>11, <1>12, <1>13, Zenon

\* SimExchange::on_market_update, with the fills that it sets off.
LEMMA OnMarketUpdateOk ==
    ASSUME OmsInv, NEW s \in Symbol, NEW bid \in Price, NEW ask \in Price,
           NEW ack \in BOOLEAN, OnMarketUpdate(s, bid, ask, ack)
    PROVE  Kept
<1>1. PICK qs : qs = [quotes EXCEPT ![s] = [best_bid |-> bid, best_ask |-> ask]]
  BY Zenon
<1>2. /\ quotes' = qs /\ UNCHANGED routed
      /\ \E split :
           /\ \A i \in 1 .. Len(pending) :
                 split[i] \in SplitQuantity(Remaining(pending[i].order))
           /\ LET c == CheckPendingOrders(oms, qs, split, ack)
              IN  oms' = c.oms /\ pending' = c.pending
  BY <1>1, Zenon DEF OnMarketUpdate
<1>3. PICK split, c :
           /\ \A i \in 1 .. Len(pending) :
                 split[i] \in SplitQuantity(Remaining(pending[i].order))
           /\ c = CheckPendingOrders(oms, qs, split, ack)
           /\ oms' = c.oms /\ pending' = c.pending
  BY <1>2, Zenon
<1>4. Agree(oms, pending, routed) /\ quotes \in [Symbol -> Quote]
  BY Zenon DEF OmsInv
<1>5. Agree(c.oms, c.pending, routed) /\ Done(oms, c.oms)
  BY Zenon, <1>3, <1>4, CheckKeeps
<1>6. quotes' \in [Symbol -> Quote]
  <2>1. [best_bid |-> bid, best_ask |-> ask] \in Quote
    BY Zenon DEF Quote
  <2> QED
    BY <1>1, <1>2, <1>4, <2>1, Zenon
<1> QED
  BY <1>2, <1>3, <1>5, <1>6, Zenon DEF Kept, OmsInv, Done

\* Marking a symbol (Portfolio::mark_to_market) changes its unrealized profit.
LEMMA MarkSymbolOk ==
    ASSUME OmsInv, NEW s \in Symbol, NEW mark \in MarkPrice,
           MarkSymbol(s, mark)
    PROVE  /\ Kept
           /\ LET p == oms'.portfolio[s]
              IN  p.realized + p.unrealized = Cash(p) + p.position * mark
<1>1. PICK p : p = oms.portfolio[s]
  BY Zenon
<1>2. PICK q : q = MarkToMarket(p, mark)
  BY Zenon
<1>3. PICK folio : folio = [oms.portfolio EXCEPT ![s] = q]
  BY Zenon
<1>4. /\ Agree(oms, pending, routed) /\ Sound(oms) /\ oms \in OmsState
      /\ Books(oms.portfolio, oms.total_volume)
  BY Zenon DEF OmsInv, Agree, Sound
<1>5. /\ oms.orders \in Seq(Order) /\ oms.journal \in Seq(Seq(OrderState))
      /\ oms.portfolio \in [Symbol -> SymbolState] /\ oms.total_volume \in Nat
  BY <1>4, StateType, Zenon
<1>6. oms' = OmsRecord(oms.orders, oms.journal, folio, oms.total_volume)
      /\ UNCHANGED <<routed, pending, quotes>>
  BY <1>1, <1>2, <1>3, <1>4, Zenon DEF MarkSymbol, OmsState, OmsRecord
<1>7. /\ oms'.orders = oms.orders /\ oms'.journal = oms.journal
      /\ oms'.portfolio = folio /\ oms'.total_volume = oms.total_volume
  BY Zenon, <1>6 DEF OmsRecord
<1>8. /\ PortfolioOK(q) /\ q.fills = p.fills /\ q.position = p.position
      /\ q.realized + q.unrealized = Cash(q) + q.position * mark
  <2>1. mark \in Nat
    BY Zenon, OmsAssumption
  <2>2. PortfolioOK(p)
    BY <1>1, <1>4, Zenon DEF Books
  <2> QED
    BY <1>2, <2>1, <2>2, MarkKeeps, Zenon
<1>9. Books(folio, oms.total_volume)
  <2>1. p \in SymbolState
    BY <1>1, <1>5, Zenon
  <2>2. Size(p.fills) \in Int
    BY <2>1, StateNumbers, FillNumbers, Zenon
  <2>3. Size(q.fills) = Size(oms.portfolio[s].fills) + 0
    BY <1>1, <1>8, <2>2
  <2>4. 0 \in Nat /\ oms.total_volume + 0 = oms.total_volume
    BY <1>5
  <2>5. Books(folio, oms.total_volume + 0)
    BY <1>3, <1>4, <1>8, <2>3, <2>4, BooksChange, Zenon
  <2> QED
    BY <2>4, <2>5, Zenon
<1>10. oms' \in OmsState
  BY <1>5, <1>6, <1>9, Zenon DEF OmsState, OmsRecord, Books
<1>11. Sound(oms')
  BY <1>4, <1>7, <1>9, <1>10, Zenon DEF Sound
<1>12. Agree(oms', pending, routed)
  BY <1>4, <1>7, <1>11, Zenon DEF Agree, FillsFit, Queue, Unfilled
<1>13. folio[s] = q /\ \A x \in Symbol : folio[x].position
                                           = oms.portfolio[x].position
  BY <1>1, <1>3, <1>5, <1>8, Zenon
<1>14. Kept
  BY <1>6, <1>7, <1>12, <1>13, Zenon DEF Kept, OmsInv
<1> QED
  BY <1>7, <1>8, <1>13, <1>14, Zenon

\* Every step keeps the invariant.
LEMMA StepOk ==
    ASSUME OmsInv, [Next]_vars
    PROVE  Kept
<1>1. ASSUME NEW s \in Symbol, NEW side \in Side, NEW qty \in Quantity,
             \/ Submit(s, side, "Market", 0, qty)
             \/ \E px \in Price \ {0} : Submit(s, side, "Limit", px, qty)
      PROVE  Kept
  <2>1. CASE Submit(s, side, "Market", 0, qty)
    <3>1. 0 \in Price /\ "Market" \in {"Market", "Limit"}
      BY Zenon, OmsAssumption
    <3> QED
      BY <2>1, <3>1, SubmitOk, Zenon
  <2>2. CASE \E px \in Price \ {0} : Submit(s, side, "Limit", px, qty)
    <3>1. PICK px \in Price : Submit(s, side, "Limit", px, qty)
      BY Zenon, <2>2
    <3>2. "Limit" \in {"Market", "Limit"}
      BY Zenon
    <3> QED
      BY <3>1, <3>2, SubmitOk, Zenon
  <2> QED
    BY Zenon, <1>1, <2>1, <2>2
<1>2. ASSUME NEW id \in Ids, NEW ack \in BOOLEAN, Route(id, ack)
      PROVE  Kept
  BY <1>2, RouteOk, Zenon
<1>3. ASSUME NEW id \in Ids, OnAck(id) PROVE Kept
  <2>1. "Acked" \in OrderState
    BY Zenon DEF OrderState
  <2> QED
    BY <1>3, <2>1, TransitionOk, Zenon DEF OnAck
<1>4. ASSUME NEW id \in Ids, OnReject(id) PROVE Kept
  <2>1. "Rejected" \in OrderState
    BY Zenon DEF OrderState
  <2> QED
    BY <1>4, <2>1, TransitionOk, Zenon DEF OnReject
<1>5. ASSUME NEW id \in Ids, Cancel(id) PROVE Kept
  <2>1. "Cancelled" \in OrderState
    BY Zenon DEF OrderState
  <2> QED
    BY <1>5, <2>1, TransitionOk, Zenon DEF Cancel
<1>6. ASSUME NEW s \in Symbol, NEW bid \in Price, NEW ask \in Price,
             NEW ack \in BOOLEAN, OnMarketUpdate(s, bid, ask, ack)
      PROVE  Kept
  BY <1>6, OnMarketUpdateOk, Zenon
<1>7. ASSUME NEW s \in Symbol, NEW mark \in MarkPrice, MarkSymbol(s, mark)
      PROVE  Kept
  BY <1>7, MarkSymbolOk, Zenon
<1>8. CASE UNCHANGED vars
  BY Zenon, <1>8 DEF vars, Kept, OmsInv
<1> QED
  BY <1>1, <1>2, <1>3, <1>4, <1>5, <1>6, <1>7, <1>8, Zenon DEF Next

\* The invariant always holds.
LEMMA OmsInvariant ==
    Spec => []OmsInv
<1>1. OmsInv /\ [Next]_vars => OmsInv'
  BY Zenon, StepOk DEF Kept
<1> QED
  BY InitOk, <1>1, PTL DEF Spec

------------------------------------------------------------------------------

\* The journal of every order leads from New to its present state by legal
\* transitions (OrderJournal, OrderManager::apply_transition), for any number of
\* orders and any mixture of fills, acknowledgements, rejects and cancels.
THEOREM JournalCorrect ==
    Spec => []JournalExplainsState
<1>1. OmsInv => JournalExplainsState
  <2> SUFFICES ASSUME OmsInv, NEW id \in Ids
               PROVE  Explained(oms.journal[id], oms.orders[id].state)
    BY Zenon DEF JournalExplainsState, Explained
  <2> QED
    BY Zenon DEF OmsInv, Agree, Sound, Ids
<1> QED
  BY <1>1, OmsInvariant, PTL

\* The accounts of every fill agree: the position is the open lots, the realized
\* profit is the cash of the fills corrected by the cost of the open lots, the
\* volume of FillManager is what the portfolio recorded, and no order is filled
\* beyond its quantity (on_fill of FillManager, Portfolio and PnLCalculator, and
\* SimExchange::check_pending_orders).
THEOREM AccountsCorrect ==
    Spec => []AccountsAgree
<1>1. OmsInv => AccountsAgree
  <2> SUFFICES ASSUME OmsInv PROVE AccountsAgree
    BY Zenon
  <2>1. /\ Sound(oms) /\ routed \subseteq Ids /\ FillsFit(oms, routed)
        /\ Queue(oms, pending, routed) /\ quotes \in [Symbol -> Quote]
    BY Zenon DEF OmsInv, Agree, Ids
  <2>2. /\ oms \in OmsState /\ Len(oms.journal) = Len(oms.orders)
        /\ Books(oms.portfolio, oms.total_volume)
        /\ oms.total_volume <= Sum(Filled(oms.orders))
    BY <2>1, Zenon DEF Sound
  <2>3. TypeOK
    <3>1. /\ oms.orders \in Seq(Order) /\ oms.journal \in Seq(Seq(OrderState))
          /\ oms.portfolio \in [Symbol -> SymbolState]
          /\ oms.total_volume \in Nat
      BY <2>2, StateType, Zenon
    <3>2. \A i \in 1 .. Len(pending) :
            pending[i].id \in routed /\ pending[i].order \in Order
      BY <2>1, Zenon DEF Queue, Unfilled
    <3> QED
      BY <2>1, <2>2, <3>1, <3>2, Zenon DEF TypeOK
  <2>4. \A s \in Symbol : PortfolioOK(oms.portfolio[s])
    BY <2>2, Zenon DEF Books
  <2>5. LotsMatchPosition /\ RealizedIsCash
    BY <2>4, Zenon DEF LotsMatchPosition, RealizedIsCash, PortfolioOK
  <2>6. VolumeIsBooked
    <3>1. oms.total_volume = Total(Booked(oms.portfolio))
      BY <2>2, Zenon DEF Books
    <3> QED
      BY <2>2, <3>1, Zenon DEF VolumeIsBooked, Total, Booked, Filled, Ids
  <2>7. NoOverfill
    BY <2>1, Zenon DEF NoOverfill, FillsFit, Ids
  <2> QED
    BY <2>3, <2>5, <2>6, <2>7, Zenon DEF AccountsAgree
<1> QED
  BY <1>1, OmsInvariant, PTL

\* Orders that are all done trade no more, and marking a symbol leaves as total
\* profit what selling everything at the mark would (FillManager::on_fill on an
\* order in a terminal state, PnLCalculator::mark_to_market).
THEOREM ProfitCorrect ==
    Spec => OnlyOpenOrdersMakeProfit
<1> DEFINE Calm == (\A id \in Ids : IsTerminal(oms.orders[id])) =>
                      \A s \in Symbol :
                         oms'.portfolio[s].position = oms.portfolio[s].position
           Marks == \A s \in Symbol, mark \in MarkPrice :
                       MarkSymbol(s, mark) =>
                          LET p == oms'.portfolio[s]
                          IN  p.realized + p.unrealized
                                = Cash(p) + p.position * mark
<1>1. OmsInv /\ [Next]_vars => [Calm /\ Marks]_vars
  <2> SUFFICES ASSUME OmsInv, [Next]_vars PROVE Calm /\ Marks
    BY Zenon
  <2>1. Calm
    BY StepOk, Zenon DEF Kept, AllDone, Ids
  <2>2. Marks
    BY MarkSymbolOk, Zenon
  <2> QED
    BY Zenon, <2>1, <2>2
<1>2. Spec => [][Calm /\ Marks]_vars
  <2> HIDE DEF Calm, Marks
  <2> QED
    BY <1>1, OmsInvariant, PTL DEF Spec
<1> QED
  BY <1>2, PTL DEF OnlyOpenOrdersMakeProfit

==============================================================================
