---------------------------- MODULE AmountProofs ----------------------------
(***************************************************************************)
(* What parse_amount accepts and what format_amount shows of it, for every *)
(* text and every number of decimals.                                      *)
(***************************************************************************)
EXTENDS Amounts, Extrema, SequenceTheorems

-----------------------------------------------------------------------------
(* A function may be defined by recursion along a measure of its domain.   *)
(* g solves the equations up to n.                                         *)
Solves(g, n, D, m, B, base, pred, step) ==
  \A d \in D : m[d] < n => g[d] = IF d \in B THEN base[d] ELSE step[<<d, g[pred[d]]>>]

(* Where both do, two of them agree.                                       *)
LEMMA SolutionsAgree ==
  ASSUME NEW D, NEW m \in [D -> Nat], NEW B, NEW base, NEW pred, NEW step,
         \A d \in D \ B : pred[d] \in D /\ m[pred[d]] < m[d],
         NEW n \in Nat, NEW k \in Nat, NEW g, NEW h,
         Solves(g, n, D, m, B, base, pred, step), Solves(h, k, D, m, B, base, pred, step),
         NEW d \in D, m[d] < n, m[d] < k
  PROVE  g[d] = h[d]
<1> DEFINE Bad == {x \in D : m[x] < n /\ m[x] < k /\ g[x] # h[x]}
           Sizes == {m[x] : x \in Bad}
<1> SUFFICES ASSUME Bad # {} PROVE FALSE
  OBVIOUS
<1>1. Sizes \in SUBSET Nat /\ Sizes # {}
  OBVIOUS
<1>2. PICK s \in Sizes : \A y \in Sizes : s <= y
  <2> HIDE DEF Sizes
  <2> QED BY <1>1, LeastNatural
<1>3. PICK x \in Bad : m[x] = s
  OBVIOUS
<1>4. x \notin B
  BY <1>3 DEF Solves
<1>5. pred[x] \in D /\ m[pred[x]] < m[x] /\ m[pred[x]] \in Nat /\ m[x] \in Nat
  BY <1>3, <1>4
<1>6. pred[x] \notin Bad
  <2> SUFFICES ASSUME pred[x] \in Bad PROVE FALSE
    OBVIOUS
  <2>1. m[pred[x]] \in Sizes
    OBVIOUS
  <2> QED BY <1>2, <1>3, <1>5, <2>1
<1>7. g[pred[x]] = h[pred[x]]
  BY <1>3, <1>5, <1>6
<1>8. /\ g[x] = step[<<x, g[pred[x]]>>]
      /\ h[x] = step[<<x, h[pred[x]]>>]
  BY <1>3, <1>4 DEF Solves
<1> QED BY <1>3, <1>7, <1>8

(* There is one up to any n.                                               *)
LEMMA SolutionUpTo ==
  ASSUME NEW D, NEW V, NEW m \in [D -> Nat], NEW B \in SUBSET D, NEW base \in [D -> V],
         NEW pred, NEW step \in [D \X V -> V],
         \A d \in D \ B : pred[d] \in D /\ m[pred[d]] < m[d],
         NEW n \in Nat
  PROVE  \E g \in [D -> V] : Solves(g, n, D, m, B, base, pred, step)
<1> DEFINE Solved(k) == \E g \in [D -> V] : Solves(g, k, D, m, B, base, pred, step)
           Bad == {k \in Nat : ~Solved(k)}
<1> SUFFICES ASSUME Bad # {} PROVE FALSE
  OBVIOUS
<1>1. PICK k \in Bad : \A y \in Bad : k <= y
  <2>1. Bad \in SUBSET Nat
    OBVIOUS
  <2> HIDE DEF Bad
  <2> QED BY <2>1, LeastNatural
<1>2. k # 0
  <2>1. \A d \in D : ~(m[d] < 0)
    OBVIOUS
  <2>2. Solves(base, 0, D, m, B, base, pred, step)
    BY <2>1 DEF Solves
  <2> QED BY <2>2
<1>3. k - 1 \in Nat /\ k - 1 \notin Bad
  BY <1>1, <1>2
<1>4. PICK g \in [D -> V] : Solves(g, k - 1, D, m, B, base, pred, step)
  BY <1>3
<1> DEFINE h == [d \in D |-> IF d \in B THEN base[d]
                             ELSE IF pred[d] \in D THEN step[<<d, g[pred[d]]>>] ELSE base[d]]
<1>5. h \in [D -> V]
  OBVIOUS
<1>6. ASSUME NEW d \in D, m[d] < k - 1 PROVE h[d] = g[d]
  BY <1>4, <1>6 DEF Solves
<1>7. Solves(h, k, D, m, B, base, pred, step)
  <2> SUFFICES ASSUME NEW d \in D, m[d] < k
               PROVE  h[d] = IF d \in B THEN base[d] ELSE step[<<d, h[pred[d]]>>]
    BY DEF Solves
  <2>1. CASE d \in B
    BY <2>1
  <2>2. CASE d \notin B
    <3>1. pred[d] \in D /\ m[pred[d]] < k - 1
      <4>1. pred[d] \in D /\ m[pred[d]] < m[d]
        BY <2>2
      <4>2. m[pred[d]] \in Nat /\ m[d] \in Nat /\ k \in Nat
        BY <4>1
      <4> QED BY <4>1, <4>2
    <3>2. h[pred[d]] = g[pred[d]]
      BY <1>6, <3>1
    <3>3. h[d] = step[<<d, g[pred[d]]>>]
      BY <2>2, <3>1
    <3> QED BY <2>2, <3>2, <3>3
  <2> QED BY <2>1, <2>2
<1> QED BY <1>1, <1>5, <1>7

(* The equations of a recursive function: given on B, elsewhere a step     *)
(* from where pred leads, which is smaller.                                *)
Equations(D, V, m, B, base, pred, step) ==
  /\ m \in [D -> Nat] /\ B \in SUBSET D /\ base \in [D -> V] /\ step \in [D \X V -> V]
  /\ \A d \in D \ B : pred[d] \in D /\ m[pred[d]] < m[d]

Solution(f, D, V, B, base, pred, step) ==
  /\ f \in [D -> V]
  /\ \A d \in D : f[d] = IF d \in B THEN base[d] ELSE step[<<d, f[pred[d]]>>]

(* Equations that lead back to B have a solution on the whole domain.      *)
LEMMA Recursion ==
  ASSUME NEW D, NEW V, NEW m, NEW B, NEW base, NEW pred, NEW step,
         Equations(D, V, m, B, base, pred, step)
  PROVE  \E f : Solution(f, D, V, B, base, pred, step)
<1> USE DEF Equations
<1> DEFINE sol(n) == CHOOSE g \in [D -> V] : Solves(g, n, D, m, B, base, pred, step)
           f == [d \in D |-> sol(m[d] + 1)[d]]
<1>1. ASSUME NEW n \in Nat
      PROVE  sol(n) \in [D -> V] /\ Solves(sol(n), n, D, m, B, base, pred, step)
  <2>1. \E g \in [D -> V] : Solves(g, n, D, m, B, base, pred, step)
    BY SolutionUpTo
  <2> QED BY <2>1
<1> HIDE DEF sol
<1>2. f \in [D -> V]
  <2>1. ASSUME NEW d \in D PROVE sol(m[d] + 1)[d] \in V
    <3>1. m[d] + 1 \in Nat
      OBVIOUS
    <3> QED BY <1>1, <3>1
  <2> QED BY <2>1
<1>3. ASSUME NEW d \in D PROVE f[d] = IF d \in B THEN base[d] ELSE step[<<d, f[pred[d]]>>]
  <2>1. m[d] \in Nat /\ m[d] + 1 \in Nat /\ m[d] < m[d] + 1
    OBVIOUS
  <2>2. sol(m[d] + 1)[d] = IF d \in B THEN base[d]
                           ELSE step[<<d, sol(m[d] + 1)[pred[d]]>>]
    <3>1. Solves(sol(m[d] + 1), m[d] + 1, D, m, B, base, pred, step)
      BY <1>1, <2>1
    <3> QED BY <2>1, <3>1 DEF Solves
  <2>3. CASE d \in B
    BY <2>2, <2>3
  <2>4. CASE d \notin B
    <3> DEFINE p == pred[d]
    <3>1. p \in D /\ m[p] < m[d] /\ m[p] \in Nat
      BY <2>4
    <3>2. m[p] + 1 \in Nat /\ m[p] < m[p] + 1 /\ m[p] < m[d] + 1
      BY <2>1, <3>1
    <3> HIDE DEF p
    <3>3. /\ Solves(sol(m[p] + 1), m[p] + 1, D, m, B, base, pred, step)
          /\ Solves(sol(m[d] + 1), m[d] + 1, D, m, B, base, pred, step)
      BY <1>1, <2>1, <3>2
    <3>4. sol(m[p] + 1)[p] = sol(m[d] + 1)[p]
      BY <2>1, <3>1, <3>2, <3>3, SolutionsAgree
    <3>5. f[p] = sol(m[d] + 1)[p]
      BY <3>1, <3>4
    <3> QED BY <2>2, <2>4, <3>5 DEF p
  <2> QED BY <2>3, <2>4
<1> HIDE DEF f
<1> QED BY <1>2, <1>3 DEF Solution

(* Whatever obeys the equations wherever its values are of the right kind  *)
(* is that function.                                                       *)
Obeys(f, D, V, B, base, pred, step) ==
  \A d \in D : /\ d \in B => f[d] = base[d]
               /\ d \notin B /\ f[pred[d]] \in V => f[d] = step[<<d, f[pred[d]]>>]

LEMMA Unique ==
  ASSUME NEW D, NEW V, NEW m, NEW B, NEW base, NEW pred, NEW step, NEW f, NEW g,
         Equations(D, V, m, B, base, pred, step),
         Solution(g, D, V, B, base, pred, step),
         Obeys(f, D, V, B, base, pred, step)
  PROVE  \A d \in D : f[d] \in V /\ f[d] = g[d]
<1> DEFINE Bad == {d \in D : f[d] # g[d]}
           Sizes == {m[d] : d \in Bad}
<1>1. \A d \in D : g[d] \in V
  BY DEF Solution
<1> SUFFICES ASSUME Bad # {} PROVE FALSE
  BY <1>1
<1>2. Sizes \in SUBSET Nat /\ Sizes # {}
  BY DEF Equations
<1>3. PICK s \in Sizes : \A y \in Sizes : s <= y
  <2> HIDE DEF Sizes
  <2> QED BY <1>2, LeastNatural
<1>4. PICK d \in Bad : m[d] = s
  OBVIOUS
<1>5. d \notin B
  <2>1. d \in D /\ f[d] # g[d]
    BY <1>4
  <2>2. ASSUME d \in B PROVE f[d] = base[d]
    BY <2>1, <2>2 DEF Obeys
  <2>3. ASSUME d \in B PROVE g[d] = base[d]
    BY <2>1, <2>3 DEF Solution
  <2> QED BY <2>1, <2>2, <2>3
<1>6. pred[d] \in D /\ m[pred[d]] < m[d] /\ m[pred[d]] \in Nat /\ m[d] \in Nat
  BY <1>4, <1>5 DEF Equations
<1>7. pred[d] \notin Bad
  <2> SUFFICES ASSUME pred[d] \in Bad PROVE FALSE
    OBVIOUS
  <2>1. m[pred[d]] \in Sizes
    OBVIOUS
  <2> QED BY <1>3, <1>4, <1>6, <2>1
<1>8. f[pred[d]] = g[pred[d]] /\ f[pred[d]] \in V
  BY <1>1, <1>6, <1>7
<1> QED BY <1>4, <1>5, <1>8 DEF Solution, Obeys

-----------------------------------------------------------------------------
(* The three functions of Amounts that are defined by recursion.           *)

(* Power is a function and obeys its equations.                            *)
LEMMA PowerIs ==
  /\ Power \in [Nat -> Nat]
  /\ Power[0] = 1
  /\ \A n \in Nat : Power[n + 1] = 10 * Power[n]
<1> DEFINE step == [nv \in Nat \X Nat |-> 10 * nv[2]]
           pred == [n \in Nat |-> n - 1]
           base == [n \in Nat |-> 1]
           size == [n \in Nat |-> n]
           Is(f) == f = [n \in Nat |-> IF n = 0 THEN 1 ELSE 10 * f[n - 1]]
<1>1. Equations(Nat, Nat, size, {0}, base, pred, step)
  BY DEF Equations
<1>2. PICK g : Solution(g, Nat, Nat, {0}, base, pred, step)
  <2> HIDE DEF size, base, pred, step
  <2> QED BY <1>1, Recursion
<1>3. g \in [Nat -> Nat] /\ Is(g)
  <2>1. /\ g \in [Nat -> Nat]
        /\ \A n \in Nat : g[n] = IF n \in {0} THEN base[n] ELSE step[<<n, g[pred[n]]>>]
    BY <1>2 DEF Solution
  <2>2. ASSUME NEW n \in Nat PROVE g[n] = IF n = 0 THEN 1 ELSE 10 * g[n - 1]
    <3>1. CASE n = 0
      BY <2>1, <3>1
    <3>2. CASE n # 0
      <4>1. n - 1 \in Nat /\ g[n - 1] \in Nat
        BY <2>1, <3>2
      <4>2. step[<<n, g[n - 1]>>] = 10 * g[n - 1]
        BY <4>1
      <4> QED BY <2>1, <3>2, <4>2
    <3> QED BY <3>1, <3>2
  <2> QED BY <2>1, <2>2
<1>4. Is(Power)
  <2>1. Power = CHOOSE f : Is(f)
    BY Zenon DEF Power
  <2> HIDE DEF Is
  <2> QED BY <1>3, <2>1
<1>5. Obeys(Power, Nat, Nat, {0}, base, pred, step)
  <2>1. ASSUME NEW n \in Nat, n # 0, Power[n - 1] \in Nat
        PROVE  Power[n] = step[<<n, Power[n - 1]>>]
    BY <1>4, <2>1
  <2> QED BY <1>4, <2>1 DEF Obeys
<1>6. \A n \in Nat : Power[n] \in Nat
  <2> HIDE DEF size, base, pred, step
  <2> QED BY <1>1, <1>2, <1>5, Unique
<1>7. Power \in [Nat -> Nat]
  BY <1>4, <1>6
<1>8. ASSUME NEW n \in Nat PROVE Power[n + 1] = 10 * Power[n]
  BY <1>4
<1> QED BY <1>4, <1>7, <1>8

(* Powers are never zero.                                                  *)
LEMMA PowerPositive == \A n \in Nat : Power[n] \in Nat \ {0}
<1> DEFINE Bad == {n \in Nat : Power[n] = 0}
<1> SUFFICES ASSUME Bad # {} PROVE FALSE
  BY PowerIs
<1>1. PICK n \in Bad : \A y \in Bad : n <= y
  <2>1. Bad \in SUBSET Nat
    OBVIOUS
  <2> HIDE DEF Bad
  <2> QED BY <2>1, LeastNatural
<1>2. n # 0 /\ n - 1 \in Nat /\ n - 1 \notin Bad
  BY <1>1, PowerIs
<1>3. Power[(n - 1) + 1] = 10 * Power[n - 1] /\ (n - 1) + 1 = n /\ Power[n - 1] \in Nat
  BY <1>1, <1>2, PowerIs
<1> QED BY <1>1, <1>2, <1>3

Row == Seq(0 .. 9)

(* A row of digits without its last. *)
Shorter(w) == SubSeq(w, 1, Len(w) - 1)

(* It is a row, one digit shorter.                                         *)
LEMMA ShorterType ==
  ASSUME NEW w \in Row, w # <<>>
  PROVE  /\ Shorter(w) \in Row /\ Len(Shorter(w)) = Len(w) - 1
         /\ Len(w) \in Nat \ {0} /\ w[Len(w)] \in 0 .. 9
<1>1. Len(w) \in Nat \ {0}
  BY EmptySeq DEF Row
<1>2. \A i \in 1 .. Len(w) : w[i] \in 0 .. 9
  BY ElementOfSeq DEF Row
<1>3. Shorter(w) \in Row /\ Len(Shorter(w)) = Len(w) - 1
  <2>1. 1 \in Int /\ Len(w) - 1 \in Int /\ \A i \in 1 .. Len(w) - 1 : w[i] \in 0 .. 9
    BY <1>1, <1>2
  <2>2. SubSeq(w, 1, Len(w) - 1) \in Seq(0 .. 9)
    BY <2>1, SubSeqProperties
  <2>3. Len(SubSeq(w, 1, Len(w) - 1)) = IF 1 <= Len(w) - 1 THEN (Len(w) - 1) - 1 + 1 ELSE 0
    BY <2>1, SubSeqProperties
  <2>4. Len(SubSeq(w, 1, Len(w) - 1)) = Len(w) - 1
    <3> DEFINE n == Len(w)
               l == Len(SubSeq(w, 1, n - 1))
    <3>1. n \in Nat \ {0} /\ l = IF 1 <= n - 1 THEN (n - 1) - 1 + 1 ELSE 0
      BY <1>1, <2>3
    <3> HIDE DEF n, l
    <3>2. l = n - 1
      BY <3>1
    <3> QED BY <3>2 DEF l, n
  <2> QED BY <2>2, <2>4 DEF Row, Shorter
<1> QED BY <1>1, <1>2, <1>3

(* So does NumberOf.                                                       *)
LEMMA NumberIs ==
  /\ \A w \in Row : NumberOf[w] \in Nat
  /\ NumberOf[<<>>] = 0
  /\ \A w \in Row \ {<<>>} : NumberOf[w] = 10 * NumberOf[Shorter(w)] + w[Len(w)]
<1> DEFINE step == [wv \in Row \X Nat |-> IF wv[1] = <<>> THEN 0
                                          ELSE 10 * wv[2] + wv[1][Len(wv[1])]]
           pred == [w \in Row |-> Shorter(w)]
           base == [w \in Row |-> 0]
           size == [w \in Row |-> Len(w)]
           Is(f) == f = [w \in Row |-> IF w = <<>> THEN 0
                                       ELSE 10 * f[Shorter(w)] + w[Len(w)]]
<1>0. <<>> \in Row
  BY EmptySeq DEF Row
<1>1. Equations(Row, Nat, size, {<<>>}, base, pred, step)
  <2>1. size \in [Row -> Nat] /\ base \in [Row -> Nat]
    BY LenProperties DEF Row
  <2>3. ASSUME NEW w \in Row, NEW v \in Nat, w # <<>>
        PROVE  10 * v + w[Len(w)] \in Nat
    <3>1. w[Len(w)] \in 0 .. 9
      BY <2>3, ShorterType
    <3> QED BY <3>1
  <2>4. step \in [Row \X Nat -> Nat]
    BY <2>3
  <2>5. \A w \in Row \ {<<>>} : pred[w] \in Row /\ size[pred[w]] < size[w]
    BY ShorterType
  <2> QED BY <1>0, <2>1, <2>4, <2>5 DEF Equations
<1>2. PICK g : Solution(g, Row, Nat, {<<>>}, base, pred, step)
  <2> HIDE DEF size, base, pred, step
  <2> QED BY <1>1, Recursion
<1>3. g \in [Row -> Nat] /\ Is(g)
  <2>1. /\ g \in [Row -> Nat]
        /\ \A w \in Row : g[w] = IF w \in {<<>>} THEN base[w] ELSE step[<<w, g[pred[w]]>>]
    BY <1>2 DEF Solution
  <2>2. ASSUME NEW w \in Row
        PROVE  g[w] = IF w = <<>> THEN 0 ELSE 10 * g[Shorter(w)] + w[Len(w)]
    <3>1. CASE w = <<>>
      BY <2>1, <3>1
    <3>2. CASE w # <<>>
      <4>1. Shorter(w) \in Row /\ g[Shorter(w)] \in Nat
        BY <2>1, <3>2, ShorterType
      <4>2. step[<<w, g[Shorter(w)]>>] = 10 * g[Shorter(w)] + w[Len(w)]
        BY <3>2, <4>1
      <4> QED BY <2>1, <3>2, <4>2
    <3> QED BY <3>1, <3>2
  <2> QED BY <2>1, <2>2
<1>4. Is(NumberOf)
  <2>1. NumberOf = CHOOSE f : Is(f)
    BY Zenon DEF NumberOf, Row, Shorter
  <2> HIDE DEF Is
  <2> QED BY <1>3, <2>1
<1>5. Obeys(NumberOf, Row, Nat, {<<>>}, base, pred, step)
  <2>1. ASSUME NEW w \in Row, w # <<>>, NumberOf[Shorter(w)] \in Nat
        PROVE  NumberOf[w] = step[<<w, NumberOf[Shorter(w)]>>]
    BY <1>4, <2>1
  <2>2. NumberOf[<<>>] = 0
    BY <1>0, <1>4
  <2> QED BY <1>0, <2>1, <2>2 DEF Obeys
<1>6. \A w \in Row : NumberOf[w] \in Nat
  <2> HIDE DEF size, base, pred, step
  <2> QED BY <1>1, <1>2, <1>5, Unique
<1> QED BY <1>0, <1>4, <1>6

-----------------------------------------------------------------------------
(* Arithmetic.                                                             *)

(* Induction, over a set.                                                  *)
LEMMA FromZero ==
  ASSUME NEW S \in SUBSET Nat, 0 \in S, \A n \in S : n + 1 \in S
  PROVE  S = Nat
<1> DEFINE Bad == Nat \ S
<1> SUFFICES ASSUME Bad # {} PROVE FALSE
  OBVIOUS
<1>1. PICK n \in Bad : \A y \in Bad : n <= y
  <2>1. Bad \in SUBSET Nat
    OBVIOUS
  <2> HIDE DEF Bad
  <2> QED BY <2>1, LeastNatural
<1>2. n # 0 /\ n - 1 \in Nat
  BY <1>1
<1>3. n - 1 \in S
  BY <1>1, <1>2
<1>4. (n - 1) + 1 \in S
  BY <1>3
<1> QED BY <1>1, <1>2, <1>4

(* Exponents add up.                                                       *)
LEMMA PowerSum == \A a, b \in Nat : Power[a + b] = Power[a] * Power[b]
<1> SUFFICES ASSUME NEW a \in Nat PROVE \A b \in Nat : Power[a + b] = Power[a] * Power[b]
  OBVIOUS
<1> DEFINE S == {b \in Nat : Power[a + b] = Power[a] * Power[b]}
<1>1. 0 \in S
  BY PowerIs
<1>2. ASSUME NEW b \in S PROVE b + 1 \in S
  <2>1. Power[a + b] = Power[a] * Power[b]
    BY <1>2
  <2>2. a + (b + 1) = (a + b) + 1 /\ a + b \in Nat /\ b \in Nat /\ b + 1 \in Nat
    BY <1>2
  <2>3. /\ Power[(a + b) + 1] = 10 * Power[a + b] /\ Power[b + 1] = 10 * Power[b]
        /\ Power[a] \in Nat /\ Power[b] \in Nat
    BY <2>2, PowerIs
  <2>4. \A x, y \in Nat : 10 * (x * y) = x * (10 * y)
    OBVIOUS
  <2>5. Power[a + (b + 1)] = Power[a] * Power[b + 1]
    BY <2>1, <2>2, <2>3, <2>4
  <2> QED BY <2>2, <2>5
<1>3. S = Nat
  <2> HIDE DEF S
  <2>1. S \in SUBSET Nat
    BY DEF S
  <2> QED BY <1>1, <1>2, <2>1, FromZero
<1> QED BY <1>3

(* Quotient and rest.                                                      *)
LEMMA Quotient ==
  ASSUME NEW n \in Nat, NEW d \in Nat \ {0}
  PROVE  n \div d \in Nat /\ n % d \in 0 .. d - 1 /\ n = d * (n \div d) + (n % d)
OBVIOUS

(* A quotient is the one number with a rest below the divisor.             *)
LEMMA QuotientUnique ==
  ASSUME NEW n \in Nat, NEW d \in Nat \ {0}, NEW q \in Nat, NEW r \in 0 .. d - 1,
         n = d * q + r
  PROVE  n \div d = q
<1> DEFINE p == n \div d
<1>0. p \in Nat /\ \E s \in 0 .. d - 1 : n = d * p + s
  BY Quotient
<1> HIDE DEF p
<1>1. PICK s \in 0 .. d - 1 : n = d * p + s
  BY <1>0
<1>2. d * p + s = d * q + r
  BY <1>1
<1>3. ~(p < q)
  <2> SUFFICES ASSUME p < q PROVE FALSE
    OBVIOUS
  <2>1. PICK k \in Nat : q = p + 1 + k
    <3>1. q - p - 1 \in Nat /\ q = p + 1 + (q - p - 1)
      BY <1>0
    <3> QED BY <3>1
  <2>2. d * q = d * p + d + d * k /\ d * k \in Nat /\ d * p \in Nat
    BY <1>0, <2>1
  <2> QED BY <1>2, <2>2
<1>4. ~(q < p)
  <2> SUFFICES ASSUME q < p PROVE FALSE
    OBVIOUS
  <2>1. PICK k \in Nat : p = q + 1 + k
    <3>1. p - q - 1 \in Nat /\ p = q + 1 + (p - q - 1)
      BY <1>0
    <3> QED BY <3>1
  <2>2. d * p = d * q + d + d * k /\ d * k \in Nat /\ d * q \in Nat
    BY <1>0, <2>1
  <2> QED BY <1>2, <2>2
<1> QED BY <1>0, <1>3, <1>4 DEF p

(* The last digit of a quotient.                                           *)
LEMMA QuotientByTen ==
  ASSUME NEW n \in Nat, NEW b \in Nat \ {0}
  PROVE  n \div b = 10 * (n \div (10 * b)) + ((n \div b) % 10)
<1> DEFINE q == n \div b
           s == q \div 10
           t == q % 10
<1>1. q \in Nat /\ \E r \in 0 .. b - 1 : n = b * q + r
  BY Quotient
<1>2. s \in Nat /\ t \in 0 .. 9 /\ q = 10 * s + t
  <2> HIDE DEF q
  <2> QED BY <1>1
<1> HIDE DEF q, s, t
<1> PICK r \in 0 .. b - 1 : n = b * q + r
  BY <1>1
<1>3. b * t + r \in 0 .. 10 * b - 1
  <2>1. \A x \in 0 .. 9 : b * x \in 0 .. 9 * b
    OBVIOUS
  <2>2. b * t \in 0 .. 9 * b
    BY <1>2, <2>1
  <2> QED BY <1>1, <2>2
<1>4. n = (10 * b) * s + (b * t + r)
  <2>1. b * (10 * s + t) = (10 * b) * s + b * t
    BY <1>2
  <2>2. b * q = (10 * b) * s + b * t
    BY <1>2, <2>1
  <2>3. b * t \in Nat /\ (10 * b) * s \in Nat
    BY <1>2
  <2> QED BY <1>1, <2>2, <2>3
<1>5. n \div (10 * b) = s
  <2>1. 10 * b \in Nat \ {0}
    OBVIOUS
  <2> QED BY <1>2, <1>3, <1>4, <2>1, QuotientUnique
<1>6. q = 10 * (n \div (10 * b)) + t
  BY <1>2, <1>5
<1>7. q = n \div b
  BY DEF q
<1>8. t = (n \div b) % 10
  BY DEF q, t
<1> QED BY <1>6, <1>7, <1>8

-----------------------------------------------------------------------------
(* Rows of digits.                                                         *)

(* A digit at the end.                                                     *)
LEMMA NumberOfAppend ==
  ASSUME NEW w \in Row, NEW d \in 0 .. 9
  PROVE  Append(w, d) \in Row /\ NumberOf[Append(w, d)] = 10 * NumberOf[w] + d
<1> DEFINE v == Append(w, d)
<1>1. v \in Row /\ v # <<>> /\ Len(v) = Len(w) + 1 /\ v[Len(w) + 1] = d
  BY AppendProperties DEF Row
<1>2. \A i \in 1 .. Len(w) : v[i] = w[i]
  BY AppendProperties DEF Row
<1>3. Len(w) \in Nat
  BY LenProperties DEF Row
<1> HIDE DEF v
<1>4. Shorter(v) = w
  <2>1. Shorter(v) \in Row /\ Len(Shorter(v)) = Len(w)
    BY <1>1, <1>3, ShorterType
  <2>2. \A i \in 1 .. Len(w) : Shorter(v)[i] = v[i]
    <3>1. \A i \in 1 .. Len(w) : v[i] \in 0 .. 9
      BY <1>1, <1>3, ElementOfSeq DEF Row
    <3>2. Shorter(v) = SubSeq(v, 1, Len(w))
      BY <1>1, <1>3 DEF Shorter
    <3>3. \A i \in 1 .. Len(w) - 1 + 1 : SubSeq(v, 1, Len(w))[i] = v[1 + i - 1]
      BY <1>3, <3>1, SubSeqProperties
    <3>4. \A i \in 1 .. Len(w) : i \in 1 .. Len(w) - 1 + 1 /\ 1 + i - 1 = i
      BY <1>3
    <3> QED BY <3>2, <3>3, <3>4
  <2>3. \A i \in 1 .. Len(Shorter(v)) : Shorter(v)[i] = w[i]
    BY <1>2, <2>1, <2>2
  <2> QED BY <2>1, <2>3, SeqEqual DEF Row
<1>5. NumberOf[v] = 10 * NumberOf[w] + d
  BY <1>1, <1>4, NumberIs
<1> QED BY <1>1, <1>5 DEF v

(* A number is read off the digits of two rows one after the other.        *)
LEMMA NumberOfConcat ==
  \A v, w \in Row :
    v \o w \in Row /\ NumberOf[v \o w] = NumberOf[v] * Power[Len(w)] + NumberOf[w]
<1> SUFFICES ASSUME NEW v \in Row
             PROVE  \A w \in Row : /\ v \o w \in Row
                                   /\ NumberOf[v \o w] = NumberOf[v] * Power[Len(w)] + NumberOf[w]
  OBVIOUS
<1> DEFINE P(w) == NumberOf[v \o w] = NumberOf[v] * Power[Len(w)] + NumberOf[w]
           S == {n \in Nat : \A w \in Row : Len(w) = n => P(w)}
<1>0. \A w \in Row : v \o w \in Row
  BY ConcatProperties DEF Row
<1>1. 0 \in S
  <2> SUFFICES ASSUME NEW w \in Row, Len(w) = 0 PROVE P(w)
    OBVIOUS
  <2>1. w = <<>>
    BY EmptySeq DEF Row
  <2>2. v \o w = v
    BY <2>1, ConcatEmptySeq DEF Row
  <2>3. NumberOf[v] \in Nat /\ NumberOf[w] = 0 /\ Power[Len(w)] = 1
    BY <2>1, NumberIs, PowerIs
  <2> QED BY <2>2, <2>3
<1>2. ASSUME NEW n \in S PROVE n + 1 \in S
  <2> SUFFICES ASSUME NEW w \in Row, Len(w) = n + 1 PROVE P(w)
    OBVIOUS
  <2>0. n \in Nat
    BY <1>2
  <2>1. w # <<>>
    BY <2>0, EmptySeq
  <2>2. PICK u \in Row, d \in 0 .. 9 : w = Append(u, d)
    BY <2>1, SequenceEmptyOrAppend DEF Row
  <2>3. Len(u) = n
    <3>1. Len(w) = Len(u) + 1
      BY <2>2, AppendProperties DEF Row
    <3>2. Len(u) \in Nat
      BY LenProperties DEF Row
    <3> QED BY <2>0, <3>1, <3>2
  <2>4. P(u)
    BY <1>2, <2>3
  <2>5. v \o w = Append(v \o u, d)
    <3>1. w = u \o <<d>> /\ Append(v \o u, d) = (v \o u) \o <<d>>
      BY <1>0, <2>2, AppendIsConcat DEF Row
    <3>2. <<d>> \in Row
      BY DEF Row
    <3>3. (v \o u) \o <<d>> = v \o (u \o <<d>>)
      BY <3>2, ConcatAssociative DEF Row
    <3> QED BY <3>1, <3>3
  <2>6. NumberOf[v \o w] = 10 * NumberOf[v \o u] + d /\ NumberOf[w] = 10 * NumberOf[u] + d
    BY <1>0, <2>2, <2>5, NumberOfAppend
  <2>7. Power[Len(w)] = 10 * Power[n] /\ Power[n] \in Nat
    BY <2>0, PowerIs
  <2>8. NumberOf[v] \in Nat /\ NumberOf[u] \in Nat
    BY NumberIs
  <2>9. \A a, b, c \in Nat : 10 * (a * b + c) + d = a * (10 * b) + (10 * c + d)
    OBVIOUS
  <2>10. NumberOf[v \o u] = NumberOf[v] * Power[n] + NumberOf[u]
    BY <2>3, <2>4
  <2> QED BY <2>6, <2>7, <2>8, <2>9, <2>10
<1>3. S = Nat
  <2>1. S \in SUBSET Nat
    OBVIOUS
  <2> HIDE DEF S
  <2> QED BY <1>1, <1>2, <2>1, FromZero
<1>4. ASSUME NEW w \in Row PROVE P(w)
  <2>1. Len(w) \in S
    BY <1>3, LenProperties DEF Row
  <2> QED BY <2>1
<1> QED BY <1>0, <1>4

(* DigitsOf is a function into rows, and obeys its equations.              *)
LEMMA DigitsIs ==
  /\ \A n \in Nat : DigitsOf[n] \in Row
  /\ \A n \in 0 .. 9 : DigitsOf[n] = <<n>>
  /\ \A n \in Nat : n > 9 => DigitsOf[n] = Append(DigitsOf[n \div 10], n % 10)
<1> DEFINE step == [nw \in Nat \X Row |-> Append(nw[2], nw[1] % 10)]
           pred == [n \in Nat |-> n \div 10]
           base == [n \in Nat |-> <<n % 10>>]
           size == [n \in Nat |-> n]
           B == 0 .. 9
           Is(f) == f = [n \in Nat |-> IF n < 10 THEN <<n>> ELSE Append(f[n \div 10], n % 10)]
<1>0. \A n \in Nat : n % 10 \in 0 .. 9 /\ (n \notin B => n \div 10 \in Nat /\ n \div 10 < n)
  OBVIOUS
<1>1. Equations(Nat, Row, size, B, base, pred, step)
  <2>1. base \in [Nat -> Row]
    <3>1. \A d \in 0 .. 9 : <<d>> \in Row
      BY DEF Row
    <3> QED BY <1>0, <3>1
  <2>2. step \in [Nat \X Row -> Row]
    <3>1. \A n \in Nat, w \in Row : Append(w, n % 10) \in Row
      BY <1>0, NumberOfAppend
    <3> QED BY <3>1
  <2>3. size \in [Nat -> Nat] /\ B \in SUBSET Nat
    OBVIOUS
  <2>4. \A n \in Nat \ B : pred[n] \in Nat /\ size[pred[n]] < size[n]
    BY <1>0
  <2> QED BY <2>1, <2>2, <2>3, <2>4 DEF Equations
<1>2. PICK g : Solution(g, Nat, Row, B, base, pred, step)
  <2> HIDE DEF size, base, pred, step, B
  <2> QED BY <1>1, Recursion
<1>3. g \in [Nat -> Row] /\ Is(g)
  <2>1. /\ g \in [Nat -> Row]
        /\ \A n \in Nat : g[n] = IF n \in B THEN base[n] ELSE step[<<n, g[pred[n]]>>]
    BY <1>2 DEF Solution
  <2>2. ASSUME NEW n \in Nat
        PROVE  g[n] = IF n < 10 THEN <<n>> ELSE Append(g[n \div 10], n % 10)
    <3>1. CASE n \in B
      <4>1. n % 10 = n /\ n < 10
        BY <3>1
      <4> QED BY <2>1, <3>1, <4>1
    <3>2. CASE n \notin B
      <4>1. ~(n < 10) /\ n \div 10 \in Nat
        BY <3>2
      <4>2. g[n \div 10] \in Row /\ pred[n] = n \div 10
        BY <2>1, <4>1
      <4>3. step[<<n, g[n \div 10]>>] = Append(g[n \div 10], n % 10)
        BY <4>2
      <4> QED BY <2>1, <3>2, <4>1, <4>2, <4>3
    <3> QED BY <3>1, <3>2
  <2>3. g = [n \in Nat |-> IF n < 10 THEN <<n>> ELSE Append(g[n \div 10], n % 10)]
    BY <2>1, <2>2
  <2> QED BY <2>1, <2>3
<1>4. Is(DigitsOf)
  <2>1. DigitsOf = CHOOSE f : Is(f)
    BY Zenon DEF DigitsOf
  <2> HIDE DEF Is
  <2> QED BY <1>3, <2>1
<1>5. \A n \in Nat : DigitsOf[n] = IF n < 10 THEN <<n>> ELSE Append(DigitsOf[n \div 10], n % 10)
  BY <1>4
<1>6. Obeys(DigitsOf, Nat, Row, B, base, pred, step)
  <2>1. ASSUME NEW n \in B PROVE DigitsOf[n] = base[n]
    <3>1. n \in Nat /\ n < 10 /\ n % 10 = n
      OBVIOUS
    <3> QED BY <1>5, <3>1
  <2>2. ASSUME NEW n \in Nat, n \notin B, DigitsOf[pred[n]] \in Row
        PROVE  DigitsOf[n] = step[<<n, DigitsOf[pred[n]]>>]
    <3>1. ~(n < 10) /\ pred[n] = n \div 10
      BY <2>2
    <3>2. step[<<n, DigitsOf[pred[n]]>>] = Append(DigitsOf[pred[n]], n % 10)
      BY <2>2
    <3> QED BY <1>5, <3>1, <3>2
  <2> HIDE DEF B, base, pred, step
  <2> QED BY <2>1, <2>2 DEF Obeys
<1>7. \A n \in Nat : DigitsOf[n] \in Row
  <2> HIDE DEF size, base, pred, step, B
  <2> QED BY <1>1, <1>2, <1>6, Unique
<1>8. ASSUME NEW n \in 0 .. 9 PROVE DigitsOf[n] = <<n>>
  <2>1. n \in Nat /\ n < 10
    OBVIOUS
  <2> QED BY <1>5, <2>1
<1>9. ASSUME NEW n \in Nat, n > 9 PROVE DigitsOf[n] = Append(DigitsOf[n \div 10], n % 10)
  <2>1. ~(n < 10)
    BY <1>9
  <2> QED BY <1>5, <2>1
<1> QED BY <1>7, <1>8, <1>9

(* They stand for the number, and there is one at least.                   *)
LEMMA DigitsStandFor == \A n \in Nat : DigitsOf[n] \in Row \ {<<>>} /\ NumberOf[DigitsOf[n]] = n
<1> DEFINE Good(n) == DigitsOf[n] # <<>> /\ NumberOf[DigitsOf[n]] = n
           Bad == {n \in Nat : ~Good(n)}
<1> SUFFICES ASSUME Bad # {} PROVE FALSE
  BY DigitsIs
<1>1. PICK n \in Bad : \A y \in Bad : n <= y
  <2>1. Bad \in SUBSET Nat
    OBVIOUS
  <2> HIDE DEF Bad
  <2> QED BY <2>1, LeastNatural
<1>2. CASE n < 10
  <2>1. n \in 0 .. 9 /\ DigitsOf[n] = <<n>>
    BY <1>2, DigitsIs
  <2>2. <<>> \in Row /\ Append(<<>>, n) = <<n>> /\ NumberOf[<<>>] = 0
    BY NumberIs DEF Row
  <2>3. NumberOf[<<n>>] = 10 * NumberOf[<<>>] + n
    BY <2>1, <2>2, NumberOfAppend
  <2>4. <<n>> # <<>>
    OBVIOUS
  <2> QED BY <2>1, <2>2, <2>3, <2>4
<1>3. CASE ~(n < 10)
  <2>1. n \div 10 \in Nat /\ n \div 10 < n /\ n % 10 \in 0 .. 9 /\ n = 10 * (n \div 10) + (n % 10)
    BY <1>3
  <2>2. n \div 10 \notin Bad
    BY <1>1, <2>1
  <2>3. DigitsOf[n] = Append(DigitsOf[n \div 10], n % 10) /\ DigitsOf[n \div 10] \in Row
    <3>1. n > 9 /\ n \in Nat
      BY <1>3
    <3> QED BY <2>1, <3>1, DigitsIs
  <2>4. NumberOf[DigitsOf[n]] = 10 * NumberOf[DigitsOf[n \div 10]] + (n % 10)
    BY <2>1, <2>3, NumberOfAppend
  <2>5. DigitsOf[n] # <<>>
    <3> DEFINE w == DigitsOf[n \div 10]
               d == n % 10
    <3>1. w \in Seq(0 .. 9) /\ d \in 0 .. 9 /\ DigitsOf[n] = Append(w, d)
      BY <2>1, <2>3 DEF Row
    <3> HIDE DEF w, d
    <3> QED BY <3>1, AppendProperties
  <2> QED BY <2>1, <2>2, <2>4, <2>5
<1> QED BY <1>2, <1>3

-----------------------------------------------------------------------------
(* Parsing and formatting.                                                 *)

(* Places with digits in them are a row.                                   *)
LEMMA RowOfPlaces ==
  ASSUME NEW k \in Nat, NEW f \in [1 .. k -> 0 .. 9]
  PROVE  f \in Row /\ Len(f) = k
BY DEF Row

(* A digit more.                                                           *)
LEMMA OnePlaceMore ==
  ASSUME NEW k \in Nat, NEW g \in [1 .. k -> 0 .. 9], NEW f \in [1 .. k + 1 -> 0 .. 9],
         \A i \in 1 .. k : f[i] = g[i]
  PROVE  NumberOf[f] = 10 * NumberOf[g] + f[k + 1]
<1>1. g \in Seq(0 .. 9) /\ Len(g) = k /\ f \in Seq(0 .. 9) /\ Len(f) = k + 1
  BY RowOfPlaces DEF Row
<1>2. f[k + 1] \in 0 .. 9
  OBVIOUS
<1> DEFINE h == Append(g, f[k + 1])
<1>3. /\ h \in Seq(0 .. 9) /\ Len(h) = Len(g) + 1 /\ h[Len(g) + 1] = f[k + 1]
      /\ \A i \in 1 .. Len(g) : h[i] = g[i]
  BY <1>1, <1>2, AppendProperties
<1>4. NumberOf[h] = 10 * NumberOf[g] + f[k + 1]
  BY <1>1, <1>2, NumberOfAppend DEF Row
<1> HIDE DEF h
<1>5. \A i \in 1 .. k + 1 : f[i] = h[i]
  <2>1. \A i \in 1 .. k + 1 : i \in 1 .. k \/ i = k + 1
    OBVIOUS
  <2> QED BY <1>1, <1>3, <2>1
<1>6. f = h
  BY <1>1, <1>3, <1>5, SeqEqual
<1> QED BY <1>4, <1>6

(* Padding with zeroes is multiplying.                                     *)
LEMMA PaddedNumber ==
  ASSUME NEW f \in Row, Len(f) <= Decimals
  PROVE  /\ Padded(f) \in Row
         /\ NumberOf[Padded(f)] = NumberOf[f] * Power[Decimals - Len(f)]
<1> DEFINE pad(k) == [i \in 1 .. Len(f) + k |-> IF i <= Len(f) THEN f[i] ELSE 0]
           P(k) == NumberOf[pad(k)] = NumberOf[f] * Power[k]
           S == {k \in Nat : P(k)}
<1>0. Len(f) \in Nat /\ \A i \in 1 .. Len(f) : f[i] \in 0 .. 9
  BY LenProperties, ElementOfSeq DEF Row
<1>1. ASSUME NEW k \in Nat
      PROVE  /\ Len(f) + k \in Nat /\ pad(k) \in [1 .. Len(f) + k -> 0 .. 9]
             /\ pad(k) \in Row /\ Len(pad(k)) = Len(f) + k
  <2>1. Len(f) + k \in Nat /\ pad(k) \in [1 .. Len(f) + k -> 0 .. 9]
    BY <1>0
  <2> HIDE DEF pad
  <2> QED BY <2>1, RowOfPlaces
<1>2. 0 \in S
  <2>1. pad(0) = f
    <3>1. \A i \in 1 .. Len(f) : pad(0)[i] = f[i]
      BY <1>0
    <3> HIDE DEF pad
    <3>2. pad(0) \in Seq(0 .. 9) /\ Len(pad(0)) = Len(f)
      BY <1>0, <1>1 DEF Row
    <3> QED BY <3>1, <3>2, SeqEqual DEF Row
  <2>2. NumberOf[f] \in Nat /\ Power[0] = 1
    BY NumberIs, PowerIs
  <2> HIDE DEF pad
  <2> QED BY <2>1, <2>2
<1>3. ASSUME NEW k \in S PROVE k + 1 \in S
  <2>0. k \in Nat /\ k + 1 \in Nat /\ Len(f) + (k + 1) = Len(f) + k + 1
    BY <1>0
  <2>1. \A i \in 1 .. Len(f) + k : pad(k + 1)[i] = pad(k)[i]
    BY <1>0, <2>0
  <2>2. pad(k + 1)[Len(f) + k + 1] = 0
    BY <1>0, <2>0
  <2>3. NumberOf[pad(k)] = NumberOf[f] * Power[k]
    OBVIOUS
  <2> HIDE DEF pad
  <2>4. NumberOf[pad(k + 1)] = 10 * NumberOf[pad(k)] + 0
    <3>1. /\ Len(f) + k \in Nat /\ pad(k) \in [1 .. Len(f) + k -> 0 .. 9]
          /\ pad(k + 1) \in [1 .. Len(f) + k + 1 -> 0 .. 9]
      BY <1>1, <2>0
    <3> QED BY <2>1, <2>2, <3>1, OnePlaceMore
  <2>5. NumberOf[f] \in Nat /\ Power[k] \in Nat /\ Power[k + 1] = 10 * Power[k]
    BY <2>0, NumberIs, PowerIs
  <2>6. \A a, b \in Nat : 10 * (a * b) + 0 = a * (10 * b)
    OBVIOUS
  <2> QED BY <2>0, <2>3, <2>4, <2>5, <2>6
<1>4. S = Nat
  <2>1. S \in SUBSET Nat
    OBVIOUS
  <2> HIDE DEF S
  <2> QED BY <1>2, <1>3, <2>1, FromZero
<1>5. Decimals - Len(f) \in Nat /\ Len(f) + (Decimals - Len(f)) = Decimals
  BY <1>0, AmountsAssumption
<1>6. Padded(f) = pad(Decimals - Len(f))
  BY <1>5 DEF Padded
<1>7. P(Decimals - Len(f))
  BY <1>4, <1>5
<1> HIDE DEF pad
<1> QED BY <1>1, <1>5, <1>6, <1>7

(* The places of a fraction stand for it.                                  *)
LEMMA PlacesNumber ==
  ASSUME NEW n \in Nat, n < Scale
  PROVE  Places(n) \in Row /\ Len(Places(n)) = Decimals /\ NumberOf[Places(n)] = n
<1> DEFINE upto(k) == [i \in 1 .. k |-> (n \div Power[Decimals - i]) % 10]
           P(k) == NumberOf[upto(k)] = n \div Power[Decimals - k]
           S == {k \in Nat : k <= Decimals => P(k)}
<1>0. Decimals \in Nat
  BY AmountsAssumption
<1>1. ASSUME NEW i \in Nat, i <= Decimals
      PROVE  /\ Decimals - i \in Nat /\ Power[Decimals - i] \in Nat \ {0}
             /\ n \div Power[Decimals - i] \in Nat
  <2>1. Decimals - i \in Nat /\ Power[Decimals - i] \in Nat \ {0}
    BY <1>0, <1>1, PowerPositive
  <2> QED BY <2>1, Quotient
<1>2. ASSUME NEW k \in Nat, k <= Decimals
      PROVE  upto(k) \in [1 .. k -> 0 .. 9]
  <2>1. ASSUME NEW i \in 1 .. k PROVE (n \div Power[Decimals - i]) % 10 \in 0 .. 9
    <3>1. n \div Power[Decimals - i] \in Nat
      BY <1>0, <1>1, <1>2
    <3> QED BY <3>1
  <2> QED BY <2>1
<1>3. 0 \in S
  <2>1. upto(0) = <<>>
    BY DEF upto
  <2>2. Decimals - 0 = Decimals /\ Power[Decimals] \in Nat \ {0}
    BY <1>0, PowerPositive
  <2>3. n \div Power[Decimals] = 0
    <3>1. n = Power[Decimals] * 0 + n /\ n \in 0 .. Power[Decimals] - 1
      BY <2>2 DEF Scale
    <3> QED BY <2>2, <3>1, QuotientUnique
  <2> HIDE DEF upto
  <2> QED BY <2>1, <2>2, <2>3, NumberIs
<1>4. ASSUME NEW k \in S PROVE k + 1 \in S
  <2> SUFFICES ASSUME k + 1 <= Decimals PROVE P(k + 1)
    OBVIOUS
  <2>1. k \in Nat /\ k + 1 \in Nat /\ k <= Decimals
    BY <1>0
  <2>2. P(k)
    BY <2>1
  <2>3. \A i \in 1 .. k : upto(k + 1)[i] = upto(k)[i]
    BY <2>1
  <2>4. upto(k + 1)[k + 1] = (n \div Power[Decimals - (k + 1)]) % 10
    BY <2>1
  <2>5. upto(k) \in [1 .. k -> 0 .. 9] /\ upto(k + 1) \in [1 .. k + 1 -> 0 .. 9]
    BY <1>2, <2>1
  <2> DEFINE b == Power[Decimals - (k + 1)]
  <2>6. b \in Nat \ {0}
    BY <1>1, <2>1
  <2>7. Power[Decimals - k] = 10 * b
    <3>1. (Decimals - (k + 1)) + 1 = Decimals - k /\ Decimals - (k + 1) \in Nat
      BY <1>0, <1>1, <2>1
    <3> QED BY <3>1, PowerIs
  <2> HIDE DEF upto, b
  <2>8. NumberOf[upto(k + 1)] = 10 * NumberOf[upto(k)] + upto(k + 1)[k + 1]
    BY <2>1, <2>3, <2>5, OnePlaceMore
  <2>9. n \div b = 10 * (n \div (10 * b)) + ((n \div b) % 10)
    BY <2>6, QuotientByTen
  <2>10. NumberOf[upto(k + 1)] = n \div b
    BY <2>2, <2>4, <2>7, <2>8, <2>9 DEF b
  <2> QED BY <2>10 DEF b
<1>5. S = Nat
  <2>1. S \in SUBSET Nat
    OBVIOUS
  <2> HIDE DEF S
  <2> QED BY <1>3, <1>4, <2>1, FromZero
<1>6. P(Decimals)
  <2>1. Decimals \in S /\ Decimals <= Decimals
    <3> HIDE DEF S
    <3> QED BY <1>0, <1>5
  <2> HIDE DEF upto
  <2> QED BY <2>1
<1>7. n \div Power[Decimals - Decimals] = n
  <2>1. Decimals - Decimals = 0 /\ Power[0] = 1
    BY <1>0, PowerIs
  <2>2. n \div 1 = n
    OBVIOUS
  <2> QED BY <2>1, <2>2
<1>8. Places(n) = upto(Decimals)
  BY DEF Places
<1>9. Places(n) \in [1 .. Decimals -> 0 .. 9]
  <2>1. Decimals <= Decimals
    BY <1>0
  <2> HIDE DEF upto
  <2> QED BY <1>0, <1>2, <1>8, <2>1
<1> HIDE DEF upto
<1> QED BY <1>0, <1>6, <1>7, <1>8, <1>9, RowOfPlaces

(* The units of a text are what it says, in units.                         *)
LEMMA UnitsAreMeant ==
  ASSUME NEW text \in AmountText, Len(text.frac) <= Decimals
  PROVE  /\ Len(text.frac) \in Nat /\ Decimals - Len(text.frac) \in Nat
         /\ Numerator(text) \in Nat /\ NumberOf[text.whole] \in Nat
         /\ Units(text) = Numerator(text) * Power[Decimals - Len(text.frac)]
         /\ NumberOf[text.whole] <= Units(text)
<1> DEFINE w == text.whole
           f == text.frac
           l == Len(f)
           m == Decimals - l
<1>1. w \in Row /\ f \in Row
  BY DEF AmountText, Row
<1>2. l \in Nat /\ m \in Nat /\ Decimals = l + m
  BY <1>1, LenProperties, AmountsAssumption DEF Row
<1>3. NumberOf[w] \in Nat /\ NumberOf[f] \in Nat
  BY <1>1, NumberIs
<1>4. Power[l] \in Nat \ {0} /\ Power[m] \in Nat \ {0} /\ Scale = Power[l] * Power[m]
  BY <1>2, PowerPositive, PowerSum DEF Scale
<1>5. Numerator(text) = NumberOf[w] * Power[l] + NumberOf[f]
  BY <1>1, NumberOfConcat DEF Numerator
<1>6. NumberOf[Padded(f)] = NumberOf[f] * Power[m]
  BY <1>1, PaddedNumber
<1>7. Units(text) = NumberOf[w] * (Power[l] * Power[m]) + NumberOf[f] * Power[m]
  BY <1>4, <1>6 DEF Units
<1> HIDE DEF w, f, l, m
<1>8. \A a, b \in Nat, x, y \in Nat \ {0} :
        /\ a * x + b \in Nat
        /\ a * (x * y) + b * y = (a * x + b) * y
        /\ a <= a * (x * y) + b * y
  <2> SUFFICES ASSUME NEW a \in Nat, NEW b \in Nat, NEW x \in Nat \ {0}, NEW y \in Nat \ {0}
               PROVE  /\ a * x + b \in Nat
                      /\ a * (x * y) + b * y = (a * x + b) * y
                      /\ a <= a * (x * y) + b * y
    OBVIOUS
  <2>1. a * x + b \in Nat /\ a * (x * y) + b * y = (a * x + b) * y /\ b * y \in Nat
    OBVIOUS
  <2>2. x * y \in Nat /\ x * y >= 1
    OBVIOUS
  <2>3. \A z \in Nat : z >= 1 => a <= a * z /\ a * z \in Nat
    OBVIOUS
  <2> QED BY <2>1, <2>2, <2>3
<1>9. /\ Numerator(text) \in Nat
      /\ Units(text) = Numerator(text) * Power[m]
      /\ NumberOf[w] <= Units(text)
  <2> DEFINE a == NumberOf[w]
             b == NumberOf[f]
             x == Power[l]
             y == Power[m]
  <2>1. a \in Nat /\ b \in Nat /\ x \in Nat \ {0} /\ y \in Nat \ {0}
    BY <1>3, <1>4
  <2>2. Numerator(text) = a * x + b /\ Units(text) = a * (x * y) + b * y
    BY <1>5, <1>7
  <2> HIDE DEF a, b, x, y
  <2>3. /\ a * x + b \in Nat
        /\ a * (x * y) + b * y = (a * x + b) * y
        /\ a <= a * (x * y) + b * y
    BY <1>8, <2>1
  <2>4. /\ Numerator(text) \in Nat
        /\ Units(text) = Numerator(text) * y
        /\ a <= Units(text)
    BY <2>2, <2>3
  <2> QED BY <2>4 DEF a, y
<1> QED BY <1>2, <1>3, <1>9 DEF w, f, l, m

(* parse_amount accepts the texts that stand for an amount, and no others. *)
THEOREM ParsesRepresentable == \A text \in AmountText : Parses(text) <=> Representable(text)
<1> SUFFICES ASSUME NEW text \in AmountText, Len(text.frac) <= Decimals
             PROVE  Parses(text) <=> Representable(text)
  BY DEF Parses, Representable
<1>1. /\ Numerator(text) \in Nat /\ NumberOf[text.whole] \in Nat
      /\ Units(text) = Numerator(text) * Power[Decimals - Len(text.frac)]
      /\ NumberOf[text.whole] <= Units(text)
      /\ Power[Decimals - Len(text.frac)] \in Nat \ {0}
  BY UnitsAreMeant, PowerPositive
<1>2. Units(text) \in Nat /\ (Units(text) = 0 <=> Numerator(text) = 0)
  <2>1. \A a \in Nat, b \in Nat \ {0} : a * b \in Nat /\ (a * b = 0 <=> a = 0)
    OBVIOUS
  <2> QED BY <1>1, <2>1
<1>3. I128Max \in Nat
  BY AmountsAssumption
<1> QED BY <1>1, <1>2, <1>3 DEF Parses, Representable

(* format_amount shows the amount that was typed.                          *)
THEOREM FormatsWhatWasTyped ==
  \A text \in AmountText : Parses(text) => SameAmount(FormatAmount(Units(text)), text)
<1> SUFFICES ASSUME NEW text \in AmountText, Parses(text)
             PROVE  SameAmount(FormatAmount(Units(text)), text)
  OBVIOUS
<1> DEFINE u == Units(text)
           l == Len(text.frac)
           m == Decimals - l
           whole == DigitsOf[u \div Scale]
           frac == Places(u % Scale)
<1>1. Len(text.frac) <= Decimals
  BY DEF Parses
<1>2. /\ l \in Nat /\ m \in Nat /\ Numerator(text) \in Nat
      /\ u = Numerator(text) * Power[m]
  BY <1>1, UnitsAreMeant
<1>3. Power[l] \in Nat \ {0} /\ Power[m] \in Nat \ {0} /\ Scale = Power[l] * Power[m]
  <2>1. Decimals = l + m
    BY <1>2, AmountsAssumption
  <2> QED BY <1>2, <2>1, PowerPositive, PowerSum DEF Scale
<1>4. u \in Nat /\ Scale \in Nat \ {0}
  <2>1. Scale \in Nat \ {0}
    BY AmountsAssumption, PowerPositive DEF Scale
  <2>2. \A a, b \in Nat : a * b \in Nat
    OBVIOUS
  <2> QED BY <1>2, <1>3, <2>1, <2>2
<1> HIDE DEF u, l, m
<1>5. /\ u \div Scale \in Nat /\ u % Scale \in 0 .. Scale - 1
      /\ u = Scale * (u \div Scale) + (u % Scale)
  BY <1>4, Quotient
<1>6. whole \in Row /\ NumberOf[whole] = u \div Scale
  BY <1>5, DigitsStandFor
<1>7. frac \in Row /\ Len(frac) = Decimals /\ NumberOf[frac] = u % Scale
  BY <1>4, <1>5, PlacesNumber
<1> HIDE DEF whole, frac
<1>8. Numerator(FormatAmount(u)) = u /\ Denominator(FormatAmount(u)) = Scale
  <2>1. FormatAmount(u).whole = whole /\ FormatAmount(u).frac = frac
    BY DEF FormatAmount, whole, frac
  <2>2. NumberOf[whole \o frac] = NumberOf[whole] * Power[Len(frac)] + NumberOf[frac]
    BY <1>6, <1>7, NumberOfConcat
  <2>3. Power[Len(frac)] = Scale
    BY <1>7 DEF Scale
  <2>4. (u \div Scale) * Scale + (u % Scale) = u
    BY <1>4, <1>5
  <2> QED BY <1>6, <1>7, <2>1, <2>2, <2>3, <2>4 DEF Numerator, Denominator
<1>9. u * Power[l] = Numerator(text) * Scale
  <2>1. \A a, x, y \in Nat : (a * y) * x = a * (x * y)
    OBVIOUS
  <2> QED BY <1>2, <1>3, <2>1
<1> QED BY <1>8, <1>9 DEF SameAmount, Denominator, u, l
=============================================================================
