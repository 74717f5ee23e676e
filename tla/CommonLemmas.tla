---------------------------- MODULE CommonLemmas ----------------------------
(***************************************************************************)
(* Facts about numbers, sets and sequences that the proofs of several      *)
(* components rest on: quotients and remainders (keys of timers, nodes of  *)
(* a buffer), least elements (the lowest free descriptor, the first timer, *)
(* the first entry of a vector) and entries erased from a vector.          *)
(***************************************************************************)
EXTENDS Digits, Integers, Sequences, SequencesExt, FiniteSetTheorems, SequenceTheorems,
        WellFoundedInduction, TLAPS

(* Steps of the modulus. *)
LEMMA MulStep ==
    ASSUME NEW W \in Nat \ {0}, NEW a \in Int, NEW b \in Int, a < b
    PROVE  W * a + W <= W * b
<1>1. PICK d \in Nat : b = a + 1 + d
  <2>1. b - a - 1 \in Nat /\ b = a + 1 + (b - a - 1)
    OBVIOUS
  <2> QED BY <2>1
<1>2. W * b = W * a + W + W * d
  BY <1>1
<1>3. W * d \in Nat /\ W * a \in Int
  OBVIOUS
<1> QED BY <1>2, <1>3

(* The remainder of a number whose multiple of W is known. *)
LEMMA ModBase ==
    ASSUME NEW W \in Nat \ {0}, NEW k \in Int, NEW x \in Int, W * k <= x, x < W * k + W
    PROVE  x % W = x - W * k
<1> DEFINE q == x \div W
<1>1. (x % W) \in 0..(W - 1) /\ x = W * q + (x % W) /\ q \in Int
  OBVIOUS
<1> HIDE DEF q
<1>2. W * q \in Int /\ W * k \in Int
  BY <1>1
<1>3. ~(q < k) /\ ~(k < q)
  BY <1>1, <1>2, MulStep
<1>4. q = k
  BY <1>1, <1>3
<1> QED BY <1>1, <1>2, <1>4

(* A set of natural numbers has a least one.                               *)
LEMMA MinExists ==
    ASSUME NEW T \in SUBSET Nat, T # {}
    PROVE  \E n \in T : \A m \in T : n <= m
<1>1. IsWellFoundedOn(OpToRel(<, Nat), Nat)
  BY NatLessThanWellFounded
<1>2. PICK n \in T : \A m \in T : ~(<<m, n>> \in OpToRel(<, Nat))
  BY <1>1, WFMin
<1>3. ASSUME NEW m \in T, m < n PROVE FALSE
  <2>1. <<m, n>> \in OpToRel(<, Nat)
    BY <1>3 DEF OpToRel
  <2> QED BY <1>2, <2>1
<1> QED BY <1>3

(* What erasing one entry of a vector leaves behind.                       *)
LEMMA RemoveAtSeq ==
    ASSUME NEW S, NEW s \in Seq(S), NEW i \in 1..Len(s)
    PROVE  /\ RemoveAt(s, i) \in Seq(S)
           /\ Len(RemoveAt(s, i)) = Len(s) - 1
           /\ \A j \in 1..(Len(s) - 1) :
                 RemoveAt(s, i)[j] = IF j < i THEN s[j] ELSE s[j + 1]
<1> DEFINE a == SubSeq(s, 1, i - 1)
<1> DEFINE b == SubSeq(s, i + 1, Len(s))
<1>1. Len(s) \in Nat /\ i \in Int /\ 1 <= i /\ i <= Len(s)
  BY LenProperties
<1>2. a \in Seq(S) /\ Len(a) = i - 1 /\ \A j \in 1..(i - 1) : a[j] = s[j]
  BY <1>1, SubSeqProperties
<1>3. b \in Seq(S) /\ Len(b) = Len(s) - i /\ \A j \in 1..(Len(s) - i) : b[j] = s[i + j]
  BY <1>1, SubSeqProperties
<1> HIDE DEF a, b
<1>4. a \o b \in Seq(S) /\ Len(a \o b) = Len(s) - 1
  <2>1. a \o b \in Seq(S) /\ Len(a \o b) = Len(a) + Len(b)
    BY ONLY <1>2, <1>3, ConcatProperties
  <2> QED BY <2>1, <1>1, <1>2, <1>3
<1>5. ASSUME NEW j \in 1..(Len(s) - 1)
      PROVE (a \o b)[j] = IF j < i THEN s[j] ELSE s[j + 1]
  <2>1. (a \o b)[j] = IF j <= Len(a) THEN a[j] ELSE b[j - Len(a)]
    BY <1>1, <1>2, <1>3, ConcatProperties
  <2>2. CASE j < i
    BY <2>1, <2>2, <1>1, <1>2
  <2>3. CASE ~(j < i)
    <3>1. j - (i - 1) \in 1..(Len(s) - i)
      BY <2>3, <1>1
    <3>2. b[j - (i - 1)] = s[j + 1]
      BY <3>1, <1>3, <1>1
    <3> QED BY <2>1, <2>3, <3>2, <1>1, <1>2
  <2> QED BY <2>2, <2>3
<1>6. RemoveAt(s, i) = a \o b
  BY DEF RemoveAt, a, b
<1> QED BY <1>4, <1>5, <1>6

(* A finite set in some order is a sequence of its elements.               *)
LEMMA SetToSeqType ==
    ASSUME NEW S, IsFiniteSet(S)
    PROVE  SetToSeq(S) \in Seq(S)
<1> DEFINE n == Cardinality(S)
<1>1. n \in Nat /\ Bijection(1..n, S) # {}
  BY FS_CardinalityType DEF ExistsBijection
<1>2. \E f \in [1..n -> S] : IsInjective(f)
  BY <1>1 DEF Bijection, Injection
<1>3. SetToSeq(S) \in [1..n -> S]
  BY <1>2 DEF SetToSeq
<1> HIDE DEF n
<1> QED BY <1>1, <1>3

(* Induction, with a set in the place of the predicate. *)
LEMMA NatInduct ==
    ASSUME NEW P \in SUBSET Nat, 0 \in P, \A n \in P : n + 1 \in P
    PROVE  P = Nat
<1> SUFFICES ASSUME Nat \ P # {} PROVE FALSE
  OBVIOUS
<1>1. PICK n \in Nat \ P : \A m \in Nat \ P : n <= m
  BY MinExists
<1>2. n # 0 /\ n - 1 \in Nat /\ ~(n <= n - 1)
  BY <1>1
<1>3. n - 1 \in P /\ (n - 1) + 1 = n
  BY <1>1, <1>2
<1> QED BY <1>1, <1>3

(* Primitive recursion: a first value and a step, which may depend on the  *)
(* number of the step.                                                     *)
IsRecursive(f, S, a, h) ==
    f \in [Nat -> S] /\ f[0] = a /\ \A n \in Nat : f[n + 1] = h[n][f[n]]

(* They define a function. *)
LEMMA NatRecursion ==
    ASSUME NEW S, NEW a \in S, NEW h \in [Nat -> [S -> S]]
    PROVE  \E f : IsRecursive(f, S, a, h)
<1> DEFINE OK(f, n) == f[0] = a /\ \A i \in 0..(n - 1) : f[i + 1] = h[i][f[i]]
<1> DEFINE P == {n \in Nat : \E f \in [0..n -> S] : OK(f, n)}
<1>1. 0 \in P
  <2> DEFINE f == [i \in 0..0 |-> a]
  <2>1. f \in [0..0 -> S] /\ OK(f, 0)
    OBVIOUS
  <2> QED BY <2>1
<1>2. ASSUME NEW n \in P PROVE n + 1 \in P
  <2>1. PICK f \in [0..n -> S] : OK(f, n)
    OBVIOUS
  <2> DEFINE g == [i \in 0..(n + 1) |-> IF i = n + 1 THEN h[n][f[n]] ELSE f[i]]
  <2>2. h[n][f[n]] \in S
    BY <2>1
  <2>3. g \in [0..(n + 1) -> S]
    BY <2>1, <2>2
  <2>4. g[0] = a
    BY <2>1
  <2>5. ASSUME NEW i \in 0..n PROVE g[i + 1] = h[i][g[i]]
    <3>1. g[i] = f[i]
      OBVIOUS
    <3>2. CASE i = n
      BY <3>1, <3>2
    <3>3. CASE i # n
      <4>1. i \in 0..(n - 1) /\ i + 1 # n + 1 /\ i + 1 \in 0..(n + 1)
        BY <3>3
      <4> QED BY <2>1, <3>1, <4>1
    <3> QED BY <3>2, <3>3
  <2>6. (n + 1) - 1 = n /\ n + 1 \in Nat
    OBVIOUS
  <2> HIDE DEF g
  <2> QED BY <2>3, <2>4, <2>5, <2>6
<1>3. P = Nat
  <2> HIDE DEF P
  <2>1. P \in SUBSET Nat
    BY DEF P
  <2> QED BY <1>1, <1>2, <2>1, NatInduct
<1>4. ASSUME NEW n \in Nat, NEW f \in [0..n -> S], OK(f, n),
             NEW m \in Nat, NEW g \in [0..m -> S], OK(g, m), n <= m
      PROVE  f[n] = g[n]
  <2> DEFINE Q == {i \in Nat : i <= n => f[i] = g[i]}
  <2>1. 0 \in Q
    BY <1>4
  <2>2. ASSUME NEW i \in Q PROVE i + 1 \in Q
    <3>1. CASE i + 1 <= n
      <4>1. i \in 0..(n - 1) /\ i \in 0..(m - 1) /\ f[i] = g[i]
        BY <1>4, <3>1
      <4>2. f[i + 1] = h[i][f[i]] /\ g[i + 1] = h[i][g[i]]
        BY <1>4, <4>1
      <4> QED BY <4>1, <4>2
    <3> QED BY <3>1
  <2>3. Q = Nat
    <3> HIDE DEF Q
    <3>1. Q \in SUBSET Nat
      BY DEF Q
    <3> QED BY <2>1, <2>2, <3>1, NatInduct
  <2>4. n \in Q
    BY <2>3
  <2> QED BY <2>4
<1> DEFINE F(n) == CHOOSE f \in [0..n -> S] : OK(f, n)
<1>5. \A n \in Nat : F(n) \in [0..n -> S] /\ OK(F(n), n)
  BY <1>3
<1> HIDE DEF F
<1> DEFINE r == [n \in Nat |-> F(n)[n]]
<1>6. r \in [Nat -> S] /\ r[0] = a
  BY <1>5
<1>7. ASSUME NEW n \in Nat PROVE r[n + 1] = h[n][r[n]]
  <2>1. F(n + 1)[n + 1] = h[n][F(n + 1)[n]]
    BY <1>5
  <2>2. F(n)[n] = F(n + 1)[n]
    <3>1. F(n) \in [0..n -> S] /\ OK(F(n), n)
      BY <1>5
    <3>2. n + 1 \in Nat /\ n <= n + 1 /\ F(n + 1) \in [0..(n + 1) -> S] /\ OK(F(n + 1), n + 1)
      BY <1>5
    <3> HIDE DEF OK
    <3> QED BY <1>4, <3>1, <3>2
  <2> QED BY <2>1, <2>2
<1> HIDE DEF r
<1> QED BY <1>6, <1>7 DEF IsRecursive

(* Quotient and remainder of a number that is given as W * k + r.          *)
LEMMA DivBase ==
    ASSUME NEW W \in Nat \ {0}, NEW k \in Int, NEW r \in 0..(W - 1), NEW x \in Int, x = W * k + r
    PROVE  x % W = r /\ x \div W = k
<1> DEFINE q == x \div W
<1>1. (x % W) \in 0..(W - 1) /\ x = W * q + (x % W) /\ q \in Int
  OBVIOUS
<1> HIDE DEF q
<1>2. W * q \in Int /\ W * k \in Int
  BY <1>1
<1>3. ~(q < k) /\ ~(k < q)
  BY <1>1, <1>2, MulStep
<1>4. q = k
  BY <1>1, <1>3
<1> QED BY <1>1, <1>2, <1>4 DEF q

(* The powers of w. *)
LEMMA PowRec ==
    ASSUME NEW w \in Nat
    PROVE  Pow(w, 0) = 1 /\ \A n \in Nat : Pow(w, n) \in Nat /\ Pow(w, n + 1) = w * Pow(w, n)
<1> DEFINE p[k \in Nat] == IF k = 0 THEN 1 ELSE w * p[k - 1]
<1>1. \E g : g = [k \in Nat |-> IF k = 0 THEN 1 ELSE w * g[k - 1]]
  <2> DEFINE h == [n \in Nat |-> [x \in Nat |-> w * x]]
  <2>1. h \in [Nat -> [Nat -> Nat]] /\ \A n, x \in Nat : h[n][x] = w * x
    OBVIOUS
  <2> HIDE DEF h
  <2>2. PICK g \in [Nat -> Nat] : g[0] = 1 /\ \A n \in Nat : g[n + 1] = h[n][g[n]]
    <3>1. 1 \in Nat
      OBVIOUS
    <3>2. \E f : IsRecursive(f, Nat, 1, h)
      BY <2>1, <3>1, NatRecursion
    <3> QED BY <3>2 DEF IsRecursive
  <2>3. ASSUME NEW k \in Nat PROVE g[k] = IF k = 0 THEN 1 ELSE w * g[k - 1]
    <3>1. CASE k = 0
      BY <2>2, <3>1
    <3>2. CASE k # 0
      <4>1. k - 1 \in Nat /\ (k - 1) + 1 = k
        BY <3>2
      <4>2. g[(k - 1) + 1] = h[k - 1][g[k - 1]]
        BY <2>2, <4>1
      <4> QED BY <2>1, <2>2, <3>2, <4>1, <4>2
    <3> QED BY <3>1, <3>2
  <2> QED BY <2>2, <2>3
<1>2. p = [k \in Nat |-> IF k = 0 THEN 1 ELSE w * p[k - 1]]
  BY <1>1 DEF p
<1>3. \A n : Pow(w, n) = p[n]
  BY DEF Pow
<1> HIDE DEF p
<1>4. p[0] = 1 /\ \A n \in Nat : p[n + 1] = w * p[n]
  BY <1>2
<1> DEFINE P == {n \in Nat : p[n] \in Nat}
<1>5. 0 \in P /\ \A n \in P : n + 1 \in P
  BY <1>4
<1>6. P = Nat
  <2>1. P \in SUBSET Nat
    OBVIOUS
  <2> HIDE DEF P
  <2> QED BY <1>5, <2>1, NatInduct
<1> QED BY <1>3, <1>4, <1>6

(* They are positive, and grow with the base and with the exponent. *)
LEMMA PowPositive ==
    ASSUME NEW w \in Nat \ {0}, NEW n \in Nat
    PROVE  Pow(w, n) \in Nat \ {0}
<1> DEFINE P == {k \in Nat : Pow(w, k) \in Nat \ {0}}
<1>1. 0 \in P
  BY PowRec
<1>2. ASSUME NEW k \in P PROVE k + 1 \in P
  BY PowRec
<1>3. P = Nat
  <2>1. P \in SUBSET Nat
    OBVIOUS
  <2> HIDE DEF P
  <2> QED BY <1>1, <1>2, <2>1, NatInduct
<1> QED BY <1>3

(* A power of the power 2 ^ g is a power of two. *)
LEMMA PowProduct ==
    ASSUME NEW w \in Nat, NEW a \in Nat, NEW b \in Nat
    PROVE  Pow(w, a + b) = Pow(w, a) * Pow(w, b)
<1> DEFINE P == {k \in Nat : Pow(w, a + k) = Pow(w, a) * Pow(w, k)}
<1>1. 0 \in P
  BY PowRec
<1>2. ASSUME NEW k \in P PROVE k + 1 \in P
  <2>1. Pow(w, a + (k + 1)) = w * Pow(w, a + k)
    <3>1. a + k \in Nat /\ a + (k + 1) = (a + k) + 1
      OBVIOUS
    <3> QED BY <3>1, PowRec
  <2>2. Pow(w, k + 1) = w * Pow(w, k) /\ Pow(w, k) \in Nat /\ Pow(w, a) \in Nat
    BY PowRec
  <2>3. Pow(w, a + k) = Pow(w, a) * Pow(w, k)
    OBVIOUS
  <2> QED BY <2>1, <2>2, <2>3
<1>3. P = Nat
  <2>1. P \in SUBSET Nat
    OBVIOUS
  <2> HIDE DEF P
  <2> QED BY <1>1, <1>2, <2>1, NatInduct
<1> QED BY <1>3

(* (w ^ a) ^ b = w ^ (a * b). *)
LEMMA PowOfPow ==
    ASSUME NEW w \in Nat, NEW a \in Nat, NEW b \in Nat
    PROVE  Pow(Pow(w, a), b) = Pow(w, a * b)
<1> DEFINE P == {k \in Nat : Pow(Pow(w, a), k) = Pow(w, a * k)}
<1>0. Pow(w, a) \in Nat
  BY PowRec
<1>1. 0 \in P
  <2>1. a * 0 = 0
    OBVIOUS
  <2> QED BY <1>0, <2>1, PowRec
<1>2. ASSUME NEW k \in P PROVE k + 1 \in P
  <2> DEFINE c == a * k
  <2>1. c \in Nat /\ a * (k + 1) = c + a /\ Pow(Pow(w, a), k) = Pow(w, c)
    OBVIOUS
  <2>2. Pow(Pow(w, a), k + 1) = Pow(w, a) * Pow(w, c)
    BY <1>0, <2>1, PowRec
  <2> HIDE DEF c
  <2>3. Pow(w, c + a) = Pow(w, c) * Pow(w, a) /\ Pow(w, c) \in Nat
    BY <2>1, PowProduct, PowRec
  <2>4. Pow(w, a) * Pow(w, c) = Pow(w, c) * Pow(w, a)
    BY <1>0, <2>3
  <2> QED BY <2>1, <2>2, <2>3, <2>4
<1>3. P = Nat
  <2>1. P \in SUBSET Nat
    OBVIOUS
  <2> HIDE DEF P
  <2> QED BY <1>1, <1>2, <2>1, NatInduct
<1> QED BY <1>3

(* A larger exponent gives no smaller power. *)
LEMMA PowMonotone ==
    ASSUME NEW w \in Nat \ {0}, NEW a \in Nat, NEW b \in Nat, a <= b
    PROVE  Pow(w, a) <= Pow(w, b)
<1> DEFINE c == b - a
<1>1. c \in Nat /\ b = a + c
  OBVIOUS
<1> HIDE DEF c
<1>2. Pow(w, b) = Pow(w, a) * Pow(w, c)
  BY <1>1, PowProduct
<1>3. Pow(w, a) \in Nat \ {0} /\ Pow(w, c) \in Nat \ {0}
  BY <1>1, PowPositive
<1> DEFINE x == Pow(w, a)
<1> DEFINE y == Pow(w, c)
<1>4. x \in Nat /\ y \in Nat \ {0}
  BY <1>3
<1> HIDE DEF x, y
<1>5. x <= x * y
  <2>1. PICK z \in Nat : y = z + 1
    <3>1. y - 1 \in Nat /\ y = (y - 1) + 1
      BY <1>4
    <3> QED BY <3>1
  <2>2. x * y = x * z + x /\ x * z \in Nat
    BY <1>4, <2>1
  <2> QED BY <1>4, <2>2
<1> QED BY <1>2, <1>5 DEF x, y

(* The sum of FromDigits, digit by digit. *)
LEMMA DigitSum ==
    ASSUME NEW w \in Nat, NEW d \in Seq(Nat)
    PROVE  \E s \in [0..Len(d) -> Nat] :
              /\ FromDigits(d, w) = s[Len(d)] /\ s[0] = 0
              /\ \A k \in 0..(Len(d) - 1) : s[k + 1] = s[k] + d[k + 1] * Pow(w, k)
<1> DEFINE n == Len(d)
<1> DEFINE e == [k \in Nat |-> IF k \in 1..n THEN d[k] ELSE 0]
<1>1. n \in Nat /\ e \in [Nat -> Nat] /\ \A k \in 1..n : e[k] = d[k]
  BY LenProperties, ElementOfSeq
<1>2. \A k \in Nat : Pow(w, k) \in Nat
  BY PowRec
<1> HIDE DEF e, n
<1> DEFINE t == [k \in Nat |-> e[k + 1] * Pow(w, k)]
<1> DEFINE h == [k \in Nat |-> [x \in Nat |-> x + t[k]]]
<1>3. h \in [Nat -> [Nat -> Nat]] /\ \A k, x \in Nat : h[k][x] = x + t[k]
  <2>1. ASSUME NEW k \in Nat PROVE e[k + 1] * Pow(w, k) \in Nat
    <3>1. k + 1 \in Nat /\ e[k + 1] \in Nat /\ Pow(w, k) \in Nat
      <4>1. k + 1 \in Nat
        OBVIOUS
      <4> HIDE DEF t, h
      <4>2. \A j \in Nat : e[j] \in Nat
        BY <1>1
      <4> QED BY <1>2, <4>1, <4>2
    <3> QED BY <3>1
  <2>2. t \in [Nat -> Nat]
    BY <2>1
  <2> HIDE DEF t
  <2> QED BY <2>2
<1> HIDE DEF h
<1>4. PICK f \in [Nat -> Nat] : f[0] = 0 /\ \A k \in Nat : f[k + 1] = h[k][f[k]]
  <2>1. 0 \in Nat
    OBVIOUS
  <2>2. \E f : IsRecursive(f, Nat, 0, h)
    BY <1>3, <2>1, NatRecursion
  <2> QED BY <2>2 DEF IsRecursive
<1> DEFINE g == [k \in 0..n |-> f[k]]
<1>5. ASSUME NEW k \in 0..n PROVE g[k] = IF k = 0 THEN 0 ELSE g[k - 1] + d[k] * Pow(w, k - 1)
  <2>1. CASE k = 0
    BY <1>1, <1>4, <2>1
  <2>2. CASE k # 0
    <3>1. k - 1 \in Nat /\ k - 1 \in 0..n /\ (k - 1) + 1 = k /\ k \in 1..n
      BY <1>1, <2>2
    <3>2. f[k] = f[k - 1] + t[k - 1]
      <4> HIDE DEF t
      <4>1. f[(k - 1) + 1] = h[k - 1][f[k - 1]] /\ f[k - 1] \in Nat
        BY <1>4, <3>1
      <4> QED BY <1>3, <3>1, <4>1
    <3>3. t[k - 1] = d[k] * Pow(w, k - 1)
      BY <1>1, <3>1
    <3> HIDE DEF t
    <3> QED BY <2>2, <3>1, <3>2, <3>3
  <2> QED BY <2>1, <2>2
<1>6. g = [k \in 0..n |-> IF k = 0 THEN 0 ELSE g[k - 1] + d[k] * Pow(w, k - 1)]
  BY <1>5
<1> DEFINE s[k \in 0..n] == IF k = 0 THEN 0 ELSE s[k - 1] + d[k] * Pow(w, k - 1)
<1>7. s = [k \in 0..n |-> IF k = 0 THEN 0 ELSE s[k - 1] + d[k] * Pow(w, k - 1)]
  BY <1>6 DEF s
<1>8. FromDigits(d, w) = s[n]
  BY DEF FromDigits, n
<1> HIDE DEF s, g
<1>9. s[0] = 0 /\ \A k \in 0..(n - 1) : s[k + 1] = s[k] + d[k + 1] * Pow(w, k)
  <2>1. s[0] = 0
    BY <1>1, <1>7
  <2>2. ASSUME NEW k \in 0..(n - 1) PROVE s[k + 1] = s[k] + d[k + 1] * Pow(w, k)
    <3>1. k + 1 \in 0..n /\ k + 1 # 0 /\ (k + 1) - 1 = k
      BY <1>1
    <3> QED BY <1>7, <3>1
  <2> QED BY <2>1, <2>2
<1> DEFINE P == {k \in Nat : k <= n => s[k] \in Nat}
<1>10. 0 \in P
  BY <1>9
<1>11. ASSUME NEW k \in P PROVE k + 1 \in P
  <2>1. CASE k + 1 <= n
    <3>1. k \in 0..(n - 1) /\ s[k] \in Nat /\ k + 1 \in 1..n
      BY <1>1, <2>1
    <3>2. d[k + 1] = e[k + 1] /\ e[k + 1] \in Nat /\ Pow(w, k) \in Nat
      <4>1. k + 1 \in Nat /\ k \in Nat
        BY <3>1
      <4> QED BY <1>1, <1>2, <3>1, <4>1
    <3> DEFINE x == d[k + 1]
    <3> DEFINE y == Pow(w, k)
    <3> DEFINE z == x * y
    <3>3. x \in Nat /\ y \in Nat /\ s[k + 1] = s[k] + z
      BY <1>9, <3>1, <3>2
    <3> HIDE DEF x, y
    <3>4. z \in Nat
      BY <3>3
    <3> HIDE DEF z
    <3> DEFINE u == s[k]
    <3>5. u \in Nat /\ s[k + 1] = u + z
      BY <3>1, <3>3
    <3> HIDE DEF u, P
    <3>6. s[k + 1] \in Nat
      BY <3>4, <3>5
    <3> QED BY <3>6 DEF P
  <2> QED BY <2>1
<1>12. P = Nat
  <2>1. P \in SUBSET Nat
    OBVIOUS
  <2> HIDE DEF P
  <2> QED BY <1>10, <1>11, <2>1, NatInduct
<1>13. s \in [0..n -> Nat]
  <2>1. \A k \in 0..n : s[k] \in Nat
    <3>1. ASSUME NEW k \in 0..n PROVE s[k] \in Nat
      <4>1. k \in Nat /\ k <= n
        BY <1>1
      <4> QED BY <1>12, <4>1
    <3> QED BY <3>1
  <2>2. s = [k \in 0..n |-> s[k]]
    BY <1>7
  <2> HIDE DEF P
  <2> QED BY <2>1, <2>2
<1> QED BY <1>8, <1>9, <1>13 DEF n

(* One digit more. *)
LEMMA NextDigit ==
    ASSUME NEW w \in Nat \ {0}, NEW p \in Nat \ {0}, NEW v \in Nat
    PROVE  v % (w * p) = (v % p) + ((v \div p) % w) * p
<1> DEFINE q == v \div p
<1> DEFINE r == v % p
<1>1. q \in Nat /\ r \in 0..(p - 1) /\ v = p * q + r
  OBVIOUS
<1> HIDE DEF q, r
<1> DEFINE u == q \div w
<1> DEFINE e == q % w
<1>2. u \in Nat /\ e \in 0..(w - 1) /\ q = w * u + e
  BY <1>1
<1> HIDE DEF u, e
<1> DEFINE m == w * p
<1> DEFINE t == r + e * p
<1>3. m \in Nat \ {0} /\ t \in Nat
  BY <1>1, <1>2
<1>4. v = m * u + t
  <2>1. p * q = p * (w * u) + p * e
    BY <1>1, <1>2
  <2>2. p * (w * u) = m * u
    BY <1>1, <1>2
  <2>3. p * e = e * p /\ p * e \in Nat /\ m * u \in Nat
    BY <1>1, <1>2, <1>3
  <2> QED BY <1>1, <2>1, <2>2, <2>3
<1>5. t <= m - 1
  <2>1. p * e + p <= p * w
    BY <1>2, MulStep
  <2>2. p * w = m /\ p * e = e * p /\ p * e \in Nat
    BY <1>1, <1>2
  <2> QED BY <1>1, <1>3, <2>1, <2>2
<1> HIDE DEF m, t
<1>6. t \in 0..(m - 1)
  BY <1>3, <1>5
<1>7. v % m = t
  <2>1. v \in Int /\ u \in Int
    BY <1>2
  <2> QED BY <1>3, <1>4, <1>6, <2>1, DivBase
<1> QED BY <1>7 DEF m, t, e, q, r

(* The digits of a number give the number back, as far as they go. *)
LEMMA DigitsBack ==
    ASSUME NEW w \in Nat \ {0}, NEW v \in Nat, NEW d \in Seq(Nat),
           \A k \in 1..Len(d) : d[k] = Digit(v, w, k)
    PROVE  FromDigits(d, w) = v % Pow(w, Len(d))
<1> DEFINE n == Len(d)
<1>1. n \in Nat
  BY LenProperties
<1>2. PICK s \in [0..n -> Nat] :
              /\ FromDigits(d, w) = s[n] /\ s[0] = 0
              /\ \A k \in 0..(n - 1) : s[k + 1] = s[k] + d[k + 1] * Pow(w, k)
  BY DigitSum
<1> HIDE DEF n
<1> DEFINE P == {k \in Nat : k <= n => s[k] = v % Pow(w, k)}
<1>3. 0 \in P
  BY <1>2, PowRec
<1>4. ASSUME NEW k \in P PROVE k + 1 \in P
  <2>1. CASE k + 1 <= n
    <3> DEFINE p == Pow(w, k)
    <3>1. k \in 0..(n - 1) /\ k + 1 \in 1..n /\ (k + 1) - 1 = k /\ s[k] = v % p
      BY <1>1, <2>1
    <3>2. p \in Nat \ {0} /\ Pow(w, k + 1) = w * p
      BY PowRec, PowPositive
    <3>3. d[k + 1] = (v \div p) % w
      BY <3>1 DEF Digit, n
    <3>4. s[k + 1] = s[k] + d[k + 1] * p
      BY <1>2, <3>1
    <3> HIDE DEF p
    <3>5. v % (w * p) = (v % p) + ((v \div p) % w) * p
      BY <3>2, NextDigit
    <3>6. s[k + 1] = v % Pow(w, k + 1)
      BY <3>1, <3>2, <3>3, <3>4, <3>5
    <3> QED BY <3>6
  <2> QED BY <2>1
<1>5. P = Nat
  <2>1. P \in SUBSET Nat
    OBVIOUS
  <2> HIDE DEF P
  <2> QED BY <1>3, <1>4, <2>1, NatInduct
<1>6. n \in P
  BY <1>1, <1>5
<1> QED BY <1>1, <1>2, <1>6 DEF n

(* A digit is less than the base. *)
LEMMA DigitRange ==
    ASSUME NEW w \in Nat \ {0}, NEW v \in Nat, NEW i \in Nat \ {0}
    PROVE  Digit(v, w, i) \in 0..(w - 1)
<1> DEFINE p == Pow(w, i - 1)
<1>1. p \in Nat \ {0}
  <2>1. i - 1 \in Nat
    OBVIOUS
  <2> QED BY <2>1, PowPositive
<1> HIDE DEF p
<1> DEFINE q == v \div p
<1>2. q \in Nat
  BY <1>1
<1> HIDE DEF q
<1>3. (q % w) \in 0..(w - 1)
  BY <1>2
<1> QED BY <1>3 DEF Digit, q, p

(* Digits give a number. *)
LEMMA FromDigitsType ==
    ASSUME NEW w \in Nat, NEW d \in Seq(Nat)
    PROVE  FromDigits(d, w) \in Nat
<1>1. PICK s \in [0..Len(d) -> Nat] : FromDigits(d, w) = s[Len(d)]
  BY DigitSum
<1>2. Len(d) \in Nat /\ Len(d) \in 0..Len(d)
  BY LenProperties
<1> QED BY <1>1, <1>2

(* All digits of a number give it back. *)
LEMMA AllDigitsBack ==
    ASSUME NEW w \in Nat \ {0}, NEW v \in Nat, NEW d \in Seq(Nat),
           \A k \in 1..Len(d) : d[k] = Digit(v, w, k), v < Pow(w, Len(d))
    PROVE  FromDigits(d, w) = v
<1>1. FromDigits(d, w) = v % Pow(w, Len(d))
  BY DigitsBack
<1> DEFINE p == Pow(w, Len(d))
<1>2. p \in Nat \ {0}
  BY LenProperties, PowPositive
<1> HIDE DEF p
<1>3. v < p
  BY DEF p
<1>4. v % p = v
  <2>1. v \in 0..(p - 1) /\ v = p * 0 + v /\ v \in Int /\ 0 \in Int
    BY <1>2, <1>3
  <2> QED BY <1>2, <2>1, DivBase
<1> QED BY <1>1, <1>4 DEF p

(* A sequence reversed is one of the same elements, and reversed twice     *)
(* itself.                                                                 *)
LEMMA ReverseSeq ==
    ASSUME NEW S, NEW s \in Seq(S)
    PROVE  Reverse(s) \in Seq(S) /\ Len(Reverse(s)) = Len(s) /\ Reverse(Reverse(s)) = s
<1> DEFINE n == Len(s)
<1>1. n \in Nat /\ s \in [1..n -> S]
  BY LenProperties
<1>2. \A i \in 1..n : (n - i) + 1 \in 1..n /\ (n - ((n - i) + 1)) + 1 = i
  BY <1>1
<1> DEFINE t == [i \in 1..n |-> s[(n - i) + 1]]
<1>3. Reverse(s) = t
  BY DEF Reverse
<1> HIDE DEF n
<1>4. t \in [1..n -> S]
  BY <1>1, <1>2
<1>5. t \in Seq(S) /\ Len(t) = n
  BY <1>1, <1>4
<1>6. Reverse(t) = [i \in 1..n |-> t[(n - i) + 1]]
  <2> HIDE DEF t
  <2>1. Reverse(t) = [i \in 1..Len(t) |-> t[(Len(t) - i) + 1]]
    BY DEF Reverse
  <2> QED BY <1>5, <2>1
<1>7. \A i \in 1..n : t[(n - i) + 1] = s[i]
  BY <1>2
<1>8. [i \in 1..n |-> t[(n - i) + 1]] = s
  BY <1>1, <1>7
<1> QED BY <1>3, <1>5, <1>6, <1>8 DEF n
=============================================================================
