--------------------------- MODULE BackoffProofs ---------------------------
(***************************************************************************)
(* The cold start's backoff in a word of Width bits is the documented      *)
(* BaseDelay * 2^attempt, capped at MaxDelay, for every attempt.           *)
(*                                                                         *)
(* Induction is used in the form of NatSet, over sets instead of           *)
(* operators, first to show that Pow2's equation defines it.               *)
(***************************************************************************)
EXTENDS Lifecycle, WellFoundedInduction, TLAPS

(* A set that has 0 and every successor of its members has every natural.  *)
LEMMA NatSet ==
    ASSUME NEW S \in SUBSET Nat, 0 \in S, \A n \in S : n + 1 \in S
    PROVE  S = Nat
<1> DEFINE T == Nat \ S
           R == OpToRel(<, Nat)
<1> SUFFICES ASSUME T # {} PROVE FALSE
  OBVIOUS
<1>1. IsWellFoundedOn(R, Nat)
  BY NatLessThanWellFounded
<1>2. \A y, x \in Nat : y < x => <<y, x>> \in R
  BY DEF OpToRel
<1>3. PICK x \in T : \A y \in T : ~(<<y, x>> \in R)
  <2>1. T \subseteq Nat
    OBVIOUS
  <2> HIDE DEF R, T
  <2> QED BY <1>1, <2>1, WFMin
<1>4. \A y \in T : ~(y < x)
  BY <1>2, <1>3
<1>5. x \in Nat /\ x # 0 /\ x \notin S
  OBVIOUS
<1>6. x - 1 \in Nat /\ x - 1 < x /\ (x - 1) + 1 = x
  BY <1>5
<1>7. x - 1 \in S
  BY <1>4, <1>6
<1> QED BY <1>5, <1>6, <1>7

(* The first n + 1 powers of two. *)
Doubles(f, n) == f[0] = 1 /\ \A i \in 1..n : f[i] = 2 * f[i - 1]

LEMMA DoublesExist == \A n \in Nat : \E f \in [0..n -> Nat] : Doubles(f, n)
<1> DEFINE S == {n \in Nat : \E f \in [0..n -> Nat] : Doubles(f, n)}
<1>1. 0 \in S
  <2> DEFINE f == [i \in 0..0 |-> 1]
  <2>1. f \in [0..0 -> Nat] /\ Doubles(f, 0)
    BY DEF Doubles
  <2> QED BY <2>1
<1>2. ASSUME NEW n \in S PROVE n + 1 \in S
  <2>1. PICK f \in [0..n -> Nat] : Doubles(f, n)
    OBVIOUS
  <2> DEFINE g == [i \in 0..(n + 1) |-> IF i <= n THEN f[i] ELSE 2 * f[n]]
  <2>2. n \in Nat /\ n \in 0..n
    OBVIOUS
  <2>3. g \in [0..(n + 1) -> Nat]
    BY <2>2
  <2>4. g[0] = 1
    BY <2>1, <2>2 DEF Doubles
  <2>5. ASSUME NEW i \in 1..(n + 1) PROVE g[i] = 2 * g[i - 1]
    <3>1. CASE i <= n
      BY <2>1, <2>2, <3>1 DEF Doubles
    <3>2. CASE i = n + 1
      BY <2>2, <3>2
    <3> QED BY <2>2, <3>1, <3>2
  <2>6. Doubles(g, n + 1)
    <3> HIDE DEF g
    <3> QED BY <2>4, <2>5 DEF Doubles
  <2> QED BY <2>2, <2>3, <2>6
<1>3. S = Nat
  <2> HIDE DEF S
  <2>1. S \in SUBSET Nat
    BY DEF S
  <2> QED BY <1>1, <1>2, <2>1, NatSet
<1> QED BY <1>3

LEMMA DoublesUnique ==
    ASSUME NEW n \in Nat, NEW m \in Nat,
           NEW f \in [0..n -> Nat], NEW g \in [0..m -> Nat],
           Doubles(f, n), Doubles(g, m), NEW i \in 0..n, i <= m
    PROVE  f[i] = g[i]
<1> DEFINE S == {j \in Nat : j <= n /\ j <= m => f[j] = g[j]}
<1>1. 0 \in S
  BY DEF Doubles
<1>2. ASSUME NEW j \in S PROVE j + 1 \in S
  <2> SUFFICES ASSUME j + 1 <= n, j + 1 <= m PROVE f[j + 1] = g[j + 1]
    OBVIOUS
  <2>1. j \in Nat /\ f[j] = g[j] /\ j + 1 \in 1..n /\ j + 1 \in 1..m /\ (j + 1) - 1 = j
    OBVIOUS
  <2>2. f[j + 1] = 2 * f[(j + 1) - 1] /\ g[j + 1] = 2 * g[(j + 1) - 1]
    BY <2>1 DEF Doubles
  <2> QED BY <2>1, <2>2
<1>3. S = Nat
  <2>1. S \in SUBSET Nat
    OBVIOUS
  <2> HIDE DEF S
  <2> QED BY <1>1, <1>2, <2>1, NatSet
<1>4. i \in S
  <2>1. i \in Nat
    OBVIOUS
  <2> HIDE DEF S
  <2> QED BY <1>3, <2>1
<1> QED BY <1>4

(* Pow2 is what its equation says. *)
LEMMA Pow2Def == Pow2 = [n \in Nat |-> IF n = 0 THEN 1 ELSE 2 * Pow2[n - 1]]
<1> DEFINE D(n) == CHOOSE f \in [0..n -> Nat] : Doubles(f, n)
           F == [n \in Nat |-> D(n)[n]]
<1>1. \A n \in Nat : D(n) \in [0..n -> Nat] /\ Doubles(D(n), n)
  BY DoublesExist
<1>2. ASSUME NEW n \in Nat PROVE F[n] = IF n = 0 THEN 1 ELSE 2 * F[n - 1]
  <2>1. CASE n = 0
    BY <1>1, <2>1 DEF Doubles
  <2>2. CASE n # 0
    <3>1. n - 1 \in Nat /\ n \in 1..n /\ n - 1 \in 0..(n - 1) /\ n - 1 <= n
      BY <2>2
    <3> HIDE DEF D
    <3>2. D(n)[n] = 2 * D(n)[n - 1]
      BY <1>1, <3>1 DEF Doubles
    <3>3. D(n - 1)[n - 1] = D(n)[n - 1]
      BY <1>1, <3>1, DoublesUnique
    <3> QED BY <2>2, <3>1, <3>2, <3>3
  <2> QED BY <2>1, <2>2
<1>3. F = [n \in Nat |-> IF n = 0 THEN 1 ELSE 2 * F[n - 1]]
  <2> HIDE DEF D
  <2>1. F = [n \in Nat |-> F[n]]
    OBVIOUS
  <2> HIDE DEF F
  <2> QED BY <1>2, <2>1
<1> HIDE DEF F
<1> QED BY <1>3 DEF Pow2

LEMMA Pow2Step == Pow2[0] = 1 /\ \A n \in Nat : Pow2[n + 1] = 2 * Pow2[n]
<1>1. \A n \in Nat : Pow2[n] = IF n = 0 THEN 1 ELSE 2 * Pow2[n - 1]
  BY Pow2Def
<1>2. \A n \in Nat : n + 1 \in Nat /\ n + 1 # 0 /\ (n + 1) - 1 = n
  OBVIOUS
<1> QED BY <1>1, <1>2

LEMMA Pow2Type == \A n \in Nat : Pow2[n] \in Nat /\ Pow2[n] >= 1
<1> DEFINE S == {n \in Nat : Pow2[n] \in Nat /\ Pow2[n] >= 1}
<1>1. 0 \in S
  BY Pow2Step
<1>2. ASSUME NEW n \in S PROVE n + 1 \in S
  BY Pow2Step
<1>3. S = Nat
  <2>1. S \in SUBSET Nat
    OBVIOUS
  <2> HIDE DEF S
  <2> QED BY <1>1, <1>2, <2>1, NatSet
<1> QED BY <1>3

(* 2^(a + b) = 2^a * 2^b. *)
LEMMA Pow2Sum == \A a, b \in Nat : Pow2[a + b] = Pow2[a] * Pow2[b]
<1> SUFFICES ASSUME NEW a \in Nat PROVE \A b \in Nat : Pow2[a + b] = Pow2[a] * Pow2[b]
  OBVIOUS
<1> DEFINE S == {b \in Nat : Pow2[a + b] = Pow2[a] * Pow2[b]}
<1>1. 0 \in S
  BY Pow2Step, Pow2Type
<1>2. ASSUME NEW b \in S PROVE b + 1 \in S
  <2>1. b \in Nat /\ a + b \in Nat /\ a + (b + 1) = (a + b) + 1
    OBVIOUS
  <2>2. Pow2[a + (b + 1)] = 2 * Pow2[a + b] /\ Pow2[b + 1] = 2 * Pow2[b]
    BY <2>1, Pow2Step
  <2>3. ASSUME NEW x \in Nat, NEW y \in Nat PROVE 2 * (x * y) = x * (2 * y)
    OBVIOUS
  <2>4. 2 * (Pow2[a] * Pow2[b]) = Pow2[a] * (2 * Pow2[b])
    BY <2>1, <2>3, Pow2Type
  <2> QED BY <2>1, <2>2, <2>4
<1>3. S = Nat
  <2>1. S \in SUBSET Nat
    OBVIOUS
  <2> HIDE DEF S
  <2> QED BY <1>1, <1>2, <2>1, NatSet
<1> QED BY <1>3

----------------------------------------------------------------------------
(* A value that fits its word is what it is. *)
LEMMA WrappedSmall ==
    ASSUME NEW x \in Nat, x < Pow2[Width - 1]
    PROVE  Wrapped(x) = x
<1> DEFINE h == Pow2[Width - 1]
<1>1. Width - 1 \in Nat /\ (Width - 1) + 1 = Width
  BY PolicyAssumption
<1>2. Pow2[Width] = 2 * h /\ h \in Nat /\ h >= 1
  BY <1>1, Pow2Step, Pow2Type
<1>3. ASSUME NEW k \in Nat, k >= 1, NEW y \in Nat, y < k PROVE ((y + k) % (2 * k)) - k = y
  BY <1>3
<1> HIDE DEF h
<1>4. ((x + h) % (2 * h)) - h = x
  BY <1>2, <1>3 DEF h
<1> QED BY <1>2, <1>4 DEF Wrapped, h

(* A value that does not fit comes out as a multiple of any power of two   *)
(* that divides it, so it is not positive or no smaller than that power.   *)
LEMMA WrappedMultiple ==
    ASSUME NEW c \in Nat, NEW e \in Nat
    PROVE  LET x == c * Pow2[e] IN
           Wrapped(x) \in Int /\ (Wrapped(x) <= 0 \/ Wrapped(x) >= Pow2[e])
<1> DEFINE x == c * Pow2[e]
           h == Pow2[Width - 1]
           t == (x + h) \div (2 * h)
           w == (x + h) % (2 * h)
<1>1. Width - 1 \in Nat /\ (Width - 1) + 1 = Width
  BY PolicyAssumption
<1>2. Pow2[Width] = 2 * h /\ h \in Nat /\ h >= 1 /\ x \in Nat /\ Pow2[e] \in Nat /\ Pow2[e] >= 1
  BY <1>1, Pow2Step, Pow2Type
<1>3. Wrapped(x) = w - h
  BY <1>2 DEF Wrapped
<1>4. ASSUME NEW k \in Nat, k >= 1, NEW y \in Nat
      PROVE  /\ y \div k \in Nat /\ y % k \in Nat
             /\ y = k * (y \div k) + (y % k) /\ y % k < k
  BY <1>4
<1>5. t \in Nat /\ w \in Nat /\ x + h = (2 * h) * t + w /\ w < 2 * h
  <2>1. 2 * h \in Nat /\ 2 * h >= 1 /\ x + h \in Nat
    BY <1>2
  <2> HIDE DEF x, h
  <2> QED BY <2>1, <1>4
<1>6. ASSUME NEW k \in Nat, k >= 1, NEW z \in Int
      PROVE  k * z \in Int /\ (z <= 0 => k * z <= 0) /\ (z >= 1 => k * z >= k)
  BY <1>6
<1>7. CASE e >= Width
  <2> DEFINE m == c * Pow2[e - Width]
  <2>1. e - Width \in Nat /\ Width \in Nat /\ Width + (e - Width) = e
    BY <1>7, PolicyAssumption
  <2>2. Pow2[e] = (2 * h) * Pow2[e - Width] /\ Pow2[e - Width] \in Nat
    <3>1. ASSUME NEW d \in Nat PROVE Pow2[Width + d] = Pow2[Width] * Pow2[d] /\ Pow2[d] \in Nat
      BY <2>1, Pow2Sum, Pow2Type
    <3> HIDE DEF h
    <3> QED BY <1>2, <2>1, <3>1
  <2>3. ASSUME NEW p \in Nat, NEW k \in Nat PROVE c * (k * p) = k * (c * p) /\ c * p \in Nat
    OBVIOUS
  <2>4. x = (2 * h) * m /\ m \in Nat
    BY <1>2, <2>2, <2>3
  <2>5. w - h = (2 * h) * (m - t) + h - h /\ m - t \in Int
    <3>1. ASSUME NEW k \in Nat, NEW i \in Nat, NEW j \in Nat PROVE k * (i - j) = k * i - k * j
      OBVIOUS
    <3> HIDE DEF x, h, t, w, m
    <3> QED BY <1>2, <1>5, <2>4, <3>1
  <2>6. w = h
    <3>1. (2 * h) * (m - t) = w - h
      BY <1>2, <1>5, <2>5
    <3>2. 2 * h \in Nat /\ 2 * h >= 1
      BY <1>2
    <3> HIDE DEF x, h, t, w, m
    <3>3. CASE m - t >= 1
      BY <1>2, <1>5, <1>6, <2>5, <3>1, <3>2, <3>3
    <3>4. CASE t - m >= 1
      <4>1. ASSUME NEW k \in Nat, NEW i \in Int PROVE k * (0 - i) = 0 - k * i
        OBVIOUS
      <4>2. (2 * h) * (t - m) = h - w /\ (2 * h) * (t - m) >= 2 * h
        BY <1>2, <1>5, <1>6, <2>4, <2>5, <3>1, <3>2, <3>4, <4>1
      <4> QED BY <1>2, <1>5, <4>2
    <3>5. CASE m - t = 0
      BY <1>2, <1>5, <2>5, <3>1, <3>5
    <3> QED BY <1>5, <2>4, <3>3, <3>4, <3>5
  <2> QED
    <3> HIDE DEF w, h, t
    <3> QED BY <1>2, <1>3, <2>6
<1>8. CASE e < Width
  <2> DEFINE q == Pow2[e]
             a == Pow2[(Width - 1) - e]
             z == c - 2 * a * t
  <2>1. (Width - 1) - e \in Nat /\ e + ((Width - 1) - e) = Width - 1
    BY <1>8, PolicyAssumption
  <2>2. h = q * a /\ a \in Nat /\ q \in Nat /\ q >= 1
    <3>1. ASSUME NEW d \in Nat PROVE Pow2[e + d] = Pow2[e] * Pow2[d] /\ Pow2[d] \in Nat
      BY Pow2Sum, Pow2Type
    <3> QED BY <1>2, <2>1, <3>1
  <2>3. ASSUME NEW k \in Nat, NEW i \in Nat, NEW j \in Nat
        PROVE  k * (c - 2 * i * j) = c * k - (2 * (k * i)) * j /\ c - 2 * i * j \in Int
    OBVIOUS
  <2>4. w - h = q * z /\ z \in Int
    <3> HIDE DEF w, h, t, a, q
    <3>1. q * (c - 2 * a * t) = c * q - (2 * (q * a)) * t /\ c - 2 * a * t \in Int
      BY <1>5, <2>2, <2>3
    <3>2. x = c * q
      BY DEF q
    <3> HIDE DEF x
    <3> QED BY <1>2, <1>5, <2>2, <3>1, <3>2
  <2>5. q * z \in Int /\ (z <= 0 \/ z >= 1)
    <3> HIDE DEF q, z
    <3> QED BY <1>6, <2>2, <2>4
  <2>6. q * z <= 0 \/ q * z >= q
    <3> HIDE DEF q, z
    <3> QED BY <1>6, <2>2, <2>4, <2>5
  <2>7. Wrapped(x) = q * z
    BY <1>3, <2>4
  <2> QED
    <3> HIDE DEF z
    <3> QED BY <2>5, <2>6, <2>7
<1> QED
  <2>1. e >= Width \/ e < Width
    BY PolicyAssumption
  <2> QED BY <1>7, <1>8, <2>1

LEMMA Pow2Grows == \A a, b \in Nat : a <= b => Pow2[a] <= Pow2[b]
<1> SUFFICES ASSUME NEW a \in Nat, NEW b \in Nat, a <= b PROVE Pow2[a] <= Pow2[b]
  OBVIOUS
<1>1. ASSUME NEW d \in Nat
      PROVE  Pow2[a + d] = Pow2[a] * Pow2[d] /\ Pow2[d] \in Nat /\ Pow2[d] >= 1
  BY Pow2Sum, Pow2Type
<1>2. b - a \in Nat /\ a + (b - a) = b
  OBVIOUS
<1>3. ASSUME NEW k \in Nat, NEW m \in Nat, m >= 1 PROVE k * m >= k
  BY <1>3
<1>4. Pow2[a] \in Nat
  BY Pow2Type
<1> QED BY <1>1, <1>2, <1>3, <1>4

(* Where the word is too short for BaseDelay * 2^n, the shift is cut off   *)
(* by one of its three guards.                                             *)
LEMMA BackoffCut ==
    ASSUME NEW n \in Nat, BaseDelay * Pow2[n] >= Pow2[Width - 1]
    PROVE  Backoff(n) = MaxDelay /\ BaseDelay * Pow2[n] > MaxDelay
<1> DEFINE x == BaseDelay * Pow2[n]
<1>1. BaseDelay \in Nat /\ MaxDelay \in Nat /\ MaxDelay >= 1 /\ Width - 1 \in Nat
  BY PolicyAssumption
<1>2. PICK odd \in 1..BaseDelay, k \in 0..Width :
         BaseDelay = odd * Pow2[k] /\ odd * MaxDelay < Pow2[Width - 1]
  BY ShiftAssumption
<1> DEFINE q == Pow2[k + n]
<1>3. odd \in Nat /\ odd >= 1 /\ k \in Nat /\ k + n \in Nat
  BY <1>1, <1>2, PolicyAssumption
<1>4. q = Pow2[k] * Pow2[n] /\ q \in Nat /\ Pow2[k] \in Nat /\ Pow2[n] \in Nat
  BY <1>3, Pow2Sum, Pow2Type
<1>5. x = odd * q
  <2>1. ASSUME NEW a \in Nat, NEW b \in Nat, NEW d \in Nat PROVE (a * b) * d = a * (b * d)
    OBVIOUS
  <2> HIDE DEF q
  <2> QED BY <1>2, <1>3, <1>4, <2>1
<1>6. odd * MaxDelay < odd * q
  <2>1. Pow2[Width - 1] \in Nat
    BY <1>1, Pow2Type
  <2>2. ASSUME NEW a \in Nat, NEW b \in Nat PROVE a * b \in Nat
    OBVIOUS
  <2> HIDE DEF q, x
  <2>3. odd * MaxDelay \in Nat /\ odd * q \in Nat
    BY <1>1, <1>3, <1>4, <2>2
  <2> QED BY <1>2, <1>5, <2>1, <2>3 DEF x
<1>7. q > MaxDelay
  <2>1. ASSUME NEW a \in Nat, NEW b \in Nat, NEW d \in Nat, a * b < a * d PROVE b < d
    <3>1. ASSUME d <= b PROVE a * d <= a * b
      BY <3>1
    <3> QED BY <2>1, <3>1
  <2> HIDE DEF q
  <2> QED BY <1>1, <1>3, <1>4, <1>6, <2>1
<1>8. x > MaxDelay
  <2>1. ASSUME NEW a \in Nat, a >= 1, NEW b \in Nat PROVE a * b >= b /\ a * b \in Nat
    BY <2>1
  <2> HIDE DEF q, x
  <2> QED BY <1>1, <1>3, <1>4, <1>5, <1>7, <2>1
<1>9. Wrapped(x) \in Int /\ (Wrapped(x) <= 0 \/ Wrapped(x) >= q)
  BY <1>3, <1>5, WrappedMultiple
<1>10. Wrapped(x) <= 0 \/ Wrapped(x) > MaxDelay
  <2> HIDE DEF q, x
  <2> QED BY <1>1, <1>4, <1>7, <1>9
<1> QED BY <1>8, <1>10 DEF Backoff

(* What backoff documents: BaseDelay * 2^attempt, capped at MaxDelay, for  *)
(* every attempt, though the shift is done in a word and checked only      *)
(* after it may have wrapped.                                              *)
THEOREM BackoffExact ==
    \A n \in Nat : LET d == BaseDelay * Pow2[n]
                   IN Backoff(n) = IF d > MaxDelay THEN MaxDelay ELSE d
<1> SUFFICES ASSUME NEW n \in Nat
             PROVE  LET d == BaseDelay * Pow2[n]
                    IN Backoff(n) = IF d > MaxDelay THEN MaxDelay ELSE d
  OBVIOUS
<1> DEFINE d == BaseDelay * Pow2[n]
<1>1. /\ BaseDelay \in Nat /\ BaseDelay >= 1 /\ MaxDelay \in Nat /\ MaxDelay >= 1
      /\ Width \in Nat /\ Width - 1 \in Nat /\ Width - 2 \in Nat
  BY PolicyAssumption
<1>2. Pow2[n] \in Nat /\ Pow2[n] >= 1 /\ Pow2[Width - 2] \in Nat
  BY <1>1, Pow2Type
<1>3. ASSUME NEW a \in Nat, NEW b \in Nat PROVE a * b \in Nat /\ (b >= 1 => a <= a * b)
  OBVIOUS
<1>4. d \in Nat /\ d >= 1
  <2>1. d \in Nat /\ BaseDelay <= d
    BY <1>1, <1>2, <1>3
  <2> HIDE DEF d
  <2> QED BY <1>1, <2>1
<1>5. CASE n >= Width - 2
  <2>1. Pow2[Width - 2] <= Pow2[n]
    BY <1>1, <1>5, Pow2Grows
  <2>2. ASSUME NEW a \in Nat, NEW b \in Nat, NEW e \in Nat, a <= b PROVE e * a <= e * b
    BY <2>2
  <2>3. BaseDelay * Pow2[Width - 2] <= d /\ BaseDelay * Pow2[Width - 2] \in Nat
    BY <1>1, <1>2, <1>3, <2>1, <2>2
  <2>4. MaxDelay <= d
    <3> HIDE DEF d
    <3> QED BY <1>1, <1>4, <2>3, ShiftAssumption
  <2>5. Backoff(n) = MaxDelay
    BY <1>5 DEF Backoff
  <2> HIDE DEF d
  <2>6. d > MaxDelay \/ d = MaxDelay
    BY <1>1, <1>4, <2>4
  <2> QED BY <2>5, <2>6 DEF d
<1>6. CASE n < Width - 2 /\ d < Pow2[Width - 1]
  <2>1. Wrapped(d) = d
    BY <1>4, <1>6, WrappedSmall
  <2>2. ~(n >= Width - 2) /\ ~(d <= 0)
    <3> HIDE DEF d
    <3> QED BY <1>1, <1>4, <1>6
  <2> QED BY <2>1, <2>2 DEF Backoff
<1>7. CASE d >= Pow2[Width - 1]
  BY <1>7, BackoffCut
<1> QED
  <2>1. Pow2[Width - 1] \in Nat
    BY <1>1, Pow2Type
  <2>2. n >= Width - 2 \/ (n < Width - 2 /\ d < Pow2[Width - 1]) \/ d >= Pow2[Width - 1]
    <3> HIDE DEF d
    <3> QED BY <1>1, <1>4, <2>1
  <2> QED BY <1>5, <1>6, <1>7, <2>2

(* A backoff is positive and capped, and the next one is no shorter. *)
LEMMA BackoffMonotone ==
    ASSUME NEW n \in Nat
    PROVE  Backoff(n) \in 1..MaxDelay /\ Backoff(n) <= Backoff(n + 1)
<1> DEFINE d == BaseDelay * Pow2[n]
<1>1. /\ BaseDelay \in Nat /\ BaseDelay >= 1 /\ MaxDelay \in Nat /\ MaxDelay >= 1
  BY PolicyAssumption
<1>2. Pow2[n] \in Nat /\ Pow2[n] >= 1 /\ Pow2[n + 1] = 2 * Pow2[n]
  BY Pow2Step, Pow2Type
<1>3. ASSUME NEW a \in Nat, a >= 1, NEW b \in Nat, b >= 1
      PROVE  a * b \in Nat /\ a * b >= 1 /\ a * (2 * b) = 2 * (a * b)
  BY <1>3
<1>4. d \in Nat /\ d >= 1 /\ BaseDelay * Pow2[n + 1] = 2 * d
  BY <1>1, <1>2, <1>3
<1>5. /\ Backoff(n) = IF d > MaxDelay THEN MaxDelay ELSE d
      /\ Backoff(n + 1) = IF 2 * d > MaxDelay THEN MaxDelay ELSE 2 * d
  <2> HIDE DEF d
  <2>1. n + 1 \in Nat
    OBVIOUS
  <2> QED BY <1>4, <2>1, BackoffExact DEF d
<1> HIDE DEF d
<1> QED BY <1>1, <1>4, <1>5
============================================================================
