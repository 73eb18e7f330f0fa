---------------------------- MODULE ScannersProofs ----------------------------
(***************************************************************************)
(* Proofs about Scanners, for inputs of any size.  The theorems on         *)
(* induction take a predicate, which the provers cannot be given; here     *)
(* induction is on a set of numbers (Induct), and a recursive function is  *)
(* shown to exist before it is reasoned about (Recursion).                 *)
(***************************************************************************)
EXTENDS Scanners, FiniteSetTheorems, SequenceTheorems, TLAPS

-----------------------------------------------------------------------------
(* Induction and recursion. *)

LEMMA Least ==
  ASSUME NEW T \in SUBSET Nat, T # {}
  PROVE  \E x \in T : \A y \in T : x <= y
<1> DEFINE R == StrictSubsetOrdering(Nat)
           Below == {0..n : n \in T}
<1>1. IsWellFoundedOn(R, FiniteSubsetsOf(Nat))
  BY FS_StrictSubsetOrderingWellFounded
<1>2. Below \subseteq FiniteSubsetsOf(Nat) /\ Below # {}
  <2>1. \A n \in T : 0..n \in SUBSET Nat /\ IsFiniteSet(0..n) BY FS_Interval
  <2> QED BY <2>1 DEF FiniteSubsetsOf
<1>3. \E X \in Below : \A Y \in Below : ~(<<Y, X>> \in R)
  <2> HIDE DEF R, Below
  <2> QED BY <1>1, <1>2, WFMin
<1>4. PICK x \in T : \A y \in T : ~(<<0..y, 0..x>> \in R)
  BY <1>3
<1>5. ASSUME NEW y \in T, y < x PROVE FALSE
  <2>1. 0..y \subseteq 0..x /\ x \in 0..x /\ x \notin 0..y BY <1>5
  <2>2. <<0..y, 0..x>> \in R BY <2>1 DEF StrictSubsetOrdering
  <2> QED BY <2>2, <1>4
<1> QED BY <1>4, <1>5

LEMMA Induct ==
  ASSUME NEW n \in Nat, NEW T, 0 \in T, \A k \in 0..n : k < n /\ k \in T => k + 1 \in T
  PROVE  \A k \in 0..n : k \in T
<1> DEFINE Bad == {k \in 0..n : k \notin T}
<1> SUFFICES ASSUME Bad # {} PROVE FALSE OBVIOUS
<1>1. Bad \in SUBSET Nat OBVIOUS
<1>2. PICK m \in Bad : \A k \in Bad : m <= k
  <2> HIDE DEF Bad
  <2> QED BY <1>1, Least
<1>3. m \in 0..n /\ m # 0 BY <1>2
<1>4. m - 1 \in 0..n /\ m - 1 < n /\ ~(m <= m - 1) BY <1>3
<1>5. m - 1 \in T BY <1>2, <1>4
<1>6. m - 1 + 1 \in T BY <1>4, <1>5
<1> QED BY <1>2, <1>3, <1>6

\* A function that starts with a, and each of whose values follows from the last.
Follows(f, n, a, step) == f[0] = a /\ \A k \in 1..n : f[k] = step[<<k, f[k - 1]>>]

LEMMA Recursion ==
  ASSUME NEW n \in Nat, NEW S, NEW a \in S, NEW step \in [(1..n) \X S -> S]
  PROVE  \E f \in [0..n -> S] : Follows(f, n, a, step)
<1> DEFINE T == {m \in 0..n : \E f \in [0..m -> S] : Follows(f, m, a, step)}
<1>1. 0 \in T
  <2>1. [k \in 0..0 |-> a] \in [0..0 -> S] /\ Follows([k \in 0..0 |-> a], 0, a, step)
    BY DEF Follows
  <2>2. 0 \in 0..n OBVIOUS
  <2> QED BY <2>1, <2>2
<1>2. ASSUME NEW m \in 0..n, m < n, m \in T PROVE m + 1 \in T
  <2>1. PICK f \in [0..m -> S] : Follows(f, m, a, step) BY <1>2
  <2> DEFINE g == [k \in 0..(m + 1) |-> IF k = m + 1 THEN step[<<m + 1, f[m]>>] ELSE f[k]]
  <2>2. m + 1 \in 1..n /\ f[m] \in S /\ step[<<m + 1, f[m]>>] \in S BY <1>2
  <2>3. g \in [0..(m + 1) -> S] BY <2>2
  <2>4. \A k \in 0..m : g[k] = f[k] OBVIOUS
  <2>5. g[m + 1] = step[<<m + 1, f[m]>>] OBVIOUS
  <2> HIDE DEF g
  <2>6. \A k \in 1..(m + 1) : g[k] = step[<<k, g[k - 1]>>]
    <3> TAKE k \in 1..(m + 1)
    <3>1. CASE k = m + 1 BY <2>4, <2>5, <3>1
    <3>2. CASE k \in 1..m BY <2>1, <2>4, <3>2 DEF Follows
    <3> QED BY <3>1, <3>2
  <2>7. Follows(g, m + 1, a, step) BY <2>1, <2>4, <2>6 DEF Follows
  <2> QED BY <2>2, <2>3, <2>7
<1>3. n \in T
  <2> HIDE DEF T
  <2> QED BY <1>1, <1>2, Induct
<1> QED BY <1>3

-----------------------------------------------------------------------------
(* luhn_check(). *)

Partial(w) ==
  LET sum[k \in 0..Len(w)] == IF k = 0 THEN 0 ELSE sum[k - 1] + w[k] IN sum

\* The partial sums of a sequence, and that Sum is the last of them.
LEMMA Sums ==
  ASSUME NEW n \in Nat, NEW w \in [1..n -> Int]
  PROVE  \E s \in [0..n -> Int] :
           s[0] = 0 /\ Sum(w) = s[n] /\ \A k \in 1..n : s[k] = s[k - 1] + w[k]
<1>0. w \in Seq(Int) /\ Len(w) = n OBVIOUS
<1> DEFINE Z == Int
           step == [q \in (1..n) \X Z |-> q[2] + w[q[1]]]
<1>1. step \in [(1..n) \X Z -> Z] /\ 0 \in Z OBVIOUS
<1>2. PICK s \in [0..n -> Z] : Follows(s, n, 0, step)
  <2> HIDE DEF step, Z
  <2> QED BY <1>1, Recursion
<1>3. \A k \in 1..n : s[k] = s[k - 1] + w[k]
  <2> TAKE k \in 1..n
  <2>1. <<k, s[k - 1]>> \in (1..n) \X Int OBVIOUS
  <2>2. step[<<k, s[k - 1]>>] = s[k - 1] + w[k] BY <2>1
  <2> HIDE DEF step
  <2> QED BY <1>2, <2>2 DEF Follows
<1>4. s = [k \in 0..Len(w) |-> IF k = 0 THEN 0 ELSE s[k - 1] + w[k]]
  BY <1>0, <1>2, <1>3 DEF Follows
<1> DEFINE P == Partial(w)
<1>5. P = [k \in 0..Len(w) |-> IF k = 0 THEN 0 ELSE P[k - 1] + w[k]]
  BY <1>4 DEF Partial
<1>6. Sum(w) = P[n] BY <1>0 DEF Sum, Partial
<1> HIDE DEF P
<1>7. P[0] = 0 /\ \A k \in 1..n : P[k] = P[k - 1] + w[k] BY <1>0, <1>5
<1>8. \A k \in 0..n : P[k] = s[k]
  <2> DEFINE T == {k \in 0..n : P[k] = s[k]}
  <2>1. 0 \in T BY <1>2, <1>7 DEF Follows
  <2>2. \A k \in 0..n : k < n /\ k \in T => k + 1 \in T
    <3> SUFFICES ASSUME NEW k \in 0..n, k < n, P[k] = s[k] PROVE P[k + 1] = s[k + 1]
      OBVIOUS
    <3>1. k + 1 \in 1..n /\ k + 1 - 1 = k OBVIOUS
    <3> QED BY <1>3, <1>7, <3>1
  <2> HIDE DEF T
  <2>3. \A k \in 0..n : k \in T BY <2>1, <2>2, Induct
  <2> QED BY <2>3 DEF T
<1>9. Sum(w) = s[n] BY <1>6, <1>8
<1> QED BY <1>2, <1>3, <1>9 DEF Follows

SumsOf(s, w, n) ==
  s[0] = 0 /\ \A k \in 1..n : w[k] \in Int /\ s[k] \in Int /\ s[k] = s[k - 1] + w[k]

LEMMA SumsAre ==
  ASSUME NEW n \in Nat, NEW w, w \in [1..n -> Int]
  PROVE  \E s : SumsOf(s, w, n) /\ Sum(w) = s[n]
<1>1. PICK s \in [0..n -> Int] :
        s[0] = 0 /\ Sum(w) = s[n] /\ \A k \in 1..n : s[k] = s[k - 1] + w[k]
  BY Sums
<1>2. \A k \in 1..n : w[k] \in Int /\ s[k] \in Int OBVIOUS
<1> QED BY <1>1, <1>2 DEF SumsOf

LEMMA SumStep ==
  ASSUME NEW n \in Nat, NEW s, NEW w, SumsOf(s, w, n), NEW k \in 0..n
  PROVE  /\ s[k] \in Int
         /\ k < n => w[k + 1] \in Int /\ s[k + 1] \in Int /\ s[k + 1] = s[k] + w[k + 1]
<1>1. s[k] \in Int
  <2>1. CASE k = 0 BY <2>1 DEF SumsOf
  <2>2. CASE k \in 1..n BY <2>2 DEF SumsOf
  <2> QED BY <2>1, <2>2
<1>2. ASSUME k < n
      PROVE  w[k + 1] \in Int /\ s[k + 1] \in Int /\ s[k + 1] = s[k] + w[k + 1]
  <2>1. k + 1 \in 1..n /\ k + 1 - 1 = k BY <1>2
  <2>2. /\ w[k + 1] \in Int /\ s[k + 1] \in Int
        /\ s[k + 1] = s[k + 1 - 1] + w[k + 1]
    BY <2>1 DEF SumsOf
  <2> QED BY <2>1, <2>2
<1> QED BY <1>1, <1>2

\* One value is replaced by another.
LEMMA Replaced ==
  ASSUME NEW n \in Nat, NEW w, NEW v, NEW s, NEW t, SumsOf(s, w, n), SumsOf(t, v, n),
         NEW i \in 1..n, NEW delta \in Int,
         v[i] = w[i] + delta, \A k \in 1..n : k # i => v[k] = w[k]
  PROVE  s[n] \in Int /\ t[n] = s[n] + delta
<1> DEFINE T == {k \in 0..n : t[k] = (IF k < i THEN s[k] ELSE s[k] + delta)}
<1>1. 0 \in T BY DEF SumsOf
<1>2. ASSUME NEW k \in 0..n, k < n, k \in T PROVE k + 1 \in T
  <2>1. /\ s[k] \in Int /\ w[k + 1] \in Int /\ s[k + 1] = s[k] + w[k + 1]
        /\ t[k] \in Int /\ v[k + 1] \in Int /\ t[k + 1] = t[k] + v[k + 1]
    BY <1>2, SumStep
  <2>2. k + 1 \in 1..n /\ k + 1 \in 0..n BY <1>2
  <2>3. v[k + 1] = (IF k + 1 = i THEN w[k + 1] + delta ELSE w[k + 1])
    <3>1. CASE k + 1 = i BY <3>1
    <3>2. CASE k + 1 # i BY <2>2, <3>2
    <3> QED BY <3>1, <3>2
  <2>4. t[k] = (IF k < i THEN s[k] ELSE s[k] + delta) BY <1>2
  <2>5. t[k + 1] = (IF k + 1 < i THEN s[k + 1] ELSE s[k + 1] + delta)
    BY <2>1, <2>2, <2>3, <2>4
  <2> QED BY <2>2, <2>5
<1>3. n \in T
  <2>1. \A k \in 0..n : k < n /\ k \in T => k + 1 \in T BY <1>2
  <2> HIDE DEF T
  <2>2. \A k \in 0..n : k \in T BY <1>1, <2>1, Induct
  <2> QED BY <2>2
<1>4. t[n] = (IF n < i THEN s[n] ELSE s[n] + delta) BY <1>3
<1>5. s[n] \in Int BY SumStep
<1> QED BY <1>4, <1>5

\* A value is put in front of the reversed sequence.
LEMMA Turned ==
  ASSUME NEW n \in Nat, NEW w, NEW v, NEW s, NEW t, SumsOf(s, w, n), SumsOf(t, v, n + 1),
         \A k \in 1..n : v[k + 1] = w[n + 1 - k]
  PROVE  s[n] \in Int /\ t[n + 1] = v[1] + s[n]
<1> DEFINE T == {k \in 0..n : t[k + 1] = v[1] + s[n] - s[n - k]}
<1>0. n + 1 \in Nat /\ s[n] \in Int /\ s[0] = 0 BY SumStep DEF SumsOf
<1>1. v[1] \in Int /\ t[1] = v[1]
  <2>1. 0 \in 0..(n + 1) /\ 0 < n + 1 OBVIOUS
  <2>2. v[0 + 1] \in Int /\ t[0 + 1] = t[0] + v[0 + 1] BY <1>0, <2>1, SumStep
  <2> QED BY <2>2 DEF SumsOf
<1>2. 0 \in T BY <1>0, <1>1
<1>3. ASSUME NEW k \in 0..n, k < n, k \in T PROVE k + 1 \in T
  <2>1. /\ k + 1 \in 0..(n + 1) /\ k + 1 < n + 1 /\ k + 1 + 1 = k + 2
        /\ n - (k + 1) \in 0..n /\ n - (k + 1) < n /\ n - (k + 1) + 1 = n - k
        /\ k + 1 \in 1..n /\ n + 1 - (k + 1) = n - k /\ k + 1 \in 0..n
    BY <1>3
  <2>2. t[k + 1] \in Int /\ v[k + 2] \in Int /\ t[k + 2] = t[k + 1] + v[k + 2]
    <3>1. /\ t[k + 1] \in Int /\ v[k + 1 + 1] \in Int
          /\ t[k + 1 + 1] = t[k + 1] + v[k + 1 + 1]
      BY <1>0, <2>1, SumStep
    <3> QED BY <2>1, <3>1
  <2>3. v[k + 2] = w[n - k]
    <3>1. v[k + 1 + 1] = w[n + 1 - (k + 1)] BY <2>1
    <3> QED BY <2>1, <3>1
  <2>4. /\ s[n - (k + 1)] \in Int /\ w[n - k] \in Int /\ s[n - k] \in Int
        /\ s[n - k] = s[n - (k + 1)] + w[n - k]
    <3>1. /\ s[n - (k + 1)] \in Int /\ w[n - (k + 1) + 1] \in Int
          /\ s[n - (k + 1) + 1] \in Int
          /\ s[n - (k + 1) + 1] = s[n - (k + 1)] + w[n - (k + 1) + 1]
      BY <2>1, SumStep
    <3> QED BY <2>1, <3>1
  <2>5. t[k + 1] = v[1] + s[n] - s[n - k] BY <1>3
  <2>6. t[k + 2] = v[1] + s[n] - s[n - (k + 1)]
    BY <1>0, <1>1, <2>2, <2>3, <2>4, <2>5
  <2> QED BY <2>1, <2>6
<1>4. n \in T
  <2>1. \A k \in 0..n : k < n /\ k \in T => k + 1 \in T BY <1>3
  <2> HIDE DEF T
  <2>2. \A k \in 0..n : k \in T BY <1>2, <2>1, Induct
  <2> QED BY <2>2
<1>5. t[n + 1] = v[1] + s[n] - s[n - n] /\ n - n = 0 BY <1>4
<1> QED BY <1>0, <1>1, <1>5

\* Reducing a doubled digit is adding its digits, and tells the digits apart.
LEMMA DoubledTells ==
  /\ \A d \in 0..9 : Doubled(d) \in 0..9 /\ Doubled(d) = ((2 * d) \div 10) + ((2 * d) % 10)
  /\ \A d, e \in 0..9 : Doubled(d) = Doubled(e) => d = e
<1>1. ASSUME NEW d \in 0..9
      PROVE  Doubled(d) \in 0..9 /\ Doubled(d) = ((2 * d) \div 10) + ((2 * d) % 10)
  <2>1. CASE d <= 4
    <3>1. 2 * d \in 0..8 /\ (2 * d) \div 10 = 0 /\ (2 * d) % 10 = 2 * d BY <2>1
    <3> QED BY <3>1 DEF Doubled
  <2>2. CASE d >= 5
    <3>1. 2 * d \in 10..18 /\ (2 * d) \div 10 = 1 /\ (2 * d) % 10 = 2 * d - 10 BY <2>2
    <3> QED BY <3>1 DEF Doubled
  <2> QED BY <2>1, <2>2
<1>2. \A d, e \in 0..9 : Doubled(d) = Doubled(e) => d = e BY DEF Doubled
<1> QED BY <1>1, <1>2

LEMMA Weights ==
  ASSUME NEW digits \in Seq(0..9), NEW k \in 1..Len(digits)
  PROVE  Weight(digits, k) \in 0..9
<1>1. Len(digits) + 1 - k \in 1..Len(digits) OBVIOUS
<1>2. digits[Len(digits) + 1 - k] \in 0..9 BY <1>1
<1> QED BY <1>2, DoubledTells DEF Weight

LEMMA IssuedPass ==
  ASSUME NEW p \in Seq(0..9), Len(p) + 1 \in 13..19
  PROVE  /\ Append(p, CheckDigit(p)) \in Seq(0..9)
         /\ LuhnCheck(Append(p, CheckDigit(p)))
<1> DEFINE n == Len(p)
           c == CheckDigit(p)
           digits == Append(p, c)
           w == [i \in 1..n |-> IssuerPart(p, i)]
           v == [k \in 1..(n + 1) |-> Weight(digits, k)]
<1>1. n \in Nat /\ n + 1 \in Nat OBVIOUS
<1>2. \A i \in 1..n : p[i] \in 0..9 OBVIOUS
<1>3. \A i \in 1..n : IssuerPart(p, i) = (IF (n - i) % 2 = 0 THEN Doubled(p[i]) ELSE p[i])
  BY <1>2, DoubledTells DEF IssuerPart
<1>4. w \in [1..n -> Int]
  <2>1. \A d \in 0..9 : d \in Int /\ Doubled(d) \in Int BY DoubledTells
  <2>2. \A i \in 1..n : p[i] \in Int /\ Doubled(p[i]) \in Int BY <1>2, <2>1
  <2>3. \A i \in 1..n : IssuerPart(p, i) \in Int BY <1>3, <2>2
  <2> QED BY <2>3
<1>5. PICK s : SumsOf(s, w, n) /\ Sum(w) = s[n]
  <2> HIDE DEF w, n
  <2> QED BY <1>1, <1>4, SumsAre
<1>6. s[n] \in Int /\ c = (10 - (s[n] % 10)) % 10
  <2>1. s[n] \in Int
    <3>1. n \in 0..n BY <1>1
    <3> HIDE DEF w, n
    <3> QED BY <1>1, <1>5, <3>1, SumStep
  <2> QED BY <1>5, <2>1 DEF CheckDigit
<1>7. c \in 0..9 /\ (c + s[n]) % 10 = 0
  <2>1. \A r \in 0..9 : (10 - r) % 10 \in 0..9 /\ (((10 - r) % 10) + r) % 10 = 0 OBVIOUS
  <2>2. \A a \in Int : a % 10 \in 0..9 OBVIOUS
  <2>3. \A a, b \in Int : (b + (a % 10)) % 10 = 0 => (b + a) % 10 = 0 OBVIOUS
  <2> HIDE DEF c
  <2>4. PICK a \in Int : a = s[n] BY <1>6
  <2>5. PICK r \in 0..9 : r = a % 10 BY <2>2
  <2>6. c = (10 - r) % 10 BY <1>6, <2>4, <2>5
  <2>7. c \in 0..9 /\ (c + r) % 10 = 0 BY <2>1, <2>6
  <2>8. (c + a) % 10 = 0 BY <2>3, <2>5, <2>7
  <2> QED BY <2>4, <2>7, <2>8
<1>8. /\ digits \in Seq(0..9) /\ Len(digits) = n + 1 /\ digits[n + 1] = c
      /\ \A i \in 1..n : digits[i] = p[i]
  <2> HIDE DEF c
  <2> QED BY <1>7
<1> HIDE DEF c, digits
<1>9. v \in [1..(n + 1) -> Int]
  <2>1. \A k \in 1..(n + 1) : Weight(digits, k) \in Int BY <1>8, Weights
  <2> QED BY <2>1
<1>10. v[1] = c
  <2>1. v[1] = Weight(digits, 1) BY <1>1
  <2>2. Weight(digits, 1) = digits[n + 1] BY <1>1, <1>8 DEF Weight
  <2> QED BY <1>8, <2>1, <2>2
<1>11. \A k \in 1..n : v[k + 1] = w[n + 1 - k]
  <2> TAKE k \in 1..n
  <2>1. n + 1 - k \in 1..n /\ k + 1 \in 1..(n + 1) BY <1>1
  <2>2. w[n + 1 - k] = (IF (n - (n + 1 - k)) % 2 = 0 THEN Doubled(p[n + 1 - k])
                                                       ELSE p[n + 1 - k])
    BY <1>3, <2>1
  <2>3. n + 1 + 1 - (k + 1) = n + 1 - k BY <1>1
  <2>4. v[k + 1] = Weight(digits, k + 1) BY <2>1
  <2>5. Weight(digits, k + 1) = (IF (k + 1) % 2 = 0 THEN Doubled(p[n + 1 - k])
                                                     ELSE p[n + 1 - k])
    BY <1>8, <2>1, <2>3 DEF Weight
  <2>6. (n - (n + 1 - k)) % 2 = 0 <=> (k + 1) % 2 = 0
    <3>1. n - (n + 1 - k) = k - 1 BY <1>1
    <3>2. (k - 1) % 2 = 0 <=> (k + 1) % 2 = 0 OBVIOUS
    <3> QED BY <3>1, <3>2
  <2> HIDE DEF v, w
  <2> QED BY <2>2, <2>4, <2>5, <2>6
<1> HIDE DEF v, w
<1>12. PICK t : SumsOf(t, v, n + 1) /\ Sum(v) = t[n + 1] BY <1>1, <1>9, SumsAre
<1>13. t[n + 1] = v[1] + s[n] BY <1>1, <1>5, <1>11, <1>12, Turned
<1>14. Total(digits) = c + s[n] BY <1>8, <1>10, <1>12, <1>13 DEF Total, v
<1> QED BY <1>7, <1>8, <1>14 DEF LuhnCheck, c, digits

LEMMA TypoFails ==
  ASSUME NEW digits \in Seq(0..9), LuhnCheck(digits), NEW i \in 1..Len(digits),
         NEW d \in 0..9, d # digits[i]
  PROVE  ~LuhnCheck([digits EXCEPT ![i] = d])
<1> DEFINE n == Len(digits)
           wrong == [digits EXCEPT ![i] = d]
           j == n + 1 - i
           w == [k \in 1..n |-> Weight(digits, k)]
           v == [k \in 1..n |-> Weight(wrong, k)]
<1>1. n \in Nat /\ j \in 1..n /\ n + 1 - j = i OBVIOUS
<1>2. /\ wrong \in Seq(0..9) /\ Len(wrong) = n /\ wrong[i] = d
      /\ \A k \in 1..n : k # i => wrong[k] = digits[k]
  OBVIOUS
<1> HIDE DEF wrong
<1>3. \A k \in 1..n : Weight(digits, k) \in 0..9 /\ Weight(wrong, k) \in 0..9
  BY <1>2, Weights
<1>4. w \in [1..n -> Int] /\ v \in [1..n -> Int] BY <1>3
<1>5. \A k \in 1..n : k # j => Weight(wrong, k) = Weight(digits, k)
  <2> TAKE k \in 1..n
  <2> HAVE k # j
  <2>1. n + 1 - k \in 1..n /\ n + 1 - k # i BY <1>1
  <2> QED BY <1>2, <2>1 DEF Weight
<1>6. Weight(wrong, j) # Weight(digits, j)
  <2>1. digits[i] \in 0..9 OBVIOUS
  <2> QED BY <1>1, <1>2, <2>1, DoubledTells DEF Weight
<1>7. PICK delta \in -9..9 :
        delta # 0 /\ Weight(wrong, j) = Weight(digits, j) + delta
  <2>1. Weight(digits, j) \in 0..9 /\ Weight(wrong, j) \in 0..9 BY <1>1, <1>3
  <2>2. \A a, b \in 0..9 : a # b => \E e \in -9..9 : e # 0 /\ b = a + e
    <3> TAKE a, b \in 0..9
    <3> HAVE a # b
    <3>1. b - a \in -9..9 /\ b - a # 0 /\ b = a + (b - a) OBVIOUS
    <3> QED BY <3>1
  <2> HIDE DEF j
  <2> QED BY <1>6, <2>1, <2>2
<1>8. v[j] = w[j] + delta /\ \A k \in 1..n : k # j => v[k] = w[k]
  BY <1>1, <1>5, <1>7
<1> HIDE DEF v, w, n, j
<1>9. PICK s : SumsOf(s, w, n) /\ Sum(w) = s[n] BY <1>1, <1>4, SumsAre
<1>10. PICK t : SumsOf(t, v, n) /\ Sum(v) = t[n] BY <1>1, <1>4, SumsAre
<1>11. s[n] \in Int /\ t[n] = s[n] + delta
  <2>1. delta \in Int BY <1>7
  <2>2. n \in Nat /\ j \in 1..n /\ SumsOf(s, w, n) /\ SumsOf(t, v, n)
    BY <1>1, <1>9, <1>10
  <2> QED BY ONLY <1>8, <2>1, <2>2, Replaced
<1>12. s[n] % 10 = 0 BY <1>9 DEF LuhnCheck, Total, w, n
<1>13. Total(wrong) = t[n] BY <1>2, <1>10 DEF Total, v, n
<1>14. Total(wrong) % 10 # 0
  <2>1. (s[n] + delta) % 10 # 0
    <3>1. \A a \in Int, e \in -9..9 : a % 10 = 0 /\ e # 0 => (a + e) % 10 # 0 OBVIOUS
    <3> QED BY <1>7, <1>11, <1>12, <3>1
  <2> QED BY <1>11, <1>13, <2>1
<1> QED BY <1>14 DEF LuhnCheck, wrong

CardInv ==
  /\ stage = "issued" => card \in Seq(0..9) /\ LuhnCheck(card)
  /\ stage = "typo" => ~LuhnCheck(card)

\* The validator knows every number with the check digit that an issuer computes
\* from the left, and none with one wrong digit, for numbers of 13 to 19 digits.
THEOREM CardsAreTold == Spec => []LuhnTellsCards
<1>1. Init => CardInv
  <2> SUFFICES ASSUME Init, stage \in {"issued", "typo"} PROVE CardInv BY DEF CardInv
  <2>1. stage = "issued" /\ card \in Issued BY DEF Init
  <2>2. PICK p \in Payloads : card = Append(p, CheckDigit(p)) BY <2>1 DEF Issued
  <2>3. p \in Seq(0..9) /\ Len(p) + 1 \in 13..19 BY ScannersAssumption
  <2> QED BY <2>1, <2>2, <2>3, IssuedPass DEF CardInv
<1>2. CardInv /\ [Next]_vars => CardInv'
  <2> SUFFICES ASSUME CardInv, [Next]_vars PROVE CardInv' OBVIOUS
  <2>1. CASE Mistype
    <3>1. PICK i \in 1..Len(card), d \in 0..9 :
            d # card[i] /\ card' = [card EXCEPT ![i] = d]
      BY <2>1 DEF Mistype
    <3>2. stage = "issued" /\ stage' = "typo" BY <2>1 DEF Mistype
    <3> QED BY <3>1, <3>2, TypoFails DEF CardInv
  <2>2. CASE Visit \/ ScanReply \/ Dedup \/ StartSanitize \/ Redact \/ Sanitized
    <3>1. stage' \notin {"issued", "typo"}
      BY <2>2 DEF Visit, ScanReply, Dedup, StartSanitize, Redact, Sanitized
    <3> QED BY <3>1 DEF CardInv
  <2>3. CASE UNCHANGED vars BY <2>3 DEF vars, CardInv
  <2> QED BY <2>1, <2>2, <2>3 DEF Next
<1>3. CardInv => LuhnTellsCards BY DEF CardInv, LuhnTellsCards
<1> QED BY <1>1, <1>2, <1>3, PTL DEF Spec

-----------------------------------------------------------------------------
(* The removal of overlaps.  At every moment of it, of the first n findings: the  *)
(* kept ones are in order and disjoint, and each other one is overlapped by a     *)
(* kept one that was sorted before it.                                            *)

Sorted ==
  /\ found \in Seq(Spans)
  /\ Len(found) \in Nat /\ \A k \in 1..Len(found) : found[k] \in Spans
  /\ \A k \in 1..Len(found) : \A i \in 1..(k - 1) : Before(found[i], found[k])

Separate ==
  /\ Len(kept) \in Nat /\ \A i \in 1..Len(kept) : kept[i] \in Spans
  /\ \A i \in 1..Len(kept) : \A j \in 1..(i - 1) : kept[j].end <= kept[i].start

KeptOf(n) ==
  /\ \A i \in 1..Len(kept) : \E k \in 1..n : kept[i] = found[k]
  /\ \A k \in 1..n :
       \/ \E i \in 1..Len(kept) : kept[i] = found[k]
       \/ \E i \in 1..Len(kept) : Overlap(found[k], kept[i]) /\ Before(kept[i], found[k])

DedupInv ==
  /\ stage = "sent" => kept = << >> /\ at = 0
  /\ stage \in {"reply", "redact", "done"} => Sorted /\ Separate /\ kept \in Seq(Spans)
  /\ stage = "reply" => at \in 0..Len(found) /\ KeptOf(at)
  /\ stage = "redact" => KeptOf(Len(found))

LEMMA SpansAre ==
  ASSUME NEW f \in Spans
  PROVE  /\ f.start \in Nat /\ f.end \in Nat /\ f.start < f.end /\ f.end <= TextLen
         /\ f.pat \in Patterns
BY ScannersAssumption DEF Spans

LEMMA ListsAreSorted ==
  ASSUME NEW m \in MatchLists
  PROVE  /\ m \in Seq(Spans)
         /\ Len(m) \in Nat /\ \A k \in 1..Len(m) : m[k] \in Spans
         /\ \A k \in 1..Len(m) : \A i \in 1..(k - 1) : Before(m[i], m[k])
<1>1. PICK n \in 0..MaxMatches : m \in [1..n -> Spans] BY DEF MatchLists
<1>2. n \in Nat /\ Len(m) = n /\ DOMAIN m = 1..n BY <1>1, ScannersAssumption
<1> QED BY <1>1, <1>2 DEF MatchLists

\* One turn of the loop.
LEMMA DedupTurn ==
  ASSUME DedupInv, Dedup
  PROVE  Separate' /\ kept' \in Seq(Spans) /\ KeptOf(at)' /\ at' \in 0..Len(found)
<1> DEFINE f == found[at + 1]
           m == Len(kept)
<1>1. /\ stage = "reply" /\ at < Len(found) /\ at' = at + 1
      /\ kept' = (IF Fresh(f) THEN Append(kept, f) ELSE kept) /\ found' = found
  BY DEF Dedup
<1>2. /\ Sorted /\ Separate /\ kept \in Seq(Spans) /\ at \in 0..Len(found) /\ KeptOf(at)
  BY <1>1 DEF DedupInv
<1>3. /\ Len(found) \in Nat /\ at + 1 \in 1..Len(found) /\ f \in Spans
      /\ \A i \in 1..at : Before(found[i], f) /\ found[i] \in Spans
  <2>1. Len(found) \in Nat BY <1>2 DEF Sorted
  <2>2. at + 1 \in 1..Len(found) /\ at + 1 - 1 = at BY <1>1, <1>2, <2>1
  <2>3. \A i \in 1..at : i \in 1..Len(found) BY <1>2, <2>1
  <2> QED BY <1>2, <2>1, <2>2, <2>3 DEF Sorted
<1>4. m \in Nat /\ \A i \in 1..m : kept[i] \in Spans BY <1>2 DEF Separate
<1>5. \A i \in 1..m : Before(kept[i], f) BY <1>2, <1>3 DEF KeptOf
<1>6. at \in Nat BY <1>2
<1>a. CASE Fresh(f)
  <2>1. kept' = Append(kept, f) BY <1>1, <1>a
  <2>2. /\ Len(kept') = m + 1 /\ kept'[m + 1] = f /\ kept' \in Seq(Spans)
        /\ \A i \in 1..m : kept'[i] = kept[i]
    BY <1>2, <1>3, <2>1
  <2> HIDE DEF f, m
  <2>3. \A j \in 1..m : kept[j].end <= f.start
    <3> TAKE j \in 1..m
    <3>1. /\ kept[m].end <= f.start /\ m \in 1..m
      <4>1. MaxEnd = kept[m].end BY <1>4 DEF MaxEnd, Last, m
      <4> QED BY <1>4, <1>a, <4>1 DEF Fresh
    <3>2. CASE j = m BY <3>1, <3>2
    <3>3. CASE j < m
      <4>1. kept[j].end <= kept[m].start
        <5>1. j \in 1..(m - 1) BY <1>4, <3>3
        <5> QED BY <1>2, <3>1, <5>1 DEF Separate, m
      <4>2. /\ kept[j].end \in Nat /\ kept[m].start \in Nat /\ kept[m].end \in Nat
            /\ kept[m].start < kept[m].end /\ f.start \in Nat
        BY <1>3, <1>4, <3>1, SpansAre
      <4> QED BY <3>1, <4>1, <4>2
    <3> QED BY <1>4, <3>2, <3>3
  <2>4. Separate'
    <3>1. \A i \in 1..(m + 1) : kept'[i] \in Spans
      <4> TAKE i \in 1..(m + 1)
      <4>1. CASE i \in 1..m BY <1>4, <2>2, <4>1
      <4>2. CASE i = m + 1 BY <1>3, <2>2, <4>2
      <4> QED BY <1>4, <4>1, <4>2
    <3>2. ASSUME NEW i \in 1..(m + 1), NEW j \in 1..(i - 1)
          PROVE  kept'[j].end <= kept'[i].start
      <4>1. j \in 1..m BY <1>4
      <4>2. CASE i \in 1..m BY <1>2, <2>2, <4>1, <4>2 DEF Separate, m
      <4>3. CASE i = m + 1 BY <2>2, <2>3, <4>1, <4>3
      <4> QED BY <1>4, <4>2, <4>3
    <3> QED BY <1>4, <2>2, <3>1, <3>2 DEF Separate
  <2>5. KeptOf(at)'
    <3>1. ASSUME NEW i \in 1..(m + 1) PROVE \E k \in 1..(at + 1) : kept'[i] = found[k]
      <4>1. CASE i \in 1..m
        <5>1. PICK k \in 1..at : kept[i] = found[k] BY <1>2, <4>1 DEF KeptOf, m
        <5>2. k \in 1..(at + 1) BY <1>6
        <5> QED BY <2>2, <4>1, <5>1, <5>2
      <4>2. CASE i = m + 1
        <5>1. at + 1 \in 1..(at + 1) BY <1>6
        <5> QED BY <2>2, <4>2, <5>1 DEF f
      <4> QED BY <1>4, <4>1, <4>2
    <3>2. ASSUME NEW k \in 1..(at + 1)
          PROVE  \/ \E i \in 1..(m + 1) : kept'[i] = found[k]
                 \/ \E i \in 1..(m + 1) : /\ Overlap(found[k], kept'[i])
                                          /\ Before(kept'[i], found[k])
      <4>1. CASE k = at + 1
        <5>1. m + 1 \in 1..(m + 1) BY <1>4
        <5> QED BY <2>2, <4>1, <5>1 DEF f
      <4>2. CASE k \in 1..at
        <5>1. \A i \in 1..m : i \in 1..(m + 1) BY <1>4
        <5>2. \/ \E i \in 1..m : kept[i] = found[k]
              \/ \E i \in 1..m : Overlap(found[k], kept[i]) /\ Before(kept[i], found[k])
          BY <1>2, <4>2 DEF KeptOf, m
        <5> QED BY <2>2, <5>1, <5>2
      <4> QED BY <1>6, <4>1, <4>2
    <3> QED BY <1>1, <2>2, <3>1, <3>2 DEF KeptOf
  <2> QED BY <1>1, <1>3, <1>6, <2>2, <2>4, <2>5
<1>b. CASE ~Fresh(f)
  <2>1. kept' = kept BY <1>1, <1>b
  <2>2. m \in 1..m /\ f.start < kept[m].end
    <3>1. f.start \in Nat /\ ~(f.start >= MaxEnd) BY <1>3, <1>b, SpansAre DEF Fresh
    <3>2. kept # << >> BY <3>1 DEF MaxEnd
    <3>3. m \in 1..m BY <1>2, <3>2
    <3>4. MaxEnd = kept[m].end BY <3>2 DEF MaxEnd, Last
    <3>5. kept[m].end \in Nat BY <1>4, <3>3, SpansAre
    <3> QED BY <3>1, <3>3, <3>4, <3>5
  <2>3. Before(kept[m], f) /\ kept[m] \in Spans BY <1>4, <1>5, <2>2
  <2> HIDE DEF f, m
  <2>4. Overlap(f, kept[m])
    <3>1. /\ f.start \in Nat /\ f.end \in Nat /\ f.start < f.end
          /\ kept[m].start \in Nat /\ kept[m].end \in Nat
      BY <1>3, <2>3, SpansAre
    <3>2. kept[m].start <= f.start BY <2>3, <3>1 DEF Before
    <3>3. f.start + 1 \in Covers(f) /\ f.start + 1 \in Covers(kept[m])
      BY <2>2, <3>1, <3>2 DEF Covers
    <3> QED BY <3>3 DEF Overlap
  <2>5. KeptOf(at + 1)
    <3>1. ASSUME NEW i \in 1..m PROVE \E k \in 1..(at + 1) : kept[i] = found[k]
      <4>1. PICK k \in 1..at : kept[i] = found[k] BY <1>2 DEF KeptOf, m
      <4>2. k \in 1..(at + 1) BY <1>6
      <4> QED BY <4>1, <4>2
    <3>2. ASSUME NEW k \in 1..(at + 1)
          PROVE  \/ \E i \in 1..m : kept[i] = found[k]
                 \/ \E i \in 1..m : Overlap(found[k], kept[i]) /\ Before(kept[i], found[k])
      <4>1. CASE k = at + 1 BY <2>2, <2>3, <2>4, <4>1 DEF f
      <4>2. CASE k \in 1..at BY <1>2, <4>2 DEF KeptOf, m
      <4> QED BY <1>6, <4>1, <4>2
    <3> QED BY <3>1, <3>2 DEF KeptOf, m
  <2>6. Separate' /\ kept' \in Seq(Spans) BY <1>2, <2>1 DEF Separate
  <2>7. KeptOf(at)' BY <1>1, <2>1, <2>5 DEF KeptOf
  <2> QED BY <1>1, <1>3, <1>6, <2>6, <2>7
<1> QED BY <1>a, <1>b

LEMMA DedupInit == Init => DedupInv
BY DEF Init, DedupInv

LEMMA DedupStep == DedupInv /\ [Next]_vars => DedupInv'
<1> SUFFICES ASSUME DedupInv, [Next]_vars PROVE DedupInv' OBVIOUS
<1>1. CASE ScanReply
  <2>1. /\ stage = "sent" /\ stage' = "reply" /\ found' \in MatchLists
        /\ UNCHANGED <<at, kept>>
    BY <1>1 DEF ScanReply
  <2>2. kept' = << >> /\ at' = 0 BY <2>1 DEF DedupInv
  <2>3. Sorted' BY <2>1, ListsAreSorted DEF Sorted
  <2>4. Separate' /\ kept' \in Seq(Spans) BY <2>2 DEF Separate
  <2>5. KeptOf(at)' BY <2>2 DEF KeptOf
  <2>6. at' \in 0..Len(found') BY <2>2, <2>3 DEF Sorted
  <2> QED BY <2>1, <2>3, <2>4, <2>5, <2>6 DEF DedupInv
<1>2. CASE Dedup
  <2>1. stage = "reply" /\ stage' = "reply" /\ found' = found BY <1>2 DEF Dedup
  <2>2. Sorted' BY <2>1 DEF DedupInv, Sorted
  <2> QED BY <1>2, <2>1, <2>2, DedupTurn DEF DedupInv
<1>3. CASE StartSanitize
  <2>1. /\ stage = "reply" /\ at = Len(found) /\ stage' = "redact"
        /\ UNCHANGED <<found, kept>>
    BY <1>3 DEF StartSanitize
  <2>2. Sorted /\ Separate /\ kept \in Seq(Spans) /\ KeptOf(Len(found))
    BY <2>1 DEF DedupInv
  <2> QED BY <2>1, <2>2 DEF DedupInv, Sorted, Separate, KeptOf
<1>4. CASE Redact \/ Sanitized
  <2>1. /\ stage = "redact" /\ stage' \in {"redact", "done"}
        /\ UNCHANGED <<found, kept>>
    BY <1>4 DEF Redact, Sanitized
  <2>2. Sorted /\ Separate /\ kept \in Seq(Spans) /\ KeptOf(Len(found))
    BY <2>1 DEF DedupInv
  <2> QED BY <2>1, <2>2 DEF DedupInv, Sorted, Separate, KeptOf
<1>5. CASE Visit \/ Mistype
  <2>1. stage' \in {"args", "typo"} BY <1>5 DEF Visit, Mistype
  <2> QED BY <2>1 DEF DedupInv
<1>6. CASE UNCHANGED vars
  BY <1>6 DEF vars, DedupInv, Sorted, Separate, KeptOf
<1> QED BY <1>1, <1>2, <1>3, <1>4, <1>5, <1>6 DEF Next

LEMMA DedupInvariant == Spec => []DedupInv
BY DedupInit, DedupStep, PTL DEF Spec

\* At every moment of the removal of overlaps: what is kept is in order and disjoint,
\* and what was dropped is overlapped by something kept that starts no later.
THEOREM KeptStayDisjoint == Spec => []KeptAreDisjoint
<1>1. DedupInv => KeptAreDisjoint
  <2> SUFFICES ASSUME Sorted, Separate, kept \in Seq(Spans), at \in 0..Len(found),
                      KeptOf(at)
               PROVE  /\ \A i \in 1..Len(kept) : \A j \in 1..(i - 1) :
                           kept[j].end <= kept[i].start
                      /\ ToSet(kept) \subseteq Compared
                      /\ \A f \in Compared \ ToSet(kept) :
                           \E g \in ToSet(kept) : Overlap(f, g) /\ g.start <= f.start
    BY DEF DedupInv, KeptAreDisjoint
  <2>1. ToSet(kept) = {kept[i] : i \in 1..Len(kept)} BY DEF ToSet
  <2>2. ToSet(kept) \subseteq Compared BY <2>1 DEF KeptOf, Compared
  <2>3. ASSUME NEW f \in Compared \ ToSet(kept)
        PROVE  \E g \in ToSet(kept) : Overlap(f, g) /\ g.start <= f.start
    <3>1. PICK k \in 1..at : f = found[k] BY DEF Compared
    <3>2. PICK i \in 1..Len(kept) : Overlap(f, kept[i]) /\ Before(kept[i], f)
      BY <2>1, <3>1 DEF KeptOf
    <3>3. kept[i] \in Spans /\ f \in Spans
      <4>1. k \in 1..Len(found) BY DEF Sorted
      <4> QED BY <3>1, <4>1 DEF Separate, Sorted
    <3>4. kept[i].start <= f.start BY <3>2, <3>3, SpansAre DEF Before
    <3> QED BY <2>1, <3>2, <3>4
  <2> QED BY <2>2, <2>3 DEF Separate
<1> QED BY <1>1, DedupInvariant, PTL

-----------------------------------------------------------------------------
(* sanitize().  When the spans behind a place have been replaced, the text is the  *)
(* original up to that place, and what the rest of it becomes behind it.           *)

LEMMA PieceType == MarkLen \in Nat => \A i \in Nat : Piece(i) \in Seq(Nat)
BY DEF Piece, Mark

LEMMA RestIs ==
  /\ Rest[0] = << >> /\ \A k \in 0..TextLen : Rest[k] \in Seq(Nat)
  /\ \A k \in 1..TextLen : Rest[k] = Piece(TextLen + 1 - k) \o Rest[k - 1]
<1> DEFINE S == Seq(Nat)
           step == [q \in (1..TextLen) \X S |-> Piece(TextLen + 1 - q[1]) \o q[2]]
<1>0. TextLen \in Nat /\ MarkLen \in Nat BY ScannersAssumption
<1>1. step \in [(1..TextLen) \X S -> S] /\ << >> \in S
  <2>1. ASSUME NEW k \in 1..TextLen, NEW x \in S
        PROVE  Piece(TextLen + 1 - k) \o x \in S
    <3>1. TextLen + 1 - k \in Nat BY <1>0
    <3>2. Piece(TextLen + 1 - k) \in Seq(Nat) BY <1>0, <3>1, PieceType
    <3> QED BY <3>2
  <2> HIDE DEF S
  <2>2. \A q \in (1..TextLen) \X S : Piece(TextLen + 1 - q[1]) \o q[2] \in S BY <2>1
  <2> QED BY <2>2 DEF S
<1>2. PICK r \in [0..TextLen -> S] : Follows(r, TextLen, << >>, step)
  <2> HIDE DEF step, S
  <2> QED BY <1>0, <1>1, Recursion
<1>3. \A k \in 1..TextLen : r[k] = Piece(TextLen + 1 - k) \o r[k - 1]
  <2> TAKE k \in 1..TextLen
  <2>1. <<k, r[k - 1]>> \in (1..TextLen) \X S
    <3>1. k - 1 \in 0..TextLen BY <1>0
    <3> QED BY <3>1
  <2>2. step[<<k, r[k - 1]>>] = Piece(TextLen + 1 - k) \o r[k - 1] BY <2>1
  <2> HIDE DEF step, S
  <2> QED BY <1>2, <2>2 DEF Follows
<1> HIDE DEF step, S
<1>a. r[0] = << >> BY <1>2 DEF Follows
<1>4. r = [k \in 0..TextLen |-> IF k = 0 THEN << >>
                                ELSE Piece(TextLen + 1 - k) \o r[k - 1]]
  <2>1. \A k \in 0..TextLen : k # 0 => k \in 1..TextLen BY <1>0
  <2>2. \A k \in 0..TextLen :
          r[k] = IF k = 0 THEN << >> ELSE Piece(TextLen + 1 - k) \o r[k - 1]
    BY ONLY <1>a, <1>3, <2>1
  <2> QED BY ONLY <1>2, <2>2
<1>5. Rest = [k \in 0..TextLen |-> IF k = 0 THEN << >>
                                   ELSE Piece(TextLen + 1 - k) \o Rest[k - 1]]
  BY <1>4 DEF Rest
<1>6. /\ Rest[0] = << >>
      /\ \A k \in 1..TextLen : Rest[k] = Piece(TextLen + 1 - k) \o Rest[k - 1]
  <2>1. 0 \in 0..TextLen BY <1>0
  <2>2. ASSUME NEW k \in 1..TextLen PROVE Rest[k] = Piece(TextLen + 1 - k) \o Rest[k - 1]
    <3>1. k \in 0..TextLen /\ k # 0 BY <1>0
    <3> QED BY <1>5, <3>1
  <2> QED BY <1>5, <2>1, <2>2
<1>7. \A k \in 0..TextLen : Rest[k] \in Seq(Nat)
  <2> DEFINE T == {k \in 0..TextLen : Rest[k] \in Seq(Nat)}
  <2>1. 0 \in T
    <3>1. << >> \in Seq(Nat) OBVIOUS
    <3>2. Rest[0] \in Seq(Nat) BY ONLY <1>6, <3>1
    <3>3. 0 \in 0..TextLen BY <1>0
    <3> QED BY <3>2, <3>3
  <2>2. ASSUME NEW k \in 0..TextLen, k < TextLen, k \in T PROVE k + 1 \in T
    <3>1. PICK m \in 1..TextLen : m = k + 1 BY <1>0, <2>2
    <3>2. m \in 0..TextLen /\ m - 1 = k /\ TextLen + 1 - m \in Nat BY <1>0, <3>1
    <3>3. Rest[m] = Piece(TextLen + 1 - m) \o Rest[k] BY ONLY <1>6, <3>2, m \in 1..TextLen
    <3>4. Piece(TextLen + 1 - m) \in Seq(Nat) BY <1>0, <3>2, PieceType
    <3>5. Rest[m] \in Seq(Nat) BY <2>2, <3>3, <3>4
    <3> QED BY <3>1, <3>2, <3>5
  <2>3. \A k \in 0..TextLen : k < TextLen /\ k \in T => k + 1 \in T BY <2>2
  <2> HIDE DEF T
  <2>4. \A k \in 0..TextLen : k \in T BY <1>0, <2>1, <2>3, Induct
  <2> QED BY <2>4 DEF T
<1> QED BY <1>6, <1>7

LEMMA RestStarts == Rest[0] = << >>
BY RestIs

LEMMA TextIs ==
  /\ Text \in Seq(Nat) /\ Len(Text) = TextLen
  /\ \A i \in 1..TextLen : Text[i] = i
  /\ SubSeq(Text, 1, TextLen) = Text
<1>1. Text \in Seq(Nat) /\ Len(Text) = TextLen /\ \A i \in 1..TextLen : Text[i] = i
  BY ScannersAssumption DEF Text
<1> QED BY <1>1, SubSeqFull

LEMMA Joins ==
  ASSUME NEW A \in Seq(Nat), NEW B \in Seq(Nat), NEW C \in Seq(Nat)
  PROVE  (A \o B) \o C = A \o (B \o C)
BY SMTT(60)

\* Where no span is, the text stays what it is.
LEMMA Gap ==
  ASSUME NEW a \in 0..TextLen, NEW e \in a..TextLen,
         \A i \in (a + 1)..e : Piece(i) = <<i>>
  PROVE  Rest[TextLen - a] = SubSeq(Text, a + 1, e) \o Rest[TextLen - e]
<1> DEFINE T == {j \in 0..(e - a) :
                   Rest[TextLen - e + j] = SubSeq(Text, e - j + 1, e) \o Rest[TextLen - e]}
<1>0. /\ TextLen \in Nat /\ e - a \in Nat /\ TextLen - e \in 0..TextLen
      /\ a \in Nat /\ e \in Nat /\ e <= TextLen
  BY ScannersAssumption
<1>1. 0 \in T
  <2>1. SubSeq(Text, e - 0 + 1, e) = << >>
    <3>1. e - 0 + 1 \in Int /\ e \in Int /\ e < e - 0 + 1 BY <1>0
    <3> QED BY <3>1, SubSeqEmpty
  <2>2. Rest[TextLen - e] \in Seq(Nat) BY <1>0, RestIs
  <2>3. << >> \o Rest[TextLen - e] = Rest[TextLen - e] BY <2>2, ConcatEmptySeq
  <2>4. TextLen - e + 0 = TextLen - e /\ 0 \in 0..(e - a) BY <1>0
  <2>5. Rest[TextLen - e + 0] = SubSeq(Text, e - 0 + 1, e) \o Rest[TextLen - e]
    BY ONLY <2>1, <2>3, <2>4
  <2> QED BY ONLY <2>4, <2>5
<1>2. ASSUME NEW j \in 0..(e - a), j < e - a, j \in T PROVE j + 1 \in T
  <2>1. /\ e - j \in (a + 1)..e /\ e - j \in 1..TextLen /\ e \in (e - j)..TextLen
        /\ TextLen - e + (j + 1) \in 1..TextLen
        /\ TextLen - e + (j + 1) - 1 = TextLen - e + j
        /\ TextLen + 1 - (TextLen - e + (j + 1)) = e - j
        /\ j + 1 \in 0..(e - a) /\ e - (j + 1) + 1 = e - j
    BY <1>0, <1>2
  <2>2. Rest[TextLen - e + (j + 1)] = Piece(e - j) \o Rest[TextLen - e + j]
    <3>1. PICK k \in 1..TextLen : k = TextLen - e + (j + 1) BY <2>1
    <3>2. TextLen + 1 - k = e - j /\ k - 1 = TextLen - e + j BY <1>0, <3>1
    <3>3. Rest[k] = Piece(e - j) \o Rest[TextLen - e + j]
      BY ONLY <3>2, RestIs, k \in 1..TextLen
    <3> QED BY ONLY <3>1, <3>3
  <2>3. Rest[TextLen - e + j] = SubSeq(Text, e - j + 1, e) \o Rest[TextLen - e] BY <1>2
  <2>4. Piece(e - j) = <<Text[e - j]>> BY <2>1, TextIs
  <2>5. SubSeq(Text, e - j, e) = <<Text[e - j]>> \o SubSeq(Text, e - j + 1, e)
    <3>1. e - j \in 1..Len(Text) /\ e \in (e - j)..Len(Text) BY <2>1, TextIs
    <3> QED BY <3>1, TextIs, SubSeqRecursiveFirst
  <2>6. /\ <<Text[e - j]>> \in Seq(Nat) /\ SubSeq(Text, e - j + 1, e) \in Seq(Nat)
        /\ Rest[TextLen - e] \in Seq(Nat)
    <3>1. Text[e - j] \in Nat
      <4>1. Text[e - j] = e - j BY ONLY <2>1, TextIs
      <4>2. e - j \in Nat BY ONLY <1>0, <2>1
      <4> QED BY ONLY <4>1, <4>2
    <3>2. \A i \in (e - j + 1)..e : Text[i] \in Nat
      <4>1. \A i \in (e - j + 1)..e : i \in 1..TextLen BY <1>0, <2>1
      <4> QED BY <4>1, TextIs
    <3>3. e - j + 1 \in Int /\ e \in Int BY <1>0, <2>1
    <3>4. SubSeq(Text, e - j + 1, e) \in Seq(Nat) BY <3>2, <3>3, SubSeqProperties
    <3> QED BY <1>0, <3>1, <3>4, RestIs
  <2>7. Rest[TextLen - e + (j + 1)] = SubSeq(Text, e - j, e) \o Rest[TextLen - e]
    <3>1. (<<Text[e - j]>> \o SubSeq(Text, e - j + 1, e)) \o Rest[TextLen - e]
            = <<Text[e - j]>> \o (SubSeq(Text, e - j + 1, e) \o Rest[TextLen - e])
      <4> DEFINE A == <<Text[e - j]>>
                 B == SubSeq(Text, e - j + 1, e)
                 C == Rest[TextLen - e]
      <4>1. A \in Seq(Nat) /\ B \in Seq(Nat) /\ C \in Seq(Nat) BY <2>6
      <4> HIDE DEF A, B, C
      <4>2. (A \o B) \o C = A \o (B \o C) BY ONLY <4>1, Joins, ZenonT(60)
      <4> QED BY <4>2 DEF A, B, C
    <3> QED BY ONLY <2>2, <2>3, <2>4, <2>5, <3>1
  <2> QED BY <2>1, <2>7
<1>3. e - a \in T
  <2>1. \A j \in 0..(e - a) : j < e - a /\ j \in T => j + 1 \in T BY <1>2
  <2> HIDE DEF T
  <2>2. \A j \in 0..(e - a) : j \in T BY <1>0, <1>1, <2>1, Induct
  <2> QED BY <1>0, <2>2
<1>4. TextLen - e + (e - a) = TextLen - a /\ e - (e - a) + 1 = a + 1 BY <1>0
<1>5. Rest[TextLen - e + (e - a)]
        = SubSeq(Text, e - (e - a) + 1, e) \o Rest[TextLen - e]
  BY <1>3
<1> QED BY <1>4, <1>5

\* Characters that become nothing.
LEMMA Blank ==
  ASSUME NEW a \in 0..TextLen, NEW e \in a..TextLen,
         \A i \in (a + 1)..e : Piece(i) = << >>
  PROVE  Rest[TextLen - a] = Rest[TextLen - e]
<1> DEFINE T == {j \in 0..(e - a) : Rest[TextLen - e + j] = Rest[TextLen - e]}
<1>0. /\ TextLen \in Nat /\ e - a \in Nat /\ TextLen - e \in 0..TextLen
      /\ a \in Nat /\ e \in Nat /\ e <= TextLen
  BY ScannersAssumption
<1>1. 0 \in T
  <2>1. TextLen - e + 0 = TextLen - e /\ 0 \in 0..(e - a) BY <1>0
  <2> QED BY <2>1
<1>2. ASSUME NEW j \in 0..(e - a), j < e - a, j \in T PROVE j + 1 \in T
  <2>1. PICK k \in 1..TextLen : k = TextLen - e + (j + 1) BY <1>0, <1>2
  <2>2. /\ TextLen + 1 - k = e - j /\ k - 1 = TextLen - e + j
        /\ e - j \in (a + 1)..e /\ j + 1 \in 0..(e - a)
    BY <1>0, <1>2, <2>1
  <2>3. Rest[k] = Piece(e - j) \o Rest[TextLen - e + j]
    BY ONLY <2>2, RestIs, k \in 1..TextLen
  <2>4. Piece(e - j) = << >> BY <2>2
  <2>5. Rest[TextLen - e + j] \in Seq(Nat)
    <3>1. TextLen - e + j \in 0..TextLen BY <1>0, <1>2
    <3> QED BY ONLY <3>1, RestIs
  <2>6. << >> \o Rest[TextLen - e + j] = Rest[TextLen - e + j]
    BY ONLY <2>5, ConcatEmptySeq
  <2>7. Rest[k] = Rest[TextLen - e] BY <1>2, <2>3, <2>4, <2>6
  <2> QED BY <2>1, <2>2, <2>7
<1>3. e - a \in T
  <2>1. \A j \in 0..(e - a) : j < e - a /\ j \in T => j + 1 \in T BY <1>2
  <2> HIDE DEF T
  <2>2. \A j \in 0..(e - a) : j \in T BY <1>0, <1>1, <2>1, Induct
  <2> QED BY <1>0, <2>2
<1>4. TextLen - e + (e - a) = TextLen - a BY <1>0
<1>5. Rest[TextLen - e + (e - a)] = Rest[TextLen - e] BY <1>3
<1> QED BY <1>4, <1>5

\* What a kept finding becomes, and what is between it and the next one.
LEMMA Marked ==
  ASSUME Separate, kept \in Seq(Spans), NEW m \in 1..Len(kept)
  PROVE  Rest[TextLen - kept[m].start] = Mark \o Rest[TextLen - kept[m].end]
<1> DEFINE f == kept[m]
           g(j) == kept[j]
<1>0. Len(kept) \in Nat /\ TextLen \in Nat BY ScannersAssumption DEF Separate
<1>1. /\ f \in Spans /\ f.start \in Nat /\ f.end \in Nat
      /\ f.start < f.end /\ f.end <= TextLen
  <2>1. f \in Spans BY DEF Separate
  <2> HIDE DEF f
  <2> QED BY <2>1, SpansAre
<1>2. f \in ToSet(kept) BY <1>0 DEF ToSet
<1>3. Piece(f.start + 1) = Mark BY <1>2 DEF Piece
<1>4. ASSUME NEW i \in (f.start + 2)..f.end PROVE Piece(i) = << >>
  <2>0. i \in Int /\ f.start + 2 <= i /\ i <= f.end BY <1>1
  <2>1. i \in Covers(f) BY <1>1, <2>0 DEF Covers
  <2>2. ASSUME NEW j \in 1..Len(kept), i = kept[j].start + 1 PROVE FALSE
    <3>1. /\ kept[j].start \in Nat /\ kept[j].end \in Nat /\ kept[j].start < kept[j].end
      <4>1. kept[j] \in Spans BY DEF Separate
      <4> QED BY <4>1, SpansAre
    <3>2. CASE j = m BY <1>1, <2>0, <2>2, <3>2
    <3>3. CASE j < m
      <4>1. j \in 1..(m - 1) BY <1>0, <3>3
      <4>2. kept[j].end <= f.start BY <4>1 DEF Separate
      <4> QED BY <1>1, <2>0, <2>2, <3>1, <4>2
    <3>4. CASE j > m
      <4>1. m \in 1..(j - 1) BY <1>0, <3>4
      <4>2. f.end <= kept[j].start BY <4>1 DEF Separate
      <4> QED BY <1>1, <2>0, <2>2, <3>1, <4>2
    <3> QED BY <1>0, <3>2, <3>3, <3>4
  <2>3. ~\E x \in ToSet(kept) : i = x.start + 1
    <3>1. \A x \in ToSet(kept) : \E j \in 1..Len(kept) : x = kept[j]
      <4>1. DOMAIN kept = 1..Len(kept) OBVIOUS
      <4> QED BY <4>1 DEF ToSet
    <3> QED BY <2>2, <3>1
  <2> QED BY <1>2, <2>1, <2>3 DEF Piece
<1>5. Rest[TextLen - (f.start + 1)] = Rest[TextLen - f.end]
  <2>1. PICK a \in 0..TextLen : a = f.start + 1 BY <1>0, <1>1
  <2>2. PICK e \in a..TextLen : e = f.end BY <1>0, <1>1, <2>1
  <2>3. \A i \in (a + 1)..e : Piece(i) = << >>
    <3>1. a + 1 = f.start + 2 BY <1>1, <2>1
    <3> QED BY ONLY <1>4, <2>2, <3>1
  <2>4. Rest[TextLen - a] = Rest[TextLen - e] BY <2>3, Blank
  <2> QED BY ONLY <2>1, <2>2, <2>4
<1>6. Rest[TextLen - f.start] = Mark \o Rest[TextLen - (f.start + 1)]
  <2>1. PICK k \in 1..TextLen : k = TextLen - f.start BY <1>0, <1>1
  <2>2. TextLen + 1 - k = f.start + 1 /\ k - 1 = TextLen - (f.start + 1)
    BY <1>0, <1>1, <2>1
  <2>3. Rest[k] = Piece(f.start + 1) \o Rest[TextLen - (f.start + 1)]
    BY ONLY <2>2, RestIs, k \in 1..TextLen
  <2> QED BY ONLY <1>3, <2>1, <2>3
<1> QED BY ONLY <1>5, <1>6

\* Where the next kept finding behind number m starts.
Edge(m) == IF m = Len(kept) THEN TextLen ELSE kept[m + 1].start

LEMMA Edges ==
  ASSUME Separate, kept \in Seq(Spans), NEW m \in 0..Len(kept)
  PROVE  /\ Edge(m) \in 0..TextLen
         /\ m > 0 => kept[m].end <= Edge(m)
         /\ \A i \in 1..Edge(m) : (\A j \in 1..m : kept[j].end < i) => Piece(i) = <<i>>
<1>0. Len(kept) \in Nat /\ TextLen \in Nat BY ScannersAssumption
<1>1. \A j \in 1..Len(kept) :
        /\ kept[j].start \in Nat /\ kept[j].end \in Nat
        /\ kept[j].start < kept[j].end /\ kept[j].end <= TextLen
  <2> TAKE j \in 1..Len(kept)
  <2>1. kept[j] \in Spans BY DEF Separate
  <2> QED BY <2>1, SpansAre
<1>2. \A j \in 1..Len(kept) : \A h \in 1..(j - 1) : kept[h].end <= kept[j].start
  BY DEF Separate
<1>3. \A j \in (m + 1)..Len(kept) : Edge(m) <= kept[j].start
  <2> TAKE j \in (m + 1)..Len(kept)
  <2>1. PICK n \in 1..Len(kept) : n = m + 1 BY <1>0
  <2>2. Edge(m) = kept[n].start BY <1>0, <2>1 DEF Edge
  <2>3. CASE j = n BY <1>0, <1>1, <2>2, <2>3
  <2>4. CASE j # n
    <3>1. n \in 1..(j - 1) /\ j \in 1..Len(kept) BY <1>0, <2>1, <2>4
    <3> QED BY <1>1, <1>2, <2>2, <3>1
  <2> QED BY <2>3, <2>4
<1>4. Edge(m) \in 0..TextLen
  <2>1. CASE m = Len(kept) BY <1>0, <2>1 DEF Edge
  <2>2. CASE m # Len(kept)
    <3>1. PICK n \in 1..Len(kept) : n = m + 1 BY <1>0, <2>2
    <3>2. Edge(m) = kept[n].start BY <2>2, <3>1 DEF Edge
    <3> QED BY <1>0, <1>1, <3>2
  <2> QED BY <2>1, <2>2
<1>5. m > 0 => kept[m].end <= Edge(m)
  <2>1. CASE m = Len(kept) BY <1>0, <1>1, <2>1 DEF Edge
  <2>2. CASE m # Len(kept) /\ m > 0
    <3>1. PICK n \in 1..Len(kept) : n = m + 1 BY <1>0, <2>2
    <3>2. m \in 1..(n - 1) BY <1>0, <2>2, <3>1
    <3>3. Edge(m) = kept[n].start BY <2>2, <3>1 DEF Edge
    <3> QED BY <1>2, <3>2, <3>3
  <2> QED BY <2>1, <2>2
<1>6. ASSUME NEW i \in 1..Edge(m), \A j \in 1..m : kept[j].end < i PROVE Piece(i) = <<i>>
  <2>0. i \in Int /\ i <= Edge(m) /\ Edge(m) \in Int BY <1>4
  <2>1. ASSUME NEW j \in 1..Len(kept) PROVE i \notin Covers(kept[j]) /\ i # kept[j].start + 1
    <3>1. /\ kept[j].start \in Nat /\ kept[j].end \in Nat /\ kept[j].start < kept[j].end
      BY <1>1
    <3>2. CASE j <= m
      <4>1. kept[j].end < i BY <1>0, <1>6, <3>2
      <4> QED BY <2>0, <3>1, <4>1 DEF Covers
    <3>3. CASE j > m
      <4>1. Edge(m) <= kept[j].start BY <1>0, <1>3, <3>3
      <4> QED BY <2>0, <3>1, <4>1 DEF Covers
    <3> QED BY <1>0, <3>2, <3>3
  <2>2. \A x \in ToSet(kept) : \E j \in 1..Len(kept) : x = kept[j]
    <3>1. DOMAIN kept = 1..Len(kept) OBVIOUS
    <3> QED BY <3>1 DEF ToSet
  <2>3. \A x \in ToSet(kept) : i \notin Covers(x) /\ i # x.start + 1 BY <2>1, <2>2
  <2> QED BY <2>3 DEF Piece
<1> QED BY <1>4, <1>5, <1>6

\* What is before place c and what is behind it, when t was kept up to place d.
CutAt(t, r, d, c, x) ==
  x = SubSeq(t, 1, d) \o r =>
    /\ SubSeq(x, 1, c) = SubSeq(t, 1, c)
    /\ SubSeq(x, c + 1, Len(x)) = SubSeq(t, c + 1, d) \o r

LEMMA Cut ==
  ASSUME NEW S, NEW t \in Seq(S), NEW r \in Seq(S), NEW d \in 0..Len(t), NEW c \in 0..d,
         NEW x
  PROVE  CutAt(t, r, d, c, x)
<1> SUFFICES ASSUME x = SubSeq(t, 1, d) \o r
             PROVE  /\ SubSeq(x, 1, c) = SubSeq(t, 1, c)
                    /\ SubSeq(x, c + 1, Len(x)) = SubSeq(t, c + 1, d) \o r
  BY DEF CutAt
<1>0. /\ Len(t) \in Nat /\ Len(r) \in Nat /\ \A i \in 1..Len(t) : t[i] \in S
      /\ d \in Nat /\ c \in Nat /\ d <= Len(t) /\ c <= d
  OBVIOUS
<1> DEFINE u == SubSeq(t, 1, d)
<1>1. u \in Seq(S) /\ Len(u) = d /\ \A i \in 1..d : u[i] = t[i]
  <2>1. \A i \in 1..d : t[i] \in S BY <1>0
  <2>2. /\ u \in Seq(S) /\ Len(u) = IF 1 <= d THEN d - 1 + 1 ELSE 0
        /\ \A i \in 1..(d - 1 + 1) : u[i] = t[1 + i - 1]
    <3>1. 1 \in Int /\ d \in Int BY <1>0
    <3> QED BY ONLY <2>1, <3>1, SubSeqProperties
  <2>3. d - 1 + 1 = d /\ \A i \in 1..d : 1 + i - 1 = i BY <1>0
  <2>4. Len(u) = d BY <1>0, <2>2
  <2> QED BY ONLY <2>2, <2>3, <2>4
<1> HIDE DEF u
<1>2. /\ x \in Seq(S) /\ Len(x) = d + Len(r)
      /\ \A i \in 1..(d + Len(r)) : x[i] = IF i <= d THEN t[i] ELSE r[i - d]
  <2>1. x = u \o r BY DEF u
  <2>2. /\ x \in Seq(S) /\ Len(x) = Len(u) + Len(r)
        /\ \A i \in 1..(Len(u) + Len(r)) :
             x[i] = IF i <= Len(u) THEN u[i] ELSE r[i - Len(u)]
    BY <1>1, <2>1, ConcatProperties
  <2>3. \A i \in 1..(d + Len(r)) : i <= d => i \in 1..d BY <1>0
  <2> QED BY ONLY <1>1, <2>2, <2>3
<1>3. \A i \in 1..(d + Len(r)) : x[i] \in S BY <1>2
<1> DEFINE n == d + Len(r)
<1>4. n \in Nat /\ c <= n BY <1>0
<1>5. SubSeq(x, 1, c) = SubSeq(t, 1, c)
  <2>1. \A i \in 1..c : x[i] \in S /\ t[i] \in S /\ x[i] = t[i]
    <3>1. \A i \in 1..c : i \in 1..(d + Len(r)) /\ i <= d /\ i \in 1..Len(t) BY <1>0
    <3> QED BY ONLY <1>0, <1>2, <1>3, <3>1
  <2>2. c \in Int /\ 1 \in Int /\ \A i \in 1..(c - 1 + 1) : 1 + i - 1 = i /\ i \in 1..c
    BY <1>0
  <2> DEFINE a == SubSeq(x, 1, c)
             b == SubSeq(t, 1, c)
  <2>3. /\ a \in Seq(S) /\ Len(a) = IF 1 <= c THEN c - 1 + 1 ELSE 0
        /\ \A i \in 1..(c - 1 + 1) : a[i] = x[1 + i - 1]
    BY ONLY <2>1, <2>2, SubSeqProperties
  <2>4. /\ b \in Seq(S) /\ Len(b) = IF 1 <= c THEN c - 1 + 1 ELSE 0
        /\ \A i \in 1..(c - 1 + 1) : b[i] = t[1 + i - 1]
    BY ONLY <2>1, <2>2, SubSeqProperties
  <2> HIDE DEF a, b
  <2>5. \A i \in 1..(c - 1 + 1) : a[i] = b[i] BY ONLY <2>1, <2>2, <2>3, <2>4
  <2>6. Len(a) = Len(b) /\ \A i \in 1..Len(a) : i \in 1..(c - 1 + 1)
    BY <1>0, <2>3, <2>4
  <2>7. a = b BY ONLY <2>3, <2>4, <2>5, <2>6, SeqEqual
  <2> QED BY <2>7 DEF a, b
<1>6. SubSeq(x, c + 1, n) = SubSeq(t, c + 1, d) \o r
  <2> DEFINE a == SubSeq(x, c + 1, n)
             v == SubSeq(t, c + 1, d)
             b == v \o r
  <2>1. c + 1 \in Int /\ n \in Int /\ d \in Int BY <1>0
  <2>2. a \in Seq(S) /\ Len(a) = n - c /\ \A i \in 1..(n - c) : a[i] = x[c + i]
    <3>1. \A i \in (c + 1)..n : x[i] \in S
      <4>1. \A i \in (c + 1)..n : i \in 1..(d + Len(r)) BY <1>0
      <4> QED BY ONLY <1>3, <4>1
    <3>2. /\ a \in Seq(S) /\ Len(a) = IF c + 1 <= n THEN n - (c + 1) + 1 ELSE 0
          /\ \A i \in 1..(n - (c + 1) + 1) : a[i] = x[c + 1 + i - 1]
      BY ONLY <2>1, <3>1, SubSeqProperties
    <3>3. /\ n - (c + 1) + 1 = n - c /\ \A i \in 1..(n - c) : c + 1 + i - 1 = c + i
      BY <1>0, <1>4
    <3>4. Len(a) = n - c
      <4> HIDE DEF a
      <4> QED BY <1>0, <1>4, <3>2
    <3> QED BY ONLY <3>2, <3>3, <3>4
  <2>3. v \in Seq(S) /\ Len(v) = d - c /\ \A i \in 1..(d - c) : v[i] = t[c + i]
    <3>1. \A i \in (c + 1)..d : t[i] \in S
      <4>1. \A i \in (c + 1)..d : i \in 1..Len(t) BY <1>0
      <4> QED BY ONLY <1>0, <4>1
    <3>2. /\ v \in Seq(S) /\ Len(v) = IF c + 1 <= d THEN d - (c + 1) + 1 ELSE 0
          /\ \A i \in 1..(d - (c + 1) + 1) : v[i] = t[c + 1 + i - 1]
      BY ONLY <2>1, <3>1, SubSeqProperties
    <3>3. /\ d - (c + 1) + 1 = d - c /\ \A i \in 1..(d - c) : c + 1 + i - 1 = c + i
      BY <1>0
    <3>4. Len(v) = d - c
      <4> HIDE DEF v
      <4> QED BY <1>0, <3>2
    <3> QED BY ONLY <3>2, <3>3, <3>4
  <2> HIDE DEF a, v
  <2>4. /\ b \in Seq(S) /\ Len(b) = d - c + Len(r)
        /\ \A i \in 1..(d - c + Len(r)) :
             b[i] = IF i <= d - c THEN v[i] ELSE r[i - (d - c)]
    <3>1. /\ b \in Seq(S) /\ Len(b) = Len(v) + Len(r)
          /\ \A i \in 1..(Len(v) + Len(r)) :
               b[i] = IF i <= Len(v) THEN v[i] ELSE r[i - Len(v)]
      BY <2>3, ConcatProperties
    <3> QED BY ONLY <2>3, <3>1
  <2> HIDE DEF b
  <2>5. \A i \in 1..(n - c) : a[i] = b[i]
    <3> TAKE i \in 1..(n - c)
    <3>1. /\ i \in 1..(d - c + Len(r)) /\ c + i \in 1..(d + Len(r))
          /\ (c + i <= d <=> i <= d - c) /\ c + i - d = i - (d - c)
      BY <1>0
    <3>2. a[i] = IF c + i <= d THEN t[c + i] ELSE r[c + i - d]
      <4>1. x[c + i] = IF c + i <= d THEN t[c + i] ELSE r[c + i - d]
        BY ONLY <1>2, <3>1
      <4> QED BY ONLY <2>2, <4>1, i \in 1..(n - c)
    <3>3. i <= d - c => i \in 1..(d - c) BY <1>0
    <3> QED BY ONLY <2>3, <2>4, <3>1, <3>2, <3>3
  <2>6. Len(a) = Len(b) /\ Len(a) = n - c BY <1>0, <2>2, <2>4
  <2>7. a = b BY ONLY <2>2, <2>4, <2>5, <2>6, SeqEqual
  <2> QED BY <2>7 DEF a, b, v
<1> QED BY <1>2, <1>5, <1>6

RedactInv ==
  stage \in {"redact", "done"} =>
    /\ at \in 0..Len(kept)
    /\ stage = "done" => at = 0
    /\ chars = SubSeq(Text, 1, Edge(at)) \o Rest[TextLen - Edge(at)]

LEMMA RedactTurn ==
  ASSUME Separate, kept \in Seq(Spans), RedactInv, Redact
  PROVE  RedactInv'
<1> DEFINE f == kept[at]
           e == Edge(at)
           R == Rest[TextLen - e]
           before == SubSeq(Text, 1, f.start)
           between == SubSeq(Text, f.end + 1, e)
<1>0. /\ stage = "redact" /\ at > 0 /\ stage' = stage /\ kept' = kept /\ at' = at - 1
      /\ chars' = SubSeq(chars, 1, f.start) \o Mark \o SubSeq(chars, f.end + 1, Len(chars))
  BY DEF Redact, NextSpan
<1>1. at \in 1..Len(kept) /\ Len(kept) \in Nat /\ TextLen \in Nat /\ at \in 0..Len(kept)
  <2>1. at \in 0..Len(kept) /\ Len(kept) \in Nat BY <1>0 DEF RedactInv, Separate
  <2>2. TextLen \in Nat BY ScannersAssumption
  <2> QED BY ONLY <1>0, <2>1, <2>2
<1>2. /\ f.start \in Nat /\ f.end \in Nat /\ f.start < f.end /\ f.end <= TextLen
  <2>1. f \in Spans BY <1>1 DEF Separate
  <2> HIDE DEF f
  <2> QED BY <2>1, SpansAre
<1>3. e \in 0..TextLen /\ f.end <= e BY <1>0, <1>1, Edges
<1>4. \A i \in (f.end + 1)..e : Piece(i) = <<i>>
  <2> TAKE i \in (f.end + 1)..e
  <2>1. \A j \in 1..at : kept[j].end < i
    <3> TAKE j \in 1..at
    <3>1. /\ j \in 1..Len(kept) /\ kept[j].end \in Nat
      <4>1. j \in 1..Len(kept) BY <1>1
      <4>2. kept[j] \in Spans BY <4>1 DEF Separate
      <4> QED BY <4>1, <4>2, SpansAre
    <3>2. CASE j = at BY <1>2, <3>2
    <3>3. CASE j # at
      <4>1. j \in 1..(at - 1) BY <1>1, <3>3
      <4>2. kept[j].end <= f.start BY <1>1, <4>1 DEF Separate
      <4> QED BY <1>2, <3>1, <4>2
    <3> QED BY <3>2, <3>3
  <2>2. i \in 1..Edge(at) BY <1>2, <1>3
  <2> QED BY <1>1, <2>1, <2>2, Edges
<1>5. R \in Seq(Nat)
  <2>1. TextLen - e \in 0..TextLen BY <1>1, <1>3
  <2> QED BY <2>1, RestIs
<1>6. Rest[TextLen - f.end] = between \o R
  <2>1. PICK a \in 0..TextLen : a = f.end BY <1>1, <1>2
  <2>2. PICK d \in a..TextLen : d = e BY <1>3, <2>1
  <2>3. \A i \in (a + 1)..d : Piece(i) = <<i>> BY ONLY <1>4, <2>1, <2>2
  <2>4. Rest[TextLen - a] = SubSeq(Text, a + 1, d) \o Rest[TextLen - d] BY <2>3, Gap
  <2> QED BY ONLY <2>1, <2>2, <2>4
<1>7. /\ SubSeq(chars, 1, f.start) = before
      /\ SubSeq(chars, f.end + 1, Len(chars)) = between \o R
  <2>1. chars = SubSeq(Text, 1, e) \o R BY <1>0 DEF RedactInv
  <2>2. Text \in Seq(Nat) /\ e \in 0..Len(Text) BY <1>3, TextIs
  <2>3. f.start \in 0..e /\ f.end \in 0..e BY <1>2, <1>3
  <2>4. CutAt(Text, R, e, f.start, chars) /\ CutAt(Text, R, e, f.end, chars)
    <3> HIDE DEF f, e, R
    <3> QED BY ONLY <1>5, <2>2, <2>3, Cut
  <2>5. chars = SubSeq(Text, 1, e) \o R BY <2>1
  <2> HIDE DEF f, e, R
  <2> QED BY ONLY <2>4, <2>5 DEF CutAt, before, between
<1>8. chars' = before \o Mark \o Rest[TextLen - f.end] BY <1>0, <1>6, <1>7
<1>9. before \in Seq(Nat) /\ Mark \in Seq(Nat) /\ Rest[TextLen - f.end] \in Seq(Nat)
  <2>1. \A i \in 1..f.start : Text[i] \in Nat
    <3>1. \A i \in 1..f.start : i \in 1..TextLen BY <1>1, <1>2
    <3> QED BY <3>1, TextIs
  <2>2. 1 \in Int /\ f.start \in Int BY <1>2
  <2>3. before \in Seq(Nat) BY ONLY <2>1, <2>2, SubSeqProperties
  <2>4. Mark \in Seq(Nat) BY ScannersAssumption DEF Mark
  <2>5. TextLen - f.end \in 0..TextLen BY <1>1, <1>2
  <2> QED BY <2>3, <2>4, <2>5, RestIs
<1>10. chars' = before \o Rest[TextLen - f.start]
  <2>1. Rest[TextLen - f.start] = Mark \o Rest[TextLen - f.end] BY <1>1, Marked
  <2>2. PICK b : b = before OBVIOUS
  <2>3. PICK r : r = Rest[TextLen - f.end] OBVIOUS
  <2>4. PICK k : k = Mark OBVIOUS
  <2>5. PICK y : y = Rest[TextLen - f.start] OBVIOUS
  <2>6. PICK x : x = chars' OBVIOUS
  <2>7. x = b \o k \o r /\ y = k \o r BY ONLY <1>8, <2>1, <2>2, <2>3, <2>4, <2>5, <2>6
  <2>8. b \in Seq(Nat) /\ k \in Seq(Nat) /\ r \in Seq(Nat) BY <1>9, <2>2, <2>3, <2>4
  <2>9. x = b \o y
    <3>1. (b \o k) \o r = b \o (k \o r) BY ONLY <2>8, Joins, ZenonT(60)
    <3> QED BY ONLY <2>7, <3>1
  <2> QED BY ONLY <2>2, <2>5, <2>6, <2>9
<1>11. Edge(at - 1) = f.start /\ at - 1 \in 0..Len(kept)
  <2>1. at - 1 # Len(kept) /\ at - 1 + 1 = at /\ at - 1 \in 0..Len(kept) BY <1>1
  <2> QED BY ONLY <2>1 DEF Edge
<1>12. Rest' = Rest BY <1>0 DEF Rest, Piece, Covers
<1>13. (Edge(at))' = f.start BY <1>0, <1>11 DEF Edge
<1>14. chars' = SubSeq(Text, 1, (Edge(at))') \o Rest'[TextLen - (Edge(at))']
  BY ONLY <1>10, <1>12, <1>13
<1> QED
  <2>1. Text' = Text BY DEF Text
  <2>2. at' \in 0..Len(kept') /\ stage' # "done" BY <1>0, <1>11
  <2> QED BY ONLY <1>14, <2>1, <2>2 DEF RedactInv

\* The text that is returned has one mark for each span, and everything else in
\* order: the replacements, from right to left, do not disturb each other.
THEOREM RedactionIsExact == Spec => []RedactedExactly
<1>1. Init => RedactInv BY DEF Init, RedactInv
<1>2. DedupInv /\ RedactInv /\ [Next]_vars => RedactInv'
  <2> SUFFICES ASSUME DedupInv, RedactInv, [Next]_vars PROVE RedactInv' OBVIOUS
  <2>1. CASE Redact
    <3>1. Separate /\ kept \in Seq(Spans) BY <2>1 DEF Redact, DedupInv
    <3> QED BY <2>1, <3>1, RedactTurn
  <2>2. CASE StartSanitize
    <3>1. /\ stage = "reply" /\ stage' = "redact" /\ kept' = kept /\ at' = Len(kept)
          /\ chars' = Text
      BY <2>2 DEF StartSanitize
    <3>2. Len(kept) \in Nat /\ TextLen \in Nat
      BY <3>1, ScannersAssumption DEF DedupInv, Separate
    <3>3. (Edge(at))' = TextLen BY <3>1 DEF Edge
    <3>4. Rest'[TextLen - TextLen] = << >>
      <4>1. TextLen - TextLen = 0 BY <3>2
      <4>2. (Rest[0] = << >>)' BY RestStarts, PTL
      <4> QED BY <4>1, <4>2
    <3>5. SubSeq(Text, 1, TextLen) \o << >> = Text BY TextIs, ConcatEmptySeq
    <3>6. Text' = Text BY DEF Text
    <3>7. chars' = SubSeq(Text', 1, (Edge(at))') \o Rest'[TextLen - (Edge(at))']
      BY ONLY <3>1, <3>3, <3>4, <3>5, <3>6
    <3>8. at' \in 0..Len(kept') /\ stage' # "done" BY <3>1, <3>2
    <3> QED BY ONLY <3>7, <3>8 DEF RedactInv
  <2>3. CASE Sanitized
    <3>1. /\ stage = "redact" /\ at = 0 /\ kept' = kept /\ at' = at /\ chars' = chars
      BY <2>3 DEF Sanitized
    <3>2. Rest' = Rest BY <3>1 DEF Rest, Piece, Covers
    <3>3. (Edge(at))' = Edge(at) BY <3>1 DEF Edge
    <3>4. Text' = Text BY DEF Text
    <3> QED BY <3>1, <3>2, <3>3, <3>4 DEF RedactInv
  <2>4. CASE Visit \/ ScanReply \/ Dedup \/ Mistype
    <3>1. stage' \notin {"redact", "done"}
      BY <2>4 DEF Visit, ScanReply, Dedup, Mistype
    <3> QED BY <3>1 DEF RedactInv
  <2>5. CASE UNCHANGED vars
    <3>1. kept' = kept /\ at' = at /\ chars' = chars /\ stage' = stage BY <2>5 DEF vars
    <3>2. Rest' = Rest BY <3>1 DEF Rest, Piece, Covers
    <3>3. (Edge(at))' = Edge(at) BY <3>1 DEF Edge
    <3>4. Text' = Text BY DEF Text
    <3> QED BY <3>1, <3>2, <3>3, <3>4 DEF RedactInv
  <2> QED BY <2>1, <2>2, <2>3, <2>4, <2>5 DEF Next
<1>3. DedupInv /\ RedactInv => RedactedExactly
  <2> SUFFICES ASSUME DedupInv, RedactInv, stage = "done" PROVE chars = Rest[TextLen]
    BY DEF RedactedExactly
  <2>1. Separate /\ kept \in Seq(Spans) /\ at = 0 /\ at \in 0..Len(kept)
    BY DEF DedupInv, RedactInv
  <2>2. Edge(0) \in 0..TextLen /\ \A i \in 1..Edge(0) : Piece(i) = <<i>>
    <3>1. \A j \in 1..0 : FALSE OBVIOUS
    <3> QED BY <2>1, <3>1, Edges
  <2>3. Rest[TextLen - 0] = SubSeq(Text, 1, Edge(0)) \o Rest[TextLen - Edge(0)]
    <3>1. PICK a \in 0..TextLen : a = 0 BY ScannersAssumption
    <3>2. PICK e \in a..TextLen : e = Edge(0) BY <2>2, <3>1
    <3>3. a + 1 = 1 BY <3>1
    <3>4. \A i \in (a + 1)..e : Piece(i) = <<i>> BY ONLY <2>2, <3>2, <3>3
    <3>5. Rest[TextLen - a] = SubSeq(Text, a + 1, e) \o Rest[TextLen - e] BY <3>4, Gap
    <3> QED BY ONLY <3>1, <3>2, <3>3, <3>5
  <2>4. TextLen - 0 = TextLen BY ScannersAssumption
  <2>5. chars = SubSeq(Text, 1, Edge(0)) \o Rest[TextLen - Edge(0)] BY <2>1 DEF RedactInv
  <2> QED BY ONLY <2>3, <2>4, <2>5
<1> QED BY <1>1, <1>2, <1>3, DedupInvariant, PTL DEF Spec

-----------------------------------------------------------------------------
(* scan_dict().  The arguments are a tree; what the recursion has still to look *)
(* at are values none of which is nested in another.                            *)

\* A list directly inside a list: scan_dict() does not look into it.
Unseen(n) ==
  tree.kind[n] = "list" /\ tree.parent[n] # 0 /\ tree.kind[tree.parent[n]] = "list"

\* A value with everything it is nested in; a parent has the smaller number.
Within[n \in 0..MaxNodes] == IF n = 0 THEN {} ELSE {n} \cup Within[tree.parent[n]]

\* What the walk scans: each string once, and short of what scan_dict() says of
\* itself ("Recursively scan all string values in a dict.") the strings below a
\* list that is itself an item of a list not at all.
ScannedAre ==
  stage = "args" /\ todo = << >> =>
    /\ IsInjective(hits)
    /\ ToSet(hits) = {n \in Nodes : tree.kind[n] = "str" /\ \A m \in Within[n] : ~Unseen(m)}

TreeOk ==
  /\ \A n \in Nodes : tree.parent[n] \in Nat /\ tree.parent[n] < n
  /\ \A n \in Nodes : tree.parent[n] = 0 <=> n = 1
  /\ \A n \in Nodes : tree.parent[n] # 0 =>
       tree.parent[n] \in Nodes /\ tree.kind[tree.parent[n]] \in {"dict", "list"}

LEMMA NodesAre == MaxNodes \in Nat /\ \A n \in Nodes : n \in 1..MaxNodes /\ n \in 0..MaxNodes
BY ScannersAssumption DEF Nodes

LEMMA TreesAreOk == Init /\ stage = "args" => TreeOk
<1> SUFFICES ASSUME tree \in Trees PROVE TreeOk BY DEF Init
<1>0. MaxNodes \in Nat \ {0} BY ScannersAssumption
<1>1. /\ tree.parent[1] = 0
      /\ \A n \in Nodes \ {1} :
           tree.parent[n] \in 1..(n - 1) /\ tree.kind[tree.parent[n]] \in {"dict", "list"}
  BY DEF Trees, Parents
<1>2. ASSUME NEW n \in Nodes
      PROVE  /\ tree.parent[n] \in Nat /\ tree.parent[n] < n
             /\ tree.parent[n] = 0 <=> n = 1
             /\ tree.parent[n] # 0 =>
                  tree.parent[n] \in Nodes /\ tree.kind[tree.parent[n]] \in {"dict", "list"}
  <2>1. n \in Nat /\ 1 <= n /\ n <= MaxNodes BY <1>0 DEF Nodes
  <2>2. CASE n = 1 BY <1>1, <2>2
  <2>3. CASE n # 1
    <3>1. tree.parent[n] \in 1..(n - 1) BY <1>1, <2>3
    <3>2. tree.parent[n] \in Nodes BY <1>0, <2>1, <3>1 DEF Nodes
    <3> QED BY <1>1, <2>1, <2>3, <3>1, <3>2
  <2> QED BY <2>2, <2>3
<1> QED BY <1>2 DEF TreeOk

\* What Within says of each value.
LEMMA WithinIs ==
  ASSUME TreeOk
  PROVE  /\ Within[0] = {}
         /\ \A n \in Nodes : Within[n] = {n} \cup Within[tree.parent[n]]
<1> DEFINE par == [n \in 1..MaxNodes |-> tree.parent[n]]
           Ok(f, m) == f[0] = {} /\ \A n \in 1..m : f[n] = {n} \cup f[par[n]]
           T == {m \in 0..MaxNodes : \E f \in [0..m -> SUBSET Nodes] : Ok(f, m)}
<1>0. MaxNodes \in Nat /\ Nodes = 1..MaxNodes BY ScannersAssumption DEF Nodes
<1>p. \A n \in 1..MaxNodes : par[n] = tree.parent[n] /\ par[n] \in Nat /\ par[n] < n
  BY <1>0 DEF TreeOk
<1> HIDE DEF par
<1>1. 0 \in T
  <2>1. [k \in 0..0 |-> {}] \in [0..0 -> SUBSET Nodes] OBVIOUS
  <2>2. Ok([k \in 0..0 |-> {}], 0) OBVIOUS
  <2>3. 0 \in 0..MaxNodes BY <1>0
  <2> HIDE DEF Ok
  <2> QED BY <2>1, <2>2, <2>3
<1>2. ASSUME NEW m \in 0..MaxNodes, m < MaxNodes, m \in T PROVE m + 1 \in T
  <2>1. PICK f \in [0..m -> SUBSET Nodes] : Ok(f, m) BY <1>2
  <2>2. PICK q \in 1..MaxNodes : q = m + 1 BY <1>0, <1>2
  <2>3. q \in Nat /\ q \in 0..MaxNodes /\ m \in Nat /\ par[q] \in 0..m
    <3>1. par[q] \in Nat /\ par[q] < q BY <1>p
    <3> QED BY <1>0, <2>2, <3>1
  <2> DEFINE g == [k \in 0..q |-> IF k = q THEN {q} \cup f[par[q]] ELSE f[k]]
  <2>4. \A k \in 0..m : k \in 0..q /\ k # q BY <2>2, <2>3
  <2>5. g[q] = {q} \cup f[par[q]] /\ \A k \in 0..m : g[k] = f[k]
    <3>1. q \in 0..q BY <2>3
    <3> QED BY <2>4, <3>1
  <2>6. g \in [0..q -> SUBSET Nodes]
    <3>1. {q} \cup f[par[q]] \subseteq Nodes BY <1>0, <2>3
    <3>2. \A k \in 0..q : k = q \/ k \in 0..m BY <2>2, <2>3
    <3> QED BY <3>1, <3>2
  <2> HIDE DEF g
  <2>7. Ok(g, q)
    <3>1. g[0] = {}
      <4>1. 0 \in 0..m BY <2>3
      <4> QED BY <2>1, <2>5, <4>1
    <3>2. ASSUME NEW n \in 1..q PROVE g[n] = {n} \cup g[par[n]]
      <4>1. CASE n = q BY <2>3, <2>5, <4>1
      <4>2. CASE n # q
        <5>1. n \in 1..m /\ n \in 0..m BY <2>2, <2>3, <4>2
        <5>2. par[n] \in 0..m
          <6>1. n \in 1..MaxNodes BY <1>0, <2>3, <5>1
          <6>2. par[n] \in Nat /\ par[n] < n BY <1>p, <6>1
          <6> QED BY <2>3, <5>1, <6>2
        <5> QED BY <2>1, <2>5, <5>1, <5>2
      <4> QED BY <4>1, <4>2
    <3> QED BY <3>1, <3>2
  <2> HIDE DEF Ok
  <2>8. q \in T BY <2>3, <2>6, <2>7
  <2> QED BY <2>2, <2>8
<1>3. MaxNodes \in T
  <2>1. \A m \in 0..MaxNodes : m < MaxNodes /\ m \in T => m + 1 \in T BY <1>2
  <2> HIDE DEF T
  <2>2. \A m \in 0..MaxNodes : m \in T BY <1>0, <1>1, <2>1, Induct
  <2> QED BY <1>0, <2>2
<1>4. PICK w \in [0..MaxNodes -> SUBSET Nodes] : Ok(w, MaxNodes) BY <1>3
<1>5. w = [n \in 0..MaxNodes |-> IF n = 0 THEN {} ELSE {n} \cup w[tree.parent[n]]]
  <2>1. \A n \in 0..MaxNodes :
          w[n] = IF n = 0 THEN {} ELSE {n} \cup w[tree.parent[n]]
    <3> TAKE n \in 0..MaxNodes
    <3>1. CASE n = 0 BY <1>4, <3>1
    <3>2. CASE n # 0
      <4>1. n \in 1..MaxNodes BY <1>0, <3>2
      <4> QED BY <1>4, <1>p, <3>2, <4>1
    <3> QED BY <3>1, <3>2
  <2> QED BY ONLY <1>4, <2>1
<1>6. Within = [n \in 0..MaxNodes |->
                  IF n = 0 THEN {} ELSE {n} \cup Within[tree.parent[n]]]
  BY <1>5 DEF Within
<1>7. Within[0] = {}
  <2>1. 0 \in 0..MaxNodes BY <1>0
  <2> QED BY <1>6, <2>1
<1>8. ASSUME NEW n \in Nodes PROVE Within[n] = {n} \cup Within[tree.parent[n]]
  <2>1. n \in 0..MaxNodes /\ n # 0 BY <1>0
  <2> QED BY <1>6, <2>1
<1> QED BY <1>7, <1>8

\* Induction over the values of a tree: from what a value is nested in to the value.
LEMMA TreeInduct ==
  ASSUME TreeOk, NEW T,
         \A n \in Nodes : (\A k \in Nodes : k < n => k \in T) => n \in T
  PROVE  Nodes \subseteq T
<1> DEFINE Bad == {n \in Nodes : n \notin T}
<1> SUFFICES ASSUME Bad # {} PROVE FALSE OBVIOUS
<1>1. Bad \in SUBSET Nat BY NodesAre
<1>2. PICK m \in Bad : \A k \in Bad : m <= k
  <2> HIDE DEF Bad
  <2> QED BY <1>1, Least
<1>3. \A k \in Nodes : k < m => k \in T
  <2> TAKE k \in Nodes
  <2>1. k \in Nat /\ m \in Nat BY <1>1, NodesAre
  <2> QED BY <1>2, <2>1
<1> QED BY <1>2, <1>3

\* The parent of a value, by which the value is reached.
LEMMA ParentIs ==
  ASSUME TreeOk, NEW n \in Nodes, n # 1
  PROVE  /\ tree.parent[n] \in Nodes /\ tree.parent[n] < n
         /\ Within[n] = {n} \cup Within[tree.parent[n]]
BY WithinIs DEF TreeOk

LEMMA RootIs == TreeOk /\ 1 \in Nodes => Within[1] = {1}
<1> SUFFICES ASSUME TreeOk, 1 \in Nodes PROVE Within[1] = {1} OBVIOUS
<1>1. tree.parent[1] = 0 BY DEF TreeOk
<1> QED BY <1>1, WithinIs

LEMMA Nesting ==
  ASSUME TreeOk
  PROVE  /\ \A n \in Nodes : n \in Within[n] /\ 1 \in Within[n]
         /\ \A n \in Nodes : Within[n] \subseteq Nodes /\ \A m \in Within[n] : m <= n
         /\ \A n \in Nodes : \A m \in Within[n] : Within[m] \subseteq Within[n]
         /\ \A n \in Nodes : \A m \in Within[n] :
              m # n => \E c \in Children(m) : c \in Within[n]
         /\ \A n \in Nodes : \A m, q \in Within[n] : m \in Within[q] \/ q \in Within[m]
<1> DEFINE T == {n \in Nodes :
      /\ n \in Within[n] /\ 1 \in Within[n]
      /\ Within[n] \subseteq Nodes /\ \A m \in Within[n] : m <= n
      /\ \A m \in Within[n] : Within[m] \subseteq Within[n]
      /\ \A m \in Within[n] : m # n => \E c \in Children(m) : c \in Within[n]
      /\ \A m, q \in Within[n] : m \in Within[q] \/ q \in Within[m]}
<1>0. \A n \in Nodes : n \in Nat BY NodesAre
<1>1. ASSUME NEW n \in Nodes, \A k \in Nodes : k < n => k \in T PROVE n \in T
  <2>1. CASE n = 1
    <3>1. Within[n] = {n} BY <2>1, RootIs
    <3> QED BY <1>0, <2>1, <3>1
  <2>2. CASE n # 1
    <3> DEFINE p == tree.parent[n]
    <3>1. p \in Nodes /\ p < n /\ Within[n] = {n} \cup Within[p] BY <2>2, ParentIs
    <3>2. p \in T BY <1>1, <3>1
    <3>3. n \in Children(p) BY DEF Children
    <3> HIDE DEF p
    <3>4. n \in Within[n] /\ 1 \in Within[n] /\ Within[n] \subseteq Nodes BY <3>1, <3>2
    <3>5. \A m \in Within[n] : m <= n
      <4> TAKE m \in Within[n]
      <4>1. m = n \/ m <= p BY <3>1, <3>2
      <4> QED BY <1>0, <3>1, <3>4, <4>1
    <3>6. \A m \in Within[n] : Within[m] \subseteq Within[n] BY <3>1, <3>2
    <3>7. \A m \in Within[n] : m # n => \E c \in Children(m) : c \in Within[n]
      <4> SUFFICES ASSUME NEW m \in Within[n], m # n
                   PROVE  \E c \in Children(m) : c \in Within[n]
        OBVIOUS
      <4>1. m \in Within[p] BY <3>1
      <4>2. CASE m = p BY <3>3, <3>4, <4>2
      <4>3. CASE m # p
        <5>1. \E c \in Children(m) : c \in Within[p] BY <3>2, <4>1, <4>3
        <5> QED BY <3>1, <5>1
      <4> QED BY <4>2, <4>3
    <3>8. \A m, q \in Within[n] : m \in Within[q] \/ q \in Within[m]
      <4> TAKE m, q \in Within[n]
      <4>1. CASE m = n \/ q = n BY <4>1
      <4>2. CASE m \in Within[p] /\ q \in Within[p] BY <3>2, <4>2
      <4> QED BY <3>1, <4>1, <4>2
    <3> QED BY <3>4, <3>5, <3>6, <3>7, <3>8
  <2> QED BY <2>1, <2>2
<1>2. Nodes \subseteq T
  <2>1. \A n \in Nodes : (\A k \in Nodes : k < n => k \in T) => n \in T BY <1>1
  <2> HIDE DEF T
  <2> QED BY <2>1, TreeInduct
<1> QED BY <1>2

Seen(n) == \A m \in Within[n] : ~Unseen(m)
Good(n) == tree.kind[n] = "str" /\ Seen(n)

\* What a value puts in the recursion's way: values of which none is in another,
\* among them one towards every string that is to be found below the value.
LEMMA LookedAre ==
  ASSUME TreeOk, NEW h \in Nodes, Seen(h)
  PROVE  /\ Looked(h) \subseteq Nodes
         /\ \A x \in Looked(h) : Seen(x) /\ Within[x] = {x} \cup Within[h]
         /\ \A x, y \in Looked(h) : x # y => x \notin Within[y]
         /\ \A n \in Nodes : Good(n) /\ h \in Within[n] /\ n # h =>
              \E x \in Looked(h) : x \in Within[n]
         /\ tree.kind[h] = "str" =>
              Looked(h) = {} /\ \A n \in Nodes : h \in Within[n] => n = h
<1>1. /\ Looked(h) \subseteq Children(h)
      /\ tree.kind[h] = "dict" => Looked(h) = Children(h)
      /\ tree.kind[h] = "list" => Looked(h) = Items(h)
      /\ tree.kind[h] \notin {"dict", "list"} => Looked(h) = {}
  BY DEF Looked, Items
<1>2. \A x \in Children(h) : x \in Nodes /\ tree.parent[x] = h BY DEF Children
<1>3. \A x \in Children(h) :
        /\ x # 1 /\ h < x /\ Within[x] = {x} \cup Within[h]
        /\ tree.kind[h] \in {"dict", "list"}
  <2> TAKE x \in Children(h)
  <2>1. x # 1
    <3>1. h # 0 BY NodesAre DEF Nodes
    <3> QED BY <1>2, <3>1 DEF TreeOk
  <2> QED BY <1>2, <2>1, ParentIs DEF TreeOk
<1>4. \A x, y \in Children(h) : x # y => x \notin Within[y]
  <2> SUFFICES ASSUME NEW x \in Children(h), NEW y \in Children(h), x # y, x \in Within[y]
               PROVE  FALSE
    OBVIOUS
  <2>1. x \in Within[h] BY <1>3
  <2>2. x <= h BY <2>1, Nesting
  <2>3. h < x /\ h \in Nat /\ x \in Nat BY <1>2, <1>3, NodesAre
  <2> QED BY <2>2, <2>3
<1>5. ASSUME NEW x \in Looked(h) PROVE Seen(x) /\ Within[x] = {x} \cup Within[h]
  <2>1. Within[x] = {x} \cup Within[h] BY <1>1, <1>3
  <2>2. ~Unseen(x)
    <3>1. CASE tree.kind[h] = "dict" BY <1>1, <1>2, <3>1 DEF Unseen
    <3>2. CASE tree.kind[h] = "list" BY <1>1, <3>2 DEF Unseen, Items
    <3> QED BY <1>1, <3>1, <3>2
  <2> QED BY <2>1, <2>2 DEF Seen
<1>6. ASSUME NEW n \in Nodes, Good(n), h \in Within[n], n # h
      PROVE  \E x \in Looked(h) : x \in Within[n]
  <2>1. PICK x \in Children(h) : x \in Within[n] BY <1>6, Nesting
  <2>2. CASE tree.kind[h] = "dict" BY <1>1, <2>1, <2>2
  <2>3. CASE tree.kind[h] = "list"
    <3>1. ~Unseen(x) BY <1>6, <2>1 DEF Good, Seen
    <3>2. tree.parent[x] = h /\ h # 0 BY <1>2, <2>1, NodesAre
    <3>3. tree.kind[x] # "list" BY <2>3, <3>1, <3>2 DEF Unseen
    <3>4. tree.kind[x] \in {"str", "dict"}
      <4>1. CASE x = n BY <1>6, <4>1 DEF Good
      <4>2. CASE x # n
        <5>1. x \in Nodes BY <1>2, <2>1
        <5>2. PICK y \in Children(x) : y \in Within[n] BY <2>1, <4>2, Nesting
        <5>3. y \in Nodes /\ tree.parent[y] = x BY <5>2 DEF Children
        <5>4. x # 0 BY <5>1, NodesAre
        <5>5. tree.kind[x] \in {"dict", "list"} BY <5>3, <5>4 DEF TreeOk
        <5> QED BY <3>3, <5>5
      <4> QED BY <4>1, <4>2
    <3> QED BY <1>1, <2>1, <2>3, <3>4 DEF Items
  <2> QED BY <1>3, <2>1, <2>2, <2>3
<1>7. ASSUME tree.kind[h] = "str", NEW n \in Nodes, h \in Within[n] PROVE n = h
  <2> SUFFICES ASSUME n # h PROVE FALSE OBVIOUS
  <2>1. PICK x \in Children(h) : x \in Within[n] BY <1>7, Nesting
  <2> QED BY <1>3, <1>7, <2>1
<1> QED BY <1>1, <1>2, <1>4, <1>5, <1>6, <1>7

\* SetToSeqs: each element of a finite set is in each of its sequences, once.
LEMMA Orders ==
  ASSUME NEW L \in SUBSET Nodes, NEW s \in SetToSeqs(L)
  PROVE  /\ s \in Seq(Nodes) /\ \A i \in 1..Len(s) : s[i] \in L
         /\ \A i, j \in 1..Len(s) : i # j => s[i] # s[j]
         /\ \A x \in L : \E i \in 1..Len(s) : s[i] = x
<1> DEFINE D == 1..Cardinality(L)
<1>1. IsFiniteSet(L) /\ Cardinality(L) \in Nat
  <2>1. IsFiniteSet(Nodes)
    <3>1. 1 \in Int /\ MaxNodes \in Int BY NodesAre
    <3> QED BY <3>1, FS_Interval DEF Nodes
  <2> QED BY <2>1, FS_Subset, FS_CardinalityType
<1>2. s \in [D -> L] /\ \A i, j \in D : i # j => s[i] # s[j] BY DEF SetToSeqs
<1>3. s \in Seq(Nodes) /\ Len(s) = Cardinality(L) /\ DOMAIN s = D BY <1>1, <1>2
<1>4. Cardinality(D) = Cardinality(L)
  <2>1. 1 \in Int /\ Cardinality(L) \in Int BY <1>1
  <2>2. Cardinality(D) = IF 1 > Cardinality(L) THEN 0 ELSE Cardinality(L) - 1 + 1
    BY <2>1, FS_Interval
  <2> QED BY <1>1, <2>2
<1>5. s \in Injection(D, L) BY <1>2, <1>3 DEF Injection, IsInjective
<1>6. s \in Surjection(D, L) BY <1>1, <1>4, <1>5, FS_Injection
<1>7. \A x \in L : \E i \in D : s[i] = x BY <1>6 DEF Surjection
<1> QED BY <1>2, <1>3, <1>7

\* While td is still to be looked at and hs was found: no value of td is in another,
\* no find is below one, and each string that counts was found or is below one.
Apart(td) ==
  /\ td \in Seq(Nodes) /\ Len(td) \in Nat /\ \A i \in 1..Len(td) : td[i] \in Nodes
  /\ \A i \in 1..Len(td) : Seen(td[i])
  /\ \A i, j \in 1..Len(td) : i # j => td[i] \notin Within[td[j]]

FoundOnce(td, hs) ==
  /\ hs \in Seq(Nodes) /\ Len(hs) \in Nat /\ \A i \in 1..Len(hs) : hs[i] \in Nodes
  /\ \A i, j \in 1..Len(hs) : hs[i] = hs[j] => i = j
  /\ \A i \in 1..Len(hs) : Good(hs[i]) /\ \A j \in 1..Len(td) : td[j] \notin Within[hs[i]]

NoneMissed(td, hs) ==
  \A n \in Nodes : Good(n) =>
    (\E i \in 1..Len(hs) : hs[i] = n) \/ (\E j \in 1..Len(td) : td[j] \in Within[n])

\* The first of td is replaced by what it holds, in an order s.
Opens(td, s, nt) == s \in SetToSeqs(Looked(Head(td))) /\ nt = s \o Tail(td)

\* All of it is to be looked at, and what else was.
Complete(td, nt) ==
  /\ \A x \in Looked(Head(td)) : \E i \in 1..Len(nt) : nt[i] = x
  /\ \A k \in 2..Len(td) : \E i \in 1..Len(nt) : nt[i] = td[k]

LEMMA Opened ==
  ASSUME TreeOk, NEW td, Apart(td), td # << >>, NEW s, NEW nt, Opens(td, s, nt)
  PROVE  /\ td[1] = Head(td) /\ Head(td) \in Nodes /\ Seen(Head(td)) /\ 1 \in 1..Len(td)
         /\ nt \in Seq(Nodes) /\ Len(nt) \in Nat
         /\ \A i \in 1..Len(nt) :
              \/ i \in 1..Len(s) /\ nt[i] = s[i] /\ nt[i] \in Looked(Head(td))
              \/ \E k \in 2..Len(td) : k = i - Len(s) + 1 /\ nt[i] = td[k]
         /\ Complete(td, nt)
<1> DEFINE h == Head(td)
           t == Tail(td)
<1>1. td \in Seq(Nodes) /\ Len(td) \in Nat /\ 1 \in 1..Len(td) BY DEF Apart
<1>2. h = td[1] /\ h \in Nodes /\ Seen(h) BY <1>1 DEF Apart
<1>3. t \in Seq(Nodes) /\ Len(t) = Len(td) - 1 /\ \A i \in 1..Len(t) : t[i] = td[i + 1]
  BY <1>1, HeadTailProperties
<1>4. Looked(h) \in SUBSET Nodes BY <1>2, LookedAre
<1>5. /\ s \in Seq(Nodes) /\ Len(s) \in Nat /\ \A i \in 1..Len(s) : s[i] \in Looked(h)
      /\ \A x \in Looked(h) : \E i \in 1..Len(s) : s[i] = x
  <2> HIDE DEF h
  <2>1. s \in SetToSeqs(Looked(h)) BY DEF h, Opens
  <2>2. /\ s \in Seq(Nodes) /\ \A i \in 1..Len(s) : s[i] \in Looked(h)
        /\ \A x \in Looked(h) : \E i \in 1..Len(s) : s[i] = x
    BY <1>4, <2>1, Orders
  <2> QED BY <2>2
<1> HIDE DEF h, t
<1>6. /\ nt \in Seq(Nodes) /\ Len(nt) = Len(s) + Len(t)
      /\ \A i \in 1..(Len(s) + Len(t)) : nt[i] = IF i <= Len(s) THEN s[i] ELSE t[i - Len(s)]
  <2>1. nt = s \o t BY DEF t, Opens
  <2>2. /\ s \o t \in Seq(Nodes) /\ Len(s \o t) = Len(s) + Len(t)
        /\ \A i \in 1..(Len(s) + Len(t)) :
             (s \o t)[i] = IF i <= Len(s) THEN s[i] ELSE t[i - Len(s)]
    BY ONLY <1>3, <1>5, ConcatProperties
  <2> QED BY ONLY <2>1, <2>2
<1>7. Len(t) \in Nat /\ Len(nt) \in Nat BY <1>1, <1>3, <1>5, <1>6
<1>8. ASSUME NEW i \in 1..Len(nt)
      PROVE  \/ i \in 1..Len(s) /\ nt[i] = s[i] /\ nt[i] \in Looked(h)
             \/ \E k \in 2..Len(td) : k = i - Len(s) + 1 /\ nt[i] = td[k]
  <2>1. CASE i <= Len(s)
    <3>1. i \in 1..Len(s) /\ i \in 1..(Len(s) + Len(t)) BY <1>5, <1>6, <1>7, <2>1
    <3> QED BY <1>5, <1>6, <2>1, <3>1
  <2>2. CASE ~(i <= Len(s))
    <3>1. PICK q \in 1..Len(t) : q = i - Len(s) BY <1>5, <1>6, <1>7, <2>2
    <3>2. PICK k \in 2..Len(td) : k = q + 1 BY <1>1, <1>3, <1>7
    <3>3. nt[i] = t[q]
      <4>1. i \in 1..(Len(s) + Len(t)) BY <1>6
      <4> QED BY ONLY <1>6, <2>2, <3>1, <4>1
    <3>4. nt[i] = td[k] BY <1>3, <3>2, <3>3
    <3>5. k = i - Len(s) + 1 BY <3>1, <3>2
    <3> QED BY <3>4, <3>5
  <2> QED BY <2>1, <2>2
<1>9. ASSUME NEW x \in Looked(h) PROVE \E i \in 1..Len(nt) : nt[i] = x
  <2>1. PICK i \in 1..Len(s) : s[i] = x BY <1>5
  <2>2. i \in 1..(Len(s) + Len(t)) /\ i <= Len(s) BY <1>5, <1>7
  <2> QED BY <1>6, <2>1, <2>2
<1>10. ASSUME NEW k \in 2..Len(td) PROVE \E i \in 1..Len(nt) : nt[i] = td[k]
  <2>1. PICK q \in 1..Len(t) : k = q + 1 BY <1>1, <1>3
  <2>2. PICK i \in 1..(Len(s) + Len(t)) : i = Len(s) + q BY <1>5, <1>7
  <2>3. ~(i <= Len(s)) /\ i - Len(s) = q BY <1>5, <2>2
  <2>4. nt[i] = t[q] BY ONLY <1>6, <2>3, i \in 1..(Len(s) + Len(t))
  <2>5. t[q] = td[k] BY <1>3, <2>1
  <2> QED BY <1>6, <2>4, <2>5
<1> QED BY <1>1, <1>2, <1>6, <1>7, <1>8, <1>9, <1>10 DEF h, Complete

LEMMA StillApart ==
  ASSUME TreeOk, NEW td, Apart(td), td # << >>, NEW s, NEW nt, Opens(td, s, nt)
  PROVE  Apart(nt)
<1> DEFINE h == Head(td)
<1>1. /\ td[1] = h /\ h \in Nodes /\ Seen(h) /\ 1 \in 1..Len(td)
      /\ nt \in Seq(Nodes) /\ Len(nt) \in Nat
      /\ \A i \in 1..Len(nt) :
           \/ i \in 1..Len(s) /\ nt[i] = s[i] /\ nt[i] \in Looked(h)
           \/ \E k \in 2..Len(td) : k = i - Len(s) + 1 /\ nt[i] = td[k]
  BY ONLY TreeOk, Apart(td), td # << >>, Opens(td, s, nt), Opened
<1>2. /\ Looked(h) \in SUBSET Nodes
      /\ \A x \in Looked(h) : Seen(x) /\ Within[x] = {x} \cup Within[h]
      /\ \A x, y \in Looked(h) : x # y => x \notin Within[y]
  BY <1>1, LookedAre
<1>3. \A i, j \in 1..Len(s) : i # j => s[i] # s[j]
  <2>1. s \in SetToSeqs(Looked(h)) BY DEF Opens
  <2> HIDE DEF h
  <2> QED BY ONLY <1>2, <2>1, Orders
<1>4. /\ Len(td) \in Nat /\ \A k \in 2..Len(td) : k \in 1..Len(td) /\ k # 1
      /\ \A k \in 1..Len(td) : td[k] \in Nodes /\ Seen(td[k])
      /\ \A i, j \in 1..Len(td) : i # j => td[i] \notin Within[td[j]]
  BY DEF Apart
<1> HIDE DEF h
<1>5. \A k \in 2..Len(td) : h \notin Within[td[k]] /\ td[k] \notin Within[h]
  BY ONLY <1>1, <1>4
<1>6. ASSUME NEW i \in 1..Len(nt) PROVE nt[i] \in Nodes /\ Seen(nt[i])
  BY ONLY <1>1, <1>2, <1>4, i \in 1..Len(nt)
<1>7. ASSUME NEW i \in 1..Len(nt), NEW j \in 1..Len(nt), i # j PROVE nt[i] \notin Within[nt[j]]
  <2>1. CASE nt[i] \in Looked(h) /\ nt[j] \in Looked(h)
             /\ i \in 1..Len(s) /\ nt[i] = s[i] /\ j \in 1..Len(s) /\ nt[j] = s[j]
    <3>1. nt[i] # nt[j] BY ONLY <1>3, <1>7, <2>1
    <3> QED BY ONLY <1>2, <2>1, <3>1
  <2>2. ASSUME nt[i] \in Looked(h), NEW k \in 2..Len(td), nt[j] = td[k]
        PROVE  nt[i] \notin Within[nt[j]]
    <3>1. h \in Within[nt[i]] BY <1>1, <1>2, <2>2, Nesting
    <3>2. nt[i] \in Within[nt[j]] => h \in Within[nt[j]]
      BY <1>4, <1>6, <2>2, <3>1, Nesting
    <3> QED BY <1>5, <2>2, <3>2
  <2>3. ASSUME nt[j] \in Looked(h), NEW k \in 2..Len(td), nt[i] = td[k]
        PROVE  nt[i] \notin Within[nt[j]]
    <3>1. Within[nt[j]] = {nt[j]} \cup Within[h] BY <1>2, <2>3
    <3>2. td[k] # nt[j]
      <4>1. h \in Within[h] BY <1>1, Nesting
      <4> QED BY <1>5, <3>1, <4>1
    <3> QED BY <1>5, <2>3, <3>1, <3>2
  <2>4. ASSUME NEW k \in 2..Len(td), k = i - Len(s) + 1, nt[i] = td[k],
               NEW q \in 2..Len(td), q = j - Len(s) + 1, nt[j] = td[q]
        PROVE  nt[i] \notin Within[nt[j]]
    <3>1. k # q
      <4>1. Len(s) \in Nat
        <5>1. s \in Seq(Nodes)
          <6>1. s \in SetToSeqs(Looked(h)) BY DEF h, Opens
          <6> QED BY ONLY <1>2, <6>1, Orders
        <5> QED BY <5>1
      <4>2. i \in Int /\ j \in Int BY <1>1
      <4> QED BY ONLY <1>7, <2>4, <4>1, <4>2
    <3> QED BY <1>4, <2>4, <3>1
  <2> QED BY <1>1, <2>1, <2>2, <2>3, <2>4
<1> QED BY ONLY <1>1, <1>6, <1>7 DEF Apart

LEMMA WalkTurn ==
  ASSUME TreeOk, NEW td, NEW hs, Apart(td), FoundOnce(td, hs), NoneMissed(td, hs),
         td # << >>, NEW s, NEW nt, Opens(td, s, nt), NEW nh,
         nh = IF tree.kind[Head(td)] = "str" THEN Append(hs, Head(td)) ELSE hs
  PROVE  Apart(nt) /\ FoundOnce(nt, nh) /\ NoneMissed(nt, nh)
<1> DEFINE h == Head(td)
<1>1. /\ td[1] = h /\ h \in Nodes /\ Seen(h) /\ 1 \in 1..Len(td)
      /\ nt \in Seq(Nodes) /\ Len(nt) \in Nat
      /\ \A i \in 1..Len(nt) :
           \/ nt[i] \in Looked(h)
           \/ \E k \in 2..Len(td) : nt[i] = td[k]
      /\ \A x \in Looked(h) : \E i \in 1..Len(nt) : nt[i] = x
      /\ \A k \in 2..Len(td) : \E i \in 1..Len(nt) : nt[i] = td[k]
  <2>1. /\ td[1] = h /\ h \in Nodes /\ Seen(h) /\ 1 \in 1..Len(td)
        /\ nt \in Seq(Nodes) /\ Len(nt) \in Nat
        /\ \A i \in 1..Len(nt) :
             \/ i \in 1..Len(s) /\ nt[i] = s[i] /\ nt[i] \in Looked(h)
             \/ \E k \in 2..Len(td) : k = i - Len(s) + 1 /\ nt[i] = td[k]
    BY ONLY TreeOk, Apart(td), td # << >>, Opens(td, s, nt), Opened
  <2>2. /\ \A x \in Looked(h) : \E i \in 1..Len(nt) : nt[i] = x
        /\ \A k \in 2..Len(td) : \E i \in 1..Len(nt) : nt[i] = td[k]
    <3>1. Complete(td, nt)
      BY ONLY TreeOk, Apart(td), td # << >>, Opens(td, s, nt), Opened
    <3> QED BY ONLY <3>1 DEF Complete
  <2> HIDE DEF h
  <2> QED BY ONLY <2>1, <2>2
<1>2. /\ Looked(h) \in SUBSET Nodes
      /\ \A x \in Looked(h) : Within[x] = {x} \cup Within[h]
      /\ \A n \in Nodes : Good(n) /\ h \in Within[n] /\ n # h =>
           \E x \in Looked(h) : x \in Within[n]
      /\ tree.kind[h] = "str" =>
           Looked(h) = {} /\ \A n \in Nodes : h \in Within[n] => n = h
  BY <1>1, LookedAre
<1>3. Apart(nt) BY StillApart
<1>4. /\ Len(td) \in Nat /\ \A k \in 2..Len(td) : k \in 1..Len(td) /\ k # 1
      /\ \A k \in 1..Len(td) : td[k] \in Nodes
      /\ \A i, j \in 1..Len(td) : i # j => td[i] \notin Within[td[j]]
  BY DEF Apart
<1>5. /\ hs \in Seq(Nodes) /\ Len(hs) \in Nat
      /\ \A i \in 1..Len(hs) : hs[i] \in Nodes /\ Good(hs[i])
      /\ \A i, j \in 1..Len(hs) : hs[i] = hs[j] => i = j
      /\ \A i \in 1..Len(hs) : \A j \in 1..Len(td) : td[j] \notin Within[hs[i]]
  BY DEF FoundOnce
<1>6. nh = IF tree.kind[h] = "str" THEN Append(hs, h) ELSE hs OBVIOUS
<1> HIDE DEF h
<1>7. \A i \in 1..Len(hs) : \A j \in 1..Len(nt) : nt[j] \notin Within[hs[i]]
  <2> TAKE i \in 1..Len(hs)
  <2> TAKE j \in 1..Len(nt)
  <2>1. CASE nt[j] \in Looked(h)
    <3>1. h \in Within[nt[j]] BY <1>1, <1>2, <2>1, Nesting
    <3>2. nt[j] \in Within[hs[i]] => h \in Within[hs[i]] BY <1>5, <3>1, Nesting
    <3> QED BY <1>1, <1>5, <3>2
  <2>2. CASE \E k \in 2..Len(td) : nt[j] = td[k] BY <1>4, <1>5, <2>2
  <2> QED BY <1>1, <2>1, <2>2
<1>8. CASE tree.kind[h] = "str"
  <2>1. /\ nh = Append(hs, h) /\ nh \in Seq(Nodes) /\ Len(nh) = Len(hs) + 1
        /\ Len(nh) \in Nat
        /\ \A i \in 1..Len(hs) : i \in 1..Len(nh) /\ nh[i] = hs[i]
        /\ nh[Len(hs) + 1] = h
        /\ \A i \in 1..Len(nh) : i \in 1..Len(hs) \/ i = Len(hs) + 1
    BY <1>1, <1>5, <1>6, <1>8
  <2>2. Good(h) BY <1>1, <1>8 DEF Good
  <2>3. \A i \in 1..Len(hs) : hs[i] # h
    <3> TAKE i \in 1..Len(hs)
    <3>1. h \notin Within[hs[i]] BY <1>1, <1>5
    <3> QED BY <1>1, <3>1, Nesting
  <2>4. \A i \in 1..Len(nh) : nh[i] \in Nodes /\ Good(nh[i])
    BY ONLY <1>1, <1>5, <2>1, <2>2
  <2>5. \A i, j \in 1..Len(nh) : nh[i] = nh[j] => i = j
    BY ONLY <1>5, <2>1, <2>3
  <2>6. \A j \in 1..Len(nt) : nt[j] \notin Within[h]
    <3> TAKE j \in 1..Len(nt)
    <3>1. PICK k \in 2..Len(td) : nt[j] = td[k] BY <1>1, <1>2, <1>8
    <3> QED BY <1>1, <1>4, <3>1
  <2>7. \A i \in 1..Len(nh) : \A j \in 1..Len(nt) : nt[j] \notin Within[nh[i]]
    BY ONLY <1>7, <2>1, <2>6
  <2>8. FoundOnce(nt, nh) BY ONLY <2>1, <2>4, <2>5, <2>7 DEF FoundOnce
  <2>9. ASSUME NEW n \in Nodes, Good(n)
        PROVE  (\E i \in 1..Len(nh) : nh[i] = n) \/ (\E j \in 1..Len(nt) : nt[j] \in Within[n])
    <3>1. CASE \E i \in 1..Len(hs) : hs[i] = n BY ONLY <2>1, <3>1
    <3>2. ASSUME NEW k \in 1..Len(td), td[k] \in Within[n]
          PROVE  (\E i \in 1..Len(nh) : nh[i] = n) \/ (\E j \in 1..Len(nt) : nt[j] \in Within[n])
      <4>1. CASE k = 1
        <5>1. n = h BY <1>1, <1>2, <1>8, <3>2, <4>1
        <5>2. Len(hs) + 1 \in 1..Len(nh) BY <1>5, <2>1
        <5> QED BY <2>1, <5>1, <5>2
      <4>2. CASE k # 1
        <5>1. k \in 2..Len(td) BY <1>4, <4>2
        <5> QED BY <1>1, <3>2, <5>1
      <4> QED BY <4>1, <4>2
    <3> QED BY <2>9, <3>1, <3>2 DEF NoneMissed
  <2> QED BY <1>3, <2>8, <2>9 DEF NoneMissed
<1>9. CASE tree.kind[h] # "str"
  <2>1. nh = hs BY <1>6, <1>9
  <2>2. FoundOnce(nt, nh) BY ONLY <1>5, <1>7, <2>1 DEF FoundOnce
  <2>3. ASSUME NEW n \in Nodes, Good(n)
        PROVE  (\E i \in 1..Len(nh) : nh[i] = n) \/ (\E j \in 1..Len(nt) : nt[j] \in Within[n])
    <3>1. CASE \E i \in 1..Len(hs) : hs[i] = n BY <2>1, <3>1
    <3>2. ASSUME NEW k \in 1..Len(td), td[k] \in Within[n]
          PROVE  \E j \in 1..Len(nt) : nt[j] \in Within[n]
      <4>1. CASE k = 1
        <5>1. n # h BY <1>9, <2>3 DEF Good
        <5>2. PICK x \in Looked(h) : x \in Within[n] BY <1>1, <1>2, <2>3, <3>2, <4>1, <5>1
        <5> QED BY <1>1, <5>2
      <4>2. CASE k # 1
        <5>1. k \in 2..Len(td) BY <1>4, <4>2
        <5> QED BY <1>1, <3>2, <5>1
      <4> QED BY <4>1, <4>2
    <3> QED BY <2>3, <3>1, <3>2 DEF NoneMissed
  <2> QED BY <1>3, <2>2, <2>3 DEF NoneMissed
<1> QED BY <1>8, <1>9

WalkInv ==
  stage = "args" =>
    TreeOk /\ Apart(todo) /\ FoundOnce(todo, hits) /\ NoneMissed(todo, hits)

LEMMA WalkStarts == Init => WalkInv
<1> SUFFICES ASSUME Init, stage = "args" PROVE WalkInv BY DEF WalkInv
<1>1. TreeOk BY TreesAreOk
<1>2. todo = <<1>> /\ hits = << >> BY DEF Init
<1>3. 1 \in Nodes /\ 1 \in Nat BY ScannersAssumption DEF Nodes
<1>4. Len(todo) = 1 /\ todo[1] = 1 /\ todo \in Seq(Nodes) /\ \A i \in 1..Len(todo) : i = 1
  BY <1>2, <1>3
<1>5. Seen(1)
  <2>1. Within[1] = {1} BY <1>1, <1>3, RootIs
  <2>2. ~Unseen(1) BY <1>1, <1>3 DEF TreeOk, Unseen
  <2> QED BY <2>1, <2>2 DEF Seen
<1>6. Apart(todo) BY <1>3, <1>4, <1>5 DEF Apart
<1>7. FoundOnce(todo, hits)
  <2>1. hits \in Seq(Nodes) /\ Len(hits) = 0 /\ 1..0 = {} BY <1>2
  <2> QED BY <2>1 DEF FoundOnce
<1>8. NoneMissed(todo, hits)
  <2>1. 1 \in 1..Len(todo) BY <1>4
  <2>2. \A n \in Nodes : todo[1] \in Within[n] BY <1>1, <1>4, Nesting
  <2> QED BY <2>1, <2>2 DEF NoneMissed
<1> QED BY <1>1, <1>6, <1>7, <1>8 DEF WalkInv

\* However deep the arguments are nested, and in whatever order a dict or a list
\* yields what it holds: the strings that are scanned, and that none is twice.
THEOREM WhatIsScanned == Spec => []ScannedAre
<1>1. WalkInv /\ [Next]_vars => WalkInv'
  <2> SUFFICES ASSUME WalkInv, [Next]_vars, stage' = "args" PROVE WalkInv'
    BY DEF WalkInv
  <2>0. stage = "args" /\ tree' = tree
    BY DEF Next, vars, Visit, ScanReply, Dedup, StartSanitize, Redact, Sanitized, Mistype
  <2>1. TreeOk /\ Apart(todo) /\ FoundOnce(todo, hits) /\ NoneMissed(todo, hits)
    BY <2>0 DEF WalkInv
  <2>2. Apart(todo') /\ FoundOnce(todo', hits') /\ NoneMissed(todo', hits')
    <3>1. CASE Visit
      <4>1. todo # << >> BY <3>1 DEF Visit
      <4>2. PICK s \in SetToSeqs(Looked(Head(todo))) : todo' = s \o Tail(todo)
        BY <3>1 DEF Visit
      <4>3. hits' = IF tree.kind[Head(todo)] = "str" THEN Append(hits, Head(todo)) ELSE hits
        BY <3>1 DEF Visit
      <4>4. PICK nt : nt = todo' OBVIOUS
      <4>5. PICK nh : nh = hits' OBVIOUS
      <4>6. Opens(todo, s, nt) BY <4>2, <4>4 DEF Opens
      <4>7. nh = IF tree.kind[Head(todo)] = "str" THEN Append(hits, Head(todo)) ELSE hits
        BY <4>3, <4>5
      <4>8. Apart(nt) /\ FoundOnce(nt, nh) /\ NoneMissed(nt, nh)
        BY ONLY <2>1, <4>1, <4>6, <4>7, WalkTurn
      <4> QED BY ONLY <4>4, <4>5, <4>8
    <3>2. CASE todo' = todo /\ hits' = hits BY <2>1, <3>2
    <3>3. Visit \/ (todo' = todo /\ hits' = hits)
      BY DEF Next, vars, ScanReply, Dedup, StartSanitize, Redact, Sanitized, Mistype
    <3> QED BY <3>1, <3>2, <3>3
  <2>3. Within' = Within BY <2>0 DEF Within
  <2>4. TreeOk' BY <2>0, <2>1 DEF TreeOk
  <2>5. \A n : (Unseen(n))' = Unseen(n) BY <2>0 DEF Unseen
  <2>6. (Apart(todo))' BY <2>0, <2>2, <2>3 DEF Apart, Seen, Unseen
  <2>7. (FoundOnce(todo, hits))' BY <2>0, <2>2, <2>3 DEF FoundOnce, Good, Seen, Unseen
  <2>8. (NoneMissed(todo, hits))' BY <2>0, <2>2, <2>3 DEF NoneMissed, Good, Seen, Unseen
  <2> QED BY <2>4, <2>6, <2>7, <2>8 DEF WalkInv
<1>2. WalkInv => ScannedAre
  <2> SUFFICES ASSUME WalkInv, stage = "args", todo = << >>
               PROVE  /\ IsInjective(hits)
                      /\ ToSet(hits) = {n \in Nodes : Good(n)}
    BY DEF ScannedAre, Good, Seen
  <2>1. FoundOnce(todo, hits) /\ NoneMissed(todo, hits) BY DEF WalkInv
  <2>2. hits \in Seq(Nodes) /\ DOMAIN hits = 1..Len(hits) BY <2>1 DEF FoundOnce
  <2>3. IsInjective(hits) BY <2>1, <2>2 DEF FoundOnce, IsInjective
  <2>4. 1..Len(todo) = {}
    <3>1. Len(todo) = 0 OBVIOUS
    <3> QED BY <3>1
  <2>5. \A n \in Nodes : Good(n) => \E i \in 1..Len(hits) : hits[i] = n
    BY <2>1, <2>4 DEF NoneMissed
  <2>6. \A i \in 1..Len(hits) : hits[i] \in Nodes /\ Good(hits[i]) BY <2>1 DEF FoundOnce
  <2>7. ToSet(hits) = {hits[i] : i \in 1..Len(hits)} BY <2>2 DEF ToSet
  <2> QED BY <2>3, <2>5, <2>6, <2>7
<1> QED BY <1>1, <1>2, WalkStarts, PTL DEF Spec
=============================================================================
