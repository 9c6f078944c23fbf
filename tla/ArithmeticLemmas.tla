-------------------------- MODULE ArithmeticLemmas --------------------------
(***************************************************************************)
(* Natural numbers and remainders. Induction is stated with sets, which    *)
(* the provers can instantiate where they cannot instantiate a predicate;  *)
(* the lemmas about % are what unsigned arithmetic that wraps needs.       *)
(***************************************************************************)
EXTENDS Integers, WellFoundedInduction, TLAPS

(* A set of natural numbers that is not empty has a least element.         *)
LEMMA LeastNat ==
  ASSUME NEW T, T \subseteq Nat, T # {}
  PROVE  \E x \in T : \A y \in T : x =< y
<1> DEFINE R == OpToRel(<, Nat)
<1>1. IsWellFoundedOn(R, Nat)
  BY NatLessThanWellFounded
<1>2. \A x, y \in T : y < x => <<y, x>> \in R
  BY DEF OpToRel
<1> HIDE DEF R
<1>3. PICK x \in T : \A y \in T : ~ (<<y, x>> \in R)
  BY <1>1, WFMin
<1>4. \A y \in T : ~(y < x)
  BY <1>2, <1>3
<1> QED
  BY <1>4

(* A set with 0, and with n + 1 if it has n, holds every natural number.   *)
LEMMA SetInduction ==
  ASSUME NEW T, 0 \in T, \A n \in Nat : n \in T => n + 1 \in T
  PROVE  Nat \subseteq T
<1> SUFFICES ASSUME Nat \ T # {} PROVE FALSE
  OBVIOUS
<1>1. PICK x \in Nat \ T : \A y \in Nat \ T : x =< y
  BY LeastNat
<1>2. x - 1 \in Nat /\ x - 1 \in T
  BY <1>1
<1> QED
  BY <1>1, <1>2

-----------------------------------------------------------------------------
(* Unsigned arithmetic.                                                    *)

(* The remainder is the one number below M that differs by a multiple.     *)
LEMMA Remainder ==
  ASSUME NEW M \in Nat \ {0}, NEW a \in Int
  PROVE  /\ a % M \in 0..(M - 1)
         /\ \E q \in Int : a = q * M + (a % M)
<1>1. a % M \in 0..(M - 1)
  OBVIOUS
<1>2. a = (a \div M) * M + (a % M) /\ a \div M \in Int
  OBVIOUS
<1> QED
  BY <1>1, <1>2

(* A number below M is its own remainder, whatever multiple is added.      *)
LEMMA RemainderUnique ==
  ASSUME NEW M \in Nat \ {0}, NEW q \in Int, NEW r \in 0..(M - 1)
  PROVE  (q * M + r) % M = r
OBVIOUS

(* Adding a multiple of M does not change the remainder.                   *)
LEMMA RemainderOfShift ==
  ASSUME NEW M \in Nat \ {0}, NEW q \in Int, NEW a \in Int
  PROVE  (q * M + a) % M = a % M
<1>1. PICK p \in Int : a = p * M + (a % M)
  BY Remainder
<1>2. a % M \in 0..(M - 1)
  BY Remainder
<1>3. q * M + a = (q + p) * M + (a % M)
  BY <1>1
<1>4. q + p \in Int
  OBVIOUS
<1>5. ((q + p) * M + (a % M)) % M = a % M
  BY <1>2, <1>4, RemainderUnique
<1> QED
  BY <1>3, <1>5

(* Sums and differences may be reduced at any time.                        *)
LEMMA RemainderOfSum ==
  ASSUME NEW M \in Nat \ {0}, NEW a \in Int, NEW b \in Int
  PROVE  ((a % M) + b) % M = (a + b) % M
<1>1. PICK p \in Int : a = p * M + (a % M)
  BY Remainder
<1>2. (a % M) + b \in Int
  BY Remainder
<1>3. a + b = p * M + ((a % M) + b)
  BY <1>1, <1>2
<1>4. (p * M + ((a % M) + b)) % M = ((a % M) + b) % M
  BY <1>2, RemainderOfShift, Zenon
<1> QED
  BY <1>3, <1>4, Zenon

(* Nor does taking remainders before subtracting.                          *)
LEMMA RemainderOfDifference ==
  ASSUME NEW M \in Nat \ {0}, NEW a \in Int, NEW b \in Int
  PROVE  ((a % M) - (b % M)) % M = (a - b) % M
<1>1. PICK p \in Int : a = p * M + (a % M)
  BY Remainder
<1>2. PICK q \in Int : b = q * M + (b % M)
  BY Remainder
<1>3. (a % M) - (b % M) \in Int /\ p - q \in Int
  BY Remainder
<1>4. a - b = (p - q) * M + ((a % M) - (b % M))
  BY <1>1, <1>2, <1>3
<1> DEFINE r == (a % M) - (b % M)
           k == p - q
<1>5. r \in Int /\ k \in Int /\ a - b = k * M + r
  BY <1>3, <1>4
<1> HIDE DEF r, k
<1>6. (k * M + r) % M = r % M
  BY <1>5, RemainderOfShift, Zenon
<1> QED
  BY <1>5, <1>6, Zenon DEF r

(* A number read as a signed one of the same width.                        *)
LEMMA RemainderSigned ==
  ASSUME NEW M \in Nat \ {0}, NEW d \in Int
  PROVE  /\ d \in 0..(M - 1) => d % M = d
         /\ d \in (-M)..(-1) => d % M = d + M
<1>1. ASSUME d \in 0..(M - 1) PROVE d % M = d
  <2>1. d = 0 * M + d
    OBVIOUS
  <2> QED
    BY <1>1, <2>1, RemainderUnique
<1>2. ASSUME d \in (-M)..(-1) PROVE d % M = d + M
  <2>1. d = (-1) * M + (d + M) /\ d + M \in 0..(M - 1)
    BY <1>2
  <2> QED
    BY <2>1, RemainderUnique
<1> QED
  BY <1>1, <1>2

(* Numbers closer than the modulus have different remainders.              *)
LEMMA RemainderInjective ==
  ASSUME NEW M \in Nat \ {0}, NEW a \in Int, NEW b \in Int, a % M = b % M, a - b < M, b - a < M
  PROVE  a = b
<1>1. (a - b) % M = 0
  <2>1. (a % M) - (b % M) = 0
    BY Remainder
  <2>2. ((a % M) - (b % M)) % M = (a - b) % M
    BY RemainderOfDifference
  <2>3. 0 % M = 0
    BY RemainderSigned
  <2> QED
    BY <2>1, <2>2, <2>3
<1>2. CASE a - b >= 0
  <2>1. a - b \in 0..(M - 1)
    BY <1>2
  <2>2. (a - b) % M = a - b
    BY <2>1, RemainderSigned
  <2> QED
    BY <1>1, <2>2
<1>3. CASE a - b < 0
  <2>1. a - b \in (-M)..(-1)
    BY <1>3
  <2>2. (a - b) % M = (a - b) + M
    BY <2>1, RemainderSigned
  <2> QED
    BY <1>1, <2>2
<1> QED
  BY <1>2, <1>3

(* The difference of two remainders, taken as a signed number, is the true *)
(* difference if that is less than half the range.                         *)
LEMMA SignedDifference ==
  ASSUME NEW M \in Nat \ {0}, NEW a \in Int, NEW b \in Int,
         -M =< 2 * (a - b), 2 * (a - b) < M
  PROVE  LET d == ((a % M) - (b % M)) % M
         IN (IF 2 * d < M THEN d ELSE d - M) = a - b
<1> DEFINE d == ((a % M) - (b % M)) % M
<1>1. d = (a - b) % M
  BY RemainderOfDifference
<1> HIDE DEF d
<1>2. CASE a - b >= 0
  <2>1. a - b \in 0..(M - 1)
    BY <1>2
  <2>2. d = a - b
    BY <1>1, <2>1, RemainderSigned
  <2> QED
    BY <2>2 DEF d
<1>3. CASE a - b < 0
  <2>1. a - b \in (-M)..(-1)
    BY <1>3
  <2>2. d = (a - b) + M
    BY <1>1, <2>1, RemainderSigned
  <2>3. ~(2 * d < M) /\ d - M = a - b
    BY <2>2
  <2> QED
    BY <2>3 DEF d
<1> QED
  BY <1>2, <1>3

(* Integer division, as far as the provers need it.                        *)
LEMMA Quotient ==
  ASSUME NEW a \in Nat, NEW b \in Nat \ {0}
  PROVE  a \div b \in Nat /\ (a \div b) * b =< a
OBVIOUS

(* Products of natural numbers are monotonic and distribute.               *)
LEMMA Products ==
  ASSUME NEW m \in Nat, NEW a \in Nat, NEW b \in Nat
  PROVE  /\ a * m \in Nat
         /\ a =< b => a * m =< b * m
         /\ (a + 1) * m = a * m + m
         /\ (a + 2) * m = a * m + 2 * m
         /\ (a + 3) * m = a * m + 3 * m
OBVIOUS

(* One step of congestion avoidance from i bytes adds at most              *)
(* mss + mss / 16, half of mss from two segments on, and never passes      *)
(* three segments from below two.                                          *)
LEMMA RaisedBounds ==
  ASSUME NEW m \in Nat, m >= 1, NEW i \in Nat, i >= m
  PROVE  LET r == i + (m * m) \div i + m \div 16
         IN /\ r \in Nat /\ r >= i
            /\ r < i + 2 * m
            /\ i >= 2 * m => r < i + m
            /\ i < 2 * m => r < 3 * m
<1> DEFINE q == (m * m) \div i
           s == m \div 16
<1>1. m * m \in Nat /\ i \in Nat \ {0}
  OBVIOUS
<1>2. q \in Nat /\ q * i =< m * m
  BY <1>1, Quotient
<1>3. s \in Nat /\ 16 * s =< m
  OBVIOUS
<1> HIDE DEF q, s
<1>4. q =< m
  <2> SUFFICES ASSUME q >= m + 1 PROVE FALSE
    BY <1>2
  <2>1. q * i >= (m + 1) * m
    BY <1>2
  <2> QED
    BY <1>2, <2>1
<1>5. ASSUME i >= 2 * m PROVE 2 * q =< m
  <2> SUFFICES ASSUME 2 * q >= m + 1 PROVE FALSE
    BY <1>2
  <2>1. (2 * q) * i >= (m + 1) * (2 * m)
    BY <1>2, <1>5
  <2> QED
    BY <1>2, <2>1
<1>6. ASSUME i < 2 * m PROVE 2 * q + i =< 3 * m
  <2>1. (i - m) * (2 * m - i) >= 0
    BY <1>6
  <2>2. 2 * (m * m) =< (3 * m - i) * i
    BY <2>1
  <2>3. (2 * q) * i =< (3 * m - i) * i
    BY <1>2, <2>2
  <2> SUFFICES ASSUME 2 * q >= (3 * m - i) + 1 PROVE FALSE
    BY <1>2
  <2>4. (2 * q) * i >= ((3 * m - i) + 1) * i
    BY <1>2
  <2>5. ((3 * m - i) + 1) * i = (3 * m - i) * i + i
    OBVIOUS
  <2>6. (3 * m - i) * i \in Int /\ (2 * q) * i \in Int
    BY <1>2
  <2> QED
    BY <1>1, <2>3, <2>4, <2>5, <2>6
<1>7. i + q + s \in Nat /\ i + q + s >= i
  BY <1>2, <1>3
<1>8. i + q + s < i + 2 * m
  BY <1>2, <1>3, <1>4
<1>9. i >= 2 * m => i + q + s < i + m
  BY <1>2, <1>3, <1>5
<1>10. i < 2 * m => i + q + s < 3 * m
  BY <1>2, <1>3, <1>6
<1> QED
  BY <1>7, <1>8, <1>9, <1>10 DEF q, s

=============================================================================
