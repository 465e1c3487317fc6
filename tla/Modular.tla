------------------------------- MODULE Modular -------------------------------
(***************************************************************************)
(* Division with remainder, for the rings of this project: positions are   *)
(* taken modulo the size of a ring, counters modulo the machine word.      *)
(***************************************************************************)
EXTENDS Integers, TLAPS, WellFoundedInduction

LEMMA DivMod ==
    ASSUME NEW N \in Nat, N > 0, NEW a \in Int
    PROVE  /\ a = N * (a \div N) + (a % N)
           /\ a % N \in 0 .. N - 1 /\ a \div N \in Int
<1>1. (a \div N) * N + (a % N) = a /\ a \div N \in Int
  BY SMTT(30)
<1>2. a % N \in 0 .. N - 1
  OBVIOUS
<1> QED
  BY <1>1, <1>2

(* A multiple of N that is not 0 is at least N away from it.               *)
LEMMA MultiplesApart ==
    ASSUME NEW N \in Nat, N > 0, NEW k \in Int, N * k < N, N * k > -N
    PROVE  k = 0
<1>1. k >= 1 => N * k >= N
  OBVIOUS
<1>2. k <= -1 => N * k <= -N
  OBVIOUS
<1> QED
  BY <1>1, <1>2

(* Quotient and remainder are the only ones.                               *)
LEMMA ModUnique ==
    ASSUME NEW N \in Nat, N > 0, NEW a \in Int, NEW k \in Int, NEW r \in 0 .. N - 1,
           a = N * k + r
    PROVE  a % N = r /\ a \div N = k
<1> DEFINE m == a \div N
           s == a % N
<1>1. m \in Int /\ s \in 0 .. N - 1 /\ N * k + r = N * m + s
  BY DivMod
<1> HIDE DEF m, s
<1>2. N * (k - m) = s - r
  BY <1>1
<1>3. k - m = 0
  BY <1>1, <1>2, MultiplesApart
<1>4. k = m /\ r = s
  BY <1>1, <1>2, <1>3
<1> QED
  BY <1>4 DEF m, s

(* Whole laps do not change the remainder.                                 *)
LEMMA ModShift ==
    ASSUME NEW N \in Nat, N > 0, NEW a \in Int, NEW k \in Int
    PROVE  (a + N * k) % N = a % N
<1> DEFINE r == a % N
           m == a \div N
<1>1. a = N * m + r /\ r \in 0 .. N - 1 /\ m \in Int
  BY DivMod
<1> HIDE DEF r, m
<1>2. a + N * k = N * (m + k) + r /\ m + k \in Int
  BY <1>1
<1>3. (a + N * k) % N = r
  BY <1>1, <1>2, ModUnique
<1> QED
  BY <1>3 DEF r

(* Numbers with the same remainder that are less than N apart are equal.   *)
LEMMA SameInWindow ==
    ASSUME NEW N \in Nat, N > 0, NEW a \in Int, NEW b \in Int,
           a % N = b % N, a - b < N, b - a < N
    PROVE  a = b
<1> DEFINE k == a \div N
           m == b \div N
           r == a % N
<1>1. k \in Int /\ m \in Int /\ r \in Int /\ a = N * k + r /\ b = N * m + r
  BY DivMod
<1> HIDE DEF k, m, r
<1>2. a - b = N * (k - m)
  BY <1>1
<1>3. k - m = 0
  BY <1>1, <1>2, MultiplesApart
<1> QED
  BY <1>1, <1>3

(* Taking the remainder first changes nothing.                             *)
LEMMA ModPlus ==
    ASSUME NEW N \in Nat, N > 0, NEW a \in Int, NEW b \in Int
    PROVE  ((a % N) + b) % N = (a + b) % N
<1> DEFINE r == a % N
           m == a \div N
<1>1. a = N * m + r /\ r \in 0 .. N - 1 /\ m \in Int
  BY DivMod
<1> HIDE DEF r, m
<1>2. a + b = (r + b) + N * m
  BY <1>1
<1> DEFINE c == r + b
<1>0. c \in Int
  BY <1>1
<1> HIDE DEF c
<1>3. (c + N * m) % N = c % N
  BY <1>0, <1>1, ModShift
<1>4. (a + b) % N = (r + b) % N
  BY <1>2, <1>3 DEF c
<1> QED
  BY <1>4 DEF r

LEMMA ModSmall ==
    ASSUME NEW N \in Nat, N > 0, NEW a \in 0 .. N - 1
    PROVE  a % N = a
  OBVIOUS

(* The remainder of a difference of remainders, with the lap that keeps it *)
(* positive.                                                               *)
LEMMA ModDiff ==
    ASSUME NEW N \in Nat, N > 0, NEW a \in Int, NEW b \in Int
    PROVE  ((a % N) - (b % N) + N) % N = (a - b) % N
<1> DEFINE r == a % N
           m == a \div N
           s == b % N
           n == b \div N
<1>1. /\ r = a % N /\ s = b % N
      /\ a = N * m + r /\ r \in 0 .. N - 1 /\ m \in Int
      /\ b = N * n + s /\ s \in 0 .. N - 1 /\ n \in Int
  BY DivMod
<1> HIDE DEF r, m, s, n
<1>2. r - s + N = (a - b) + N * (n - m + 1)
  BY <1>1
<1>3. a - b \in Int /\ n - m + 1 \in Int
  BY <1>1
<1>4. ((a - b) + N * (n - m + 1)) % N = (a - b) % N
  BY <1>3, ModShift
<1>5. (r - s + N) % N = (a - b) % N
  BY <1>2, <1>4
<1> QED
  BY <1>1, <1>5

(* A set of natural numbers has a least one.                               *)
LEMMA Least ==
    ASSUME NEW P \in SUBSET Nat, P # {}
    PROVE  \E p \in P : \A r \in P : p <= r
<1> DEFINE R == OpToRel(<, Nat)
<1>1. IsWellFoundedOn(R, Nat)
  BY NatLessThanWellFounded
<1>2. \A a, b \in Nat : a < b <=> <<a, b>> \in R
  BY DEF OpToRel
<1> HIDE DEF R
<1>3. PICK p \in P : \A y \in P : ~(<<y, p>> \in R)
  BY <1>1, WFMin
<1>4. \A y \in P : y \in Nat /\ ~(y < p)
  BY <1>2, <1>3
<1> QED
  BY <1>4
=============================================================================
