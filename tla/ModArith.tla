------------------------------- MODULE ModArith -------------------------------
(***************************************************************************)
(* Facts about division and remainder of natural numbers, for counters     *)
(* that the program keeps modulo a power of two.                           *)
(***************************************************************************)
EXTENDS Integers, TLAPS

\* The two results of a division, and their ranges.
LEMMA DivMod ==
  ASSUME NEW x \in Nat, NEW b \in Nat \ {0}
  PROVE  /\ x = b * (x \div b) + (x % b)
         /\ x \div b \in Nat
         /\ x % b \in 0 .. b - 1
  BY Z3

\* Multiples of b lie at least b apart.
LEMMA MultiplesApart ==
  ASSUME NEW b \in Nat \ {0}, NEW q \in Int, NEW p \in Int, q < p
  PROVE  b * q + b <= b * p
  BY Z3

\* Quotient and remainder are determined by the dividend.
LEMMA DivModUnique ==
  ASSUME NEW b \in Nat \ {0}, NEW q \in Int, NEW p \in Int,
         NEW r \in 0 .. b - 1, NEW s \in 0 .. b - 1,
         b * q + r = b * p + s
  PROVE  q = p /\ r = s
<1>1. ~ (q < p) BY MultiplesApart
<1>2. ~ (p < q) BY MultiplesApart
<1>3. QED BY <1>1, <1>2

\* A number written as quotient and remainder divides as written.
LEMMA DivModOf ==
  ASSUME NEW b \in Nat \ {0}, NEW q \in Nat, NEW r \in 0 .. b - 1,
         NEW x \in Nat, x = b * q + r
  PROVE  x \div b = q /\ x % b = r
<1>1. PICK p \in Nat : p = x \div b BY DivMod
<1>2. PICK s \in 0 .. b - 1 : s = x % b BY DivMod
<1>3. x = b * p + s BY <1>1, <1>2, DivMod
<1>4. b * p + s = b * q + r BY <1>3
<1>5. p = q /\ s = r
  <2>1. p \in Int /\ q \in Int OBVIOUS
  <2>2. QED BY <1>4, <2>1, DivModUnique
<1>6. QED BY <1>1, <1>2, <1>5

\* Two numbers less than b apart that agree modulo b are equal.
LEMMA NearModEqual ==
  ASSUME NEW b \in Nat \ {0}, NEW x \in Nat, NEW y \in Nat,
         x % b = y % b, x < y + b, y < x + b
  PROVE  x = y
<1>1. x = b * (x \div b) + (x % b) /\ x \div b \in Nat BY DivMod
<1>2. y = b * (y \div b) + (y % b) /\ y \div b \in Nat BY DivMod
<1>3. ~ (x \div b < y \div b) BY <1>1, <1>2, MultiplesApart
<1>4. ~ (y \div b < x \div b) BY <1>1, <1>2, MultiplesApart
<1>5. QED BY <1>1, <1>2, <1>3, <1>4

\* Counting one up modulo b.
LEMMA ModSuccessor ==
  ASSUME NEW b \in Nat \ {0}, NEW x \in Nat
  PROVE  (x + 1) % b = IF (x % b) + 1 = b THEN 0 ELSE (x % b) + 1
<1>1. PICK q \in Nat, r \in 0 .. b - 1 : q = x \div b /\ r = x % b /\ x = b * q + r
  BY DivMod
<1>2. CASE r + 1 = b
  <2> DEFINE y == x + 1
             p == q + 1
  <2>1. y \in Nat /\ p \in Nat /\ y = b * p + 0 /\ 0 \in 0 .. b - 1
    <3>1. b * (q + 1) = b * q + b BY Z3
    <3>2. QED BY <1>1, <1>2, <3>1
  <2> HIDE DEF y, p
  <2>2. y % b = 0 BY <2>1, DivModOf
  <2>3. QED BY <1>1, <1>2, <2>2 DEF y
<1>3. CASE r + 1 # b
  <2> DEFINE y == x + 1
             j == r + 1
  <2>1. y \in Nat /\ j \in 0 .. b - 1 /\ y = b * q + j BY <1>1, <1>3
  <2> HIDE DEF y, j
  <2>2. y % b = j BY <2>1, DivModOf
  <2>3. QED BY <1>1, <1>3, <2>2 DEF y, j
<1>4. QED BY <1>2, <1>3

(***************************************************************************)
(* A ticket taken modulo b * k and then split by b: the remainder is that  *)
(* of the ticket, the quotient is that of the ticket modulo k.             *)
(***************************************************************************)
LEMMA ModThenDiv ==
  ASSUME NEW b \in Nat \ {0}, NEW k \in Nat \ {0}, NEW n \in Nat, b * k \in Nat \ {0}
  PROVE  /\ (n % (b * k)) % b = n % b
         /\ (n % (b * k)) \div b = (n \div b) % k
<1>1. PICK q \in Nat, r \in 0 .. b - 1 : q = n \div b /\ r = n % b /\ n = b * q + r
  BY DivMod
<1>2. PICK p \in Nat, j \in 0 .. k - 1 : p = q \div k /\ j = q % k /\ q = k * p + j
  BY DivMod
<1>3. b * j + r \in 0 .. b * k - 1
  <2>1. b * j + b <= b * k BY <1>2, MultiplesApart
  <2>2. b * j \in Nat BY Z3
  <2>3. QED BY <2>1, <2>2
<1>4. n = (b * k) * p + (b * j + r)
  <2>1. b * (k * p + j) = (b * k) * p + b * j BY Z3
  <2>2. b * q = (b * k) * p + b * j BY <1>2, <2>1
  <2>3. n = b * q + r BY <1>1
  <2>4. (b * k) * p \in Int /\ b * j \in Int BY Z3
  <2>5. QED BY <2>2, <2>3, <2>4
<1>5. n % (b * k) = b * j + r
  <2> DEFINE c == b * k
             r2 == b * j + r
  <2>1. c \in Nat \ {0} /\ r2 \in 0 .. c - 1 /\ n = c * p + r2 BY <1>3, <1>4
  <2> HIDE DEF c, r2
  <2>2. n % c = r2 BY <2>1, DivModOf
  <2>3. QED BY <2>2 DEF c, r2
<1>6. b * j + r \in Nat BY <1>3
<1>7. (b * j + r) \div b = j /\ (b * j + r) % b = r BY <1>6, DivModOf
<1>8. QED BY <1>1, <1>2, <1>5, <1>7

\* Doubling commutes with the remainder; the odd successor wraps at the same place.
LEMMA DoubleMod ==
  ASSUME NEW k \in Nat \ {0}, NEW q \in Nat
  PROVE  /\ (2 * q) % (2 * k) = 2 * (q % k)
         /\ (2 * q + 1) % (2 * k) = 2 * (q % k) + 1
<1>1. PICK p \in Nat, j \in 0 .. k - 1 : j = q % k /\ q = k * p + j BY DivMod
<1>2. 2 * q = (2 * k) * p + 2 * j /\ 2 * q + 1 = (2 * k) * p + (2 * j + 1)
  <2>1. 2 * (k * p + j) = (2 * k) * p + 2 * j BY Z3
  <2>2. QED BY <1>1, <2>1
<1>3. 2 * j \in 0 .. 2 * k - 1 /\ 2 * j + 1 \in 0 .. 2 * k - 1 /\ 2 * k \in Nat \ {0}
  OBVIOUS
<1>4. (2 * q) % (2 * k) = 2 * j
  <2> DEFINE c == 2 * k
             x == 2 * q
             r == 2 * j
  <2>1. c \in Nat \ {0} /\ r \in 0 .. c - 1 /\ x \in Nat /\ x = c * p + r
    BY <1>2, <1>3
  <2> HIDE DEF c, x, r
  <2>2. x % c = r BY <2>1, DivModOf
  <2>3. QED BY <2>2 DEF c, x, r
<1>5. (2 * q + 1) % (2 * k) = 2 * j + 1
  <2> DEFINE c == 2 * k
             x == 2 * q + 1
             r == 2 * j + 1
  <2>1. c \in Nat \ {0} /\ r \in 0 .. c - 1 /\ x \in Nat /\ x = c * p + r
    BY <1>2, <1>3
  <2> HIDE DEF c, x, r
  <2>2. x % c = r BY <2>1, DivModOf
  <2>3. QED BY <2>2 DEF c, x, r
<1>6. QED BY <1>1, <1>4, <1>5

\* The difference of two remainders, brought back into range.
LEMMA DifferenceMod ==
  ASSUME NEW b \in Nat \ {0}, NEW r \in 0 .. b - 1, NEW s \in 0 .. b - 1
  PROVE  (r - s) % b = IF s <= r THEN r - s ELSE r - s + b
<1>1. CASE s <= r
  <2> DEFINE x == r - s
  <2>1. x \in Nat /\ x \in 0 .. b - 1 /\ 0 \in Nat /\ x = b * 0 + x BY <1>1
  <2> HIDE DEF x
  <2>2. x % b = x BY <2>1, DivModOf
  <2>3. QED BY <1>1, <2>2 DEF x
<1>2. CASE r < s
  <2>1. r - s \in Int /\ r - s < 0 /\ 0 < r - s + b BY <1>2
  <2>2. (r - s) % b = r - s + b BY <1>2, <2>1, Z3
  <2>3. QED BY <1>2, <2>2
<1>3. QED BY <1>1, <1>2
\* Quotients and remainders of numbers less than b apart.
LEMMA NearQuotients ==
  ASSUME NEW b \in Nat \ {0}, NEW q \in Nat, NEW p \in Nat,
         NEW r \in 0 .. b - 1, NEW s \in 0 .. b - 1,
         NEW k \in Nat, NEW j \in Nat, k = b * q + r, j = b * p + s,
         k < j + b, j < k + b
  PROVE  k - j = r - s \/ k - j = r - s + b \/ j - k = s - r + b
<1>1. ~ (q + 1 < p)
  <2>1. SUFFICES ASSUME q + 1 < p PROVE FALSE OBVIOUS
  <2>2. b * (q + 1) + b <= b * p BY <2>1, MultiplesApart
  <2>3. b * (q + 1) = b * q + b BY Z3
  <2>4. QED BY <2>2, <2>3
<1>2. ~ (p + 1 < q)
  <2>1. SUFFICES ASSUME p + 1 < q PROVE FALSE OBVIOUS
  <2>2. b * (p + 1) + b <= b * q BY <2>1, MultiplesApart
  <2>3. b * (p + 1) = b * p + b BY Z3
  <2>4. QED BY <2>2, <2>3
<1>3. CASE q = p BY <1>3
<1>4. CASE q = p + 1
  <2>1. b * (p + 1) = b * p + b BY Z3
  <2>2. QED BY <1>4, <2>1
<1>5. CASE p = q + 1
  <2>1. b * (q + 1) = b * q + b BY Z3
  <2>2. QED BY <1>5, <2>1
<1>6. QED BY <1>1, <1>2, <1>3, <1>4, <1>5

\* Numbers less than h apart compare as their remainders modulo 2 * h do, taken
\* with a sign.
LEMMA NearModCompare ==
  ASSUME NEW b \in Nat \ {0}, NEW h \in Nat \ {0}, NEW k \in Nat, NEW j \in Nat
  PROVE  b = 2 * h /\ k - j < h /\ j - k < h =>
           /\ k % b = j % b <=> k = j
           /\ ((k % b) - (j % b)) % b \in 1 .. h - 1 <=> k > j
<1>1. PICK q \in Nat, r \in 0 .. b - 1 : r = k % b /\ k = b * q + r BY DivMod
<1>2. PICK p \in Nat, s \in 0 .. b - 1 : s = j % b /\ j = b * p + s BY DivMod
<1>3. (r - s) % b = IF s <= r THEN r - s ELSE r - s + b BY DifferenceMod
<1>4. SUFFICES ASSUME b = 2 * h, k - j < h, j - k < h
               PROVE  /\ k % b = j % b <=> k = j
                      /\ ((k % b) - (j % b)) % b \in 1 .. h - 1 <=> k > j
  BY Zenon
<1>5. r = k % b /\ s = j % b BY <1>1, <1>2
<1>6. (r = s <=> k = j) /\ ((r - s) % b \in 1 .. h - 1 <=> k > j)
  <2>1. k < j + b /\ j < k + b BY <1>4
  <2>2. k = b * q + r /\ j = b * p + s BY <1>1, <1>2
  <2>3. k - j = r - s \/ k - j = r - s + b \/ j - k = s - r + b
    BY <2>1, <2>2, NearQuotients
  <2>4. PICK d \in Int : d = (r - s) % b BY <1>3
  <2>5. d = IF s <= r THEN r - s ELSE r - s + b BY <1>3, <2>4
  <2>6. (r = s <=> k = j) /\ (d \in 1 .. h - 1 <=> k > j) BY <1>4, <2>3, <2>5
  <2>7. QED BY <2>4, <2>6
<1>7. QED BY <1>5, <1>6, Zenon
===============================================================================
