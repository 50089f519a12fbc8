---------------------------- MODULE LessDbProofs ----------------------------
(***************************************************************************)
(* Theorems about LessDb, for any width of a byte and of the wide types,   *)
(* any size of the storage, any layouts and start addresses, any providers *)
(* and values, and any number of Hwa failures.                             *)
(*                                                                         *)
(* Addresses are sums over a layout and packed values are digits of a      *)
(* byte, so the module first proves, by induction over a set of numbers,   *)
(* what Power and Sum compute.                                             *)
(***************************************************************************)
EXTENDS LessDb, SequenceTheorems, WellFoundedInduction, TLAPS

-----------------------------------------------------------------------------
(* Numbers.                                                                  *)

\* A set of numbers that has 0, and with every number the next, has them all:
\* induction, with the formula to be shown as a set.
LEMMA NumbersFrom0 ==
  ASSUME NEW P, 0 \in P, \A n \in Nat : n \in P => n + 1 \in P
  PROVE  Nat \subseteq P
<1> DEFINE R == OpToRel(<, Nat)
           T == Nat \ P
<1>1. IsWellFoundedOn(R, Nat)
  BY NatLessThanWellFounded
<1>2. R = {ss \in Nat \X Nat : ss[1] < ss[2]}
  BY DEF OpToRel
<1> HIDE DEF R
<1> SUFFICES ASSUME T # {} PROVE FALSE
  OBVIOUS
<1>3. PICK x \in T : \A y \in T : ~(<<y, x>> \in R)
  <2>1. T \subseteq Nat
    OBVIOUS
  <2> HIDE DEF T
  <2> QED BY <1>1, <2>1, WFMin
<1>4. x # 0 /\ x \in Nat
  BY <1>3
<1>5. x - 1 \in Nat /\ x - 1 \notin T
  <2>1. x - 1 \in Nat
    BY <1>4
  <2>2. <<x - 1, x>> \in R
    BY <1>2, <1>4, <2>1
  <2> QED BY <1>3, <2>1, <2>2
<1>6. x - 1 \in P /\ (x - 1) + 1 = x
  BY <1>4, <1>5
<1> QED BY <1>3, <1>5, <1>6

\* A set of numbers that is not empty has a least one.
LEMMA LeastNumber ==
  ASSUME NEW T, T \subseteq Nat, T # {}
  PROVE  \E x \in T : \A y \in T : x <= y
<1> DEFINE R == OpToRel(<, Nat)
<1>1. IsWellFoundedOn(R, Nat)
  BY NatLessThanWellFounded
<1>2. R = {ss \in Nat \X Nat : ss[1] < ss[2]}
  BY DEF OpToRel
<1> HIDE DEF R
<1>3. PICK x \in T : \A y \in T : ~(<<y, x>> \in R)
  BY <1>1, WFMin
<1>4. \A y \in T : ~(y < x)
  BY <1>2, <1>3
<1> QED BY <1>3, <1>4

\* The powers of a number up to the n-th.
Powers(x, n, to) ==
  /\ to \in [0 .. n -> Nat] /\ to[0] = 1
  /\ \A i \in 1 .. n : to[i] = x * to[i - 1]

\* The table of powers that Power's recursive function is exists and is one.
LEMMA PowersExist ==
  ASSUME NEW x \in Nat, NEW n \in Nat
  PROVE  \E to : Powers(x, n, to)
<1> DEFINE P == {m \in Nat : \E to : Powers(x, m, to)}
<1>1. 0 \in P
  <2>1. Powers(x, 0, [i \in 0 .. 0 |-> 1])
    BY DEF Powers
  <2> QED BY <2>1
<1>2. ASSUME NEW m \in Nat, m \in P PROVE m + 1 \in P
  <2>1. PICK to : Powers(x, m, to)
    BY <1>2
  <2> DEFINE up == [i \in 0 .. m + 1 |-> IF i <= m THEN to[i] ELSE x * to[m]]
  <2>2. up \in [0 .. m + 1 -> Nat]
    BY <2>1 DEF Powers
  <2>3. up[0] = 1
    BY <2>1 DEF Powers
  <2>4. \A i \in 1 .. m + 1 : up[i] = x * up[i - 1]
    BY <2>1 DEF Powers
  <2>5. Powers(x, m + 1, up)
    BY <2>2, <2>3, <2>4 DEF Powers
  <2> QED BY <2>5
<1> HIDE DEF P
<1>3. n \in P
  BY <1>1, <1>2, NumbersFrom0
<1> QED BY <1>3 DEF P

\* There is one table of the powers of a number.
LEMMA PowersUnique ==
  ASSUME NEW x \in Nat, NEW n \in Nat, NEW m \in 0 .. n, NEW to, NEW other,
         Powers(x, n, to), Powers(x, m, other)
  PROVE  \A i \in 0 .. m : to[i] = other[i]
<1> DEFINE P == {i \in Nat : i <= m => to[i] = other[i]}
<1>1. 0 \in P
  BY DEF Powers
<1>2. ASSUME NEW i \in Nat, i \in P PROVE i + 1 \in P
  <2> SUFFICES ASSUME i + 1 <= m PROVE to[i + 1] = other[i + 1]
    OBVIOUS
  <2>1. i + 1 \in 1 .. n /\ i + 1 \in 1 .. m /\ (i + 1) - 1 = i
    OBVIOUS
  <2>2. to[i + 1] = x * to[i] /\ other[i + 1] = x * other[i]
    BY <2>1 DEF Powers
  <2>3. to[i] = other[i]
    BY <1>2
  <2> QED BY <2>2, <2>3
<1> HIDE DEF P
<1>3. \A i \in 0 .. m : i \in P
  BY <1>1, <1>2, NumbersFrom0
<1> QED BY <1>3 DEF P

\* A power is an entry of it.
LEMMA PowerOfTable ==
  ASSUME NEW x \in Nat, NEW n \in Nat
  PROVE  \E to : Powers(x, n, to) /\ Power(x, n) = to[n]
<1> DEFINE Body(to) == [i \in 0 .. n |-> IF i = 0 THEN 1 ELSE x * to[i - 1]]
           table == CHOOSE to : to = Body(to)
<1>1. PICK good : Powers(x, n, good)
  BY PowersExist
<1>2. good = Body(good)
  BY <1>1 DEF Powers
<1>3. table = Body(table)
  BY <1>2
<1>4. Power(x, n) = table[n]
  BY DEF Power
<1> HIDE DEF table
<1>5. \A i \in 0 .. n : table[i] = IF i = 0 THEN 1 ELSE x * table[i - 1]
  BY <1>3
<1> DEFINE P == {i \in Nat : i <= n => table[i] = good[i]}
<1>6. 0 \in P
  BY <1>1, <1>5 DEF Powers
<1>7. ASSUME NEW i \in Nat, i \in P PROVE i + 1 \in P
  <2> SUFFICES ASSUME i + 1 <= n PROVE table[i + 1] = good[i + 1]
    OBVIOUS
  <2>1. table[i + 1] = x * table[i]
    BY <1>5
  <2>2. good[i + 1] = x * good[i]
    <3>1. i + 1 \in 1 .. n /\ (i + 1) - 1 = i
      OBVIOUS
    <3> QED BY <1>1, <3>1 DEF Powers
  <2> QED BY <1>7, <2>1, <2>2
<1> HIDE DEF P
<1>8. n \in P
  BY <1>6, <1>7, NumbersFrom0
<1>9. table[n] = good[n]
  BY <1>8 DEF P
<1> QED BY <1>1, <1>4, <1>9

\* The recursion of Power.
LEMMA PowerSteps ==
  ASSUME NEW x \in Nat, NEW n \in Nat
  PROVE  /\ Power(x, n) \in Nat /\ Power(x, 0) = 1 /\ Power(x, 1) = x
         /\ Power(x, n + 1) = x * Power(x, n)
<1>1. ASSUME NEW m \in Nat
      PROVE  /\ Power(x, m) \in Nat /\ Power(x, 0) = 1
             /\ Power(x, m + 1) = x * Power(x, m)
  <2>1. PICK to : Powers(x, m, to) /\ Power(x, m) = to[m]
    BY PowerOfTable
  <2>2. PICK up : Powers(x, m + 1, up) /\ Power(x, m + 1) = up[m + 1]
    BY PowerOfTable
  <2>3. PICK zero : Powers(x, 0, zero) /\ Power(x, 0) = zero[0]
    BY PowerOfTable
  <2>4. m \in 0 .. m + 1
    OBVIOUS
  <2>5. up[m] = to[m]
    BY <2>1, <2>2, <2>4, PowersUnique
  <2>6. up[m + 1] = x * up[m]
    BY <2>2 DEF Powers
  <2> QED BY <2>1, <2>2, <2>3, <2>5, <2>6 DEF Powers
<1>2. Power(x, 0 + 1) = x * Power(x, 0)
  BY <1>1
<1> QED BY <1>1, <1>2

\* Powers are positive, add up and multiply.
LEMMA PowerPositive ==
  ASSUME NEW x \in Nat \ {0}, NEW n \in Nat
  PROVE  Power(x, n) \in Nat \ {0}
<1> DEFINE P == {i \in Nat : Power(x, i) \in Nat \ {0}}
<1>1. 0 \in P
  BY PowerSteps
<1>2. ASSUME NEW i \in Nat, i \in P PROVE i + 1 \in P
  <2>1. Power(x, i + 1) = x * Power(x, i)
    BY PowerSteps
  <2> QED BY <1>2, <2>1
<1> HIDE DEF P
<1>3. n \in P
  BY <1>1, <1>2, NumbersFrom0
<1> QED BY <1>3 DEF P

\* Exponents add up.
LEMMA PowerSum ==
  ASSUME NEW x \in Nat, NEW m \in Nat, NEW n \in Nat
  PROVE  Power(x, m + n) = Power(x, m) * Power(x, n)
<1> DEFINE P == {i \in Nat : Power(x, m + i) = Power(x, m) * Power(x, i)}
<1>1. 0 \in P
  BY PowerSteps
<1>2. ASSUME NEW i \in Nat, i \in P PROVE i + 1 \in P
  <2>1. Power(x, i + 1) = x * Power(x, i) /\ Power(x, i) \in Nat
    BY PowerSteps
  <2>2. Power(x, (m + i) + 1) = x * Power(x, m + i)
    BY PowerSteps
  <2>3. m + (i + 1) = (m + i) + 1 /\ Power(x, m) \in Nat
    BY PowerSteps
  <2>4. Power(x, m + i) = Power(x, m) * Power(x, i)
    BY <1>2
  <2>5. Power(x, m + (i + 1)) = x * (Power(x, m) * Power(x, i))
    BY <2>2, <2>3, <2>4
  <2>6. Power(x, m) * Power(x, i + 1) = x * (Power(x, m) * Power(x, i))
    BY <2>1, <2>3
  <2> QED BY <2>5, <2>6
<1> HIDE DEF P
<1>3. n \in P
  BY <1>1, <1>2, NumbersFrom0
<1> QED BY <1>3 DEF P

\* Exponents of a power multiply.
LEMMA PowerTimes ==
  ASSUME NEW x \in Nat, NEW m \in Nat, NEW n \in Nat
  PROVE  Power(Power(x, m), n) = Power(x, m * n)
<1> DEFINE y == Power(x, m)
           P == {i \in Nat : Power(y, i) = Power(x, m * i)}
<1>0. y \in Nat
  BY PowerSteps
<1> HIDE DEF y
<1>1. 0 \in P
  <2>1. m * 0 = 0
    OBVIOUS
  <2> QED BY <1>0, <2>1, PowerSteps
<1>2. ASSUME NEW i \in Nat, i \in P PROVE i + 1 \in P
  <2>1. Power(y, i + 1) = y * Power(y, i)
    BY <1>0, PowerSteps
  <2>2. m * i \in Nat /\ m * (i + 1) = m + m * i
    OBVIOUS
  <2>3. Power(x, m + m * i) = Power(x, m) * Power(x, m * i)
    BY <2>2, PowerSum
  <2> QED BY <1>2, <2>1, <2>2, <2>3 DEF y
<1> HIDE DEF P
<1>3. n \in P
  BY <1>1, <1>2, NumbersFrom0
<1> QED BY <1>3 DEF P, y

-----------------------------------------------------------------------------
(* Digits: a number is hi * F * P + d * P + lo around its digit of weight P. *)

\* What \div and % give.
LEMMA Division ==
  ASSUME NEW a \in Nat, NEW b \in Nat \ {0}
  PROVE  /\ a \div b \in Nat /\ a % b \in 0 .. b - 1
         /\ a = (a \div b) * b + (a % b)
<1>1. /\ a \div b \in Int /\ a % b \in 0 .. b - 1
      /\ a = b * (a \div b) + (a % b)
  OBVIOUS
<1>2. a \div b >= 0
  <2> SUFFICES ASSUME a \div b <= -1 PROVE FALSE
    BY <1>1
  <2>1. b * (a \div b) <= b * (-1)
    BY <1>1
  <2> QED BY <1>1, <2>1
<1> QED BY <1>1, <1>2

\* What a remainder is.
LEMMA Remainder ==
  ASSUME NEW a \in Nat, NEW b \in Nat \ {0}
  PROVE  a % b \in 0 .. b - 1 /\ a % b \in Nat
OBVIOUS

\* Quotient and rest are unique.
LEMMA DivisionUnique ==
  ASSUME NEW a \in Nat, NEW b \in Nat \ {0}, NEW q \in Nat, NEW r \in 0 .. b - 1,
         a = q * b + r
  PROVE  a \div b = q /\ a % b = r
<1> DEFINE d == a \div b
           m == a % b
<1>1. d \in Nat /\ m \in 0 .. b - 1 /\ a = d * b + m
  BY Division
<1> HIDE DEF d, m
<1>2. ~(d > q)
  <2> SUFFICES ASSUME d >= q + 1 PROVE FALSE
    BY <1>1
  <2>1. d * b >= (q + 1) * b
    BY <1>1
  <2>2. (q + 1) * b = q * b + b /\ q * b \in Nat /\ d * b \in Nat
    BY <1>1
  <2> QED BY <1>1, <2>1, <2>2
<1>3. ~(q > d)
  <2> SUFFICES ASSUME q >= d + 1 PROVE FALSE
    BY <1>1
  <2>1. q * b >= (d + 1) * b
    BY <1>1
  <2>2. (d + 1) * b = d * b + b /\ q * b \in Nat /\ d * b \in Nat
    BY <1>1
  <2> QED BY <1>1, <2>1, <2>2
<1>4. d = q
  BY <1>1, <1>2, <1>3
<1> QED BY <1>1, <1>4 DEF d, m

\* Dividing by a product is dividing twice.
LEMMA DivisionInto ==
  ASSUME NEW a \in Nat, NEW b \in Nat \ {0}, NEW c \in Nat \ {0},
         NEW e \in Nat, NEW s \in 0 .. c - 1, NEW r \in 0 .. b - 1,
         a = (e * c + s) * b + r
  PROVE  a \div (b * c) = e /\ a % (b * c) = s * b + r
<1> DEFINE bc == b * c
           low == s * b + r
<1>1. bc \in Nat \ {0}
  OBVIOUS
<1>2. (e * c + s) * b = e * (b * c) + s * b
  OBVIOUS
<1>3. low \in 0 .. bc - 1
  <2>1. s * b <= (c - 1) * b /\ s * b \in Nat
    OBVIOUS
  <2>2. (c - 1) * b = b * c - b
    OBVIOUS
  <2> QED BY <1>1, <2>1, <2>2
<1>4. a = e * bc + low
  BY <1>2
<1> HIDE DEF bc, low
<1>5. a \div bc = e /\ a % bc = low
  BY <1>1, <1>3, <1>4, DivisionUnique
<1> QED BY <1>5 DEF bc, low

\* Dividing by a product is dividing twice.
LEMMA QuotientTwice ==
  ASSUME NEW a \in Nat, NEW b \in Nat \ {0}, NEW c \in Nat \ {0}
  PROVE  a \div (b * c) = (a \div b) \div c
<1> DEFINE d == a \div b
<1>1. d \in Nat /\ a % b \in 0 .. b - 1 /\ a = d * b + (a % b)
  BY Division
<1> HIDE DEF d
<1> DEFINE e == d \div c
           s == d % c
           r == a % b
<1>2. e \in Nat /\ s \in 0 .. c - 1 /\ d = e * c + s
  BY <1>1, Division
<1>3. r \in 0 .. b - 1 /\ a = d * b + r
  BY <1>1
<1> HIDE DEF e, s, r
<1>4. a = (e * c + s) * b + r
  BY <1>2, <1>3
<1>5. a \div (b * c) = e /\ a % (b * c) = s * b + r
  BY <1>2, <1>3, <1>4, DivisionInto
<1> QED BY <1>5 DEF d, e, s, r

\* The rest of a division by a product.
LEMMA RestTwice ==
  ASSUME NEW a \in Nat, NEW b \in Nat \ {0}, NEW c \in Nat \ {0}
  PROVE  a % (b * c) = ((a \div b) % c) * b + (a % b)
<1> DEFINE d == a \div b
<1>1. d \in Nat /\ a % b \in 0 .. b - 1 /\ a = d * b + (a % b)
  BY Division
<1> HIDE DEF d
<1> DEFINE e == d \div c
           s == d % c
           r == a % b
<1>2. e \in Nat /\ s \in 0 .. c - 1 /\ d = e * c + s
  BY <1>1, Division
<1>3. r \in 0 .. b - 1 /\ a = d * b + r
  BY <1>1
<1> HIDE DEF e, s, r
<1>4. a = (e * c + s) * b + r
  BY <1>2, <1>3
<1>5. a \div (b * c) = e /\ a % (b * c) = s * b + r
  BY <1>2, <1>3, <1>4, DivisionInto
<1> QED BY <1>5 DEF d, e, s, r

\* The digit of place i, and the number with another digit there.
Digit(n, F, i) == (n \div Power(F, i)) % F
SetDigit(n, F, i, v) == n + (v - Digit(n, F, i)) * Power(F, i)

\* Around place i: what is above, the digit, and what is below.
LEMMA AroundDigit ==
  ASSUME NEW n \in Nat, NEW F \in Nat \ {0}, NEW i \in Nat, NEW v \in 0 .. F - 1
  PROVE  LET P == Power(F, i)
             N == SetDigit(n, F, i, v)
         IN /\ P \in Nat \ {0} /\ N \in Nat
            /\ Digit(n, F, i) \in 0 .. F - 1
            /\ N % P = n % P
            /\ (N \div P) % F = v
            /\ N \div (P * F) = n \div (P * F)
<1> DEFINE P == Power(F, i)
           h == n \div P
           lo == n % P
           hi == h \div F
           d == h % F
           N == n + (v - d) * P
<1>1. P \in Nat \ {0}
  BY PowerPositive
<1> HIDE DEF P
<1>2. h \in Nat /\ lo \in 0 .. P - 1 /\ n = h * P + lo
  BY <1>1, Division
<1> HIDE DEF h, lo
<1>3. hi \in Nat /\ d \in 0 .. F - 1 /\ h = hi * F + d
  BY <1>2, Division
<1>4. n \div (P * F) = hi
  <2>1. n \div (P * F) = (n \div P) \div F
    BY <1>1, QuotientTwice
  <2> QED BY <2>1 DEF h
<1> HIDE DEF hi, d
<1>5. N = (hi * F + v) * P + lo
  <2>1. n = (hi * F + d) * P + lo
    BY <1>2, <1>3
  <2>2. (hi * F + d) * P = hi * F * P + d * P
    BY <1>1, <1>3
  <2>3. (hi * F + v) * P = hi * F * P + v * P
    BY <1>1, <1>3
  <2>4. (v - d) * P = v * P - d * P
    BY <1>1, <1>3
  <2> QED BY <1>1, <1>2, <1>3, <2>1, <2>2, <2>3, <2>4
<1> HIDE DEF N
<1>6. hi * F + v \in Nat
  BY <1>3
<1> DEFINE g == hi * F + v
<1>7. g \in Nat /\ N = g * P + lo
  BY <1>5, <1>6
<1>8. g \div F = hi /\ g % F = v
  BY <1>3, <1>6, DivisionUnique
<1> HIDE DEF g
<1>9. N \in Nat
  BY <1>1, <1>2, <1>7
<1>10. N \div P = g /\ N % P = lo
  BY <1>1, <1>2, <1>7, <1>9, DivisionUnique
<1>11. N \div (P * F) = hi
  <2>1. N \div (P * F) = (N \div P) \div F
    BY <1>1, <1>9, QuotientTwice
  <2> QED BY <1>8, <1>10, <2>1
<1>12. SetDigit(n, F, i, v) = N /\ Digit(n, F, i) = d
  BY DEF SetDigit, Digit, N, d, h, P
<1> QED BY <1>1, <1>3, <1>4, <1>8, <1>9, <1>10, <1>11, <1>12 DEF lo, P

\* Setting a digit sets this digit and no other.
LEMMA OtherDigits ==
  ASSUME NEW n \in Nat, NEW F \in Nat \ {0}, NEW i \in Nat, NEW v \in 0 .. F - 1,
         NEW j \in Nat
  PROVE  Digit(SetDigit(n, F, i, v), F, j) = IF j = i THEN v ELSE Digit(n, F, j)
<1> DEFINE P == Power(F, i)
           N == SetDigit(n, F, i, v)
<1>1. /\ P \in Nat \ {0} /\ N \in Nat /\ N % P = n % P /\ (N \div P) % F = v
      /\ N \div (P * F) = n \div (P * F)
  BY AroundDigit
<1>2. CASE j = i
  BY <1>1, <1>2 DEF Digit
<1>3. CASE j > i
  <2> DEFINE k == j - i - 1
             Q == Power(F, k)
  <2>1. k \in Nat /\ j = (i + 1) + k
    BY <1>3
  <2>2. Q \in Nat \ {0}
    BY <2>1, PowerPositive
  <2>3. Power(F, j) = (P * F) * Q
    <3>1. Power(F, j) = Power(F, i + 1) * Q
      BY <2>1, PowerSum
    <3>2. Power(F, i + 1) = F * P
      BY PowerSteps
    <3> QED BY <1>1, <3>1, <3>2
  <2> DEFINE S == P * F
  <2> HIDE DEF Q, k, P, N
  <2>4. S \in Nat \ {0} /\ N \div S = n \div S /\ Power(F, j) = S * Q
    BY <1>1, <2>3
  <2> HIDE DEF S
  <2>5. N \div (S * Q) = (N \div S) \div Q
    <3>1. N \in Nat /\ S \in Nat \ {0} /\ Q \in Nat \ {0}
      BY <1>1, <2>2, <2>4
    <3>2. ASSUME NEW x \in Nat PROVE x \div (S * Q) = (x \div S) \div Q
      BY <3>1, QuotientTwice
    <3> QED BY <3>1, <3>2
  <2>6. n \div (S * Q) = (n \div S) \div Q
    <3>1. S \in Nat \ {0} /\ Q \in Nat \ {0}
      BY <2>2, <2>4
    <3> QED BY <3>1, QuotientTwice
  <2>7. N \div Power(F, j) = n \div Power(F, j)
    BY <2>4, <2>5, <2>6
  <2> QED BY <1>3, <2>7 DEF Digit, N
<1>4. CASE j < i
  <2> DEFINE k == i - j - 1
             R == Power(F, j)
             Q == Power(F, k)
  <2>1. k \in Nat /\ i = (j + 1) + k
    BY <1>4
  <2>2. Q \in Nat \ {0} /\ R \in Nat \ {0}
    BY <2>1, PowerPositive
  <2>3. P = (R * F) * Q
    <3>1. Power(F, i) = Power(F, j + 1) * Q
      BY <2>1, PowerSum
    <3>2. Power(F, j + 1) = F * R
      BY PowerSteps
    <3> QED BY <2>2, <3>1, <3>2
  <2> HIDE DEF Q, k, R, P, N
  <2>4. R * F \in Nat \ {0}
    BY <2>2
  <2> DEFINE S == R * F
  <2>5. N % P = ((N \div S) % Q) * S + (N % S)
    BY <1>1, <2>2, <2>3, <2>4, RestTwice
  <2>6. n % P = ((n \div S) % Q) * S + (n % S)
    BY <1>1, <2>2, <2>3, <2>4, RestTwice
  <2>7. N % S = n % S
    <3>1. /\ N \div S \in Nat /\ n \div S \in Nat
          /\ N % S \in 0 .. S - 1 /\ n % S \in 0 .. S - 1
      BY <1>1, <2>4, Division
    <3>2. (N \div S) % Q \in Nat /\ (n \div S) % Q \in Nat
      BY <2>2, <3>1, Division
    <3> DEFINE x == (N \div S) % Q
               y == (n \div S) % Q
               r == N % S
               s == n % S
               z == N % P
    <3>3. z = x * S + r /\ z = y * S + s
      BY <1>1, <2>5, <2>6
    <3>4. x \in Nat /\ y \in Nat /\ r \in 0 .. S - 1 /\ s \in 0 .. S - 1 /\ S \in Nat \ {0}
      BY <2>4, <3>1, <3>2
    <3> HIDE DEF x, y, r, s, z, S
    <3>5. z \in Nat
      BY <3>3, <3>4
    <3>6. z % S = r /\ z % S = s
      BY <3>3, <3>4, <3>5, DivisionUnique
    <3> QED BY <3>6 DEF r, s
  <2>8. N % S = ((N \div R) % F) * R + (N % R)
    BY <1>1, <2>2, RestTwice
  <2>9. n % S = ((n \div R) % F) * R + (n % R)
    BY <1>1, <2>2, RestTwice
  <2>10. /\ (N \div R) % F \in Nat /\ (n \div R) % F \in Nat
         /\ N % R \in 0 .. R - 1 /\ n % R \in 0 .. R - 1
    BY <1>1, <2>2, Division
  <2>11. (N \div R) % F = (n \div R) % F
    <3> DEFINE x == (N \div R) % F
               y == (n \div R) % F
               r == N % R
               s == n % R
               z == N % S
    <3>3. z = x * R + r /\ z = y * R + s
      BY <2>7, <2>8, <2>9
    <3>4. x \in Nat /\ y \in Nat /\ r \in 0 .. R - 1 /\ s \in 0 .. R - 1
      BY <2>10
    <3> HIDE DEF x, y, r, s, z, S
    <3>5. z \in Nat
      BY <2>2, <3>3, <3>4
    <3>6. z \div R = x /\ z \div R = y
      BY <2>2, <3>3, <3>4, <3>5, DivisionUnique
    <3> QED BY <3>6 DEF x, y
  <2> QED BY <1>4, <2>11 DEF Digit, N, R
<1> QED BY <1>2, <1>3, <1>4

\* Setting a digit below place k leaves a number below the k-th power.
LEMMA DigitStaysBelow ==
  ASSUME NEW F \in Nat \ {0}, NEW k \in Nat, NEW n \in 0 .. Power(F, k) - 1,
         NEW i \in 0 .. k - 1, NEW v \in 0 .. F - 1
  PROVE  SetDigit(n, F, i, v) \in 0 .. Power(F, k) - 1
<1> DEFINE P == Power(F, i)
           N == SetDigit(n, F, i, v)
           Q == Power(F, k - i - 1)
           S == P * F
<1>0. Power(F, k) \in Nat \ {0}
  BY PowerPositive
<1>1. /\ P \in Nat \ {0} /\ N \in Nat /\ N \div S = n \div S
  <2>1. n \in Nat /\ i \in Nat
    BY <1>0
  <2> QED BY <2>1, AroundDigit
<1>2. Q \in Nat \ {0}
  BY PowerPositive
<1>3. Power(F, k) = S * Q
  <2>1. k = (i + 1) + (k - i - 1) /\ k - i - 1 \in Nat
    OBVIOUS
  <2>2. Power(F, k) = Power(F, i + 1) * Q
    BY <2>1, PowerSum
  <2>3. Power(F, i + 1) = F * P
    BY PowerSteps
  <2> QED BY <1>1, <2>2, <2>3
<1>4. S \in Nat \ {0}
  BY <1>1
<1> HIDE DEF P, N, Q, S
<1> DEFINE hi == n \div S
<1>5. hi \in Nat /\ n % S \in 0 .. S - 1 /\ n = hi * S + (n % S)
  <2>1. n \in Nat
    BY <1>0
  <2> QED BY <1>4, <2>1, Division
<1>6. N % S \in 0 .. S - 1 /\ N = hi * S + (N % S)
  BY <1>1, <1>4, Division
<1> HIDE DEF hi
<1>7. hi < Q
  <2> SUFFICES ASSUME hi >= Q PROVE FALSE
    BY <1>2, <1>5
  <2>1. hi * S >= Q * S
    BY <1>2, <1>4, <1>5
  <2>2. Q * S = S * Q
    BY <1>2, <1>4
  <2> QED BY <1>0, <1>3, <1>4, <1>5, <2>1, <2>2
<1>8. (hi + 1) * S <= S * Q
  BY <1>2, <1>4, <1>5, <1>7
<1>9. (hi + 1) * S = hi * S + S
  BY <1>4, <1>5
<1>10. N < S * Q
  BY <1>2, <1>4, <1>5, <1>6, <1>8, <1>9
<1>11. N < Power(F, k)
  BY <1>3, <1>10
<1> QED BY <1>0, <1>1, <1>11 DEF N

-----------------------------------------------------------------------------
(* Sums.                                                                     *)

\* The length of a function on 1 .. n.
LEMMA LengthOf ==
  ASSUME NEW n \in Nat, NEW f, DOMAIN f = 1 .. n, f = [i \in 1 .. n |-> f[i]]
  PROVE  Len(f) = n
<1> DEFINE S == {f[i] : i \in 1 .. n}
<1>1. f \in [1 .. n -> S]
  OBVIOUS
<1> HIDE DEF S
<1>2. f \in Seq(S)
  BY <1>1, SeqDef
<1>3. Len(f) \in Nat /\ DOMAIN f = 1 .. Len(f)
  BY <1>2, LenProperties
<1> QED BY <1>3

\* The partial sums of f up to n.
Sums(f, n, u) ==
  /\ u \in [0 .. n -> Nat] /\ u[0] = 0
  /\ \A i \in 1 .. n : u[i] = u[i - 1] + f[i]

\* The table of partial sums that Sum's recursive function is exists.
LEMMA SumsExist ==
  ASSUME NEW f, NEW n \in Nat, \A i \in 1 .. n : f[i] \in Nat
  PROVE  \E u : Sums(f, n, u)
<1> DEFINE P == {m \in Nat : m <= n => \E u : Sums(f, m, u)}
<1>1. 0 \in P
  <2>1. Sums(f, 0, [i \in 0 .. 0 |-> 0])
    BY DEF Sums
  <2> QED BY <2>1
<1>2. ASSUME NEW m \in Nat, m \in P PROVE m + 1 \in P
  <2> SUFFICES ASSUME m + 1 <= n PROVE \E u : Sums(f, m + 1, u)
    OBVIOUS
  <2>1. PICK u : Sums(f, m, u)
    BY <1>2
  <2>2. f[m + 1] \in Nat
    OBVIOUS
  <2> DEFINE up == [i \in 0 .. m + 1 |-> IF i <= m THEN u[i] ELSE u[m] + f[m + 1]]
  <2>3. up \in [0 .. m + 1 -> Nat]
    BY <2>1, <2>2 DEF Sums
  <2>4. up[0] = 0
    BY <2>1 DEF Sums
  <2>5. \A i \in 1 .. m + 1 : up[i] = up[i - 1] + f[i]
    BY <2>1 DEF Sums
  <2>6. Sums(f, m + 1, up)
    BY <2>3, <2>4, <2>5 DEF Sums
  <2> QED BY <2>6
<1> HIDE DEF P
<1>3. n \in P
  BY <1>1, <1>2, NumbersFrom0
<1> QED BY <1>3 DEF P

\* Whatever table of partial sums of f there is, its last entry is the sum.
LEMMA SumIs ==
  ASSUME NEW f, NEW n \in Nat, DOMAIN f = 1 .. n, f = [i \in 1 .. n |-> f[i]],
         NEW u, Sums(f, n, u)
  PROVE  Sum(f) = u[n]
<1> DEFINE Body(t) == [i \in 0 .. n |-> IF i = 0 THEN 0 ELSE t[i - 1] + f[i]]
           table == CHOOSE t : t = Body(t)
<1>1. u = Body(u)
  BY DEF Sums
<1>2. table = Body(table)
  BY <1>1
<1>3. Len(f) = n
  BY LengthOf
<1>4. Sum(f) = table[n]
  BY <1>3 DEF Sum
<1> HIDE DEF table
<1>5. \A i \in 0 .. n : table[i] = IF i = 0 THEN 0 ELSE table[i - 1] + f[i]
  BY <1>2
<1> DEFINE P == {i \in Nat : i <= n => table[i] = u[i]}
<1>6. 0 \in P
  BY <1>5 DEF Sums
<1>7. ASSUME NEW i \in Nat, i \in P PROVE i + 1 \in P
  <2> SUFFICES ASSUME i + 1 <= n PROVE table[i + 1] = u[i + 1]
    OBVIOUS
  <2>1. i + 1 \in 1 .. n /\ (i + 1) - 1 = i
    OBVIOUS
  <2>2. table[i + 1] = table[i] + f[i + 1]
    <3>1. i + 1 \in 0 .. n /\ i + 1 # 0
      OBVIOUS
    <3> QED BY <1>5, <2>1, <3>1
  <2>3. u[i + 1] = u[i] + f[i + 1]
    BY <2>1 DEF Sums
  <2> QED BY <1>7, <2>2, <2>3
<1> HIDE DEF P
<1>8. n \in P
  BY <1>6, <1>7, NumbersFrom0
<1> QED BY <1>4, <1>8 DEF P

\* The sums of the beginnings of a sequence of numbers.
LEMMA SumOfPrefixes ==
  ASSUME NEW n \in Nat, NEW f, \A i \in 1 .. n : f[i] \in Nat
  PROVE  \E u : /\ Sums(f, n, u)
                /\ \A k \in 0 .. n : Sum([i \in 1 .. k |-> f[i]]) = u[k]
<1>1. PICK u : Sums(f, n, u)
  BY SumsExist
<1>2. ASSUME NEW k \in 0 .. n
      PROVE  Sum([i \in 1 .. k |-> f[i]]) = u[k]
  <2> DEFINE g == [i \in 1 .. k |-> f[i]]
             w == [i \in 0 .. k |-> u[i]]
  <2>1. Sums(g, k, w)
    <3>1. w \in [0 .. k -> Nat] /\ w[0] = 0
      BY <1>1 DEF Sums
    <3>2. ASSUME NEW i \in 1 .. k PROVE w[i] = w[i - 1] + g[i]
      <4>1. i \in 1 .. n /\ i - 1 \in 0 .. k /\ i \in 0 .. k
        OBVIOUS
      <4>2. u[i] = u[i - 1] + f[i]
        BY <1>1, <4>1 DEF Sums
      <4> QED BY <4>1, <4>2
    <3> QED BY <3>1, <3>2 DEF Sums
  <2>2. DOMAIN g = 1 .. k /\ g = [i \in 1 .. k |-> g[i]] /\ k \in Nat
    OBVIOUS
  <2>3. w[k] = u[k]
    OBVIOUS
  <2> HIDE DEF g, w
  <2>4. Sum(g) = w[k]
    BY <2>1, <2>2, SumIs
  <2> QED BY <2>3, <2>4 DEF g
<1> QED BY <1>1, <1>2

\* The partial sums grow.
LEMMA SumsGrow ==
  ASSUME NEW n \in Nat, NEW f, \A i \in 1 .. n : f[i] \in Nat, NEW u, Sums(f, n, u),
         NEW k \in 1 .. n, NEW m \in k .. n
  PROVE  u[k - 1] + f[k] <= u[m] /\ u[m] \in Nat /\ u[k - 1] \in Nat
<1> DEFINE P == {i \in Nat : k + i <= n => u[k] <= u[k + i]}
<1>0. \A i \in 0 .. n : u[i] \in Nat
  BY DEF Sums
<1>1. 0 \in P
  BY <1>0
<1>2. ASSUME NEW i \in Nat, i \in P PROVE i + 1 \in P
  <2> SUFFICES ASSUME k + (i + 1) <= n PROVE u[k] <= u[k + (i + 1)]
    OBVIOUS
  <2>1. k + (i + 1) \in 1 .. n /\ (k + (i + 1)) - 1 = k + i /\ k + i \in 0 .. n
        /\ k \in 0 .. n
    OBVIOUS
  <2>2. u[k + (i + 1)] = u[k + i] + f[k + (i + 1)]
    BY <2>1 DEF Sums
  <2>3. f[k + (i + 1)] \in Nat
    BY <2>1
  <2> QED BY <1>0, <1>2, <2>1, <2>2, <2>3
<1> HIDE DEF P
<1>3. m - k \in P
  BY <1>1, <1>2, NumbersFrom0
<1>4. u[k] <= u[k + (m - k)]
  BY <1>3 DEF P
<1>5. k + (m - k) = m /\ k - 1 \in 0 .. n /\ m \in 0 .. n
  OBVIOUS
<1>6. u[k] = u[k - 1] + f[k]
  BY DEF Sums
<1> QED BY <1>0, <1>4, <1>5, <1>6

\* Sums of numbers are numbers.
LEMMA SumType ==
  ASSUME NEW n \in Nat, NEW f, \A i \in 1 .. n : f[i] \in Nat
  PROVE  Sum([i \in 1 .. n |-> f[i]]) \in Nat
<1>1. PICK u : /\ Sums(f, n, u)
               /\ \A k \in 0 .. n : Sum([i \in 1 .. k |-> f[i]]) = u[k]
  BY SumOfPrefixes
<1>2. n \in 0 .. n
  OBVIOUS
<1> QED BY <1>1, <1>2 DEF Sums

\* Digits put together are the digits of the number.
LEMMA DigitsOfSum ==
  ASSUME NEW F \in Nat \ {0}, NEW n \in Nat, NEW d, \A i \in 1 .. n : d[i] \in 0 .. F - 1
  PROVE  LET S == Sum([i \in 1 .. n |-> d[i] * Power(F, i - 1)])
         IN /\ S \in 0 .. Power(F, n) - 1
            /\ \A j \in 1 .. n : Digit(S, F, j - 1) = d[j]
<1> DEFINE f == [i \in 1 .. n |-> d[i] * Power(F, i - 1)]
<1>1. \A i \in 1 .. n : i - 1 \in Nat /\ Power(F, i - 1) \in Nat
  BY PowerPositive
<1>2. \A i \in 1 .. n : f[i] \in Nat
  BY <1>1
<1>3. PICK u : /\ Sums(f, n, u)
               /\ \A k \in 0 .. n : Sum([i \in 1 .. k |-> f[i]]) = u[k]
  <2> HIDE DEF f
  <2> QED BY <1>2, SumOfPrefixes
<1> DEFINE P == {m \in Nat : m <= n =>
                  /\ u[m] \in 0 .. Power(F, m) - 1
                  /\ \A j \in 1 .. m : Digit(u[m], F, j - 1) = d[j]}
<1>4. 0 \in P
  <2>1. u[0] = 0 /\ Power(F, 0) = 1
    BY <1>3, PowerSteps DEF Sums
  <2> QED BY <2>1
<1>5. ASSUME NEW m \in Nat, m \in P PROVE m + 1 \in P
  <2> SUFFICES ASSUME m + 1 <= n
               PROVE  /\ u[m + 1] \in 0 .. Power(F, m + 1) - 1
                      /\ \A j \in 1 .. m + 1 : Digit(u[m + 1], F, j - 1) = d[j]
    OBVIOUS
  <2>1. /\ u[m] \in 0 .. Power(F, m) - 1
        /\ \A j \in 1 .. m : Digit(u[m], F, j - 1) = d[j]
    BY <1>5
  <2>2. Power(F, m) \in Nat \ {0} /\ Power(F, m + 1) \in Nat \ {0}
    BY PowerPositive
  <2>3. Power(F, m + 1) = F * Power(F, m)
    BY PowerSteps
  <2>4. m + 1 \in 1 .. n /\ (m + 1) - 1 = m
    OBVIOUS
  <2>5. d[m + 1] \in 0 .. F - 1
    BY <2>4
  <2>6. u[m + 1] = u[m] + d[m + 1] * Power(F, m)
    <3>1. f[m + 1] = d[m + 1] * Power(F, m)
      BY <2>4
    <3> HIDE DEF f
    <3> QED BY <1>3, <2>4, <3>1 DEF Sums
  <2>7. Digit(u[m], F, m) = 0
    <3>1. u[m] = 0 * Power(F, m) + u[m] /\ u[m] \in Nat /\ 0 \in Nat
      BY <2>1, <2>2
    <3>2. u[m] \div Power(F, m) = 0
      BY <2>1, <2>2, <3>1, DivisionUnique
    <3> QED BY <3>2 DEF Digit
  <2>8. u[m + 1] = SetDigit(u[m], F, m, d[m + 1])
    BY <2>5, <2>6, <2>7 DEF SetDigit
  <2>9. u[m] \in 0 .. Power(F, m + 1) - 1 /\ u[m] \in Nat
    <3>1. F * Power(F, m) >= Power(F, m)
      BY <2>2
    <3> QED BY <2>1, <2>2, <2>3, <3>1
  <2>10. m \in 0 .. (m + 1) - 1 /\ m + 1 \in Nat
    OBVIOUS
  <2>11. u[m + 1] \in 0 .. Power(F, m + 1) - 1
    BY <2>5, <2>8, <2>9, <2>10, DigitStaysBelow
  <2>12. ASSUME NEW j \in 1 .. m + 1 PROVE Digit(u[m + 1], F, j - 1) = d[j]
    <3>1. j - 1 \in Nat
      OBVIOUS
    <3>2. Digit(u[m + 1], F, j - 1) = IF j - 1 = m THEN d[m + 1] ELSE Digit(u[m], F, j - 1)
      BY <2>5, <2>8, <2>9, <3>1, OtherDigits
    <3>3. CASE j - 1 = m
      <4>1. j = m + 1
        BY <3>3
      <4> QED BY <3>2, <3>3, <4>1
    <3>4. CASE j - 1 # m
      <4>1. j \in 1 .. m
        BY <3>4
      <4> QED BY <2>1, <3>2, <3>4, <4>1
    <3> QED BY <3>3, <3>4
  <2> QED BY <2>11, <2>12
<1> HIDE DEF P
<1>6. n \in P
  BY <1>4, <1>5, NumbersFrom0
<1>7. Sum([i \in 1 .. n |-> f[i]]) = u[n]
  <2>1. n \in 0 .. n
    OBVIOUS
  <2> HIDE DEF f
  <2> QED BY <1>3, <2>1
<1>8. [i \in 1 .. n |-> f[i]] = [i \in 1 .. n |-> d[i] * Power(F, i - 1)]
  OBVIOUS
<1> HIDE DEF f
<1>9. Sum([i \in 1 .. n |-> d[i] * Power(F, i - 1)]) = u[n]
  BY <1>7, <1>8
<1>10. /\ u[n] \in 0 .. Power(F, n) - 1
       /\ \A j \in 1 .. n : Digit(u[n], F, j - 1) = d[j]
  BY <1>6 DEF P
<1> QED BY <1>9, <1>10

\* The low digits of a number put together.
LEMMA SumOfDigits ==
  ASSUME NEW F \in Nat \ {0}, NEW n \in Nat, NEW v \in Nat
  PROVE  Sum([i \in 1 .. n |-> Digit(v, F, i - 1) * Power(F, i - 1)]) = v % Power(F, n)
<1> DEFINE f == [i \in 1 .. n |-> Digit(v, F, i - 1) * Power(F, i - 1)]
<1>1. ASSUME NEW i \in 1 .. n PROVE f[i] \in Nat
  <2>1. i - 1 \in Nat /\ 0 \in 0 .. F - 1
    OBVIOUS
  <2>2. Power(F, i - 1) \in Nat
    BY <2>1, PowerPositive
  <2>3. Digit(v, F, i - 1) \in 0 .. F - 1
    BY <2>1, AroundDigit
  <2> QED BY <2>2, <2>3
<1>2. PICK u : /\ Sums(f, n, u)
               /\ \A k \in 0 .. n : Sum([i \in 1 .. k |-> f[i]]) = u[k]
  <2> HIDE DEF f
  <2> QED BY <1>1, SumOfPrefixes
<1> DEFINE P == {m \in Nat : m <= n => u[m] = v % Power(F, m)}
<1>3. 0 \in P
  <2>1. u[0] = 0 /\ Power(F, 0) = 1
    BY <1>2, PowerSteps DEF Sums
  <2> QED BY <2>1
<1>4. ASSUME NEW m \in Nat, m \in P PROVE m + 1 \in P
  <2> SUFFICES ASSUME m + 1 <= n PROVE u[m + 1] = v % Power(F, m + 1)
    OBVIOUS
  <2>1. Power(F, m) \in Nat \ {0}
    BY PowerPositive
  <2>2. Power(F, m + 1) = Power(F, m) * F
    <3>1. Power(F, m + 1) = F * Power(F, m)
      BY PowerSteps
    <3> QED BY <2>1, <3>1
  <2>3. m + 1 \in 1 .. n /\ (m + 1) - 1 = m
    OBVIOUS
  <2>4. u[m + 1] = u[m] + f[m + 1]
    <3> HIDE DEF f
    <3> QED BY <1>2, <2>3 DEF Sums
  <2>5. f[m + 1] = Digit(v, F, m) * Power(F, m)
    BY <2>3
  <2>6. v % (Power(F, m) * F) = ((v \div Power(F, m)) % F) * Power(F, m) + (v % Power(F, m))
    BY <2>1, RestTwice
  <2>7. u[m] = v % Power(F, m)
    BY <1>4
  <2> DEFINE x == Digit(v, F, m) * Power(F, m)
             y == v % Power(F, m)
  <2>8. x \in Nat /\ y \in Nat
    <3>1. f[m + 1] \in Nat
      BY <1>1, <2>3
    <3>2. y \in 0 .. Power(F, m) - 1
      BY <2>1, Division
    <3> QED BY <2>5, <3>1, <3>2
  <2>9. v % Power(F, m + 1) = x + y
    BY <2>2, <2>6 DEF Digit
  <2>10. u[m + 1] = y + x
    BY <2>4, <2>5, <2>7
  <2> HIDE DEF x, y
  <2> QED BY <2>8, <2>9, <2>10
<1> HIDE DEF P
<1>5. n \in P
  BY <1>3, <1>4, NumbersFrom0
<1>6. Sum([i \in 1 .. n |-> f[i]]) = u[n]
  <2>1. n \in 0 .. n
    OBVIOUS
  <2> HIDE DEF f
  <2> QED BY <1>2, <2>1
<1>7. [i \in 1 .. n |-> f[i]] = [i \in 1 .. n |-> Digit(v, F, i - 1) * Power(F, i - 1)]
  OBVIOUS
<1> HIDE DEF f
<1> QED BY <1>5, <1>6, <1>7 DEF P

-----------------------------------------------------------------------------
(* Where a layout puts its parameters.                                       *)

\* Types: their widths, how many share a byte, and that these fill it.
LEMMA Units ==
  ASSUME NEW t \in Types
  PROVE  /\ Width(t) \in Nat \ {0} /\ PerByte(t) \in Nat \ {0}
         /\ ByteSize \in Nat \ {0} /\ FieldSize(t) \in Nat \ {0}
         /\ Power(FieldSize(t), PerByte(t)) = ByteSize
         /\ t \in Packed => Width(t) = 1
         /\ t \notin Packed => PerByte(t) = 1 /\ FieldSize(t) = ByteSize
<1> USE LessDbAssumption
<1>1. BYTE_BIT_COUNT \in Nat \ {0} /\ BYTE_BIT_COUNT % 2 = 0
  OBVIOUS
<1>2. Width(t) \in Nat \ {0} /\ (t \in Packed => Width(t) = 1)
  BY DEF Width, Types, Packed
<1>3. /\ PerByte(t) = IF t = "Bit" THEN BYTE_BIT_COUNT ELSE IF t = "HalfByte" THEN 2 ELSE 1
  BY DEF PerByte, Types
<1>4. ByteSize \in Nat \ {0}
  BY PowerPositive DEF ByteSize
<1> DEFINE k == BYTE_BIT_COUNT \div PerByte(t)
<1>5. k \in Nat /\ k * PerByte(t) = BYTE_BIT_COUNT
  <2>1. CASE t = "Bit"
    <3>1. PerByte(t) = BYTE_BIT_COUNT
      BY <1>3, <2>1
    <3>2. BYTE_BIT_COUNT = 1 * BYTE_BIT_COUNT + 0 /\ 0 \in 0 .. BYTE_BIT_COUNT - 1
      OBVIOUS
    <3>3. BYTE_BIT_COUNT \div BYTE_BIT_COUNT = 1
      BY <3>2, DivisionUnique
    <3> QED BY <3>1, <3>3
  <2>2. CASE t = "HalfByte"
    <3>1. PerByte(t) = 2
      BY <1>3, <2>2
    <3>2. (BYTE_BIT_COUNT \div 2) * 2 = BYTE_BIT_COUNT /\ BYTE_BIT_COUNT \div 2 \in Nat
      BY <1>1
    <3> QED BY <3>1, <3>2
  <2>3. CASE t \notin Packed
    <3>1. PerByte(t) = 1
      BY <1>3, <2>3 DEF Packed
    <3>2. BYTE_BIT_COUNT \div 1 = BYTE_BIT_COUNT
      BY <1>1
    <3> QED BY <3>1, <3>2
  <2> QED BY <2>1, <2>2, <2>3 DEF Packed
<1>6. PerByte(t) \in Nat \ {0}
  BY <1>1, <1>3
<1>7. FieldSize(t) = Power(2, k)
  BY DEF FieldSize
<1> HIDE DEF k
<1>8. FieldSize(t) \in Nat \ {0}
  BY <1>5, <1>7, PowerPositive
<1>9. Power(FieldSize(t), PerByte(t)) = ByteSize
  BY <1>5, <1>6, <1>7, PowerTimes DEF ByteSize
<1>10. ASSUME t \notin Packed PROVE PerByte(t) = 1 /\ FieldSize(t) = ByteSize
  <2>1. PerByte(t) = 1
    BY <1>3, <1>10 DEF Packed
  <2>2. k = BYTE_BIT_COUNT
    BY <1>5, <2>1
  <2> QED BY <1>7, <2>1, <2>2 DEF ByteSize
<1> QED BY <1>2, <1>4, <1>6, <1>8, <1>9, <1>10

SectionType ==
  [count : Nat, type : Types, preserve : BOOLEAN, increment : BOOLEAN, default : Nat]
SizeOf(section) == section_byte_size(section.count, section.type)

\* Sections have sizes that are numbers.
LEMMA SizeType ==
  ASSUME NEW section \in SectionType
  PROVE  SizeOf(section) \in Nat
<1> DEFINE t == section.type
           n == section.count
<1>1. t \in Types /\ n \in Nat
  BY DEF SectionType
<1> HIDE DEF t, n
<1>2. Width(t) \in Nat \ {0} /\ PerByte(t) \in Nat \ {0}
  BY <1>1, Units
<1>3. n + PerByte(t) - 1 \in Nat
  BY <1>1, <1>2
<1>4. (n + PerByte(t) - 1) \div PerByte(t) \in Nat
  BY <1>2, <1>3, Division
<1>5. n * Width(t) \in Nat
  BY <1>1, <1>2
<1> QED BY <1>4, <1>5 DEF SizeOf, section_byte_size, t, n

\* The sections of a block follow each other.
LEMMA SectionsFollow ==
  ASSUME NEW block \in Seq(SectionType)
  PROVE  /\ \A s \in 1 .. Len(block) + 1 : SectionOffset(block, s) \in Nat
         /\ \A s \in 1 .. Len(block) : \A m \in s + 1 .. Len(block) + 1 :
              SectionOffset(block, s) + SizeOf(block[s]) <= SectionOffset(block, m)
<1> DEFINE n == Len(block)
           f == [i \in 1 .. n |-> SizeOf(block[i])]
<1>1. n \in Nat /\ DOMAIN block = 1 .. n
  BY LenProperties
<1>2. \A i \in 1 .. n : f[i] \in Nat
  <2>1. \A i \in 1 .. n : block[i] \in SectionType
    BY <1>1, ElementOfSeq
  <2> QED BY <2>1, SizeType
<1>3. PICK u : /\ Sums(f, n, u)
               /\ \A k \in 0 .. n : Sum([i \in 1 .. k |-> f[i]]) = u[k]
  <2> HIDE DEF f
  <2> QED BY <1>1, <1>2, SumOfPrefixes
<1>4. ASSUME NEW s \in 1 .. n + 1 PROVE SectionOffset(block, s) = u[s - 1]
  <2>1. s - 1 \in 0 .. n
    BY <1>1
  <2>2. [i \in 1 .. s - 1 |-> section_byte_size(block[i].count, block[i].type)]
          = [i \in 1 .. s - 1 |-> f[i]]
    <3>1. \A i \in 1 .. s - 1 : f[i] = section_byte_size(block[i].count, block[i].type)
      BY <1>1 DEF SizeOf
    <3> HIDE DEF f
    <3> QED BY <3>1
  <2> HIDE DEF f
  <2> QED BY <1>3, <2>1, <2>2 DEF SectionOffset
<1>5. ASSUME NEW s \in 1 .. n + 1 PROVE u[s - 1] \in Nat
  <2>1. s - 1 \in 0 .. n
    BY <1>1
  <2> QED BY <1>3, <2>1 DEF Sums
<1>6. ASSUME NEW s \in 1 .. n, NEW m \in s + 1 .. n + 1
      PROVE  u[s - 1] + SizeOf(block[s]) <= u[m - 1]
  <2>1. m - 1 \in s .. n
    BY <1>1
  <2>2. f[s] = SizeOf(block[s])
    OBVIOUS
  <2> HIDE DEF f, n
  <2>3. u[s - 1] + f[s] <= u[m - 1]
    BY <1>1, <1>2, <1>3, <2>1, SumsGrow
  <2> QED BY <2>2, <2>3
<1>7. \A s \in 1 .. n : s \in 1 .. n + 1 /\ \A m \in s + 1 .. n + 1 : m \in 1 .. n + 1
  BY <1>1
<1> HIDE DEF n
<1> QED BY <1>4, <1>5, <1>6, <1>7 DEF n

\* The blocks of a layout follow each other.
LEMMA BlocksFollow ==
  ASSUME NEW l \in LayoutType
  PROVE  /\ \A b \in 1 .. Len(l) : BlockSize(l[b]) \in Nat /\ l[b] \in Seq(SectionType)
         /\ \A b \in 1 .. Len(l) + 1 : BlockOffset(l, b) \in Nat
         /\ \A b \in 1 .. Len(l) : \A m \in b + 1 .. Len(l) + 1 :
              BlockOffset(l, b) + BlockSize(l[b]) <= BlockOffset(l, m)
<1> DEFINE n == Len(l)
           f == [i \in 1 .. n |-> BlockSize(l[i])]
<1>1. l \in Seq(Seq(SectionType)) /\ n \in Nat /\ DOMAIN l = 1 .. n
  BY LenProperties DEF LayoutType, SectionType
<1>2. \A i \in 1 .. n : l[i] \in Seq(SectionType)
  BY <1>1, ElementOfSeq
<1>3. ASSUME NEW i \in 1 .. n PROVE BlockSize(l[i]) \in Nat
  <2>1. l[i] \in Seq(SectionType)
    BY <1>2
  <2>2. Len(l[i]) + 1 \in 1 .. Len(l[i]) + 1
    BY <2>1, LenProperties
  <2> QED BY <2>1, <2>2, SectionsFollow DEF BlockSize
<1>4. \A i \in 1 .. n : f[i] \in Nat
  BY <1>3
<1>5. PICK u : /\ Sums(f, n, u)
               /\ \A k \in 0 .. n : Sum([i \in 1 .. k |-> f[i]]) = u[k]
  <2> HIDE DEF f
  <2> QED BY <1>1, <1>4, SumOfPrefixes
<1>6. ASSUME NEW b \in 1 .. n + 1 PROVE BlockOffset(l, b) = u[b - 1]
  <2>1. b - 1 \in 0 .. n
    BY <1>1
  <2>2. [i \in 1 .. b - 1 |-> BlockSize(l[i])] = [i \in 1 .. b - 1 |-> f[i]]
    <3>1. \A i \in 1 .. b - 1 : f[i] = BlockSize(l[i])
      BY <1>1
    <3> HIDE DEF f
    <3> QED BY <3>1
  <2> HIDE DEF f
  <2> QED BY <1>5, <2>1, <2>2 DEF BlockOffset
<1>7. ASSUME NEW b \in 1 .. n + 1 PROVE u[b - 1] \in Nat
  <2>1. b - 1 \in 0 .. n
    BY <1>1
  <2> QED BY <1>5, <2>1 DEF Sums
<1>8. ASSUME NEW b \in 1 .. n, NEW m \in b + 1 .. n + 1
      PROVE  u[b - 1] + BlockSize(l[b]) <= u[m - 1]
  <2>1. m - 1 \in b .. n
    BY <1>1
  <2>2. f[b] = BlockSize(l[b])
    OBVIOUS
  <2> HIDE DEF f, n
  <2>3. u[b - 1] + f[b] <= u[m - 1]
    BY <1>1, <1>4, <1>5, <2>1, SumsGrow
  <2> QED BY <2>2, <2>3
<1>9. \A b \in 1 .. n : b \in 1 .. n + 1 /\ \A m \in b + 1 .. n + 1 : m \in 1 .. n + 1
  BY <1>1
<1> HIDE DEF n
<1> QED BY <1>2, <1>3, <1>6, <1>7, <1>8, <1>9 DEF n

\* A layout that set_layout() has accepted.
WellPlaced ==
  /\ layout \in LayoutType /\ initialAddress \in Nat
  /\ layout # <<>> => initialAddress + layout_size(layout) <= AddressCount

\* Every section lies in the storage.
LEMMA SectionRange ==
  ASSUME WellPlaced, NEW b \in DOMAIN layout, NEW s \in DOMAIN layout[b]
  PROVE  /\ section_address(b, s) \in Nat /\ layout[b][s] \in SectionType
         /\ SizeOf(layout[b][s]) \in Nat
         /\ section_address(b, s) + SizeOf(layout[b][s]) <= AddressCount
<1> DEFINE l == layout
<1>1. l \in LayoutType /\ DOMAIN l = 1 .. Len(l) /\ Len(l) \in Nat /\ initialAddress \in Nat
  BY LenProperties DEF WellPlaced, LayoutType
<1>2. /\ BlockSize(l[b]) \in Nat /\ l[b] \in Seq(SectionType)
      /\ BlockOffset(l, b) \in Nat /\ BlockOffset(l, Len(l) + 1) \in Nat
      /\ BlockOffset(l, b) + BlockSize(l[b]) <= BlockOffset(l, Len(l) + 1)
  <2>1. b \in 1 .. Len(l) /\ b \in 1 .. Len(l) + 1 /\ Len(l) + 1 \in b + 1 .. Len(l) + 1
        /\ Len(l) + 1 \in 1 .. Len(l) + 1
    BY <1>1
  <2> HIDE DEF l
  <2> QED BY <1>1, <2>1, BlocksFollow
<1>3. DOMAIN l[b] = 1 .. Len(l[b]) /\ Len(l[b]) \in Nat
  BY <1>2, LenProperties
<1>4. /\ SectionOffset(l[b], s) \in Nat
      /\ SectionOffset(l[b], s) + SizeOf(l[b][s]) <= BlockSize(l[b])
  <2>1. /\ s \in 1 .. Len(l[b]) /\ s \in 1 .. Len(l[b]) + 1
        /\ Len(l[b]) + 1 \in s + 1 .. Len(l[b]) + 1
    BY <1>3
  <2> HIDE DEF l
  <2> QED BY <1>2, <2>1, SectionsFollow DEF BlockSize
<1>5. l[b][s] \in SectionType
  BY <1>2, <1>3, ElementOfSeq
<1>6. SizeOf(l[b][s]) \in Nat
  BY <1>5, SizeType
<1>7. section_address(b, s) = initialAddress + BlockOffset(l, b) + SectionOffset(l[b], s)
  BY DEF section_address
<1>8. initialAddress + BlockOffset(l, Len(l) + 1) <= AddressCount
  <2>1. l # <<>>
    BY <1>1
  <2> QED BY <2>1 DEF WellPlaced, layout_size
<1>9. AddressCount \in Nat
  BY LessDbAssumption
<1> HIDE DEF l
<1>10. section_address(b, s) \in Nat
  BY <1>1, <1>2, <1>4, <1>7
<1>11. section_address(b, s) + SizeOf(l[b][s]) <= AddressCount
  BY <1>1, <1>2, <1>4, <1>6, <1>7, <1>8, <1>9
<1> QED BY <1>5, <1>6, <1>10, <1>11 DEF l

\* Two sections share no address.
LEMMA SectionsApart ==
  ASSUME WellPlaced, NEW b \in DOMAIN layout, NEW s \in DOMAIN layout[b],
         NEW c \in DOMAIN layout, NEW r \in DOMAIN layout[c], b < c \/ (b = c /\ s < r)
  PROVE  section_address(b, s) + SizeOf(layout[b][s]) <= section_address(c, r)
<1> DEFINE l == layout
<1>1. l \in LayoutType /\ DOMAIN l = 1 .. Len(l) /\ Len(l) \in Nat /\ initialAddress \in Nat
  BY LenProperties DEF WellPlaced, LayoutType
<1> HIDE DEF l
<1>2. b \in 1 .. Len(l) /\ c \in 1 .. Len(l) /\ b \in 1 .. Len(l) + 1 /\ c \in 1 .. Len(l) + 1
  BY <1>1 DEF l
<1>3. /\ BlockSize(l[b]) \in Nat /\ l[b] \in Seq(SectionType) /\ l[c] \in Seq(SectionType)
      /\ BlockOffset(l, b) \in Nat /\ BlockOffset(l, c) \in Nat
  BY <1>1, <1>2, BlocksFollow
<1>4. /\ DOMAIN l[b] = 1 .. Len(l[b]) /\ Len(l[b]) \in Nat
      /\ DOMAIN l[c] = 1 .. Len(l[c]) /\ Len(l[c]) \in Nat
  BY <1>3, LenProperties
<1>5. /\ s \in 1 .. Len(l[b]) /\ s \in 1 .. Len(l[b]) + 1 /\ s \in Nat
      /\ r \in 1 .. Len(l[c]) /\ r \in 1 .. Len(l[c]) + 1 /\ r \in Nat
  BY <1>4 DEF l
<1>6. /\ SectionOffset(l[b], s) \in Nat /\ SectionOffset(l[c], r) \in Nat
  BY <1>3, <1>5, SectionsFollow
<1>7. SizeOf(l[b][s]) \in Nat
  <2>1. l[b][s] \in SectionType
    BY <1>3, <1>4, <1>5, ElementOfSeq
  <2> QED BY <2>1, SizeType
<1>8. /\ section_address(b, s) = initialAddress + BlockOffset(l, b) + SectionOffset(l[b], s)
      /\ section_address(c, r) = initialAddress + BlockOffset(l, c) + SectionOffset(l[c], r)
  BY DEF section_address, l
<1>9. CASE b < c
  <2>1. c \in b + 1 .. Len(l) + 1
    BY <1>1, <1>2, <1>9
  <2>2. BlockOffset(l, b) + BlockSize(l[b]) <= BlockOffset(l, c)
    BY <1>1, <1>2, <2>1, BlocksFollow
  <2>3. Len(l[b]) + 1 \in s + 1 .. Len(l[b]) + 1
    BY <1>4, <1>5
  <2>4. SectionOffset(l[b], s) + SizeOf(l[b][s]) <= BlockSize(l[b])
    BY <1>3, <1>5, <2>3, SectionsFollow DEF BlockSize
  <2>5. section_address(b, s) + SizeOf(l[b][s]) <= section_address(c, r)
    BY <1>1, <1>3, <1>6, <1>7, <1>8, <2>2, <2>4
  <2> QED BY <2>5 DEF l
<1>10. CASE b = c /\ s < r
  <2>1. r \in s + 1 .. Len(l[b]) + 1
    BY <1>4, <1>5, <1>10
  <2>2. SectionOffset(l[b], s) + SizeOf(l[b][s]) <= SectionOffset(l[b], r)
    BY <1>3, <1>5, <2>1, SectionsFollow
  <2>3. section_address(b, s) + SizeOf(l[b][s]) <= section_address(c, r)
    BY <1>1, <1>3, <1>6, <1>7, <1>8, <1>10, <2>2
  <2> QED BY <2>3 DEF l
<1> QED BY <1>9, <1>10

\* What check_parameters() accepts.
LEMMA ParameterType ==
  ASSUME WellPlaced, NEW q \in Parameters
  PROVE  /\ q = <<q[1], q[2], q[3]>> /\ q[1] \in DOMAIN layout /\ q[2] \in DOMAIN layout[q[1]]
         /\ q[1] \in Nat /\ q[2] \in Nat
         /\ SectionOf(q) \in SectionType /\ TypeOf(q) \in Types
         /\ SectionOf(q).count \in Nat /\ q[3] \in 0 .. SectionOf(q).count - 1
<1>1. PICK b \in DOMAIN layout : \E s \in DOMAIN layout[b] :
        \E p \in 0 .. layout[b][s].count - 1 : q = <<b, s, p>>
  BY DEF Parameters
<1>2. PICK s \in DOMAIN layout[b] : \E p \in 0 .. layout[b][s].count - 1 : q = <<b, s, p>>
  BY <1>1
<1>3. PICK p \in 0 .. layout[b][s].count - 1 : q = <<b, s, p>>
  BY <1>2
<1>4. layout[b][s] \in SectionType
  BY SectionRange
<1>5. b \in Nat /\ s \in Nat
  <2>1. layout \in Seq(Seq(SectionType))
    BY DEF WellPlaced, LayoutType, SectionType
  <2>2. DOMAIN layout = 1 .. Len(layout) /\ Len(layout) \in Nat /\ layout[b] \in Seq(SectionType)
    BY <2>1, LenProperties, ElementOfSeq
  <2>3. DOMAIN layout[b] = 1 .. Len(layout[b]) /\ Len(layout[b]) \in Nat
    BY <2>2, LenProperties
  <2> QED BY <2>2, <2>3
<1> QED BY <1>3, <1>4, <1>5 DEF SectionOf, TypeOf, SectionType

\* And all that it accepts.
LEMMA ParameterIs ==
  ASSUME NEW b \in DOMAIN layout, NEW s \in DOMAIN layout[b],
         NEW p \in 0 .. layout[b][s].count - 1
  PROVE  <<b, s, p>> \in Parameters
BY DEF Parameters

\* Division does not turn an order round.
LEMMA DivisionOrder ==
  ASSUME NEW a \in Nat, NEW b \in Nat, NEW c \in Nat \ {0}, a < b
  PROVE  a \div c < (b + c - 1) \div c
<1> DEFINE d == a \div c
           e == (b + c - 1) \div c
           r == (b + c - 1) % c
<1>1. d \in Nat /\ a % c \in 0 .. c - 1 /\ a = d * c + (a % c)
  BY Division
<1>2. b + c - 1 \in Nat
  OBVIOUS
<1>3. e \in Nat /\ r \in 0 .. c - 1 /\ b + c - 1 = e * c + r
  <2> DEFINE m == b + c - 1
  <2>1. m \in Nat
    OBVIOUS
  <2> HIDE DEF m
  <2>2. m \div c \in Nat /\ m % c \in 0 .. c - 1 /\ m = (m \div c) * c + (m % c)
    BY <2>1, Division
  <2> QED BY <2>2 DEF m
<1> HIDE DEF d, e, r
<1> SUFFICES ASSUME e <= d PROVE FALSE
  BY <1>1, <1>3 DEF d, e
<1>4. e * c <= d * c
  BY <1>1, <1>3
<1>5. d * c <= a /\ d * c \in Nat /\ e * c \in Nat
  BY <1>1, <1>3
<1> QED BY <1>1, <1>3, <1>4, <1>5

\* Where an access to a parameter, or to its unit, lies.
IsAccess(q, a) == a = AddressOf(q) \/ a = UnitAddress(q)

\* A parameter that fills its unit is read and reset at the same address.
LEMMA WidePlace ==
  ASSUME WellPlaced, NEW q \in Parameters, TypeOf(q) \notin Packed
  PROVE  /\ AddressOf(q) = section_address(q[1], q[2]) + q[3] * Width(TypeOf(q))
         /\ UnitAddress(q) = section_address(q[1], q[2]) + q[3] * Width(TypeOf(q))
<1>1. q[3] \in Nat /\ TypeOf(q) \in Types
  BY ParameterType
<1>2. PerByte(TypeOf(q)) = 1
  BY <1>1, Units
<1>3. q[3] \div 1 = q[3]
  BY <1>1
<1> QED BY <1>2, <1>3 DEF AddressOf, UnitAddress, Packed

\* An access stays in its section, also when array_index wraps.
LEMMA AccessInside ==
  ASSUME WellPlaced, NEW q \in Parameters, NEW a, IsAccess(q, a)
  PROVE  /\ a \in Nat /\ section_address(q[1], q[2]) <= a
         /\ a + Width(TypeOf(q)) <= section_address(q[1], q[2]) + SizeOf(SectionOf(q))
         /\ a + Width(TypeOf(q)) <= AddressCount /\ a \in Addresses
<1> DEFINE t == TypeOf(q)
           n == SectionOf(q).count
           start == section_address(q[1], q[2])
<1>1. /\ t \in Types /\ n \in Nat /\ q[3] \in 0 .. n - 1 /\ q[3] \in Nat
      /\ q[1] \in DOMAIN layout /\ q[2] \in DOMAIN layout[q[1]]
  BY ParameterType
<1>2. /\ start \in Nat /\ SizeOf(SectionOf(q)) \in Nat
      /\ start + SizeOf(SectionOf(q)) <= AddressCount
  BY <1>1, SectionRange DEF SectionOf
<1>3. /\ Width(t) \in Nat \ {0} /\ PerByte(t) \in Nat \ {0}
      /\ t \in Packed => Width(t) = 1
  BY <1>1, Units
<1>4. SizeOf(SectionOf(q)) = section_byte_size(n, t)
  BY DEF SizeOf, TypeOf
<1>5. CASE t \in Packed
  <2> DEFINE d == q[3] \div PerByte(t)
  <2>1. d \in Nat
    BY <1>1, <1>3, Division
  <2>2. SizeOf(SectionOf(q)) = (n + PerByte(t) - 1) \div PerByte(t)
    BY <1>4, <1>5 DEF section_byte_size
  <2>3. d < SizeOf(SectionOf(q))
    <3>1. q[3] < n
      BY <1>1
    <3> HIDE DEF t, n
    <3> QED BY <1>1, <1>3, <2>2, <3>1, DivisionOrder
  <2>4. UnitAddress(q) = start + d
    <3>1. d * 1 = d
      BY <2>1
    <3> QED BY <1>3, <1>5, <3>1 DEF UnitAddress
  <2>5. \E k \in 0 .. d : AddressOf(q) = start + k
    <3>1. CASE t = "Bit"
      <4>1. PerByte(t) = BYTE_BIT_COUNT
        BY <3>1 DEF PerByte
      <4>2. d % IndexLimit \in 0 .. d
        <5>1. IndexLimit \in Nat \ {0}
          BY LessDbAssumption
        <5>2. /\ d \div IndexLimit \in Nat /\ d % IndexLimit \in Nat
              /\ d = (d \div IndexLimit) * IndexLimit + (d % IndexLimit)
          <6> HIDE DEF d
          <6> QED BY <2>1, <5>1, Division
        <5>3. (d \div IndexLimit) * IndexLimit \in Nat
          BY <5>1, <5>2
        <5> DEFINE x == (d \div IndexLimit) * IndexLimit
                   y == d % IndexLimit
        <5>4. x \in Nat /\ y \in Nat /\ d = x + y
          BY <5>2, <5>3
        <5> HIDE DEF x, y, d
        <5>5. y \in 0 .. d
          BY <2>1, <5>4
        <5> QED BY <5>5 DEF y
      <4>3. AddressOf(q) = start + (d % IndexLimit)
        BY <3>1, <4>1 DEF AddressOf
      <4> HIDE DEF d
      <4> QED BY <4>2, <4>3
    <3>2. CASE t = "HalfByte"
      <4>1. PerByte(t) = 2
        BY <3>2 DEF PerByte
      <4>2. AddressOf(q) = start + d
        BY <3>2, <4>1 DEF AddressOf
      <4> QED BY <2>1, <4>2
    <3> QED BY <1>5, <3>1, <3>2 DEF Packed
  <2>6. \E k \in 0 .. d : a = start + k
    <3>1. d \in 0 .. d
      BY <2>1
    <3> QED BY <2>4, <2>5, <3>1 DEF IsAccess
  <2> HIDE DEF t, n, start, d
  <2>7. AddressCount \in Nat
    BY LessDbAssumption
  <2> QED BY <1>2, <1>3, <1>5, <2>1, <2>3, <2>6, <2>7 DEF t, start, Addresses
<1>6. CASE t \notin Packed
  <2>1. a = start + q[3] * Width(t)
    BY <1>6, WidePlace DEF IsAccess
  <2>2. SizeOf(SectionOf(q)) = n * Width(t)
    BY <1>4, <1>6 DEF section_byte_size
  <2>3. q[3] * Width(t) \in Nat /\ q[3] * Width(t) + Width(t) <= n * Width(t)
    <3> HIDE DEF t, n
    <3>1. (q[3] + 1) * Width(t) <= n * Width(t)
      BY <1>1, <1>3
    <3>2. (q[3] + 1) * Width(t) = q[3] * Width(t) + Width(t)
      BY <1>1, <1>3
    <3> QED BY <1>1, <1>3, <3>1, <3>2
  <2> DEFINE x == q[3] * Width(t)
             z == n * Width(t)
  <2>4. x \in Nat /\ a = start + x /\ x + Width(t) <= z /\ SizeOf(SectionOf(q)) = z
    BY <2>1, <2>2, <2>3
  <2> HIDE DEF x, z, t, n, start
  <2>5. AddressCount \in Nat
    BY LessDbAssumption
  <2> QED BY <1>2, <1>3, <2>4, <2>5 DEF t, start, Addresses
<1> QED BY <1>5, <1>6

\* Two accesses that have an address in common are to the same parameter, or
\* to the same byte of the same packed section.
LEMMA AccessesMeet ==
  ASSUME WellPlaced, NEW q \in Parameters, NEW r \in Parameters,
         NEW a, IsAccess(q, a), NEW c, IsAccess(r, c), NEW x \in Nat,
         a <= x, x < a + Width(TypeOf(q)), c <= x, x < c + Width(TypeOf(r))
  PROVE  /\ q[1] = r[1] /\ q[2] = r[2] /\ TypeOf(q) = TypeOf(r)
         /\ TypeOf(q) \in Packed => a = c
         /\ TypeOf(q) \notin Packed => q = r
<1>1. /\ q = <<q[1], q[2], q[3]>> /\ r = <<r[1], r[2], r[3]>>
      /\ q[1] \in DOMAIN layout /\ q[2] \in DOMAIN layout[q[1]] /\ q[1] \in Nat /\ q[2] \in Nat
      /\ r[1] \in DOMAIN layout /\ r[2] \in DOMAIN layout[r[1]] /\ r[1] \in Nat /\ r[2] \in Nat
      /\ TypeOf(q) \in Types /\ q[3] \in Nat /\ r[3] \in Nat
  BY ParameterType
<1>2. /\ a \in Nat /\ section_address(q[1], q[2]) <= a
      /\ a + Width(TypeOf(q)) <= section_address(q[1], q[2]) + SizeOf(SectionOf(q))
  BY AccessInside
<1>3. /\ c \in Nat /\ section_address(r[1], r[2]) <= c
      /\ c + Width(TypeOf(r)) <= section_address(r[1], r[2]) + SizeOf(SectionOf(r))
  BY AccessInside
<1>4. /\ section_address(q[1], q[2]) \in Nat /\ section_address(r[1], r[2]) \in Nat
      /\ SizeOf(SectionOf(q)) \in Nat /\ SizeOf(SectionOf(r)) \in Nat
  BY <1>1, SectionRange DEF SectionOf
<1>5. Width(TypeOf(q)) \in Nat \ {0} /\ Width(TypeOf(r)) \in Nat \ {0}
  <2>1. TypeOf(r) \in Types
    BY ParameterType
  <2> QED BY <1>1, <2>1, Units
<1>6. q[1] = r[1] /\ q[2] = r[2]
  <2>1. CASE q[1] < r[1] \/ (q[1] = r[1] /\ q[2] < r[2])
    <3>1. section_address(q[1], q[2]) + SizeOf(SectionOf(q)) <= section_address(r[1], r[2])
      BY <1>1, <2>1, SectionsApart DEF SectionOf
    <3> QED BY <1>2, <1>3, <1>4, <1>5, <3>1
  <2>2. CASE r[1] < q[1] \/ (r[1] = q[1] /\ r[2] < q[2])
    <3>1. section_address(r[1], r[2]) + SizeOf(SectionOf(r)) <= section_address(q[1], q[2])
      BY <1>1, <2>2, SectionsApart DEF SectionOf
    <3> QED BY <1>2, <1>3, <1>4, <1>5, <3>1
  <2> QED BY <1>1, <2>1, <2>2
<1>7. TypeOf(q) = TypeOf(r)
  BY <1>6 DEF TypeOf, SectionOf
<1>8. ASSUME TypeOf(q) \in Packed PROVE a = c
  <2>1. Width(TypeOf(q)) = 1
    BY <1>1, <1>8, Units
  <2> QED BY <1>2, <1>3, <1>7, <2>1
<1>9. ASSUME TypeOf(q) \notin Packed PROVE q = r
  <2> DEFINE w == Width(TypeOf(q))
             start == section_address(q[1], q[2])
             y == q[3] * w
             z == r[3] * w
  <2>1. a = start + y /\ c = start + z
    BY <1>6, <1>7, <1>9, WidePlace DEF IsAccess
  <2>2. w \in Nat \ {0} /\ w = Width(TypeOf(r)) /\ start \in Nat
    BY <1>4, <1>5, <1>7
  <2>3. y \in Nat /\ z \in Nat
    BY <1>1, <2>2
  <2>4. ~(q[3] < r[3])
    <3> SUFFICES ASSUME q[3] + 1 <= r[3] PROVE FALSE
      BY <1>1
    <3>1. (q[3] + 1) * w <= z
      BY <1>1, <2>2
    <3>2. (q[3] + 1) * w = y + w
      BY <1>1, <2>2
    <3> HIDE DEF y, z, w, start
    <3> QED BY <2>1, <2>2, <2>3, <3>1, <3>2 DEF w
  <2>5. ~(r[3] < q[3])
    <3> SUFFICES ASSUME r[3] + 1 <= q[3] PROVE FALSE
      BY <1>1
    <3>1. (r[3] + 1) * w <= y
      BY <1>1, <2>2
    <3>2. (r[3] + 1) * w = z + w
      BY <1>1, <2>2
    <3> HIDE DEF y, z, w, start
    <3> QED BY <2>1, <2>2, <2>3, <3>1, <3>2 DEF w
  <2>6. q[3] = r[3]
    BY <1>1, <2>4, <2>5
  <2> QED BY <1>1, <1>6, <2>6
<1> QED BY <1>6, <1>7, <1>8, <1>9

-----------------------------------------------------------------------------
(* What an access leaves and what it changes.                                *)

\* A packed parameter is a digit of its byte.
LEMMA FieldIsDigit ==
  ASSUME NEW q, NEW byte, NEW v
  PROVE  /\ Field(byte, q)
              = Digit(byte, FieldSize(TypeOf(q)), q[3] % PerByte(TypeOf(q)))
         /\ WithField(byte, q, v)
              = SetDigit(byte, FieldSize(TypeOf(q)), q[3] % PerByte(TypeOf(q)), v)
BY DEF Field, WithField, Place, Digit, SetDigit

\* A write leaves the parameters alone whose addresses it does not touch.
LEMMA UntouchedStays ==
  ASSUME WellPlaced, storage \in [Addresses -> Bytes], NEW r \in Parameters,
         NEW a \in Nat, NEW v, NEW n \in Nat,
         \A x \in Nat : AddressOf(r) <= x /\ x < AddressOf(r) + Width(TypeOf(r))
                          => ~(a <= x /\ x < a + n)
  PROVE  Stored(HwaWrite(a, v, n), r) = Stored(storage, r)
<1> DEFINE c == AddressOf(r)
           w == Width(TypeOf(r))
           st == HwaWrite(a, v, n)
<1>1. c \in Nat /\ c + w <= AddressCount /\ AddressCount \in Nat
  BY AccessInside, LessDbAssumption DEF IsAccess
<1>2. w \in Nat \ {0} /\ (TypeOf(r) \in Packed => w = 1)
  BY ParameterType, Units
<1>3. ASSUME NEW x \in c .. c + w - 1 PROVE st[x] = storage[x]
  <2>1. x \in Nat /\ x \in Addresses /\ c <= x /\ x < c + w
    BY <1>1, <1>2 DEF Addresses
  <2>2. ~(x \in a .. a + n - 1)
    BY <2>1
  <2> QED BY <2>1, <2>2 DEF HwaWrite
<1> HIDE DEF st
<1>4. CASE TypeOf(r) \in Packed
  <2>1. c \in c .. c + w - 1
    BY <1>1, <1>2
  <2>2. st[c] = storage[c]
    BY <1>3, <2>1
  <2> QED BY <1>4, <2>2 DEF Stored, st
<1>5. CASE TypeOf(r) \notin Packed
  <2>1. \A i \in 1 .. w : st[c + i - 1] = storage[c + i - 1]
    <3>1. \A i \in 1 .. w : c + i - 1 \in c .. c + w - 1
      BY <1>1, <1>2
    <3> QED BY <1>3, <3>1
  <2>2. HwaRead(st, c, TypeOf(r)) = HwaRead(storage, c, TypeOf(r))
    <3>1. [i \in 1 .. w |-> st[c + i - 1] * Power(ByteSize, i - 1)]
            = [i \in 1 .. w |-> storage[c + i - 1] * Power(ByteSize, i - 1)]
      BY <2>1
    <3> QED BY <3>1 DEF HwaRead
  <2> QED BY <1>5, <2>2 DEF Stored, st
<1> QED BY <1>4, <1>5

\* The type of what a write leaves, of all its bytes or of the first ones.
LEMMA WriteType ==
  ASSUME storage \in [Addresses -> Bytes], NEW a \in Nat, NEW v \in Nat, NEW n \in Nat
  PROVE  HwaWrite(a, v, n) \in [Addresses -> Bytes]
<1>1. ByteSize \in Nat \ {0}
  BY PowerPositive, LessDbAssumption DEF ByteSize
<1>2. ASSUME NEW x \in Addresses, x \in a .. a + n - 1
      PROVE  (v \div Power(ByteSize, x - a)) % ByteSize \in Bytes
  <2>1. x - a \in Nat
    BY <1>2
  <2>2. Power(ByteSize, x - a) \in Nat \ {0}
    BY <1>1, <2>1, PowerPositive
  <2>3. v \div Power(ByteSize, x - a) \in Nat
    BY <2>2, Division
  <2> QED BY <1>1, <2>3, Division DEF Bytes
<1> QED BY <1>2 DEF HwaWrite

\* What was written at once is what is read.
LEMMA WideReadsBack ==
  ASSUME WellPlaced, NEW q \in Parameters, TypeOf(q) \notin Packed,
         NEW v \in 0 .. Power(ByteSize, Width(TypeOf(q))) - 1
  PROVE  Stored(HwaWrite(AddressOf(q), v, Width(TypeOf(q))), q) = v
<1> DEFINE a == AddressOf(q)
           w == Width(TypeOf(q))
           st == HwaWrite(a, v, w)
<1>1. a \in Nat /\ a + w <= AddressCount /\ AddressCount \in Nat
  BY AccessInside, LessDbAssumption DEF IsAccess
<1>2. w \in Nat \ {0} /\ ByteSize \in Nat \ {0}
  BY ParameterType, Units
<1>3. Power(ByteSize, w) \in Nat \ {0}
  BY <1>2, PowerPositive
<1>4. ASSUME NEW i \in 1 .. w PROVE st[a + i - 1] = Digit(v, ByteSize, i - 1)
  <2>1. a + i - 1 \in Addresses /\ a + i - 1 \in a .. a + w - 1 /\ (a + i - 1) - a = i - 1
    BY <1>1, <1>2 DEF Addresses
  <2> QED BY <2>1 DEF HwaWrite, Digit
<1> HIDE DEF st
<1>5. HwaRead(st, a, TypeOf(q)) = Sum([i \in 1 .. w |-> Digit(v, ByteSize, i - 1) * Power(ByteSize, i - 1)])
  <2>1. [i \in 1 .. w |-> st[a + i - 1] * Power(ByteSize, i - 1)]
          = [i \in 1 .. w |-> Digit(v, ByteSize, i - 1) * Power(ByteSize, i - 1)]
    BY <1>4
  <2> QED BY <2>1 DEF HwaRead
<1>6. v \in Nat
  BY <1>3
<1>7. HwaRead(st, a, TypeOf(q)) = v % Power(ByteSize, w)
  <2> HIDE DEF w
  <2> QED BY <1>2, <1>5, <1>6, SumOfDigits
<1>8. v % Power(ByteSize, w) = v
  <2> DEFINE p == Power(ByteSize, w)
  <2>1. p \in Nat \ {0} /\ v = 0 * p + v /\ v \in 0 .. p - 1 /\ 0 \in Nat
    BY <1>3
  <2> HIDE DEF p
  <2>2. v % p = v
    BY <1>6, <2>1, DivisionUnique
  <2> QED BY <2>2 DEF p
<1> QED BY <1>7, <1>8 DEF Stored, st

\* So is a byte.
LEMMA ByteReadsBack ==
  ASSUME NEW a \in Addresses, NEW v \in Bytes
  PROVE  HwaWrite(a, v, 1)[a] = v
<1>1. ByteSize \in Nat \ {0}
  BY PowerPositive, LessDbAssumption DEF ByteSize
<1>2. a \in a .. a + 1 - 1 /\ a - a = 0
  BY LessDbAssumption DEF Addresses
<1>3. Power(ByteSize, 0) = 1
  BY <1>1, PowerSteps
<1>4. v \in Nat /\ v \div 1 = v
  BY <1>1 DEF Bytes
<1>5. v % ByteSize = v
  <2>1. v = 0 * ByteSize + v /\ v \in 0 .. ByteSize - 1 /\ 0 \in Nat
    BY <1>1, <1>4 DEF Bytes
  <2> QED BY <1>1, <1>4, <2>1, DivisionUnique
<1> QED BY <1>2, <1>3, <1>4, <1>5 DEF HwaWrite

\* The fields of a byte: setting one sets it, keeps the others and a byte.
LEMMA FieldSet ==
  ASSUME NEW q, TypeOf(q) \in Types, q[3] \in Nat, NEW byte \in Bytes, NEW v \in Nat
  PROVE  LET value == v % FieldSize(TypeOf(q))
             new == WithField(byte, q, value)
         IN /\ new \in Bytes
            /\ Field(new, q) = value
            /\ \A r : TypeOf(r) = TypeOf(q) /\ r[3] \in Nat
                        => Field(new, r) = Field(byte, r) \/ Place(r) = Place(q)
<1> DEFINE t == TypeOf(q)
           F == FieldSize(t)
           i == q[3] % PerByte(t)
           value == v % F
           new == WithField(byte, q, value)
<1>1. /\ PerByte(t) \in Nat \ {0} /\ F \in Nat \ {0} /\ ByteSize \in Nat \ {0}
      /\ Power(F, PerByte(t)) = ByteSize
  BY Units
<1>2. i \in 0 .. PerByte(t) - 1 /\ i \in Nat
  <2> DEFINE places == PerByte(t)
  <2>1. places \in Nat \ {0}
    BY <1>1
  <2> HIDE DEF places
  <2>2. q[3] % places \in 0 .. places - 1 /\ q[3] % places \in Nat
    BY <2>1, Remainder
  <2> QED BY <2>2 DEF places
<1>3. value \in 0 .. F - 1
  <2> HIDE DEF F
  <2>1. v % F \in 0 .. F - 1
    BY <1>1, Division
  <2> QED BY <2>1
<1>4. byte \in Nat /\ byte \in 0 .. Power(F, PerByte(t)) - 1
  BY <1>1 DEF Bytes
<1>5. new = SetDigit(byte, F, i, value)
  BY FieldIsDigit
<1>6. ASSUME NEW r, TypeOf(r) = t, r[3] \in Nat
      PROVE  /\ Field(new, r) = IF r[3] % PerByte(t) = i THEN value ELSE Field(byte, r)
             /\ r[3] % PerByte(t) = i => Place(r) = Place(q)
  <2> DEFINE j == r[3] % PerByte(t)
  <2>1. j \in Nat
    <3>1. j \in 0 .. PerByte(t) - 1
      BY <1>1, <1>6, Division
    <3> QED BY <1>1, <3>1
  <2>2. Field(new, r) = Digit(new, F, j) /\ Field(byte, r) = Digit(byte, F, j)
    BY <1>6, FieldIsDigit
  <2>3. Digit(new, F, j) = IF j = i THEN value ELSE Digit(byte, F, j)
    <3> HIDE DEF new, F, i, value, j
    <3> QED BY <1>1, <1>2, <1>3, <1>4, <1>5, <2>1, OtherDigits
  <2> QED BY <1>6, <2>2, <2>3 DEF Place
<1>7. new \in 0 .. Power(F, PerByte(t)) - 1
  <2> HIDE DEF new, F, i, value
  <2> QED BY <1>1, <1>2, <1>3, <1>4, <1>5, DigitStaysBelow
<1>8. new \in Bytes
  BY <1>1, <1>7 DEF Bytes
<1>9. Field(new, q) = value
  BY <1>6
<1> HIDE DEF new, value, F, i
<1>10. \A r : TypeOf(r) = t /\ r[3] \in Nat => Field(new, r) = Field(byte, r) \/ Place(r) = Place(q)
  BY <1>6
<1> QED BY <1>8, <1>9, <1>10 DEF new, value, F

-----------------------------------------------------------------------------
(* Resets.                                                                   *)

\* A provider as register_layout_init_provider() keeps it.
Registration ==
  [uid : {Uid(l) : l \in Layouts}, block : Nat, section : Nat, provider : InitProviders]

\* The type invariant with what it leaves open.
TypeInv ==
  /\ TypeOK
  /\ layout \in Layouts \cup {<<>>}
  /\ providers \in Seq(Registration)
  /\ ~Idle => call.name = "init_data" /\ call.value = reset /\ answer = None

\* The cached byte is the stored one wherever a packed parameter would use it.
CacheIsFresh ==
  ~outlived => \A q \in Parameters :
                 TypeOf(q) \in Packed /\ AddressOf(q) = lastAddress
                   => lastValue = storage[lastAddress]

\* What init_data() has passed has its reset value.
ResetSoFar ==
  ~Idle => \A q \in Parameters :
             Fits(q) /\ ~Skipped(q) /\ UnitAddress(q) < cursor
               => Stored(storage, q) = ResetValue(q)

\* A layout that is in place was accepted.
LEMMA TypeInvPlaces ==
  ASSUME TypeInv
  PROVE  WellPlaced
<1>1. <<>> \in LayoutType
  BY DEF LayoutType
<1>2. Layouts \subseteq LayoutType
  BY LessDbAssumption
<1> QED BY <1>1, <1>2 DEF TypeInv, TypeOK, WellPlaced

\* What a provider or the default gives is a number.
LEMMA ResetType ==
  ASSUME TypeInv, NEW q \in Parameters
  PROVE  /\ ResetValue(q) \in Nat
         /\ TypeOf(q) \in Packed => ResetValue(q) \in 0 .. FieldSize(TypeOf(q)) - 1
<1> WellPlaced
  BY TypeInvPlaces
<1>1. /\ q[1] \in DOMAIN layout /\ q[2] \in DOMAIN layout[q[1]]
      /\ SectionOf(q) \in SectionType /\ q[3] \in 0 .. SectionOf(q).count - 1
      /\ TypeOf(q) \in Types /\ q[3] \in Nat
  BY ParameterType
<1>2. layout \in Layouts
  BY <1>1 DEF TypeInv
<1>3. ASSUME NEW d \in Nat PROVE init_value(q, d) \in Nat
  <2> DEFINE I == Overrides(q)
  <2>1. DOMAIN providers = 1 .. Len(providers) /\ Len(providers) \in Nat
    BY LenProperties DEF TypeInv
  <2>2. I \subseteq Nat
    BY <2>1 DEF Overrides
  <2>3. CASE I # {}
    <3>1. \E i \in I : \A j \in I : i <= j
      <4> HIDE DEF I
      <4> QED BY <2>2, <2>3, LeastNumber
    <3> DEFINE i == FirstOf(I)
    <3>2. i \in I
      BY <3>1 DEF FirstOf
    <3>3. init_value(q, d) = providers[i].provider[q[3]]
      BY <2>3 DEF init_value
    <3> HIDE DEF i
    <3>4. i \in DOMAIN providers /\ providers[i].provider[q[3]] # None
      BY <3>2 DEF Overrides
    <3>5. providers[i].provider \in InitProviders
      <4>1. providers[i] \in Registration
        BY <3>4, ElementOfSeq, LenProperties DEF TypeInv
      <4> QED BY <4>1 DEF Registration
    <3> DEFINE f == providers[i].provider
    <3>6. f[q[3]] \in Nat \cup {None}
      <4>1. f \in InitProviders /\ q[3] \in 0 .. layout[q[1]][q[2]].count - 1
        BY <1>1, <3>5 DEF SectionOf
      <4> HIDE DEF f
      <4> QED BY <1>1, <1>2, <4>1, ProviderAssumption
    <3> QED BY <3>3, <3>4, <3>6
  <2>4. CASE I = {}
    BY <2>4 DEF init_value
  <2> QED BY <2>3, <2>4
<1>4. SectionOf(q).default \in Nat /\ SectionOf(q).default + q[3] \in Nat
  BY <1>1 DEF SectionType
<1>5. CASE TypeOf(q) \in Packed
  <2> DEFINE x == init_value(q, SectionOf(q).default)
             F == FieldSize(TypeOf(q))
  <2>1. x \in Nat /\ F \in Nat \ {0} /\ ResetValue(q) = x % F
    BY <1>1, <1>3, <1>4, <1>5, Units DEF ResetValue
  <2> HIDE DEF x, F
  <2>2. x % F \in 0 .. F - 1 /\ x % F \in Nat
    BY <2>1, Remainder
  <2> QED BY <2>1, <2>2 DEF F
<1>6. CASE TypeOf(q) \notin Packed
  <2>1. SectionOf(q).default + (IF SectionOf(q).increment THEN q[3] ELSE 0) \in Nat
    BY <1>1, <1>4
  <2> QED BY <1>3, <1>6, <2>1 DEF ResetValue
<1> QED BY <1>5, <1>6

\* What init_data() writes for a wide parameter is its reset value.
LEMMA WideUnitValue ==
  ASSUME TypeInv, NEW q \in Parameters, TypeOf(q) \notin Packed
  PROVE  UnitValue(q) = ResetValue(q)
<1> WellPlaced
  BY TypeInvPlaces
<1>1. /\ q = <<q[1], q[2], q[3]>> /\ TypeOf(q) \in Types /\ q[3] \in Nat
      /\ q[3] < SectionOf(q).count
  BY ParameterType
<1>2. PerByte(TypeOf(q)) = 1 /\ FieldSize(TypeOf(q)) \in Nat \ {0}
  BY <1>1, Units
<1>3. q[3] % 1 = 0 /\ q[3] - (q[3] % 1) = q[3] /\ q[3] + 1 - 1 = q[3]
  BY <1>1
<1>4. Place(q) = 1
  BY <1>2, <1>3, PowerSteps DEF Place
<1>5. ResetValue(q) \in Nat
  BY ResetType
<1> DEFINE f == [i \in 1 .. 1 |-> ResetValue(q)]
           g == [i \in 1 .. 1 |->
                  IF q[3] + i - 1 < SectionOf(q).count
                  THEN ResetValue(<<q[1], q[2], q[3] + i - 1>>)
                         * Place(<<q[1], q[2], q[3] + i - 1>>) ELSE 0]
<1>6. UnitValue(q) = Sum(g)
  BY <1>2, <1>3 DEF UnitValue
<1>7. ASSUME NEW i \in 1 .. 1
      PROVE  g[i] = f[i]
  <2>1. i = 1 /\ q[3] + i - 1 = q[3]
    BY <1>3
  <2>2. g[i] = ResetValue(q) * Place(q)
    BY <1>1, <2>1
  <2>3. ResetValue(q) * 1 = ResetValue(q)
    BY <1>5
  <2> QED BY <1>4, <2>2, <2>3
<1>8. g = [i \in 1 .. 1 |-> f[i]]
  BY <1>7
<1>9. f[1] = ResetValue(q) /\ \A i \in 1 .. 1 : f[i] \in Nat
  BY <1>5
<1> HIDE DEF f, g
<1>10. PICK u : /\ Sums(f, 1, u)
                /\ \A k \in 0 .. 1 : Sum([i \in 1 .. k |-> f[i]]) = u[k]
  <2> DEFINE n == 1
  <2>1. n \in Nat /\ \A i \in 1 .. n : f[i] \in Nat
    BY <1>9
  <2> HIDE DEF n
  <2>2. \E u : /\ Sums(f, n, u)
              /\ \A k \in 0 .. n : Sum([i \in 1 .. k |-> f[i]]) = u[k]
    BY <2>1, SumOfPrefixes
  <2> QED BY <2>2 DEF n
<1>11. u[1] = u[0] + f[1] /\ u[0] = 0
  <2>1. 1 \in 1 .. 1 /\ 1 - 1 = 0
    OBVIOUS
  <2> QED BY <1>10, <2>1 DEF Sums
<1>12. Sum(g) = u[1]
  <2>1. 1 \in 0 .. 1
    OBVIOUS
  <2> QED BY <1>8, <1>10, <2>1
<1> QED BY <1>5, <1>6, <1>9, <1>11, <1>12

\* What it writes for a packed one is a byte with the reset values of all the
\* parameters that share it.
LEMMA PackedUnitValue ==
  ASSUME TypeInv, NEW q \in Parameters, TypeOf(q) \in Packed
  PROVE  /\ UnitValue(q) \in Bytes
         /\ \A r \in Parameters :
              r[1] = q[1] /\ r[2] = q[2] /\ UnitAddress(r) = UnitAddress(q)
                => Field(UnitValue(q), r) = ResetValue(r)
<1> WellPlaced
  BY TypeInvPlaces
<1> DEFINE t == TypeOf(q)
           n == PerByte(t)
           F == FieldSize(t)
           k == q[3] \div n
           first == q[3] - (q[3] % n)
           count == SectionOf(q).count
           At(i) == <<q[1], q[2], first + i - 1>>
           d == [i \in 1 .. n |-> IF first + i - 1 < count THEN ResetValue(At(i)) ELSE 0]
<1>1. /\ q = <<q[1], q[2], q[3]>> /\ t \in Types /\ q[3] \in Nat /\ count \in Nat
      /\ q[1] \in DOMAIN layout /\ q[2] \in DOMAIN layout[q[1]]
  BY ParameterType
<1>2. /\ n \in Nat \ {0} /\ F \in Nat \ {0} /\ Power(F, n) = ByteSize /\ Width(t) = 1
  BY <1>1, Units
<1> HIDE DEF n
<1>3. k \in Nat /\ first = k * n /\ first \in Nat
  <2>1. k \in Nat /\ q[3] % n \in 0 .. n - 1 /\ q[3] = k * n + (q[3] % n)
    BY <1>1, <1>2, Division
  <2> HIDE DEF k
  <2>2. k * n \in Nat
    BY <1>2, <2>1
  <2> QED BY <1>1, <2>1, <2>2
<1> HIDE DEF k, first
<1>4. ASSUME NEW i \in 1 .. n, first + i - 1 < count
      PROVE  At(i) \in Parameters /\ TypeOf(At(i)) = t
  <2>1. first + i - 1 \in 0 .. layout[q[1]][q[2]].count - 1
    BY <1>1, <1>2, <1>3, <1>4 DEF SectionOf
  <2>2. At(i) \in Parameters
    BY <1>1, <2>1, ParameterIs
  <2> QED BY <2>2 DEF TypeOf, SectionOf
<1>5. ASSUME NEW i \in 1 .. n PROVE d[i] \in 0 .. F - 1
  <2>1. CASE first + i - 1 < count
    BY <1>4, <2>1, ResetType
  <2>2. CASE ~(first + i - 1 < count)
    BY <1>2, <2>2
  <2> QED BY <2>1, <2>2
<1>6. ASSUME NEW i \in 1 .. n, first + i - 1 < count
      PROVE  Place(At(i)) = Power(F, i - 1)
  <2>1. first + i - 1 = k * n + (i - 1) /\ i - 1 \in 0 .. n - 1 /\ first + i - 1 \in Nat
    BY <1>2, <1>3
  <2>2. (first + i - 1) % n = i - 1
    <3> DEFINE m == first + i - 1
               j == i - 1
    <3>1. m \in Nat /\ j \in 0 .. n - 1 /\ m = k * n + j
      BY <2>1
    <3> HIDE DEF m, j
    <3>2. m % n = j
      BY <1>2, <1>3, <3>1, DivisionUnique
    <3> QED BY <3>2 DEF m, j
  <2>3. TypeOf(At(i)) = t /\ At(i)[3] = first + i - 1
    BY <1>4, <1>6
  <2> QED BY <2>2, <2>3 DEF Place, n
<1>7. UnitValue(q) = Sum([i \in 1 .. n |-> d[i] * Power(F, i - 1)])
  <2>1. ASSUME NEW i \in 1 .. n
        PROVE  (IF first + i - 1 < count THEN ResetValue(At(i)) * Place(At(i)) ELSE 0)
                 = d[i] * Power(F, i - 1)
    <3>1. Power(F, i - 1) \in Nat
      <4>1. i - 1 \in Nat
        BY <1>2
      <4> QED BY <1>2, <4>1, PowerPositive
    <3>2. 0 * Power(F, i - 1) = 0
      BY <3>1
    <3> QED BY <1>6, <3>2
  <2>2. [i \in 1 .. n |-> IF first + i - 1 < count THEN ResetValue(At(i)) * Place(At(i)) ELSE 0]
          = [i \in 1 .. n |-> d[i] * Power(F, i - 1)]
    <3> HIDE DEF d
    <3> QED BY <2>1
  <2>3. UnitValue(q) = Sum([i \in 1 .. n |-> IF first + i - 1 < count
                                            THEN ResetValue(At(i)) * Place(At(i)) ELSE 0])
    BY DEF UnitValue, n, first
  <2> QED BY <2>2, <2>3
<1> DEFINE S == Sum([i \in 1 .. n |-> d[i] * Power(F, i - 1)])
<1>8. /\ S \in 0 .. Power(F, n) - 1
      /\ \A j \in 1 .. n : Digit(S, F, j - 1) = d[j]
  <2> HIDE DEF d, F
  <2>1. F \in Nat \ {0} /\ n \in Nat /\ \A i \in 1 .. n : d[i] \in 0 .. F - 1
    BY <1>2, <1>5
  <2>2. /\ Sum([i \in 1 .. n |-> d[i] * Power(F, i - 1)]) \in 0 .. Power(F, n) - 1
        /\ \A j \in 1 .. n :
             Digit(Sum([i \in 1 .. n |-> d[i] * Power(F, i - 1)]), F, j - 1) = d[j]
    BY <2>1, DigitsOfSum
  <2> QED BY <2>2
<1> HIDE DEF S
<1>9. UnitValue(q) = S
  BY <1>7 DEF S
<1>10. S \in Bytes
  BY <1>2, <1>8 DEF Bytes
<1>11. ASSUME NEW r \in Parameters, r[1] = q[1], r[2] = q[2], UnitAddress(r) = UnitAddress(q)
       PROVE  Field(S, r) = ResetValue(r)
  <2>1. /\ r = <<r[1], r[2], r[3]>> /\ r[3] \in Nat /\ r[3] < SectionOf(r).count
    BY ParameterType
  <2>2. SectionOf(r) = SectionOf(q) /\ TypeOf(r) = t
    BY <1>11 DEF SectionOf, TypeOf
  <2>3. r[3] \div n = k
    <3> DEFINE x == r[3] \div n
    <3>1. x \in Nat
      BY <1>2, <2>1, Division
    <3>2. UnitAddress(r) = section_address(q[1], q[2]) + x * 1
      BY <1>2, <1>11, <2>2 DEF UnitAddress, n
    <3>3. UnitAddress(q) = section_address(q[1], q[2]) + k * 1
      BY <1>2 DEF UnitAddress, n, k
    <3>4. section_address(q[1], q[2]) \in Nat
      BY <1>1, SectionRange
    <3> DEFINE start == section_address(q[1], q[2])
    <3>5. start \in Nat /\ k \in Nat /\ start + x * 1 = start + k * 1
      BY <1>3, <1>11, <3>2, <3>3, <3>4
    <3> HIDE DEF x, start
    <3>6. x = k
      BY <3>1, <3>5
    <3> QED BY <3>6 DEF x
  <2> DEFINE j == r[3] % n
  <2>4. j \in 0 .. n - 1 /\ r[3] = k * n + j
    BY <1>2, <2>1, <2>3, Division
  <2>5. Field(S, r) = Digit(S, F, j)
    BY <2>2, FieldIsDigit DEF n
  <2> HIDE DEF j
  <2>6. j + 1 \in 1 .. n /\ (j + 1) - 1 = j /\ first + (j + 1) - 1 = r[3]
    BY <1>2, <1>3, <2>1, <2>4
  <2>7. Digit(S, F, j) = d[j + 1]
    BY <1>8, <2>6
  <2>8. At(j + 1) = r
    BY <1>11, <2>1, <2>6
  <2>9. d[j + 1] = ResetValue(r)
    <3>1. first + (j + 1) - 1 < count
      BY <2>1, <2>2, <2>6
    <3> QED BY <2>6, <2>8, <3>1
  <2> QED BY <2>5, <2>7, <2>9
<1> HIDE DEF t, n, F, k, first, count, d, S
<1> QED BY <1>9, <1>10, <1>11

-----------------------------------------------------------------------------
(* Steps.                                                                    *)

\* Calls that keep the layout keep where its parameters are.
LEMMA SameLayout ==
  ASSUME layout' = layout, initialAddress' = initialAddress
  PROVE  /\ Parameters' = Parameters
         /\ \A q : /\ SectionOf(q)' = SectionOf(q) /\ TypeOf(q)' = TypeOf(q)
                   /\ AddressOf(q)' = AddressOf(q) /\ UnitAddress(q)' = UnitAddress(q)
                   /\ Stored(storage, q)' = Stored(storage', q)
         /\ Stored(storage, call.at)' = Stored(storage', call'.at)
         /\ Cut(call.at, call.value)' = Cut(call'.at, call'.value)
<1>1. Parameters' = Parameters
  BY DEF Parameters
<1>2. \A q : SectionOf(q)' = SectionOf(q) /\ TypeOf(q)' = TypeOf(q)
  BY DEF SectionOf, TypeOf
<1>3. \A b, s : section_address(b, s)' = section_address(b, s)
  BY DEF section_address
<1>4. \A q : AddressOf(q)' = AddressOf(q) /\ UnitAddress(q)' = UnitAddress(q)
  BY <1>2, <1>3 DEF AddressOf, UnitAddress
<1>5. \A q : Stored(storage, q)' = Stored(storage', q)
  BY <1>2, <1>4 DEF Stored, Field, Place
<1>6. Stored(storage, call.at)' = Stored(storage', call'.at)
  BY DEF Stored, Field, Place, TypeOf, SectionOf, AddressOf, section_address
<1>7. Cut(call.at, call.value)' = Cut(call'.at, call'.value)
  BY DEF Cut, TypeOf, SectionOf
<1> QED BY <1>1, <1>2, <1>4, <1>5, <1>6, <1>7

\* Calls that also keep the providers keep the reset values.
LEMMA SameResets ==
  ASSUME layout' = layout, initialAddress' = initialAddress, providers' = providers
  PROVE  \A q : ResetValue(q)' = ResetValue(q)
<1>1. \A q : SectionOf(q)' = SectionOf(q) /\ TypeOf(q)' = TypeOf(q)
  BY DEF SectionOf, TypeOf
<1>2. \A q : Overrides(q)' = Overrides(q)
  BY DEF Overrides
<1>3. \A q, d : init_value(q, d)' = init_value(q, d)
  BY <1>2 DEF init_value
<1> QED BY <1>1, <1>3 DEF ResetValue

\* What update() writes.
LEMMA UpdatedType ==
  ASSUME TypeInv, NEW q \in Parameters, NEW v \in Nat
  PROVE  /\ Updated(q, v) \in Nat
         /\ TypeOf(q) \in Packed =>
              /\ Updated(q, v) \in Bytes
              /\ Field(Updated(q, v), q) = Cut(q, v)
              /\ \A r : TypeOf(r) = TypeOf(q) /\ r[3] \in Nat
                          => \/ Field(Updated(q, v), r) = Field(storage[AddressOf(q)], r)
                             \/ Place(r) = Place(q)
         /\ TypeOf(q) \notin Packed =>
              /\ Updated(q, v) \in 0 .. Power(ByteSize, Width(TypeOf(q))) - 1
              /\ Updated(q, v) = Cut(q, v)
<1> WellPlaced
  BY TypeInvPlaces
<1>1. TypeOf(q) \in Types /\ q[3] \in Nat
  BY ParameterType
<1>2. /\ Width(TypeOf(q)) \in Nat \ {0} /\ FieldSize(TypeOf(q)) \in Nat \ {0}
      /\ ByteSize \in Nat \ {0} /\ (TypeOf(q) \in Packed => Width(TypeOf(q)) = 1)
      /\ TypeOf(q) \notin Packed => FieldSize(TypeOf(q)) = ByteSize
  BY <1>1, Units
<1>3. CASE TypeOf(q) \in Packed
  <2> DEFINE byte == storage[AddressOf(q)]
             F == FieldSize(TypeOf(q))
  <2>1. byte \in Bytes
    <3>1. AddressOf(q) \in Addresses
      BY AccessInside DEF IsAccess
    <3> QED BY <3>1 DEF TypeInv, TypeOK
  <2>2. Updated(q, v) = WithField(byte, q, v % F)
    BY <1>3 DEF Updated
  <2>3. Cut(q, v) = v % F
    BY <1>2, <1>3, PowerSteps DEF Cut
  <2> HIDE DEF byte
  <2>4. /\ Updated(q, v) \in Bytes
        /\ Field(Updated(q, v), q) = v % F
        /\ \A r : TypeOf(r) = TypeOf(q) /\ r[3] \in Nat
                    => Field(Updated(q, v), r) = Field(byte, r) \/ Place(r) = Place(q)
    BY <1>1, <2>1, <2>2, FieldSet
  <2> QED BY <1>2, <1>3, <2>3, <2>4 DEF byte, Bytes
<1>4. CASE TypeOf(q) \notin Packed
  <2> DEFINE P == Power(ByteSize, Width(TypeOf(q)))
  <2>1. P \in Nat \ {0}
    BY <1>2, PowerPositive
  <2>2. Updated(q, v) = v % P /\ Cut(q, v) = v % P
    BY <1>2, <1>4 DEF Updated, Cut
  <2> HIDE DEF P
  <2>3. v % P \in 0 .. P - 1 /\ v % P \in Nat
    BY <2>1, Remainder
  <2> QED BY <1>4, <2>2, <2>3 DEF P
<1> QED BY <1>3, <1>4

\* What write() does to the storage, whether it succeeds or not.
LEMMA WriteLeaves ==
  ASSUME TypeInv, NEW a \in Nat, NEW v \in Nat, NEW t \in Types, NEW written \in BOOLEAN,
         write(a, v, t, written)
  PROVE  /\ \E n \in 0 .. Width(t) : storage' = HwaWrite(a, v, n)
         /\ written => storage' = HwaWrite(a, v, Width(t)) /\ v < Power(ByteSize, Width(t))
         /\ storage' \in [Addresses -> Bytes]
         /\ lastAddress' = IF a = lastAddress THEN INVALID_ADDRESS ELSE lastAddress
         /\ lastValue' = lastValue /\ outlived' = outlived
         /\ faults' \in 0 .. MaxFaults
<1>1. Width(t) \in Nat \ {0}
  BY Units
<1>2. \E n \in 0 .. Width(t) : storage' = HwaWrite(a, v, n)
  <2>1. Width(t) \in 0 .. Width(t)
    BY <1>1
  <2> QED BY <2>1 DEF write, WriteVerified, WriteRefused
<1>3. storage' \in [Addresses -> Bytes]
  <2>1. PICK n \in 0 .. Width(t) : storage' = HwaWrite(a, v, n)
    BY <1>2
  <2>2. n \in Nat
    BY <1>1
  <2> QED BY <2>1, <2>2, WriteType DEF TypeInv, TypeOK
<1>4. faults' \in 0 .. MaxFaults
  BY LessDbAssumption DEF write, WriteVerified, WriteRefused, HwaFails, TypeInv, TypeOK
<1>5. written => storage' = HwaWrite(a, v, Width(t)) /\ v < Power(ByteSize, Width(t))
  BY DEF write, WriteVerified
<1>6. /\ lastAddress' = IF a = lastAddress THEN INVALID_ADDRESS ELSE lastAddress
      /\ lastValue' = lastValue /\ outlived' = outlived
  BY DEF write, Invalidate
<1> QED BY <1>2, <1>3, <1>4, <1>5, <1>6

\* The unit init_data() writes next.
LEMMA NextUnitType ==
  ASSUME TypeInv, NextUnit # {}
  PROVE  LET q == CHOOSE x \in NextUnit : TRUE
         IN /\ q \in Parameters /\ ~Skipped(q) /\ UnitAddress(q) >= cursor
            /\ \A r \in Parameters : ~Skipped(r) /\ UnitAddress(r) >= cursor
                                       => UnitAddress(q) <= UnitAddress(r)
            /\ UnitValue(q) \in Nat /\ TypeOf(q) \in Types
            /\ UnitAddress(q) \in Addresses /\ UnitAddress(q) \in Nat
<1> WellPlaced
  BY TypeInvPlaces
<1> DEFINE q == CHOOSE x \in NextUnit : TRUE
<1>1. q \in NextUnit
  OBVIOUS
<1> HIDE DEF q
<1>2. /\ q \in Parameters /\ ~Skipped(q) /\ UnitAddress(q) >= cursor
      /\ \A r \in Parameters : ~Skipped(r) /\ UnitAddress(r) >= cursor
                                 => UnitAddress(q) <= UnitAddress(r)
  BY <1>1 DEF NextUnit
<1>3. TypeOf(q) \in Types
  BY <1>2, ParameterType
<1>4. UnitValue(q) \in Nat
  <2>1. CASE TypeOf(q) \in Packed
    <3>1. ByteSize \in Nat
      BY <1>3, Units
    <3>2. UnitValue(q) \in Bytes
      BY <1>2, <2>1, PackedUnitValue
    <3> QED BY <3>1, <3>2 DEF Bytes
  <2>2. CASE TypeOf(q) \notin Packed
    BY <1>2, <2>2, WideUnitValue, ResetType
  <2> QED BY <2>1, <2>2
<1>5. UnitAddress(q) \in Addresses /\ UnitAddress(q) \in Nat
  BY <1>2, AccessInside DEF IsAccess
<1> QED BY <1>2, <1>3, <1>4, <1>5 DEF q

\* The type invariant holds at first and is kept.
LEMMA TypeInit == Init => TypeInv
<1> SUFFICES ASSUME Init PROVE TypeInv
  OBVIOUS
<1>1. 0 \in Bytes
  BY PowerPositive, LessDbAssumption DEF ByteSize, Bytes
<1>2. TypeOK
  <2>1. storage \in [Addresses -> Bytes]
    BY <1>1 DEF Init
  <2>2. AddressCount \in Nat /\ MaxFaults \in Nat
    BY LessDbAssumption
  <2>3. /\ initialAddress \in Nat /\ layout = <<>> /\ lastValue \in Bytes
        /\ reset = None /\ outlived \in BOOLEAN
    BY <1>1 DEF Init
  <2>4. lastAddress \in 0 .. INVALID_ADDRESS /\ cursor \in 0 .. AddressCount
        /\ faults \in 0 .. MaxFaults
    BY <2>2 DEF Init, INVALID_ADDRESS
  <2> QED BY <2>1, <2>3, <2>4 DEF TypeOK
<1>3. Idle /\ layout = <<>> /\ providers \in Seq(Registration)
  BY DEF Init, Idle
<1> QED BY <1>2, <1>3 DEF TypeInv

\* Every step keeps the types.
LEMMA TypeSteps ==
  ASSUME TypeInv, [Next]_vars
  PROVE  TypeInv'
<1> USE LessDbAssumption
<1> WellPlaced
  BY TypeInvPlaces
<1>0. /\ storage \in [Addresses -> Bytes] /\ initialAddress \in Nat
      /\ layout # <<>> => initialAddress + layout_size(layout) <= AddressCount
      /\ lastAddress \in 0 .. INVALID_ADDRESS /\ lastValue \in Bytes
      /\ reset \in {None, "Full", "Partial"} /\ cursor \in 0 .. AddressCount
      /\ faults \in 0 .. MaxFaults /\ outlived \in BOOLEAN
      /\ layout \in Layouts \cup {<<>>} /\ providers \in Seq(Registration)
      /\ ~Idle => call.name = "init_data" /\ call.value = reset /\ answer = None
  BY DEF TypeInv, TypeOK
<1>1. SUFFICES /\ storage' \in [Addresses -> Bytes] /\ initialAddress' \in Nat
               /\ layout' # <<>> => initialAddress' + layout_size(layout') <= AddressCount
               /\ lastAddress' \in 0 .. INVALID_ADDRESS /\ lastValue' \in Bytes
               /\ reset' \in {None, "Full", "Partial"} /\ cursor' \in 0 .. AddressCount
               /\ faults' \in 0 .. MaxFaults /\ outlived' \in BOOLEAN
               /\ layout' \in Layouts \cup {<<>>} /\ providers' \in Seq(Registration)
               /\ reset' # None => call'.name = "init_data" /\ call'.value = reset' /\ answer' = None
  BY DEF TypeInv, TypeOK, Idle, INVALID_ADDRESS
<1>2. ASSUME NEW l \in Layouts, NEW a \in StartAddresses, set_layout(l, a)
      PROVE  <1>1!1
  <2>1. CASE a >= AddressCount \/ l = <<>> \/ layout_size(l) > AddressCount - a
    BY <1>0, <1>2, <2>1 DEF set_layout, progress, Idle
  <2>2. CASE ~(a >= AddressCount \/ l = <<>> \/ layout_size(l) > AddressCount - a)
    <3>1. a \in Nat /\ AddressCount \in Nat
      OBVIOUS
    <3>2. layout_size(l) \in Nat
      <4>1. l \in LayoutType
        OBVIOUS
      <4>2. Len(l) \in Nat
        BY <4>1, LenProperties DEF LayoutType
      <4>3. Len(l) + 1 \in 1 .. Len(l) + 1
        BY <4>2
      <4> QED BY <4>1, <4>3, BlocksFollow DEF layout_size
    <3>3. a + layout_size(l) <= AddressCount
      BY <2>2, <3>1, <3>2
    <3> QED BY <1>0, <1>2, <2>2, <3>1, <3>3 DEF set_layout, progress, Idle
  <2> QED BY <2>1, <2>2
<1>3. ASSUME NEW q \in Parameters, read(q)
      PROVE  <1>1!1
  <2>1. AddressOf(q) \in Addresses /\ AddressOf(q) \in 0 .. INVALID_ADDRESS
    <3>1. AddressOf(q) \in Addresses
      BY AccessInside DEF IsAccess
    <3> QED BY <3>1 DEF Addresses, INVALID_ADDRESS
  <2>2. storage[AddressOf(q)] \in Bytes
    BY <1>0, <2>1
  <2>3. lastAddress' \in 0 .. INVALID_ADDRESS /\ lastValue' \in Bytes /\ outlived' \in BOOLEAN
    BY <1>0, <1>3, <2>1, <2>2 DEF read, ReadCached, ReadStorage, ReadFails, cache
  <2>4. faults' \in 0 .. MaxFaults
    BY <1>0, <1>3 DEF read, ReadCached, ReadStorage, ReadFails, HwaFails
  <2> QED BY <1>0, <1>3, <2>3, <2>4 DEF read, config, progress, Idle
<1>4. ASSUME NEW q \in Parameters, NEW v \in NewValues, update(q, v)
      PROVE  <1>1!1
  <2>1. v \in Nat /\ TypeOf(q) \in Types /\ AddressOf(q) \in Nat
    BY ParameterType, AccessInside DEF IsAccess
  <2>2. Updated(q, v) \in Nat
    BY <2>1, UpdatedType
  <2>3. CASE UpdateFails(q)
    <3>1. faults' \in 0 .. MaxFaults
      BY <1>0, <2>3 DEF UpdateFails, HwaFails
    <3> QED BY <1>0, <1>4, <2>3, <3>1 DEF update, UpdateFails, config, cache, progress, Idle
  <2>4. CASE UpdateWrites(q, v)
    <3>1. PICK written \in BOOLEAN : write(AddressOf(q), Updated(q, v), TypeOf(q), written)
      BY <2>4 DEF UpdateWrites
    <3>2. /\ storage' \in [Addresses -> Bytes] /\ faults' \in 0 .. MaxFaults
          /\ lastAddress' = IF AddressOf(q) = lastAddress THEN INVALID_ADDRESS ELSE lastAddress
          /\ lastValue' = lastValue /\ outlived' = outlived
      BY <2>1, <2>2, <3>1, WriteLeaves
    <3>3. lastAddress' \in 0 .. INVALID_ADDRESS
      BY <1>0, <3>2 DEF INVALID_ADDRESS
    <3> QED BY <1>0, <1>4, <3>2, <3>3 DEF update, config, progress, Idle
  <2> QED BY <1>4, <2>3, <2>4 DEF update
<1>5. CASE Rejected
  BY <1>0, <1>5 DEF Rejected, config, cache, progress, Idle
<1>6. CASE clear
  <2>1. 0 \in Bytes
    BY PowerPositive DEF ByteSize, Bytes
  <2>2. storage' \in [Addresses -> Bytes] /\ faults' \in 0 .. MaxFaults
    BY <1>0, <1>6, <2>1 DEF clear, HwaFails
  <2> QED BY <1>0, <1>6, <2>2 DEF clear, config, progress, Idle
<1>7. ASSUME NEW b \in DOMAIN layout, NEW f \in InitProviders, NEW s \in DOMAIN layout[b],
             register_layout_init_provider(b, s, f)
      PROVE  <1>1!1
  <2> DEFINE entry == [uid |-> Uid(layout), block |-> b, section |-> s, provider |-> f]
  <2>1. b \in Nat /\ s \in Nat
    <3>1. layout \in Seq(Seq(SectionType))
      BY DEF WellPlaced, LayoutType, SectionType
    <3>2. DOMAIN layout = 1 .. Len(layout) /\ Len(layout) \in Nat /\ layout[b] \in Seq(SectionType)
      BY <3>1, LenProperties, ElementOfSeq
    <3>3. DOMAIN layout[b] = 1 .. Len(layout[b]) /\ Len(layout[b]) \in Nat
      BY <3>2, LenProperties
    <3> QED BY <3>2, <3>3
  <2>2. layout \in Layouts
    BY <1>0
  <2>3. entry \in Registration
    BY <2>1, <2>2 DEF Registration
  <2>4. providers' = Append(providers, entry)
    BY <1>7 DEF register_layout_init_provider
  <2>5. providers' \in Seq(Registration)
    <3> HIDE DEF entry
    <3> QED BY <1>0, <2>3, <2>4, AppendProperties
  <2> QED BY <1>0, <1>7, <2>5 DEF register_layout_init_provider, cache, progress, Idle
<1>8. CASE clear_init_providers
  <2>1. <<>> \in Seq(Registration)
    OBVIOUS
  <2> QED BY <1>0, <1>8, <2>1 DEF clear_init_providers, cache, progress, Idle
<1>9. ASSUME NEW type \in {"Full", "Partial"}, init_data(type)
      PROVE  <1>1!1
  BY <1>0, <1>9 DEF init_data, config, cache, Called
<1>10. CASE InitWrites
  <2> DEFINE q == CHOOSE x \in NextUnit : TRUE
  <2>1. /\ ~Idle /\ NextUnit # {} /\ UNCHANGED <<config, call>>
        /\ \E written \in BOOLEAN :
             /\ write(UnitAddress(q), UnitValue(q), TypeOf(q), written)
             /\ IF written
                THEN cursor' = UnitAddress(q) + 1 /\ UNCHANGED <<reset, answer>>
                ELSE reset' = None /\ cursor' = 0 /\ answer' = FALSE
    BY <1>10 DEF InitWrites
  <2>2. /\ UnitValue(q) \in Nat /\ TypeOf(q) \in Types
        /\ UnitAddress(q) \in Addresses /\ UnitAddress(q) \in Nat
    BY <2>1, NextUnitType
  <2> HIDE DEF q
  <2>3. PICK written \in BOOLEAN :
             /\ write(UnitAddress(q), UnitValue(q), TypeOf(q), written)
             /\ IF written
                THEN cursor' = UnitAddress(q) + 1 /\ UNCHANGED <<reset, answer>>
                ELSE reset' = None /\ cursor' = 0 /\ answer' = FALSE
    BY <2>1
  <2>4. /\ storage' \in [Addresses -> Bytes] /\ faults' \in 0 .. MaxFaults
        /\ lastAddress' = IF UnitAddress(q) = lastAddress THEN INVALID_ADDRESS ELSE lastAddress
        /\ lastValue' = lastValue /\ outlived' = outlived
    BY <2>2, <2>3, WriteLeaves
  <2>5. lastAddress' \in 0 .. INVALID_ADDRESS
    BY <1>0, <2>4 DEF INVALID_ADDRESS
  <2>6. cursor' \in 0 .. AddressCount
    BY <2>2, <2>3 DEF Addresses
  <2> QED BY <1>0, <2>1, <2>3, <2>4, <2>5, <2>6 DEF config, Idle
<1>11. CASE InitDone
  BY <1>0, <1>11 DEF InitDone, config, cache, Idle
<1>12. CASE UNCHANGED vars
  BY <1>0, <1>12 DEF vars, config, cache, progress, Idle
<1> QED BY <1>2, <1>3, <1>4, <1>5, <1>6, <1>7, <1>8, <1>9, <1>10, <1>11, <1>12 DEF Next

\* A write leaves every parameter alone that is not in its byte or its word.
LEMMA ElsewhereStays ==
  ASSUME TypeInv, NEW q \in Parameters, NEW r \in Parameters, NEW a, IsAccess(q, a),
         NEW v, NEW n \in 0 .. Width(TypeOf(q)), storage' = HwaWrite(a, v, n),
         \/ q[1] # r[1] \/ q[2] # r[2]
         \/ TypeOf(r) \in Packed /\ AddressOf(r) # a
         \/ TypeOf(r) \notin Packed /\ q # r
  PROVE  Stored(storage', r) = Stored(storage, r)
<1> WellPlaced
  BY TypeInvPlaces
<1>1. a \in Nat
  BY AccessInside
<1>2. IsAccess(r, AddressOf(r))
  BY DEF IsAccess
<1>3. Width(TypeOf(q)) \in Nat
  BY ParameterType, Units
<1>4. ASSUME NEW x \in Nat, AddressOf(r) <= x, x < AddressOf(r) + Width(TypeOf(r)),
             a <= x, x < a + n
      PROVE  FALSE
  <2>1. x < a + Width(TypeOf(q))
    BY <1>1, <1>3, <1>4
  <2>2. /\ q[1] = r[1] /\ q[2] = r[2] /\ TypeOf(q) = TypeOf(r)
        /\ TypeOf(q) \in Packed => a = AddressOf(r)
        /\ TypeOf(q) \notin Packed => q = r
    BY <1>2, <1>4, <2>1, AccessesMeet
  <2> QED BY <2>2
<1>5. n \in Nat /\ storage \in [Addresses -> Bytes]
  BY <1>3 DEF TypeInv, TypeOK
<1> QED BY <1>1, <1>4, <1>5, UntouchedStays

\* A write of a parameter drops its byte from the cache and leaves the byte
\* alone that is there.
LEMMA CacheWrite ==
  ASSUME TypeInv, CacheIsFresh, NEW q \in Parameters, NEW a, IsAccess(q, a),
         NEW v, NEW n \in 0 .. Width(TypeOf(q)), storage' = HwaWrite(a, v, n),
         lastAddress' = IF a = lastAddress THEN INVALID_ADDRESS ELSE lastAddress,
         lastValue' = lastValue, outlived' = outlived,
         layout' = layout, initialAddress' = initialAddress
  PROVE  CacheIsFresh'
<1> WellPlaced
  BY TypeInvPlaces
<1> SUFFICES ASSUME ~outlived', NEW r \in Parameters', TypeOf(r)' \in Packed,
                    AddressOf(r)' = lastAddress'
             PROVE  lastValue' = storage'[lastAddress']
  BY DEF CacheIsFresh
<1>1. r \in Parameters /\ TypeOf(r) \in Packed /\ AddressOf(r) = lastAddress'
  BY SameLayout
<1>2. AddressOf(r) \in Addresses /\ AddressOf(r) \in Nat /\ AddressOf(r) # INVALID_ADDRESS
  <2>1. AddressOf(r) \in Addresses /\ AddressOf(r) \in Nat
    BY <1>1, AccessInside DEF IsAccess
  <2> QED BY <2>1, LessDbAssumption DEF Addresses, INVALID_ADDRESS
<1>3. a # lastAddress /\ lastAddress' = lastAddress /\ AddressOf(r) = lastAddress
  BY <1>1, <1>2
<1>4. lastValue = storage[lastAddress]
  BY <1>1, <1>3 DEF CacheIsFresh
<1>5. a \in Nat /\ Width(TypeOf(q)) \in Nat /\ TypeOf(r) \in Types
  BY <1>1, AccessInside, ParameterType, Units
<1>6. Width(TypeOf(r)) = 1
  BY <1>1, <1>5, Units
<1>7. ~(lastAddress \in a .. a + n - 1)
  <2> SUFFICES ASSUME lastAddress \in a .. a + n - 1 PROVE FALSE
    OBVIOUS
  <2>1. a <= lastAddress /\ lastAddress < a + Width(TypeOf(q)) /\ lastAddress \in Nat
    BY <1>2, <1>3, <1>5
  <2>2. AddressOf(r) <= lastAddress /\ lastAddress < AddressOf(r) + Width(TypeOf(r))
    BY <1>2, <1>3, <1>6
  <2>3. TypeOf(q) = TypeOf(r) /\ (TypeOf(q) \in Packed => a = AddressOf(r))
    <3>1. IsAccess(r, AddressOf(r))
      BY DEF IsAccess
    <3> QED BY <1>1, <2>1, <2>2, <3>1, AccessesMeet
  <2> QED BY <1>1, <1>3, <2>3
<1>8. storage'[lastAddress] = storage[lastAddress]
  BY <1>2, <1>3, <1>7 DEF HwaWrite
<1> QED BY <1>3, <1>4, <1>8

\* The cache stays fresh when neither it nor the storage changes.
LEMMA CacheKept ==
  ASSUME CacheIsFresh, layout' = layout, initialAddress' = initialAddress,
         storage' = storage, lastAddress' = lastAddress, lastValue' = lastValue,
         outlived' = outlived
  PROVE  CacheIsFresh'
<1> SUFFICES ASSUME ~outlived', NEW r \in Parameters', TypeOf(r)' \in Packed,
                    AddressOf(r)' = lastAddress'
             PROVE  lastValue' = storage'[lastAddress']
  BY DEF CacheIsFresh
<1>1. r \in Parameters /\ TypeOf(r) \in Packed /\ AddressOf(r) = lastAddress'
  BY SameLayout
<1> QED BY <1>1 DEF CacheIsFresh

\* It is fresh at first and with every step.
LEMMA CacheInit == Init => CacheIsFresh
<1> SUFFICES ASSUME Init, NEW q \in Parameters PROVE FALSE
  BY DEF CacheIsFresh
<1>1. layout = <<>>
  BY DEF Init
<1> QED BY <1>1 DEF Parameters

\* Every step keeps the cache fresh.
LEMMA CacheSteps ==
  ASSUME TypeInv, CacheIsFresh, [Next]_vars
  PROVE  CacheIsFresh'
<1> WellPlaced
  BY TypeInvPlaces
<1>1. ASSUME NEW l \in Layouts, NEW a \in StartAddresses, set_layout(l, a)
      PROVE  CacheIsFresh'
  <2>1. CASE outlived'
    BY <2>1 DEF CacheIsFresh
  <2>2. CASE UNCHANGED <<layout, initialAddress, outlived>>
    BY <1>1, <2>2, CacheKept DEF set_layout
  <2> QED BY <1>1, <2>1, <2>2 DEF set_layout
<1>2. ASSUME NEW q \in Parameters, read(q)
      PROVE  CacheIsFresh'
  <2>1. storage' = storage /\ layout' = layout /\ initialAddress' = initialAddress
    BY <1>2 DEF read, config
  <2>2. CASE UNCHANGED cache
    BY <2>1, <2>2, CacheKept DEF cache
  <2>3. CASE /\ lastAddress' = AddressOf(q)
             /\ lastValue' = IF TypeOf(q) \in Packed THEN storage[AddressOf(q)] ELSE lastValue
    <3> SUFFICES ASSUME NEW r \in Parameters', TypeOf(r)' \in Packed,
                        AddressOf(r)' = lastAddress'
                 PROVE  lastValue' = storage'[lastAddress']
      BY DEF CacheIsFresh
    <3>1. r \in Parameters /\ TypeOf(r) \in Packed /\ AddressOf(r) = AddressOf(q)
      BY <2>1, <2>3, SameLayout
    <3>2. /\ IsAccess(r, AddressOf(r)) /\ IsAccess(q, AddressOf(q))
          /\ AddressOf(r) \in Nat /\ AddressOf(q) \in Nat
      <4>1. IsAccess(r, AddressOf(r)) /\ IsAccess(q, AddressOf(q))
        BY DEF IsAccess
      <4> QED BY <3>1, <4>1, AccessInside
    <3>3. Width(TypeOf(q)) \in Nat \ {0} /\ Width(TypeOf(r)) \in Nat \ {0}
      <4>1. TypeOf(q) \in Types /\ TypeOf(r) \in Types
        BY <3>1, ParameterType
      <4> QED BY <4>1, Units
    <3>4. TypeOf(q) = TypeOf(r)
      <4>1. /\ AddressOf(q) <= AddressOf(q) /\ AddressOf(q) < AddressOf(q) + Width(TypeOf(q))
            /\ AddressOf(r) <= AddressOf(q) /\ AddressOf(q) < AddressOf(r) + Width(TypeOf(r))
        BY <3>1, <3>2, <3>3
      <4> QED BY <3>1, <3>2, <4>1, AccessesMeet
    <3> QED BY <2>1, <2>3, <3>1, <3>4
  <2> QED BY <1>2, <2>2, <2>3 DEF read, ReadCached, ReadStorage, ReadFails
<1>3. ASSUME NEW q \in Parameters, NEW v \in NewValues, update(q, v)
      PROVE  CacheIsFresh'
  <2>1. /\ v \in Nat /\ TypeOf(q) \in Types /\ AddressOf(q) \in Nat
        /\ layout' = layout /\ initialAddress' = initialAddress
    <3>1. v \in Nat
      BY LessDbAssumption
    <3> QED BY <1>3, <3>1, ParameterType, AccessInside DEF IsAccess, update, config
  <2>2. Updated(q, v) \in Nat
    BY <2>1, UpdatedType
  <2>3. CASE UpdateFails(q)
    BY <2>1, <2>3, CacheKept DEF UpdateFails, cache
  <2>4. CASE UpdateWrites(q, v)
    <3>1. PICK written \in BOOLEAN : write(AddressOf(q), Updated(q, v), TypeOf(q), written)
      BY <2>4 DEF UpdateWrites
    <3>2. /\ lastAddress' = IF AddressOf(q) = lastAddress THEN INVALID_ADDRESS ELSE lastAddress
          /\ lastValue' = lastValue /\ outlived' = outlived
          /\ \E n \in 0 .. Width(TypeOf(q)) : storage' = HwaWrite(AddressOf(q), Updated(q, v), n)
      BY <2>1, <2>2, <3>1, WriteLeaves
    <3>3. IsAccess(q, AddressOf(q))
      BY DEF IsAccess
    <3> QED BY <2>1, <3>2, <3>3, CacheWrite
  <2> QED BY <1>3, <2>3, <2>4 DEF update
<1>4. CASE Rejected
  BY <1>4, CacheKept DEF Rejected, config, cache
<1>5. CASE clear
  BY <1>5 DEF clear, CacheIsFresh
<1>6. ASSUME NEW b \in DOMAIN layout, NEW f \in InitProviders, NEW s \in DOMAIN layout[b],
             register_layout_init_provider(b, s, f)
      PROVE  CacheIsFresh'
  BY <1>6, CacheKept DEF register_layout_init_provider, cache
<1>7. CASE clear_init_providers
  BY <1>7, CacheKept DEF clear_init_providers, cache
<1>8. ASSUME NEW type \in {"Full", "Partial"}, init_data(type)
      PROVE  CacheIsFresh'
  BY <1>8, CacheKept DEF init_data, config, cache
<1>9. CASE InitWrites
  <2> DEFINE q == CHOOSE x \in NextUnit : TRUE
  <2>1. /\ NextUnit # {} /\ layout' = layout /\ initialAddress' = initialAddress
        /\ \E written \in BOOLEAN :
             write(UnitAddress(q), UnitValue(q), TypeOf(q), written)
    BY <1>9 DEF InitWrites, config
  <2>2. /\ q \in Parameters /\ UnitValue(q) \in Nat /\ TypeOf(q) \in Types
        /\ UnitAddress(q) \in Nat
    BY <2>1, NextUnitType
  <2> HIDE DEF q
  <2>3. PICK written \in BOOLEAN : write(UnitAddress(q), UnitValue(q), TypeOf(q), written)
    BY <2>1
  <2>4. /\ lastAddress' = IF UnitAddress(q) = lastAddress THEN INVALID_ADDRESS ELSE lastAddress
        /\ lastValue' = lastValue /\ outlived' = outlived
        /\ \E n \in 0 .. Width(TypeOf(q)) : storage' = HwaWrite(UnitAddress(q), UnitValue(q), n)
    BY <2>2, <2>3, WriteLeaves
  <2>5. IsAccess(q, UnitAddress(q))
    BY DEF IsAccess
  <2> QED BY <2>1, <2>2, <2>4, <2>5, CacheWrite
<1>10. CASE InitDone
  BY <1>10, CacheKept DEF InitDone, config, cache
<1>11. CASE UNCHANGED vars
  BY <1>11, CacheKept DEF vars, config, cache
<1> QED BY <1>1, <1>2, <1>3, <1>4, <1>5, <1>6, <1>7, <1>8, <1>9, <1>10, <1>11 DEF Next

\* What each call is noted as.
LEMMA CallNoted ==
  /\ \A l, a : set_layout(l, a) => call'.name = "other"
  /\ \A q : read(q) => call'.name = "read"
  /\ \A q, v : update(q, v) => call'.name = "update"
  /\ Rejected => call'.name = "other"
  /\ clear => call'.name = "clear"
  /\ clear_init_providers => call'.name = "other"
  /\ \A b, s, f : register_layout_init_provider(b, s, f) => call'.name = "other"
  /\ \A type : init_data(type) => call'.name = "init_data"
<1>1. \A l, a : set_layout(l, a) => call'.name = "other"
  BY DEF set_layout, Called
<1>2. \A q : read(q) => call'.name = "read"
  BY DEF read, Called
<1>3. \A q, v : update(q, v) => call'.name = "update"
  BY DEF update, Called
<1>4. Rejected => call'.name = "other"
  BY DEF Rejected, Called
<1>5. clear => call'.name = "clear"
  BY DEF clear, Called
<1>6. clear_init_providers => call'.name = "other"
  BY DEF clear_init_providers, Called
<1>7. \A b, s, f : register_layout_init_provider(b, s, f) => call'.name = "other"
  BY DEF register_layout_init_provider, Called
<1>8. \A type : init_data(type) => call'.name = "init_data"
  BY DEF init_data, Called
<1> QED BY <1>1, <1>2, <1>3, <1>4, <1>5, <1>6, <1>7, <1>8

\* What read() answers is what is stored.
LEMMA ReadSteps ==
  ASSUME TypeInv, CacheIsFresh, ReadIsFresh, [Next]_vars
  PROVE  ReadIsFresh'
<1> SUFFICES ASSUME call'.name = "read", answer' # None, ~outlived'
             PROVE  answer' = Stored(storage, call.at)'
  BY DEF ReadIsFresh
<1>1. CASE UNCHANGED vars
  <2>1. /\ layout' = layout /\ initialAddress' = initialAddress /\ storage' = storage
        /\ call' = call /\ answer' = answer /\ outlived' = outlived
    BY <1>1 DEF vars, config, cache
  <2>2. answer = Stored(storage, call.at)
    BY <2>1 DEF ReadIsFresh
  <2> QED BY <2>1, <2>2, SameLayout
<1>2. ASSUME NEW q \in Parameters, read(q)
      PROVE  answer' = Stored(storage, call.at)'
  <2>1. /\ layout' = layout /\ initialAddress' = initialAddress /\ storage' = storage
        /\ call'.at = q
    BY <1>2 DEF read, config, Called
  <2>2. answer' = Stored(storage, q)
    <3>1. CASE ReadCached(q)
      <4>1. /\ TypeOf(q) \in Packed /\ AddressOf(q) = lastAddress /\ ~outlived
            /\ answer' = Field(lastValue, q)
        BY <3>1 DEF ReadCached, cache
      <4>2. lastValue = storage[lastAddress]
        BY <4>1 DEF CacheIsFresh
      <4> QED BY <4>1, <4>2 DEF Stored
    <3>2. CASE ReadStorage(q)
      BY <3>2 DEF ReadStorage
    <3>3. CASE ReadFails(q)
      BY <3>3 DEF ReadFails
    <3> QED BY <1>2, <3>1, <3>2, <3>3 DEF read
  <2> QED BY <2>1, <2>2, SameLayout
<1>3. CASE InitWrites \/ InitDone
  <2>1. ~Idle /\ call' = call
    BY <1>3 DEF InitWrites, InitDone
  <2> QED BY <2>1 DEF TypeInv
<1>4. CASE \/ \E l \in Layouts, a \in StartAddresses : set_layout(l, a)
           \/ \E q \in Parameters, v \in NewValues : update(q, v)
           \/ Rejected \/ clear \/ clear_init_providers
           \/ \E b \in DOMAIN layout, f \in InitProviders : \E s \in DOMAIN layout[b] :
                register_layout_init_provider(b, s, f)
           \/ \E type \in {"Full", "Partial"} : init_data(type)
  <2>1. call'.name \in {"other", "update", "clear", "init_data"}
    BY <1>4, CallNoted
  <2> QED BY <2>1
<1> QED BY <1>1, <1>2, <1>3, <1>4 DEF Next

\* A step of init_data() that succeeds: its unit has its reset values, and what
\* came before keeps them.
LEMMA UnitWritten ==
  ASSUME TypeInv, ResetSoFar, ~Idle, NextUnit # {}, NEW q,
         q = CHOOSE x \in NextUnit : TRUE,
         write(UnitAddress(q), UnitValue(q), TypeOf(q), TRUE),
         NEW r \in Parameters, Fits(r), ~Skipped(r), UnitAddress(r) < UnitAddress(q) + 1
  PROVE  Stored(storage', r) = ResetValue(r)
<1> WellPlaced
  BY TypeInvPlaces
<1> DEFINE a == UnitAddress(q)
           w == Width(TypeOf(q))
<1>1. /\ q \in Parameters /\ ~Skipped(q) /\ UnitAddress(q) >= cursor
      /\ \A s \in Parameters : ~Skipped(s) /\ UnitAddress(s) >= cursor
                                 => UnitAddress(q) <= UnitAddress(s)
      /\ UnitValue(q) \in Nat /\ TypeOf(q) \in Types
      /\ a \in Addresses /\ a \in Nat
  BY NextUnitType
<1>2. storage' = HwaWrite(a, UnitValue(q), w) /\ UnitValue(q) < Power(ByteSize, w)
  <2>1. a \in Nat /\ UnitValue(q) \in Nat /\ TypeOf(q) \in Types /\ TRUE \in BOOLEAN
    BY <1>1
  <2> QED BY <2>1, WriteLeaves
<1>3. /\ IsAccess(q, a) /\ IsAccess(r, UnitAddress(r)) /\ UnitAddress(r) \in Nat
      /\ AddressOf(r) = UnitAddress(r)
  <2>1. IsAccess(q, a) /\ IsAccess(r, UnitAddress(r))
    BY DEF IsAccess
  <2> QED BY <2>1, AccessInside DEF Fits
<1>4. w \in Nat \ {0} /\ w \in 0 .. w /\ (TypeOf(q) \in Packed => w = 1)
  BY <1>1, Units
<1>5. cursor \in Nat
  BY LessDbAssumption DEF TypeInv, TypeOK
<1>6. CASE UnitAddress(r) < a
  <2>1. UnitAddress(r) < cursor
    BY <1>1, <1>3, <1>5, <1>6
  <2>2. Stored(storage, r) = ResetValue(r)
    BY <2>1 DEF ResetSoFar
  <2>3. q # r /\ AddressOf(r) # a
    <3>1. AddressOf(r) \in Nat /\ AddressOf(r) < a /\ UnitAddress(r) < UnitAddress(q)
      BY <1>3, <1>6
    <3>2. a \in Nat /\ UnitAddress(q) = a
      BY <1>1
    <3>3. AddressOf(r) # a
      BY <3>1, <3>2
    <3>4. UnitAddress(r) # UnitAddress(q)
      BY <1>3, <3>1, <3>2
    <3> QED BY <3>3, <3>4
  <2>4. Stored(storage', r) = Stored(storage, r)
    BY <1>1, <1>2, <1>3, <1>4, <2>3, ElsewhereStays
  <2> QED BY <2>2, <2>4
<1>7. CASE UnitAddress(r) = a
  <2>1. /\ q[1] = r[1] /\ q[2] = r[2] /\ TypeOf(q) = TypeOf(r)
        /\ TypeOf(q) \notin Packed => q = r
    <3>1. Width(TypeOf(r)) \in Nat \ {0}
      BY ParameterType, Units
    <3>2. /\ a <= a /\ a < a + Width(TypeOf(q))
          /\ UnitAddress(r) <= a /\ a < UnitAddress(r) + Width(TypeOf(r))
      BY <1>1, <1>4, <1>7, <3>1
    <3> QED BY <1>1, <1>3, <3>2, AccessesMeet
  <2>2. CASE TypeOf(q) \in Packed
    <3>1. /\ UnitValue(q) \in Bytes
          /\ Field(UnitValue(q), r) = ResetValue(r)
      BY <1>1, <1>7, <2>1, <2>2, PackedUnitValue
    <3>2. storage'[a] = UnitValue(q)
      BY <1>1, <1>2, <1>4, <2>2, <3>1, ByteReadsBack
    <3> QED BY <1>3, <1>7, <2>1, <2>2, <3>1, <3>2 DEF Stored
  <2>3. CASE TypeOf(q) \notin Packed
    <3>1. q = r /\ UnitValue(q) = ResetValue(q) /\ a = AddressOf(q)
      BY <1>1, <1>3, <1>7, <2>1, <2>3, WideUnitValue
    <3>2. UnitValue(q) \in 0 .. Power(ByteSize, Width(TypeOf(q))) - 1
      <4>1. Power(ByteSize, w) \in Nat
        BY <1>1, <1>4, Units, PowerPositive
      <4> QED BY <1>1, <1>2, <4>1
    <3>3. Stored(HwaWrite(AddressOf(q), UnitValue(q), Width(TypeOf(q))), q) = UnitValue(q)
      BY <1>1, <2>3, <3>2, WideReadsBack
    <3> QED BY <1>2, <3>1, <3>3
  <2> QED BY <2>2, <2>3
<1>8. UnitAddress(r) < a \/ UnitAddress(r) = a
  BY <1>1, <1>3
<1> QED BY <1>6, <1>7, <1>8

\* Every step of init_data() extends what has been reset.
LEMMA ResetSteps ==
  ASSUME TypeInv, ResetSoFar, [Next]_vars
  PROVE  ResetSoFar'
<1> WellPlaced
  BY TypeInvPlaces
<1> SUFFICES ASSUME ~Idle'
             PROVE  ResetSoFar'
  BY DEF ResetSoFar
<1>1. reset' # None
  BY DEF Idle
<1>2. ASSUME NEW type \in {"Full", "Partial"}, init_data(type)
      PROVE  ResetSoFar'
  <2>1. cursor' = 0 /\ layout' = layout /\ initialAddress' = initialAddress
    BY <1>2 DEF init_data, config
  <2> SUFFICES ASSUME NEW r \in Parameters', UnitAddress(r)' < cursor'
               PROVE  FALSE
    BY DEF ResetSoFar
  <2>2. r \in Parameters /\ UnitAddress(r) < 0
    BY <2>1, SameLayout
  <2>3. UnitAddress(r) \in Nat
    BY <2>2, AccessInside DEF IsAccess
  <2> QED BY <2>2, <2>3
<1>3. CASE InitWrites
  <2> DEFINE q == CHOOSE x \in NextUnit : TRUE
  <2>1. /\ ~Idle /\ NextUnit # {} /\ UNCHANGED <<config, call>>
        /\ \E written \in BOOLEAN :
             /\ write(UnitAddress(q), UnitValue(q), TypeOf(q), written)
             /\ IF written
                THEN cursor' = UnitAddress(q) + 1 /\ UNCHANGED <<reset, answer>>
                ELSE reset' = None /\ cursor' = 0 /\ answer' = FALSE
    BY <1>3 DEF InitWrites
  <2>2. /\ write(UnitAddress(q), UnitValue(q), TypeOf(q), TRUE)
        /\ cursor' = UnitAddress(q) + 1 /\ reset' = reset
    BY <1>1, <2>1
  <2>3. layout' = layout /\ initialAddress' = initialAddress /\ providers' = providers
    BY <2>1 DEF config
  <2> HIDE DEF q
  <2> SUFFICES ASSUME NEW r \in Parameters', Fits(r)', ~Skipped(r)',
                      UnitAddress(r)' < cursor'
               PROVE  Stored(storage, r)' = ResetValue(r)'
    BY DEF ResetSoFar
  <2>4. r \in Parameters /\ Fits(r) /\ ~Skipped(r) /\ UnitAddress(r) < UnitAddress(q) + 1
    BY <2>2, <2>3, SameLayout DEF Fits, Skipped
  <2>5. Stored(storage', r) = ResetValue(r)
    BY <2>1, <2>2, <2>4, UnitWritten DEF q
  <2> QED BY <2>3, <2>5, SameLayout, SameResets
<1>4. CASE UNCHANGED vars
  <2>1. /\ layout' = layout /\ initialAddress' = initialAddress /\ providers' = providers
        /\ storage' = storage /\ reset' = reset /\ cursor' = cursor
    BY <1>4 DEF vars, config, progress
  <2> SUFFICES ASSUME NEW r \in Parameters', Fits(r)', ~Skipped(r)',
                      UnitAddress(r)' < cursor'
               PROVE  Stored(storage, r)' = ResetValue(r)'
    BY DEF ResetSoFar
  <2>2. r \in Parameters /\ Fits(r) /\ ~Skipped(r) /\ UnitAddress(r) < cursor /\ ~Idle
    BY <1>1, <2>1, SameLayout DEF Fits, Skipped, Idle
  <2>3. Stored(storage, r) = ResetValue(r)
    BY <2>2 DEF ResetSoFar
  <2> QED BY <2>1, <2>3, SameLayout, SameResets
<1>5. CASE InitDone
  BY <1>1, <1>5 DEF InitDone
<1>6. CASE \/ \E l \in Layouts, a \in StartAddresses : set_layout(l, a)
           \/ \E q \in Parameters : read(q)
           \/ \E q \in Parameters, v \in NewValues : update(q, v)
           \/ Rejected \/ clear \/ clear_init_providers
           \/ \E b \in DOMAIN layout, f \in InitProviders : \E s \in DOMAIN layout[b] :
                register_layout_init_provider(b, s, f)
  <2>1. reset' = None
    BY <1>6 DEF set_layout, read, update, Rejected, clear, clear_init_providers,
                register_layout_init_provider, Idle, progress
  <2> QED BY <1>1, <2>1
<1> QED BY <1>2, <1>3, <1>4, <1>5, <1>6 DEF Next

\* What update() reports as written is stored.
LEMMA UpdateStores ==
  ASSUME TypeInv, NEW q \in Parameters, NEW v \in Nat,
         write(AddressOf(q), Updated(q, v), TypeOf(q), TRUE)
  PROVE  Stored(storage', q) = Cut(q, v)
<1> WellPlaced
  BY TypeInvPlaces
<1>1. TypeOf(q) \in Types /\ AddressOf(q) \in Nat /\ AddressOf(q) \in Addresses
  BY ParameterType, AccessInside DEF IsAccess
<1>2. storage' = HwaWrite(AddressOf(q), Updated(q, v), Width(TypeOf(q)))
  BY <1>1, WriteLeaves, UpdatedType
<1>3. CASE TypeOf(q) \in Packed
  <2>1. Updated(q, v) \in Bytes /\ Field(Updated(q, v), q) = Cut(q, v)
    BY <1>3, UpdatedType
  <2>2. storage'[AddressOf(q)] = Updated(q, v)
    <3>1. Width(TypeOf(q)) = 1
      BY <1>1, <1>3, Units
    <3> QED BY <1>1, <1>2, <2>1, <3>1, ByteReadsBack
  <2> QED BY <1>3, <2>1, <2>2 DEF Stored
<1>4. CASE TypeOf(q) \notin Packed
  <2>1. /\ Updated(q, v) \in 0 .. Power(ByteSize, Width(TypeOf(q))) - 1
        /\ Updated(q, v) = Cut(q, v)
    BY <1>4, UpdatedType
  <2>2. Stored(HwaWrite(AddressOf(q), Updated(q, v), Width(TypeOf(q))), q) = Updated(q, v)
    BY <1>4, <2>1, WideReadsBack
  <2> QED BY <1>2, <2>1, <2>2
<1> QED BY <1>3, <1>4

\* When init_data() finds no unit left, all are behind its cursor.
LEMMA NothingLeft ==
  ASSUME TypeInv, NextUnit = {}, NEW r \in Parameters, ~Skipped(r)
  PROVE  UnitAddress(r) < cursor
<1> WellPlaced
  BY TypeInvPlaces
<1> DEFINE todo == {q \in Parameters : ~Skipped(q) /\ UnitAddress(q) >= cursor}
           T == {UnitAddress(q) : q \in todo}
<1> SUFFICES ASSUME ~(UnitAddress(r) < cursor) PROVE FALSE
  OBVIOUS
<1>1. \A q \in Parameters : UnitAddress(q) \in Nat
  BY AccessInside DEF IsAccess
<1>2. cursor \in Nat
  BY LessDbAssumption DEF TypeInv, TypeOK
<1>3. r \in todo
  BY <1>1, <1>2
<1>4. T \subseteq Nat /\ T # {}
  BY <1>1, <1>3
<1>5. PICK x \in T : \A y \in T : x <= y
  <2> HIDE DEF T
  <2> QED BY <1>4, LeastNumber
<1>6. PICK q \in todo : x = UnitAddress(q)
  BY <1>5
<1>7. \A s \in todo : UnitAddress(q) <= UnitAddress(s)
  BY <1>5, <1>6
<1>8. q \in NextUnit
  BY <1>6, <1>7 DEF NextUnit
<1> QED BY <1>8

\* A call that succeeds has stored what it was asked to.
LEMMA StoredSteps ==
  ASSUME TypeInv, ResetSoFar, SuccessIsStored, [Next]_vars
  PROVE  SuccessIsStored'
<1> DEFINE Updates == (call.name = "update" /\ answer = TRUE)
                        => Stored(storage, call.at) = Cut(call.at, call.value)
           Resets == (call.name = "init_data" /\ answer = TRUE)
                       => \A q \in Parameters :
                            Fits(q) /\ ~(SectionOf(q).preserve /\ call.value = "Partial")
                              => Stored(storage, q) = ResetValue(q)
<1> SUFFICES Updates' /\ Resets'
  BY DEF SuccessIsStored
<1>0. None # TRUE
  BY LessDbAssumption
<1>1. CASE UNCHANGED vars
  <2>1. /\ layout' = layout /\ initialAddress' = initialAddress /\ providers' = providers
        /\ storage' = storage /\ call' = call /\ answer' = answer
    BY <1>1 DEF vars, config
  <2>2. Updates'
    <3>1. Updates
      BY DEF SuccessIsStored
    <3> QED BY <2>1, <3>1, SameLayout
  <2>3. Resets'
    <3> SUFFICES ASSUME call'.name = "init_data", answer' = TRUE, NEW r \in Parameters',
                        Fits(r)', ~(SectionOf(r)'.preserve /\ call'.value = "Partial")
                 PROVE  Stored(storage, r)' = ResetValue(r)'
      OBVIOUS
    <3>1. r \in Parameters /\ Fits(r) /\ SectionOf(r)' = SectionOf(r)
      BY <2>1, SameLayout DEF Fits
    <3>2. Stored(storage, r) = ResetValue(r)
      BY <2>1, <3>1 DEF SuccessIsStored
    <3> QED BY <2>1, <3>2, SameLayout, SameResets
  <2> QED BY <2>2, <2>3
<1>2. ASSUME NEW q \in Parameters, NEW v \in NewValues, update(q, v)
      PROVE  Updates' /\ Resets'
  <2>1. /\ call'.name = "update" /\ call'.at = q /\ call'.value = v
        /\ layout' = layout /\ initialAddress' = initialAddress /\ v \in Nat
    BY <1>2, LessDbAssumption DEF update, Called, config
  <2>2. ASSUME answer' = TRUE PROVE Stored(storage', q) = Cut(q, v)
    <3>1. write(AddressOf(q), Updated(q, v), TypeOf(q), TRUE)
      BY <1>2, <2>2 DEF update, UpdateWrites, UpdateFails
    <3> QED BY <2>1, <3>1, UpdateStores
  <2>3. Updates'
    BY <2>1, <2>2, SameLayout
  <2> QED BY <2>1, <2>3
<1>3. CASE InitDone
  <2>1. /\ ~Idle /\ NextUnit = {} /\ storage' = storage /\ call' = call
        /\ layout' = layout /\ initialAddress' = initialAddress /\ providers' = providers
    BY <1>3 DEF InitDone, config
  <2>2. call.name = "init_data" /\ call.value = reset
    BY <2>1 DEF TypeInv
  <2>3. Resets'
    <3> SUFFICES ASSUME NEW r \in Parameters',
                        Fits(r)', ~(SectionOf(r)'.preserve /\ call'.value = "Partial")
                 PROVE  Stored(storage, r)' = ResetValue(r)'
      OBVIOUS
    <3>1. r \in Parameters /\ Fits(r) /\ SectionOf(r)' = SectionOf(r)
      BY <2>1, SameLayout DEF Fits
    <3>2. ~Skipped(r)
      BY <2>1, <2>2, <3>1 DEF Skipped
    <3>3. UnitAddress(r) < cursor
      BY <2>1, <3>1, <3>2, NothingLeft
    <3>4. Stored(storage, r) = ResetValue(r)
      BY <2>1, <3>1, <3>2, <3>3 DEF ResetSoFar
    <3> QED BY <2>1, <3>4, SameLayout, SameResets
  <2> QED BY <2>1, <2>2, <2>3
<1>4. CASE InitWrites
  <2>1. ~Idle /\ call' = call /\ (answer' = answer \/ answer' = FALSE)
    BY <1>4 DEF InitWrites
  <2>2. answer = None
    BY <2>1 DEF TypeInv
  <2>3. answer' # TRUE
    BY <1>0, <2>1, <2>2
  <2> QED BY <2>3
<1>5. ASSUME NEW type \in {"Full", "Partial"}, init_data(type)
      PROVE  Updates' /\ Resets'
  <2>1. answer' = None
    BY <1>5 DEF init_data
  <2> QED BY <1>0, <2>1
<1>6. CASE \/ \E l \in Layouts, a \in StartAddresses : set_layout(l, a)
           \/ \E q \in Parameters : read(q)
           \/ Rejected \/ clear \/ clear_init_providers
           \/ \E b \in DOMAIN layout, f \in InitProviders : \E s \in DOMAIN layout[b] :
                register_layout_init_provider(b, s, f)
  <2>1. call'.name \in {"other", "read", "clear"}
    BY <1>6, CallNoted
  <2> QED BY <2>1
<1> QED BY <1>1, <1>2, <1>3, <1>4, <1>5, <1>6 DEF Next

-----------------------------------------------------------------------------
(* Whose change it is.                                                       *)

\* A parameter that changes was asked to.
LEMMA OwnedSteps ==
  ASSUME TypeInv, Next, storage' # storage, NEW r \in Parameters
  PROVE  \/ Stored(storage', r) = Stored(storage, r)
         \/ call'.name = "clear"
         \/ call'.name = "update" /\ Aliases(r, call'.at)
         \/ call'.name = "init_data" /\ ~Skipped(r)
<1> WellPlaced
  BY TypeInvPlaces
<1>1. ASSUME NEW q \in Parameters, NEW v \in NewValues, update(q, v)
      PROVE  Stored(storage', r) = Stored(storage, r) \/ Aliases(r, q)
  <2> SUFFICES ASSUME ~Aliases(r, q) PROVE Stored(storage', r) = Stored(storage, r)
    OBVIOUS
  <2> DEFINE a == AddressOf(q)
             new == Updated(q, v)
  <2>1. /\ v \in Nat /\ TypeOf(q) \in Types /\ a \in Nat /\ a \in Addresses
        /\ q = <<q[1], q[2], q[3]>> /\ r = <<r[1], r[2], r[3]>> /\ r[3] \in Nat
        /\ IsAccess(q, a)
    <3>1. v \in Nat
      BY LessDbAssumption
    <3>2. IsAccess(q, a)
      BY DEF IsAccess
    <3> QED BY <3>1, <3>2, ParameterType, AccessInside
  <2>2. new \in Nat
    BY <2>1, UpdatedType
  <2>3. UpdateWrites(q, v)
    <3>1. ~UpdateFails(q)
      BY DEF UpdateFails
    <3> QED BY <1>1, <3>1 DEF update
  <2>4. PICK written \in BOOLEAN : write(a, new, TypeOf(q), written)
    BY <2>3 DEF UpdateWrites
  <2>5. PICK n \in 0 .. Width(TypeOf(q)) : storage' = HwaWrite(a, new, n)
    BY <2>1, <2>2, <2>4, WriteLeaves
  <2>6. CASE \/ q[1] # r[1] \/ q[2] # r[2]
             \/ TypeOf(r) \in Packed /\ AddressOf(r) # a
             \/ TypeOf(r) \notin Packed /\ q # r
    BY <2>1, <2>5, <2>6, ElsewhereStays
  <2>7. CASE /\ q[1] = r[1] /\ q[2] = r[2]
             /\ TypeOf(r) \in Packed => AddressOf(r) = a
             /\ TypeOf(r) \notin Packed => q = r
    <3>1. TypeOf(r) = TypeOf(q)
      BY <2>7 DEF TypeOf, SectionOf
    <3>2. TypeOf(r) \in Packed
      BY <2>7 DEF Aliases
    <3>3. Place(r) # Place(q)
      BY <2>7, <3>2 DEF Aliases
    <3>4. new \in Bytes /\ Field(new, r) = Field(storage[a], r)
      BY <2>1, <3>1, <3>2, <3>3, UpdatedType
    <3>5. n = 0 \/ n = 1
      <4>1. Width(TypeOf(q)) = 1
        BY <2>1, <3>1, <3>2, Units
      <4> QED BY <4>1
    <3>6. storage'[a] = storage[a] \/ storage'[a] = new
      <4>1. CASE n = 0
        <5>1. ~(a \in a .. a + 0 - 1)
          BY <2>1
        <5> QED BY <2>1, <2>5, <4>1, <5>1 DEF HwaWrite
      <4>2. CASE n = 1
        BY <2>1, <2>5, <3>4, <4>2, ByteReadsBack
      <4> QED BY <3>5, <4>1, <4>2
    <3> QED BY <2>7, <3>2, <3>4, <3>6 DEF Stored
  <2> QED BY <2>6, <2>7
<1>2. CASE InitWrites
  <2> SUFFICES ASSUME Skipped(r) PROVE Stored(storage', r) = Stored(storage, r)
    <3>1. call'.name = "init_data"
      BY <1>2 DEF InitWrites, TypeInv
    <3> QED BY <3>1
  <2> DEFINE q == CHOOSE x \in NextUnit : TRUE
  <2>1. /\ NextUnit # {}
        /\ \E written \in BOOLEAN : write(UnitAddress(q), UnitValue(q), TypeOf(q), written)
    BY <1>2 DEF InitWrites
  <2>2. /\ q \in Parameters /\ ~Skipped(q) /\ UnitValue(q) \in Nat /\ TypeOf(q) \in Types
        /\ UnitAddress(q) \in Nat
    BY <2>1, NextUnitType
  <2> HIDE DEF q
  <2>3. PICK written \in BOOLEAN : write(UnitAddress(q), UnitValue(q), TypeOf(q), written)
    BY <2>1
  <2>4. PICK n \in 0 .. Width(TypeOf(q)) : storage' = HwaWrite(UnitAddress(q), UnitValue(q), n)
    BY <2>2, <2>3, WriteLeaves
  <2>5. q[1] # r[1] \/ q[2] # r[2]
    BY <2>2 DEF Skipped, SectionOf
  <2>6. IsAccess(q, UnitAddress(q))
    BY DEF IsAccess
  <2> QED BY <2>2, <2>4, <2>5, <2>6, ElsewhereStays
<1>3. CASE clear
  BY <1>3, CallNoted
<1>4. CASE \/ \E l \in Layouts, a \in StartAddresses : set_layout(l, a)
           \/ \E q \in Parameters : read(q)
           \/ Rejected \/ clear_init_providers \/ InitDone
           \/ \E b \in DOMAIN layout, f \in InitProviders : \E s \in DOMAIN layout[b] :
                register_layout_init_provider(b, s, f)
           \/ \E type \in {"Full", "Partial"} : init_data(type)
  <2>1. storage' = storage
    BY <1>4 DEF set_layout, read, Rejected, clear_init_providers, InitDone,
                register_layout_init_provider, init_data
  <2> QED BY <2>1
<1>5. ASSUME NEW q \in Parameters, NEW v \in NewValues, update(q, v)
      PROVE  call'.name = "update" /\ call'.at = q
  BY <1>5 DEF update, Called
<1> QED BY <1>1, <1>2, <1>3, <1>4, <1>5 DEF Next

-----------------------------------------------------------------------------
(* The theorems.                                                             *)

Inv == TypeInv /\ CacheIsFresh /\ ResetSoFar /\ ReadIsFresh /\ SuccessIsStored

\* The inductive invariant.
LEMMA InvInit == Init => Inv
<1> SUFFICES ASSUME Init PROVE Inv
  OBVIOUS
<1>1. TypeInv /\ CacheIsFresh
  BY TypeInit, CacheInit
<1>2. Idle /\ call.name = "none"
  BY DEF Init, Idle
<1>3. ResetSoFar
  BY <1>2 DEF ResetSoFar
<1>4. ReadIsFresh /\ SuccessIsStored
  BY <1>2 DEF ReadIsFresh, SuccessIsStored
<1> QED BY <1>1, <1>3, <1>4 DEF Inv

\* Every step keeps the invariant.
LEMMA InvSteps == Inv /\ [Next]_vars => Inv'
<1> SUFFICES ASSUME Inv, [Next]_vars PROVE Inv'
  OBVIOUS
<1>1. TypeInv /\ CacheIsFresh /\ ResetSoFar /\ ReadIsFresh /\ SuccessIsStored
  BY DEF Inv
<1>2. TypeInv'
  BY <1>1, TypeSteps
<1>3. CacheIsFresh'
  BY <1>1, CacheSteps
<1>4. ResetSoFar'
  BY <1>1, ResetSteps
<1>5. ReadIsFresh'
  BY <1>1, ReadSteps
<1>6. SuccessIsStored'
  BY <1>1, StoredSteps
<1> QED BY <1>2, <1>3, <1>4, <1>5, <1>6 DEF Inv

\* Every step keeps what the proofs below need: the types, a fresh cache, and
\* behind the cursor of init_data() only reset values.
THEOREM InvAlways == Spec => []Inv
BY InvInit, InvSteps, PTL DEF Spec

\* Every variable keeps its type in every history of calls: whatever the Hwa
\* refuses or cuts short, the storage holds bytes and set_layout() only accepts
\* a layout that ends inside it.
THEOREM TypeCorrect == Spec => []TypeOK
<1>1. Inv => TypeOK
  BY DEF Inv, TypeInv
<1> QED BY <1>1, InvAlways, PTL

\* read() never answers with a byte older than the storage, unless clear() or
\* set_layout() ran since the cache was filled: update(), write() that fails and
\* init_data() all drop the cached byte they may change, for every layout.
THEOREM ReadsAreFresh == Spec => []ReadIsFresh
<1>1. Inv => ReadIsFresh
  BY DEF Inv
<1> QED BY <1>1, InvAlways, PTL

\* update() that returns true has stored the value cut to its width, and
\* init_data() that returns true has stored the reset value of every parameter
\* it does not preserve, for every width of a byte and every layout.
THEOREM SuccessMeansStored == Spec => []SuccessIsStored
<1>1. Inv => SuccessIsStored
  BY DEF Inv
<1> QED BY <1>1, InvAlways, PTL

\* update() and init_data() change no other parameter than the one asked for,
\* the one array_index mistakes for it, or those a reset does not preserve.
THEOREM OnlyOwnedChange == Spec => ChangesAreOwned
<1>1. Inv /\ [Next]_vars =>
        [storage' # storage
         => \A q \in Parameters :
              \/ Stored(storage', q) = Stored(storage, q)
              \/ call'.name = "clear"
              \/ call'.name = "update" /\ Aliases(q, call'.at)
              \/ call'.name = "init_data" /\ ~Skipped(q)]_vars
  BY OwnedSteps DEF Inv
<1> QED BY <1>1, InvAlways, PTL DEF Spec, ChangesAreOwned

\* Two parameters, read or reset, share an address only if they share the byte
\* of a packed section: what section_address() and the offsets of make_layout()
\* give for any layout that set_layout() accepted.
THEOREM ParametersApart ==
  Spec => [](\A q, r \in Parameters : \A a, c, x \in Nat :
               /\ IsAccess(q, a) /\ a <= x /\ x < a + Width(TypeOf(q))
               /\ IsAccess(r, c) /\ c <= x /\ x < c + Width(TypeOf(r))
               => \/ q = r
                  \/ TypeOf(q) \in Packed /\ q[1] = r[1] /\ q[2] = r[2] /\ a = c)
<1>1. Inv => \A q, r \in Parameters : \A a, c, x \in Nat :
               /\ IsAccess(q, a) /\ a <= x /\ x < a + Width(TypeOf(q))
               /\ IsAccess(r, c) /\ c <= x /\ x < c + Width(TypeOf(r))
               => \/ q = r
                  \/ TypeOf(q) \in Packed /\ q[1] = r[1] /\ q[2] = r[2] /\ a = c
  BY TypeInvPlaces, AccessesMeet DEF Inv
<1> QED BY <1>1, InvAlways, PTL
=============================================================================
