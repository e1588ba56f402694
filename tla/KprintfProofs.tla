----------------------------- MODULE KprintfProofs -----------------------------
(***************************************************************************)
(* What kprintf() prints is what printf() is to print, for every format    *)
(* and all its arguments, and khexdump() prints its table, for memory of   *)
(* any length and content.                                                 *)
(***************************************************************************)
EXTENDS Kprintf, SequenceTheorems, FiniteSetTheorems, WellFoundedInduction, TLAPS

-------------------------------------------------------------------------------
(***************************************************************************)
(* Induction on the natural numbers, which recursive functions are proved  *)
(* by: a set of numbers, not a predicate, is what the induction is about.  *)
(***************************************************************************)

LessThan == {p \in Nat \X Nat : p[1] < p[2]}

\* What holds of 0, and of n + 1 whenever of n, holds of every number: a set
\* of numbers that misses one misses a least one.
LEMMA Induction ==
    ASSUME NEW S, 0 \in S, \A n \in Nat : n \in S => n + 1 \in S
    PROVE  Nat \subseteq S
<1> DEFINE Missed == {n \in Nat : n \notin S}
<1> SUFFICES ASSUME Missed # {} PROVE FALSE
  OBVIOUS
<1>1. IsWellFoundedOn(LessThan, Nat)
  <2>1. LessThan = OpToRel(<, Nat)
    BY DEF LessThan, OpToRel
  <2> QED
    BY <2>1, NatLessThanWellFounded
<1>2. \E x \in Missed : \A y \in Missed : ~(<<y, x>> \in LessThan)
  <2>1. Missed \subseteq Nat
    OBVIOUS
  <2> HIDE DEF Missed
  <2> QED
    BY <1>1, <2>1, WFMin
<1>3. PICK x \in Missed : \A y \in Missed : ~(y < x)
  BY <1>2 DEF LessThan
<1>4. x # 0 /\ x \in Nat
  BY <1>3
<1>5. x - 1 \in Nat /\ x - 1 < x
  BY <1>4
<1>6. x - 1 \in S
  BY <1>3, <1>5
<1> QED
  BY <1>3, <1>5, <1>6


\* Functions defined by recursion on the numbers exist.
Recurs(f, X, b, step) ==
    /\ f \in [Nat -> X]
    /\ f[0] = b
    /\ \A n \in Nat : f[n + 1] = step[n][f[n]]

\* A function with a given first value and a given step exists.
LEMMA Recursion ==
    ASSUME NEW X, NEW b \in X, NEW step \in [Nat -> [X -> X]]
    PROVE  \E f : Recurs(f, X, b, step)
<1> DEFINE Goes(g, n) == /\ g \in [0 .. n -> X] /\ g[0] = b
                         /\ \A k \in 0 .. (n - 1) : g[k + 1] = step[k][g[k]]
<1>1. \A n \in Nat : \E g : Goes(g, n)
  <2> DEFINE S == {n \in Nat : \E g : Goes(g, n)}
  <2>1. 0 \in S
    <3>1. Goes([k \in 0 .. 0 |-> b], 0)
      OBVIOUS
    <3> QED
      BY <3>1
  <2>2. ASSUME NEW n \in Nat, n \in S
        PROVE  n + 1 \in S
    <3>1. PICK g : Goes(g, n)
      BY <2>2
    <3> DEFINE h == [k \in 0 .. (n + 1) |-> IF k = n + 1 THEN step[n][g[n]] ELSE g[k]]
    <3>2. g[n] \in X /\ step[n][g[n]] \in X
      BY <3>1
    <3>3. h \in [0 .. (n + 1) -> X] /\ h[0] = b
      BY <3>1, <3>2
    <3>4. ASSUME NEW k \in 0 .. n
          PROVE  h[k + 1] = step[k][h[k]]
      BY <3>1, <3>4
    <3>5. (n + 1) - 1 = n
      OBVIOUS
    <3>6. Goes(h, n + 1)
      BY <3>3, <3>4, <3>5
    <3> HIDE DEF Goes, h
    <3> QED
      BY <3>6
  <2> HIDE DEF S
  <2>3. Nat \subseteq S
    BY <2>1, <2>2, Induction
  <2> QED
    BY <2>3 DEF S
<1>2. ASSUME NEW m \in Nat, NEW n \in Nat, NEW g, NEW h, Goes(g, m), Goes(h, n)
      PROVE  \A k \in Nat : k <= m /\ k <= n => g[k] = h[k]
  <2> DEFINE S == {k \in Nat : k <= m /\ k <= n => g[k] = h[k]}
  <2>1. 0 \in S
    BY <1>2
  <2>2. ASSUME NEW k \in Nat, k \in S
        PROVE  k + 1 \in S
    <3>1. CASE k + 1 <= m /\ k + 1 <= n
      <4>1. k \in 0 .. (m - 1) /\ k \in 0 .. (n - 1) /\ g[k] = h[k]
        BY <2>2, <3>1
      <4> QED
        BY <1>2, <4>1
    <3> QED
      BY <3>1
  <2> HIDE DEF S
  <2>3. Nat \subseteq S
    BY <2>1, <2>2, Induction
  <2> QED
    BY <2>3 DEF S
<1> DEFINE G(n) == CHOOSE g : Goes(g, n)
           f == [n \in Nat |-> G(n)[n]]
<1>3. \A n \in Nat : Goes(G(n), n)
  BY <1>1
<1> HIDE DEF G
<1>4. f \in [Nat -> X] /\ f[0] = b
  BY <1>3
<1>5. ASSUME NEW n \in Nat
      PROVE  f[n + 1] = step[n][f[n]]
  <2>1. n \in 0 .. ((n + 1) - 1)
    OBVIOUS
  <2>2. G(n + 1)[n + 1] = step[n][G(n + 1)[n]]
    BY <1>3, <2>1
  <2>3. Goes(G(n), n) /\ Goes(G(n + 1), n + 1)
    BY <1>3
  <2> HIDE DEF Goes
  <2>4. G(n + 1)[n] = G(n)[n]
    BY <1>2, <2>3
  <2> QED
    BY <2>2, <2>4
<1>6. Recurs(f, X, b, step)
  BY <1>4, <1>5 DEF Recurs
<1> QED
  BY <1>6

\* The equations of Power(), for exponents of any size.
LEMMA Powers ==
    ASSUME NEW base \in Nat \ {0, 1}
    PROVE  /\ Power(base, 0) = 1
           /\ \A n \in Nat : /\ Power(base, n) \in Nat \ {0}
                             /\ Power(base, n + 1) = base * Power(base, n)
<1> DEFINE Even(p) == [k \in Nat |-> IF k = 0 THEN 1 ELSE base * p[k - 1]]
           P == CHOOSE p : p = Even(p)
<1>1. \E p : p = Even(p)
  <2> DEFINE X == Nat \ {0}
             step == [n \in Nat |-> [x \in X |-> base * x]]
  <2>1. \A x \in X : base * x \in X
    OBVIOUS
  <2>2. step \in [Nat -> [X -> X]] /\ 1 \in X
    BY <2>1
  <2> HIDE DEF X, step
  <2>3. PICK f : Recurs(f, X, 1, step)
    BY <2>2, Recursion
  <2>4. \A n \in Nat : f[n + 1] = base * f[n]
    BY <2>3 DEF step, Recurs
  <2>5. ASSUME NEW k \in Nat \ {0}
        PROVE  f[k] = base * f[k - 1]
    <3>1. k - 1 \in Nat /\ (k - 1) + 1 = k
      OBVIOUS
    <3> QED
      BY <2>4, <3>1
  <2>6. f = Even(f)
    BY <2>3, <2>5 DEF Recurs
  <2> QED
    BY <2>6
<1>2. P = Even(P)
  BY <1>1
<1>3. \A n \in Nat : Power(base, n) = P[n]
  BY DEF Power
<1> HIDE DEF P
<1>4. P[0] = 1
  BY <1>2
<1>5. \A n \in Nat : P[n + 1] = base * P[n]
  BY <1>2
<1>6. \A n \in Nat : P[n] \in Nat \ {0}
  <2> DEFINE S == {n \in Nat : P[n] \in Nat \ {0}}
  <2>1. 0 \in S
    BY <1>4
  <2>2. ASSUME NEW n \in Nat, n \in S
        PROVE  n + 1 \in S
    BY <1>5, <2>2
  <2> HIDE DEF S
  <2>3. Nat \subseteq S
    BY <2>1, <2>2, Induction
  <2> QED
    BY <2>3 DEF S
<1> QED
  BY <1>3, <1>4, <1>5, <1>6

-------------------------------------------------------------------------------
(***************************************************************************)
(* Division, powers, and how many digits a number has.                     *)
(***************************************************************************)

\* What quotient and remainder are, in a form that the provers can use.
LEMMA Division ==
    ASSUME NEW a \in Nat, NEW m \in Nat \ {0}
    PROVE  /\ a \div m \in Nat /\ a % m \in 0 .. (m - 1)
           /\ a = m * (a \div m) + (a % m)
<1> DEFINE d == a \div m
           r == a % m
<1>1. d \in Nat /\ r \in 0 .. (m - 1) /\ a = m * d + r
  OBVIOUS
<1> QED
  BY <1>1

LEMMA DivisionIsUnique ==
    ASSUME NEW m \in Nat \ {0}, NEW q1 \in Nat, NEW q2 \in Nat,
           NEW r1 \in 0 .. (m - 1), NEW r2 \in 0 .. (m - 1),
           m * q1 + r1 = m * q2 + r2
    PROVE  q1 = q2 /\ r1 = r2
<1>1. ASSUME NEW x \in Nat, NEW y \in Nat, x < y
      PROVE  m * x + m <= m * y
  <2>1. m * (x + 1) <= m * y
    BY <1>1
  <2>2. m * (x + 1) = m * x + m
    OBVIOUS
  <2> QED
    BY <2>1, <2>2
<1>2. m * q1 \in Nat /\ m * q2 \in Nat
  OBVIOUS
<1>3. ~(q1 < q2)
  BY <1>1, <1>2
<1>4. ~(q2 < q1)
  BY <1>1, <1>2
<1> QED
  BY <1>2, <1>3, <1>4

\* Dividing by a product is dividing twice.
LEMMA DivideTwice ==
    ASSUME NEW a \in Nat, NEW b \in Nat \ {0}, NEW d \in Nat \ {0}
    PROVE  a \div (b * d) = (a \div b) \div d
<1> DEFINE q == a \div b
           r == a % b
           u == q \div d
           v == q % d
           x == a \div (b * d)
           y == a % (b * d)
<1>1. /\ q \in Nat /\ r \in 0 .. (b - 1) /\ a = b * q + r
      /\ u \in Nat /\ v \in 0 .. (d - 1) /\ q = d * u + v
  BY Division
<1>2. b * d \in Nat \ {0}
  OBVIOUS
<1>3. x \in Nat /\ y \in 0 .. (b * d - 1) /\ a = (b * d) * x + y
  BY <1>2, Division
<1> HIDE DEF q, r, u, v, x, y
<1>4. b * q = (b * d) * u + b * v
  BY <1>1
<1>5. b * v \in Nat /\ b * v + b <= b * d
  <2>1. b * (v + 1) <= b * d
    BY <1>1
  <2>2. b * (v + 1) = b * v + b
    BY <1>1
  <2>3. b * v \in Nat /\ b * d \in Nat
    BY <1>1
  <2> QED
    BY <2>1, <2>2, <2>3
<1> DEFINE w == b * v + r
<1>6. w \in 0 .. (b * d - 1)
  BY <1>1, <1>2, <1>5
<1>7. a = (b * d) * u + w
  <2>1. (b * d) * u \in Nat
    BY <1>1, <1>2
  <2> QED
    BY <1>1, <1>4, <1>5, <2>1
<1> HIDE DEF w
<1>8. x = u
  <2> DEFINE m == b * d
  <2>1. /\ m \in Nat \ {0} /\ x \in Nat /\ u \in Nat
        /\ y \in 0 .. (m - 1) /\ w \in 0 .. (m - 1)
        /\ m * x + y = m * u + w
    BY <1>1, <1>2, <1>3, <1>6, <1>7
  <2> HIDE DEF m
  <2> QED
    BY <2>1, DivisionIsUnique
<1> QED
  BY <1>8 DEF x, u, q


\* Whether a quotient reaches a number is whether the dividend reaches its
\* multiple.
LEMMA QuotientReaches ==
    ASSUME NEW v \in Nat, NEW m \in Nat \ {0}, NEW x \in Nat
    PROVE  x <= v \div m <=> m * x <= v
<1> DEFINE q == v \div m
           r == v % m
<1>1. q \in Nat /\ r \in 0 .. (m - 1) /\ v = m * q + r
  BY Division
<1> HIDE DEF q, r
<1>2. m * q \in Nat /\ m * x \in Nat
  BY <1>1
<1>3. ASSUME x <= q
      PROVE  m * x <= v
  <2>1. m * x <= m * q
    BY <1>1, <1>3
  <2> QED
    BY <1>1, <1>2, <2>1
<1>4. ASSUME ~(x <= q)
      PROVE  ~(m * x <= v)
  <2>1. m * (q + 1) <= m * x
    BY <1>1, <1>4
  <2>2. m * (q + 1) = m * q + m
    BY <1>1
  <2> QED
    BY <1>1, <1>2, <2>1, <2>2
<1>5. x <= q <=> m * x <= v
  BY <1>3, <1>4
<1> QED
  BY <1>5 DEF q

LEMMA PowersGrow ==
    ASSUME NEW base \in Nat \ {0, 1}
    PROVE  /\ \A m, n \in Nat : m <= n => Power(base, m) <= Power(base, n)
           /\ \A n \in Nat : n < Power(base, n)
<1> DEFINE P(n) == Power(base, n)
<1>0. /\ P(0) = 1
      /\ \A n \in Nat : P(n) \in Nat \ {0} /\ P(n + 1) = base * P(n)
  BY Powers
<1> HIDE DEF P
<1>1. \A n \in Nat : P(n + 1) >= P(n) + P(n)
  <2>1. ASSUME NEW p \in Nat
        PROVE  base * p >= p + p
    <3>1. base * p >= 2 * p
      OBVIOUS
    <3> QED
      BY <3>1
  <2> QED
    BY <1>0, <2>1
<1>2. \A m, n \in Nat : m <= n => P(m) <= P(n)
  <2> DEFINE S == {n \in Nat : \A m \in Nat : m <= n => P(m) <= P(n)}
  <2>1. 0 \in S
    BY <1>0
  <2>2. ASSUME NEW n \in Nat, n \in S
        PROVE  n + 1 \in S
    <3>1. ASSUME NEW m \in Nat, m <= n + 1
          PROVE  P(m) <= P(n + 1)
      <4>1. CASE m = n + 1
        BY <1>0, <4>1
      <4>2. CASE m <= n
        BY <1>0, <1>1, <2>2, <4>2
      <4> QED
        BY <3>1, <4>1, <4>2
    <3> QED
      BY <3>1
  <2> HIDE DEF S
  <2>3. Nat \subseteq S
    BY <2>1, <2>2, Induction
  <2> QED
    BY <2>3 DEF S
<1>3. \A n \in Nat : n < P(n)
  <2> DEFINE S == {n \in Nat : n < P(n)}
  <2>1. 0 \in S
    BY <1>0
  <2>2. ASSUME NEW n \in Nat, n \in S
        PROVE  n + 1 \in S
    BY <1>0, <1>1, <2>2
  <2> HIDE DEF S
  <2>3. Nat \subseteq S
    BY <2>1, <2>2, Induction
  <2> QED
    BY <2>3 DEF S
<1> QED
  BY <1>2, <1>3 DEF P

\* A number has l digits; zero has none.
HasDigits(base, v, l) ==
    /\ l \in Nat
    /\ v < Power(base, l)
    /\ l = 0 \/ Power(base, l - 1) <= v

\* Every number has a number of digits, and (DigitsUnique) only one.
LEMMA DigitsExist ==
    ASSUME NEW base \in Nat \ {0, 1}, NEW v \in Nat
    PROVE  \E l : HasDigits(base, v, l)
<1> DEFINE S == {n \in Nat : Power(base, n) <= v \/ \E l : HasDigits(base, v, l)}
<1>1. 0 \in S
  <2>1. Power(base, 0) = 1
    BY Powers
  <2>2. v < 1 => HasDigits(base, v, 0)
    BY <2>1 DEF HasDigits
  <2> QED
    BY <2>1, <2>2
<1>2. ASSUME NEW n \in Nat, n \in S
      PROVE  n + 1 \in S
  <2>1. CASE Power(base, n) <= v /\ ~(Power(base, n + 1) <= v)
    <3>1. Power(base, n + 1) \in Nat /\ (n + 1) - 1 = n /\ n + 1 \in Nat
      BY Powers
    <3>2. HasDigits(base, v, n + 1)
      BY <2>1, <3>1 DEF HasDigits
    <3> QED
      BY <3>1, <3>2
  <2> QED
    BY <1>2, <2>1
<1> HIDE DEF S
<1>3. Nat \subseteq S
  BY <1>1, <1>2, Induction
<1>4. v \in S
  BY <1>3
<1>5. v < Power(base, v) /\ Power(base, v) \in Nat
  BY Powers, PowersGrow
<1>6. ~(Power(base, v) <= v)
  BY <1>5
<1> QED
  BY <1>4, <1>6 DEF S

LEMMA DigitsUnique ==
    ASSUME NEW base \in Nat \ {0, 1}, NEW v \in Nat, NEW l, NEW m,
           HasDigits(base, v, l), HasDigits(base, v, m)
    PROVE  l = m
<1>1. ASSUME NEW a, NEW b, HasDigits(base, v, a), HasDigits(base, v, b), a < b
      PROVE  FALSE
  <2>1. a \in Nat /\ b \in Nat /\ b - 1 \in Nat /\ a <= b - 1 /\ b # 0
    BY <1>1 DEF HasDigits
  <2>2. Power(base, a) <= Power(base, b - 1)
    BY <2>1, PowersGrow
  <2>3. Power(base, a) \in Nat /\ Power(base, b - 1) \in Nat
    BY <2>1, Powers
  <2>4. v < Power(base, a) /\ Power(base, b - 1) <= v
    BY <1>1, <2>1 DEF HasDigits
  <2> QED
    BY <2>2, <2>3, <2>4
<1>2. l \in Nat /\ m \in Nat
  BY DEF HasDigits
<1>3. ~(l < m) /\ ~(m < l)
  BY <1>1
<1> QED
  BY <1>2, <1>3

\* Dividing by the base takes the last digit off.
LEMMA OneDigitLess ==
    ASSUME NEW base \in Nat \ {0, 1}, NEW v \in Nat \ {0}, NEW l,
           HasDigits(base, v \div base, l)
    PROVE  HasDigits(base, v, l + 1)
<1> DEFINE q == v \div base
<1>1. q \in Nat /\ l \in Nat /\ (l + 1) - 1 = l
  <2>1. base \in Nat \ {0} /\ v \in Nat
    OBVIOUS
  <2>2. l \in Nat
    BY DEF HasDigits
  <2>3. q \in Nat
    BY <2>1, Division
  <2>4. (l + 1) - 1 = l
    BY <2>2
  <2> QED
    BY <2>2, <2>3, <2>4
<1>2. Power(base, l) \in Nat /\ Power(base, l + 1) \in Nat
  BY <1>1, Powers
<1>3. Power(base, l + 1) = base * Power(base, l)
  BY <1>1, Powers
<1>4. v < Power(base, l + 1)
  <2>1. q < Power(base, l)
    BY DEF HasDigits
  <2>2. ~(Power(base, l) <= q)
    BY <1>1, <1>2, <2>1
  <2>3. ~(base * Power(base, l) <= v)
    BY <1>2, <2>2, QuotientReaches
  <2> QED
    BY <1>2, <1>3, <2>3
<1>5. Power(base, l) <= v
  <2>1. CASE l = 0
    BY <2>1, Powers
  <2>2. CASE l # 0
    <3>1. l - 1 \in Nat /\ (l - 1) + 1 = l
      BY <1>1, <2>2
    <3>2. Power(base, l) = base * Power(base, l - 1) /\ Power(base, l - 1) \in Nat
      BY <3>1, Powers
    <3>3. Power(base, l - 1) <= q
      BY <2>2 DEF HasDigits
    <3> QED
      BY <3>2, <3>3, QuotientReaches
  <2> QED
    BY <2>1, <2>2
<1> QED
  BY <1>1, <1>4, <1>5 DEF HasDigits

-------------------------------------------------------------------------------
(***************************************************************************)
(* The digits that itoa() takes off a number, one after the other from the *)
(* last, are its digits by their places.                                   *)
(***************************************************************************)

NumDigits(base, v) == CHOOSE l : HasDigits(base, v, l)

\* So NumDigits() is the number of digits.
LEMMA NumDigitsIs ==
    ASSUME NEW base \in Nat \ {0, 1}, NEW v \in Nat
    PROVE  /\ HasDigits(base, v, NumDigits(base, v))
           /\ \A l : HasDigits(base, v, l) => l = NumDigits(base, v)
<1>1. HasDigits(base, v, NumDigits(base, v))
  BY DigitsExist DEF NumDigits
<1> QED
  BY <1>1, DigitsUnique

\* The table of the digits has those of C, letters in capitals.
LEMMA DigitCharIs == \A k \in 0 .. 15 : DigitChar(k) = bchars[k]
BY DEF DigitChar, DigitChars, bchars, Zero

LEMMA DigitCharType == \A k \in 0 .. 15 : DigitChar(k) \in Nat
BY DigitCharIs DEF bchars, Zero

\* What a digit's place in a number is worth does not depend on how the
\* digits before it were taken off.
Digit(base, v, p) == DigitChar((v \div Power(base, p)) % base)

LEMMA DigitType ==
    ASSUME NEW base \in 2 .. 16, NEW v \in Nat, NEW p \in Nat
    PROVE  Digit(base, v, p) \in Nat
<1>1. base \in Nat \ {0, 1} /\ base \in Nat \ {0} /\ base <= 16
  OBVIOUS
<1>2. Power(base, p) \in Nat \ {0}
  BY <1>1, Powers
<1>3. v \div Power(base, p) \in Nat
  BY <1>2, Division
<1>4. (v \div Power(base, p)) % base \in 0 .. (base - 1)
  BY <1>1, <1>3, Division
<1>5. 0 .. (base - 1) \subseteq 0 .. 15
  BY <1>1
<1> QED
  BY <1>4, <1>5, DigitCharType DEF Digit

\* Dividing by the base takes the last digit off and leaves the others.
LEMMA DigitOfQuotient ==
    ASSUME NEW base \in Nat \ {0, 1}, NEW v \in Nat, NEW p \in Nat
    PROVE  Digit(base, v \div base, p) = Digit(base, v, p + 1)
<1>1. Power(base, p) \in Nat \ {0} /\ Power(base, p + 1) = base * Power(base, p)
  BY Powers
<1>2. base \in Nat \ {0}
  OBVIOUS
<1>3. v \div (base * Power(base, p)) = (v \div base) \div Power(base, p)
  BY <1>1, <1>2, DivideTwice
<1> QED
  BY <1>1, <1>3, Zenon DEF Digit

LEMMA LastDigit ==
    ASSUME NEW base \in 2 .. 16, NEW v \in Nat
    PROVE  Digit(base, v, 0) = bchars[v % base]
<1>1. Power(base, 0) = 1
  <2>1. base \in Nat \ {0, 1}
    OBVIOUS
  <2> QED
    BY <2>1, Powers
<1>2. v \div 1 = v
  OBVIOUS
<1>3. v % base \in 0 .. 15
  <2>1. base \in Nat \ {0} /\ base <= 16
    OBVIOUS
  <2>2. v % base \in 0 .. (base - 1)
    BY <2>1, Division
  <2> QED
    BY <2>1, <2>2
<1>4. Digit(base, v, 0) = DigitChar(v % base)
  BY <1>1, <1>2 DEF Digit
<1> QED
  BY <1>3, <1>4, DigitCharIs

\* The digits as tbuf gets them.
LowDigits(base, v) == [k \in 1 .. NumDigits(base, v) |-> Digit(base, v, k - 1)]

LEMMA LowDigitsType ==
    ASSUME NEW base \in 2 .. 16, NEW v \in Nat
    PROVE  /\ LowDigits(base, v) \in Seq(Nat)
           /\ Len(LowDigits(base, v)) = NumDigits(base, v)
           /\ NumDigits(base, v) \in Nat
<1> DEFINE n == NumDigits(base, v)
<1>1. base \in Nat \ {0, 1}
  OBVIOUS
<1>2. n \in Nat
  BY <1>1, NumDigitsIs DEF HasDigits
<1>3. \A k \in 1 .. n : k - 1 \in Nat
  BY <1>2
<1>4. \A k \in 1 .. n : Digit(base, v, k - 1) \in Nat
  BY <1>3, DigitType
<1> HIDE DEF n
<1>5. [k \in 1 .. n |-> Digit(base, v, k - 1)] \in Seq(Nat)
  BY <1>2, <1>4
<1>6. Len([k \in 1 .. n |-> Digit(base, v, k - 1)]) = n
  BY <1>2
<1> QED
  BY <1>2, <1>5, <1>6 DEF LowDigits, n

\* The digits from the last one on meet the equation of the loop of itoa().
LEMMA LowDigitsRecursion ==
    ASSUME NEW base \in 2 .. 16, NEW v \in Nat
    PROVE  LowDigits(base, v) =
               IF v = 0 THEN <<>>
               ELSE << bchars[v % base] >> \o LowDigits(base, v \div base)
<1>1. base \in Nat \ {0, 1} /\ base \in Nat \ {0}
  OBVIOUS
<1>2. CASE v = 0
  <2>1. Power(base, 0) = 1
    BY <1>1, Powers
  <2>2. HasDigits(base, 0, 0)
    BY <2>1 DEF HasDigits
  <2>3. NumDigits(base, v) = 0
    BY <1>1, <1>2, <2>2, NumDigitsIs
  <2>4. LowDigits(base, v) \in Seq(Nat) /\ Len(LowDigits(base, v)) = 0
    BY <2>3, LowDigitsType
  <2>5. LowDigits(base, v) = <<>>
    BY <2>4, EmptySeq
  <2> QED
    BY <1>2, <2>5
<1>3. CASE v # 0
  <2> DEFINE q == v \div base
             rest == LowDigits(base, q)
             all == LowDigits(base, v)
             n == NumDigits(base, q)
             joined == << bchars[v % base] >> \o rest
  <2>1. q \in Nat
    BY <1>1, Division
  <2>2. HasDigits(base, q, n)
    BY <1>1, <2>1, NumDigitsIs
  <2>3. NumDigits(base, v) = n + 1
    <3>1. HasDigits(base, v, n + 1)
      BY <1>1, <1>3, <2>2, OneDigitLess
    <3> QED
      BY <1>1, <3>1, NumDigitsIs
  <2>4. n \in Nat /\ rest \in Seq(Nat) /\ Len(rest) = n
    BY <2>1, LowDigitsType
  <2>5. all \in Seq(Nat) /\ Len(all) = n + 1
    BY <2>3, LowDigitsType
  <2>6. bchars[v % base] \in Nat
    <3>1. 0 \in Nat
      OBVIOUS
    <3> QED
      BY <1>1, <3>1, LastDigit, DigitType
  <2>7. \A k \in 1 .. n : rest[k] = Digit(base, q, k - 1)
    BY <2>4 DEF LowDigits
  <2>8. \A k \in 1 .. (n + 1) : all[k] = Digit(base, v, k - 1)
    BY <2>3 DEF LowDigits
  <2> HIDE DEF q, rest, all, n
  <2>9. /\ << bchars[v % base] >> \in Seq(Nat) /\ Len(<< bchars[v % base] >>) = 1
        /\ << bchars[v % base] >>[1] = bchars[v % base]
    BY <2>6
  <2>10. /\ joined \in Seq(Nat) /\ Len(joined) = n + 1
         /\ joined[1] = bchars[v % base]
         /\ \A k \in 2 .. (n + 1) : joined[k] = rest[k - 1]
    <3> DEFINE one == << bchars[v % base] >>
    <3>1. one \in Seq(Nat) /\ Len(one) = 1 /\ one[1] = bchars[v % base]
      BY <2>9
    <3> HIDE DEF one
    <3>2. /\ one \o rest \in Seq(Nat)
          /\ Len(one \o rest) = Len(one) + Len(rest)
          /\ \A k \in 1 .. (Len(one) + Len(rest)) :
                (one \o rest)[k] = IF k <= Len(one) THEN one[k] ELSE rest[k - Len(one)]
      BY <2>4, <3>1, ConcatProperties
    <3>3. Len(one \o rest) = n + 1
      BY <2>4, <3>1, <3>2
    <3>4. /\ 1 \in 1 .. (1 + n)
          /\ \A k \in 2 .. (n + 1) : k \in 1 .. (1 + n) /\ ~(k <= 1)
      BY <2>4
    <3>5. (one \o rest)[1] = bchars[v % base]
      BY <2>4, <3>1, <3>2, <3>4
    <3>6. \A k \in 2 .. (n + 1) : (one \o rest)[k] = rest[k - 1]
      BY <2>4, <3>1, <3>2, <3>4
    <3> QED
      BY <3>2, <3>3, <3>5, <3>6 DEF one
  <2> HIDE DEF joined
  <2>11. ASSUME NEW k \in 1 .. (n + 1)
         PROVE  all[k] = joined[k]
    <3>1. CASE k = 1
      <4>1. all[1] = Digit(base, v, 0)
        BY <2>8, <3>1
      <4> QED
        BY <1>1, <2>10, <3>1, <4>1, LastDigit
    <3>2. CASE k # 1
      <4>1. /\ k \in 2 .. (n + 1) /\ k - 1 \in 1 .. n
            /\ (k - 1) - 1 \in Nat /\ ((k - 1) - 1) + 1 = k - 1
        BY <2>4, <3>2
      <4>2. joined[k] = Digit(base, q, (k - 1) - 1)
        BY <2>7, <2>10, <4>1
      <4>3. Digit(base, q, (k - 1) - 1) = Digit(base, v, ((k - 1) - 1) + 1)
        BY <1>1, <4>1, DigitOfQuotient DEF q
      <4> QED
        BY <2>8, <4>1, <4>2, <4>3
    <3> QED
      BY <3>1, <3>2
  <2>12. all = joined
    BY <2>5, <2>10, <2>11, SeqEqual
  <2> QED
    BY <1>3, <2>12 DEF all, joined, rest, q
<1> QED
  BY <1>2, <1>3

\* itoa() puts the digits into tbuf, the last one first, and reverses them.
LEMMA ItoaReverses ==
    ASSUME NEW base \in 2 .. 16, NEW v \in Nat
    PROVE  itoa(v, base) = IF v = 0 THEN << Zero >> ELSE Reverse(LowDigits(base, v))
<1> DEFINE Fills(t) == [n \in Nat |-> IF n = 0 THEN <<>>
                                      ELSE << bchars[n % base] >> \o t[n \div base]]
           tbuf == CHOOSE t : t = Fills(t)
           low == [n \in Nat |-> LowDigits(base, n)]
<1>1. \A n \in Nat : n \div base \in Nat /\ (n # 0 => n \div base < n)
  <2>1. ASSUME NEW n \in Nat
        PROVE  n \div base \in Nat /\ (n # 0 => n \div base < n)
    <3>1. base \in Nat \ {0} /\ base >= 2
      OBVIOUS
    <3> DEFINE q == n \div base
               r == n % base
    <3>2. q \in Nat /\ r \in Nat /\ n = base * q + r
      <4>1. q \in Nat /\ r \in 0 .. (base - 1) /\ n = base * q + r
        BY <3>1, Division
      <4> QED
        BY <3>1, <4>1
    <3> HIDE DEF q, r
    <3>3. base * q >= q + q /\ base * q \in Nat
      <4>1. base * q >= 2 * q
        BY <3>1, <3>2
      <4> QED
        BY <3>1, <3>2, <4>1
    <3>4. q \in Nat /\ (n # 0 => q < n)
      BY <3>2, <3>3
    <3> QED
      BY <3>4 DEF q
  <2> QED
    BY <2>1
<1>2. low = Fills(low)
  <2>1. \A n \in Nat : low[n] = IF n = 0 THEN <<>>
                                ELSE << bchars[n % base] >> \o low[n \div base]
    BY <1>1, LowDigitsRecursion
  <2> HIDE DEF low
  <2>2. low = [n \in Nat |-> low[n]]
    BY DEF low
  <2> QED
    BY <2>1, <2>2
<1>3. tbuf = Fills(tbuf)
  BY <1>2
<1> HIDE DEF tbuf
<1>4. \A n \in Nat : tbuf[n] = LowDigits(base, n)
  <2> DEFINE S == {n \in Nat : \A m \in 0 .. n : tbuf[m] = LowDigits(base, m)}
  <2>1. 0 \in S
    <3>1. tbuf[0] = <<>>
      BY <1>3
    <3>2. LowDigits(base, 0) = <<>>
      BY LowDigitsRecursion
    <3> QED
      BY <3>1, <3>2
  <2>2. ASSUME NEW n \in Nat, n \in S
        PROVE  n + 1 \in S
    <3>1. n + 1 \in Nat /\ n + 1 # 0
      OBVIOUS
    <3>2. (n + 1) \div base \in 0 .. n
      <4> DEFINE q == (n + 1) \div base
      <4>1. q \in Nat /\ q < n + 1
        BY <1>1, <3>1
      <4> HIDE DEF q
      <4>2. q \in 0 .. n
        BY <4>1
      <4> QED
        BY <4>2 DEF q
    <3>3. tbuf[(n + 1) \div base] = LowDigits(base, (n + 1) \div base)
      BY <2>2, <3>2
    <3>4. tbuf[n + 1] = << bchars[(n + 1) % base] >> \o tbuf[(n + 1) \div base]
      BY <1>3, <3>1
    <3>5. LowDigits(base, n + 1) =
              << bchars[(n + 1) % base] >> \o LowDigits(base, (n + 1) \div base)
      BY <3>1, LowDigitsRecursion
    <3>6. tbuf[n + 1] = LowDigits(base, n + 1)
      BY <3>3, <3>4, <3>5
    <3>7. \A m \in 0 .. (n + 1) : m \in 0 .. n \/ m = n + 1
      OBVIOUS
    <3> QED
      BY <2>2, <3>6, <3>7
  <2> HIDE DEF S
  <2>3. Nat \subseteq S
    BY <2>1, <2>2, Induction
  <2>4. \A n \in Nat : n \in 0 .. n
    OBVIOUS
  <2> QED
    BY <2>3, <2>4 DEF S
<1>5. itoa(v, base) = IF v = 0 \/ base > 16 THEN << Zero >> ELSE Reverse(tbuf[v])
  BY DEF itoa, tbuf
<1>6. ~(base > 16)
  OBVIOUS
<1> QED
  BY <1>4, <1>5, <1>6

\* In a larger base a number has no more digits than it has bits.
LEMMA PowersByBase ==
    ASSUME NEW base \in Nat \ {0, 1}
    PROVE  \A n \in Nat : Power(2, n) <= Power(base, n)
<1> DEFINE S == {n \in Nat : Power(2, n) <= Power(base, n)}
<1>1. 0 \in S
  <2>1. Power(2, 0) = 1 /\ Power(base, 0) = 1
    BY Powers
  <2> QED
    BY <2>1
<1>2. ASSUME NEW n \in Nat, n \in S
      PROVE  n + 1 \in S
  <2> DEFINE p == Power(2, n)
             q == Power(base, n)
  <2>1. p \in Nat /\ q \in Nat /\ p <= q
    BY <1>2, Powers
  <2>2. Power(2, n + 1) = 2 * p /\ Power(base, n + 1) = base * q
    BY Powers
  <2> HIDE DEF p, q
  <2>3. 2 * p <= 2 * q /\ 2 * q <= base * q
    BY <2>1
  <2>4. 2 * p \in Nat /\ 2 * q \in Nat /\ base * q \in Nat
    BY <2>1
  <2>5. Power(2, n + 1) <= Power(base, n + 1)
    BY <2>2, <2>3, <2>4
  <2> QED
    BY <2>5
<1> HIDE DEF S
<1>3. Nat \subseteq S
  BY <1>1, <1>2, Induction
<1> QED
  BY <1>3 DEF S

\* The digits that are shown: zero has one.
Figures(base, n) == IF n = 0 THEN 1 ELSE NumDigits(base, n)

\* The reference's number of digits: at least one, and found within IntBits.
LEMMA ShownDigits ==
    ASSUME IntBits \in Nat \ {0}, NEW base \in 2 .. 16, NEW n \in Nat,
           n < Power(2, IntBits)
    PROVE  (CHOOSE l \in 1 .. IntBits :
               Power(base, l) > n /\ (l = 1 \/ Power(base, l - 1) <= n))
           = Figures(base, n)
<1> DEFINE D == IF n = 0 THEN 1 ELSE NumDigits(base, n)
           Fit(l) == Power(base, l) > n /\ (l = 1 \/ Power(base, l - 1) <= n)
<1>1. base \in Nat \ {0, 1}
  OBVIOUS
<1>2. \A l \in Nat : Power(base, l) \in Nat \ {0}
  BY <1>1, Powers
<1>3. Power(base, 0) = 1 /\ Power(base, 1) = base
  <2>1. Power(base, 0) = 1 /\ Power(base, 0 + 1) = base * Power(base, 0)
    BY <1>1, Powers
  <2>2. 0 + 1 = 1 /\ base * 1 = base
    OBVIOUS
  <2> QED
    BY <2>1, <2>2
<1>4. \A l \in Nat \ {0} : l - 1 \in Nat
  OBVIOUS
<1>5. D \in 1 .. IntBits /\ Fit(D)
  <2>1. CASE n = 0
    BY <1>1, <1>3, <2>1
  <2>2. CASE n # 0
    <3> DEFINE d == NumDigits(base, n)
    <3>1. HasDigits(base, n, d)
      BY <1>1, NumDigitsIs
    <3> HIDE DEF d
    <3>2. d # 0
      BY <1>3, <2>2, <3>1 DEF HasDigits
    <3>3. d \in Nat \ {0} /\ n < Power(base, d) /\ Power(base, d - 1) <= n
      BY <3>1, <3>2 DEF HasDigits
    <3>4. ~(d > IntBits)
      <4>1. ASSUME d > IntBits
            PROVE  FALSE
        <5>1. d - 1 \in Nat /\ IntBits <= d - 1
          BY <3>3, <4>1
        <5>2. Power(base, IntBits) <= Power(base, d - 1)
          BY <1>1, <5>1, PowersGrow
        <5>3. Power(2, IntBits) <= Power(base, IntBits)
          BY <1>1, PowersByBase
        <5>4. Power(2, IntBits) \in Nat
          BY Powers
        <5>5. Power(base, IntBits) \in Nat /\ Power(base, d - 1) \in Nat
          BY <1>2, <5>1
        <5> QED
          BY <3>3, <5>2, <5>3, <5>4, <5>5
      <4> QED
        BY <4>1
    <3>5. d \in 1 .. IntBits
      BY <3>3, <3>4
    <3>6. Power(base, d) > n
      BY <1>2, <3>3
    <3>7. d \in 1 .. IntBits /\ Fit(d)
      BY <3>3, <3>5, <3>6
    <3> QED
      BY <2>2, <3>7, Zenon DEF d
  <2> QED
    BY <2>1, <2>2
<1>6. ASSUME NEW l \in 1 .. IntBits, Fit(l)
      PROVE  l = D
  <2>1. l \in Nat \ {0} /\ l - 1 \in Nat
    OBVIOUS
  <2>2. CASE n = 0
    <3>1. ~(Power(base, l - 1) <= 0)
      BY <1>2, <2>1
    <3> QED
      BY <1>6, <2>2, <3>1
  <2>3. CASE n # 0
    <3>1. l = 1 => Power(base, l - 1) <= n
      BY <1>3, <2>3
    <3>2. HasDigits(base, n, l)
      BY <1>2, <1>6, <2>1, <3>1 DEF HasDigits
    <3>3. l = NumDigits(base, n)
      BY <1>1, <3>2, NumDigitsIs
    <3> QED
      BY <2>3, <3>3
  <2> QED
    BY <2>2, <2>3
<1>7. (CHOOSE l \in 1 .. IntBits : Fit(l)) = D
  <2> HIDE DEF D, Fit
  <2> QED
    BY <1>5, <1>6
<1> QED
  BY <1>7 DEF Figures

\* itoa() yields the digits by their places, the first one first.
LEMMA ItoaDigits ==
    ASSUME NEW base \in 2 .. 16, NEW n \in Nat
    PROVE  /\ Figures(base, n) \in Nat \ {0}
           /\ itoa(n, base) \in Seq(Nat)
           /\ Len(itoa(n, base)) = Figures(base, n)
           /\ \A k \in 1 .. Figures(base, n) :
                 itoa(n, base)[k] = Digit(base, n, Figures(base, n) - k)
<1>1. base \in Nat \ {0, 1}
  OBVIOUS
<1>2. CASE n = 0
  <2>1. itoa(n, base) = << Zero >>
    BY <1>2, ItoaReverses
  <2>2. Digit(base, 0, 0) = Zero
    <3>1. 0 % base = 0 /\ bchars[0] = Zero
      BY <1>1 DEF bchars, Zero
    <3> QED
      BY <1>1, <3>1, LastDigit
  <2>3. << Zero >> \in Seq(Nat) /\ Len(<< Zero >>) = 1 /\ << Zero >>[1] = Zero
    BY DEF Zero
  <2>4. \A k \in 1 .. 1 : k = 1 /\ 1 - k = 0
    OBVIOUS
  <2>5. Figures(base, n) = 1
    BY <1>2 DEF Figures
  <2>6. 1 \in Nat \ {0}
    OBVIOUS
  <2>7. \A k \in 1 .. 1 : << Zero >>[k] = Digit(base, n, 1 - k)
    BY <1>2, <2>2, <2>3, <2>4
  <2> QED
    BY <2>1, <2>3, <2>5, <2>6, <2>7
<1>3. CASE n # 0
  <2> DEFINE d == NumDigits(base, n)
             low == LowDigits(base, n)
  <2>1. low \in Seq(Nat) /\ Len(low) = d /\ d \in Nat
    BY LowDigitsType
  <2>2. d # 0
    <3>1. HasDigits(base, n, d) /\ Power(base, 0) = 1
      BY <1>1, NumDigitsIs, Powers
    <3> HIDE DEF d
    <3> QED
      BY <1>3, <3>1 DEF HasDigits
  <2>3. \A k \in 1 .. d : low[k] = Digit(base, n, k - 1)
    BY DEF LowDigits
  <2>4. itoa(n, base) = Reverse(low)
    BY <1>3, ItoaReverses
  <2> HIDE DEF d, low
  <2>5. Reverse(low) = [k \in 1 .. d |-> low[(d - k) + 1]]
    BY <2>1 DEF Reverse
  <2>6. \A k \in 1 .. d : (d - k) + 1 \in 1 .. d /\ ((d - k) + 1) - 1 = d - k
    BY <2>1
  <2>7. \A k \in 1 .. d : low[(d - k) + 1] \in Nat /\ low[(d - k) + 1] = Digit(base, n, d - k)
    BY <2>1, <2>3, <2>6, ElementOfSeq
  <2>8. [k \in 1 .. d |-> low[(d - k) + 1]] \in Seq(Nat)
    BY <2>1, <2>7
  <2>9. Len([k \in 1 .. d |-> low[(d - k) + 1]]) = d
    BY <2>1
  <2>10. Figures(base, n) = d
    BY <1>3 DEF Figures, d
  <2> QED
    BY <2>1, <2>2, <2>4, <2>5, <2>7, <2>8, <2>9, <2>10
<1> QED
  BY <1>2, <1>3

\* A number by its places, with the digits that are shown.
Columns(base, n, width) == IF width > Figures(base, n) THEN width ELSE Figures(base, n)
PlaceDigit(base, n, p) == IF p < Figures(base, n) THEN Digit(base, n, p) ELSE Zero

\* The reference's digits, with zeros in front up to the width.
LEMMA PlacesByDigits ==
    ASSUME IntBits \in Nat \ {0}, NEW base \in 2 .. 16, NEW n \in Nat,
           n < Power(2, IntBits), NEW width \in Nat
    PROVE  Places(n, base, width) =
               [k \in 1 .. Columns(base, n, width) |->
                   PlaceDigit(base, n, Columns(base, n, width) - k)]
<1> DEFINE d == Figures(base, n)
           len == IF width > d THEN width ELSE d
           places == [k \in 1 .. len |-> IF len - k < d THEN Digit(base, n, len - k) ELSE Zero]
<1>1. Places(n, base, width) = places
  <2> DEFINE shown == CHOOSE l \in 1 .. IntBits :
                          Power(base, l) > n /\ (l = 1 \/ Power(base, l - 1) <= n)
  <2>1. shown = d
    BY ShownDigits
  <2>2. Places(n, base, width) =
            [k \in 1 .. (IF width > shown THEN width ELSE shown) |->
                IF (IF width > shown THEN width ELSE shown) - k < shown
                THEN DigitChar((n \div Power(base, (IF width > shown THEN width ELSE shown) - k))
                               % base)
                ELSE Zero]
    BY Zenon DEF Places
  <2> HIDE DEF shown, d
  <2> QED
    BY <2>1, <2>2, Zenon DEF Digit
<1> HIDE DEF d
<1>2. Places(n, base, width) =
          [k \in 1 .. (IF width > d THEN width ELSE d) |->
              IF (IF width > d THEN width ELSE d) - k < d
              THEN Digit(base, n, (IF width > d THEN width ELSE d) - k) ELSE Zero]
  BY <1>1, Zenon
<1> QED
  BY <1>2, Zenon DEF Columns, PlaceDigit, d

\* A number is printed by its places, with zeros up to the width: for all
\* numbers, bases and widths (stdlib.c:8-52, display.c:82-96).
LEMMA NumberPrinted ==
    ASSUME IntBits \in Nat \ {0}, NEW base \in 2 .. 16, NEW n \in Nat,
           n < Power(2, IntBits), NEW width \in Nat
    PROVE  /\ Padded(itoa(n, base), width) = Places(n, base, width)
           /\ Padded(itoa(n, base), width) \in Seq(Nat)
<1> DEFINE d == Figures(base, n)
           str == itoa(n, base)
           zeros == [k \in 1 .. (width - Len(str)) |-> Zero]
           len == IF width > d THEN width ELSE d
           places == [k \in 1 .. len |-> IF len - k < d THEN Digit(base, n, len - k) ELSE Zero]
<1>1. /\ d \in Nat \ {0} /\ str \in Seq(Nat) /\ Len(str) = d
      /\ \A k \in 1 .. d : str[k] = Digit(base, n, d - k)
  BY ItoaDigits
<1>2. Places(n, base, width) = places
  <2>1. Places(n, base, width) =
            [k \in 1 .. Columns(base, n, width) |->
                PlaceDigit(base, n, Columns(base, n, width) - k)]
    BY PlacesByDigits
  <2> QED
    BY <2>1, Zenon DEF Columns, PlaceDigit
<1> HIDE DEF d, str
<1> DEFINE z == IF width > d THEN width - d ELSE 0
<1>3. z \in Nat /\ len = z + d /\ len \in Nat
  BY <1>1
<1>4. zeros = [k \in 1 .. z |-> Zero]
  <2>1. 1 .. (width - d) = 1 .. z
    BY <1>1
  <2> QED
    BY <1>1, <2>1
<1> HIDE DEF z, len
<1>5. zeros \in Seq(Nat) /\ Len(zeros) = z /\ \A k \in 1 .. z : zeros[k] = Zero
  <2>1. Zero \in Nat
    BY DEF Zero
  <2> DEFINE f == [k \in 1 .. z |-> Zero]
  <2>2. f \in Seq(Nat) /\ Len(f) = z /\ \A k \in 1 .. z : f[k] = Zero
    BY <1>3, <2>1
  <2> HIDE DEF f, zeros
  <2>3. zeros = f
    BY <1>4 DEF f
  <2> QED
    BY <2>2, <2>3
<1> HIDE DEF zeros
<1>6. /\ zeros \o str \in Seq(Nat)
      /\ Len(zeros \o str) = len
      /\ \A k \in 1 .. len :
            (zeros \o str)[k] = IF k <= z THEN zeros[k] ELSE str[k - z]
  <2>1. /\ zeros \o str \in Seq(Nat)
        /\ Len(zeros \o str) = z + d
        /\ \A k \in 1 .. (z + d) :
              (zeros \o str)[k] = IF k <= z THEN zeros[k] ELSE str[k - z]
    <3>1. zeros \in Seq(Nat) /\ str \in Seq(Nat) /\ Len(zeros) = z /\ Len(str) = d
      BY <1>1, <1>5
    <3>2. /\ zeros \o str \in Seq(Nat)
          /\ Len(zeros \o str) = Len(zeros) + Len(str)
          /\ \A k \in 1 .. (Len(zeros) + Len(str)) :
                (zeros \o str)[k] = IF k <= Len(zeros) THEN zeros[k] ELSE str[k - Len(zeros)]
      BY <3>1, ConcatProperties
    <3> QED
      BY <3>1, <3>2, Zenon
  <2> QED
    BY <1>3, <2>1
<1>7. ASSUME NEW k \in 1 .. len
      PROVE  (zeros \o str)[k] = IF len - k < d THEN Digit(base, n, len - k) ELSE Zero
  <2>1. CASE k <= z
    <3>1. k \in 1 .. z /\ ~(len - k < d)
      BY <1>1, <1>3, <2>1
    <3> QED
      BY <1>5, <1>6, <2>1, <3>1
  <2>2. CASE ~(k <= z)
    <3>1. k - z \in 1 .. d /\ len - k < d /\ d - (k - z) = len - k
      BY <1>1, <1>3, <2>2
    <3>2. str[k - z] = Digit(base, n, d - (k - z))
      BY <1>1, <3>1
    <3> QED
      BY <1>6, <2>2, <3>1, <3>2
  <2> QED
    BY <2>1, <2>2
<1>8. zeros \o str = places
  <2> DEFINE s == zeros \o str
  <2>1. s \in Seq(Nat) /\ Len(s) = len
    BY <1>6
  <2>2. \A k \in 1 .. len :
           /\ places[k] = IF len - k < d THEN Digit(base, n, len - k) ELSE Zero
           /\ places[k] = s[k]
    BY <1>7
  <2>3. \A k \in 1 .. len : s[k] \in Nat
    BY <2>1, ElementOfSeq
  <2>4. places = [k \in 1 .. len |-> places[k]] /\ \A k \in 1 .. len : places[k] \in Nat
    BY <2>2, <2>3
  <2> HIDE DEF places, s
  <2>5. places \in Seq(Nat) /\ Len(places) = len
    BY <1>3, <2>4
  <2>6. s = places
    BY <2>1, <2>2, <2>5, SeqEqual
  <2> QED
    BY <2>6 DEF s
<1>9. Padded(itoa(n, base), width) = zeros \o str
  BY DEF Padded, zeros, str
<1> QED
  BY <1>2, <1>6, <1>8, <1>9

-------------------------------------------------------------------------------
(***************************************************************************)
(* A text joined of parts, and where its parts begin.                      *)
(***************************************************************************)

\* What the parts of a sequence put together are, one part after the other.
Parts(p, seqs) ==
    /\ DOMAIN p = 0 .. Len(seqs)
    /\ p[0] = <<>>
    /\ \A k \in 1 .. Len(seqs) : p[k] = p[k - 1] \o seqs[k]

Joined(S, seqs) == CHOOSE p : p \in [0 .. Len(seqs) -> Seq(S)] /\ Parts(p, seqs)

\* The beginnings of a joined text, part by part, exist and are texts.
LEMMA PartsExist ==
    ASSUME NEW S, NEW seqs \in Seq(Seq(S))
    PROVE  /\ Joined(S, seqs) \in [0 .. Len(seqs) -> Seq(S)]
           /\ Parts(Joined(S, seqs), seqs)
<1> DEFINE n == Len(seqs)
           X == Seq(S)
           step == [k \in Nat |-> [x \in X |-> IF k < n THEN x \o seqs[k + 1] ELSE x]]
<1>0. n \in Nat /\ \A k \in 1 .. n : seqs[k] \in Seq(S)
  OBVIOUS
<1>1. <<>> \in X /\ step \in [Nat -> [X -> X]]
  <2>1. ASSUME NEW k \in Nat, NEW x \in X
        PROVE  (IF k < n THEN x \o seqs[k + 1] ELSE x) \in X
    <3>1. CASE k < n
      <4>1. k + 1 \in 1 .. n
        BY <1>0, <3>1
      <4>2. seqs[k + 1] \in Seq(S)
        BY <1>0, <4>1
      <4> QED
        BY <4>2, <3>1
    <3> QED
      BY <3>1
  <2> QED
    BY <2>1
<1> HIDE DEF X, step
<1>2. PICK f : Recurs(f, X, <<>>, step)
  BY <1>1, Recursion
<1> DEFINE p == [k \in 0 .. n |-> f[k]]
<1>3. p \in [0 .. n -> Seq(S)] /\ p[0] = <<>>
  BY <1>2, <1>0 DEF Recurs, X
<1>4. ASSUME NEW k \in 1 .. n
      PROVE  p[k] = p[k - 1] \o seqs[k]
  <2>1. k - 1 \in Nat /\ (k - 1) + 1 = k /\ k - 1 < n /\ k - 1 \in 0 .. n /\ k \in 0 .. n
    BY <1>0
  <2>2. f[k] = step[k - 1][f[k - 1]] /\ f[k - 1] \in X
    BY <1>2, <2>1 DEF Recurs
  <2> QED
    BY <2>1, <2>2 DEF step
<1>5. Parts(p, seqs)
  BY <1>3, <1>4 DEF Parts
<1> HIDE DEF p
<1> QED
  BY <1>3, <1>5 DEF Joined

\* The joined text of all parts is what FlattenSeq() gives.
LEMMA FlattenIsJoined ==
    ASSUME NEW S, NEW seqs \in Seq(Seq(S))
    PROVE  FlattenSeq(seqs) = Joined(S, seqs)[Len(seqs)]
<1> DEFINE n == Len(seqs)
           p == Joined(S, seqs)
           Fl(g) == [k \in 1 .. n |-> IF k = 1 THEN seqs[k] ELSE g[k - 1] \o seqs[k]]
           fl == CHOOSE g : g = Fl(g)
<1>0. n \in Nat /\ \A k \in 1 .. n : seqs[k] \in Seq(S)
  OBVIOUS
<1>1. p \in [0 .. n -> Seq(S)] /\ Parts(p, seqs)
  BY PartsExist
<1> HIDE DEF p
<1>2. \E g : g = Fl(g)
  <2> DEFINE q == [k \in 1 .. n |-> p[k]]
  <2>1. ASSUME NEW k \in 1 .. n
        PROVE  q[k] = IF k = 1 THEN seqs[k] ELSE q[k - 1] \o seqs[k]
    <3>1. CASE k = 1
      <4>0. 1 \in 1 .. n /\ 1 - 1 = 0
        BY <1>0, <3>1
      <4>1. p[1] = <<>> \o seqs[1] /\ seqs[1] \in Seq(S)
        BY <1>0, <1>1, <4>0 DEF Parts
      <4>2. <<>> \o seqs[1] = seqs[1]
        BY <4>1
      <4> QED
        BY <4>1, <4>2, <3>1
    <3>2. CASE k # 1
      <4>1. k - 1 \in 1 .. n
        BY <1>0, <3>2
      <4> QED
        BY <1>1, <4>1, <3>2 DEF Parts
    <3> QED
      BY <3>1, <3>2
  <2>2. q = Fl(q)
    BY <2>1
  <2> QED
    BY <2>2
<1>3. fl = Fl(fl)
  BY <1>2
<1> HIDE DEF fl
<1>4. \A k \in 1 .. n : fl[k] = IF k = 1 THEN seqs[k] ELSE fl[k - 1] \o seqs[k]
  BY <1>3
<1>5. \A k \in Nat : k \in 1 .. n => fl[k] = p[k]
  <2> DEFINE T == {k \in Nat : k \in 1 .. n => fl[k] = p[k]}
  <2>1. 0 \in T
    OBVIOUS
  <2>2. ASSUME NEW k \in Nat, k \in T
        PROVE  k + 1 \in T
    <3> SUFFICES ASSUME k + 1 \in 1 .. n PROVE fl[k + 1] = p[k + 1]
      OBVIOUS
    <3>1. (k + 1) - 1 = k
      OBVIOUS
    <3>2. p[k + 1] = p[k] \o seqs[k + 1]
      BY <1>1, <3>1 DEF Parts
    <3>3. CASE k = 0
      <4>0. 1 \in 1 .. n /\ k + 1 = 1
        BY <1>0, <3>3
      <4>1. fl[1] = seqs[1] /\ p[1] = <<>> \o seqs[1] /\ seqs[1] \in Seq(S)
        BY <1>0, <1>1, <1>4, <3>2, <3>3, <4>0 DEF Parts
      <4> QED
        BY <4>1, <3>3
    <3>4. CASE k # 0
      <4>1. k \in 1 .. n /\ k + 1 # 1
        BY <1>0, <3>4
      <4>2. fl[k + 1] = fl[k] \o seqs[k + 1]
        BY <1>4, <3>1, <4>1
      <4> QED
        BY <2>2, <3>2, <4>1, <4>2
    <3> QED
      BY <3>3, <3>4
  <2> HIDE DEF T
  <2>3. Nat \subseteq T
    BY <2>1, <2>2, Induction
  <2> QED
    BY <2>3 DEF T
<1>6. FlattenSeq(seqs) = IF n = 0 THEN seqs ELSE fl[n]
  BY DEF FlattenSeq, fl
<1>7. CASE n = 0
  <2>1. seqs = <<>>
    BY <1>7
  <2> QED
    BY <1>6, <1>7, <2>1, <1>1 DEF Parts, p
<1>8. CASE n # 0
  <2>1. n \in 1 .. n
    BY <1>0, <1>8
  <2> QED
    BY <1>5, <1>6, <1>8, <2>1, <1>0 DEF p
<1> QED
  BY <1>7, <1>8

\* The parts joined up to one place begin what is joined up to a later one.
LEMMA Concatenation ==
    ASSUME NEW S, NEW s \in Seq(S), NEW t \in Seq(S)
    PROVE  /\ s \o t \in Seq(S)
           /\ Len(s \o t) = Len(s) + Len(t)
           /\ \A j \in 1 .. Len(s) : (s \o t)[j] = s[j]
           /\ \A j \in 1 .. Len(t) : (s \o t)[Len(s) + j] = t[j]
OBVIOUS

\* A joined text begins with each of its beginnings.
LEMMA JoinedGrows ==
    ASSUME NEW S, NEW seqs \in Seq(Seq(S)), NEW m \in 0 .. Len(seqs)
    PROVE  /\ Len(Joined(S, seqs)[m]) <= Len(Joined(S, seqs)[Len(seqs)])
           /\ \A j \in 1 .. Len(Joined(S, seqs)[m]) :
                 Joined(S, seqs)[Len(seqs)][j] = Joined(S, seqs)[m][j]
<1> DEFINE n == Len(seqs)
           p == Joined(S, seqs)
<1>0. n \in Nat /\ m \in 0 .. n /\ \A k \in 1 .. n : seqs[k] \in Seq(S)
  OBVIOUS
<1>1. p \in [0 .. n -> Seq(S)] /\ \A k \in 1 .. n : p[k] = p[k - 1] \o seqs[k]
  BY PartsExist DEF Parts
<1> HIDE DEF p, n
<1> DEFINE Begins(k) == /\ Len(p[m]) <= Len(p[k])
                        /\ \A j \in 1 .. Len(p[m]) : p[k][j] = p[m][j]
           T == {k \in Nat : m + k <= n => Begins(m + k)}
<1>2. 0 \in T
  <2>1. p[m] \in Seq(S)
    BY <1>0, <1>1
  <2>2. Len(p[m]) \in Nat /\ m + 0 = m
    BY <2>1, <1>0
  <2> QED
    BY <2>2
<1>3. ASSUME NEW k \in Nat, k \in T
      PROVE  k + 1 \in T
  <2> SUFFICES ASSUME m + (k + 1) <= n PROVE Begins(m + (k + 1))
    OBVIOUS
  <2> DEFINE h == m + k
  <2>1. h \in 0 .. n /\ h + 1 \in 1 .. n /\ (h + 1) - 1 = h /\ m + (k + 1) = h + 1 /\ h <= n
    BY <1>0
  <2>2. Begins(h)
    BY <1>3, <2>1
  <2> HIDE DEF h
  <2>3. p[h] \in Seq(S) /\ seqs[h + 1] \in Seq(S) /\ p[m] \in Seq(S)
    BY <1>0, <1>1, <2>1
  <2>4. p[h + 1] = p[h] \o seqs[h + 1]
    BY <1>1, <2>1
  <2> DEFINE u == p[h]
             v == seqs[h + 1]
             lu == Len(u)
             lv == Len(v)
             lm == Len(p[m])
  <2>5. u \in Seq(S) /\ v \in Seq(S) /\ p[h + 1] = u \o v
    BY <2>3, <2>4
  <2>6. Len(p[h + 1]) = lu + lv /\ \A j \in 1 .. lu : p[h + 1][j] = u[j]
    <3> HIDE DEF u, v
    <3> QED
      BY <2>5, Concatenation
  <2>7. lu \in Nat /\ lv \in Nat /\ lm \in Nat /\ lm <= lu
    BY <2>2, <2>3
  <2>8. lm <= Len(p[h + 1])
    <3> HIDE DEF lu, lv, lm
    <3> QED
      BY <2>6, <2>7
  <2>9. ASSUME NEW j \in 1 .. Len(p[m])
        PROVE  p[h + 1][j] = p[m][j]
    <3>1. j \in 1 .. lu
      <4>1. j \in 1 .. lm
        OBVIOUS
      <4> HIDE DEF lu, lm
      <4> QED
        BY <2>7, <4>1
    <3> QED
      BY <2>2, <2>6, <3>1
  <2> QED
    BY <2>1, <2>8, <2>9
<1> HIDE DEF T
<1>4. Nat \subseteq T
  BY <1>2, <1>3, Induction
<1>5. n - m \in Nat /\ m + (n - m) = n
  BY <1>0
<1>6. Begins(n)
  <2>1. n - m \in T
    BY <1>4, <1>5
  <2>2. m + (n - m) <= n
    BY <1>0
  <2>3. Begins(m + (n - m))
    BY <2>1, <2>2 DEF T
  <2> HIDE DEF Begins
  <2> QED
    BY <1>5, <2>3
<1> QED
  BY <1>6 DEF p, n

-------------------------------------------------------------------------------
(***************************************************************************)
(* The loop of kvprintf(): one turn shows one item of the format, and      *)
(* moves on to the next.                                                   *)
(***************************************************************************)

\* The arguments that fit a conversion.
Typed(item, arg) ==
    /\ item.conv = 115 => arg \in Seq(Nat)
    /\ item.conv = 99 => arg \in [1 .. 1 -> 0 .. 255]
    /\ item.conv \in {105, 120} => arg \in [1 .. 1 -> Int]

\* The characters of an item in a format, one by one.
LEMMA TextOfItem ==
    ASSUME NEW item \in Item
    PROVE  /\ ItemText(item) \in Seq(Nat)
           /\ item.conv = NoConv => /\ Len(ItemText(item)) = 1
                                    /\ ItemText(item)[1] = item.char
           /\ item.conv # NoConv /\ item.width = 0 =>
                 /\ Len(ItemText(item)) = 2
                 /\ ItemText(item)[1] = Percent
                 /\ ItemText(item)[2] = item.conv
           /\ item.conv # NoConv /\ item.width # 0 =>
                 /\ Len(ItemText(item)) = 4
                 /\ ItemText(item)[1] = Percent
                 /\ ItemText(item)[2] = Zero
                 /\ ItemText(item)[3] = Zero + item.width
                 /\ ItemText(item)[4] = item.conv
<1>1. item.conv \in Nat /\ item.width \in Nat /\ item.char \in Nat
  BY DEF Item, NoConv
<1>2. CASE item.conv = NoConv
  BY <1>1, <1>2 DEF ItemText
<1>3. CASE item.conv # NoConv /\ item.width = 0
  BY <1>1, <1>3 DEF ItemText, Percent, Zero
<1>4. CASE item.conv # NoConv /\ item.width # 0
  <2> DEFINE u == << Percent >>
             v == << Zero, Zero + item.width >>
             z == << item.conv >>
             t == u \o v
  <2>1. ItemText(item) = t \o z
    BY <1>4 DEF ItemText
  <2>2. /\ u \in Seq(Nat) /\ Len(u) = 1 /\ u[1] = Percent
        /\ v \in Seq(Nat) /\ Len(v) = 2 /\ v[1] = Zero /\ v[2] = Zero + item.width
        /\ z \in Seq(Nat) /\ Len(z) = 1 /\ z[1] = item.conv
    BY <1>1 DEF Percent, Zero
  <2> HIDE DEF u, v, z
  <2>3. /\ t \in Seq(Nat) /\ Len(t) = 1 + 2
        /\ \A j \in 1 .. 1 : t[j] = u[j]
        /\ \A j \in 1 .. 2 : t[1 + j] = v[j]
    <3>1. u \in Seq(Nat) /\ v \in Seq(Nat)
      BY <2>2
    <3>2. /\ t \in Seq(Nat) /\ Len(t) = Len(u) + Len(v)
          /\ \A j \in 1 .. Len(u) : t[j] = u[j]
          /\ \A j \in 1 .. Len(v) : t[Len(u) + j] = v[j]
      BY <3>1, Concatenation
    <3> QED
      BY <2>2, <3>2
  <2> HIDE DEF t
  <2>4. t \in Seq(Nat) /\ Len(t) = 3 /\ t[1] = u[1] /\ t[2] = v[1] /\ t[3] = v[2]
    BY <2>3
  <2> DEFINE s == t \o z
  <2>5. /\ s \in Seq(Nat) /\ Len(s) = 3 + 1
        /\ \A j \in 1 .. 3 : s[j] = t[j]
        /\ \A j \in 1 .. 1 : s[3 + j] = z[j]
    <3>1. t \in Seq(Nat) /\ z \in Seq(Nat)
      BY <2>2, <2>4
    <3>2. /\ s \in Seq(Nat) /\ Len(s) = Len(t) + Len(z)
          /\ \A j \in 1 .. Len(t) : s[j] = t[j]
          /\ \A j \in 1 .. Len(z) : s[Len(t) + j] = z[j]
      BY <3>1, Concatenation
    <3> QED
      BY <2>2, <2>4, <3>2
  <2> HIDE DEF s
  <2>6. s \in Seq(Nat) /\ Len(s) = 4 /\ s[1] = t[1] /\ s[2] = t[2] /\ s[3] = t[3] /\ s[4] = z[1]
    BY <2>5
  <2>7. ItemText(item) = s
    BY <2>1 DEF s
  <2> QED
    BY <2>2, <2>4, <2>6, <2>7, <1>4
<1> QED
  BY <1>2, <1>3, <1>4

\* What is shown of an argument, as the loop converts it.
LEMMA ShownOf ==
    ASSUME IntBits \in Nat \ {0}, NEW item \in Item, item.conv # NoConv,
           NEW arg, Typed(item, arg), item.conv = 105 => ~(Signed(arg[1]) < 0)
    PROVE  /\ Shown(item, arg) \in Seq(Nat)
           /\ item.conv = 115 => Shown(item, arg) = arg
           /\ item.conv = 105 =>
                 Shown(item, arg) = Padded(itoa_s(Unsigned(arg[1]), 10), item.width)
           /\ item.conv = 120 =>
                 Shown(item, arg) = Padded(itoa(Unsigned(arg[1]), 16), item.width)
           /\ item.conv = 99 => Shown(item, arg) = << arg[1] % 256 >>
<1>1. item.conv \in {105, 115, 120, 99} /\ item.width \in Nat
  BY DEF Item, NoConv
<1> DEFINE limit == Power(2, IntBits)
<1>2. limit \in Nat \ {0}
  <2>1. 2 \in Nat \ {0, 1} /\ IntBits \in Nat
    OBVIOUS
  <2> QED
    BY <2>1, Powers
<1>3. CASE item.conv = 115
  BY <1>3 DEF Shown, Typed
<1>4. CASE item.conv = 99
  <2>1. arg \in [1 .. 1 -> 0 .. 255] /\ Shown(item, arg) = arg
    BY <1>4 DEF Shown, Typed
  <2>2. arg[1] \in 0 .. 255 /\ arg = << arg[1] >>
    BY <2>1
  <2>3. arg[1] % 256 = arg[1]
    BY <2>2
  <2>4. arg \in Seq(Nat)
    <3>1. << arg[1] >> \in Seq(Nat)
      BY <2>2
    <3> QED
      BY <2>2, <3>1
  <2> QED
    BY <2>1, <2>2, <2>3, <2>4, <1>4
<1>5. CASE item.conv = 105
  <2> DEFINE n == Unsigned(arg[1])
             m == arg[1]
  <2>1. n \in Nat /\ n < limit
    <3>1. m \in Int
      BY <1>5 DEF Typed
    <3> HIDE DEF limit, m
    <3>2. m % limit \in 0 .. (limit - 1)
      BY <3>1, <1>2
    <3> QED
      BY <3>2, <1>2 DEF Unsigned, limit, m
  <2>2. Signed(m) = n
    <3>1. Signed(m) = n \/ Signed(m) = n - limit
      BY DEF Signed
    <3>2. ~(Signed(m) < 0)
      BY <1>5
    <3> HIDE DEF n, limit, m
    <3>3. n - limit < 0
      BY <2>1, <1>2
    <3> QED
      BY <3>1, <3>2, <3>3
  <2> HIDE DEF n
  <2>3. /\ Padded(itoa(n, 10), item.width) = Places(n, 10, item.width)
        /\ Padded(itoa(n, 10), item.width) \in Seq(Nat)
    <3>1. 10 \in 2 .. 16
      OBVIOUS
    <3> HIDE DEF n
    <3> QED
      BY <2>1, <1>1, <3>1, NumberPrinted, ZenonT(30) DEF limit
  <2> QED
    BY <2>2, <2>3, <1>5 DEF Shown, itoa_s, n
<1>6. CASE item.conv = 120
  <2> DEFINE n == Unsigned(arg[1])
             m == arg[1]
  <2>1. n \in Nat /\ n < limit
    <3>1. m \in Int
      BY <1>6 DEF Typed
    <3> HIDE DEF limit, m
    <3>2. m % limit \in 0 .. (limit - 1)
      BY <3>1, <1>2
    <3> QED
      BY <3>2, <1>2 DEF Unsigned, limit, m
  <2> HIDE DEF n
  <2>2. /\ Padded(itoa(n, 16), item.width) = Places(n, 16, item.width)
        /\ Padded(itoa(n, 16), item.width) \in Seq(Nat)
    <3>1. 16 \in 2 .. 16
      OBVIOUS
    <3> HIDE DEF n
    <3> QED
      BY <2>1, <1>1, <3>1, NumberPrinted, ZenonT(30) DEF limit
  <2> QED
    BY <2>2, <1>6 DEF Shown, n
<1> QED
  BY <1>1, <1>3, <1>4, <1>5, <1>6

\* What an item of a format shows, and the width it leaves behind.
Text(item, arg) ==
    IF item.conv # NoConv THEN Shown(item, arg)
    ELSE IF item.char = Percent THEN <<>> ELSE << item.char >>

State(A) == [i : Nat, num_width : Nat, ap : Seq(A), out : Seq(Nat)]

\* The item is what stands in the format where the loop is.
Stands(item, fmt, st) ==
    /\ st.i + Len(ItemText(item)) <= Len(fmt)
    /\ \A m \in 1 .. Len(ItemText(item)) : fmt[st.i + m] = ItemText(item)[m]

\* A turn of kvprintf() at a character shows it, and skips a % at the end.
LEMMA TurnOfChar ==
    ASSUME NEW item \in Item, item.conv = NoConv, NEW fmt \in Seq(Nat),
           NEW A, NEW st \in State(A), Stands(item, fmt, st), NEW arg,
           item.char = Percent => st.i + 1 = Len(fmt)
    PROVE  Turn(fmt, st) = [ i |-> st.i + 1, num_width |-> st.num_width, ap |-> st.ap,
                             out |-> st.out \o Text(item, arg) ]
<1> DEFINE k == st.i
<1>1. k \in Nat /\ st.out \in Seq(Nat) /\ Len(fmt) \in Nat
  BY DEF State
<1>2. k + 1 <= Len(fmt) /\ fmt[k + 1] = item.char /\ item.char \in Nat
  <2>1. Len(ItemText(item)) = 1 /\ ItemText(item)[1] = item.char
    BY TextOfItem
  <2> QED
    BY <2>1 DEF Stands, Item
<1>3. k < Len(fmt)
  BY <1>1, <1>2
<1>4. CASE item.char # Percent
  <2>1. Turn(fmt, st) = [st EXCEPT !.i = @ + 1, !.out = Append(@, item.char)]
    BY <1>2, <1>3, <1>4 DEF Turn
  <2>2. Append(st.out, item.char) = st.out \o << item.char >>
    <3> DEFINE out == st.out
               char == item.char
    <3>1. out \in Seq(Nat) /\ char \in Nat
      BY <1>1, <1>2
    <3> HIDE DEF out, char
    <3>2. Append(out, char) = out \o << char >>
      BY <3>1, AppendIsConcat
    <3> QED
      BY <3>2 DEF out, char
  <2>3. Turn(fmt, st) = [st EXCEPT !.i = k + 1, !.out = st.out \o Text(item, arg)]
    BY <2>1, <2>2, <1>4 DEF Text
  <2> QED
    BY <2>3 DEF State
<1>5. CASE item.char = Percent
  <2>1. ~(k + 1 < Len(fmt))
    BY <1>1, <1>5
  <2>2. Turn(fmt, st) = [st EXCEPT !.i = k + 1, !.num_width = st.num_width]
    BY <1>2, <1>3, <1>5, <2>1 DEF Turn, Percent, Zero
  <2>3. st.out \o <<>> = st.out
    BY <1>1
  <2> QED
    BY <2>2, <2>3, <1>5 DEF Text, State
<1> QED
  BY <1>4, <1>5

\* A turn at a conversion shows its argument as printf() does, provided that
\* no width is left from an earlier number.
LEMMA TurnOfConversion ==
    ASSUME IntBits \in Nat \ {0}, NEW item \in Item, item.conv # NoConv,
           NEW fmt \in Seq(Nat), NEW A, NEW st \in State(A), Stands(item, fmt, st),
           NEW arg, arg = Head(st.ap), Typed(item, arg),
           item.conv = 105 => ~(Signed(arg[1]) < 0),
           IsNumber(item) /\ item.width = 0 => st.num_width = 0
    PROVE  Turn(fmt, st) =
               [ i |-> st.i + Len(ItemText(item)),
                 num_width |-> IF item.width = 0 THEN st.num_width ELSE item.width,
                 ap |-> Tail(st.ap), out |-> st.out \o Text(item, arg) ]
<1> DEFINE At(n) == IF n < Len(fmt) THEN fmt[n + 1] ELSE 0
           k == st.i
           Converted(j, width, text) ==
               [ i |-> j + 2, num_width |-> width, ap |-> Tail(st.ap), out |-> st.out \o text ]
           Done(j, width, conv) ==
               CASE conv = 115 -> Converted(j, width, arg)
                 [] conv \in {105, 100} ->
                       Converted(j, width, Padded(itoa_s(Unsigned(arg[1]), 10), width))
                 [] conv = 120 -> Converted(j, width, Padded(itoa(Unsigned(arg[1]), 16), width))
                 [] conv = 99 -> Converted(j, width, << arg[1] % 256 >>)
                 [] OTHER -> [st EXCEPT !.i = j + 1, !.num_width = width]
           hasWidth == At(k + 1) = Zero
           width == IF hasWidth THEN At(k + 2) - Zero ELSE st.num_width
           j == IF hasWidth THEN k + 2 ELSE k
<1>1. k \in Nat /\ st.num_width \in Nat /\ Len(fmt) \in Nat
  BY DEF State
<1>2. item.conv \in {105, 115, 120, 99} /\ item.width \in Nat
  BY DEF Item, NoConv
<1>3. At(k) = Percent => Turn(fmt, st) = Done(j, width, At(j + 1))
  BY DEF Turn
<1>4. ASSUME NEW w \in Nat, IsNumber(item) => w = item.width, NEW m \in Nat
      PROVE  Done(m, w, item.conv) = Converted(m, w, Text(item, arg))
  <2>1. /\ item.conv = 115 => Shown(item, arg) = arg
        /\ item.conv = 105 =>
              Shown(item, arg) = Padded(itoa_s(Unsigned(arg[1]), 10), item.width)
        /\ item.conv = 120 =>
              Shown(item, arg) = Padded(itoa(Unsigned(arg[1]), 16), item.width)
        /\ item.conv = 99 => Shown(item, arg) = << arg[1] % 256 >>
    BY ShownOf
  <2>2. Text(item, arg) = Shown(item, arg)
    BY DEF Text
  <2>3. /\ Done(m, w, 115) = Converted(m, w, arg)
        /\ Done(m, w, 105) = Converted(m, w, Padded(itoa_s(Unsigned(arg[1]), 10), w))
        /\ Done(m, w, 120) = Converted(m, w, Padded(itoa(Unsigned(arg[1]), 16), w))
        /\ Done(m, w, 99) = Converted(m, w, << arg[1] % 256 >>)
    <3> HIDE DEF Converted
    <3>1. Done(m, w, 115) = Converted(m, w, arg)
      OBVIOUS
    <3>2. Done(m, w, 105) = Converted(m, w, Padded(itoa_s(Unsigned(arg[1]), 10), w))
      OBVIOUS
    <3>3. Done(m, w, 120) = Converted(m, w, Padded(itoa(Unsigned(arg[1]), 16), w))
      OBVIOUS
    <3>4. Done(m, w, 99) = Converted(m, w, << arg[1] % 256 >>)
      OBVIOUS
    <3> QED
      BY <3>1, <3>2, <3>3, <3>4
  <2> HIDE DEF Done, Converted
  <2>4. IsNumber(item) <=> item.conv \in {105, 120}
    BY DEF IsNumber
  <2>5. CASE item.conv = 115
    BY <2>1, <2>2, <2>3, <2>5
  <2>6. CASE item.conv = 105
    <3>1. w = item.width
      BY <1>4, <2>4, <2>6
    <3> QED
      BY <2>1, <2>2, <2>3, <2>6, <3>1
  <2>7. CASE item.conv = 120
    <3>1. w = item.width
      BY <1>4, <2>4, <2>7
    <3> QED
      BY <2>1, <2>2, <2>3, <2>7, <3>1
  <2>8. CASE item.conv = 99
    BY <2>1, <2>2, <2>3, <2>8
  <2> QED
    BY <1>2, <2>5, <2>6, <2>7, <2>8
<1>5. CASE item.width = 0
  <2>1. Len(ItemText(item)) = 2 /\ ItemText(item)[1] = Percent /\ ItemText(item)[2] = item.conv
    BY <1>5, TextOfItem
  <2>2. k + 2 <= Len(fmt) /\ fmt[k + 1] = Percent /\ fmt[k + 2] = item.conv
    <3> DEFINE text == ItemText(item)
    <3>1. /\ k + Len(text) <= Len(fmt)
          /\ \A m \in 1 .. Len(text) : fmt[k + m] = text[m]
      BY DEF Stands
    <3>2. Len(text) = 2 /\ text[1] = Percent /\ text[2] = item.conv
      BY <2>1
    <3> HIDE DEF text, k
    <3>3. \A m \in 1 .. 2 : fmt[k + m] = text[m]
      BY <3>1, <3>2
    <3>4. fmt[k + 1] = text[1] /\ fmt[k + 2] = text[2]
      BY <3>3
    <3> QED
      BY <3>1, <3>2, <3>4
  <2>3. k < Len(fmt) /\ k + 1 < Len(fmt) /\ (k + 1) + 1 = k + 2
    <3> DEFINE len == Len(fmt)
    <3>1. k \in Nat /\ len \in Nat /\ k + 2 <= len
      BY <1>1, <2>2
    <3> HIDE DEF k, len
    <3>2. k < len /\ k + 1 < len /\ (k + 1) + 1 = k + 2
      BY <3>1
    <3> QED
      BY <3>2 DEF len
  <2>4. At(k) = Percent /\ At(k + 1) = item.conv
    BY <2>2, <2>3
  <2>5. ~hasWidth
    BY <1>2, <2>4 DEF Zero
  <2>6. j = k /\ width = st.num_width
    BY <2>5
  <2> HIDE DEF At, Done, hasWidth, j, width
  <2>7. Turn(fmt, st) = Done(k, st.num_width, item.conv)
    BY <1>3, <2>4, <2>6
  <2>8. IsNumber(item) => st.num_width = item.width
    BY <1>5
  <2> HIDE DEF Converted
  <2>9. Turn(fmt, st) = Converted(k, st.num_width, Text(item, arg))
    BY <1>1, <1>4, <2>7, <2>8
  <2> QED
    BY <1>5, <2>1, <2>9 DEF Converted
<1>6. CASE item.width # 0
  <2>1. /\ Len(ItemText(item)) = 4 /\ ItemText(item)[1] = Percent /\ ItemText(item)[2] = Zero
        /\ ItemText(item)[3] = Zero + item.width /\ ItemText(item)[4] = item.conv
    BY <1>6, TextOfItem
  <2>2. /\ k + 4 <= Len(fmt) /\ fmt[k + 1] = Percent /\ fmt[k + 2] = Zero
        /\ fmt[k + 3] = Zero + item.width /\ fmt[k + 4] = item.conv
    <3> DEFINE text == ItemText(item)
    <3>1. /\ k + Len(text) <= Len(fmt)
          /\ \A m \in 1 .. Len(text) : fmt[k + m] = text[m]
      BY DEF Stands
    <3>2. /\ Len(text) = 4 /\ text[1] = Percent /\ text[2] = Zero
          /\ text[3] = Zero + item.width /\ text[4] = item.conv
      BY <2>1
    <3> HIDE DEF text, k
    <3>3. \A m \in 1 .. 4 : fmt[k + m] = text[m]
      BY <3>1, <3>2
    <3>4. /\ fmt[k + 1] = text[1] /\ fmt[k + 2] = text[2]
          /\ fmt[k + 3] = text[3] /\ fmt[k + 4] = text[4]
      BY <3>3
    <3> QED
      BY <3>1, <3>2, <3>4
  <2>3. /\ k < Len(fmt) /\ k + 1 < Len(fmt) /\ k + 2 < Len(fmt) /\ k + 3 < Len(fmt)
        /\ (k + 1) + 1 = k + 2 /\ (k + 2) + 1 = k + 3 /\ (k + 3) + 1 = k + 4
        /\ (k + 2) + 2 = k + 4 /\ k + 2 \in Nat
    <3> DEFINE len == Len(fmt)
    <3>1. k \in Nat /\ len \in Nat /\ k + 4 <= len
      BY <1>1, <2>2
    <3> HIDE DEF k, len
    <3>2. k < len /\ k + 1 < len /\ k + 2 < len /\ k + 3 < len
      BY <3>1
    <3>3. (k + 1) + 1 = k + 2 /\ (k + 2) + 1 = k + 3 /\ (k + 3) + 1 = k + 4
      BY <3>1
    <3>4. (k + 2) + 2 = k + 4 /\ k + 2 \in Nat
      BY <3>1
    <3> QED
      BY <3>2, <3>3, <3>4 DEF len
  <2>4. /\ At(k) = Percent /\ At(k + 1) = Zero /\ At(k + 2) = Zero + item.width
        /\ At(k + 3) = item.conv
    BY <2>2, <2>3
  <2>5. hasWidth
    BY <2>4
  <2>6. j = k + 2 /\ width = item.width
    <3>1. At(k + 2) - Zero = item.width
      <4> DEFINE w == item.width
      <4>1. w \in Nat /\ At(k + 2) = Zero + w
        BY <1>2, <2>4
      <4> HIDE DEF At, w
      <4> QED
        BY <4>1 DEF Zero, w
    <3> QED
      BY <2>5, <3>1
  <2> HIDE DEF At, Done, hasWidth, j, width, Converted
  <2>7. Turn(fmt, st) = Done(k + 2, item.width, At((k + 2) + 1))
    BY <1>3, <2>4, <2>6
  <2>8. Turn(fmt, st) = Converted(k + 2, item.width, Text(item, arg))
    BY <1>2, <1>4, <2>3, <2>4, <2>7
  <2> QED
    BY <1>6, <2>1, <2>3, <2>8 DEF Converted
<1> QED
  BY <1>5, <1>6

\* The number of conversions, item by item.
LEMMA ConvsCount ==
    ASSUME NEW items, NEW k \in Nat
    PROVE  /\ Convs(items, 0) = 0
           /\ Convs(items, k) \in Nat
           /\ Convs(items, k + 1) =
                  Convs(items, k) + (IF items[k + 1].conv # NoConv THEN 1 ELSE 0)
<1> DEFINE C(n) == {j \in 1 .. n : items[j].conv # NoConv}
<1>1. C(0) = {}
  OBVIOUS
<1>2. ASSUME NEW n \in Nat
      PROVE  IsFiniteSet(C(n)) /\ Cardinality(C(n)) \in Nat
  <2>1. IsFiniteSet(1 .. n)
    BY FS_Interval
  <2>2. C(n) \subseteq 1 .. n
    OBVIOUS
  <2> HIDE DEF C
  <2>3. IsFiniteSet(C(n))
    BY <2>1, <2>2, FS_Subset
  <2> QED
    BY <2>3, FS_CardinalityType
<1>3. CASE items[k + 1].conv # NoConv
  <2>1. C(k + 1) = C(k) \cup {k + 1} /\ k + 1 \notin C(k)
    BY <1>3
  <2> HIDE DEF C
  <2>2. Cardinality(C(k + 1)) = Cardinality(C(k)) + 1
    BY <1>2, <2>1, FS_AddElement
  <2> QED
    BY <1>1, <1>2, <1>3, <2>2, FS_EmptySet DEF C, Convs
<1>4. CASE ~(items[k + 1].conv # NoConv)
  <2>1. C(k + 1) = C(k)
    BY <1>4
  <2>2. Cardinality(C(k)) \in Nat
    BY <1>2
  <2>3. /\ Convs(items, k + 1) = Convs(items, k) /\ Convs(items, k) \in Nat
        /\ Convs(items, 0) = Cardinality({})
    BY <1>1, <2>1, <2>2 DEF Convs
  <2>4. Cardinality({}) = 0
    BY FS_EmptySet
  <2> QED
    BY <1>4, <2>3, <2>4
<1> QED
  BY <1>3, <1>4

LEMMA ConvsGrow ==
    ASSUME NEW items, NEW m \in Nat, NEW n \in Nat, m <= n
    PROVE  Convs(items, m) <= Convs(items, n)
<1> DEFINE C(k) == Convs(items, k)
           T == {k \in Nat : C(m) <= C(m + k)}
<1>1. \A k \in Nat : C(k) \in Nat /\ C(k) <= C(k + 1)
  <2>1. ASSUME NEW k \in Nat
        PROVE  C(k) \in Nat /\ C(k) <= C(k + 1)
    <3>1. C(k) \in Nat /\ C(k + 1) = C(k) + (IF items[k + 1].conv # NoConv THEN 1 ELSE 0)
      BY ConvsCount
    <3> HIDE DEF C
    <3> QED
      BY <3>1
  <2> HIDE DEF C
  <2> QED
    BY <2>1
<1> HIDE DEF C
<1>2. 0 \in T
  BY <1>1
<1>3. ASSUME NEW k \in Nat, k \in T
      PROVE  k + 1 \in T
  <2>1. C(m) <= C(m + k) /\ C(m + k) <= C((m + k) + 1) /\ (m + k) + 1 = m + (k + 1)
    BY <1>1, <1>3
  <2>2. C(m) \in Nat /\ C(m + k) \in Nat /\ C(m + (k + 1)) \in Nat
    BY <1>1
  <2> QED
    BY <2>1, <2>2
<1> HIDE DEF T
<1>4. Nat \subseteq T
  BY <1>2, <1>3, Induction
<1>5. n - m \in T /\ m + (n - m) = n
  BY <1>4
<1>6. C(m) <= C(n)
  BY <1>5 DEF T
<1> QED
  BY <1>6 DEF C

\* A call whose arguments fit its format.
Fitting(items, args, A) ==
    /\ WellFormed(items)
    /\ args \in Seq(A)
    /\ Len(args) = Convs(items, Len(items))
    /\ \A k \in DOMAIN items :
          items[k].conv # NoConv => Typed(items[k], ArgOf(items, args, k))

Texts(items) == [k \in DOMAIN items |-> ItemText(items[k])]
Shows(items, args) == [k \in DOMAIN items |-> Text(items[k], ArgOf(items, args, k))]

\* The texts of a format's items, and what is shown of them, are sequences.
LEMMA TextsType ==
    ASSUME IntBits \in Nat \ {0}, NEW items, NEW args, NEW A,
           Fitting(items, args, A), ~Odd(items, args)
    PROVE  /\ Len(items) \in Nat /\ DOMAIN items = 1 .. Len(items)
           /\ \A k \in DOMAIN items : items[k] \in Item
           /\ \A k \in DOMAIN items : items[k].conv = 105 =>
                 ~(Signed(ArgOf(items, args, k)[1]) < 0)
           /\ Texts(items) \in Seq(Seq(Nat)) /\ Len(Texts(items)) = Len(items)
           /\ Shows(items, args) \in Seq(Seq(Nat)) /\ Len(Shows(items, args)) = Len(items)
<1> DEFINE n == Len(items)
<1>1. n \in Nat /\ DOMAIN items = 1 .. n /\ \A k \in 1 .. n : items[k] \in Item
  BY DEF Fitting, WellFormed
<1>2. ASSUME NEW k \in 1 .. n
      PROVE  ItemText(items[k]) \in Seq(Nat)
  BY <1>1, TextOfItem
<1>3. ASSUME NEW k \in 1 .. n, items[k].conv = 105
      PROVE  ~(Signed(ArgOf(items, args, k)[1]) < 0)
  BY <1>1, <1>3 DEF Odd
<1>4. ASSUME NEW k \in 1 .. n
      PROVE  Text(items[k], ArgOf(items, args, k)) \in Seq(Nat)
  <2> DEFINE arg == ArgOf(items, args, k)
             item == items[k]
  <2>1. item \in Item
    BY <1>1
  <2>2. item.conv # NoConv => Typed(item, arg) /\ (item.conv = 105 => ~(Signed(arg[1]) < 0))
    BY <1>1, <1>3 DEF Fitting
  <2> HIDE DEF arg, item
  <2>3. CASE item.conv # NoConv
    <3>1. Shown(item, arg) \in Seq(Nat)
      BY <2>1, <2>2, <2>3, ShownOf
    <3> QED
      BY <3>1, <2>3 DEF Text, arg, item
  <2>4. CASE item.conv = NoConv
    <3>1. item.char \in Nat
      BY <2>1 DEF Item
    <3>2. Text(item, arg) \in Seq(Nat)
      BY <2>4, <3>1 DEF Text
    <3> QED
      BY <3>2 DEF item, arg
  <2> QED
    BY <2>3, <2>4
<1>5. Texts(items) \in Seq(Seq(Nat)) /\ Len(Texts(items)) = n
  <2>1. Texts(items) = [k \in 1 .. n |-> ItemText(items[k])]
    BY <1>1 DEF Texts
  <2>2. Texts(items) \in [1 .. n -> Seq(Nat)]
    BY <1>2, <2>1
  <2> HIDE DEF n
  <2> QED
    BY <1>1, <2>2
<1>6. Shows(items, args) \in Seq(Seq(Nat)) /\ Len(Shows(items, args)) = n
  <2>1. Shows(items, args) = [k \in 1 .. n |-> Text(items[k], ArgOf(items, args, k))]
    BY <1>1 DEF Shows
  <2>2. Shows(items, args) \in [1 .. n -> Seq(Nat)]
    BY <1>4, <2>1
  <2> HIDE DEF n
  <2> QED
    BY <1>1, <2>2
<1> QED
  BY <1>1, <1>3, <1>5, <1>6

Read(items) == Joined(Nat, Texts(items))
Written(items, args) == Joined(Nat, Shows(items, args))

\* Where the loop is after k items.
Stage(items, args, A, k, st) ==
    /\ st \in State(A)
    /\ st.i = Len(Read(items)[k])
    /\ st.out = Written(items, args)[k]
    /\ st.ap = SubSeq(args, Convs(items, k) + 1, Len(args))
    /\ (\A j \in 1 .. k : items[j].width = 0) => st.num_width = 0

\* The format and what printf() is to print, item by item.
LEMMA ReadAndWritten ==
    ASSUME IntBits \in Nat \ {0}, NEW items, NEW args, NEW A,
           Fitting(items, args, A), ~Odd(items, args)
    PROVE  /\ Read(items) \in [0 .. Len(items) -> Seq(Nat)]
           /\ Written(items, args) \in [0 .. Len(items) -> Seq(Nat)]
           /\ Read(items)[0] = <<>> /\ Written(items, args)[0] = <<>>
           /\ \A k \in 1 .. Len(items) :
                 /\ Read(items)[k] = Read(items)[k - 1] \o ItemText(items[k])
                 /\ Written(items, args)[k] =
                       Written(items, args)[k - 1] \o Text(items[k], ArgOf(items, args, k))
           /\ Format(items) = Read(items)[Len(items)]
           /\ printf(items, args) = Written(items, args)[Len(items)]
<1> DEFINE n == Len(items)
           T == Texts(items)
           S == Shows(items, args)
<1>1. /\ n \in Nat /\ DOMAIN items = 1 .. n
      /\ T \in Seq(Seq(Nat)) /\ Len(T) = n /\ S \in Seq(Seq(Nat)) /\ Len(S) = n
  BY TextsType
<1>2. \A k \in 1 .. n : T[k] = ItemText(items[k]) /\ S[k] = Text(items[k], ArgOf(items, args, k))
  BY <1>1 DEF Texts, Shows
<1>3. Format(items) = FlattenSeq(T)
  BY DEF Format, Texts
<1>4. printf(items, args) = FlattenSeq(S)
  BY DEF printf, Shows, Text
<1> HIDE DEF T, S, n
<1>5. /\ Joined(Nat, T) \in [0 .. n -> Seq(Nat)] /\ Parts(Joined(Nat, T), T)
      /\ FlattenSeq(T) = Joined(Nat, T)[n]
  BY <1>1, PartsExist, FlattenIsJoined
<1>6. /\ Joined(Nat, S) \in [0 .. n -> Seq(Nat)] /\ Parts(Joined(Nat, S), S)
      /\ FlattenSeq(S) = Joined(Nat, S)[n]
  BY <1>1, PartsExist, FlattenIsJoined
<1> QED
  BY <1>1, <1>2, <1>3, <1>4, <1>5, <1>6 DEF Parts, Read, Written, T, S, n

\* The format has at its beginning what its first items stand for.
LEMMA TextsGrow ==
    ASSUME NEW items, Texts(items) \in Seq(Seq(Nat)), NEW m \in 0 .. Len(Texts(items))
    PROVE  /\ Len(Read(items)[m]) <= Len(Read(items)[Len(Texts(items))])
           /\ \A j \in 1 .. Len(Read(items)[m]) :
                 Read(items)[Len(Texts(items))][j] = Read(items)[m][j]
BY JoinedGrows DEF Read

\* The rest of a sequence, from n + 1 on.
LEMMA RestOf ==
    ASSUME NEW A, NEW s \in Seq(A), NEW n \in Nat, n < Len(s)
    PROVE  LET rest == SubSeq(s, n + 1, Len(s))
           IN  /\ rest \in Seq(A) /\ rest # <<>>
               /\ Head(rest) = s[n + 1]
               /\ Tail(rest) = SubSeq(s, (n + 1) + 1, Len(s))
               /\ Tail(rest) \in Seq(A)
<1> DEFINE len == Len(s)
           m == n + 1
           rest == SubSeq(s, m, len)
<1>1. len \in Nat /\ n < len
  OBVIOUS
<1>2. m \in 1 .. len /\ len \in m .. len
  <2> HIDE DEF len
  <2> QED
    BY <1>1
<1> HIDE DEF len, m
<1>3. Head(rest) = s[m] /\ Tail(rest) = SubSeq(s, m + 1, len)
  BY <1>2, HeadTailOfSubSeq DEF len
<1>4. rest = [k \in 1 .. ((len - m) + 1) |-> s[(m + k) - 1]]
  BY <1>2 DEF len
<1>5. \A k \in 1 .. ((len - m) + 1) : (m + k) - 1 \in 1 .. len
  BY <1>2
<1>6. (len - m) + 1 \in Nat \ {0} /\ \A k \in 1 .. len : s[k] \in A
  <2>1. \A k \in 1 .. len : s[k] \in A
    BY DEF len
  <2> QED
    BY <1>1, <1>2, <2>1
<1> HIDE DEF rest
<1>7. rest \in Seq(A) /\ Len(rest) = (len - m) + 1
  <2>1. rest \in [1 .. ((len - m) + 1) -> A]
    BY <1>4, <1>5, <1>6
  <2> QED
    BY <1>6, <2>1
<1>8. rest # <<>>
  BY <1>6, <1>7
<1>9. Tail(rest) \in Seq(A)
  BY <1>7, <1>8, HeadTailProperties
<1> QED
  BY <1>3, <1>7, <1>8, <1>9 DEF rest, m, len

\* One turn takes the loop from one item of the format to the next.
LEMMA StageMoves ==
    ASSUME IntBits \in Nat \ {0}, NEW items, NEW args, NEW A,
           Fitting(items, args, A), ~Odd(items, args),
           NEW k \in Nat, k < Len(items), NEW st, Stage(items, args, A, k, st)
    PROVE  /\ st.i < Len(Format(items))
           /\ Stage(items, args, A, k + 1, Turn(Format(items), st))
<1> DEFINE n == Len(items)
           fmt == Format(items)
           R == Read(items)
           W == Written(items, args)
           h == k + 1
           item == items[h]
           arg == ArgOf(items, args, h)
           text == ItemText(item)
           next == Turn(fmt, st)
<1>1. /\ n \in Nat /\ DOMAIN items = 1 .. n
      /\ \A j \in 1 .. n : items[j] \in Item
      /\ \A j \in 1 .. n : items[j].conv = 105 => ~(Signed(ArgOf(items, args, j)[1]) < 0)
  BY TextsType
<1>2. h \in 1 .. n /\ h - 1 = k /\ k \in 0 .. n /\ h \in 0 .. n
  BY <1>1
<1>3. item \in Item /\ (item.conv = 105 => ~(Signed(arg[1]) < 0))
  BY <1>1, <1>2
<1>4. /\ R \in [0 .. n -> Seq(Nat)] /\ W \in [0 .. n -> Seq(Nat)]
      /\ R[h] = R[k] \o text /\ W[h] = W[k] \o Text(item, arg)
      /\ fmt = R[n]
  <2>1. /\ R \in [0 .. n -> Seq(Nat)] /\ W \in [0 .. n -> Seq(Nat)]
        /\ \A j \in 1 .. n :
              /\ R[j] = R[j - 1] \o ItemText(items[j])
              /\ W[j] = W[j - 1] \o Text(items[j], ArgOf(items, args, j))
        /\ fmt = R[n]
    BY ReadAndWritten
  <2> HIDE DEF R, W, fmt, h, n
  <2>2. /\ R[h] = R[k] \o ItemText(items[h])
        /\ W[h] = W[k] \o Text(items[h], ArgOf(items, args, h))
    BY <1>2, <2>1
  <2> QED
    BY <2>1, <2>2
<1>5. text \in Seq(Nat)
  BY <1>3, TextOfItem
<1>6. fmt \in Seq(Nat) /\ R[k] \in Seq(Nat) /\ W[h] \in Seq(Nat)
  <2>1. n \in 0 .. n
    BY <1>1
  <2> HIDE DEF fmt, R, W, n, h
  <2> QED
    BY <1>2, <1>4, <2>1
<1> DEFINE lk == Len(R[k])
           lt == Len(text)
           len == Len(fmt)
<1>7. lk \in Nat /\ lt \in Nat /\ len \in Nat /\ lt >= 1
  <2>1. lt = 1 \/ lt = 2 \/ lt = 4
    <3> HIDE DEF item
    <3>1. item.width = 0 \/ item.width # 0
      OBVIOUS
    <3> QED
      BY <1>3, <3>1, TextOfItem
  <2>2. lk \in Nat /\ lt \in Nat /\ len \in Nat
    <3> HIDE DEF fmt, R, text
    <3> QED
      BY <1>5, <1>6
  <2> HIDE DEF lk, lt, len
  <2> QED
    BY <2>1, <2>2
<1>8. Len(R[h]) = lk + lt /\ \A m \in 1 .. lt : R[h][lk + m] = text[m]
  <2> HIDE DEF R, W, text, fmt, item, arg, h
  <2> QED
    BY <1>4, <1>5, <1>6, Concatenation
<1>9. Len(R[h]) <= len /\ \A j \in 1 .. Len(R[h]) : fmt[j] = R[h][j]
  <2> DEFINE last == Len(Texts(items))
  <2>1. h \in 0 .. last /\ Texts(items) \in Seq(Seq(Nat)) /\ last = n
    BY <1>2, TextsType
  <2> HIDE DEF h
  <2>2. Len(R[h]) <= Len(R[last])
    BY <2>1, TextsGrow
  <2>3. \A j \in 1 .. Len(R[h]) : R[last][j] = R[h][j]
    BY <2>1, TextsGrow
  <2> HIDE DEF R, n, last
  <2> HIDE DEF fmt
  <2> QED
    BY <1>4, <2>1, <2>2, <2>3
<1>10. lk + lt <= len /\ \A m \in 1 .. lt : fmt[lk + m] = text[m]
  <2>1. \A m \in 1 .. lt : lk + m \in 1 .. (lk + lt)
    <3> HIDE DEF lk, lt
    <3> QED
      BY <1>7
  <2> QED
    BY <1>8, <1>9, <2>1
<1>11. /\ st \in State(A) /\ st.i = lk /\ st.out = W[k]
       /\ st.ap = SubSeq(args, Convs(items, k) + 1, Len(args))
       /\ (\A j \in 1 .. k : items[j].width = 0) => st.num_width = 0
  BY DEF Stage
<1>12. Stands(item, fmt, st)
  BY <1>10, <1>11 DEF Stands
<1>13. st.i < len
  <2> HIDE DEF lk, lt, len
  <2>1. lk < len
    BY <1>7, <1>10
  <2> QED
    BY <1>11, <2>1
<1>14. args \in Seq(A) /\ Convs(items, k) \in Nat
       /\ Convs(items, h) = Convs(items, k) + (IF item.conv # NoConv THEN 1 ELSE 0)
  BY ConvsCount DEF Fitting
<1>15. CASE item.conv = NoConv
  <2>1. item.width = 0 /\ (item.char = Percent => h = n)
    BY <1>1, <1>2, <1>15 DEF Fitting, WellFormed
  <2>2. lt = 1
    BY <1>3, <1>15, TextOfItem
  <2>3. item.char = Percent => st.i + 1 = Len(fmt)
    BY <1>4, <1>8, <1>11, <2>1, <2>2
  <2> HIDE DEF fmt, R, W, item, arg, text, h
  <2>4. next = [ i |-> st.i + 1, num_width |-> st.num_width, ap |-> st.ap,
                             out |-> st.out \o Text(item, arg) ]
    <3>1. next = Turn(fmt, st)
      OBVIOUS
    <3> HIDE DEF next
    <3>2. Turn(fmt, st) = [ i |-> st.i + 1, num_width |-> st.num_width, ap |-> st.ap,
                             out |-> st.out \o Text(item, arg) ]
      BY <1>3, <1>6, <1>11, <1>12, <1>15, <2>3, TurnOfChar
    <3> QED
      BY <3>1, <3>2
  <2>5. /\ next.i = Len(R[h]) /\ next.out = W[h] /\ next.ap = st.ap
        /\ next.num_width = st.num_width
        /\ next \in State(A)
    <3> HIDE DEF next
    <3>1. /\ next.i = st.i + 1 /\ next.out = st.out \o Text(item, arg) /\ next.ap = st.ap
          /\ next.num_width = st.num_width
      BY <2>4, <1>11 DEF State
    <3>2. next.i \in Nat /\ next.out \in Seq(Nat)
      BY <3>1, <1>4, <1>6, <1>7, <1>11
    <3>3. next \in State(A)
      BY <2>4, <1>11, <3>1, <3>2 DEF State
    <3> QED
      BY <1>4, <1>8, <1>11, <2>2, <3>1, <3>3
  <2>6. Convs(items, h) = Convs(items, k)
    BY <1>14, <1>15
  <2>7. ASSUME \A j \in 1 .. h : items[j].width = 0
        PROVE  next.num_width = 0
    <3>1. \A j \in 1 .. k : items[j].width = 0
      BY <2>7 DEF h
    <3> QED
      BY <1>11, <2>5, <3>1
  <2> HIDE DEF next
  <2>8. Stage(items, args, A, h, next)
    BY <1>11, <2>5, <2>6, <2>7 DEF Stage, R, W
  <2> QED
    BY <1>13, <2>8 DEF fmt, next, h
<1>16. CASE item.conv # NoConv
  <2> DEFINE m == Convs(items, k)
             la == Len(args)
  <2>1. Convs(items, h) = m + 1
    BY <1>14, <1>16
  <2>2. m \in Nat /\ la \in Nat /\ m < la
    <3>1. Convs(items, h) <= la
      BY <1>1, <1>2, ConvsGrow DEF Fitting
    <3>2. m \in Nat /\ la \in Nat /\ m + 1 <= la
      BY <1>14, <2>1, <3>1
    <3> HIDE DEF m, la
    <3> QED
      BY <3>2
  <2>3. /\ Head(st.ap) = args[m + 1]
        /\ Tail(st.ap) = SubSeq(args, (m + 1) + 1, la) /\ Tail(st.ap) \in Seq(A)
    BY <1>11, <1>14, <2>2, RestOf, ZenonT(30)
  <2>4. arg = args[m + 1]
    BY <2>1 DEF ArgOf
  <2>5. Typed(item, arg)
    <3>1. \A j \in 1 .. n : items[j].conv # NoConv => Typed(items[j], ArgOf(items, args, j))
      BY <1>1 DEF Fitting
    <3> HIDE DEF h, n
    <3> QED
      BY <1>2, <1>16, <3>1
  <2>6. item.width \in Nat /\ \A j \in 1 .. n : items[j].width \in Nat
    <3>1. \A x \in Item : x.width \in Nat
      BY DEF Item
    <3> HIDE DEF item, n
    <3> QED
      BY <1>1, <1>3, <3>1
  <2>7. ASSUME IsNumber(item), item.width = 0
        PROVE  st.num_width = 0
    <3>1. \A j \in 1 .. h : ~(items[j].width > 0)
      BY <1>1, <1>2, <2>7 DEF Odd
    <3>2. ASSUME NEW j \in 1 .. k
          PROVE  items[j].width = 0
      <4>1. j \in 1 .. h /\ j \in 1 .. n
        BY <1>1
      <4>2. items[j].width \in Nat /\ ~(items[j].width > 0)
        BY <2>6, <3>1, <4>1
      <4> QED
        BY <4>2
    <3> QED
      BY <1>11, <3>2
  <2> HIDE DEF fmt, R, W, item, arg, text, h
  <2>8. next = [ i |-> st.i + Len(ItemText(item)),
                 num_width |-> IF item.width = 0 THEN st.num_width ELSE item.width,
                 ap |-> Tail(st.ap), out |-> st.out \o Text(item, arg) ]
    BY <1>3, <1>6, <1>11, <1>12, <1>16, <2>3, <2>4, <2>5, <2>7, TurnOfConversion, ZenonT(30)
  <2> HIDE DEF next
  <2>9. /\ next.i = Len(R[h]) /\ next.out = W[h]
        /\ next.ap = SubSeq(args, Convs(items, h) + 1, la)
        /\ next.num_width = IF item.width = 0 THEN st.num_width ELSE item.width
    BY <1>4, <1>8, <1>11, <2>1, <2>3, <2>8 DEF text
  <2>10. next \in State(A)
    <3>1. st.num_width \in Nat /\ lk + lt \in Nat
      BY <1>7, <1>11 DEF State
    <3>2. next.i \in Nat /\ next.num_width \in Nat /\ next.ap \in Seq(A) /\ next.out \in Seq(Nat)
      BY <1>6, <1>8, <2>3, <2>6, <2>8, <2>9, <3>1
    <3> QED
      BY <2>8, <3>2 DEF State
  <2>11. ASSUME \A j \in 1 .. h : items[j].width = 0
         PROVE  next.num_width = 0
    <3>1. (\A j \in 1 .. k : items[j].width = 0) /\ item.width = 0
      <4>1. h \in 1 .. h /\ \A j \in 1 .. k : j \in 1 .. h
        BY DEF h
      <4> QED
        BY <2>11, <4>1 DEF item
    <3> QED
      BY <1>11, <2>9, <3>1
  <2>12. Stage(items, args, A, h, next)
    BY <2>9, <2>10, <2>11 DEF Stage, R, W
  <2> QED
    BY <1>13, <2>12 DEF fmt, next, h
<1> QED
  BY <1>15, <1>16

-------------------------------------------------------------------------------
(***************************************************************************)
(* The whole loop, and every call: what it prints is what printf() is to.  *)
(***************************************************************************)

\* Every item has a character at least.
LEMMA FormatIsLong ==
    ASSUME IntBits \in Nat \ {0}, NEW items, NEW args, NEW A,
           Fitting(items, args, A), ~Odd(items, args)
    PROVE  Len(Format(items)) \in Nat /\ Len(items) <= Len(Format(items))
<1> DEFINE n == Len(items)
           R == Read(items)
           T == {k \in Nat : k <= n => Len(R[k]) >= k}
<1>1. /\ n \in Nat /\ DOMAIN items = 1 .. n /\ \A j \in 1 .. n : items[j] \in Item
      /\ R \in [0 .. n -> Seq(Nat)] /\ R[0] = <<>>
      /\ \A k \in 1 .. n : R[k] = R[k - 1] \o ItemText(items[k])
      /\ Format(items) = R[n]
  BY TextsType, ReadAndWritten
<1> HIDE DEF n, R
<1>2. 0 \in T
  BY <1>1
<1>3. ASSUME NEW k \in Nat, k \in T
      PROVE  k + 1 \in T
  <2> SUFFICES ASSUME k + 1 <= n PROVE Len(R[k + 1]) >= k + 1
    OBVIOUS
  <2> DEFINE h == k + 1
             item == items[h]
             text == ItemText(item)
  <2>1. h \in 1 .. n /\ h - 1 = k /\ k \in 0 .. n /\ k <= n
    BY <1>1
  <2>2. item \in Item
    BY <1>1, <2>1
  <2>3. text \in Seq(Nat) /\ (Len(text) = 1 \/ Len(text) = 2 \/ Len(text) = 4)
    <3> HIDE DEF item
    <3>1. item.width = 0 \/ item.width # 0
      OBVIOUS
    <3> QED
      BY <2>2, <3>1, TextOfItem
  <2>4. R[h] = R[k] \o text /\ R[k] \in Seq(Nat)
    BY <1>1, <2>1
  <2> HIDE DEF h, item, text
  <2>5. Len(R[h]) = Len(R[k]) + Len(text)
    BY <2>3, <2>4, Concatenation
  <2> DEFINE lk == Len(R[k])
             lt == Len(text)
  <2>6. lk \in Nat /\ lk >= k /\ lt >= 1 /\ lt \in Nat
    <3>1. lk >= k
      BY <1>3, <2>1
    <3>2. lk \in Nat /\ lt \in Nat
      BY <2>3, <2>4
    <3>3. lt >= 1
      <4>1. lt = 1 \/ lt = 2 \/ lt = 4
        BY <2>3
      <4> HIDE DEF lt
      <4> QED
        BY <4>1
    <3> QED
      BY <3>1, <3>2, <3>3
  <2>7. lk + lt >= k + 1
    <3> HIDE DEF lk, lt
    <3> QED
      BY <2>6
  <2> QED
    BY <2>5, <2>7 DEF h
<1> HIDE DEF T
<1>4. Nat \subseteq T
  BY <1>2, <1>3, Induction
<1>5. Len(R[n]) >= n
  BY <1>1, <1>4 DEF T
<1>6. R[n] \in Seq(Nat)
  BY <1>1
<1>7. Len(R[n]) \in Nat
  BY <1>6
<1> QED
  BY <1>1, <1>5, <1>7 DEF n

\* As many turns as there are items end the loop, and print all of them; the
\* turns that kvprintf() has left change nothing.
LEMMA LoopPrints ==
    ASSUME IntBits \in Nat \ {0}, NEW items, NEW args, NEW A,
           Fitting(items, args, A), ~Odd(items, args)
    PROVE  kvprintf(Format(items), args) = printf(items, args)
<1> DEFINE n == Len(items)
           fmt == Format(items)
           len == Len(fmt)
           begin == [i |-> 0, num_width |-> 0, ap |-> args, out |-> <<>>]
           Go(st) == IF st.i < Len(fmt) THEN Turn(fmt, st) ELSE st
           Runs(a) == [k \in Nat |-> IF k = 0 THEN begin ELSE Go(a[k - 1])]
           after == CHOOSE a : a = Runs(a)
           To(k) == IF k < n THEN k ELSE n
           In(k, st) == Stage(items, args, A, To(k), st)
<1>1. n \in Nat /\ len \in Nat /\ n <= len
  BY TextsType, FormatIsLong
<1>2. /\ Read(items)[0] = <<>> /\ Written(items, args)[0] = <<>>
      /\ fmt = Read(items)[n] /\ printf(items, args) = Written(items, args)[n]
  BY ReadAndWritten
<1>3. args \in Seq(A)
  BY DEF Fitting
<1>4. Stage(items, args, A, 0, begin)
  <2>1. Convs(items, 0) = 0
    BY ConvsCount
  <2>2. args = SubSeq(args, 0 + 1, Len(args))
    <3>1. Len(args) \in Nat /\ args = [k \in 1 .. Len(args) |-> args[k]]
      BY <1>3
    <3>2. SubSeq(args, 1, Len(args)) = [k \in 1 .. ((Len(args) - 1) + 1) |-> args[(1 + k) - 1]]
      BY <1>3
    <3>3. (Len(args) - 1) + 1 = Len(args) /\ \A k \in 1 .. Len(args) : (1 + k) - 1 = k
      BY <3>1
    <3>4. SubSeq(args, 1, Len(args)) = [k \in 1 .. Len(args) |-> args[k]]
      BY <3>2, <3>3
    <3> QED
      BY <3>1, <3>4
  <2>3. begin \in State(A)
    BY <1>3 DEF State
  <2> QED
    BY <1>2, <2>1, <2>2, <2>3 DEF Stage
<1>5. In(0, begin)
  <2>1. To(0) = 0
    BY <1>1
  <2> QED
    BY <1>4, <2>1
<1>6. ASSUME NEW k \in Nat, NEW st, In(k, st)
      PROVE  In(k + 1, Go(st)) /\ Go(st) \in State(A)
  <2>1. CASE k < n
    <3>1. To(k) = k /\ To(k + 1) = k + 1
      BY <1>1, <2>1
    <3>2. Stage(items, args, A, k, st)
      BY <1>6, <3>1
    <3>3. st.i < Len(fmt) /\ Stage(items, args, A, k + 1, Turn(fmt, st))
      BY <2>1, <3>2, StageMoves
    <3>4. Go(st) = Turn(fmt, st)
      BY <3>3
    <3> QED
      BY <3>1, <3>3, <3>4 DEF Stage
  <2>2. CASE ~(k < n)
    <3>1. To(k) = n /\ To(k + 1) = n
      BY <1>1, <2>2
    <3>2. st.i = len /\ st \in State(A)
      BY <1>2, <1>6, <3>1 DEF Stage
    <3>3. ~(st.i < len)
      <4> HIDE DEF len
      <4> QED
        BY <1>1, <3>2
    <3>4. Go(st) = st
      BY <3>3
    <3> QED
      BY <1>6, <3>1, <3>2, <3>4
  <2> QED
    BY <2>1, <2>2
<1> HIDE DEF Go, In
<1>7. \E a : a = Runs(a)
  <2> DEFINE X == State(A)
             step == [k \in Nat |-> [x \in X |-> IF Go(x) \in X THEN Go(x) ELSE begin]]
  <2>1. begin \in X
    BY <1>4 DEF Stage
  <2> HIDE DEF begin
  <2>2. step \in [Nat -> [X -> X]]
    BY <2>1
  <2> HIDE DEF X, step
  <2>3. PICK f : Recurs(f, X, begin, step)
    BY <2>1, <2>2, Recursion
  <2>4. f \in [Nat -> X] /\ f[0] = begin
    BY <2>3 DEF Recurs
  <2>5. ASSUME NEW k \in Nat, In(k, f[k])
        PROVE  f[k + 1] = Go(f[k]) /\ In(k + 1, f[k + 1])
    <3>1. In(k + 1, Go(f[k])) /\ Go(f[k]) \in X
      BY <1>6, <2>5 DEF X
    <3>2. f[k + 1] = step[k][f[k]] /\ f[k] \in X
      BY <2>3, <2>4 DEF Recurs
    <3>3. f[k + 1] = Go(f[k])
      BY <3>1, <3>2 DEF step
    <3> QED
      BY <3>1, <3>3
  <2> DEFINE T == {k \in Nat : In(k, f[k])}
  <2>6. 0 \in T /\ \A k \in Nat : k \in T => k + 1 \in T
    BY <1>5, <2>4, <2>5
  <2> HIDE DEF T
  <2>7. Nat \subseteq T
    BY <2>6, Induction
  <2>8. \A k \in Nat : f[k + 1] = Go(f[k])
    BY <2>5, <2>7 DEF T
  <2>9. ASSUME NEW k \in Nat \ {0}
        PROVE  f[k] = Go(f[k - 1])
    <3>1. k - 1 \in Nat /\ (k - 1) + 1 = k
      OBVIOUS
    <3>2. f[(k - 1) + 1] = Go(f[k - 1])
      BY <2>8, <3>1
    <3> QED
      BY <3>1, <3>2
  <2>10. f = [k \in Nat |-> IF k = 0 THEN begin ELSE Go(f[k - 1])]
    BY <2>4, <2>9
  <2> QED
    BY <2>10
<1>8. after = Runs(after)
  BY <1>7
<1>9. kvprintf(fmt, args) = after[len].out
  BY DEF kvprintf, Go
<1> HIDE DEF after
<1>10. after[0] = begin /\ \A k \in Nat : after[k + 1] = Go(after[k])
  <2> HIDE DEF begin
  <2>1. after = [k \in Nat |-> IF k = 0 THEN begin ELSE Go(after[k - 1])]
    BY <1>8
  <2>2. after[0] = begin
    BY <2>1
  <2>3. ASSUME NEW k \in Nat
        PROVE  after[k + 1] = Go(after[k])
    <3>1. k + 1 \in Nat /\ k + 1 # 0 /\ (k + 1) - 1 = k
      OBVIOUS
    <3>2. after[k + 1] = Go(after[(k + 1) - 1])
      BY <2>1, <3>1
    <3> QED
      BY <3>1, <3>2
  <2> QED
    BY <2>2, <2>3
<1> DEFINE T == {k \in Nat : In(k, after[k])}
<1>11. 0 \in T /\ \A k \in Nat : k \in T => k + 1 \in T
  BY <1>5, <1>6, <1>10
<1> HIDE DEF T
<1>12. Nat \subseteq T
  BY <1>11, Induction
<1>13. In(len, after[len])
  <2> HIDE DEF len
  <2> QED
    BY <1>1, <1>12 DEF T
<1>14. To(len) = n
  <2> HIDE DEF len, n
  <2> QED
    BY <1>1
<1>15. after[len].out = Written(items, args)[n]
  BY <1>13, <1>14 DEF In, Stage
<1> QED
  BY <1>2, <1>9, <1>15

\* A call with arguments that fit keeps what was printed equal to printf().
LEMMA SayPrints ==
    ASSUME IntBits \in Nat \ {0}, PrintsAsPrintf, NEW items, NEW args, NEW A,
           Fitting(items, args, A), Say(items, args)
    PROVE  PrintsAsPrintf'
<1> SUFFICES ASSUME ~odd', NEW d \in Displays
             PROVE  printed'[d] = said'
  BY DEF PrintsAsPrintf
<1>1. ~odd /\ ~Odd(items, args)
  BY DEF Say
<1>2. printed[d] = said
  BY <1>1 DEF PrintsAsPrintf
<1>3. kvprintf(Format(items), args) = printf(items, args)
  BY <1>1, LoopPrints
<1>4. printed'[d] = printed[d] \o kvprintf(Format(items), args)
  BY DEF Say
<1>5. said' = said \o printf(items, args)
  BY DEF Say
<1> QED
  BY <1>2, <1>3, <1>4, <1>5

LEMMA CharsFit ==
    ASSUME NEW s \in Seq(Nat \ {Percent})
    PROVE  Fitting(Chars(s), <<>>, {})
<1> DEFINE items == Chars(s)
           n == Len(s)
<1>1. n \in Nat /\ DOMAIN s = 1 .. n /\ \A k \in 1 .. n : s[k] \in Nat \ {Percent}
  OBVIOUS
<1>2. items = [k \in 1 .. n |-> Char(s[k])]
  BY <1>1 DEF Chars
<1>3. \A k \in 1 .. n : /\ Char(s[k]) \in Item
                        /\ Char(s[k]).conv = NoConv /\ Char(s[k]).width = 0
                        /\ Char(s[k]).char # Percent
  BY <1>1 DEF Char, Item
<1> HIDE DEF n, items
<1>4. items \in [1 .. n -> Item]
  BY <1>2, <1>3
<1>5. items \in Seq(Item) /\ Len(items) = n /\ DOMAIN items = 1 .. n
  BY <1>1, <1>4
<1>6. \A k \in 1 .. n : items[k].conv = NoConv /\ items[k].width = 0 /\ items[k].char # Percent
  BY <1>2, <1>3
<1>7. Convs(items, n) = 0
  <2>1. {j \in 1 .. n : items[j].conv # NoConv} = {}
    BY <1>6
  <2>2. Cardinality({}) = 0
    BY FS_EmptySet
  <2> QED
    BY <2>1, <2>2 DEF Convs
<1>8. WellFormed(items)
  BY <1>5, <1>6 DEF WellFormed
<1>9. <<>> \in Seq({}) /\ Len(<<>>) = 0
  OBVIOUS
<1>10. Fitting(items, <<>>, {})
  BY <1>5, <1>6, <1>7, <1>8, <1>9 DEF Fitting
<1> QED
  BY <1>10 DEF items

\* A format of one conversion, alone and in front of a character, fits.
LEMMA ConversionFits ==
    ASSUME NEW conv \in {120, 99}, NEW width \in 0 .. 9, NEW arg,
           Typed(Conv(conv, width), arg), NEW ch \in Nat \ {Percent}
    PROVE  /\ Fitting(<< Conv(conv, width) >>, << arg >>, {arg})
           /\ Fitting(<< Conv(conv, width), Char(ch) >>, << arg >>, {arg})
<1> DEFINE first == Conv(conv, width)
           second == Char(ch)
<1>1. /\ first \in Item /\ first.conv # NoConv
      /\ second \in Item /\ second.conv = NoConv /\ second.width = 0 /\ second.char # Percent
  BY DEF Conv, Char, Item, NoConv
<1> HIDE DEF first, second
<1>2. << arg >> \in Seq({arg}) /\ Len(<< arg >>) = 1 /\ << arg >>[1] = arg
  OBVIOUS
<1>3. ASSUME NEW items, items[1] = first
      PROVE  Convs(items, 1) = 1 /\ Convs(items, 2) = 1 + (IF items[2].conv # NoConv THEN 1 ELSE 0)
  <2>1. /\ Convs(items, 0) = 0
        /\ Convs(items, 0 + 1) =
              Convs(items, 0) + (IF items[0 + 1].conv # NoConv THEN 1 ELSE 0)
        /\ Convs(items, 1 + 1) =
              Convs(items, 1) + (IF items[1 + 1].conv # NoConv THEN 1 ELSE 0)
    BY ConvsCount
  <2> QED
    BY <1>1, <1>3, <2>1
<1>4. Typed(first, arg)
  BY DEF first
<1>5. Fitting(<< first >>, << arg >>, {arg})
  <2> DEFINE items == << first >>
  <2>1. /\ items \in Seq(Item) /\ Len(items) = 1 /\ DOMAIN items = 1 .. 1
        /\ items[1] = first
    BY <1>1
  <2> HIDE DEF items
  <2>2. Convs(items, 1) = 1
    BY <1>3, <2>1
  <2>3. WellFormed(items)
    BY <1>1, <2>1 DEF WellFormed
  <2>4. ASSUME NEW k \in DOMAIN items
        PROVE  Typed(items[k], ArgOf(items, << arg >>, k))
    <3>1. k = 1
      BY <2>1
    <3> QED
      BY <1>2, <1>4, <2>1, <2>2, <3>1 DEF ArgOf
  <2>5. Fitting(items, << arg >>, {arg})
    BY <1>2, <2>1, <2>2, <2>3, <2>4 DEF Fitting
  <2> QED
    BY <2>5 DEF items
<1>6. Fitting(<< first, second >>, << arg >>, {arg})
  <2> DEFINE items == << first, second >>
  <2>1. /\ items \in Seq(Item) /\ Len(items) = 2 /\ DOMAIN items = 1 .. 2
        /\ items[1] = first /\ items[2] = second
    BY <1>1
  <2> HIDE DEF items
  <2>2. Convs(items, 1) = 1 /\ Convs(items, 2) = 1
    BY <1>1, <1>3, <2>1
  <2>3. WellFormed(items)
    BY <1>1, <2>1 DEF WellFormed
  <2>4. ASSUME NEW k \in DOMAIN items, items[k].conv # NoConv
        PROVE  Typed(items[k], ArgOf(items, << arg >>, k))
    <3>1. k = 1
      BY <1>1, <2>1, <2>4
    <3> QED
      BY <1>2, <1>4, <2>1, <2>2, <3>1 DEF ArgOf
  <2>5. Fitting(items, << arg >>, {arg})
    BY <1>2, <2>1, <2>2, <2>3, <2>4 DEF Fitting
  <2> QED
    BY <2>5 DEF items
<1> QED
  BY <1>5, <1>6 DEF first, second

\* What the calls of kprintf() get fits their formats.
LEMMA CallFits ==
    ASSUME NEW items \in Calls,
           NEW args \in [1 .. Convs(items, Len(items)) -> IntArgs \cup StrArgs \cup CharArgs],
           \A k \in DOMAIN items : items[k].conv # NoConv =>
               Fits(items[k], ArgOf(items, args, k))
    PROVE  Fitting(items, args, IntArgs \cup StrArgs \cup CharArgs)
<1> DEFINE A == IntArgs \cup StrArgs \cup CharArgs
           n == Len(items)
<1>1. WellFormed(items)
  BY CallsAssumption
<1>2. n \in Nat /\ DOMAIN items = 1 .. n /\ \A k \in 1 .. n : items[k] \in Item
  BY <1>1 DEF WellFormed
<1>3. args \in Seq(A) /\ Len(args) = Convs(items, n)
  <2>1. Convs(items, n) \in Nat
    BY <1>2, ConvsCount
  <2> HIDE DEF A, n
  <2>2. args \in [1 .. Convs(items, n) -> A]
    BY DEF A, n
  <2> QED
    BY <2>1, <2>2
<1>4. ASSUME NEW k \in DOMAIN items, items[k].conv # NoConv
      PROVE  Typed(items[k], ArgOf(items, args, k))
  <2> DEFINE item == items[k]
             arg == ArgOf(items, args, k)
  <2>1. Fits(item, arg) /\ item.conv \in {105, 115, 120, 99}
    BY <1>2, <1>4 DEF Item, NoConv
  <2> SUFFICES Typed(item, arg)
    OBVIOUS
  <2> HIDE DEF item, arg
  <2>2. CASE item.conv = 115
    <3>1. arg \in StrArgs
      BY <2>1, <2>2 DEF Fits
    <3>2. arg \in Seq(Nat)
      BY <3>1, CallsAssumption
    <3> QED
      BY <2>2, <3>2 DEF Typed
  <2>3. CASE item.conv = 99
    <3>1. arg \in CharArgs
      BY <2>1, <2>3 DEF Fits
    <3>2. arg \in [1 .. 1 -> 0 .. 255]
      BY <3>1, CallsAssumption
    <3> QED
      BY <2>3, <3>2 DEF Typed
  <2>4. CASE item.conv = 105
    <3>1. arg \in IntArgs
      BY <2>1, <2>4 DEF Fits
    <3>2. arg \in [1 .. 1 -> Int]
      BY <3>1, CallsAssumption
    <3> QED
      BY <2>4, <3>2 DEF Typed
  <2>5. CASE item.conv = 120
    <3>1. arg \in IntArgs
      BY <2>1, <2>5 DEF Fits
    <3>2. arg \in [1 .. 1 -> Int]
      BY <3>1, CallsAssumption
    <3> QED
      BY <2>5, <3>2 DEF Typed
  <2> QED
    BY <2>1, <2>2, <2>3, <2>4, <2>5
<1> QED
  BY <1>1, <1>3, <1>4 DEF Fitting

\* Where khexdump() is in the memory it dumps.
DumpInv ==
    /\ data \in Seq(0 .. 255)
    /\ i \in Nat /\ c \in Nat /\ start \in Nat /\ written \in Nat
    /\ i <= Len(data)
    /\ pc = "bytes" => start + c = i
    /\ pc \in {"fill", "text"} => start + written = i

LEMMA DumpInvInit == Init => DumpInv
<1> SUFFICES ASSUME Init PROVE DumpInv
  OBVIOUS
<1>1. data \in Seq(0 .. 255)
  <2>1. CASE data = <<>>
    BY <2>1
  <2>2. CASE data \in Dumps
    BY <2>2, CallsAssumption
  <2> QED
    BY <2>1, <2>2 DEF Init
<1>2. Len(data) \in Nat
  BY <1>1
<1> QED
  BY <1>1, <1>2 DEF Init, DumpInv

LEMMA DumpInvStep == DumpInv /\ [Next]_vars => DumpInv'
<1> SUFFICES ASSUME DumpInv, [Next]_vars PROVE DumpInv'
  OBVIOUS
<1> DEFINE len == Len(data)
<1>1. data \in Seq(0 .. 255) /\ len \in Nat
  BY DEF DumpInv
<1> USE DEF DumpInv
<1>2. CASE kprintf
  BY <1>2 DEF kprintf
<1>3. CASE Heading
  BY <1>3 DEF Heading
<1>4. CASE BeginRow
  BY <1>4 DEF BeginRow
<1>5. CASE WriteByte
  <2>1. /\ data' = data /\ i' = i + 1 /\ c' = c + 1 /\ start' = start /\ written' = written
        /\ i < len /\ pc = "bytes" /\ pc' = pc
    BY <1>5 DEF WriteByte
  <2>2. i + 1 <= len
    <3>1. i \in Nat /\ i < len
      BY <2>1
    <3> HIDE DEF len
    <3> QED
      BY <1>1, <3>1
  <2>3. start + (c + 1) = i + 1
    BY <2>1
  <2> QED
    BY <2>1, <2>2, <2>3
<1>6. CASE EndBytes
  BY <1>6 DEF EndBytes
<1>7. CASE Fill
  BY <1>7 DEF Fill
<1>8. CASE BeginText
  BY <1>8 DEF BeginText
<1>9. CASE WriteText
  BY <1>9 DEF WriteText
<1>10. CASE FillText
  BY <1>10 DEF FillText
<1>11. CASE EndRow
  BY <1>11 DEF EndRow
<1>12. CASE Footer
  BY <1>12 DEF Footer
<1>13. CASE UNCHANGED vars
  BY <1>13 DEF vars
<1> QED
  BY <1>2, <1>3, <1>4, <1>5, <1>6, <1>7, <1>8, <1>9, <1>10, <1>11, <1>12, <1>13
     DEF Next, khexdump

LEMMA PrintsInit == Init => PrintsAsPrintf
BY DEF Init, PrintsAsPrintf

\* Characters that are printed alone, and a conversion that is.
LEMMA SayChars ==
    ASSUME PrintsAsPrintf, NEW s \in Seq(Nat \ {Percent}), Say(Chars(s), <<>>)
    PROVE  PrintsAsPrintf'
<1>1. IntBits \in Nat \ {0}
  BY CallsAssumption
<1> QED
  BY <1>1, CharsFit, SayPrints

LEMMA PrintsStep == DumpInv /\ PrintsAsPrintf /\ [Next]_vars => PrintsAsPrintf'
<1> SUFFICES ASSUME DumpInv, PrintsAsPrintf, [Next]_vars PROVE PrintsAsPrintf'
  OBVIOUS
<1>1. IntBits \in Nat \ {0}
  BY CallsAssumption
<1>2. Silent \/ UNCHANGED vars => PrintsAsPrintf'
  BY DEF Silent, vars, PrintsAsPrintf
<1>3. CASE kprintf
  <2>1. PICK items \in Calls :
          \E args \in [1 .. Convs(items, Len(items)) -> IntArgs \cup StrArgs \cup CharArgs] :
             /\ \A k \in DOMAIN items : items[k].conv # NoConv =>
                   Fits(items[k], ArgOf(items, args, k))
             /\ Say(items, args)
    BY <1>3 DEF kprintf
  <2>2. PICK args \in [1 .. Convs(items, Len(items)) -> IntArgs \cup StrArgs \cup CharArgs] :
             /\ \A k \in DOMAIN items : items[k].conv # NoConv =>
                   Fits(items[k], ArgOf(items, args, k))
             /\ Say(items, args)
    BY <2>1
  <2>3. Fitting(items, args, IntArgs \cup StrArgs \cup CharArgs)
    BY <2>2, CallFits
  <2> QED
    BY <1>1, <2>2, <2>3, SayPrints
<1>4. CASE Heading \/ Footer
  <2>1. Say(Chars(<< 45, Newline >>), <<>>)
    BY <1>4 DEF Heading, Footer
  <2>2. << 45, Newline >> \in Seq(Nat \ {Percent})
    BY DEF Newline, Percent
  <2> QED
    BY <2>1, <2>2, SayChars
<1>5. CASE BeginRow
  <2>1. Say(<< Conv(120, 8), Char(Bar) >>, << << i >> >>)
    BY <1>5 DEF BeginRow
  <2>2. Typed(Conv(120, 8), << i >>)
    BY DEF Typed, Conv, DumpInv
  <2>3. Bar \in Nat \ {Percent}
    BY DEF Bar, Percent
  <2>4. Fitting(<< Conv(120, 8), Char(Bar) >>, << << i >> >>, {<< i >>})
    <3>1. 120 \in {120, 99} /\ 8 \in 0 .. 9
      OBVIOUS
    <3> QED
      BY <2>2, <2>3, <3>1, ConversionFits
  <2> QED
    BY <1>1, <2>1, <2>4, SayPrints
<1>6. CASE WriteByte
  <2> DEFINE byte == data[i + 1]
  <2>1. Say(<< Conv(120, 2), Char(Blank) >>, << << byte >> >>)
    BY <1>6 DEF WriteByte
  <2>2. byte \in Int
    <3> DEFINE len == Len(data)
               k == i + 1
    <3>1. data \in Seq(0 .. 255) /\ i \in Nat /\ i < len /\ len \in Nat
      BY <1>6 DEF WriteByte, DumpInv
    <3>2. k \in 1 .. len
      <4> HIDE DEF len
      <4> QED
        BY <3>1
    <3> HIDE DEF k
    <3>3. data[k] \in 0 .. 255
      BY <3>1, <3>2, ElementOfSeq
    <3> QED
      BY <3>3 DEF k
  <2> HIDE DEF byte
  <2>3. Typed(Conv(120, 2), << byte >>)
    BY <2>2 DEF Typed, Conv
  <2>4. Blank \in Nat \ {Percent}
    BY DEF Blank, Percent
  <2>5. Fitting(<< Conv(120, 2), Char(Blank) >>, << << byte >> >>, {<< byte >>})
    <3>1. 120 \in {120, 99} /\ 2 \in 0 .. 9
      OBVIOUS
    <3> QED
      BY <2>3, <2>4, <3>1, ConversionFits
  <2> QED
    BY <1>1, <2>1, <2>5, SayPrints
<1>7. CASE EndBytes
  BY <1>2, <1>7 DEF EndBytes
<1>8. CASE Fill
  <2>1. Say(Chars(<< Blank, Blank, Blank >>), <<>>)
    BY <1>8 DEF Fill
  <2>2. << Blank, Blank, Blank >> \in Seq(Nat \ {Percent})
    BY DEF Blank, Percent
  <2> QED
    BY <2>1, <2>2, SayChars
<1>9. CASE BeginText
  <2>1. Say(Chars(<< Bar >>), <<>>)
    BY <1>9 DEF BeginText
  <2>2. << Bar >> \in Seq(Nat \ {Percent})
    BY DEF Bar, Percent
  <2> QED
    BY <2>1, <2>2, SayChars
<1>10. CASE WriteText
  <2> DEFINE byte == data[start + c + 1]
  <2>1. Say(<< Conv(99, 0) >>, << << byte >> >>) \/ Say(Chars(<< 46 >>), <<>>)
    BY <1>10 DEF WriteText
  <2>2. byte \in 0 .. 255
    <3> DEFINE len == Len(data)
               k == start + c + 1
    <3>1. /\ data \in Seq(0 .. 255) /\ i \in Nat /\ i <= len /\ len \in Nat
          /\ start \in Nat /\ c \in Nat /\ written \in Nat /\ start + written = i /\ c < written
      BY <1>10 DEF WriteText, DumpInv
    <3>2. k \in 1 .. len
      <4> HIDE DEF len
      <4> QED
        BY <3>1
    <3> HIDE DEF k
    <3>3. data[k] \in 0 .. 255
      BY <3>1, <3>2, ElementOfSeq
    <3> QED
      BY <3>3 DEF k
  <2> HIDE DEF byte
  <2>3. Fitting(<< Conv(99, 0) >>, << << byte >> >>, {<< byte >>})
    <3>1. Typed(Conv(99, 0), << byte >>)
      BY <2>2 DEF Typed, Conv
    <3>2. 65 \in Nat \ {Percent}
      BY DEF Percent
    <3>3. 99 \in {120, 99} /\ 0 \in 0 .. 9
      OBVIOUS
    <3> QED
      BY <3>1, <3>2, <3>3, ConversionFits
  <2>4. << 46 >> \in Seq(Nat \ {Percent})
    BY DEF Percent
  <2> QED
    BY <1>1, <2>1, <2>3, <2>4, SayPrints, SayChars
<1>11. CASE FillText
  <2>1. Say(Chars(<< Blank >>), <<>>)
    BY <1>11 DEF FillText
  <2>2. << Blank >> \in Seq(Nat \ {Percent})
    BY DEF Blank, Percent
  <2> QED
    BY <2>1, <2>2, SayChars
<1>12. CASE EndRow
  <2>1. Say(Chars(<< Bar, Newline >>), <<>>)
    BY <1>12 DEF EndRow
  <2>2. << Bar, Newline >> \in Seq(Nat \ {Percent})
    BY DEF Bar, Newline, Percent
  <2> QED
    BY <2>1, <2>2, SayChars
<1> QED
  BY <1>2, <1>3, <1>4, <1>5, <1>6, <1>7, <1>8, <1>9, <1>10, <1>11, <1>12
     DEF Next, khexdump

\* What kvprintf() shows of a call, and itoa() of a number, is what printf()
\* is to show (display.c:46-140, stdlib.c:8-52): for formats of any length and
\* order of conversions, numbers of every size an unsigned int has, any widths
\* and texts, except for the calls in Odd.
THEOREM FormatsAreShown == Spec => []PrintsAsPrintf
<1> DEFINE Inv == DumpInv /\ PrintsAsPrintf
<1>1. Init => Inv
  BY DumpInvInit, PrintsInit
<1>2. Inv /\ [Next]_vars => Inv'
  BY DumpInvStep, PrintsStep
<1>3. Inv => PrintsAsPrintf
  OBVIOUS
<1> QED
  BY <1>1, <1>2, <1>3, PTL DEF Spec

-------------------------------------------------------------------------------
(***************************************************************************)
(* What the calls of khexdump() print.                                     *)
(***************************************************************************)

\* Joining the characters of a text gives the text.
LEMMA FlattenSingles ==
    ASSUME NEW S, NEW s \in Seq(S)
    PROVE  FlattenSeq([k \in 1 .. Len(s) |-> << s[k] >>]) = s
<1> DEFINE n == Len(s)
           seqs == [k \in 1 .. n |-> << s[k] >>]
           J == Joined(S, seqs)
           T == {k \in Nat : k <= n => Len(J[k]) = k /\ \A j \in 1 .. k : J[k][j] = s[j]}
<1>1. n \in Nat /\ \A k \in 1 .. n : s[k] \in S
  OBVIOUS
<1>2. seqs \in Seq(Seq(S)) /\ Len(seqs) = n
  <2>1. \A k \in 1 .. n : << s[k] >> \in Seq(S)
    BY <1>1
  <2>2. seqs \in [1 .. n -> Seq(S)]
    BY <2>1
  <2> HIDE DEF seqs, n
  <2> QED
    BY <1>1, <2>2
<1>3. \A k \in 1 .. n : seqs[k] = << s[k] >>
  OBVIOUS
<1> HIDE DEF seqs
<1>4. /\ J \in [0 .. n -> Seq(S)] /\ J[0] = <<>>
      /\ \A k \in 1 .. n : J[k] = J[k - 1] \o << s[k] >>
      /\ FlattenSeq(seqs) = J[n]
  <2>1. J \in [0 .. Len(seqs) -> Seq(S)] /\ Parts(J, seqs) /\ FlattenSeq(seqs) = J[Len(seqs)]
    BY <1>2, PartsExist, FlattenIsJoined
  <2> HIDE DEF J, n
  <2> QED
    BY <1>2, <1>3, <2>1 DEF Parts
<1> HIDE DEF J, n
<1>5. 0 \in T
  BY <1>4
<1>6. ASSUME NEW k \in Nat, k \in T
      PROVE  k + 1 \in T
  <2> SUFFICES ASSUME k + 1 <= n
               PROVE  Len(J[k + 1]) = k + 1 /\ \A j \in 1 .. (k + 1) : J[k + 1][j] = s[j]
    OBVIOUS
  <2> DEFINE u == J[k]
             v == << s[k + 1] >>
             w == J[k + 1]
  <2>1. k + 1 \in 1 .. n /\ k \in 0 .. n /\ (k + 1) - 1 = k /\ k <= n
    BY <1>1
  <2>2. w = u \o v /\ u \in Seq(S)
    BY <1>4, <2>1
  <2>3. v \in Seq(S) /\ Len(v) = 1 /\ v[1] = s[k + 1]
    BY <1>1, <2>1
  <2>4. Len(u) = k /\ \A j \in 1 .. k : u[j] = s[j]
    BY <1>6, <2>1
  <2> HIDE DEF u, v, w
  <2>5. /\ Len(w) = Len(u) + Len(v)
        /\ \A j \in 1 .. Len(u) : w[j] = u[j]
        /\ \A j \in 1 .. Len(v) : w[Len(u) + j] = v[j]
    <3>1. v \in Seq(S)
      BY <2>3
    <3> QED
      BY <2>2, <3>1, Concatenation
  <2>6. Len(w) = k + 1 /\ (\A j \in 1 .. k : w[j] = s[j]) /\ w[k + 1] = s[k + 1]
    BY <2>3, <2>4, <2>5
  <2>7. \A j \in 1 .. (k + 1) : w[j] = s[j]
    BY <2>6
  <2> QED
    BY <2>6, <2>7 DEF w
<1> HIDE DEF T
<1>7. Nat \subseteq T
  BY <1>5, <1>6, Induction
<1>8. Len(J[n]) = n /\ \A j \in 1 .. n : J[n][j] = s[j]
  BY <1>1, <1>7 DEF T
<1>9. J[n] \in Seq(S)
  BY <1>1, <1>4
<1>10. J[n] = s
  BY <1>8, <1>9, SeqEqual DEF n
<1> QED
  BY <1>4, <1>10 DEF seqs, n

\* Two parts joined.
LEMMA FlattenPair ==
    ASSUME NEW S, NEW s \in Seq(S), NEW t \in Seq(S)
    PROVE  FlattenSeq(<< s, t >>) = s \o t
<1> DEFINE seqs == << s, t >>
           J == Joined(S, seqs)
<1>1. seqs \in Seq(Seq(S)) /\ Len(seqs) = 2 /\ seqs[1] = s /\ seqs[2] = t
  OBVIOUS
<1> HIDE DEF seqs
<1>2. /\ J[0] = <<>>
      /\ \A k \in 1 .. 2 : J[k] = J[k - 1] \o seqs[k]
      /\ FlattenSeq(seqs) = J[2]
  <2>1. Parts(J, seqs)
    BY <1>1, PartsExist
  <2>2. FlattenSeq(seqs) = J[Len(seqs)]
    BY <1>1, FlattenIsJoined
  <2> HIDE DEF J
  <2> QED
    BY <1>1, <2>1, <2>2 DEF Parts
<1> HIDE DEF J
<1>3. J[1] = <<>> \o s /\ J[2] = J[1] \o t
  <2>1. 1 \in 1 .. 2 /\ 2 \in 1 .. 2 /\ 1 - 1 = 0 /\ 2 - 1 = 1
    OBVIOUS
  <2> QED
    BY <1>1, <1>2, <2>1
<1>4. <<>> \o s = s
  OBVIOUS
<1> QED
  BY <1>2, <1>3, <1>4 DEF seqs

\* Characters without a percent sign are printed as they are.
LEMMA CharsShown ==
    ASSUME NEW s \in Seq(Nat \ {Percent})
    PROVE  kvprintf(Format(Chars(s)), <<>>) = s
<1> DEFINE items == Chars(s)
           n == Len(s)
<1>0. IntBits \in Nat \ {0}
  BY CallsAssumption
<1>1. n \in Nat /\ DOMAIN s = 1 .. n /\ \A k \in 1 .. n : s[k] \in Nat \ {Percent}
  OBVIOUS
<1>2. items = [k \in 1 .. n |-> Char(s[k])]
  BY <1>1 DEF Chars
<1>3. DOMAIN items = 1 .. n
      /\ \A k \in 1 .. n : items[k].conv = NoConv /\ items[k].char = s[k]
  BY <1>2 DEF Char
<1>4. Fitting(items, <<>>, {})
  BY CharsFit
<1> HIDE DEF items, n
<1>5. ~Odd(items, <<>>)
  BY <1>3 DEF Odd, IsNumber, NoConv
<1>6. kvprintf(Format(items), <<>>) = printf(items, <<>>)
  BY <1>0, <1>4, <1>5, LoopPrints
<1>7. printf(items, <<>>) = FlattenSeq([k \in 1 .. n |-> << s[k] >>])
  <2>1. printf(items, <<>>) =
            FlattenSeq([k \in DOMAIN items |->
                IF items[k].conv # NoConv THEN Shown(items[k], ArgOf(items, <<>>, k))
                ELSE IF items[k].char = Percent THEN <<>>
                ELSE << items[k].char >>])
    BY <1>5 DEF printf
  <2>2. [k \in DOMAIN items |->
                IF items[k].conv # NoConv THEN Shown(items[k], ArgOf(items, <<>>, k))
                ELSE IF items[k].char = Percent THEN <<>>
                ELSE << items[k].char >>]
        = [k \in 1 .. n |-> << s[k] >>]
    BY <1>1, <1>3
  <2> QED
    BY <2>1, <2>2
<1>8. FlattenSeq([k \in 1 .. n |-> << s[k] >>]) = s
  BY FlattenSingles DEF n
<1> QED
  BY <1>6, <1>7, <1>8 DEF items

\* A number that is not too long for its width is printed with all its places.
LEMMA PlacesInWidth ==
    ASSUME NEW n \in Nat, n < Power(2, IntBits), NEW w \in Nat \ {0}, n < Power(16, w)
    PROVE  /\ Places(n, 16, w) = [k \in 1 .. w |-> Digit(16, n, w - k)]
           /\ Places(n, 16, w) \in Seq(Nat) /\ Len(Places(n, 16, w)) = w
<1> DEFINE P(p) == Power(16, p)
           d == Figures(16, n)
<1>0. IntBits \in Nat \ {0} /\ 16 \in 2 .. 16 /\ 16 \in Nat \ {0, 1} /\ 0 \in 0 .. 15
  BY CallsAssumption
<1>1. /\ \A p \in Nat : P(p) \in Nat \ {0}
      /\ \A p, q \in Nat : p <= q => P(p) <= P(q)
  BY <1>0, Powers, PowersGrow
<1>2. d \in Nat /\ n < P(d) /\ d <= w
  <2>1. CASE n = 0
    <3>1. d = 1
      BY <2>1 DEF Figures
    <3> HIDE DEF P
    <3>2. P(1) \in Nat \ {0}
      BY <1>1
    <3> QED
      BY <2>1, <3>1, <3>2
  <2>2. CASE n # 0
    <3>1. HasDigits(16, n, d)
      BY <1>0, <2>2, NumDigitsIs DEF Figures
    <3>2. d \in Nat /\ n < P(d) /\ (d = 0 \/ P(d - 1) <= n)
      BY <3>1 DEF HasDigits
    <3>3. d <= w
      <4> SUFFICES ASSUME d > w PROVE FALSE
        BY <3>2
      <4> HIDE DEF d
      <4>1. d - 1 \in Nat /\ w <= d - 1 /\ d # 0
        BY <3>2
      <4>2. P(w) <= P(d - 1) /\ P(w) \in Nat /\ P(d - 1) \in Nat
        BY <1>1, <4>1
      <4>3. n < P(w) /\ P(d - 1) <= n
        BY <3>2, <4>1
      <4> HIDE DEF P
      <4> QED
        BY <4>2, <4>3
    <3> QED
      BY <3>2, <3>3
  <2> QED
    BY <2>1, <2>2
<1>3. ASSUME NEW p \in Nat
      PROVE  PlaceDigit(16, n, p) = Digit(16, n, p)
  <2>1. CASE p < d
    BY <2>1 DEF PlaceDigit
  <2>2. CASE ~(p < d)
    <3> DEFINE q == n \div P(p)
    <3> HIDE DEF d
    <3>1. P(p) \in Nat \ {0} /\ n < P(p)
      <4>1. P(d) \in Nat /\ P(p) \in Nat \ {0} /\ P(d) <= P(p)
        BY <1>1, <1>2, <2>2
      <4> HIDE DEF P
      <4> QED
        BY <1>2, <4>1
    <3>2. q \in Nat /\ (1 <= q <=> P(p) * 1 <= n)
      <4> HIDE DEF P
      <4> QED
        BY <3>1, Division, QuotientReaches
    <3>3. q = 0
      <4> HIDE DEF P, q
      <4> QED
        BY <3>1, <3>2
    <3>4. Digit(16, n, p) = DigitChar(0 % 16)
      BY <3>3 DEF Digit
    <3>5. DigitChar(0 % 16) = Zero
      BY DEF DigitChar, DigitChars, Zero
    <3>6. PlaceDigit(16, n, p) = Zero
      BY <2>2 DEF PlaceDigit, d
    <3> QED
      BY <3>4, <3>5, <3>6
  <2> QED
    BY <2>1, <2>2
<1>4. Columns(16, n, w) = w
  <2> HIDE DEF d
  <2>1. Columns(16, n, w) = IF w > d THEN w ELSE d
    BY DEF Columns, d
  <2> QED
    BY <1>2, <2>1
<1>5. Places(n, 16, w) = [k \in 1 .. w |-> PlaceDigit(16, n, w - k)]
  <2>1. Places(n, 16, w) = [k \in 1 .. Columns(16, n, w) |->
                               PlaceDigit(16, n, Columns(16, n, w) - k)]
    BY <1>0, PlacesByDigits
  <2> QED
    BY <1>4, <2>1
<1>6. \A k \in 1 .. w : w - k \in Nat
  OBVIOUS
<1>7. Places(n, 16, w) = [k \in 1 .. w |-> Digit(16, n, w - k)]
  BY <1>3, <1>5, <1>6
<1>8. \A k \in 1 .. w : Digit(16, n, w - k) \in Nat
  BY <1>0, <1>6, DigitType
<1>9. Places(n, 16, w) \in [1 .. w -> Nat]
  BY <1>7, <1>8
<1> QED
  BY <1>7, <1>9

\* The one argument of a call goes to the conversion in front.
LEMMA OneArgument ==
    ASSUME NEW items, NEW arg, items[1].conv # NoConv
    PROVE  ArgOf(items, << arg >>, 1) = arg
<1>1. {j \in 1 .. 1 : items[j].conv # NoConv} = {1}
  OBVIOUS
<1>2. Cardinality({1}) = 1
  BY FS_Singleton
<1> QED
  BY <1>1, <1>2 DEF ArgOf, Convs

\* What the calls of khexdump() with a number print.
LEMMA HexShown ==
    ASSUME NEW v \in Nat, v < Power(2, IntBits), NEW w \in 1 .. 9, v < Power(16, w),
           NEW ch \in Nat \ {Percent}
    PROVE  kvprintf(Format(<< Conv(120, w), Char(ch) >>), << << v >> >>)
               = [k \in 1 .. w |-> Digit(16, v, w - k)] \o << ch >>
<1> DEFINE items == << Conv(120, w), Char(ch) >>
           args == << << v >> >>
           places == [k \in 1 .. w |-> Digit(16, v, w - k)]
           limit == Power(2, IntBits)
<1>0. IntBits \in Nat \ {0}
  BY CallsAssumption
<1>1. /\ Len(items) = 2 /\ DOMAIN items = 1 .. 2
      /\ items[1] = Conv(120, w) /\ items[2] = Char(ch)
  OBVIOUS
<1>2. /\ items[1].conv = 120 /\ items[1].width = w
      /\ items[2].conv = NoConv /\ items[2].char = ch
  BY <1>1 DEF Conv, Char, NoConv
<1>3. Fitting(items, args, {<< v >>})
  <2>1. Typed(Conv(120, w), << v >>)
    BY DEF Typed, Conv
  <2>2. 120 \in {120, 99} /\ w \in 0 .. 9
    OBVIOUS
  <2> QED
    BY <2>1, <2>2, ConversionFits
<1> HIDE DEF items
<1>4. ~Odd(items, args)
  <2>1. ASSUME NEW k \in 1 .. 2
        PROVE  ~(IsNumber(items[k]) /\ items[k].width = 0) /\ items[k].conv # 105
    <3>1. k = 1 \/ k = 2
      OBVIOUS
    <3> QED
      BY <1>2, <3>1 DEF IsNumber, NoConv
  <2> QED
    BY <1>1, <2>1 DEF Odd
<1>5. kvprintf(Format(items), args) = printf(items, args)
  BY <1>0, <1>3, <1>4, LoopPrints
<1>6. ArgOf(items, args, 1) = << v >>
  BY <1>2, OneArgument DEF NoConv
<1>7. Shown(items[1], << v >>) = places /\ places \in Seq(Nat)
  <2>1. limit \in Nat \ {0}
    <3>1. 2 \in Nat \ {0, 1} /\ IntBits \in Nat
      BY <1>0
    <3> QED
      BY <3>1, Powers
  <2>2. Unsigned(v) = v
    <3>1. v < limit
      OBVIOUS
    <3> HIDE DEF limit
    <3>2. v % limit = v
      BY <2>1, <3>1
    <3> QED
      BY <3>2 DEF Unsigned, limit
  <2>3. Shown(items[1], << v >>) = Places(v, 16, w)
    BY <1>2, <2>2 DEF Shown
  <2>4. w \in Nat \ {0}
    OBVIOUS
  <2> QED
    BY <2>3, <2>4, PlacesInWidth
<1>8. printf(items, args) = FlattenSeq(<< places, << ch >> >>)
  <2> DEFINE part(k) == IF items[k].conv # NoConv THEN Shown(items[k], ArgOf(items, args, k))
                        ELSE IF items[k].char = Percent THEN <<>> ELSE << items[k].char >>
  <2>1. printf(items, args) = FlattenSeq([k \in DOMAIN items |-> part(k)])
    BY <1>4 DEF printf
  <2>2. part(1) = places /\ part(2) = << ch >>
    BY <1>2, <1>6, <1>7 DEF NoConv
  <2> HIDE DEF part, places
  <2>3. [k \in 1 .. 2 |-> part(k)] = << places, << ch >> >>
    BY <2>2
  <2> QED
    BY <1>1, <2>1, <2>3
<1> HIDE DEF places
<1>9. << ch >> \in Seq(Nat)
  OBVIOUS
<1>10. FlattenSeq(<< places, << ch >> >>) = places \o << ch >>
  BY <1>7, <1>9, FlattenPair
<1> QED
  BY <1>5, <1>8, <1>10 DEF items, places

\* A byte printed as a character.
LEMMA ByteShown ==
    ASSUME NEW byte \in 0 .. 255
    PROVE  kvprintf(Format(<< Conv(99, 0) >>), << << byte >> >>) = << byte >>
<1> DEFINE items == << Conv(99, 0) >>
           args == << << byte >> >>
<1>0. IntBits \in Nat \ {0}
  BY CallsAssumption
<1>1. Len(items) = 1 /\ DOMAIN items = 1 .. 1 /\ items[1] = Conv(99, 0)
  OBVIOUS
<1>2. items[1].conv = 99
  BY <1>1 DEF Conv
<1>3. Fitting(items, args, {<< byte >>})
  <2>1. Typed(Conv(99, 0), << byte >>)
    BY DEF Typed, Conv
  <2>2. 99 \in {120, 99} /\ 0 \in 0 .. 9 /\ 65 \in Nat \ {Percent}
    BY DEF Percent
  <2> QED
    BY <2>1, <2>2, ConversionFits
<1> HIDE DEF items
<1>4. ~Odd(items, args)
  <2>1. ASSUME NEW k \in 1 .. 1
        PROVE  ~IsNumber(items[k]) /\ items[k].conv # 105
    BY <1>2 DEF IsNumber
  <2> QED
    BY <1>1, <2>1 DEF Odd
<1>5. kvprintf(Format(items), args) = printf(items, args)
  BY <1>0, <1>3, <1>4, LoopPrints
<1>6. ArgOf(items, args, 1) = << byte >>
  BY <1>2, OneArgument DEF NoConv
<1>7. printf(items, args) = FlattenSeq([k \in 1 .. 1 |-> << byte >>])
  <2>1. ASSUME NEW k \in 1 .. 1
        PROVE  (IF items[k].conv # NoConv THEN Shown(items[k], ArgOf(items, args, k))
                ELSE IF items[k].char = Percent THEN <<>> ELSE << items[k].char >>)
               = << byte >>
    <3>1. k = 1
      OBVIOUS
    <3> QED
      BY <1>2, <1>6, <3>1 DEF Shown, NoConv
  <2> QED
    BY <1>1, <1>4, <2>1 DEF printf
<1>8. FlattenSeq([k \in 1 .. 1 |-> << byte >>]) = << byte >>
  <2> DEFINE s == << byte >>
  <2>1. s \in Seq(Nat) /\ Len(s) = 1 /\ s[1] = byte
    OBVIOUS
  <2> HIDE DEF s
  <2>2. FlattenSeq([k \in 1 .. Len(s) |-> << s[k] >>]) = s
    BY <2>1, FlattenSingles
  <2>3. [k \in 1 .. Len(s) |-> << s[k] >>] = [k \in 1 .. 1 |-> << byte >>]
    BY <2>1
  <2> QED
    BY <2>2, <2>3 DEF s
<1> QED
  BY <1>5, <1>7, <1>8 DEF items

-------------------------------------------------------------------------------
(***************************************************************************)
(* The table of a hexdump, line by line.                                   *)
(***************************************************************************)

\* The lines of the table before line n, and the first n columns of line r.
Lines(n) == FlattenSeq([r \in 1 .. n |-> TableLine(r - 1)])
Begun(r, n) == [k \in 1 .. n |-> TableLine(r)[k]]

Rule == << 45, Newline >>

\* The table up to column n of line r, and the columns that are written.
SoFar(r, n) == (Rule \o Lines(r)) \o Begun(r, n)
At == IF pc = "text" THEN 10 + 3 * BytesPerLine + c ELSE 9 + 3 * c

\* The text t goes on where m columns of line r are written.
GoesOn(r, m, t) ==
    /\ m + Len(t) <= 12 + 4 * BytesPerLine
    /\ \A k \in 1 .. Len(t) : TableLine(r)[m + k] = t[k]

Adds(t) == \A d \in Displays : printed'[d] = printed[d] \o t

HasPrinted(s) == \A d \in Displays : printed[d] = s

\* Between two lines: the first r of them are written.
BetweenLines(r) ==
    /\ i <= r * BytesPerLine
    /\ i = Len(data) \/ i = r * BytesPerLine
    /\ r = 0 \/ (r - 1) * BytesPerLine < i
    /\ HasPrinted(Rule \o Lines(r))

\* In line r: what is written ends where the loops of this line are.
InLine(r) ==
    /\ start = r * BytesPerLine /\ start < Len(data)
    /\ c <= BytesPerLine
    /\ pc \in {"fill", "text"} =>
          written <= BytesPerLine /\ (written = BytesPerLine \/ i = Len(data))
    /\ pc = "fill" => written <= c
    /\ HasPrinted(SoFar(r, At))

\* The table is about the memory, which does not change.
LEMMA SameTable ==
    ASSUME data' = data
    PROVE  /\ \A r : TableLine(r)' = TableLine(r)
           /\ \A n : Lines(n)' = Lines(n)
           /\ \A r, n : Begun(r, n)' = Begun(r, n)
           /\ \A r, n : SoFar(r, n)' = SoFar(r, n)
<1>1. ASSUME NEW r
      PROVE  TableLine(r)' = TableLine(r)
  BY DEF TableLine
<1>2. ASSUME NEW n
      PROVE  Lines(n)' = Lines(n)
  <2>1. Lines(n)' = FlattenSeq([r \in 1 .. n |-> TableLine(r - 1)'])
    BY DEF Lines
  <2>2. [r \in 1 .. n |-> TableLine(r - 1)'] = [r \in 1 .. n |-> TableLine(r - 1)]
    BY <1>1
  <2> QED
    BY <2>1, <2>2 DEF Lines
<1>3. ASSUME NEW r, NEW n
      PROVE  Begun(r, n)' = Begun(r, n)
  <2>1. Begun(r, n)' = [k \in 1 .. n |-> TableLine(r)'[k]]
    BY DEF Begun
  <2> QED
    BY <1>1, <2>1 DEF Begun
<1>4. ASSUME NEW r, NEW n
      PROVE  SoFar(r, n)' = SoFar(r, n)
  <2>1. SoFar(r, n)' = (Rule \o Lines(r)') \o Begun(r, n)'
    BY DEF SoFar, Rule
  <2> QED
    BY <1>2, <1>3, <2>1 DEF SoFar
<1> QED
  BY <1>1, <1>2, <1>3, <1>4

\* One more part is joined at the end.
LEMMA FlattenAppend ==
    ASSUME NEW S, NEW seqs \in Seq(Seq(S)), NEW t \in Seq(S)
    PROVE  FlattenSeq(Append(seqs, t)) = FlattenSeq(seqs) \o t
<1> DEFINE n == Len(seqs)
           more == Append(seqs, t)
           J == Joined(S, seqs)
           K == Joined(S, more)
           T == {k \in Nat : k <= n => K[k] = J[k]}
<1>1. n \in Nat
  OBVIOUS
<1>2. /\ more \in Seq(Seq(S)) /\ Len(more) = n + 1
      /\ more[n + 1] = t /\ \A k \in 1 .. n : more[k] = seqs[k]
  OBVIOUS
<1> HIDE DEF more
<1>3. /\ J[0] = <<>> /\ (\A k \in 1 .. n : J[k] = J[k - 1] \o seqs[k])
      /\ FlattenSeq(seqs) = J[n]
  <2> HIDE DEF n
  <2> QED
    BY PartsExist, FlattenIsJoined DEF Parts, n
<1>4. /\ K[0] = <<>> /\ (\A k \in 1 .. (n + 1) : K[k] = K[k - 1] \o more[k])
      /\ FlattenSeq(more) = K[n + 1]
  <2>1. Parts(K, more) /\ FlattenSeq(more) = K[Len(more)]
    BY <1>2, PartsExist, FlattenIsJoined
  <2> HIDE DEF K, n
  <2> QED
    BY <1>2, <2>1 DEF Parts
<1> HIDE DEF J, K, n
<1>5. 0 \in T
  BY <1>3, <1>4
<1>6. ASSUME NEW k \in Nat, k \in T
      PROVE  k + 1 \in T
  <2> SUFFICES ASSUME k + 1 <= n PROVE K[k + 1] = J[k + 1]
    OBVIOUS
  <2>1. k + 1 \in 1 .. n /\ k + 1 \in 1 .. (n + 1) /\ (k + 1) - 1 = k /\ k <= n
    BY <1>1
  <2>2. K[k + 1] = K[k] \o more[k + 1] /\ J[k + 1] = J[k] \o seqs[k + 1]
    BY <1>3, <1>4, <2>1
  <2>3. more[k + 1] = seqs[k + 1]
    BY <1>2, <2>1
  <2>4. K[k] = J[k]
    BY <1>6, <2>1
  <2> QED
    BY <2>2, <2>3, <2>4
<1> HIDE DEF T
<1>7. Nat \subseteq T
  BY <1>5, <1>6, Induction
<1>8. K[n] = J[n]
  BY <1>1, <1>7 DEF T
<1>9. n + 1 \in 1 .. (n + 1) /\ (n + 1) - 1 = n
  BY <1>1
<1>10. K[n + 1] = K[n] \o more[n + 1]
  BY <1>4, <1>9
<1> QED
  BY <1>2, <1>3, <1>4, <1>8, <1>10 DEF more

\* The columns of the two halves of a line, as TableLine has them.
ByteColumn(b, place) ==
    IF ~(b < Len(data)) \/ place = 2 THEN Blank
    ELSE DigitChar(IF place = 0 THEN data[b + 1] \div 16 ELSE data[b + 1] % 16)
TextColumn(b) ==
    IF ~(b < Len(data)) THEN Blank
    ELSE IF data[b + 1] \in 32 .. 126 THEN data[b + 1] ELSE 46

\* The columns of a line, with the constants of TableLine computed.
LEMMA ColumnOf ==
    ASSUME NEW r \in Nat, NEW k \in 1 .. (12 + 4 * BytesPerLine)
    PROVE  /\ DOMAIN TableLine(r) = 1 .. (12 + 4 * BytesPerLine)
           /\ TableLine(r) = [n \in 1 .. (12 + 4 * BytesPerLine) |-> TableLine(r)[n]]
           /\ TableLine(r)[k] =
                 IF k < 9 THEN Digit(16, r * BytesPerLine, 8 - k)
                 ELSE IF k \in {9, 10 + 3 * BytesPerLine, 11 + 4 * BytesPerLine} THEN Bar
                 ELSE IF k < 11 + 3 * BytesPerLine
                      THEN ByteColumn(r * BytesPerLine + ((k - 10) \div 3), (k - 10) % 3)
                 ELSE IF k < 11 + 4 * BytesPerLine
                      THEN TextColumn(r * BytesPerLine + (k - (11 + 3 * BytesPerLine)))
                 ELSE Newline
<1> DEFINE B == BytesPerLine
<1>1. B \in Nat \ {0}
  BY CallsAssumption
<1> DEFINE hex == 10
           text == hex + 3 * B + 1
           end == text + B
           Has(b) == r * B + b < Len(data)
           Byte(b) == data[r * B + b + 1]
           Bytes(b, place) ==
               IF ~Has(b) \/ place = 2 THEN Blank
               ELSE DigitChar(IF place = 0 THEN Byte(b) \div 16 ELSE Byte(b) % 16)
           Texts1(b) == IF ~Has(b) THEN Blank
                       ELSE IF Byte(b) \in 32 .. 126 THEN Byte(b) ELSE 46
           Col(n) ==
               IF n < hex - 1 THEN DigitChar(((r * B) \div Power(16, 8 - n)) % 16)
               ELSE IF n \in {hex - 1, text - 1, end} THEN Bar
               ELSE IF n < text THEN Bytes((n - hex) \div 3, (n - hex) % 3)
               ELSE IF n < end THEN Texts1(n - text)
               ELSE Newline
<1>2. TableLine(r) = [n \in 1 .. (end + 1) |-> Col(n)]
  BY Zenon DEF TableLine
<1>3. Bytes((k - 10) \div 3, (k - 10) % 3) = ByteColumn(r * B + ((k - 10) \div 3), (k - 10) % 3)
  BY Zenon DEF ByteColumn
<1>4. Texts1(k - text) = TextColumn(r * B + (k - text))
  BY Zenon DEF TextColumn
<1> HIDE DEF Bytes, Texts1, B
<1>5. /\ end + 1 = 12 + 4 * B /\ end = 11 + 4 * B /\ text = 11 + 3 * B
      /\ text - 1 = 10 + 3 * B /\ hex - 1 = 9
  BY <1>1
<1>6. k \in 1 .. (end + 1)
  BY <1>5 DEF B
<1>7. TableLine(r)[k] = Col(k)
  <2> HIDE DEF end, Col
  <2> QED
    BY <1>2, <1>6
<1>8. DOMAIN TableLine(r) = 1 .. (12 + 4 * B)
  <2> HIDE DEF Col
  <2> QED
    BY <1>2, <1>5
<1>9. TableLine(r) = [n \in 1 .. (12 + 4 * B) |-> TableLine(r)[n]]
  <2>1. 1 .. (end + 1) = 1 .. (12 + 4 * B)
    BY <1>5
  <2> HIDE DEF Col, end
  <2> QED
    BY <1>2, <2>1
<1>10. TableLine(r)[k] =
          IF k < 9 THEN DigitChar(((r * B) \div Power(16, 8 - k)) % 16)
          ELSE IF k \in {9, 10 + 3 * B, 11 + 4 * B} THEN Bar
          ELSE IF k < 11 + 3 * B THEN Bytes((k - 10) \div 3, (k - 10) % 3)
          ELSE IF k < 11 + 4 * B THEN Texts1(k - (11 + 3 * B))
          ELSE Newline
  <2> DEFINE num == DigitChar(((r * B) \div Power(16, 8 - k)) % 16)
             hexa == Bytes((k - 10) \div 3, (k - 10) % 3)
  <2>1. Col(k) =
          IF k < hex - 1 THEN num
          ELSE IF k \in {hex - 1, text - 1, end} THEN Bar
          ELSE IF k < text THEN hexa
          ELSE IF k < end THEN Texts1(k - text)
          ELSE Newline
    OBVIOUS
  <2> HIDE DEF num, hexa, Col, text, end, hex
  <2> QED
    BY <1>5, <1>7, <2>1, Zenon DEF num, hexa
<1> QED
  BY <1>3, <1>4, <1>5, <1>8, <1>9, <1>10, Zenon DEF Digit, B

LEMMA ColumnsType ==
    ASSUME data \in Seq(0 .. 255), NEW b \in Nat
    PROVE  (\A place : ByteColumn(b, place) \in Nat) /\ TextColumn(b) \in Nat
<1> DEFINE byte == data[b + 1]
<1>1. ASSUME b < Len(data)
      PROVE  byte \in 0 .. 255
  <2> DEFINE len == Len(data)
             k == b + 1
  <2>1. len \in Nat /\ b < len
    BY <1>1
  <2>2. k \in 1 .. len
    <3> HIDE DEF len
    <3> QED
      BY <2>1
  <2> HIDE DEF k
  <2>3. data[k] \in 0 .. 255
    BY <2>2, ElementOfSeq
  <2> QED
    BY <2>3 DEF k
<1>2. ASSUME b < Len(data)
      PROVE  byte \div 16 \in 0 .. 15 /\ byte % 16 \in 0 .. 15
  <2>1. byte \in 0 .. 255
    BY <1>1, <1>2
  <2> HIDE DEF byte
  <2> QED
    BY <2>1
<1> HIDE DEF byte
<1>3. Blank \in Nat /\ 46 \in Nat
  BY DEF Blank
<1>4. ASSUME NEW place
      PROVE  ByteColumn(b, place) \in Nat
  <2>1. CASE ~(b < Len(data)) \/ place = 2
    BY <1>3, <2>1 DEF ByteColumn
  <2>2. CASE b < Len(data) /\ place # 2
    <3> DEFINE d == IF place = 0 THEN byte \div 16 ELSE byte % 16
    <3>1. d \in 0 .. 15
      BY <1>2, <2>2
    <3>2. ByteColumn(b, place) = DigitChar(d)
      BY <2>2 DEF ByteColumn, byte
    <3> HIDE DEF d
    <3> QED
      BY <3>1, <3>2, DigitCharType
  <2> QED
    BY <2>1, <2>2
<1>5. TextColumn(b) \in Nat
  <2>1. CASE ~(b < Len(data))
    BY <1>3, <2>1 DEF TextColumn
  <2>2. CASE b < Len(data)
    <3>1. TextColumn(b) = IF byte \in 32 .. 126 THEN byte ELSE 46
      BY <2>2 DEF TextColumn, byte
    <3>2. byte \in 0 .. 255
      BY <1>1, <2>2
    <3>3. (IF byte \in 32 .. 126 THEN byte ELSE 46) \in Nat
      BY <3>2
    <3> QED
      BY <3>1, <3>3
  <2> QED
    BY <2>1, <2>2
<1> QED
  BY <1>4, <1>5

LEMMA LineType ==
    ASSUME data \in Seq(0 .. 255), NEW r \in Nat
    PROVE  /\ TableLine(r) \in Seq(Nat)
           /\ Len(TableLine(r)) = 12 + 4 * BytesPerLine
           /\ \A k \in 1 .. (12 + 4 * BytesPerLine) : TableLine(r)[k] \in Nat
<1> DEFINE B == BytesPerLine
           s == r * B
           L == TableLine(r)
<1>1. B \in Nat \ {0} /\ 16 \in 2 .. 16
  BY CallsAssumption
<1>2. s \in Nat
  BY <1>1
<1>3. ASSUME NEW k \in 1 .. (12 + 4 * B)
      PROVE  L[k] \in Nat
  <2> DEFINE num == Digit(16, s, 8 - k)
             bytes == ByteColumn(s + ((k - 10) \div 3), (k - 10) % 3)
             txt == TextColumn(s + (k - (11 + 3 * B)))
  <2>1. L[k] = IF k < 9 THEN num
               ELSE IF k \in {9, 10 + 3 * B, 11 + 4 * B} THEN Bar
               ELSE IF k < 11 + 3 * B THEN bytes
               ELSE IF k < 11 + 4 * B THEN txt
               ELSE Newline
    BY ColumnOf, Zenon
  <2> HIDE DEF B, s, L
  <2>2. CASE k < 9
    <3>1. 8 - k \in Nat
      BY <2>2
    <3>2. num \in Nat
      BY <1>1, <1>2, <3>1, DigitType
    <3> HIDE DEF num
    <3> QED
      BY <2>1, <2>2, <3>2
  <2>3. CASE k >= 10 /\ k < 11 + 3 * B
    <3>1. (k - 10) \div 3 \in Nat
      BY <2>3
    <3>2. s + ((k - 10) \div 3) \in Nat
      BY <1>2, <3>1
    <3>3. bytes \in Nat
      BY <3>2, ColumnsType
    <3> HIDE DEF bytes
    <3> QED
      BY <2>1, <2>3, <3>3 DEF Bar
  <2>4. CASE k >= 11 + 3 * B
    <3>1. s + (k - (11 + 3 * B)) \in Nat
      BY <1>1, <1>2, <2>4
    <3>2. txt \in Nat
      BY <3>1, ColumnsType
    <3>3. ~(k < 9) /\ ~(k < 11 + 3 * B)
      BY <1>1, <2>4
    <3> HIDE DEF txt
    <3> QED
      BY <2>1, <3>2, <3>3 DEF Bar, Newline
  <2>5. CASE k = 9
    BY <2>1, <2>5 DEF Bar
  <2>6. k < 9 \/ k = 9 \/ (k >= 10 /\ k < 11 + 3 * B) \/ k >= 11 + 3 * B
    BY <1>1
  <2> QED
    BY <2>2, <2>3, <2>4, <2>5, <2>6
<1>4. L = [k \in 1 .. (12 + 4 * B) |-> L[k]]
  <2>1. 1 \in 1 .. (12 + 4 * B)
    BY <1>1
  <2> QED
    BY <2>1, ColumnOf
<1> HIDE DEF B, L
<1>5. 12 + 4 * B \in Nat
  BY <1>1
<1>6. L \in [1 .. (12 + 4 * B) -> Nat]
  BY <1>3, <1>4
<1> QED
  BY <1>3, <1>5, <1>6 DEF B, L

\* The columns of a line by the byte they show.
LEMMA LineColumns ==
    ASSUME NEW r \in Nat
    PROVE  /\ \A k \in 1 .. 8 : TableLine(r)[k] = Digit(16, r * BytesPerLine, 8 - k)
           /\ TableLine(r)[9] = Bar
           /\ TableLine(r)[10 + 3 * BytesPerLine] = Bar
           /\ TableLine(r)[11 + 4 * BytesPerLine] = Bar
           /\ TableLine(r)[12 + 4 * BytesPerLine] = Newline
           /\ \A b \in 0 .. (BytesPerLine - 1) :
                 /\ TableLine(r)[10 + 3 * b] = ByteColumn(r * BytesPerLine + b, 0)
                 /\ TableLine(r)[11 + 3 * b] = ByteColumn(r * BytesPerLine + b, 1)
                 /\ TableLine(r)[12 + 3 * b] = ByteColumn(r * BytesPerLine + b, 2)
                 /\ TableLine(r)[11 + 3 * BytesPerLine + b] = TextColumn(r * BytesPerLine + b)
<1> DEFINE B == BytesPerLine
           s == r * B
           L == TableLine(r)
<1>1. B \in Nat \ {0}
  BY CallsAssumption
<1>2. s \in Nat
  BY <1>1
<1>3. \A k \in 1 .. (12 + 4 * B) :
         L[k] = IF k < 9 THEN Digit(16, s, 8 - k)
                ELSE IF k \in {9, 10 + 3 * B, 11 + 4 * B} THEN Bar
                ELSE IF k < 11 + 3 * B THEN ByteColumn(s + ((k - 10) \div 3), (k - 10) % 3)
                ELSE IF k < 11 + 4 * B THEN TextColumn(s + (k - (11 + 3 * B)))
                ELSE Newline
  BY ColumnOf, Zenon
<1> HIDE DEF B, s, L
<1>4. \A k \in 1 .. 8 : L[k] = Digit(16, s, 8 - k)
  <2>1. \A k \in 1 .. 8 : k \in 1 .. (12 + 4 * B) /\ k < 9
    BY <1>1
  <2> QED
    BY <1>3, <2>1
<1>5. L[9] = Bar /\ L[10 + 3 * B] = Bar /\ L[11 + 4 * B] = Bar
  <2>1. /\ 9 \in 1 .. (12 + 4 * B) /\ ~(9 < 9)
        /\ 10 + 3 * B \in 1 .. (12 + 4 * B) /\ ~(10 + 3 * B < 9)
        /\ 11 + 4 * B \in 1 .. (12 + 4 * B) /\ ~(11 + 4 * B < 9)
    BY <1>1
  <2> QED
    BY <1>3, <2>1
<1>6. L[12 + 4 * B] = Newline
  <2> DEFINE k == 12 + 4 * B
  <2>1. /\ k \in 1 .. (12 + 4 * B) /\ ~(k < 9) /\ k \notin {9, 10 + 3 * B, 11 + 4 * B}
        /\ ~(k < 11 + 3 * B) /\ ~(k < 11 + 4 * B)
    BY <1>1
  <2> HIDE DEF k
  <2>2. L[k] = Newline
    BY <1>3, <2>1
  <2> QED
    BY <2>2 DEF k
<1>7. ASSUME NEW b \in 0 .. (B - 1), NEW p \in {0, 1, 2}
      PROVE  L[(10 + p) + 3 * b] = ByteColumn(s + b, p)
  <2> DEFINE k == (10 + p) + 3 * b
  <2>1. /\ k \in 1 .. (12 + 4 * B) /\ ~(k < 9) /\ k \notin {9, 10 + 3 * B, 11 + 4 * B}
        /\ k < 11 + 3 * B
    BY <1>1
  <2>2. (k - 10) \div 3 = b /\ (k - 10) % 3 = p
    BY <1>1
  <2> HIDE DEF k
  <2>3. L[k] = ByteColumn(s + ((k - 10) \div 3), (k - 10) % 3)
    BY <1>3, <2>1
  <2>4. L[k] = ByteColumn(s + b, p)
    BY <2>2, <2>3
  <2> QED
    BY <2>4 DEF k
<1>8. ASSUME NEW b \in 0 .. (B - 1)
      PROVE  L[11 + 3 * B + b] = TextColumn(s + b)
  <2> DEFINE k == 11 + 3 * B + b
  <2>1. /\ k \in 1 .. (12 + 4 * B) /\ ~(k < 9) /\ k \notin {9, 10 + 3 * B, 11 + 4 * B}
        /\ ~(k < 11 + 3 * B) /\ k < 11 + 4 * B /\ k - (11 + 3 * B) = b
    BY <1>1
  <2> HIDE DEF k
  <2>2. L[k] = TextColumn(s + (k - (11 + 3 * B)))
    BY <1>3, <2>1
  <2>3. L[k] = TextColumn(s + b)
    BY <2>1, <2>2
  <2> QED
    BY <2>3 DEF k
<1>9. ASSUME NEW b \in 0 .. (B - 1)
      PROVE  /\ L[10 + 3 * b] = ByteColumn(s + b, 0)
             /\ L[11 + 3 * b] = ByteColumn(s + b, 1)
             /\ L[12 + 3 * b] = ByteColumn(s + b, 2)
  <2>1. 10 + 0 = 10 /\ 10 + 1 = 11 /\ 10 + 2 = 12
    OBVIOUS
  <2>2. /\ L[(10 + 0) + 3 * b] = ByteColumn(s + b, 0)
        /\ L[(10 + 1) + 3 * b] = ByteColumn(s + b, 1)
        /\ L[(10 + 2) + 3 * b] = ByteColumn(s + b, 2)
    BY <1>7
  <2> QED
    BY <2>1, <2>2
<1> QED
  BY <1>4, <1>5, <1>6, <1>8, <1>9 DEF B, s, L

\* The table grows by one line.
LEMMA LinesGrow ==
    ASSUME data \in Seq(0 .. 255), NEW n \in Nat
    PROVE  /\ Lines(n) \in Seq(Nat)
           /\ Lines(0) = <<>>
           /\ Lines(n + 1) = Lines(n) \o TableLine(n)
<1> DEFINE seqs(m) == [r \in 1 .. m |-> TableLine(r - 1)]
<1>1. \A r \in Nat : TableLine(r) \in Seq(Nat)
  BY LineType
<1>2. ASSUME NEW m \in Nat
      PROVE  seqs(m) \in Seq(Seq(Nat)) /\ Len(seqs(m)) = m
  <2>1. \A r \in 1 .. m : r - 1 \in Nat
    OBVIOUS
  <2>2. seqs(m) \in [1 .. m -> Seq(Nat)]
    BY <1>1, <2>1
  <2> HIDE DEF seqs
  <2> QED
    BY <2>2
<1>3. Lines(n) = FlattenSeq(seqs(n)) /\ Lines(n + 1) = FlattenSeq(seqs(n + 1))
  BY DEF Lines
<1>4. Lines(n) \in Seq(Nat)
  <2> DEFINE sq == seqs(n)
             J == Joined(Nat, sq)
  <2>1. sq \in Seq(Seq(Nat)) /\ Len(sq) = n /\ n \in 0 .. n
    BY <1>2
  <2>2. Lines(n) = FlattenSeq(sq)
    BY <1>3
  <2> HIDE DEF sq
  <2>3. J \in [0 .. Len(sq) -> Seq(Nat)] /\ FlattenSeq(sq) = J[Len(sq)]
    BY <2>1, PartsExist, FlattenIsJoined
  <2> HIDE DEF J
  <2> QED
    BY <2>1, <2>2, <2>3
<1>5. Lines(0) = <<>>
  <2>1. seqs(0) = <<>>
    OBVIOUS
  <2>2. FlattenSeq(seqs(0)) = <<>>
    BY <2>1 DEF FlattenSeq
  <2> QED
    BY <2>2 DEF Lines
<1>6. seqs(n + 1) = Append(seqs(n), TableLine(n))
  <2> DEFINE t == TableLine(n)
             a == Append(seqs(n), t)
  <2>1. seqs(n) \in Seq(Seq(Nat)) /\ Len(seqs(n)) = n /\ t \in Seq(Nat)
    BY <1>1, <1>2
  <2>2. seqs(n + 1) \in Seq(Seq(Nat)) /\ Len(seqs(n + 1)) = n + 1
    BY <1>2
  <2>3. /\ \A k \in 1 .. n : seqs(n + 1)[k] = seqs(n)[k]
        /\ seqs(n + 1)[n + 1] = t
    <3>1. \A k \in 1 .. n : k \in 1 .. (n + 1)
      OBVIOUS
    <3>2. n + 1 \in 1 .. (n + 1) /\ (n + 1) - 1 = n
      OBVIOUS
    <3> QED
      BY <3>1, <3>2
  <2> HIDE DEF seqs, t
  <2>4. /\ a \in Seq(Seq(Nat)) /\ Len(a) = n + 1
        /\ a[n + 1] = t /\ \A k \in 1 .. n : a[k] = seqs(n)[k]
    BY <2>1
  <2>5. \A k \in 1 .. (n + 1) : k = n + 1 \/ k \in 1 .. n
    OBVIOUS
  <2> HIDE DEF a
  <2>6. seqs(n + 1) = a
    BY <2>2, <2>3, <2>4, <2>5, SeqEqual
  <2> QED
    BY <2>6 DEF a, t
<1> HIDE DEF seqs
<1>7. FlattenSeq(Append(seqs(n), TableLine(n))) = FlattenSeq(seqs(n)) \o TableLine(n)
  <2>1. seqs(n) \in Seq(Seq(Nat)) /\ TableLine(n) \in Seq(Nat)
    BY <1>1, <1>2
  <2> QED
    BY <2>1, FlattenAppend
<1> QED
  BY <1>3, <1>4, <1>5, <1>6, <1>7

\* What a call prints is what every display gets.
LEMMA SayAdds ==
    ASSUME NEW items, NEW args, NEW t, Say(items, args), kvprintf(Format(items), args) = t
    PROVE  Adds(t)
BY DEF Say, Adds

LEMMA Regroup ==
    \A a1, a2, a3 \in Seq(Nat) : (a1 \o a2) \o a3 = a1 \o (a2 \o a3)
OBVIOUS

LEMMA RuleType == Rule \in Seq(Nat)
BY DEF Rule, Newline

\* More columns of a line, written behind those that are.
LEMMA LineExtended ==
    ASSUME data \in Seq(0 .. 255), NEW r \in Nat, NEW m \in Nat, NEW t \in Seq(Nat),
           GoesOn(r, m, t), HasPrinted(SoFar(r, m)), Adds(t)
    PROVE  \A d \in Displays : printed'[d] = SoFar(r, m + Len(t))
<1> DEFINE x == Rule \o Lines(r)
           L == TableLine(r)
           len == Len(t)
           n == m + len
           u == Begun(r, m)
           v == Begun(r, n)
<1>10. len \in Nat /\ n \in Nat /\ n - m = len
  OBVIOUS
<1>11. x \in Seq(Nat)
  <2>1. Rule \in Seq(Nat) /\ Lines(r) \in Seq(Nat)
    BY RuleType, LinesGrow
  <2> QED
    BY <2>1, Concatenation
<1>1. u = [k \in 1 .. m |-> L[k]] /\ v = [k \in 1 .. n |-> L[k]]
  BY DEF Begun
<1>2. (\A k \in 1 .. n : L[k] \in Nat) /\ (\A j \in 1 .. len : L[m + j] = t[j])
  <2> DEFINE B == BytesPerLine
  <2>1. B \in Nat
    BY CallsAssumption
  <2>2. \A k \in 1 .. (12 + 4 * B) : L[k] \in Nat
    BY LineType
  <2>3. n <= 12 + 4 * B /\ (\A j \in 1 .. len : L[m + j] = t[j])
    BY DEF GoesOn
  <2> HIDE DEF B, L, n
  <2>4. \A k \in 1 .. n : k \in 1 .. (12 + 4 * B)
    BY <1>10, <2>1, <2>3
  <2> QED
    BY <2>2, <2>3, <2>4
<1>12. \A d \in Displays : printed'[d] = (x \o u) \o t
  BY DEF HasPrinted, Adds, SoFar
<1> HIDE DEF L, u, v, x
<1>3. u \in Seq(Nat) /\ Len(u) = m
  <2>0. m <= n
    BY <1>10
  <2>1. u \in [1 .. m -> Nat]
    <3> HIDE DEF n
    <3>1. \A k \in 1 .. m : k \in 1 .. n
      BY <1>10, <2>0
    <3> QED
      BY <1>1, <1>2, <3>1
  <2> QED
    BY <2>1
<1>4. v \in Seq(Nat) /\ Len(v) = n
  <2>1. n \in Nat
    BY <1>10
  <2> HIDE DEF n
  <2>2. v \in [1 .. n -> Nat]
    BY <1>1, <1>2
  <2> QED
    BY <2>1, <2>2
<1> HIDE DEF n, len
<1> DEFINE w == u \o t
<1>5. /\ w \in Seq(Nat) /\ Len(w) = m + len
      /\ \A j \in 1 .. m : w[j] = u[j]
      /\ \A j \in 1 .. len : w[m + j] = t[j]
  <2>1. /\ w \in Seq(Nat) /\ Len(w) = Len(u) + Len(t)
        /\ \A j \in 1 .. Len(u) : w[j] = u[j]
        /\ \A j \in 1 .. Len(t) : w[Len(u) + j] = t[j]
    <3>1. u \in Seq(Nat) /\ t \in Seq(Nat)
      BY <1>3
    <3>2. u \o t \in Seq(Nat)
      BY <3>1, Concatenation
    <3>3. Len(u \o t) = Len(u) + Len(t)
      BY <3>1, Concatenation
    <3>4. \A j \in 1 .. Len(u) : (u \o t)[j] = u[j]
      BY <3>1, Concatenation
    <3>5. \A j \in 1 .. Len(t) : (u \o t)[Len(u) + j] = t[j]
      BY <3>1, Concatenation
    <3> QED
      BY <3>2, <3>3, <3>4, <3>5
  <2>2. Len(t) = len
    BY DEF len
  <2> HIDE DEF w
  <2> QED
    BY <1>3, <2>1, <2>2
<1>6. w = v
  <2> HIDE DEF w
  <2>1. Len(w) = n
    BY <1>10, <1>5
  <2>2. ASSUME NEW k \in 1 .. n
        PROVE  w[k] = v[k]
    <3>1. CASE k <= m
      BY <1>1, <1>5, <3>1
    <3>2. CASE ~(k <= m)
      <4>1. k - m \in 1 .. len /\ m + (k - m) = k
        BY <1>10, <3>2
      <4>2. w[m + (k - m)] = t[k - m] /\ L[m + (k - m)] = t[k - m]
        BY <1>2, <1>5, <4>1
      <4> QED
        BY <1>1, <4>1, <4>2
    <3> QED
      BY <3>1, <3>2
  <2> QED
    BY <1>4, <1>5, <2>1, <2>2, SeqEqual
<1> HIDE DEF w
<1>7. (x \o u) \o t = x \o (u \o t)
  <2>1. x \in Seq(Nat) /\ u \in Seq(Nat) /\ t \in Seq(Nat)
    BY <1>3, <1>11
  <2> QED
    BY <2>1, Regroup
<1>8. (x \o u) \o t = x \o v
  BY <1>6, <1>7 DEF w
<1> QED
  BY <1>12, <1>8 DEF SoFar, n, x, v, len

\* Eight hexadecimal digits are 32 bits, two are eight.
LEMMA HexDigits ==
    /\ \A v \in Nat : v < Power(2, IntBits) => v < Power(16, 8)
    /\ \A v \in 0 .. 255 : v < Power(2, IntBits) /\ v < Power(16, 2)
    /\ Power(16, 0) = 1 /\ Power(16, 1) = 16
<1> DEFINE P(n) == Power(2, n)
           Q(n) == Power(16, n)
<1>1. /\ P(0) = 1 /\ \A n \in Nat : P(n) \in Nat \ {0} /\ P(n + 1) = 2 * P(n)
      /\ Q(0) = 1 /\ \A n \in Nat : Q(n) \in Nat \ {0} /\ Q(n + 1) = 16 * Q(n)
  BY Powers
<1>2. \A m, n \in Nat : m <= n => P(m) <= P(n)
  BY PowersGrow
<1>3. IntBits \in 8 .. 32
  BY CallsAssumption
<1> HIDE DEF P, Q
<1>4. ASSUME NEW n \in Nat, P(4 * n) = Q(n)
      PROVE  P(4 * (n + 1)) = Q(n + 1)
  <2> DEFINE m == 4 * n
  <2>1. m \in Nat /\ 4 * (n + 1) = (((m + 1) + 1) + 1) + 1
    OBVIOUS
  <2>2. P(m) = Q(n)
    BY <1>4
  <2> HIDE DEF m
  <2>3. /\ P(m + 1) = 2 * P(m) /\ P((m + 1) + 1) = 2 * P(m + 1)
        /\ P(((m + 1) + 1) + 1) = 2 * P((m + 1) + 1)
        /\ P((((m + 1) + 1) + 1) + 1) = 2 * P(((m + 1) + 1) + 1)
    <3>1. m + 1 \in Nat /\ (m + 1) + 1 \in Nat /\ ((m + 1) + 1) + 1 \in Nat
      BY <2>1
    <3>2. \A k \in Nat : P(k + 1) = 2 * P(k)
      BY <1>1
    <3> QED
      BY <2>1, <3>1, <3>2
  <2>4. P(m) \in Nat /\ Q(n + 1) = 16 * Q(n)
    BY <1>1, <2>1
  <2> QED
    BY <2>1, <2>2, <2>3, <2>4
<1>5. P(0) = Q(0)
  BY <1>1
<1>6. P(4) = Q(1) /\ P(8) = Q(2) /\ P(12) = Q(3) /\ P(16) = Q(4)
  <2>1. P(4 * (0 + 1)) = Q(0 + 1)
    BY <1>4, <1>5
  <2>2. P(4 * (1 + 1)) = Q(1 + 1)
    BY <1>4, <2>1
  <2>3. P(4 * (2 + 1)) = Q(2 + 1)
    BY <1>4, <2>2
  <2>4. P(4 * (3 + 1)) = Q(3 + 1)
    BY <1>4, <2>3
  <2> QED
    BY <2>1, <2>2, <2>3, <2>4
<1>7. P(32) = Q(8)
  <2>1. P(4 * (4 + 1)) = Q(4 + 1)
    BY <1>4, <1>6
  <2>2. P(4 * (5 + 1)) = Q(5 + 1)
    BY <1>4, <2>1
  <2>3. P(4 * (6 + 1)) = Q(6 + 1)
    BY <1>4, <2>2
  <2>4. P(4 * (7 + 1)) = Q(7 + 1)
    BY <1>4, <2>3
  <2> QED
    BY <2>4
<1>8. Q(1) = 16 /\ Q(2) = 256
  <2>1. Q(0 + 1) = 16 * Q(0) /\ Q(1 + 1) = 16 * Q(1)
    BY <1>1
  <2> QED
    BY <1>1, <2>1
<1>9. P(IntBits) <= P(32) /\ P(8) <= P(IntBits) /\ P(IntBits) \in Nat /\ P(32) \in Nat
  <2>1. IntBits \in Nat /\ 8 <= IntBits /\ IntBits <= 32 /\ 8 \in Nat /\ 32 \in Nat
    BY <1>3
  <2> QED
    BY <1>1, <1>2, <2>1
<1>10. \A v \in Nat : v < P(IntBits) => v < Q(8)
  BY <1>7, <1>9
<1>11. \A v \in 0 .. 255 : v < P(IntBits) /\ v < Q(2)
  BY <1>6, <1>8, <1>9
<1> QED
  BY <1>1, <1>8, <1>10, <1>11 DEF P, Q

-------------------------------------------------------------------------------
(***************************************************************************)
(* The columns that each loop of khexdump() adds to a line.                *)
(***************************************************************************)

\* One column, two and three columns at their places.
LEMMA OneColumn ==
    ASSUME NEW r \in Nat, NEW m \in Nat, NEW x \in Nat,
           m + 1 <= 12 + 4 * BytesPerLine,
           TableLine(r)[m + 1] = x
    PROVE  GoesOn(r, m, << x >>)
<1> DEFINE L == TableLine(r)
           last == 12 + 4 * BytesPerLine
<1>1. L[m + 1] = x
  OBVIOUS
<1>2. m + 1 <= last
  OBVIOUS
<1> HIDE DEF L, last
<1>3. Len(<< x >>) = 1 /\ \A k \in 1 .. 1 : L[m + k] = << x >>[k]
  BY <1>1
<1> QED
  BY <1>2, <1>3 DEF GoesOn, L, last

\* The same of two columns, and of three.
LEMMA TwoColumns ==
    ASSUME NEW r \in Nat, NEW m \in Nat, NEW x \in Nat, NEW y \in Nat,
           m + 2 <= 12 + 4 * BytesPerLine,
           TableLine(r)[m + 1] = x, TableLine(r)[m + 2] = y
    PROVE  GoesOn(r, m, << x, y >>)
<1> DEFINE L == TableLine(r)
           last == 12 + 4 * BytesPerLine
<1>1. L[m + 1] = x /\ L[m + 2] = y
  OBVIOUS
<1>2. m + 2 <= last
  OBVIOUS
<1> HIDE DEF L, last
<1>3. Len(<< x, y >>) = 2 /\ \A k \in 1 .. 2 : L[m + k] = << x, y >>[k]
  BY <1>1
<1> QED
  BY <1>2, <1>3 DEF GoesOn, L, last

LEMMA ThreeColumns ==
    ASSUME NEW r \in Nat, NEW m \in Nat, NEW x \in Nat, NEW y \in Nat, NEW z \in Nat,
           m + 3 <= 12 + 4 * BytesPerLine,
           TableLine(r)[m + 1] = x, TableLine(r)[m + 2] = y, TableLine(r)[m + 3] = z
    PROVE  GoesOn(r, m, << x, y, z >>)
<1> DEFINE L == TableLine(r)
           last == 12 + 4 * BytesPerLine
<1>1. L[m + 1] = x /\ L[m + 2] = y /\ L[m + 3] = z
  OBVIOUS
<1>2. m + 3 <= last
  OBVIOUS
<1> HIDE DEF L, last
<1>3. Len(<< x, y, z >>) = 3 /\ \A k \in 1 .. 3 : L[m + k] = << x, y, z >>[k]
  BY <1>1
<1> QED
  BY <1>2, <1>3 DEF GoesOn, L, last

\* A sequence with one element appended.
LEMMA OneMore ==
    \A n, x \in Nat : \A s \in [1 .. n -> Nat] :
       /\ s \o << x >> \in Seq(Nat)
       /\ Len(s \o << x >>) = n + 1
       /\ \A k \in 1 .. n : (s \o << x >>)[k] = s[k]
       /\ (s \o << x >>)[n + 1] = x
<1> SUFFICES ASSUME NEW n \in Nat, NEW x \in Nat, NEW s \in [1 .. n -> Nat]
             PROVE  /\ s \o << x >> \in Seq(Nat)
                    /\ Len(s \o << x >>) = n + 1
                    /\ \A k \in 1 .. n : (s \o << x >>)[k] = s[k]
                    /\ (s \o << x >>)[n + 1] = x
  OBVIOUS
<1>1. s \in Seq(Nat) /\ Len(s) = n
  OBVIOUS
<1>2. << x >> \in Seq(Nat) /\ Len(<< x >>) = 1 /\ << x >>[1] = x
  OBVIOUS
<1> QED
  BY <1>1, <1>2

\* What each loop writes goes on where it is: the offset, the two digits of a
\* byte, the blanks behind the last byte, the text and the bars.
LEMMA OffsetGoesOn ==
    ASSUME NEW r \in Nat
    PROVE  GoesOn(r, 0, [k \in 1 .. 8 |-> Digit(16, r * BytesPerLine, 8 - k)] \o << Bar >>)
<1> DEFINE u == [k \in 1 .. 8 |-> Digit(16, r * BytesPerLine, 8 - k)]
           t == u \o << Bar >>
           L == TableLine(r)
           B == BytesPerLine
<1>1. B \in Nat \ {0} /\ 16 \in 2 .. 16 /\ r * B \in Nat /\ 9 <= 12 + 4 * B
  BY CallsAssumption
<1>2. (\A k \in 1 .. 8 : L[k] = u[k]) /\ L[9] = Bar
  BY LineColumns
<1>3. u \in [1 .. 8 -> Nat]
  <2>1. \A k \in 1 .. 8 : 8 - k \in Nat
    OBVIOUS
  <2>2. \A k \in 1 .. 8 : Digit(16, r * B, 8 - k) \in Nat
    BY <1>1, <2>1, DigitType
  <2> QED
    BY <2>2
<1> HIDE DEF u
<1>4. Len(t) = 9 /\ (\A k \in 1 .. 8 : t[k] = u[k]) /\ t[9] = Bar
  <2>1. Bar \in Nat /\ 8 \in Nat
    BY DEF Bar
  <2>2. Len(t) = 8 + 1 /\ (\A k \in 1 .. 8 : t[k] = u[k]) /\ t[8 + 1] = Bar
    BY <1>3, <2>1, OneMore
  <2> HIDE DEF t
  <2> QED
    BY <2>2
<1> HIDE DEF t, L
<1>5. \A k \in 1 .. 9 : L[0 + k] = t[k]
  <2>1. \A k \in 1 .. 9 : 0 + k = k /\ (k \in 1 .. 8 \/ k = 9)
    OBVIOUS
  <2> QED
    BY <1>2, <1>4, <2>1
<1>6. 0 + Len(t) <= 12 + 4 * B
  BY <1>1, <1>4
<1>7. GoesOn(r, 0, t)
  BY <1>4, <1>5, <1>6 DEF GoesOn, L
<1> QED
  BY <1>7 DEF t, u

\* A byte has the digits that its columns show.
LEMMA ByteDigits ==
    ASSUME NEW byte \in 0 .. 255
    PROVE  [k \in 1 .. 2 |-> Digit(16, byte, 2 - k)] \o << Blank >>
               = << DigitChar(byte \div 16), DigitChar(byte % 16), Blank >>
<1> DEFINE u == [k \in 1 .. 2 |-> Digit(16, byte, 2 - k)]
           x == DigitChar(byte \div 16)
           y == DigitChar(byte % 16)
<1>1. Digit(16, byte, 1) = x /\ Digit(16, byte, 0) = y
  <2>1. byte \div 16 \in 0 .. 15 /\ (byte \div 16) % 16 = byte \div 16 /\ byte \div 1 = byte
    OBVIOUS
  <2>2. Digit(16, byte, 1) = DigitChar((byte \div 16) % 16)
    BY HexDigits DEF Digit
  <2>3. Digit(16, byte, 0) = DigitChar((byte \div 1) % 16)
    BY HexDigits DEF Digit
  <2> QED
    BY <2>1, <2>2, <2>3
<1>2. u = << x, y >>
  <2>1. u[1] = x /\ u[2] = y
    BY <1>1
  <2> HIDE DEF x, y
  <2>2. u = [k \in 1 .. 2 |-> u[k]]
    OBVIOUS
  <2> HIDE DEF u
  <2> QED
    BY <2>1, <2>2
<1> HIDE DEF u, x, y
<1>3. << x, y >> \o << Blank >> = << x, y, Blank >>
  <2> DEFINE w == << x, y >>
             t == w \o << Blank >>
             v == << x, y, Blank >>
  <2>1. x \in Nat /\ y \in Nat /\ Blank \in Nat
    <3>1. byte \div 16 \in 0 .. 15 /\ byte % 16 \in 0 .. 15
      OBVIOUS
    <3> QED
      BY <3>1, DigitCharType DEF x, y, Blank
  <2>2. w \in [1 .. 2 -> Nat] /\ w[1] = x /\ w[2] = y
    BY <2>1
  <2>3. v \in Seq(Nat) /\ Len(v) = 3 /\ v[1] = x /\ v[2] = y /\ v[3] = Blank
    BY <2>1
  <2> HIDE DEF w, v
  <2>4. /\ t \in Seq(Nat) /\ Len(t) = 2 + 1
        /\ (\A k \in 1 .. 2 : t[k] = w[k]) /\ t[2 + 1] = Blank
    <3>1. 2 \in Nat
      OBVIOUS
    <3> QED
      BY <2>1, <2>2, <3>1, OneMore, ZenonT(30)
  <2> HIDE DEF t
  <2>5. Len(t) = 3 /\ \A k \in 1 .. 3 : t[k] = v[k]
    BY <2>2, <2>3, <2>4
  <2>6. t = v
    BY <2>3, <2>4, <2>5, SeqEqual
  <2> QED
    BY <2>6 DEF t, v, w
<1> QED
  BY <1>2, <1>3 DEF u, x, y

\* What khexdump() has written is the table up to where it is.
TableInv ==
    /\ Len(data) <= Power(2, IntBits)
    /\ pc = "heading" => i = 0 /\ HasPrinted(<<>>)
    /\ pc = "row" => \E r \in Nat : BetweenLines(r)
    /\ pc \in {"bytes", "fill", "text"} => \E r \in Nat : InLine(r)

\* The position after a step, for a table that stays the same.
LEMMA SoFarNext ==
    ASSUME data' = data, NEW r
    PROVE  \A n : At' = n /\ (\A d \in Displays : printed'[d] = SoFar(r, n))
                     => HasPrinted(SoFar(r, At))'
<1> SUFFICES ASSUME NEW n, At' = n, \A d \in Displays : printed'[d] = SoFar(r, n)
             PROVE  HasPrinted(SoFar(r, At))'
  OBVIOUS
<1>1. SoFar(r, At)' = (Rule \o Lines(r)') \o [k \in 1 .. At' |-> TableLine(r)'[k]]
  BY DEF SoFar, Begun, Rule
<1>2. Lines(r)' = Lines(r) /\ TableLine(r)' = TableLine(r)
  BY SameTable
<1>3. SoFar(r, At)' = SoFar(r, n)
  BY <1>1, <1>2 DEF SoFar, Begun
<1> QED
  BY <1>3 DEF HasPrinted

\* The byte at an offset.
LEMMA ByteOf ==
    ASSUME data \in Seq(0 .. 255), NEW b \in Nat, b < Len(data)
    PROVE  data[b + 1] \in 0 .. 255
<1> DEFINE len == Len(data)
           k == b + 1
<1>1. len \in Nat /\ b < len
  OBVIOUS
<1>2. k \in 1 .. len
  <2> HIDE DEF len
  <2> QED
    BY <1>1
<1> HIDE DEF k
<1>3. data[k] \in 0 .. 255
  BY <1>2, ElementOfSeq
<1> QED
  BY <1>3 DEF k

\* What is written goes on in the same line.
LEMMA InLineGoesOn ==
    ASSUME DumpInv, NEW r \in Nat, InLine(r), pc \in {"bytes", "fill", "text"}
    PROVE  LET b == r * BytesPerLine + c
           IN  /\ b \in Nat
               /\ pc = "bytes" /\ c < BytesPerLine /\ b < Len(data) =>
                     GoesOn(r, At, << DigitChar(data[b + 1] \div 16),
                                      DigitChar(data[b + 1] % 16), Blank >>)
               /\ pc = "fill" /\ c < BytesPerLine /\ ~(b < Len(data)) =>
                     GoesOn(r, At, << Blank, Blank, Blank >>)
               /\ pc = "fill" /\ c = BytesPerLine => GoesOn(r, At, << Bar >>)
               /\ pc = "text" /\ c < BytesPerLine => GoesOn(r, At, << TextColumn(b) >>)
               /\ pc = "text" /\ c = BytesPerLine => GoesOn(r, At, << Bar, Newline >>)
<1> DEFINE B == BytesPerLine
           b == r * B + c
           L == TableLine(r)
<1>0. Bar \in Nat /\ Newline \in Nat /\ Blank \in Nat
  BY DEF Bar, Newline, Blank
<1>1. B \in Nat \ {0} /\ c \in Nat /\ b \in Nat
  <2>1. B \in Nat \ {0}
    BY CallsAssumption
  <2>2. c \in Nat
    BY DEF DumpInv
  <2> HIDE DEF B
  <2>3. r * B \in Nat
    BY <2>1
  <2> QED
    BY <2>1, <2>2, <2>3
<1>2. pc \in {"bytes", "fill"} => At = 9 + 3 * c
  BY DEF At
<1>3. pc = "text" => At = (10 + 3 * B) + c
  BY DEF At
<1>4. ASSUME c < B
      PROVE  /\ L[10 + 3 * c] = ByteColumn(b, 0) /\ L[11 + 3 * c] = ByteColumn(b, 1)
             /\ L[12 + 3 * c] = ByteColumn(b, 2) /\ L[11 + 3 * B + c] = TextColumn(b)
  <2>1. c \in 0 .. (B - 1)
    BY <1>1, <1>4
  <2> QED
    BY <2>1, LineColumns
<1>5. L[10 + 3 * B] = Bar /\ L[11 + 4 * B] = Bar /\ L[12 + 4 * B] = Newline
  BY LineColumns
<1> DEFINE m == 9 + 3 * c
<1>6. ASSUME c < B
      PROVE  /\ m \in Nat /\ m + 3 <= 12 + 4 * B
             /\ m + 1 = 10 + 3 * c /\ m + 2 = 11 + 3 * c /\ m + 3 = 12 + 3 * c
  BY <1>1, <1>6
<1>7. ASSUME pc = "bytes", c < B, b < Len(data)
      PROVE  GoesOn(r, At, << DigitChar(data[b + 1] \div 16), DigitChar(data[b + 1] % 16), Blank >>)
  <2> DEFINE x == DigitChar(data[b + 1] \div 16)
             y == DigitChar(data[b + 1] % 16)
  <2>1. x \in Nat /\ y \in Nat
    <3> DEFINE byte == data[b + 1]
    <3>1. byte \in 0 .. 255
      BY <1>1, <1>7, ByteOf DEF DumpInv
    <3> HIDE DEF byte
    <3>2. byte \div 16 \in 0 .. 15 /\ byte % 16 \in 0 .. 15
      BY <3>1
    <3> QED
      BY <3>2, DigitCharType DEF byte
  <2>2. ByteColumn(b, 0) = x /\ ByteColumn(b, 1) = y /\ ByteColumn(b, 2) = Blank
    BY <1>7 DEF ByteColumn
  <2> HIDE DEF x, y, b
  <2>3. L[m + 1] = x /\ L[m + 2] = y /\ L[m + 3] = Blank
    BY <1>4, <1>6, <1>7, <2>2
  <2>4. m \in Nat /\ m + 3 <= 12 + 4 * B /\ At = m
    BY <1>2, <1>6, <1>7
  <2> HIDE DEF m
  <2>5. GoesOn(r, m, << x, y, Blank >>)
    BY <1>0, <2>1, <2>3, <2>4, ThreeColumns
  <2> QED
    BY <2>4, <2>5 DEF x, y, b
<1>8. ASSUME pc = "fill", c < B, ~(b < Len(data))
      PROVE  GoesOn(r, At, << Blank, Blank, Blank >>)
  <2>2. ByteColumn(b, 0) = Blank /\ ByteColumn(b, 1) = Blank /\ ByteColumn(b, 2) = Blank
    BY <1>8 DEF ByteColumn
  <2> HIDE DEF b
  <2>3. L[m + 1] = Blank /\ L[m + 2] = Blank /\ L[m + 3] = Blank
    BY <1>4, <1>6, <1>8, <2>2
  <2>4. m \in Nat /\ m + 3 <= 12 + 4 * B /\ At = m
    BY <1>2, <1>6, <1>8
  <2> HIDE DEF m
  <2>5. GoesOn(r, m, << Blank, Blank, Blank >>)
    BY <1>0, <2>3, <2>4, ThreeColumns
  <2> QED
    BY <2>4, <2>5
<1>9. ASSUME pc = "fill", c = B
      PROVE  GoesOn(r, At, << Bar >>)
  <2>1. m \in Nat /\ m + 1 <= 12 + 4 * B /\ At = m /\ m + 1 = 10 + 3 * B
    BY <1>1, <1>2, <1>9
  <2> HIDE DEF m
  <2>2. GoesOn(r, m, << Bar >>)
    BY <1>0, <1>5, <2>1, OneColumn
  <2> QED
    BY <2>1, <2>2
<1> DEFINE n == (10 + 3 * B) + c
<1>10. ASSUME pc = "text", c < B
       PROVE  GoesOn(r, At, << TextColumn(b) >>)
  <2>1. n \in Nat /\ n + 1 <= 12 + 4 * B /\ At = n /\ n + 1 = 11 + 3 * B + c
    BY <1>1, <1>3, <1>10
  <2>2. TextColumn(b) \in Nat
    BY <1>1, ColumnsType DEF DumpInv
  <2>3. L[n + 1] = TextColumn(b)
    BY <1>4, <1>10, <2>1
  <2> HIDE DEF n, b
  <2>4. GoesOn(r, n, << TextColumn(b) >>)
    BY <2>1, <2>2, <2>3, OneColumn
  <2> QED
    BY <2>1, <2>4 DEF b
<1>11. ASSUME pc = "text", c = B
       PROVE  GoesOn(r, At, << Bar, Newline >>)
  <2>1. /\ n \in Nat /\ n + 2 <= 12 + 4 * B /\ At = n
        /\ n + 1 = 11 + 4 * B /\ n + 2 = 12 + 4 * B
    BY <1>1, <1>3, <1>11
  <2> HIDE DEF n
  <2>2. GoesOn(r, n, << Bar, Newline >>)
    BY <1>0, <1>5, <2>1, TwoColumns
  <2> QED
    BY <2>1, <2>2
<1> QED
  BY <1>1, <1>7, <1>8, <1>9, <1>10, <1>11, Zenon DEF b, B

LEMMA MoreColumns ==
    ASSUME DumpInv, NEW r \in Nat, HasPrinted(SoFar(r, At)), data' = data,
           NEW t \in Seq(Nat), GoesOn(r, At, t), Adds(t), At' = At + Len(t)
    PROVE  HasPrinted(SoFar(r, At))'
<1>1. data \in Seq(0 .. 255) /\ At \in Nat
  BY CallsAssumption DEF DumpInv, At
<1> DEFINE m == At
<1>2. m \in Nat /\ GoesOn(r, m, t) /\ HasPrinted(SoFar(r, m))
  BY <1>1
<1>3. At' = m + Len(t)
  OBVIOUS
<1> HIDE DEF m
<1>4. \A d \in Displays : printed'[d] = SoFar(r, m + Len(t))
  BY <1>1, <1>2, LineExtended
<1> QED
  BY <1>3, <1>4, SoFarNext

\* What each call of khexdump() shows.
LEMMA CharsSaid ==
    ASSUME NEW s \in Seq(Nat \ {Percent}), Say(Chars(s), <<>>)
    PROVE  Adds(s)
BY CharsShown, SayAdds

LEMMA OffsetSaid ==
    ASSUME NEW v \in Nat, v < Power(2, IntBits),
           Say(<< Conv(120, 8), Char(Bar) >>, << << v >> >>)
    PROVE  Adds([k \in 1 .. 8 |-> Digit(16, v, 8 - k)] \o << Bar >>)
<1> DEFINE items == << Conv(120, 8), Char(Bar) >>
           args == << << v >> >>
           t == [k \in 1 .. 8 |-> Digit(16, v, 8 - k)] \o << Bar >>
<1>1. kvprintf(Format(items), args) = t
  <2>1. v < Power(16, 8)
    BY HexDigits
  <2>2. Bar \in Nat \ {Percent}
    BY DEF Bar, Percent
  <2>3. 8 \in 1 .. 9
    OBVIOUS
  <2> QED
    BY <2>1, <2>2, <2>3, HexShown
<1>2. Say(items, args)
  OBVIOUS
<1> HIDE DEF items, args, t
<1>3. Adds(t)
  BY <1>1, <1>2, SayAdds
<1> QED
  BY <1>3 DEF t

\* The two digits of a byte and the blank behind them.
LEMMA ByteSaid ==
    ASSUME NEW byte \in 0 .. 255, Say(<< Conv(120, 2), Char(Blank) >>, << << byte >> >>)
    PROVE  Adds(<< DigitChar(byte \div 16), DigitChar(byte % 16), Blank >>)
<1> DEFINE items == << Conv(120, 2), Char(Blank) >>
           args == << << byte >> >>
           u == [k \in 1 .. 2 |-> Digit(16, byte, 2 - k)] \o << Blank >>
           t == << DigitChar(byte \div 16), DigitChar(byte % 16), Blank >>
<1>1. kvprintf(Format(items), args) = u
  <2>1. byte < Power(2, IntBits) /\ byte < Power(16, 2) /\ byte \in Nat
    BY HexDigits
  <2>2. Blank \in Nat \ {Percent}
    BY DEF Blank, Percent
  <2>3. 2 \in 1 .. 9
    OBVIOUS
  <2> QED
    BY <2>1, <2>2, <2>3, HexShown
<1>2. Say(items, args) /\ u = t
  BY ByteDigits
<1> HIDE DEF items, args, t, u
<1>3. Adds(t)
  BY <1>1, <1>2, SayAdds
<1> QED
  BY <1>3 DEF t

LEMMA CharSaid ==
    ASSUME NEW byte \in 0 .. 255, Say(<< Conv(99, 0) >>, << << byte >> >>)
    PROVE  Adds(<< byte >>)
BY ByteShown, SayAdds

\* The lines of the table from one to the next.
LEMMA LinesJoin ==
    ASSUME data \in Seq(0 .. 255), NEW r \in Nat
    PROVE  /\ SoFar(r, 0) = Rule \o Lines(r)
           /\ SoFar(r, 12 + 4 * BytesPerLine) = Rule \o Lines(r + 1)
<1> DEFINE last == 12 + 4 * BytesPerLine
           L == TableLine(r)
           x == Rule \o Lines(r)
<1>1. Rule \in Seq(Nat) /\ Lines(r) \in Seq(Nat) /\ L \in Seq(Nat) /\ x \in Seq(Nat)
  <2>1. Rule \in Seq(Nat) /\ Lines(r) \in Seq(Nat) /\ L \in Seq(Nat)
    BY RuleType, LinesGrow, LineType
  <2> QED
    BY <2>1, Concatenation
<1>2. Begun(r, 0) = <<>>
  BY DEF Begun
<1>3. Begun(r, last) = L
  <2>1. 1 \in 1 .. last
    BY CallsAssumption
  <2>2. L = [k \in 1 .. last |-> L[k]]
    BY <2>1, ColumnOf
  <2> HIDE DEF L, last
  <2>3. Begun(r, last) = [k \in 1 .. last |-> L[k]]
    BY DEF Begun, L
  <2> QED
    BY <2>2, <2>3
<1>4. SoFar(r, 0) = x
  <2>1. SoFar(r, 0) = x \o <<>>
    BY <1>2 DEF SoFar
  <2> HIDE DEF x
  <2> QED
    BY <1>1, <2>1
<1>5. SoFar(r, last) = Rule \o Lines(r + 1)
  <2>1. SoFar(r, last) = (Rule \o Lines(r)) \o L
    BY <1>3 DEF SoFar
  <2>2. Lines(r + 1) = Lines(r) \o L
    BY LinesGrow
  <2> DEFINE y == Lines(r)
  <2>3. Rule \in Seq(Nat) /\ y \in Seq(Nat) /\ L \in Seq(Nat)
    BY <1>1
  <2> HIDE DEF L, y
  <2>4. (Rule \o y) \o L = Rule \o (y \o L)
    BY <2>3, Regroup
  <2> QED
    BY <2>1, <2>2, <2>4, Zenon DEF y
<1> QED
  BY <1>4, <1>5

-------------------------------------------------------------------------------
(***************************************************************************)
(* The steps of khexdump().                                                *)
(***************************************************************************)

\* The loops inside a line.
LEMMA BeginRowStep ==
    ASSUME DumpInv, TableInv, BeginRow
    PROVE  \E r \in Nat : InLine(r)'
<1> DEFINE len == Len(data)
           B == BytesPerLine
<1>1. PICK r \in Nat : BetweenLines(r)
  BY DEF TableInv, BeginRow
<1>2. /\ data' = data /\ start' = i /\ c' = 0 /\ pc' = "bytes"
      /\ i \in Nat /\ len \in Nat /\ i < len
  BY DEF BeginRow, DumpInv
<1>3. B \in Nat \ {0}
  BY CallsAssumption
<1>4. i = r * B
  <2>1. i = len \/ i = r * B
    BY <1>1 DEF BetweenLines
  <2> HIDE DEF len, B
  <2> QED
    BY <1>2, <2>1
<1> DEFINE t == [k \in 1 .. 8 |-> Digit(16, i, 8 - k)] \o << Bar >>
<1>5. Adds(t)
  <2>1. i < Power(2, IntBits)
    <3> DEFINE p == Power(2, IntBits)
    <3>1. p \in Nat /\ len <= p
      <4>1. 2 \in Nat \ {0} /\ IntBits \in Nat
        BY CallsAssumption
      <4>2. p \in Nat
        BY <4>1, Powers
      <4> QED
        BY <4>2 DEF TableInv
    <3> HIDE DEF p, len
    <3> QED
      BY <1>2, <3>1 DEF p
  <2>2. Say(<< Conv(120, 8), Char(Bar) >>, << << i >> >>)
    BY DEF BeginRow
  <2> QED
    BY <1>2, <2>1, <2>2, OffsetSaid
<1>6. GoesOn(r, 0, t)
  BY <1>4, OffsetGoesOn
<1>7. t \in Seq(Nat) /\ Len(t) = 9
  <2> DEFINE u == [k \in 1 .. 8 |-> Digit(16, i, 8 - k)]
  <2>1. u \in [1 .. 8 -> Nat]
    <3>1. \A k \in 1 .. 8 : 8 - k \in Nat
      OBVIOUS
    <3>2. \A k \in 1 .. 8 : Digit(16, i, 8 - k) \in Nat
      <4>1. 16 \in 2 .. 16
        OBVIOUS
      <4> QED
        BY <1>2, <3>1, <4>1, DigitType
    <3> QED
      BY <3>2
  <2>2. Bar \in Nat /\ 8 \in Nat
    BY DEF Bar
  <2> HIDE DEF u
  <2>3. u \o << Bar >> \in Seq(Nat) /\ Len(u \o << Bar >>) = 8 + 1
    BY <2>1, <2>2, OneMore
  <2> QED
    BY <2>3 DEF u
<1> HIDE DEF t
<1>8. HasPrinted(SoFar(r, 0))
  BY <1>1, LinesJoin DEF BetweenLines, DumpInv
<1>9. \A d \in Displays : printed'[d] = SoFar(r, 9)
  <2>1. \A d \in Displays : printed'[d] = SoFar(r, 0 + Len(t))
    <3>1. data \in Seq(0 .. 255) /\ 0 \in Nat
      BY DEF DumpInv
    <3> QED
      BY <1>5, <1>6, <1>7, <1>8, <3>1, LineExtended
  <2> QED
    BY <1>7, <2>1
<1>10. At' = 9
  BY <1>2 DEF At
<1>11. HasPrinted(SoFar(r, At))'
  BY <1>2, <1>9, <1>10, SoFarNext
<1>12. start' = r * B /\ start' < Len(data') /\ c' <= B /\ pc' = "bytes"
  BY <1>2, <1>3, <1>4
<1>13. InLine(r)'
  BY <1>11, <1>12 DEF InLine
<1> QED
  BY <1>13

LEMMA WriteByteStep ==
    ASSUME DumpInv, TableInv, WriteByte
    PROVE  \E r \in Nat : InLine(r)'
<1> DEFINE len == Len(data)
           B == BytesPerLine
<1>1. PICK r \in Nat : InLine(r)
  BY DEF TableInv, WriteByte
<1> DEFINE b == r * B + c
           byte == data[i + 1]
           t == << DigitChar(byte \div 16), DigitChar(byte % 16), Blank >>
<1>2. /\ data' = data /\ start' = start /\ c' = c + 1 /\ pc = "bytes" /\ pc' = "bytes"
      /\ i \in Nat /\ i < len /\ c \in Nat /\ c < B
  BY DEF WriteByte, DumpInv
<1>3. start = r * B /\ start + c = i /\ start < len /\ HasPrinted(SoFar(r, At))
  BY <1>1, <1>2 DEF InLine, DumpInv
<1>4. b = i
  BY <1>3
<1>5. byte \in 0 .. 255
  BY <1>2, ByteOf DEF DumpInv
<1>6. t \in Seq(Nat) /\ Len(t) = 3
  <2>1. DigitChar(byte \div 16) \in Nat /\ DigitChar(byte % 16) \in Nat /\ Blank \in Nat
    <3> HIDE DEF byte
    <3>1. byte \div 16 \in 0 .. 15 /\ byte % 16 \in 0 .. 15
      BY <1>5
    <3> QED
      BY <3>1, DigitCharType DEF Blank
  <2> QED
    BY <2>1
<1>7. Adds(t)
  <2>1. Say(<< Conv(120, 2), Char(Blank) >>, << << byte >> >>)
    BY DEF WriteByte
  <2> HIDE DEF byte
  <2> QED
    BY <1>5, <2>1, ByteSaid
<1>8. GoesOn(r, At, t)
  <2>1. pc \in {"bytes", "fill", "text"} /\ b < len
    BY <1>2, <1>4
  <2>2. GoesOn(r, At, << DigitChar(data[b + 1] \div 16), DigitChar(data[b + 1] % 16), Blank >>)
    BY <1>1, <1>2, <2>1, InLineGoesOn
  <2> QED
    BY <1>4, <2>2
<1> HIDE DEF t
<1>9. At = 9 + 3 * c /\ At' = 9 + 3 * (c + 1)
  BY <1>2 DEF At
<1>10. At' = At + Len(t)
  BY <1>2, <1>6, <1>9
<1>11. HasPrinted(SoFar(r, At))'
  BY <1>2, <1>3, <1>6, <1>7, <1>8, <1>10, MoreColumns
<1>12. start' = r * B /\ start' < Len(data') /\ c' <= B /\ pc' = "bytes"
  <2>1. B \in Nat
    BY CallsAssumption
  <2>2. c + 1 <= B
    BY <1>2, <2>1
  <2> QED
    BY <1>2, <1>3, <2>2
<1>13. InLine(r)'
  BY <1>11, <1>12 DEF InLine
<1> QED
  BY <1>13

LEMMA EndBytesStep ==
    ASSUME DumpInv, TableInv, EndBytes
    PROVE  \E r \in Nat : InLine(r)'
<1> DEFINE len == Len(data)
           B == BytesPerLine
<1>1. PICK r \in Nat : InLine(r)
  BY DEF TableInv, EndBytes
<1>2. /\ data' = data /\ start' = start /\ c' = c /\ i' = i /\ written' = c
      /\ printed' = printed /\ pc = "bytes" /\ pc' = "fill" /\ ~(c < B /\ i < len)
      /\ i \in Nat /\ i <= len /\ len \in Nat /\ c \in Nat
  BY DEF EndBytes, DumpInv, Silent
<1>3. start = r * B /\ start < len /\ HasPrinted(SoFar(r, At)) /\ c <= B /\ B \in Nat
  BY <1>1, CallsAssumption DEF InLine
<1>4. At' = At
  BY <1>2 DEF At
<1>5. HasPrinted(SoFar(r, At))'
  <2> DEFINE m == At
  <2>1. HasPrinted(SoFar(r, m)) /\ At' = m
    BY <1>3, <1>4
  <2> HIDE DEF m
  <2>2. \A d \in Displays : printed'[d] = SoFar(r, m)
    BY <1>2, <2>1 DEF HasPrinted
  <2> QED
    BY <1>2, <2>1, <2>2, SoFarNext
<1>6. c = B \/ i = len
  <2> HIDE DEF len, B
  <2> QED
    BY <1>2, <1>3
<1>7. /\ start' = r * B /\ start' < Len(data') /\ c' <= B
      /\ written' <= B /\ (written' = B \/ i' = Len(data')) /\ written' <= c'
  BY <1>2, <1>3, <1>6
<1>8. InLine(r)'
  BY <1>5, <1>7 DEF InLine
<1> QED
  BY <1>8

LEMMA FillStep ==
    ASSUME DumpInv, TableInv, Fill
    PROVE  \E r \in Nat : InLine(r)'
<1> DEFINE len == Len(data)
           B == BytesPerLine
           t == << Blank, Blank, Blank >>
<1>1. PICK r \in Nat : InLine(r)
  BY DEF TableInv, Fill
<1> DEFINE b == r * B + c
<1>2. /\ data' = data /\ start' = start /\ c' = c + 1 /\ i' = i /\ written' = written
      /\ pc = "fill" /\ pc' = "fill" /\ c < B
      /\ i \in Nat /\ len \in Nat /\ c \in Nat /\ written \in Nat
      /\ start \in Nat /\ start + written = i
  BY DEF Fill, DumpInv
<1>3. /\ start = r * B /\ start < len /\ HasPrinted(SoFar(r, At)) /\ B \in Nat
      /\ written <= B /\ (written = B \/ i = len) /\ written <= c
  BY <1>1, <1>2, CallsAssumption DEF InLine
<1>4. ~(b < len)
  <2>1. b = start + c
    BY <1>3
  <2> HIDE DEF b, len, B
  <2> QED
    BY <1>2, <1>3, <2>1
<1>5. t \in Seq(Nat) /\ Len(t) = 3
  BY DEF Blank
<1>6. Adds(t)
  <2>1. t \in Seq(Nat \ {Percent}) /\ Say(Chars(t), <<>>)
    BY DEF Fill, Blank, Percent
  <2> HIDE DEF t
  <2> QED
    BY <2>1, CharsSaid
<1>7. GoesOn(r, At, t)
  <2>1. pc \in {"bytes", "fill", "text"}
    BY <1>2
  <2> QED
    BY <1>1, <1>2, <1>4, <2>1, InLineGoesOn
<1> HIDE DEF t
<1>8. At' = At + Len(t)
  <2>1. At = 9 + 3 * c /\ At' = 9 + 3 * (c + 1)
    BY <1>2 DEF At
  <2> QED
    BY <1>2, <1>5, <2>1
<1>9. HasPrinted(SoFar(r, At))'
  BY <1>2, <1>3, <1>5, <1>6, <1>7, <1>8, MoreColumns
<1>10. c + 1 <= B /\ written <= c + 1
  BY <1>2, <1>3
<1>11. /\ start' = r * B /\ start' < Len(data') /\ c' <= B
       /\ written' <= B /\ (written' = B \/ i' = Len(data')) /\ written' <= c'
  BY <1>2, <1>3, <1>10
<1>12. InLine(r)'
  BY <1>9, <1>11 DEF InLine
<1> QED
  BY <1>12

LEMMA BeginTextStep ==
    ASSUME DumpInv, TableInv, BeginText
    PROVE  \E r \in Nat : InLine(r)'
<1> DEFINE len == Len(data)
           B == BytesPerLine
           t == << Bar >>
<1>1. PICK r \in Nat : InLine(r)
  BY DEF TableInv, BeginText
<1>2. /\ data' = data /\ start' = start /\ c' = 0 /\ i' = i /\ written' = written
      /\ pc = "fill" /\ pc' = "text" /\ c >= B /\ c \in Nat
  BY DEF BeginText, DumpInv
<1>3. /\ start = r * B /\ start < len /\ HasPrinted(SoFar(r, At)) /\ B \in Nat /\ c <= B
      /\ written <= B /\ (written = B \/ i = len)
  BY <1>1, <1>2, CallsAssumption DEF InLine
<1>4. c = B
  BY <1>2, <1>3
<1>5. t \in Seq(Nat) /\ Len(t) = 1
  BY DEF Bar
<1>6. Adds(t)
  <2>1. t \in Seq(Nat \ {Percent}) /\ Say(Chars(t), <<>>)
    BY DEF BeginText, Bar, Percent
  <2> HIDE DEF t
  <2> QED
    BY <2>1, CharsSaid
<1>7. GoesOn(r, At, t)
  <2>1. pc \in {"bytes", "fill", "text"}
    BY <1>2
  <2> QED
    BY <1>1, <1>2, <1>4, <2>1, InLineGoesOn
<1> HIDE DEF t
<1>8. At' = At + Len(t)
  <2>1. At = 9 + 3 * B /\ At' = (10 + 3 * B) + 0
    BY <1>2, <1>4 DEF At
  <2> QED
    BY <1>3, <1>5, <2>1
<1>9. HasPrinted(SoFar(r, At))'
  BY <1>2, <1>3, <1>5, <1>6, <1>7, <1>8, MoreColumns
<1>10. /\ start' = r * B /\ start' < Len(data') /\ c' <= B /\ pc' = "text"
       /\ written' <= B /\ (written' = B \/ i' = Len(data'))
  BY <1>2, <1>3
<1>11. InLine(r)'
  BY <1>9, <1>10 DEF InLine
<1> QED
  BY <1>11

\* One more column of the text.
LEMMA TextStep ==
    ASSUME DumpInv, NEW r \in Nat, InLine(r), pc = "text", pc' = "text",
           c < BytesPerLine, c' = c + 1, Adds(<< TextColumn(r * BytesPerLine + c) >>),
           UNCHANGED << data, i, start, written >>
    PROVE  InLine(r)'
<1> DEFINE len == Len(data)
           B == BytesPerLine
           b == r * B + c
           x == TextColumn(b)
           t == << x >>
<1>1. /\ start = r * B /\ start < len /\ HasPrinted(SoFar(r, At)) /\ B \in Nat /\ c \in Nat
      /\ written <= B /\ (written = B \/ i = len)
  BY CallsAssumption DEF InLine, DumpInv
<1>2. GoesOn(r, At, t) /\ b \in Nat
  <2>1. pc \in {"bytes", "fill", "text"}
    OBVIOUS
  <2> QED
    BY <2>1, InLineGoesOn
<1>3. Adds(t) /\ c < B /\ c' = c + 1
  OBVIOUS
<1>4. t \in Seq(Nat) /\ Len(t) = 1
  <2>1. x \in Nat
    BY <1>2, ColumnsType DEF DumpInv
  <2> HIDE DEF x
  <2> QED
    BY <2>1
<1> HIDE DEF t
<1>5. At' = At + Len(t)
  <2>1. At = (10 + 3 * B) + c /\ At' = (10 + 3 * B) + (c + 1)
    BY <1>3 DEF At
  <2> QED
    BY <1>1, <1>4, <2>1
<1>6. HasPrinted(SoFar(r, At))'
  BY <1>1, <1>2, <1>3, <1>4, <1>5, MoreColumns
<1>7. c + 1 <= B
  BY <1>1, <1>3
<1>8. /\ start' = r * B /\ start' < Len(data') /\ c' <= B
      /\ written' <= B /\ (written' = B \/ i' = Len(data'))
  BY <1>1, <1>3, <1>7
<1> QED
  BY <1>6, <1>8 DEF InLine

LEMMA WriteTextStep ==
    ASSUME DumpInv, TableInv, WriteText
    PROVE  \E r \in Nat : InLine(r)'
<1> DEFINE len == Len(data)
           B == BytesPerLine
<1>1. PICK r \in Nat : InLine(r)
  BY DEF TableInv, WriteText
<1> DEFINE b == r * B + c
           byte == data[b + 1]
<1>2. /\ pc = "text" /\ pc' = "text" /\ c < written /\ c' = c + 1
      /\ UNCHANGED << data, i, start, written >>
      /\ i \in Nat /\ i <= len /\ len \in Nat /\ c \in Nat /\ written \in Nat
      /\ start \in Nat /\ start + written = i
  BY DEF WriteText, DumpInv
<1>3. start = r * B /\ written <= B /\ B \in Nat
  BY <1>1, <1>2, CallsAssumption DEF InLine
<1>4. b = start + c
  BY <1>3
<1>5. b \in Nat /\ b < len /\ c < B
  <2> HIDE DEF b, len, B
  <2> QED
    BY <1>2, <1>3, <1>4
<1>6. byte \in 0 .. 255
  BY <1>5, ByteOf DEF DumpInv
<1>7. IF isprint(byte) THEN Say(<< Conv(99, 0) >>, << << byte >> >>)
      ELSE Say(Chars(<< 46 >>), <<>>)
  BY <1>4 DEF WriteText
<1>8. TextColumn(b) = IF byte \in 32 .. 126 THEN byte ELSE 46
  BY <1>5 DEF TextColumn
<1> HIDE DEF byte
<1>9. Adds(<< TextColumn(b) >>)
  <2>1. CASE isprint(byte)
    <3>1. byte \in 32 .. 126
      BY <1>6, <2>1 DEF isprint
    <3>2. TextColumn(b) = byte
      BY <1>8, <3>1
    <3>3. Adds(<< byte >>)
      BY <1>6, <1>7, <2>1, CharSaid
    <3> QED
      BY <3>2, <3>3
  <2>2. CASE ~isprint(byte)
    <3>1. byte \notin 32 .. 126
      BY <1>6, <2>2 DEF isprint
    <3>2. TextColumn(b) = 46
      BY <1>8, <3>1
    <3>3. << 46 >> \in Seq(Nat \ {Percent})
      BY DEF Percent
    <3>4. Adds(<< 46 >>)
      BY <1>7, <2>2, <3>3, CharsSaid
    <3> QED
      BY <3>2, <3>4
  <2> QED
    BY <2>1, <2>2
<1> QED
  BY <1>1, <1>2, <1>5, <1>9, TextStep

LEMMA FillTextStep ==
    ASSUME DumpInv, TableInv, FillText
    PROVE  \E r \in Nat : InLine(r)'
<1> DEFINE len == Len(data)
           B == BytesPerLine
<1>1. PICK r \in Nat : InLine(r)
  BY DEF TableInv, FillText
<1> DEFINE b == r * B + c
<1>2. /\ pc = "text" /\ pc' = "text" /\ c >= written /\ c < B /\ c' = c + 1
      /\ UNCHANGED << data, i, start, written >>
      /\ i \in Nat /\ len \in Nat /\ c \in Nat /\ written \in Nat
      /\ start \in Nat /\ start + written = i
  BY DEF FillText, DumpInv
<1>3. start = r * B /\ (written = B \/ i = len) /\ B \in Nat
  BY <1>1, <1>2, CallsAssumption DEF InLine
<1>4. b = start + c
  BY <1>3
<1>5. ~(b < len)
  <2> HIDE DEF b, len, B
  <2> QED
    BY <1>2, <1>3, <1>4
<1>6. TextColumn(b) = Blank
  BY <1>5 DEF TextColumn
<1>7. Adds(<< TextColumn(b) >>)
  <2>1. << Blank >> \in Seq(Nat \ {Percent}) /\ Say(Chars(<< Blank >>), <<>>)
    BY DEF FillText, Blank, Percent
  <2>2. Adds(<< Blank >>)
    BY <2>1, CharsSaid
  <2> QED
    BY <1>6, <2>2
<1> QED
  BY <1>1, <1>2, <1>7, TextStep

LEMMA EndRowStep ==
    ASSUME DumpInv, TableInv, EndRow
    PROVE  \E r \in Nat : BetweenLines(r)'
<1> DEFINE len == Len(data)
           B == BytesPerLine
           t == << Bar, Newline >>
<1>1. PICK r \in Nat : InLine(r)
  BY DEF TableInv, EndRow
<1>2. /\ data' = data /\ i' = i /\ pc = "text" /\ pc' = "row"
      /\ c >= written /\ c >= B /\ c \in Nat /\ i \in Nat /\ written \in Nat
      /\ start + written = i /\ len \in Nat
  BY DEF EndRow, DumpInv
<1>3. /\ start = r * B /\ start < len /\ HasPrinted(SoFar(r, At)) /\ B \in Nat \ {0}
      /\ c <= B /\ written <= B /\ (written = B \/ i = len)
  BY <1>1, <1>2, CallsAssumption DEF InLine
<1>4. c = B
  BY <1>2, <1>3
<1>5. t \in Seq(Nat) /\ Len(t) = 2
  BY DEF Bar, Newline
<1>6. Adds(t)
  <2>1. t \in Seq(Nat \ {Percent}) /\ Say(Chars(t), <<>>)
    BY DEF EndRow, Bar, Newline, Percent
  <2> HIDE DEF t
  <2> QED
    BY <2>1, CharsSaid
<1>7. GoesOn(r, At, t)
  <2>1. pc \in {"bytes", "fill", "text"}
    BY <1>2
  <2> QED
    BY <1>1, <1>2, <1>4, <2>1, InLineGoesOn
<1> HIDE DEF t
<1> DEFINE m == At
<1>8. m \in Nat /\ m + Len(t) = 12 + 4 * B
  <2>1. At = (10 + 3 * B) + B
    BY <1>2, <1>4 DEF At
  <2> QED
    BY <1>3, <1>5, <2>1
<1>9. HasPrinted(SoFar(r, m)) /\ GoesOn(r, m, t)
  BY <1>3, <1>7
<1> HIDE DEF m
<1>10. \A d \in Displays : printed'[d] = SoFar(r, 12 + 4 * B)
  <2>1. data \in Seq(0 .. 255)
    BY DEF DumpInv
  <2>2. \A d \in Displays : printed'[d] = SoFar(r, m + Len(t))
    BY <1>5, <1>6, <1>8, <1>9, <2>1, LineExtended
  <2> QED
    BY <1>8, <2>2
<1> DEFINE q == r + 1
           z == r * B
<1>11. q \in Nat /\ q - 1 = r /\ q * B = z + B /\ z \in Nat
  BY <1>3
<1>12. \A d \in Displays : printed'[d] = Rule \o Lines(q)
  <2>1. SoFar(r, 12 + 4 * B) = Rule \o Lines(q)
    BY LinesJoin DEF DumpInv
  <2> QED
    BY <1>10, <2>1
<1>13. i <= z + B /\ (i = len \/ i = z + B) /\ z < i
  <2> HIDE DEF len, B, z
  <2>1. start = z
    BY <1>3 DEF z
  <2> QED
    BY <1>2, <1>3, <1>11, <2>1
<1> HIDE DEF q
<1>14. HasPrinted(Rule \o Lines(q))'
  <2>1. Lines(q)' = Lines(q)
    BY <1>2, SameTable
  <2>2. (Rule \o Lines(q))' = Rule \o Lines(q)
    BY <2>1 DEF Rule
  <2> QED
    BY <1>12, <2>2 DEF HasPrinted
<1>15. /\ i' <= q * B /\ (i' = Len(data') \/ i' = q * B)
       /\ (q - 1) * B < i'
  BY <1>2, <1>11, <1>13
<1>16. BetweenLines(q)'
  BY <1>14, <1>15 DEF BetweenLines
<1> QED
  BY <1>11, <1>16

LEMMA HeadingStep ==
    ASSUME DumpInv, TableInv, Heading
    PROVE  \E r \in Nat : BetweenLines(r)'
<1>1. /\ data' = data /\ i' = 0 /\ i = 0 /\ HasPrinted(<<>>)
  BY DEF Heading, TableInv
<1>2. Adds(Rule)
  <2>1. Rule \in Seq(Nat \ {Percent}) /\ Say(Chars(Rule), <<>>)
    BY DEF Heading, Rule, Newline, Percent
  <2> QED
    BY <2>1, CharsSaid
<1>3. Lines(0) = <<>> /\ Rule \in Seq(Nat)
  <2>1. 0 \in Nat /\ data \in Seq(0 .. 255)
    BY DEF DumpInv
  <2> QED
    BY <2>1, LinesGrow, RuleType
<1>4. \A d \in Displays : printed'[d] = Rule \o Lines(0)
  <2>1. <<>> \o Rule = Rule /\ Rule \o <<>> = Rule
    BY <1>3
  <2>2. \A d \in Displays : printed'[d] = <<>> \o Rule
    BY <1>1, <1>2 DEF HasPrinted, Adds
  <2> QED
    BY <1>3, <2>1, <2>2
<1>5. HasPrinted(Rule \o Lines(0))'
  <2>1. (Rule \o Lines(0))' = Rule \o Lines(0)
    BY <1>1, SameTable DEF Rule
  <2> QED
    BY <1>4, <2>1 DEF HasPrinted
<1>6. 0 * BytesPerLine = 0
  BY CallsAssumption
<1>7. BetweenLines(0)'
  BY <1>1, <1>5, <1>6 DEF BetweenLines
<1> QED
  BY <1>7

\* As many lines as the memory needs, and the rule below them.
LEMMA FooterStep ==
    ASSUME DumpInv, TableInv, Footer
    PROVE  HexdumpTable'
<1> DEFINE len == Len(data)
           B == BytesPerLine
           lines == (len + B - 1) \div B
<1>1. PICK r \in Nat : BetweenLines(r)
  BY DEF TableInv, Footer
<1>2. /\ data' = data /\ i >= len /\ i <= len /\ i \in Nat /\ len \in Nat
  BY DEF Footer, DumpInv
<1>3. /\ B \in Nat \ {0} /\ i <= r * B /\ (r = 0 \/ (r - 1) * B < i)
      /\ HasPrinted(Rule \o Lines(r))
  BY <1>1, CallsAssumption DEF BetweenLines
<1>4. lines = r
  <2> DEFINE z == r * B
             n == len + B - 1
             rest == n - z
  <2>1. len <= z /\ (r = 0 \/ z - B < len) /\ z \in Nat /\ i = len
    <3>1. (r - 1) * B = z - B
      BY <1>3
    <3> QED
      BY <1>2, <1>3, <3>1
  <2>2. r = 0 => z = 0
    BY <1>3
  <2> HIDE DEF len, z
  <2>3. n \in Nat /\ rest \in 0 .. (B - 1) /\ n = z + rest
    BY <1>2, <1>3, <2>1, <2>2
  <2> HIDE DEF n, rest, B, lines
  <2> DEFINE q == n \div B
             p == n % B
  <2>4. n \in Nat /\ B \in Nat \ {0}
    BY <1>3, <2>3
  <2>5. q \in Nat /\ p \in 0 .. (B - 1) /\ n = B * q + p
    BY <2>4, Division
  <2>6. B * q + p = B * r + rest
    <3>1. B * r = z
      BY <1>3 DEF z
    <3> HIDE DEF q, p
    <3> QED
      BY <2>3, <2>5, <3>1
  <2> HIDE DEF q, p
  <2>7. q = r
    BY <2>3, <2>4, <2>5, <2>6, DivisionIsUnique
  <2> QED
    BY <2>7 DEF n, q, lines
<1>5. Adds(Rule)
  <2>1. Rule \in Seq(Nat \ {Percent}) /\ Say(Chars(Rule), <<>>)
    BY DEF Footer, Rule, Newline, Percent
  <2> QED
    BY <2>1, CharsSaid
<1>6. \A d \in Displays : printed'[d] = (Rule \o Lines(r)) \o Rule
  BY <1>3, <1>5 DEF HasPrinted, Adds
<1>7. ((Rule \o Lines(lines)) \o Rule)' = (Rule \o Lines(r)) \o Rule
  <2>1. lines' = r
    BY <1>2, <1>4
  <2>2. Lines(lines)' = Lines(r)
    <3>1. Lines(r)' = Lines(r)
      BY <1>2, SameTable
    <3>2. Lines(lines)' = FlattenSeq([k \in 1 .. lines' |-> TableLine(k - 1)'])
      BY DEF Lines
    <3>3. Lines(r)' = FlattenSeq([k \in 1 .. r |-> TableLine(k - 1)'])
      BY DEF Lines
    <3> QED
      BY <2>1, <3>1, <3>2, <3>3
  <2> QED
    BY <2>2 DEF Rule
<1>8. \A d \in Displays : printed'[d] = ((Rule \o Lines(lines)) \o Rule)'
  BY <1>6, <1>7
<1>9. HexdumpTable' =
         (pc' = "done" => \A d \in Displays :
             printed'[d] = (<< 45, Newline >> \o Lines(lines) \o << 45, Newline >>)')
  BY Zenon DEF HexdumpTable, Lines
<1> QED
  BY <1>8, <1>9 DEF Rule

LEMMA TableInit == Init => TableInv /\ HexdumpTable
<1> SUFFICES ASSUME Init PROVE TableInv /\ HexdumpTable
  OBVIOUS
<1>1. Len(data) <= Power(2, IntBits)
  <2>1. CASE data = <<>>
    <3>1. 2 \in Nat \ {0, 1} /\ IntBits \in Nat
      BY CallsAssumption
    <3>2. Power(2, IntBits) \in Nat
      BY <3>1, Powers
    <3> QED
      BY <2>1, <3>2
  <2>2. CASE data \in Dumps
    BY <2>2, CallsAssumption
  <2> QED
    BY <2>1, <2>2 DEF Init
<1>2. pc \in {"call", "heading"} /\ i = 0 /\ HasPrinted(<<>>)
  BY DEF Init, HasPrinted
<1> QED
  BY <1>1, <1>2 DEF TableInv, HexdumpTable

LEMMA TableStep ==
    DumpInv /\ TableInv /\ HexdumpTable /\ [Next]_vars => TableInv' /\ HexdumpTable'
<1> SUFFICES ASSUME DumpInv, TableInv, HexdumpTable, [Next]_vars
             PROVE  TableInv' /\ HexdumpTable'
  OBVIOUS
<1>1. Next => data' = data
  BY DEF Next, khexdump, kprintf, Heading, BeginRow, WriteByte, EndBytes, Fill, BeginText,
         WriteText, FillText, EndRow, Footer
<1>2. UNCHANGED vars => data' = data
  BY DEF vars
<1>3. (Len(data) <= Power(2, IntBits))'
  BY <1>1, <1>2 DEF TableInv
<1>4. ASSUME pc' \in {"bytes", "fill", "text"}, \E r \in Nat : InLine(r)'
      PROVE  TableInv' /\ HexdumpTable'
  BY <1>3, <1>4 DEF TableInv, HexdumpTable
<1>5. ASSUME pc' = "row", \E r \in Nat : BetweenLines(r)'
      PROVE  TableInv' /\ HexdumpTable'
  BY <1>3, <1>5 DEF TableInv, HexdumpTable
<1>6. CASE kprintf
  <2>1. pc' = "returned"
    BY <1>6 DEF kprintf
  <2> QED
    BY <1>3, <2>1 DEF TableInv, HexdumpTable
<1>7. CASE Heading
  BY <1>5, <1>7, HeadingStep DEF Heading
<1>8. CASE BeginRow
  BY <1>4, <1>8, BeginRowStep DEF BeginRow
<1>9. CASE WriteByte
  BY <1>4, <1>9, WriteByteStep DEF WriteByte
<1>10. CASE EndBytes
  BY <1>4, <1>10, EndBytesStep DEF EndBytes
<1>11. CASE Fill
  BY <1>4, <1>11, FillStep DEF Fill
<1>12. CASE BeginText
  BY <1>4, <1>12, BeginTextStep DEF BeginText
<1>13. CASE WriteText
  BY <1>4, <1>13, WriteTextStep DEF WriteText
<1>14. CASE FillText
  BY <1>4, <1>14, FillTextStep DEF FillText
<1>15. CASE EndRow
  BY <1>5, <1>15, EndRowStep DEF EndRow
<1>16. CASE Footer
  <2>1. pc' = "done"
    BY <1>16 DEF Footer
  <2>2. HexdumpTable'
    BY <1>16, FooterStep
  <2> QED
    BY <1>3, <2>1, <2>2 DEF TableInv
<1>17. CASE UNCHANGED vars
  <2>1. /\ data' = data /\ pc' = pc /\ i' = i /\ c' = c /\ start' = start
        /\ written' = written /\ printed' = printed
    BY <1>17 DEF vars
  <2>2. HexdumpTable'
    <3> DEFINE lines == (Len(data) + BytesPerLine - 1) \div BytesPerLine
               table == FlattenSeq([r \in 1 .. lines |-> TableLine(r - 1)])
    <3>1. \A r : TableLine(r)' = TableLine(r)
      BY <2>1, SameTable
    <3>2. lines' = lines
      BY <2>1
    <3>3. table' = FlattenSeq([r \in 1 .. lines' |-> TableLine(r - 1)'])
      OBVIOUS
    <3>4. table' = table
      BY <3>1, <3>2, <3>3
    <3>5. HexdumpTable' =
            (pc' = "done" => \A d \in Displays :
                printed'[d] = << 45, Newline >> \o table' \o << 45, Newline >>)
      BY Zenon DEF HexdumpTable
    <3>6. HexdumpTable =
            (pc = "done" => \A d \in Displays :
                printed[d] = << 45, Newline >> \o table \o << 45, Newline >>)
      BY Zenon DEF HexdumpTable
    <3> HIDE DEF table
    <3> QED
      BY <2>1, <3>4, <3>5, <3>6
  <2>3. TableInv'
    <3>1. ASSUME NEW r, BetweenLines(r)
          PROVE  BetweenLines(r)'
      <4>1. (Rule \o Lines(r))' = Rule \o Lines(r)
        BY <2>1, SameTable DEF Rule
      <4> QED
        BY <2>1, <3>1, <4>1 DEF BetweenLines, HasPrinted
    <3>2. ASSUME NEW r, InLine(r)
          PROVE  InLine(r)'
      <4> DEFINE m == At
      <4>1. At' = m /\ HasPrinted(SoFar(r, m))
        BY <2>1, <3>2 DEF At, InLine
      <4> HIDE DEF m
      <4>2. \A d \in Displays : printed'[d] = SoFar(r, m)
        BY <2>1, <4>1 DEF HasPrinted
      <4>3. HasPrinted(SoFar(r, At))'
        BY <2>1, <4>1, <4>2, SoFarNext
      <4> QED
        BY <2>1, <3>2, <4>3 DEF InLine
    <3>3. HasPrinted(<<>>) => HasPrinted(<<>>)'
      BY <2>1 DEF HasPrinted
    <3> QED
      BY <1>3, <2>1, <3>1, <3>2, <3>3 DEF TableInv
  <2> QED
    BY <2>2, <2>3
<1> QED
  BY <1>6, <1>7, <1>8, <1>9, <1>10, <1>11, <1>12, <1>13, <1>14, <1>15, <1>16, <1>17
     DEF Next, khexdump

\* khexdump() writes its table (hexdump.c:16-49): for memory of any length that
\* an offset can count and any number of bytes to a line, every byte is once in
\* each half of its line, at its column, and the last line is filled up.
THEOREM DumpsAreTables == Spec => []HexdumpTable
<1> DEFINE Inv == DumpInv /\ TableInv /\ HexdumpTable
<1>1. Init => Inv
  BY DumpInvInit, TableInit
<1>2. Inv /\ [Next]_vars => Inv'
  BY DumpInvStep, TableStep
<1>3. Inv => HexdumpTable
  OBVIOUS
<1> QED
  BY <1>1, <1>2, <1>3, PTL DEF Spec
===============================================================================
