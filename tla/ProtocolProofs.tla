---------------------------- MODULE ProtocolProofs ----------------------------
(***************************************************************************)
(* For every radix and every message: decode() gives back what encode()    *)
(* was given, accepts nothing but encodings, and neither leaves its        *)
(* buffer.                                                                 *)
(***************************************************************************)
EXTENDS Protocol, SequenceTheorems, TLAPS

Byte == 0 .. Radix - 1

\* Loops of eight rounds at most.
LEMMA UpTo8 ==
  ASSUME NEW S, 0 \in S, \A i \in 0 .. 7 : i \in S => i + 1 \in S
  PROVE  0 .. 8 \subseteq S
<1>1. 1 \in S /\ 2 \in S /\ 3 \in S /\ 4 \in S
  OBVIOUS
<1>2. 5 \in S /\ 6 \in S /\ 7 \in S /\ 8 \in S
  BY <1>1
<1> QED
  BY <1>1, <1>2

\* Two bytes hold any wire size, so one holds any type.
LEMMA RadixIsLarge == Radix \in Nat \ {0} /\ Radix >= 7
<1>1. CASE Radix <= 6
  <2>1. Radix \in {0, 1, 2, 3, 4, 5, 6}
    BY <1>1, ProtocolAssumption
  <2> QED
    BY <2>1, ProtocolAssumption
<1> QED
  BY <1>1, ProtocolAssumption

\* The rounds of a loop.
LEMMA Rounds ==
  ASSUME NEW n \in 0 .. 8
  PROVE  /\ 0 \in 0 .. n /\ n \in 0 .. n
         /\ \A i \in 0 .. n : i \in 0 .. 8 /\ (i # 0 => i \in 1 .. n /\ i <= 8)
         /\ \A i \in 1 .. n : i \in 0 .. n /\ i - 1 \in 0 .. n /\ i \in 1 .. 8 /\ i # 0
         /\ \A i \in 0 .. 7 : i + 1 \in 0 .. 8 /\ i \in 0 .. 8 /\ i + 1 # 0 /\ (i + 1 <= n => i + 1 \in 1 .. n)
         /\ \A i \in 0 .. 7, j \in 1 .. n :
              j <= i + 1 => \/ j = i + 1 /\ j - 1 = i
                            \/ j <= i /\ j # i + 1 /\ j - 1 # i + 1
OBVIOUS

\* The sums a loop of n rounds makes.
Adds(g, n, a, t) ==
  /\ g = [i \in 0 .. n |-> g[i]] /\ \A i \in 0 .. n : g[i] \in Int
  /\ g[0] = a /\ \A i \in 1 .. n : g[i] = g[i - 1] + t[i]

\* There are such sums.
LEMMA RunningSum ==
  ASSUME NEW n \in 0 .. 8, NEW a \in Int, NEW t, \A j \in 1 .. n : t[j] \in Int
  PROVE  \E g : Adds(g, n, a, t)
<1> DEFINE Upto(g, i) == /\ \A j \in 0 .. 8 : g[j] \in Int
                         /\ g[0] = a /\ \A j \in 1 .. n : j <= i => g[j] = g[j - 1] + t[j]
           S == {i \in 0 .. 8 : \E g : Upto(g, i)}
<1>1. 0 \in S
  <2>1. Upto([i \in 0 .. 8 |-> a], 0)
    OBVIOUS
  <2> HIDE DEF Upto
  <2> QED
    BY <2>1
<1>2. ASSUME NEW i \in 0 .. 7, i \in S PROVE i + 1 \in S
  <2>1. PICK g : Upto(g, i)
    BY <1>2
  <2> DEFINE w == IF i + 1 <= n THEN g[i] + t[i + 1] ELSE 0
             h == [j \in 0 .. 8 |-> IF j = i + 1 THEN w ELSE g[j]]
  <2>2. w \in Int
    BY <2>1, Rounds
  <2> HIDE DEF w
  <2>3. \A j \in 0 .. 8 : h[j] = IF j = i + 1 THEN w ELSE g[j]
    OBVIOUS
  <2> HIDE DEF h
  <2>4. (\A j \in 0 .. 8 : h[j] \in Int) /\ h[0] = a
    BY <2>1, <2>2, <2>3
  <2>5. ASSUME NEW j \in 1 .. n, j <= i + 1 PROVE h[j] = h[j - 1] + t[j]
    <3>1. j \in 0 .. 8 /\ j - 1 \in 0 .. 8
      OBVIOUS
    <3>2. CASE j = i + 1 /\ j - 1 = i
      <4>1. h[j] = w /\ h[j - 1] = g[j - 1] /\ w = g[j - 1] + t[j]
        BY <2>3, <2>5, <3>1, <3>2 DEF w
      <4> QED
        BY <4>1
    <3>3. CASE j <= i /\ j # i + 1 /\ j - 1 # i + 1
      BY <2>1, <2>3, <3>1, <3>3
    <3> QED
      BY <2>5, <3>2, <3>3, Rounds
  <2>6. Upto(h, i + 1)
    BY <2>4, <2>5
  <2> HIDE DEF Upto
  <2> QED
    BY <2>6
<1>3. 8 \in S
  <2> HIDE DEF S
  <2> QED
    BY <1>1, <1>2, UpTo8
<1>4. PICK g : Upto(g, 8)
  BY <1>3
<1> DEFINE f == [i \in 0 .. n |-> g[i]]
<1>5. \A i \in 0 .. n : f[i] = g[i]
  OBVIOUS
<1>6. f = [i \in 0 .. n |-> f[i]]
  OBVIOUS
<1> HIDE DEF f
<1>7. (\A i \in 0 .. n : f[i] \in Int) /\ f[0] = a
  BY <1>4, <1>5
<1>8. ASSUME NEW i \in 1 .. n PROVE f[i] = f[i - 1] + t[i]
  <2>1. i \in 0 .. n /\ i <= 8 /\ i - 1 \in 0 .. n
    OBVIOUS
  <2>2. g[i] = g[i - 1] + t[i]
    BY <1>4, <2>1
  <2> QED
    BY <1>5, <2>1, <2>2
<1>9. Adds(f, n, a, t)
  BY <1>6, <1>7, <1>8, Zenon DEF Adds
<1> QED
  BY <1>9

-----------------------------------------------------------------------------
(***************************************************************************)
(* Digits.                                                                 *)
(***************************************************************************)

\* The weights are the powers of the radix.
LEMMA Weights ==
  /\ Weight[0] = 1
  /\ \A i \in 1 .. 8 : Weight[i] = Weight[i - 1] * Radix
  /\ \A i \in 0 .. 8 : Weight[i] \in Nat \ {0}
<1> DEFINE Eq(f) == f = [i \in 0 .. 8 |-> IF i = 0 THEN 1 ELSE f[i - 1] * Radix]
           Upto(g, i) == g[0] = 1 /\ \A j \in 1 .. 8 : j <= i => g[j] = g[j - 1] * Radix
           S == {i \in 0 .. 8 : \E g \in [0 .. 8 -> Nat \ {0}] : Upto(g, i)}
<1>1. 0 \in S
  <2>1. [i \in 0 .. 8 |-> 1] \in [0 .. 8 -> Nat \ {0}] /\ Upto([i \in 0 .. 8 |-> 1], 0)
    OBVIOUS
  <2> HIDE DEF Upto
  <2>2. \E g \in [0 .. 8 -> Nat \ {0}] : Upto(g, 0)
    BY <2>1, Zenon
  <2> QED
    BY <2>2
<1>2. ASSUME NEW i \in 0 .. 7, i \in S PROVE i + 1 \in S
  <2>1. PICK g \in [0 .. 8 -> Nat \ {0}] : Upto(g, i)
    BY <1>2
  <2> DEFINE w == g[i] * Radix
             h == [g EXCEPT ![i + 1] = w]
  <2>2. w \in Nat \ {0}
    BY RadixIsLarge
  <2> HIDE DEF w
  <2>3. h \in [0 .. 8 -> Nat \ {0}] /\ h[0] = 1
    BY <2>1, <2>2
  <2>4. ASSUME NEW j \in 1 .. 8, j <= i + 1 PROVE h[j] = h[j - 1] * Radix
    <3>1. CASE j = i + 1
      BY <3>1 DEF w
    <3>2. CASE j <= i
      <4>1. g[j] = g[j - 1] * Radix
        BY <2>1, <3>2
      <4>2. h[j] = g[j] /\ h[j - 1] = g[j - 1]
        BY <2>4, <3>2
      <4> QED
        BY <4>1, <4>2
    <3> QED
      BY <2>4, <3>1, <3>2
  <2>5. Upto(h, i + 1)
    BY <2>3, <2>4
  <2> HIDE DEF h, Upto
  <2>6. \E f \in [0 .. 8 -> Nat \ {0}] : Upto(f, i + 1)
    BY <2>3, <2>5, Zenon
  <2> QED
    BY <2>6
<1>3. 8 \in S
  <2> HIDE DEF S
  <2> QED
    BY <1>1, <1>2, UpTo8
<1>4. PICK g \in [0 .. 8 -> Nat \ {0}] : Upto(g, 8)
  BY <1>3
<1>5. Eq(g)
  <2>1. \A i \in 0 .. 8 : g[i] = IF i = 0 THEN 1 ELSE g[i - 1] * Radix
    BY <1>4
  <2> QED
    BY <2>1
<1>6. Eq(Weight)
  <2>1. Weight = CHOOSE f : Eq(f)
    BY DEF Weight
  <2> HIDE DEF Eq
  <2> QED
    BY <1>5, <2>1
<1>7. Weight[0] = 1 /\ \A i \in 1 .. 8 : Weight[i] = Weight[i - 1] * Radix
  <2> HIDE DEF Weight
  <2> QED
    BY <1>6
<1>8. \A i \in 0 .. 8 : Weight[i] \in Nat \ {0}
  <2> HIDE DEF Weight
  <2> DEFINE T == {i \in 0 .. 8 : Weight[i] \in Nat \ {0}}
  <2>1. 0 \in T
    BY <1>7
  <2>2. ASSUME NEW i \in 0 .. 7, i \in T PROVE i + 1 \in T
    <3> DEFINE w == Weight[i]
    <3>1. w \in Nat \ {0} /\ Weight[i + 1] = w * Radix
      BY <1>7, <2>2
    <3> HIDE DEF w
    <3>2. w * Radix \in Nat \ {0}
      BY <3>1, RadixIsLarge
    <3> QED
      BY <3>1, <3>2
  <2> HIDE DEF T
  <2>3. 0 .. 8 \subseteq T
    BY <2>1, <2>2, UpTo8
  <2> QED
    BY <2>3 DEF T
<1> QED
  BY <1>7, <1>8

\* Weights are positive.
LEMMA WeightsPositive == \A i \in 0 .. 8 : Weight[i] \in Nat /\ Weight[i] # 0
BY Weights

\* The product of naturals is one.
LEMMA NatProduct == \A x, y \in Nat : x * y \in Nat
OBVIOUS

\* What get_u*() has after each byte.
Loop(v, bytes, n) ==
  /\ v[0] = 0 /\ \A i \in 0 .. n : v[i] \in Int
  /\ \A i \in 1 .. n : v[i] = v[i - 1] + Weight[i - 1] * bytes[i]

\* get_u*() is its loop.
LEMMA GetLoop ==
  ASSUME NEW n \in 1 .. 8, NEW bytes \in [1 .. n -> Byte]
  PROVE  \E v : Loop(v, bytes, n) /\ GetUnsigned(bytes) = v[n]
<1> DEFINE t == [i \in 1 .. n |-> Weight[i - 1] * bytes[i]]
           Eq(v) == v = [i \in 0 .. n |-> IF i = 0 THEN 0 ELSE v[i - 1] + Weight[i - 1] * bytes[i]]
<1>1. n \in 0 .. 8 /\ 0 \in Int
  OBVIOUS
<1>2. ASSUME NEW i \in 1 .. n PROVE t[i] = Weight[i - 1] * bytes[i] /\ t[i] \in Int
  <2>1. Weight[i - 1] \in Nat /\ bytes[i] \in Nat
    <3>1. i - 1 \in 0 .. 8
      OBVIOUS
    <3> QED
      <4>1. bytes[i] \in Byte
        OBVIOUS
      <4>2. \A y \in Byte : y \in Nat
        BY RadixIsLarge DEF Byte
      <4> QED
        BY <3>1, <4>1, <4>2, WeightsPositive, Zenon
  <2>2. Weight[i - 1] * bytes[i] \in Nat
    BY <2>1, NatProduct
  <2> QED
    BY <2>2
<1> HIDE DEF t
<1>3. PICK g : Adds(g, n, 0, t)
  <2>1. \A i \in 1 .. n : t[i] \in Int
    BY <1>2
  <2> QED
    BY <1>1, <2>1, RunningSum
<1>4. Eq(g)
  <2>1. ASSUME NEW i \in 0 .. n
        PROVE  g[i] = IF i = 0 THEN 0 ELSE g[i - 1] + Weight[i - 1] * bytes[i]
    <3>1. CASE i = 0
      BY <1>3, <3>1 DEF Adds
    <3>2. CASE i # 0
      <4>1. i \in 1 .. n
        BY <3>2
      <4> QED
        BY <1>2, <1>3, <3>2, <4>1, Zenon DEF Adds
    <3> QED
      BY <3>1, <3>2
  <2>2. g = [i \in 0 .. n |-> g[i]]
    BY <1>3 DEF Adds
  <2> QED
    BY <2>1, <2>2, Zenon
<1> DEFINE v == CHOOSE f : Eq(f)
<1>5. Eq(v)
  <2> HIDE DEF Eq
  <2> QED
    BY <1>4
<1>6. Len(bytes) = n
  BY LenProperties, SeqDef
<1>7. GetUnsigned(bytes) = v[n]
  BY <1>6 DEF GetUnsigned
<1> HIDE DEF v
<1>8. v[0] = 0 /\ \A i \in 1 .. n : v[i] = v[i - 1] + Weight[i - 1] * bytes[i]
  BY <1>5
<1>9. \A i \in 0 .. n : v[i] \in Int
  <2> DEFINE S == {i \in 0 .. 8 : i <= n => v[i] \in Int}
  <2>1. 0 \in S
    BY <1>8
  <2>2. ASSUME NEW i \in 0 .. 7, i \in S PROVE i + 1 \in S
    <3>1. CASE i + 1 <= n
      <4>1. i + 1 \in 1 .. n /\ (i + 1) - 1 = i /\ v[i] \in Int
        BY <2>2, <3>1
      <4>2. v[i + 1] = v[i] + t[i + 1] /\ t[i + 1] \in Int
        BY <1>2, <1>8, <4>1
      <4> QED
        BY <4>1, <4>2
    <3> QED
      BY <3>1
  <2> HIDE DEF S
  <2>3. 0 .. 8 \subseteq S
    BY <2>1, <2>2, UpTo8
  <2> QED
    <3>1. ASSUME NEW i \in 0 .. n PROVE i \in 0 .. 8 /\ i <= n
      OBVIOUS
    <3> QED
      BY <2>3, <3>1, Zenon DEF S
<1> QED
  BY <1>7, <1>8, <1>9 DEF Loop

\* Taking one digit more off a number.
LEMMA DigitStep ==
  ASSUME NEW x \in Nat, NEW w \in Nat \ {0}, NEW r \in Nat \ {0}
  PROVE  x % (w * r) = (x % w) + w * ((x \div w) % r)
<1> DEFINE q == x \div w
           low == x % w
           d == q % r
           e == q \div r
<1>1. q \in Nat /\ low \in 0 .. w - 1 /\ x = w * q + low
  OBVIOUS
<1>2. e \in Nat /\ d \in 0 .. r - 1 /\ q = r * e + d
  <2> HIDE DEF q
  <2> QED
    BY <1>1
<1> HIDE DEF q, low, d, e
<1>3. x = (w * r) * e + (w * d + low)
  BY <1>1, <1>2
<1>4. w * d + low \in 0 .. w * r - 1 /\ w * r \in Nat \ {0}
  BY <1>1, <1>2
<1> DEFINE m == w * r
           y == w * d + low
<1>5. x = m * e + y /\ y \in 0 .. m - 1 /\ m \in Nat \ {0}
  BY <1>3, <1>4
<1> HIDE DEF m, y
<1>6. x % m = y
  BY <1>2, <1>5
<1> QED
  BY <1>6 DEF m, y, d, low, q

\* A number has one digit and one remainder at a weight.
LEMMA SplitIsUnique ==
  \A w \in Nat \ {0} : \A a, c \in 0 .. w - 1 : \A b, d \in Int :
    a + w * b = c + w * d => a = c /\ b = d
<1> SUFFICES ASSUME NEW w \in Nat \ {0}, NEW a \in 0 .. w - 1, NEW c \in 0 .. w - 1,
                    NEW b \in Int, NEW d \in Int, a + w * b = c + w * d
             PROVE  a = c /\ b = d
  OBVIOUS
<1>1. w * (b - d) = c - a
  OBVIOUS
<1>2. CASE b - d >= 1
  <2>1. w * (b - d) >= w
    BY <1>2
  <2> QED
    BY <1>1, <2>1
<1>3. CASE b - d <= -1
  <2>1. w * (b - d) <= -w
    BY <1>3
  <2> QED
    BY <1>1, <2>1
<1>4. b = d
  BY <1>2, <1>3
<1> QED
  BY <1>1, <1>4

\* A remainder and a digit stay below the next weight.
LEMMA NextWeight ==
  ASSUME NEW w \in Nat \ {0}, NEW r \in Nat \ {0}, NEW a \in 0 .. w - 1, NEW d \in 0 .. r - 1
  PROVE  a + w * d \in 0 .. w * r - 1
<1>1. w * d \in Nat /\ w * (r - 1) \in Nat /\ w * d <= w * (r - 1) /\ w * (r - 1) = w * r - w
  OBVIOUS
<1> QED
  BY <1>1

\* What put_u*() writes get_u*() reads back.
LEMMA PutThenGet ==
  ASSUME NEW n \in 1 .. 8, NEW x \in 0 .. Weight[n] - 1
  PROVE  PutUnsigned(x, n) \in [1 .. n -> Byte] /\ GetUnsigned(PutUnsigned(x, n)) = x
<1> DEFINE bytes == PutUnsigned(x, n)
<1>1. x \in Nat /\ n \in 0 .. 8 /\ Weight[n] \in Nat \ {0}
  BY Weights
<1>2. ASSUME NEW i \in 1 .. n
      PROVE  /\ bytes[i] = (x \div Weight[i - 1]) % Radix /\ bytes[i] \in Byte
             /\ Weight[i - 1] \in Nat \ {0} /\ Weight[i] = Weight[i - 1] * Radix
  <2>1. Weight[i - 1] \in Nat \ {0} /\ Weight[i] = Weight[i - 1] * Radix
    <3>1. i \in 1 .. 8 /\ i - 1 \in 0 .. 8
      OBVIOUS
    <3> QED
      BY <3>1, Weights
  <2>2. bytes[i] = (x \div Weight[i - 1]) % Radix
    BY DEF PutUnsigned
  <2> DEFINE w == Weight[i - 1]
  <2> HIDE DEF w, bytes
  <2>3. \A y \in Nat \ {0} : (x \div y) \in Nat
    BY <1>1
  <2>4. \A y \in Nat : y % Radix \in Byte
    BY RadixIsLarge DEF Byte
  <2> QED
    BY <2>1, <2>2, <2>3, <2>4
<1>3. bytes \in [1 .. n -> Byte]
  BY <1>2, Zenon DEF PutUnsigned
<1> HIDE DEF bytes
<1>4. PICK v : Loop(v, bytes, n) /\ GetUnsigned(bytes) = v[n]
  BY <1>3, GetLoop, Zenon
<1> DEFINE S == {i \in 0 .. 8 : i <= n => v[i] = x % Weight[i]}
<1>5. 0 \in S
  BY <1>1, <1>4, Weights DEF Loop
<1>6. ASSUME NEW i \in 0 .. 7, i \in S PROVE i + 1 \in S
  <2>1. CASE i + 1 <= n
    <3>1. i + 1 \in 1 .. n /\ (i + 1) - 1 = i /\ v[i] = x % Weight[i]
      BY <1>6, <2>1
    <3>2. /\ v[i + 1] = v[i] + Weight[i] * bytes[i + 1]
          /\ bytes[i + 1] = (x \div Weight[i]) % Radix
          /\ Weight[i] \in Nat \ {0} /\ Weight[i + 1] = Weight[i] * Radix
      BY <1>2, <1>4, <3>1 DEF Loop
    <3>3. x % (Weight[i] * Radix) = (x % Weight[i]) + Weight[i] * ((x \div Weight[i]) % Radix)
      BY <1>1, <3>2, DigitStep, RadixIsLarge, Zenon
    <3> QED
      BY <3>1, <3>2, <3>3
  <2> QED
    BY <2>1
<1>7. n \in S
  <2> HIDE DEF S
  <2> QED
    BY <1>1, <1>5, <1>6, UpTo8
<1>8. v[n] = x % Weight[n]
  BY <1>1, <1>7
<1>9. x % Weight[n] = x
  BY <1>1
<1> QED
  BY <1>3, <1>4, <1>8, <1>9 DEF bytes

\* What get_u*() reads put_u*() would have written.
LEMMA GetThenPut ==
  ASSUME NEW n \in 1 .. 8, NEW bytes \in [1 .. n -> Byte]
  PROVE  /\ GetUnsigned(bytes) \in 0 .. Weight[n] - 1
         /\ PutUnsigned(GetUnsigned(bytes), n) = bytes
<1>1. n \in 0 .. 8
  OBVIOUS
<1>2. PICK v : Loop(v, bytes, n) /\ GetUnsigned(bytes) = v[n]
  BY GetLoop, Zenon
<1>3. ASSUME NEW i \in 0 .. 7, i + 1 <= n
      PROVE  /\ v[i + 1] = v[i] + Weight[i] * bytes[i + 1] /\ bytes[i + 1] \in Byte
             /\ Weight[i] \in Nat \ {0} /\ Weight[i + 1] = Weight[i] * Radix
  <2>1. i + 1 \in 1 .. n /\ (i + 1) - 1 = i /\ i \in 0 .. 8 /\ i + 1 \in 1 .. 8
    BY <1>3
  <2> QED
    BY <1>2, <2>1, Weights, Zenon DEF Loop
<1> DEFINE S == {i \in 0 .. 8 : i <= n => v[i] \in 0 .. Weight[i] - 1}
<1>4. 0 \in S
  BY <1>2, Weights DEF Loop
<1>5. ASSUME NEW i \in 0 .. 7, i \in S PROVE i + 1 \in S
  <2>1. CASE i + 1 <= n
    <3>1. v[i] \in 0 .. Weight[i] - 1
      BY <1>5, <2>1
    <3>2. v[i] + Weight[i] * bytes[i + 1] \in 0 .. Weight[i] * Radix - 1
      BY <1>3, <2>1, <3>1, NextWeight, RadixIsLarge, Zenon DEF Byte
    <3> QED
      <4>1. v[i + 1] = v[i] + Weight[i] * bytes[i + 1] /\ Weight[i + 1] = Weight[i] * Radix
        BY <1>3, <2>1, Zenon
      <4>2. v[i + 1] \in 0 .. Weight[i + 1] - 1
        BY <3>2, <4>1, Zenon
      <4> QED
        BY <4>2
  <2> QED
    BY <2>1
<1>6. 0 .. 8 \subseteq S
  <2> HIDE DEF S
  <2> QED
    BY <1>4, <1>5, UpTo8
<1>7. \A i \in 0 .. n : v[i] \in 0 .. Weight[i] - 1
  <2>1. ASSUME NEW i \in 0 .. n PROVE i \in 0 .. 8 /\ i <= n
    OBVIOUS
  <2> QED
    BY <1>6, <2>1, Zenon
<1> HIDE DEF S
<1> DEFINE x == v[n]
<1>8. x \in 0 .. Weight[n] - 1 /\ x \in Nat /\ Weight[n] \in Nat \ {0} /\ x % Weight[n] = x
  <2>1. v[n] \in 0 .. Weight[n] - 1 /\ Weight[n] \in Nat \ {0}
    <3>1. n \in 0 .. n
      BY <1>1
    <3>2. v[n] \in 0 .. Weight[n] - 1
      BY <1>7, <3>1, Zenon
    <3> QED
      BY <1>1, <3>2, WeightsPositive, Zenon
  <2> QED
    BY <2>1
<1> HIDE DEF x
<1>9. ASSUME NEW i \in 0 .. 7, i + 1 <= n, x % Weight[i + 1] = v[i + 1]
      PROVE  x % Weight[i] = v[i] /\ (x \div Weight[i]) % Radix = bytes[i + 1]
  <2> DEFINE w == Weight[i]
             d == (x \div w) % Radix
             c == x % w
  <2>1. w \in Nat \ {0} /\ v[i + 1] = v[i] + w * bytes[i + 1] /\ bytes[i + 1] \in Int
    <3>1. w \in Nat \ {0} /\ v[i + 1] = v[i] + w * bytes[i + 1] /\ bytes[i + 1] \in Byte
      BY <1>3, <1>9, Zenon
    <3>2. \A y \in Byte : y \in Int
      BY RadixIsLarge DEF Byte
    <3> QED
      BY <3>1, <3>2
  <2>2. x % Weight[i + 1] = c + w * d
    <3>1. w \in Nat \ {0} /\ Weight[i + 1] = w * Radix
      BY <1>3, <1>9, Zenon
    <3>2. Radix \in Nat \ {0} /\ x \in Nat
      BY <1>8, RadixIsLarge
    <3>3. x % (w * Radix) = (x % w) + w * ((x \div w) % Radix)
      BY <3>1, <3>2, DigitStep, Zenon
    <3> QED
      BY <3>1, <3>3, Zenon
  <2>3. v[i] \in 0 .. w - 1
    BY <1>7, <1>9
  <2> HIDE DEF w
  <2>4. c \in 0 .. w - 1 /\ (x \div w) \in Nat
    <3>1. x \in Nat
      BY <1>8
    <3>2. \A y \in Nat \ {0} : x % y \in 0 .. y - 1 /\ (x \div y) \in Nat
      BY <3>1
    <3> QED
      BY <2>1, <3>2, Zenon
  <2>5. d \in Int
    BY <2>4, RadixIsLarge
  <2> HIDE DEF c, d
  <2>6. c + w * d = v[i] + w * bytes[i + 1]
    BY <1>9, <2>1, <2>2
  <2>7. c = v[i] /\ d = bytes[i + 1]
    <3>1. w \in Nat \ {0} /\ bytes[i + 1] \in Int /\ c \in 0 .. w - 1 /\ v[i] \in 0 .. w - 1
      BY <2>1, <2>3, <2>4, Zenon
    <3> QED
      <4>1. \A a, z \in 0 .. w - 1 : \A b, y \in Int : a + w * b = z + w * y => a = z /\ b = y
        BY <3>1, SplitIsUnique, Zenon
      <4>2. \A b, y \in Int : c + w * b = v[i] + w * y => c = v[i] /\ b = y
        BY <3>1, <4>1, Zenon
      <4> QED
        BY <3>1, <2>5, <2>6, <4>2, Zenon
  <2> QED
    BY <2>7 DEF c, d, w
<1> DEFINE T == {j \in 0 .. 8 : j <= n => x % Weight[n - j] = v[n - j]}
<1>10. 0 \in T
  BY <1>8 DEF x
<1>11. ASSUME NEW j \in 0 .. 7, j \in T PROVE j + 1 \in T
  <2>1. CASE j + 1 <= n
    <3> DEFINE i == n - (j + 1)
    <3>1. i \in 0 .. 7 /\ i + 1 <= n /\ i + 1 = n - j /\ j <= n
      BY <2>1
    <3>2. x % Weight[i + 1] = v[i + 1]
      BY <1>11, <3>1
    <3> HIDE DEF i
    <3>3. x % Weight[i] = v[i]
      BY <1>9, <3>1, <3>2, Zenon
    <3> QED
      BY <3>3 DEF i
  <2> QED
    BY <2>1
<1>12. 0 .. 8 \subseteq T
  <2> HIDE DEF T
  <2> QED
    BY <1>10, <1>11, UpTo8
<1>13. ASSUME NEW k \in 1 .. n PROVE (x \div Weight[k - 1]) % Radix = bytes[k]
  <2> DEFINE i == k - 1
             j == n - k
  <2>1. i \in 0 .. 7 /\ i + 1 <= n /\ i + 1 = k /\ j \in 0 .. 8 /\ j <= n /\ n - j = k
    OBVIOUS
  <2>2. x % Weight[n - j] = v[n - j]
    BY <1>12, <2>1, Zenon
  <2> HIDE DEF i, j
  <2>3. (x \div Weight[i]) % Radix = bytes[i + 1]
    BY <1>9, <2>1, <2>2
  <2> QED
    BY <2>1, <2>3 DEF i
<1>14. PutUnsigned(x, n) = bytes
  BY <1>13 DEF PutUnsigned
<1> QED
  BY <1>2, <1>8, <1>14 DEF x

-----------------------------------------------------------------------------
(***************************************************************************)
(* Fields.                                                                 *)
(***************************************************************************)
Kinds == {"u8", "u16", "u32", "u64", "i64", "symbol"}

\* The width of a field is one a loop goes through.
LEMMA Widths == DOMAIN Width = Kinds /\ \A kind \in Kinds : Width[kind] \in 1 .. 8
BY DEF Width, Kinds

\* Half of the 64-bit numbers are negative.
LEMMA Halves ==
  \E h \in Nat \ {0} : Weight[8] = 2 * h /\ Weight[8] \div 2 = h
<1>1. PICK r \in Nat \ {0} : Radix = 2 * r
  <2>1. Radix \div 2 \in Nat \ {0} /\ Radix = 2 * (Radix \div 2)
    BY RadixIsLarge, ProtocolAssumption
  <2> QED
    BY <2>1, Zenon
<1>2. Weight[8] = Weight[7] * Radix /\ Weight[7] \in Nat \ {0}
  <2>1. 8 \in 1 .. 8 /\ 8 - 1 = 7 /\ 7 \in 0 .. 8
    OBVIOUS
  <2> QED
    BY <2>1, Weights
<1> DEFINE w == Weight[7]
           h == w * r
<1> HIDE DEF w
<1>3. h \in Nat \ {0} /\ Weight[8] = 2 * h
  BY <1>1, <1>2 DEF w
<1> HIDE DEF h
<1>4. Weight[8] \div 2 = h
  BY <1>3
<1> QED
  BY <1>3, <1>4

\* A field is read back as it was written.
LEMMA FieldPutThenGet ==
  ASSUME NEW kind \in Kinds, NEW x \in FieldValues(kind)
  PROVE  /\ PutField(kind, x) \in [1 .. Width[kind] -> Byte]
         /\ GetField(kind, PutField(kind, x)) = x
<1>1. CASE kind = "symbol"
  BY <1>1 DEF FieldValues, PutField, GetField, Width, Byte
<1>2. CASE kind = "i64"
  <2>1. PICK h \in Nat \ {0} : Weight[8] = 2 * h /\ Weight[8] \div 2 = h
    BY Halves
  <2>2. x \in (-h) .. h - 1
    BY <1>2, <2>1 DEF FieldValues
  <2> DEFINE u == x % (2 * h)
  <2>3. u \in 0 .. 2 * h - 1 /\ x = IF u < h THEN u ELSE u - 2 * h
    <3>1. CASE x >= 0
      <4>1. u = x
        BY <2>2, <3>1
      <4> QED
        BY <2>2, <3>1, <4>1
    <3>2. CASE x < 0
      <4>1. u = x + 2 * h
        BY <2>2, <3>2
      <4> QED
        BY <2>2, <3>2, <4>1
    <3> QED
      BY <2>2, <3>1, <3>2
  <2> HIDE DEF u
  <2>4. PutField(kind, x) = PutUnsigned(u, 8)
    BY <1>2, <2>1 DEF PutField, u
  <2>5. u \in 0 .. Weight[8] - 1 /\ 8 \in 1 .. 8
    BY <2>1, <2>3
  <2>6. PutUnsigned(u, 8) \in [1 .. 8 -> Byte] /\ GetUnsigned(PutUnsigned(u, 8)) = u
    BY <2>5, PutThenGet
  <2>7. GetField(kind, PutUnsigned(u, 8)) = x
    BY <1>2, <2>1, <2>3, <2>6 DEF GetField
  <2> QED
    BY <1>2, <2>4, <2>6, <2>7 DEF Width
<1>3. CASE kind \notin {"symbol", "i64"}
  <2> DEFINE n == Width[kind]
  <2>1. n \in 1 .. 8
    BY Widths
  <2>2. x \in 0 .. Weight[n] - 1
    BY <1>3 DEF FieldValues
  <2>3. PutField(kind, x) = PutUnsigned(x, n)
    BY <1>3 DEF PutField
  <2> HIDE DEF n
  <2>4. PutUnsigned(x, n) \in [1 .. n -> Byte] /\ GetUnsigned(PutUnsigned(x, n)) = x
    BY <2>1, <2>2, PutThenGet, Zenon
  <2>5. GetField(kind, PutUnsigned(x, n)) = x
    BY <1>3, <2>4 DEF GetField
  <2> QED
    BY <2>3, <2>4, <2>5 DEF n
<1> QED
  BY <1>1, <1>2, <1>3

\* The bytes a field was read from are those it is written as.
LEMMA FieldGetThenPut ==
  ASSUME NEW kind \in Kinds, NEW bytes \in [1 .. Width[kind] -> Byte]
  PROVE  /\ GetField(kind, bytes) \in FieldValues(kind)
         /\ PutField(kind, GetField(kind, bytes)) = bytes
<1>1. CASE kind = "symbol"
  BY <1>1 DEF FieldValues, PutField, GetField, Width, Byte
<1>2. CASE kind = "i64"
  <2>1. PICK h \in Nat \ {0} : Weight[8] = 2 * h /\ Weight[8] \div 2 = h
    BY Halves
  <2> DEFINE u == GetUnsigned(bytes)
             x == IF u < h THEN u ELSE u - 2 * h
  <2>2. bytes \in [1 .. 8 -> Byte] /\ 8 \in 1 .. 8
    BY <1>2 DEF Width
  <2>3. u \in 0 .. 2 * h - 1 /\ PutUnsigned(u, 8) = bytes
    BY <2>1, <2>2, GetThenPut
  <2>4. GetField(kind, bytes) = x
    BY <1>2, <2>1 DEF GetField
  <2> HIDE DEF u
  <2>5. x \in (-h) .. h - 1 /\ x % (2 * h) = u
    <3>1. CASE u < h
      BY <2>3, <3>1
    <3>2. CASE ~(u < h)
      <4> DEFINE y == u - 2 * h
      <4>1. y \in (-h) .. -1 /\ u = y + 2 * h
        BY <2>3, <3>2
      <4> HIDE DEF y
      <4>2. y % (2 * h) = y + 2 * h
        BY <4>1
      <4>3. x = y
        BY <3>2 DEF y
      <4> QED
        BY <4>1, <4>2, <4>3
    <3> QED
      BY <3>1, <3>2
  <2> HIDE DEF x
  <2>6. x \in FieldValues(kind)
    BY <1>2, <2>1, <2>5 DEF FieldValues
  <2>7. PutField(kind, x) = PutUnsigned(u, 8)
    BY <1>2, <2>1, <2>5 DEF PutField
  <2> QED
    BY <2>3, <2>4, <2>6, <2>7
<1>3. CASE kind \notin {"symbol", "i64"}
  <2> DEFINE n == Width[kind]
             x == GetUnsigned(bytes)
  <2>1. n \in 1 .. 8
    BY Widths
  <2>2. GetField(kind, bytes) = x
    BY <1>3 DEF GetField
  <2> HIDE DEF n
  <2>3. bytes \in [1 .. n -> Byte]
    BY DEF n
  <2>4. x \in 0 .. Weight[n] - 1 /\ PutUnsigned(x, n) = bytes
    BY <2>1, <2>3, GetThenPut, Zenon
  <2> HIDE DEF x
  <2>5. x \in FieldValues(kind) /\ PutField(kind, x) = PutUnsigned(x, n)
    BY <1>3, <2>4 DEF FieldValues, PutField, n
  <2> QED
    BY <2>2, <2>4, <2>5
<1> QED
  BY <1>1, <1>2, <1>3

-----------------------------------------------------------------------------
(***************************************************************************)
(* Layouts: the fields follow one another from the header to the end.      *)
(***************************************************************************)
IsLayout(fields) ==
  /\ Len(fields) \in 0 .. 8 /\ DOMAIN fields = 1 .. Len(fields)
  /\ \A k \in 1 .. Len(fields) : fields[k][2] \in Kinds /\ fields[k][1] # "type"
  /\ \A j, k \in 1 .. Len(fields) : fields[j][1] = fields[k][1] => j = k

\* Positions p of n fields of widths w.
Follows(p, n, w) ==
  /\ p[0] = kHeaderSize /\ \A k \in 0 .. n : p[k] \in Int
  /\ \A k \in 1 .. n : p[k] = p[k - 1] + w[k] /\ w[k] \in 1 .. 8

WidthsOf(fields) == [k \in 1 .. Len(fields) |-> Width[fields[k][2]]]

\* Offset() is where the fields are.
LEMMA OffsetFollows ==
  ASSUME NEW fields, IsLayout(fields)
  PROVE  /\ Follows(Offset(fields), Len(fields), WidthsOf(fields))
         /\ DOMAIN Offset(fields) = 0 .. Len(fields)
         /\ \A k \in 1 .. Len(fields) : WidthsOf(fields)[k] = Width[fields[k][2]]
<1> DEFINE n == Len(fields)
           t == WidthsOf(fields)
           Eq(v) == v = [k \in 0 .. n |-> IF k = 0 THEN kHeaderSize ELSE v[k - 1] + Width[fields[k][2]]]
<1>1. n \in 0 .. 8 /\ kHeaderSize \in Int
  <2>1. Len(fields) \in 0 .. 8
    BY Zenon DEF IsLayout
  <2> QED
    BY <2>1 DEF kHeaderSize
<1>2. ASSUME NEW k \in 1 .. n PROVE t[k] = Width[fields[k][2]] /\ t[k] \in 1 .. 8 /\ t[k] \in Int
  <2>1. Width[fields[k][2]] \in 1 .. 8
    BY Widths DEF IsLayout
  <2> QED
    BY <2>1 DEF WidthsOf
<1> HIDE DEF n, t
<1>3. PICK g : Adds(g, n, kHeaderSize, t)
  <2>1. \A k \in 1 .. n : t[k] \in Int
    BY <1>2
  <2> QED
    BY <1>1, <2>1, RunningSum
<1>4. Eq(g)
  <2>1. ASSUME NEW k \in 0 .. n
        PROVE  g[k] = IF k = 0 THEN kHeaderSize ELSE g[k - 1] + Width[fields[k][2]]
    <3>1. CASE k = 0
      BY <1>3, <3>1 DEF Adds
    <3>2. CASE k # 0
      <4>1. k \in 1 .. n
        BY <1>1, <3>2
      <4> QED
        BY <1>2, <1>3, <3>2, <4>1, Zenon DEF Adds
    <3> QED
      BY <3>1, <3>2
  <2>2. g = [k \in 0 .. n |-> g[k]]
    BY <1>3 DEF Adds
  <2> QED
    BY <2>1, <2>2, Zenon
<1> DEFINE v == CHOOSE f : Eq(f)
<1>5. Eq(v)
  <2> HIDE DEF Eq
  <2> QED
    BY <1>4
<1>6. Offset(fields) = v
  BY DEF Offset, n
<1> HIDE DEF v
<1>7. v[0] = kHeaderSize /\ DOMAIN v = 0 .. n
  BY <1>1, <1>5
<1>8. ASSUME NEW k \in 1 .. n PROVE v[k] = v[k - 1] + t[k]
  <2>1. k \in 0 .. n /\ k # 0
    BY <1>1
  <2>2. v[k] = v[k - 1] + Width[fields[k][2]]
    BY <1>5, <2>1, Zenon
  <2> QED
    BY <1>2, <2>2
<1>9. \A k \in 0 .. n : v[k] \in Int
  <2> DEFINE S == {i \in 0 .. 8 : i <= n => v[i] \in Int}
  <2>1. 0 \in S
    BY <1>1, <1>7
  <2>2. ASSUME NEW i \in 0 .. 7, i \in S PROVE i + 1 \in S
    <3>1. CASE i + 1 <= n
      <4>1. i + 1 \in 1 .. n /\ (i + 1) - 1 = i /\ v[i] \in Int
        BY <1>1, <2>2, <3>1
      <4>2. v[i + 1] = v[i] + t[i + 1] /\ t[i + 1] \in Int
        BY <1>2, <1>8, <4>1
      <4> QED
        BY <4>1, <4>2
    <3> QED
      BY <3>1
  <2> HIDE DEF S
  <2>3. 0 .. 8 \subseteq S
    BY <2>1, <2>2, UpTo8
  <2>4. ASSUME NEW i \in 0 .. n PROVE i \in 0 .. 8 /\ i <= n
    BY <1>1
  <2> QED
    BY <2>3, <2>4 DEF S
<1>10. Follows(v, n, t)
  BY <1>2, <1>7, <1>8, <1>9 DEF Follows
<1> QED
  BY <1>2, <1>6, <1>7, <1>10 DEF n, t

\* Fields further on are at higher positions.
LEMMA OffsetsGrow ==
  ASSUME NEW n \in 0 .. 8, NEW p, NEW w, Follows(p, n, w)
  PROVE  \A j, k \in 0 .. n : j <= k => p[j] <= p[k]
<1> DEFINE S == {i \in 0 .. 8 : i <= n => \A j \in 0 .. n : j <= i => p[j] <= p[i]}
<1>1. 0 \in S
  BY DEF Follows
<1>2. ASSUME NEW i \in 0 .. 7, i \in S PROVE i + 1 \in S
  <2>1. SUFFICES ASSUME i + 1 <= n, NEW j \in 0 .. n, j <= i + 1 PROVE p[j] <= p[i + 1]
    OBVIOUS
  <2>2. i + 1 \in 1 .. n /\ (i + 1) - 1 = i /\ i \in 0 .. n /\ i + 1 \in 0 .. n
    BY <2>1
  <2>3. p[i + 1] = p[i] + w[i + 1] /\ w[i + 1] \in 1 .. 8 /\ p[i] \in Int /\ p[j] \in Int
    BY <2>2 DEF Follows
  <2>4. CASE j = i + 1
    BY <2>3, <2>4
  <2>5. CASE j <= i
    <3>1. p[j] <= p[i]
      BY <1>2, <2>2, <2>5
    <3> QED
      BY <2>3, <3>1
  <2> QED
    BY <2>1, <2>4, <2>5
<1>3. 0 .. 8 \subseteq S
  <2> HIDE DEF S
  <2> QED
    BY <1>1, <1>2, UpTo8
<1>4. ASSUME NEW k \in 0 .. n PROVE k \in 0 .. 8 /\ k <= n
  OBVIOUS
<1> QED
  BY <1>3, <1>4

\* FieldAt() finds the field of a position.
LEMMA FieldIsFound ==
  ASSUME NEW n \in 0 .. 8, NEW p, NEW w, Follows(p, n, w), DOMAIN p = 0 .. n,
         NEW k \in 1 .. n, NEW b \in 1 .. w[k]
  PROVE  /\ FieldAt(p, p[k - 1] + b) = k
         /\ p[k - 1] + b \in kHeaderSize + 1 .. p[n]
         /\ p[k - 1] >= kHeaderSize /\ p[k - 1] + w[k] <= p[n]
<1>1. k - 1 \in 0 .. n /\ k \in 0 .. n /\ n \in 0 .. n /\ 0 \in 0 .. n /\ 0 <= k - 1 /\ k <= n
  OBVIOUS
<1>2. p[k] = p[k - 1] + w[k] /\ w[k] \in 1 .. 8 /\ p[k] \in Int /\ p[k - 1] \in Int /\ p[n] \in Int
  BY <1>1 DEF Follows
<1>3. p[0] <= p[k - 1] /\ p[k] <= p[n] /\ p[0] = kHeaderSize
  BY <1>1, OffsetsGrow, Zenon DEF Follows
<1> DEFINE i == p[k - 1] + b
<1>4. b \in Int /\ i \in Int /\ p[k - 1] < i /\ i <= p[k]
  <2>1. b \in Int /\ 1 <= b /\ b <= w[k]
    BY <1>2
  <2>2. \A y, z, c \in Int : 1 <= c /\ c <= z => y + c \in Int /\ y < y + c /\ y + c <= y + z
    OBVIOUS
  <2>3. w[k] \in Int
    BY <1>2
  <2>4. i \in Int /\ p[k - 1] < i /\ i <= p[k - 1] + w[k]
    BY <1>2, <2>1, <2>2, <2>3, Zenon
  <2> QED
    BY <1>2, <2>1, <2>4, Zenon
<1> HIDE DEF i
<1>5. ASSUME NEW j \in 1 .. n, p[j - 1] < i, i <= p[j] PROVE j = k
  <2>1. j - 1 \in 0 .. n /\ j \in 0 .. n
    OBVIOUS
  <2>2. p[j] \in Int /\ p[j - 1] \in Int
    BY <2>1, Zenon DEF Follows
  <2>3. CASE j <= k - 1
    <3>1. p[j] <= p[k - 1]
      BY <1>1, <2>1, <2>3, OffsetsGrow, Zenon
    <3> QED
      BY <1>2, <1>4, <1>5, <2>2, <3>1
  <2>4. CASE k <= j - 1
    <3>1. p[k] <= p[j - 1]
      BY <1>1, <2>1, <2>4, OffsetsGrow, Zenon
    <3> QED
      BY <1>2, <1>4, <1>5, <2>2, <3>1
  <2> QED
    BY <2>3, <2>4
<1>6. DOMAIN p \ {0} = 1 .. n
  OBVIOUS
<1>7. FieldAt(p, i) = k
  <2>1. k \in DOMAIN p \ {0} /\ p[k - 1] < i /\ i <= p[k]
    BY <1>4, <1>6
  <2> QED
    BY <1>5, <1>6, <2>1 DEF FieldAt
<1>8. i \in kHeaderSize + 1 .. p[n] /\ p[k - 1] >= kHeaderSize /\ p[k - 1] + w[k] <= p[n]
  BY <1>2, <1>3, <1>4 DEF kHeaderSize
<1> QED
  BY <1>7, <1>8 DEF i

Covered(p, n, w) ==
  \A i \in kHeaderSize + 1 .. p[n] : \E k \in 1 .. n : \E b \in 1 .. w[k] : i = p[k - 1] + b

\* Every position after the header is in a field.
LEMMA FieldExists ==
  ASSUME NEW n \in 0 .. 8, NEW p, NEW w, Follows(p, n, w)
  PROVE  Covered(p, n, w)
<1> SUFFICES ASSUME NEW i \in kHeaderSize + 1 .. p[n]
             PROVE  \E k \in 1 .. n : \E b \in 1 .. w[k] : i = p[k - 1] + b
  BY DEF Covered
<1> DEFINE In(k) == \E b \in 1 .. w[k] : i = p[k - 1] + b
           S == {k \in 0 .. 8 : k <= n => p[k] < i \/ \E j \in 1 .. k : In(j)}
<1>1. kHeaderSize \in Int /\ i \in Int /\ p[n] \in Int
  BY DEF kHeaderSize, Follows
<1>2. 0 \in S
  BY <1>1 DEF Follows
<1>3. ASSUME NEW k \in 0 .. 7, k \in S PROVE k + 1 \in S
  <2>1. SUFFICES ASSUME k + 1 <= n PROVE p[k + 1] < i \/ \E j \in 1 .. k + 1 : In(j)
    OBVIOUS
  <2>2. k + 1 \in 1 .. n /\ (k + 1) - 1 = k /\ k \in 0 .. n
    BY <2>1
  <2>3. p[k + 1] = p[k] + w[k + 1] /\ w[k + 1] \in 1 .. 8 /\ p[k] \in Int
    BY <2>2 DEF Follows
  <2>4. CASE p[k] < i /\ i <= p[k + 1]
    <3> DEFINE b == i - p[k]
    <3>1. b \in 1 .. w[k + 1] /\ i = p[(k + 1) - 1] + b
      BY <1>1, <2>2, <2>3, <2>4
    <3>2. In(k + 1)
      BY <3>1
    <3> HIDE DEF In
    <3> QED
      BY <3>2
  <2>5. CASE \E j \in 1 .. k : In(j)
    <3> HIDE DEF In
    <3> QED
      BY <2>5
  <2> HIDE DEF In
  <2>6. p[k] < i \/ \E j \in 1 .. k : In(j)
    BY <1>3, <2>1
  <2> QED
    BY <1>1, <2>3, <2>4, <2>5, <2>6
<1>4. n \in S
  <2> HIDE DEF S
  <2>1. 0 .. 8 \subseteq S
    BY <1>2, <1>3, UpTo8
  <2> QED
    BY <2>1
<1> HIDE DEF In
<1>5. \E j \in 1 .. n : In(j)
  BY <1>1, <1>4
<1> QED
  BY <1>5 DEF In

-----------------------------------------------------------------------------
(***************************************************************************)
(* The four messages.                                                      *)
(***************************************************************************)
Types == {"AddOrder", "CancelOrder", "ExecuteOrder", "ReplaceOrder"}

\* The constants of message_types.hpp: a type is told by its first byte, and two
\* bytes hold a length.
LEMMA TypesDiffer ==
  /\ DOMAIN kType = Types
  /\ \A type \in Types : kType[type] \in 1 .. 4 /\ kWireSize[type] \in 27 .. 48
  /\ \A s, t \in Types : kType[s] = kType[t] => s = t
BY DEF kType, kWireSize, kHeaderSize, Types

\* The fields of AddOrder.
LEMMA AddOrderLayout == IsLayout(AddOrderPut) /\ Len(AddOrderPut) = 7
<1>1. /\ Len(AddOrderPut) = 7 /\ DOMAIN AddOrderPut = 1 .. 7
      /\ AddOrderPut[1] = <<"seq_num", "u64">> /\ AddOrderPut[2] = <<"order_id", "u64">>
      /\ AddOrderPut[3] = <<"symbol", "symbol">> /\ AddOrderPut[4] = <<"side", "u8">>
      /\ AddOrderPut[5] = <<"price", "i64">> /\ AddOrderPut[6] = <<"quantity", "u32">>
      /\ AddOrderPut[7] = <<"timestamp", "u64">>
  BY DEF AddOrderPut
<1>2. \A k \in 1 .. 7 : k \in {1, 2, 3, 4, 5, 6, 7}
  OBVIOUS
<1>3. \A k \in 1 .. 7 : AddOrderPut[k][2] \in Kinds /\ AddOrderPut[k][1] # "type"
  BY <1>1, <1>2 DEF Kinds
<1>4. \A j, k \in 1 .. 7 : AddOrderPut[j][1] = AddOrderPut[k][1] => j = k
  BY <1>1, <1>2
<1> QED
  BY <1>1, <1>3, <1>4 DEF IsLayout

\* The fields of CancelOrder.
LEMMA CancelOrderLayout == IsLayout(CancelOrderPut) /\ Len(CancelOrderPut) = 3
<1>1. /\ Len(CancelOrderPut) = 3 /\ DOMAIN CancelOrderPut = 1 .. 3
      /\ CancelOrderPut[1] = <<"seq_num", "u64">> /\ CancelOrderPut[2] = <<"order_id", "u64">>
      /\ CancelOrderPut[3] = <<"timestamp", "u64">>
  BY DEF CancelOrderPut
<1>2. \A k \in 1 .. 3 : k \in {1, 2, 3}
  OBVIOUS
<1>3. \A k \in 1 .. 3 : CancelOrderPut[k][2] \in Kinds /\ CancelOrderPut[k][1] # "type"
  BY <1>1, <1>2 DEF Kinds
<1>4. \A j, k \in 1 .. 3 : CancelOrderPut[j][1] = CancelOrderPut[k][1] => j = k
  BY <1>1, <1>2
<1> QED
  BY <1>1, <1>3, <1>4 DEF IsLayout

\* The fields of ExecuteOrder.
LEMMA ExecuteOrderLayout == IsLayout(ExecuteOrderPut) /\ Len(ExecuteOrderPut) = 4
<1>1. /\ Len(ExecuteOrderPut) = 4 /\ DOMAIN ExecuteOrderPut = 1 .. 4
      /\ ExecuteOrderPut[1] = <<"seq_num", "u64">> /\ ExecuteOrderPut[2] = <<"order_id", "u64">>
      /\ ExecuteOrderPut[3] = <<"executed_quantity", "u32">>
      /\ ExecuteOrderPut[4] = <<"timestamp", "u64">>
  BY DEF ExecuteOrderPut
<1>2. \A k \in 1 .. 4 : k \in {1, 2, 3, 4}
  OBVIOUS
<1>3. \A k \in 1 .. 4 : ExecuteOrderPut[k][2] \in Kinds /\ ExecuteOrderPut[k][1] # "type"
  BY <1>1, <1>2 DEF Kinds
<1>4. \A j, k \in 1 .. 4 : ExecuteOrderPut[j][1] = ExecuteOrderPut[k][1] => j = k
  BY <1>1, <1>2
<1> QED
  BY <1>1, <1>3, <1>4 DEF IsLayout

\* The fields of ReplaceOrder.
LEMMA ReplaceOrderLayout == IsLayout(ReplaceOrderPut) /\ Len(ReplaceOrderPut) = 6
<1>1. /\ Len(ReplaceOrderPut) = 6 /\ DOMAIN ReplaceOrderPut = 1 .. 6
      /\ ReplaceOrderPut[1] = <<"seq_num", "u64">> /\ ReplaceOrderPut[2] = <<"old_order_id", "u64">>
      /\ ReplaceOrderPut[3] = <<"new_order_id", "u64">> /\ ReplaceOrderPut[4] = <<"price", "i64">>
      /\ ReplaceOrderPut[5] = <<"quantity", "u32">> /\ ReplaceOrderPut[6] = <<"timestamp", "u64">>
  BY DEF ReplaceOrderPut
<1>2. \A k \in 1 .. 6 : k \in {1, 2, 3, 4, 5, 6}
  OBVIOUS
<1>3. \A k \in 1 .. 6 : ReplaceOrderPut[k][2] \in Kinds /\ ReplaceOrderPut[k][1] # "type"
  BY <1>1, <1>2 DEF Kinds
<1>4. \A j, k \in 1 .. 6 : ReplaceOrderPut[j][1] = ReplaceOrderPut[k][1] => j = k
  BY <1>1, <1>2
<1> QED
  BY <1>1, <1>3, <1>4 DEF IsLayout

\* decode_*() gets the fields encode() puts, and they fill kWireSize bytes.
LEMMA Layouts ==
  ASSUME NEW type \in Types
  PROVE  /\ Put[type] = Get[type] /\ IsLayout(Put[type])
         /\ Offset(Put[type])[Len(Put[type])] = kWireSize[type]
<1> DEFINE fields == Put[type]
           p == Offset(fields)
           w == WidthsOf(fields)
<1>1. Put[type] = Get[type]
  <2>1. /\ Put["AddOrder"] = AddOrderPut /\ Put["CancelOrder"] = CancelOrderPut
        /\ Put["ExecuteOrder"] = ExecuteOrderPut /\ Put["ReplaceOrder"] = ReplaceOrderPut
    BY DEF Put
  <2>2. /\ Get["AddOrder"] = AddOrderGet /\ Get["CancelOrder"] = CancelOrderGet
        /\ Get["ExecuteOrder"] = ExecuteOrderGet /\ Get["ReplaceOrder"] = ReplaceOrderGet
    BY DEF Get
  <2>3. AddOrderPut = AddOrderGet /\ CancelOrderPut = CancelOrderGet
    BY Zenon DEF AddOrderPut, AddOrderGet, CancelOrderPut, CancelOrderGet
  <2>4. ExecuteOrderPut = ExecuteOrderGet /\ ReplaceOrderPut = ReplaceOrderGet
    BY Zenon DEF ExecuteOrderPut, ExecuteOrderGet, ReplaceOrderPut, ReplaceOrderGet
  <2> QED
    BY <2>1, <2>2, <2>3, <2>4 DEF Types
<1>2. CASE type = "AddOrder"
  <2>1. fields = AddOrderPut /\ kWireSize[type] = 48
    BY <1>2 DEF Put, kWireSize, kHeaderSize
  <2>2. IsLayout(fields) /\ Len(fields) = 7
    BY <2>1, AddOrderLayout
  <2>3. Follows(p, 7, w) /\ \A k \in 1 .. 7 : w[k] = Width[fields[k][2]]
    BY <2>2, OffsetFollows, Zenon
  <2>4. w[1] = 8 /\ w[2] = 8 /\ w[3] = 8 /\ w[4] = 1 /\ w[5] = 8 /\ w[6] = 4 /\ w[7] = 8
    <3> HIDE DEF w
    <3>1. /\ AddOrderPut[1][2] = "u64" /\ AddOrderPut[2][2] = "u64" /\ AddOrderPut[3][2] = "symbol"
          /\ AddOrderPut[4][2] = "u8" /\ AddOrderPut[5][2] = "i64" /\ AddOrderPut[6][2] = "u32"
          /\ AddOrderPut[7][2] = "u64"
      BY DEF AddOrderPut
    <3> QED
      BY <2>1, <2>3, <3>1 DEF Width
  <2> HIDE DEF p, w, fields
  <2>5. p[0] = 3 /\ \A k \in 1 .. 7 : p[k] = p[k - 1] + w[k]
    BY <2>3 DEF Follows, kHeaderSize
  <2>6. p[1] = 11 /\ p[2] = 19 /\ p[3] = 27
    BY <2>4, <2>5
  <2>7. p[4] = 28 /\ p[5] = 36 /\ p[6] = 40
    BY <2>4, <2>5, <2>6
  <2>8. p[7] = 48
    BY <2>4, <2>5, <2>7
  <2> QED
    BY <1>1, <2>1, <2>2, <2>8 DEF p, fields
<1>3. CASE type = "CancelOrder"
  <2>1. fields = CancelOrderPut /\ kWireSize[type] = 27
    BY <1>3 DEF Put, kWireSize, kHeaderSize
  <2>2. IsLayout(fields) /\ Len(fields) = 3
    BY <2>1, CancelOrderLayout
  <2>3. Follows(p, 3, w) /\ \A k \in 1 .. 3 : w[k] = Width[fields[k][2]]
    BY <2>2, OffsetFollows, Zenon
  <2>4. w[1] = 8 /\ w[2] = 8 /\ w[3] = 8
    <3> HIDE DEF w
    <3>1. CancelOrderPut[1][2] = "u64" /\ CancelOrderPut[2][2] = "u64" /\ CancelOrderPut[3][2] = "u64"
      BY DEF CancelOrderPut
    <3> QED
      BY <2>1, <2>3, <3>1 DEF Width
  <2> HIDE DEF p, w, fields
  <2>5. p[0] = 3 /\ \A k \in 1 .. 3 : p[k] = p[k - 1] + w[k]
    BY <2>3 DEF Follows, kHeaderSize
  <2>6. p[1] = 11 /\ p[2] = 19 /\ p[3] = 27
    BY <2>4, <2>5
  <2> QED
    BY <1>1, <2>1, <2>2, <2>6 DEF p, fields
<1>4. CASE type = "ExecuteOrder"
  <2>1. fields = ExecuteOrderPut /\ kWireSize[type] = 31
    BY <1>4 DEF Put, kWireSize, kHeaderSize
  <2>2. IsLayout(fields) /\ Len(fields) = 4
    BY <2>1, ExecuteOrderLayout
  <2>3. Follows(p, 4, w) /\ \A k \in 1 .. 4 : w[k] = Width[fields[k][2]]
    BY <2>2, OffsetFollows
  <2>4. w[1] = 8 /\ w[2] = 8 /\ w[3] = 4 /\ w[4] = 8
    <3> HIDE DEF w
    <3>1. /\ ExecuteOrderPut[1][2] = "u64" /\ ExecuteOrderPut[2][2] = "u64"
          /\ ExecuteOrderPut[3][2] = "u32" /\ ExecuteOrderPut[4][2] = "u64"
      BY DEF ExecuteOrderPut
    <3> QED
      BY <2>1, <2>3, <3>1 DEF Width
  <2> HIDE DEF p, w, fields
  <2>5. p[0] = 3 /\ \A k \in 1 .. 4 : p[k] = p[k - 1] + w[k]
    BY <2>3 DEF Follows, kHeaderSize
  <2>6. p[1] = 11 /\ p[2] = 19 /\ p[3] = 23 /\ p[4] = 31
    BY <2>4, <2>5
  <2> QED
    BY <1>1, <2>1, <2>2, <2>6 DEF p, fields
<1>5. CASE type = "ReplaceOrder"
  <2>1. fields = ReplaceOrderPut /\ kWireSize[type] = 47
    BY <1>5 DEF Put, kWireSize, kHeaderSize
  <2>2. IsLayout(fields) /\ Len(fields) = 6
    BY <2>1, ReplaceOrderLayout
  <2>3. Follows(p, 6, w) /\ \A k \in 1 .. 6 : w[k] = Width[fields[k][2]]
    BY <2>2, OffsetFollows, Zenon
  <2>4. w[1] = 8 /\ w[2] = 8 /\ w[3] = 8 /\ w[4] = 8 /\ w[5] = 4 /\ w[6] = 8
    <3> HIDE DEF w
    <3>1. /\ ReplaceOrderPut[1][2] = "u64" /\ ReplaceOrderPut[2][2] = "u64"
          /\ ReplaceOrderPut[3][2] = "u64" /\ ReplaceOrderPut[4][2] = "i64"
          /\ ReplaceOrderPut[5][2] = "u32" /\ ReplaceOrderPut[6][2] = "u64"
      BY DEF ReplaceOrderPut
    <3> QED
      BY <2>1, <2>3, <3>1 DEF Width
  <2> HIDE DEF p, w, fields
  <2>5. p[0] = 3 /\ \A k \in 1 .. 6 : p[k] = p[k - 1] + w[k]
    BY <2>3 DEF Follows, kHeaderSize
  <2>6. p[1] = 11 /\ p[2] = 19 /\ p[3] = 27
    BY <2>4, <2>5
  <2>7. p[4] = 35 /\ p[5] = 39 /\ p[6] = 47
    BY <2>4, <2>5, <2>6
  <2> QED
    BY <1>1, <2>1, <2>2, <2>7 DEF p, fields
<1> QED
  BY <1>2, <1>3, <1>4, <1>5 DEF Types

-----------------------------------------------------------------------------
(***************************************************************************)
(* encode() and decode().                                                  *)
(***************************************************************************)
\* Bytes one after the other are a sequence.
LEMMA BytesInSequence ==
  ASSUME NEW n \in Nat, NEW bytes \in [1 .. n -> Byte]
  PROVE  bytes \in Seq(Byte) /\ Len(bytes) = n
<1>1. bytes \in Seq(Byte)
  BY SeqDef
<1>2. Len(bytes) \in Nat /\ 1 .. Len(bytes) = 1 .. n
  BY <1>1, LenProperties
<1> QED
  BY <1>1, <1>2

\* The header is three bytes: the type and the length.
LEMMA HeaderBytes ==
  ASSUME NEW type \in Types
  PROVE  /\ put_header(type)[1] = kType[type] /\ kType[type] \in Byte
         /\ \A i \in 1 .. 2 : put_header(type)[i + 1] = PutUnsigned(kWireSize[type], 2)[i]
         /\ \A i \in 1 .. 3 : put_header(type)[i] \in Byte
         /\ PutUnsigned(kWireSize[type], 2) \in [1 .. 2 -> Byte]
         /\ GetUnsigned(PutUnsigned(kWireSize[type], 2)) = kWireSize[type]
<1> DEFINE a == PutUnsigned(kType[type], 1)
           c == PutUnsigned(kWireSize[type], 2)
<1>1. kType[type] \in Byte /\ kType[type] \in Nat /\ kWireSize[type] \in Nat /\ kWireSize[type] <= 48
  BY TypesDiffer, RadixIsLarge DEF Byte
<1>2. Weight[0] = 1 /\ Weight[1] = Radix /\ Weight[2] = Radix * Radix
  <2>1. 1 \in 1 .. 8 /\ 2 \in 1 .. 8 /\ 1 - 1 = 0 /\ 2 - 1 = 1
    OBVIOUS
  <2>2. Weight[0] = 1 /\ Weight[1] = Weight[0] * Radix /\ Weight[2] = Weight[1] * Radix
    BY <2>1, Weights
  <2> QED
    BY <2>2, RadixIsLarge
<1>3. c \in [1 .. 2 -> Byte] /\ GetUnsigned(c) = kWireSize[type]
  <2>1. kWireSize[type] \in 0 .. Weight[2] - 1
    BY <1>1, <1>2, ProtocolAssumption
  <2>2. 2 \in 1 .. 8
    OBVIOUS
  <2> QED
    BY <2>1, <2>2, PutThenGet
<1>4. a \in [1 .. 1 -> Byte] /\ a[1] = kType[type]
  <2>1. a = [i \in 1 .. 1 |-> (kType[type] \div Weight[i - 1]) % Radix]
    BY DEF PutUnsigned
  <2>2. (kType[type] \div Weight[1 - 1]) % Radix = kType[type]
    <3>1. Weight[1 - 1] = 1
      BY <1>2
    <3>2. \A y \in Byte : y \in Nat /\ y < Radix
      BY RadixIsLarge DEF Byte
    <3>3. \A y \in Nat : y \div 1 = y
      OBVIOUS
    <3>4. \A y \in Nat : y < Radix => y % Radix = y
      BY RadixIsLarge
    <3> QED
      BY <1>1, <3>1, <3>2, <3>3, <3>4
  <2>3. \A i \in 1 .. 1 : i = 1
    OBVIOUS
  <2>4. a = [i \in 1 .. 1 |-> kType[type]]
    BY <2>1, <2>2, <2>3
  <2> QED
    BY <1>1, <2>4
<1> HIDE DEF a, c
<1>5. a \in Seq(Byte) /\ Len(a) = 1 /\ c \in Seq(Byte) /\ Len(c) = 2
  <2>1. 1 \in Nat /\ 2 \in Nat
    OBVIOUS
  <2> QED
    BY <1>3, <1>4, <2>1, BytesInSequence, Zenon
<1>6. put_header(type) = a \o c
  BY DEF put_header, a, c
<1> DEFINE h == a \o c
<1>7. h[1] = a[1] /\ h[2] = c[1] /\ h[3] = c[2]
  <2>1. \A i \in 1 .. Len(a) + Len(c) : h[i] = IF i <= Len(a) THEN a[i] ELSE c[i - Len(a)]
    BY <1>5, ConcatProperties, Zenon
  <2> HIDE DEF h
  <2>2. \A i \in 1 .. 3 : h[i] = IF i <= 1 THEN a[i] ELSE c[i - 1]
    BY <1>5, <2>1
  <2> QED
    BY <2>2
<1> HIDE DEF h
<1>8. c[1] \in Byte /\ c[2] \in Byte /\ a[1] \in Byte
  BY <1>3, <1>4
<1>9. /\ \A i \in 1 .. 2 : h[i + 1] = c[i]
      /\ \A i \in 1 .. 3 : h[i] \in Byte
  <2>1. \A i \in 1 .. 2 : i = 1 \/ i = 2
    OBVIOUS
  <2>2. \A i \in 1 .. 3 : i = 1 \/ i = 2 \/ i = 3
    OBVIOUS
  <2> HIDE DEF a, c
  <2>3. \A i \in 1 .. 2 : h[i + 1] = c[i]
    <3>1. h[1 + 1] = c[1] /\ h[2 + 1] = c[2]
      BY <1>7
    <3> QED
      BY <2>1, <3>1
  <2> QED
    BY <1>7, <1>8, <2>2, <2>3
<1> QED
  BY <1>1, <1>3, <1>4, <1>6, <1>7, <1>9, Zenon DEF c, h

\* What an encoding is, byte by byte.
IsEncoding(e, m, size, fields, p) ==
  /\ e = [i \in 1 .. size |-> e[i]]
  /\ \A i \in 1 .. size : e[i] \in Byte
  /\ \A i \in 1 .. 3 : e[i] = put_header(m.type)[i]
  /\ \A k \in 1 .. Len(fields) : \A b \in 1 .. Width[fields[k][2]] :
       e[p[k - 1] + b] = PutField(fields[k][2], m[fields[k][1]])[b]

\* The fields are at the positions p, from the header to the end, one of a name.
Placed(fields, p, size) ==
  /\ Len(fields) \in 0 .. 8 /\ DOMAIN fields = 1 .. Len(fields) /\ size \in 27 .. 48
  /\ \A k \in 1 .. Len(fields) :
       /\ fields[k][2] \in Kinds /\ fields[k][1] # "type" /\ Width[fields[k][2]] \in 1 .. 8
       /\ p[k - 1] \in Int /\ p[k - 1] >= 3 /\ p[k - 1] + Width[fields[k][2]] <= size
       /\ \A b \in 1 .. Width[fields[k][2]] : FieldAt(p, p[k - 1] + b) = k /\ p[k - 1] + b \in 4 .. size
  /\ \A i \in 4 .. size :
       \E k \in 1 .. Len(fields) : \E b \in 1 .. Width[fields[k][2]] : i = p[k - 1] + b
  /\ \A j, k \in 1 .. Len(fields) : fields[j][1] = fields[k][1] => j = k

\* So they are in each of the four layouts.
LEMMA Positions ==
  ASSUME NEW type \in Types
  PROVE  Placed(Put[type], Offset(Put[type]), kWireSize[type])
<1> DEFINE fields == Put[type]
           n == Len(fields)
           p == Offset(fields)
           w == WidthsOf(fields)
<1>1. IsLayout(fields) /\ p[n] = kWireSize[type]
  BY Layouts
<1>2. Follows(p, n, w) /\ DOMAIN p = 0 .. n /\ \A k \in 1 .. n : w[k] = Width[fields[k][2]]
  BY <1>1, OffsetFollows
<1>3. n \in 0 .. 8 /\ DOMAIN fields = 1 .. n
  BY <1>1 DEF IsLayout
<1>4. \A k \in 1 .. n : fields[k][2] \in Kinds /\ fields[k][1] # "type"
  BY <1>1 DEF IsLayout
<1>5. \A j, k \in 1 .. n : fields[j][1] = fields[k][1] => j = k
  BY <1>1, Zenon DEF IsLayout
<1>6. kWireSize[type] \in 27 .. 48
  BY TypesDiffer
<1> HIDE DEF fields, n, p, w
<1>7. ASSUME NEW k \in 1 .. n
      PROVE  /\ w[k] \in 1 .. 8 /\ p[k - 1] \in Int /\ p[k - 1] >= 3
             /\ p[k - 1] + w[k] <= kWireSize[type]
             /\ \A b \in 1 .. w[k] : FieldAt(p, p[k - 1] + b) = k /\ p[k - 1] + b \in 4 .. kWireSize[type]
  <2>1. k - 1 \in 0 .. n
    BY <1>3
  <2>2. w[k] \in 1 .. 8 /\ p[k - 1] \in Int
    BY <1>2, <2>1 DEF Follows
  <2>3. ASSUME NEW b \in 1 .. w[k]
        PROVE  /\ FieldAt(p, p[k - 1] + b) = k
               /\ p[k - 1] + b \in kHeaderSize + 1 .. p[n]
               /\ p[k - 1] >= kHeaderSize /\ p[k - 1] + w[k] <= p[n]
    BY <1>2, <1>3, FieldIsFound, Zenon
  <2>4. 1 \in 1 .. w[k]
    BY <2>2
  <2>5. kHeaderSize = 3 /\ kHeaderSize + 1 = 4
    BY DEF kHeaderSize
  <2>6. p[k - 1] >= 3 /\ p[k - 1] + w[k] <= kWireSize[type]
    BY <1>1, <2>3, <2>4, <2>5 DEF n, p
  <2>7. \A b \in 1 .. w[k] : FieldAt(p, p[k - 1] + b) = k /\ p[k - 1] + b \in 4 .. kWireSize[type]
    BY <1>1, <2>3, <2>5 DEF n, p
  <2> QED
    BY <2>2, <2>6, <2>7
<1>8. \A i \in 4 .. kWireSize[type] : \E k \in 1 .. n : \E b \in 1 .. w[k] : i = p[k - 1] + b
  <2>1. kHeaderSize + 1 = 4 /\ p[n] = kWireSize[type]
    BY <1>1 DEF kHeaderSize, n, p
  <2> TAKE i \in 4 .. kWireSize[type]
  <2>2. i \in kHeaderSize + 1 .. p[n]
    BY <2>1
  <2> QED
    <3>1. Covered(p, n, w)
      BY <1>2, <1>3, FieldExists
    <3> QED
      BY <2>2, <3>1, Zenon DEF Covered
<1>9. \A k \in 1 .. n : w[k] = Width[fields[k][2]]
  BY <1>2
<1>10. \A k \in 1 .. n :
         /\ Width[fields[k][2]] \in 1 .. 8 /\ p[k - 1] \in Int /\ p[k - 1] >= 3
         /\ p[k - 1] + Width[fields[k][2]] <= kWireSize[type]
         /\ \A b \in 1 .. Width[fields[k][2]] :
              FieldAt(p, p[k - 1] + b) = k /\ p[k - 1] + b \in 4 .. kWireSize[type]
  BY <1>7, <1>9
<1>11. \A i \in 4 .. kWireSize[type] :
         \E k \in 1 .. n : \E b \in 1 .. Width[fields[k][2]] : i = p[k - 1] + b
  BY <1>8, <1>9
<1>12. Placed(fields, p, kWireSize[type])
  BY <1>3, <1>4, <1>5, <1>6, <1>10, <1>11, Zenon DEF n, Placed
<1> QED
  BY <1>12 DEF p, fields

\* What the fields of a message are written as.
LEMMA MessageFields ==
  ASSUME NEW m, IsMessage(m)
  PROVE  /\ m.type \in Types
         /\ \A k \in 1 .. Len(Put[m.type]) :
              LET f == Put[m.type][k]
              IN  /\ f[2] \in Kinds
                  /\ PutField(f[2], m[f[1]]) \in [1 .. Width[f[2]] -> Byte]
                  /\ GetField(f[2], PutField(f[2], m[f[1]])) = m[f[1]]
<1>1. m.type \in Types
  BY TypesDiffer DEF IsMessage
<1> DEFINE fields == Put[m.type]
<1>2. \A k \in DOMAIN fields : m[fields[k][1]] \in FieldValues(fields[k][2])
  BY DEF IsMessage
<1>3. DOMAIN fields = 1 .. Len(fields) /\ \A k \in 1 .. Len(fields) : fields[k][2] \in Kinds
  BY <1>1, Positions, Zenon DEF Placed
<1> HIDE DEF fields
<1>4. ASSUME NEW k \in 1 .. Len(fields)
      PROVE  LET f == fields[k]
             IN  /\ f[2] \in Kinds
                 /\ PutField(f[2], m[f[1]]) \in [1 .. Width[f[2]] -> Byte]
                 /\ GetField(f[2], PutField(f[2], m[f[1]])) = m[f[1]]
  <2> DEFINE kind == fields[k][2]
             x == m[fields[k][1]]
  <2>1. kind \in Kinds /\ x \in FieldValues(kind)
    BY <1>2, <1>3
  <2> HIDE DEF kind, x
  <2>2. /\ PutField(kind, x) \in [1 .. Width[kind] -> Byte]
        /\ GetField(kind, PutField(kind, x)) = x
    BY <2>1, FieldPutThenGet
  <2> QED
    BY <2>1, <2>2 DEF kind, x
<1> QED
  BY <1>1, <1>4 DEF fields

\* encode() writes the header and then each field at its place.
LEMMA WrittenIsEncoding ==
  ASSUME NEW m, IsMessage(m)
  PROVE  IsEncoding(Written(m), m, kWireSize[m.type], Put[m.type], Offset(Put[m.type]))
<1> DEFINE fields == Put[m.type]
           p == Offset(fields)
           n == Len(fields)
           size == kWireSize[m.type]
           e == Written(m)
           Data(i) == PutField(fields[FieldAt(p, i)][2], m[fields[FieldAt(p, i)][1]])[i - p[FieldAt(p, i) - 1]]
<1>1. m.type \in Types /\ kHeaderSize = 3
  BY MessageFields DEF kHeaderSize
<1>2. p[n] = size
  BY <1>1, Layouts
<1>3. e = [i \in 1 .. size |-> IF i <= 3 THEN put_header(m.type)[i] ELSE Data(i)]
  BY <1>1, <1>2 DEF Written
<1>4. fields = Put[m.type] /\ p = Offset(fields) /\ n = Len(fields) /\ size = kWireSize[m.type]
  OBVIOUS
<1> HIDE DEF fields, p, n, size, e, Data
<1>5. /\ size \in 27 .. 48
      /\ \A k \in 1 .. n : /\ p[k - 1] \in Int /\ p[k - 1] >= 3 /\ Width[fields[k][2]] \in 1 .. 8
                           /\ \A b \in 1 .. Width[fields[k][2]] :
                                FieldAt(p, p[k - 1] + b) = k /\ p[k - 1] + b \in 4 .. size
      /\ \A i \in 4 .. size : \E k \in 1 .. n : \E b \in 1 .. Width[fields[k][2]] : i = p[k - 1] + b
  <2>1. Placed(fields, p, size)
    BY <1>1, Positions, Zenon DEF fields, p, size
  <2> QED
    BY <2>1, Zenon DEF Placed, n
<1>6. \A k \in 1 .. n : PutField(fields[k][2], m[fields[k][1]]) \in [1 .. Width[fields[k][2]] -> Byte]
  BY <1>4, MessageFields
<1>7. ASSUME NEW k \in 1 .. n, NEW b \in 1 .. Width[fields[k][2]]
      PROVE  /\ e[p[k - 1] + b] = PutField(fields[k][2], m[fields[k][1]])[b]
             /\ e[p[k - 1] + b] \in Byte
  <2> DEFINE i == p[k - 1] + b
  <2>1. FieldAt(p, i) = k /\ i \in 4 .. size /\ p[k - 1] \in Int /\ b \in Int
    BY <1>5
  <2>2. i - p[k - 1] = b
    BY <2>1
  <2> HIDE DEF i
  <2>3. i \in 1 .. size /\ ~(i <= 3)
    BY <1>5, <2>1
  <2>4. e[i] = Data(i)
    BY <1>3, <2>3
  <2>5. Data(i) = PutField(fields[k][2], m[fields[k][1]])[b]
    BY <2>1, <2>2 DEF Data
  <2>6. PutField(fields[k][2], m[fields[k][1]])[b] \in Byte
    BY <1>6, Zenon
  <2> QED
    BY <2>4, <2>5, <2>6 DEF i
<1>8. \A i \in 1 .. 3 : e[i] = put_header(m.type)[i] /\ e[i] \in Byte
  <2>1. \A i \in 1 .. 3 : i \in 1 .. size /\ i <= 3
    BY <1>5
  <2>2. \A i \in 1 .. 3 : e[i] = put_header(m.type)[i]
    BY <1>3, <2>1
  <2>3. \A i \in 1 .. 3 : put_header(m.type)[i] \in Byte
    BY <1>1, HeaderBytes
  <2> QED
    BY <2>2, <2>3
<1>9. \A i \in 1 .. size : e[i] \in Byte
  <2> TAKE i \in 1 .. size
  <2>1. CASE i \in 1 .. 3
    BY <1>8, <2>1
  <2>2. CASE i \in 4 .. size
    <3>1. PICK k \in 1 .. n : \E b \in 1 .. Width[fields[k][2]] : i = p[k - 1] + b
      BY <1>5, <2>2
    <3>2. PICK b \in 1 .. Width[fields[k][2]] : i = p[k - 1] + b
      BY <3>1
    <3> QED
      BY <1>7, <3>2
  <2> QED
    BY <1>5, <2>1, <2>2
<1>10. e = [i \in 1 .. size |-> e[i]]
  BY <1>3, Zenon
<1>11. IsEncoding(e, m, size, fields, p)
  BY <1>4, <1>7, <1>8, <1>9, <1>10, Zenon DEF IsEncoding
<1> QED
  BY <1>11, Zenon DEF e, size, fields, p

\* A payload with the fields at the positions p.
Reads(in, pl, fields, p) ==
  /\ DOMAIN pl = {fields[k][1] : k \in 1 .. Len(fields)}
  /\ \A k \in 1 .. Len(fields) :
       pl[fields[k][1]] = GetField(fields[k][2], Bytes(in, p[k - 1], Width[fields[k][2]]))

\* decode_*() returns each field under its name.
LEMMA PayloadFields ==
  ASSUME NEW in, NEW type \in Types
  PROVE  Reads(in, Payload(in, type), Put[type], Offset(Put[type]))
<1> DEFINE fields == Put[type]
           pl == Payload(in, type)
           n == Len(fields)
           names == {fields[k][1] : k \in 1 .. n}
           Named(name) == CHOOSE k \in 1 .. n : fields[k][1] = name
           Field(k) == GetField(fields[k][2], Bytes(in, Offset(fields)[k - 1], Width[fields[k][2]]))
<1>1. fields = Get[type]
  BY Layouts
<1>2. DOMAIN fields = 1 .. n /\ \A j, k \in 1 .. n : fields[j][1] = fields[k][1] => j = k
  BY Positions DEF Placed
<1>3. pl = [name \in names |-> Field(Named(name))]
  BY <1>1, <1>2 DEF Payload
<1> HIDE DEF n, fields, pl
<1>4. ASSUME NEW k \in 1 .. n PROVE Named(fields[k][1]) = k
  BY <1>2
<1> HIDE DEF Named, Field
<1>5. \A k \in 1 .. n : pl[fields[k][1]] = Field(k)
  BY <1>3, <1>4
<1>6. DOMAIN pl = names
  BY <1>3
<1>7. Reads(in, pl, fields, Offset(fields))
  BY <1>5, <1>6 DEF n, Field, Reads
<1> QED
  BY <1>7 DEF pl, fields

\* What decode() does once the header names a type and its length.
LEMMA DecodedBody ==
  ASSUME NEW in \in Seq(Byte), NEW type \in Types, Len(in) >= 3, in[1] = kType[type],
         GetUnsigned(Bytes(in, 1, 2)) = kWireSize[type]
  PROVE  Decoded(in) = IF Len(in) < kWireSize[type] THEN Error("TruncatedMessage", 3)
                       ELSE [result |-> <<type, Payload(in, type)>>, read |-> kWireSize[type]]
<1>1. Len(in) \in Nat /\ kHeaderSize = 3 /\ ~(Len(in) < kHeaderSize)
  BY DEF kHeaderSize
<1>2. wire_size_for(in[1]) = {type}
  BY TypesDiffer DEF wire_size_for
<1>3. wire_size_for(in[1]) # {} /\ (CHOOSE t \in wire_size_for(in[1]) : TRUE) = type
  BY <1>2
<1>4. Offset(Get[type])[Len(Get[type])] = kWireSize[type]
  BY Layouts
<1>5. Incomplete(in, kWireSize[type]) = (Len(in) < kWireSize[type])
  BY DEF Incomplete
<1> QED
  BY <1>1, <1>3, <1>4, <1>5, Zenon DEF Decoded

\* decode() rejects, or its input is long enough and the header names the type.
LEMMA DecodedCases ==
  ASSUME NEW in \in Seq(Byte)
  PROVE  \/ /\ \E e \in Errors, n \in {0, 3} : Decoded(in) = Error(e, n) /\ n <= Len(in)
         \/ \E type \in Types :
              /\ in[1] = kType[type] /\ GetUnsigned(Bytes(in, 1, 2)) = kWireSize[type]
              /\ Len(in) >= kWireSize[type]
              /\ Decoded(in) = [result |-> <<type, Payload(in, type)>>, read |-> kWireSize[type]]
<1>1. Len(in) \in Nat /\ kHeaderSize = 3
  BY DEF kHeaderSize
<1>2. /\ "TruncatedMessage" \in Errors /\ "InvalidMessageType" \in Errors
      /\ "LengthMismatch" \in Errors
  BY DEF Errors
<1>3. CASE Len(in) < 3
  <2>1. Decoded(in) = Error("TruncatedMessage", 0)
    BY <1>1, <1>3, Zenon DEF Decoded
  <2>2. 0 <= Len(in)
    BY <1>1
  <2> QED
    BY <1>2, <2>1, <2>2
<1>4. CASE ~(Len(in) < 3) /\ wire_size_for(in[1]) = {}
  <2>1. Decoded(in) = Error("InvalidMessageType", 3)
    BY <1>1, <1>4, Zenon DEF Decoded
  <2>2. 3 <= Len(in)
    BY <1>1, <1>4
  <2> QED
    BY <1>2, <2>1, <2>2
<1>5. CASE ~(Len(in) < 3) /\ wire_size_for(in[1]) # {}
  <2>1. PICK type \in Types : in[1] = kType[type]
    BY <1>5, TypesDiffer DEF wire_size_for
  <2>2. wire_size_for(in[1]) = {type}
    BY <2>1, TypesDiffer DEF wire_size_for
  <2>3. (CHOOSE t \in wire_size_for(in[1]) : TRUE) = type
    BY <2>2
  <2>4. 3 <= Len(in) /\ kWireSize[type] \in Nat
    <3>1. 3 <= Len(in)
      BY <1>1, <1>5
    <3>2. kWireSize[type] \in 27 .. 48
      BY TypesDiffer
    <3>3. \A x \in 27 .. 48 : x \in Nat
      OBVIOUS
    <3> QED
      BY <3>1, <3>2, <3>3, Zenon
  <2>5. CASE GetUnsigned(Bytes(in, 1, 2)) # kWireSize[type]
    <3>1. Decoded(in) = Error("LengthMismatch", 3)
      BY <1>1, <1>5, <2>3, <2>5, Zenon DEF Decoded
    <3> QED
      BY <1>2, <2>4, <3>1
  <2>6. CASE GetUnsigned(Bytes(in, 1, 2)) = kWireSize[type] /\ Len(in) < kWireSize[type]
    <3>1. Decoded(in) = Error("TruncatedMessage", 3)
      BY <1>1, <2>1, <2>4, <2>6, DecodedBody
    <3> QED
      BY <1>2, <2>4, <3>1
  <2>7. CASE GetUnsigned(Bytes(in, 1, 2)) = kWireSize[type] /\ ~(Len(in) < kWireSize[type])
    <3>1. Decoded(in) = [result |-> <<type, Payload(in, type)>>, read |-> kWireSize[type]]
      BY <1>1, <2>1, <2>4, <2>7, DecodedBody
    <3>2. Len(in) >= kWireSize[type]
      BY <1>1, <2>4, <2>7
    <3> QED
      BY <2>1, <2>7, <3>1, <3>2
  <2> QED
    BY <2>5, <2>6, <2>7
<1> QED
  BY <1>3, <1>4, <1>5

\* Bytes inside the input are the input's.
LEMMA BytesInside ==
  ASSUME NEW in \in Seq(Byte), NEW from \in Nat, NEW n \in Nat, from + n <= Len(in)
  PROVE  /\ Bytes(in, from, n) \in [1 .. n -> Byte]
         /\ \A b \in 1 .. n : Bytes(in, from, n)[b] = in[from + b]
<1>1. \A b \in 1 .. n : from + b <= Len(in) /\ from + b \in 1 .. Len(in)
  OBVIOUS
<1>2. \A i \in 1 .. Len(in) : in[i] \in Byte
  BY ElementOfSeq
<1>3. \A b \in 1 .. n : in[from + b] \in Byte
  BY <1>1, <1>2
<1>4. Bytes(in, from, n) = [b \in 1 .. n |-> in[from + b]]
  BY <1>1 DEF Bytes
<1> QED
  BY <1>3, <1>4

\* An input that begins as the encoding of m does, as far as it goes.
Begins(in, m) == \A i \in 1 .. kWireSize[m.type] : i <= Len(in) => in[i] = Written(m)[i]

\* Its header is read back.
LEMMA HeaderRead ==
  ASSUME NEW m, IsMessage(m), NEW in \in Seq(Byte), Begins(in, m), Len(in) >= 3
  PROVE  in[1] = kType[m.type] /\ GetUnsigned(Bytes(in, 1, 2)) = kWireSize[m.type]
<1> DEFINE size == kWireSize[m.type]
           head == put_header(m.type)
           c == PutUnsigned(size, 2)
<1>1. m.type \in Types
  BY MessageFields
<1>2. size \in 27 .. 48 /\ Len(in) \in Nat
  BY <1>1, TypesDiffer
<1>3. \A i \in 1 .. 3 : Written(m)[i] = head[i]
  BY WrittenIsEncoding DEF IsEncoding
<1>4. \A i \in 1 .. 3 : i \in 1 .. size /\ i <= Len(in)
  <2> HIDE DEF size
  <2> DEFINE n == Len(in)
  <2>1. n \in Nat /\ n >= 3
    BY <1>2
  <2> HIDE DEF n
  <2>2. \A i \in 1 .. 3 : i \in 1 .. size /\ i <= n
    BY <1>2, <2>1
  <2> QED
    BY <2>2 DEF n
<1>5. \A i \in 1 .. 3 : in[i] = head[i]
  BY <1>3, <1>4 DEF Begins
<1>6. /\ head[1] = kType[m.type] /\ \A i \in 1 .. 2 : head[i + 1] = c[i]
      /\ c \in [1 .. 2 -> Byte] /\ GetUnsigned(c) = size
  BY <1>1, HeaderBytes
<1>7. Bytes(in, 1, 2) = c
  <2>1. 1 \in Nat /\ 2 \in Nat /\ 1 + 2 <= Len(in)
    BY <1>2
  <2>2. Bytes(in, 1, 2) \in [1 .. 2 -> Byte] /\ \A b \in 1 .. 2 : Bytes(in, 1, 2)[b] = in[1 + b]
    BY <2>1, BytesInside, Zenon
  <2>3. \A b \in 1 .. 2 : b + 1 \in 1 .. 3 /\ 1 + b = b + 1
    OBVIOUS
  <2> HIDE DEF head, c
  <2>4. \A b \in 1 .. 2 : Bytes(in, 1, 2)[b] = c[b]
    BY <1>5, <1>6, <2>2, <2>3
  <2> QED
    BY <1>6, <2>2, <2>4
<1>8. 1 \in 1 .. 3
  OBVIOUS
<1> QED
  BY <1>5, <1>6, <1>7, <1>8, Zenon

\* Less than an encoding is TruncatedMessage.
LEMMA ShortIsTruncated ==
  ASSUME NEW m, IsMessage(m), NEW in \in Seq(Byte), Begins(in, m), Len(in) < kWireSize[m.type]
  PROVE  Decoded(in).result[1] = "TruncatedMessage"
<1>1. Len(in) \in Nat /\ m.type \in Types /\ kHeaderSize = 3
  BY MessageFields DEF kHeaderSize
<1>2. CASE Len(in) < 3
  <2>1. Decoded(in) = Error("TruncatedMessage", 0)
    BY <1>1, <1>2, Zenon DEF Decoded
  <2> QED
    BY <2>1 DEF Error
<1>3. CASE ~(Len(in) < 3)
  <2>1. Len(in) >= 3
    BY <1>1, <1>3
  <2>2. Decoded(in) = Error("TruncatedMessage", 3)
    BY <1>1, <2>1, HeaderRead, DecodedBody
  <2> QED
    BY <2>2 DEF Error
<1> QED
  BY <1>2, <1>3, Zenon

\* Of an encoding, whatever follows it, decode() makes the message.
LEMMA EncodingIsDecoded ==
  ASSUME NEW m, IsMessage(m), NEW in \in Seq(Byte), Begins(in, m), Len(in) >= kWireSize[m.type]
  PROVE  /\ Decoded(in).result[1] \in Types
         /\ AsMessage(Decoded(in).result) = m
<1> DEFINE type == m.type
           size == kWireSize[type]
           fields == Put[type]
           n == Len(fields)
           p == Offset(fields)
           pl == Payload(in, type)
<1>1. type \in Types
  BY MessageFields
<1>2. size \in 27 .. 48 /\ Len(in) \in Nat
  BY <1>1, TypesDiffer
<1>3. Len(in) >= 3 /\ ~(Len(in) < size)
  <2> DEFINE l == Len(in)
  <2>1. l >= size /\ l \in Nat
    BY <1>2
  <2> HIDE DEF l, size
  <2>2. l >= 3 /\ ~(l < size)
    BY <1>2, <2>1
  <2> QED
    BY <2>2 DEF l
<1>4. Decoded(in) = [result |-> <<type, pl>>, read |-> size]
  <2>1. in[1] = kType[type] /\ GetUnsigned(Bytes(in, 1, 2)) = size
    BY <1>3, HeaderRead, Zenon
  <2>2. Decoded(in) = IF Len(in) < size THEN Error("TruncatedMessage", 3)
                      ELSE [result |-> <<type, pl>>, read |-> size]
    BY <1>1, <1>3, <2>1, DecodedBody
  <2> QED
    BY <1>3, <2>2, Zenon
<1>5. Decoded(in).result = <<type, pl>>
  BY <1>4
<1>6. Placed(fields, p, size)
  BY <1>1, Positions
<1>7. IsEncoding(Written(m), m, size, fields, p)
  BY WrittenIsEncoding
<1>8. /\ DOMAIN pl = {fields[k][1] : k \in 1 .. n}
      /\ \A k \in 1 .. n : pl[fields[k][1]] = GetField(fields[k][2], Bytes(in, p[k - 1], Width[fields[k][2]]))
  <2>1. Reads(in, pl, fields, p)
    BY <1>1, PayloadFields
  <2> QED
    BY <2>1, Zenon DEF Reads
<1>9. \A k \in 1 .. n : LET f == fields[k] IN
        /\ f[2] \in Kinds
        /\ PutField(f[2], m[f[1]]) \in [1 .. Width[f[2]] -> Byte]
        /\ GetField(f[2], PutField(f[2], m[f[1]])) = m[f[1]]
  BY MessageFields, Zenon
<1>10. DOMAIN m = {fields[k][1] : k \in 1 .. n} \cup {"type"} /\ m = [name \in DOMAIN m |-> m[name]]
  <2>1. DOMAIN fields = 1 .. n
    BY <1>6 DEF Placed
  <2> QED
    BY <2>1, Zenon DEF IsMessage
<1>11. m["type"] = type
  OBVIOUS
<1>12. \A i \in 1 .. size : i <= Len(in) => in[i] = Written(m)[i]
  BY Zenon DEF Begins
<1> HIDE DEF type, size, fields, n, p, pl
<1>13. ASSUME NEW k \in 1 .. n PROVE pl[fields[k][1]] = m[fields[k][1]]
  <2> DEFINE kind == fields[k][2]
             w == Width[kind]
             from == p[k - 1]
             x == m[fields[k][1]]
  <2>1. /\ w \in 1 .. 8 /\ from \in Int /\ from >= 3 /\ from + w <= size
        /\ \A b \in 1 .. w : from + b \in 4 .. size
    BY <1>6, Zenon DEF Placed, n
  <2>2. PutField(kind, x) \in [1 .. w -> Byte] /\ GetField(kind, PutField(kind, x)) = x
    BY <1>9
  <2>3. \A b \in 1 .. w : Written(m)[from + b] = PutField(kind, x)[b]
    BY <1>7, Zenon DEF IsEncoding, n
  <2>4. pl[fields[k][1]] = GetField(kind, Bytes(in, from, w))
    BY <1>8, Zenon
  <2> HIDE DEF kind, w, from
  <2>5. from \in Nat /\ w \in Nat /\ from + w <= Len(in) /\ \A i \in 4 .. size : i \in 1 .. size /\ i <= Len(in)
    <3> DEFINE l == Len(in)
    <3>1. l \in Nat /\ ~(l < size) /\ size \in Nat
      BY <1>2, <1>3
    <3> HIDE DEF l
    <3>2. from \in Nat /\ w \in Nat /\ from + w <= l /\ \A i \in 4 .. size : i \in 1 .. size /\ i <= l
      BY <2>1, <3>1
    <3> QED
      BY <3>2 DEF l
  <2>6. Bytes(in, from, w) \in [1 .. w -> Byte] /\ \A b \in 1 .. w : Bytes(in, from, w)[b] = in[from + b]
    BY <2>5, BytesInside, SMTT(20)
  <2>7. \A b \in 1 .. w : in[from + b] = Written(m)[from + b]
    BY <1>12, <2>1, <2>5, Zenon
  <2>8. \A b \in 1 .. w : Bytes(in, from, w)[b] = PutField(kind, x)[b]
    BY <2>3, <2>6, <2>7, Zenon
  <2>9. Bytes(in, from, w) = PutField(kind, x)
    <3>1. Bytes(in, from, w) = [b \in 1 .. w |-> Bytes(in, from, w)[b]]
      BY <2>6
    <3>2. PutField(kind, x) = [b \in 1 .. w |-> PutField(kind, x)[b]]
      BY <2>2, Zenon
    <3> QED
      BY <2>8, <3>1, <3>2
  <2> QED
    BY <2>2, <2>4, <2>9
<1>14. "type" \notin DOMAIN pl
  BY <1>6, <1>8 DEF Placed, n
<1> DEFINE r == <<type, pl>>
<1>15. AsMessage(r) = [f \in DOMAIN pl \cup {"type"} |-> IF f = "type" THEN type ELSE pl[f]]
  BY DEF AsMessage
<1>16. DOMAIN m = DOMAIN pl \cup {"type"}
  BY <1>8, <1>10
<1>17. \A f \in DOMAIN pl : pl[f] = m[f]
  BY <1>8, <1>13
<1>18. AsMessage(r) = [f \in DOMAIN m |-> m[f]]
  BY <1>11, <1>14, <1>15, <1>16, <1>17
<1> QED
  BY <1>1, <1>5, <1>10, <1>18

\* What decode() accepts begins with the encoding of what it returns.
LEMMA AcceptedIsEncoding ==
  ASSUME NEW in \in Seq(Byte), NEW type \in Types, in[1] = kType[type],
         GetUnsigned(Bytes(in, 1, 2)) = kWireSize[type], Len(in) >= kWireSize[type],
         NEW m, m = AsMessage(<<type, Payload(in, type)>>)
  PROVE  m.type = type /\ IsMessage(m) /\ SubSeq(in, 1, kWireSize[type]) = Written(m)
<1> DEFINE size == kWireSize[type]
           fields == Put[type]
           n == Len(fields)
           p == Offset(fields)
           pl == Payload(in, type)
           Read(k) == Bytes(in, p[k - 1], Width[fields[k][2]])
<1>1. Placed(fields, p, size)
  BY Positions
<1>2. size \in 27 .. 48 /\ size \in Nat /\ Len(in) \in Nat
  BY TypesDiffer, SMTT(20)
<1>3. /\ DOMAIN pl = {fields[k][1] : k \in 1 .. n}
      /\ \A k \in 1 .. n : pl[fields[k][1]] = GetField(fields[k][2], Read(k))
  <2>1. Reads(in, pl, fields, p)
    BY PayloadFields
  <2> QED
    BY <2>1, Zenon DEF Reads
<1>4. DOMAIN fields = 1 .. n /\ \A k \in 1 .. n : fields[k][1] # "type" /\ fields[k][2] \in Kinds
  BY <1>1 DEF Placed
<1>5. m = [f \in DOMAIN pl \cup {"type"} |-> IF f = "type" THEN type ELSE pl[f]]
  BY DEF AsMessage
<1>6. m.type = type /\ DOMAIN m = DOMAIN pl \cup {"type"} /\ m = [f \in DOMAIN m |-> m[f]]
  <2> HIDE DEF pl
  <2> QED
    BY <1>5, Zenon
<1> HIDE DEF size, fields, n, p, pl, Read
<1>7. ASSUME NEW k \in 1 .. n
      PROVE  /\ Read(k) \in [1 .. Width[fields[k][2]] -> Byte]
             /\ \A b \in 1 .. Width[fields[k][2]] : Read(k)[b] = in[p[k - 1] + b]
  <2> DEFINE w == Width[fields[k][2]]
             from == p[k - 1]
  <2>1. w \in 1 .. 8 /\ from \in Int /\ from >= 3 /\ from + w <= size
    BY <1>1, Zenon DEF Placed, n
  <2>2. Read(k) = Bytes(in, from, w)
    BY DEF Read
  <2> HIDE DEF w, from
  <2>3. from \in Nat /\ w \in Nat /\ from + w <= Len(in)
    <3> DEFINE l == Len(in)
    <3>1. l \in Nat /\ l >= size
      BY <1>2 DEF size
    <3> HIDE DEF l
    <3>2. from \in Nat /\ w \in Nat /\ from + w <= l
      BY <1>2, <2>1, <3>1
    <3> QED
      BY <3>2 DEF l
  <2>4. Bytes(in, from, w) \in [1 .. w -> Byte] /\ \A b \in 1 .. w : Bytes(in, from, w)[b] = in[from + b]
    BY <2>3, BytesInside, Zenon
  <2> QED
    BY <2>2, <2>4, Zenon DEF w, from
<1>8. ASSUME NEW k \in 1 .. n
      PROVE  /\ m[fields[k][1]] = GetField(fields[k][2], Read(k))
             /\ m[fields[k][1]] \in FieldValues(fields[k][2])
             /\ PutField(fields[k][2], m[fields[k][1]]) = Read(k)
  <2> DEFINE kind == fields[k][2]
             x == GetField(kind, Read(k))
  <2>1. m[fields[k][1]] = x
    <3>1. fields[k][1] \in DOMAIN pl /\ fields[k][1] # "type"
      BY <1>3, <1>4, Zenon
    <3> QED
      BY <1>3, <1>5, <3>1, Zenon
  <2>2. kind \in Kinds /\ Read(k) \in [1 .. Width[kind] -> Byte]
    BY <1>4, <1>7, Zenon
  <2> HIDE DEF kind
  <2>3. x \in FieldValues(kind) /\ PutField(kind, x) = Read(k)
    BY <2>2, FieldGetThenPut
  <2> QED
    BY <2>1, <2>3 DEF kind
<1>9. IsMessage(m)
  <2>1. Put[m.type] = fields /\ m.type \in DOMAIN kType
    BY <1>6, TypesDiffer DEF fields
  <2>2. DOMAIN m = {fields[k][1] : k \in DOMAIN fields} \cup {"type"}
    BY <1>3, <1>4, <1>6
  <2>3. \A k \in DOMAIN fields : m[fields[k][1]] \in FieldValues(fields[k][2])
    BY <1>4, <1>8
  <2> QED
    BY <1>6, <2>1, <2>2, <2>3, Zenon DEF IsMessage
<1>10. IsEncoding(Written(m), m, size, fields, p)
  BY <1>6, <1>9, WrittenIsEncoding DEF size, fields, p
<1>11. \A i \in 1 .. 3 : in[i] = put_header(type)[i]
  <2> DEFINE c == Bytes(in, 1, 2)
             head == put_header(type)
  <2>1. 1 \in Nat /\ 2 \in Nat /\ 1 + 2 <= Len(in)
    <3> DEFINE l == Len(in)
    <3>1. l \in Nat /\ l >= size
      BY <1>2 DEF size
    <3> HIDE DEF l
    <3>2. 1 + 2 <= l
      BY <1>2, <3>1
    <3> QED
      BY <3>2 DEF l
  <2>2. c \in [1 .. 2 -> Byte] /\ \A b \in 1 .. 2 : c[b] = in[1 + b]
    BY <2>1, BytesInside, Zenon
  <2>3. 2 \in 1 .. 8
    OBVIOUS
  <2>4. PutUnsigned(GetUnsigned(c), 2) = c
    BY <2>2, <2>3, GetThenPut, Zenon
  <2>5. head[1] = kType[type] /\ \A i \in 1 .. 2 : head[i + 1] = PutUnsigned(kWireSize[type], 2)[i]
    BY HeaderBytes, Zenon
  <2>6. PutUnsigned(kWireSize[type], 2) = c
    BY <2>4
  <2> HIDE DEF c, head
  <2>7. \A i \in 1 .. 2 : head[i + 1] = in[1 + i]
    BY <2>2, <2>5, <2>6, Zenon
  <2>8. head[1] = in[1] /\ head[2] = in[2] /\ head[3] = in[3]
    <3>1. 1 \in 1 .. 2 /\ 2 \in 1 .. 2 /\ 1 + 1 = 2 /\ 2 + 1 = 3 /\ 1 + 2 = 3
      OBVIOUS
    <3> QED
      BY <2>5, <2>7, <3>1
  <2>9. \A i \in 1 .. 3 : i = 1 \/ i = 2 \/ i = 3
    OBVIOUS
  <2> QED
    BY <2>8, <2>9 DEF head
<1>12. \A i \in 1 .. size : in[i] = Written(m)[i]
  <2> TAKE i \in 1 .. size
  <2>1. CASE i \in 1 .. 3
    BY <1>6, <1>10, <1>11, <2>1, Zenon DEF IsEncoding
  <2>2. CASE i \in 4 .. size
    <3>1. PICK k \in 1 .. n : \E b \in 1 .. Width[fields[k][2]] : i = p[k - 1] + b
      BY <1>1, <2>2, Zenon DEF Placed, n
    <3>2. PICK b \in 1 .. Width[fields[k][2]] : i = p[k - 1] + b
      BY <3>1
    <3>3. Written(m)[p[k - 1] + b] = PutField(fields[k][2], m[fields[k][1]])[b]
      BY <1>10, Zenon DEF IsEncoding, n
    <3>4. Read(k)[b] = in[p[k - 1] + b]
      BY <1>7, Zenon
    <3>5. PutField(fields[k][2], m[fields[k][1]]) = Read(k)
      BY <1>8
    <3> QED
      BY <3>2, <3>3, <3>4, <3>5, Zenon
  <2> QED
    BY <1>2, <2>1, <2>2
<1>13. SubSeq(in, 1, size) = Written(m)
  <2>1. SubSeq(in, 1, size) = [i \in 1 .. size |-> in[i]]
    <3>1. size - 1 + 1 = size /\ \A i \in 1 .. size : 1 + i - 1 = i /\ i + 1 - 1 = i
      BY <1>2
    <3> QED
      BY <1>2, <3>1
  <2>2. Written(m) = [i \in 1 .. size |-> Written(m)[i]]
    BY <1>10, Zenon DEF IsEncoding
  <2> QED
    BY <1>12, <2>1, <2>2, Zenon
<1> QED
  BY <1>6, <1>9, <1>13, Zenon DEF size

-----------------------------------------------------------------------------
(***************************************************************************)
(* One message's way: what the buffer holds at each step.                  *)
(***************************************************************************)
CodecInv ==
  /\ message \in Messages /\ buffer \in Seq(Byte)
  /\ step \in {"new", "encoded", "arrived", "decoded"}
  /\ step # "decoded" => lastRead = 0
  /\ step = "encoded" =>
       /\ result[1] = "BufferTooSmall" => Len(buffer) < Size /\ \A i \in DOMAIN buffer : buffer[i] = Radix - 1
       /\ result[1] # "BufferTooSmall" =>
            /\ Len(buffer) >= Size /\ Begins(buffer, message) /\ result[2] = Size
            /\ \A i \in DOMAIN buffer : i > Size => buffer[i] = Radix - 1
  /\ step = "arrived" /\ ~changed => Begins(buffer, message)
  /\ step = "decoded" => lastRead <= Len(buffer)
  /\ RoundTrip /\ AcceptsOnlyEncodings

\* Positions before and after the message.
LEMMA SpareBytes ==
  ASSUME NEW n \in Nat, NEW size \in 27 .. 48, ~(n < size)
  PROVE  /\ size \in Nat /\ n - size \in Nat /\ size + (n - size) = n
         /\ \A i \in 1 .. n - size : i + size \in 1 .. n
         /\ \A i \in 1 .. size : i \in 1 .. n /\ i <= size
         /\ \A i \in 1 .. n : i > size => i - size \in 1 .. n - size /\ ~(i <= size)
OBVIOUS

Fill(n, v) == [i \in 1 .. n |-> v]

\* The end of a buffer of equal bytes.
LEMMA SpareSeq ==
  ASSUME NEW n \in Nat, NEW size \in 27 .. 48, ~(n < size), NEW v,
         NEW out, out = Fill(n, v)
  PROVE  SubSeq(out, size + 1, n) = Fill(n - size, v)
<1>1. SubSeq(out, size + 1, n) = [i \in 1 .. 1 + n - (size + 1) |-> out[i + (size + 1) - 1]]
  BY DEF SubSeq
<1>2. 1 + n - (size + 1) = n - size
  OBVIOUS
<1>3. ASSUME NEW i \in 1 .. n - size PROVE out[i + (size + 1) - 1] = v
  <2>1. i + (size + 1) - 1 \in 1 .. n
    OBVIOUS
  <2> QED
    BY <2>1 DEF Fill
<1> QED
  BY <1>1, <1>2, <1>3 DEF Fill

\* What encode() does to a buffer of n bytes that holds other bytes.
LEMMA EncodedBuffer ==
  ASSUME NEW m, IsMessage(m), NEW n \in Nat, NEW out, out = Fill(n, Radix - 1),
         NEW e, e = Encoded(m, out), NEW size, size = kWireSize[m.type]
  PROVE  /\ e.out \in Seq(Byte) /\ Len(e.out) = n
         /\ n < size => e.result = <<"BufferTooSmall">> /\ e.out = out
         /\ ~(n < size) => /\ e.result = <<"Written", size>>
                           /\ \A i \in 1 .. size : e.out[i] = Written(m)[i]
                           /\ \A i \in 1 .. n : i > size => e.out[i] = Radix - 1
<1>1. Radix - 1 \in Byte
  BY RadixIsLarge DEF Byte
<1>2. out \in Seq(Byte) /\ Len(out) = n
  <2>1. out \in [1 .. n -> Byte]
    BY <1>1, Zenon DEF Fill
  <2> QED
    BY <2>1, BytesInSequence
<1>3. m.type \in Types
  BY MessageFields
<1>4. size \in 27 .. 48
  BY <1>3, TypesDiffer, Zenon
<1>5. CASE n < size
  <2>1. e = [result |-> <<"BufferTooSmall">>, out |-> out]
    BY <1>2, <1>5, Zenon DEF Encoded
  <2>2. e.out = out /\ e.result = <<"BufferTooSmall">>
    BY <2>1
  <2> QED
    BY <1>2, <1>5, <2>2
<1>6. CASE ~(n < size)
  <2> DEFINE w == Written(m)
             rest == SubSeq(out, Len(w) + 1, Len(out))
  <2>1. e = [result |-> <<"Written", size>>, out |-> w \o rest]
    BY <1>2, <1>6, Zenon DEF Encoded
  <2> HIDE DEF w, rest
  <2>2. e.out = w \o rest /\ e.result = <<"Written", size>>
    BY <2>1
  <2>3. IsEncoding(w, m, size, Put[m.type], Offset(Put[m.type]))
    BY WrittenIsEncoding, Zenon DEF w
  <2>4. w \in Seq(Byte) /\ Len(w) = size
    <3>1. w = [i \in 1 .. size |-> w[i]] /\ \A i \in 1 .. size : w[i] \in Byte
      BY <2>3, Zenon DEF IsEncoding
    <3>2. w \in [1 .. size -> Byte]
      BY <3>1
    <3>3. size \in Nat
      BY <1>4, <1>6, SpareBytes
    <3> QED
      BY <3>2, <3>3, BytesInSequence
  <2>5. rest = Fill(n - size, Radix - 1)
    <3>1. rest = SubSeq(out, size + 1, n)
      BY <1>2, <2>4, Zenon DEF rest
    <3> QED
      BY <1>4, <1>6, <3>1, SpareSeq, Zenon
  <2>6. rest \in Seq(Byte) /\ Len(rest) = n - size /\ n - size \in Nat
    <3>1. n - size \in Nat
      BY <1>4, <1>6, SpareBytes
    <3>2. rest \in [1 .. n - size -> Byte]
      BY <1>1, <2>5 DEF Fill
    <3> QED
      BY <3>1, <3>2, BytesInSequence
  <2> DEFINE all == w \o rest
  <2>7. /\ all \in Seq(Byte) /\ Len(all) = size + (n - size)
        /\ \A i \in 1 .. size + (n - size) : all[i] = IF i <= size THEN w[i] ELSE rest[i - size]
    <3>1. /\ all \in Seq(Byte) /\ Len(all) = Len(w) + Len(rest)
          /\ \A i \in 1 .. Len(w) + Len(rest) : all[i] = IF i <= Len(w) THEN w[i] ELSE rest[i - Len(w)]
      BY <2>4, <2>6, ConcatProperties, Zenon
    <3> HIDE DEF all
    <3> QED
      BY <2>4, <2>6, <3>1
  <2> HIDE DEF all
  <2>8. size + (n - size) = n
    BY <1>4, <1>6, SpareBytes, Zenon
  <2>9. \A i \in 1 .. size : all[i] = w[i]
    <3>1. \A i \in 1 .. size : i \in 1 .. n /\ i <= size
      BY <1>4, <1>6, SpareBytes, Zenon
    <3> QED
      BY <2>7, <2>8, <3>1
  <2>10. \A i \in 1 .. n : i > size => all[i] = Radix - 1
    <3>1. ASSUME NEW i \in 1 .. n, i > size PROVE i - size \in 1 .. n - size /\ ~(i <= size)
      BY <1>4, <1>6, <3>1, SpareBytes
    <3>2. ASSUME NEW i \in 1 .. n, i > size PROVE all[i] = rest[i - size]
      BY <2>7, <2>8, <3>1, <3>2
    <3> QED
      BY <2>5, <3>1, <3>2 DEF Fill
  <2> QED
    BY <1>6, <2>2, <2>7, <2>8, <2>9, <2>10, Zenon DEF all, w
<1> QED
  BY <1>5, <1>6

\* A buffer's size is a natural number.
LEMMA BufferSize ==
  ASSUME NEW z \in Int
  PROVE  \E n \in Nat : [i \in 1 .. z |-> Radix - 1] = Fill(n, Radix - 1)
<1>1. CASE z >= 0
  <2>1. z \in Nat
    BY <1>1
  <2> QED
    BY <2>1 DEF Fill
<1>2. CASE z < 0
  <2>1. 1 .. z = 1 .. 0 /\ 0 \in Nat
    BY <1>2
  <2> QED
    BY <2>1 DEF Fill
<1> QED
  BY <1>1, <1>2

\* A message sent is one.
LEMMA SentMessages == \A m \in Messages : IsMessage(m) /\ m.type \in Types /\ kWireSize[m.type] \in 27 .. 48
BY MessagesAssumption, MessageFields, TypesDiffer, Zenon

\* CodecInv at the start.
LEMMA CodecInit == ProtocolInit => CodecInv
<1> SUFFICES ASSUME ProtocolInit PROVE CodecInv
  OBVIOUS
<1>1. step = "new" /\ lastRead = 0 /\ message \in Messages /\ buffer = <<>>
  BY DEF ProtocolInit
<1>2. buffer \in Seq(Byte)
  BY <1>1
<1>3. RoundTrip /\ AcceptsOnlyEncodings
  BY <1>1 DEF RoundTrip, AcceptsOnlyEncodings
<1> QED
  BY <1>1, <1>2, <1>3 DEF CodecInv

\* Encode keeps it.
LEMMA EncodeKeeps == CodecInv /\ Encode => CodecInv'
<1> SUFFICES ASSUME CodecInv, Encode PROVE CodecInv'
  OBVIOUS
<1>1. step = "new" /\ step' = "encoded" /\ message' = message /\ lastRead' = lastRead
  BY DEF Encode
<1>2. message \in Messages /\ lastRead = 0 /\ Size' = Size /\ Size = kWireSize[message.type]
  BY <1>1 DEF CodecInv, Size
<1>3. PICK room \in SpareRoom :
        /\ buffer' = Encoded(message, [i \in 1 .. Size + room |-> Radix - 1]).out
        /\ result' = Encoded(message, [i \in 1 .. Size + room |-> Radix - 1]).result
  BY Zenon DEF Encode
<1>4. IsMessage(message) /\ Size \in 27 .. 48
  BY <1>2, SentMessages
<1>5. Size + room \in Int
  BY <1>4, MessagesAssumption
<1>6. PICK n \in Nat : [i \in 1 .. Size + room |-> Radix - 1] = Fill(n, Radix - 1)
  BY <1>5, BufferSize, Zenon
<1> DEFINE out == Fill(n, Radix - 1)
           e == Encoded(message, out)
<1>7. buffer' = e.out /\ result' = e.result
  BY <1>3, <1>6, Zenon
<1> HIDE DEF out
<1>8. /\ e.out \in Seq(Byte) /\ Len(e.out) = n
      /\ n < Size => e.result = <<"BufferTooSmall">> /\ e.out = out
      /\ ~(n < Size) => /\ e.result = <<"Written", Size>>
                        /\ \A i \in 1 .. Size : e.out[i] = Written(message)[i]
                        /\ \A i \in 1 .. n : i > Size => e.out[i] = Radix - 1
  BY <1>2, <1>4, EncodedBuffer DEF out
<1> HIDE DEF e
<1>9. buffer' \in Seq(Byte) /\ Len(buffer') = n /\ DOMAIN buffer' = 1 .. n
  <2>1. DOMAIN e.out = 1 .. Len(e.out)
    BY <1>8, LenProperties
  <2> QED
    BY <1>7, <1>8, <2>1
<1>10. RoundTrip' /\ AcceptsOnlyEncodings'
  BY <1>1 DEF RoundTrip, AcceptsOnlyEncodings
<1>11. CASE n < Size
  <2>1. result'[1] = "BufferTooSmall" /\ Len(buffer') < Size'
    BY <1>2, <1>7, <1>8, <1>9, <1>11
  <2>2. \A i \in DOMAIN buffer' : buffer'[i] = Radix - 1
    BY <1>7, <1>8, <1>9, <1>11, Zenon DEF out, Fill
  <2> QED
    BY <1>1, <1>2, <1>9, <1>10, <2>1, <2>2, Zenon DEF CodecInv
<1>12. CASE ~(n < Size)
  <2>1. result'[1] # "BufferTooSmall" /\ result'[2] = Size'
    BY <1>2, <1>7, <1>8, <1>12
  <2>2. Len(buffer') >= Size'
    <3>1. \A s \in 27 .. 48 : ~(n < s) => n >= s
      OBVIOUS
    <3> QED
      BY <1>2, <1>4, <1>9, <1>12, <3>1, Zenon
  <2>3. \A i \in DOMAIN buffer' : i > Size' => buffer'[i] = Radix - 1
    BY <1>2, <1>7, <1>8, <1>9, <1>12, Zenon
  <2>4. Begins(buffer', message')
    BY <1>1, <1>2, <1>7, <1>8, <1>12 DEF Begins
  <2> QED
    BY <1>1, <1>2, <1>9, <1>10, <2>1, <2>2, <2>3, <2>4, Zenon DEF CodecInv
<1> QED
  BY <1>11, <1>12

\* Arrive keeps it.
LEMMA ArriveKeeps == CodecInv /\ Arrive => CodecInv'
<1> SUFFICES ASSUME CodecInv, Arrive PROVE CodecInv'
  OBVIOUS
<1>1. /\ step = "encoded" /\ result[1] # "BufferTooSmall" /\ step' = "arrived"
      /\ message' = message /\ lastRead' = lastRead
  BY DEF Arrive
<1>2. message \in Messages /\ lastRead = 0 /\ buffer \in Seq(Byte) /\ Begins(buffer, message)
  BY <1>1, Zenon DEF CodecInv
<1>3. Size \in 27 .. 48 /\ Len(buffer) \in Nat /\ Len(buffer) >= Size
  BY <1>1, <1>2, SentMessages DEF CodecInv, Size
<1>4. RoundTrip' /\ AcceptsOnlyEncodings'
  BY <1>1 DEF RoundTrip, AcceptsOnlyEncodings
<1>5. CASE (\E n \in 0 .. Len(buffer) : buffer' = SubSeq(buffer, 1, n)) /\ UNCHANGED changed
  <2>1. PICK n \in 0 .. Len(buffer) : buffer' = SubSeq(buffer, 1, n)
    BY <1>5
  <2>2. buffer' \in Seq(Byte) /\ Len(buffer') = n /\ \A i \in 1 .. n : buffer'[i] = buffer[i]
    <3>1. n \in Nat /\ n <= Len(buffer)
      BY <1>3
    <3> QED
      BY <1>2, <2>1, <3>1
  <2>3. \A i \in Int : 1 <= i /\ i <= n => i \in 1 .. n /\ i <= Len(buffer)
    BY <1>3
  <2>4. Begins(buffer', message')
    BY <1>1, <1>2, <2>2, <2>3 DEF Begins
  <2> QED
    BY <1>1, <1>2, <1>4, <2>2, <2>4 DEF CodecInv
<1>6. CASE /\ \E k \in 1 .. Size, b \in NewBytes : b # buffer[k] /\ buffer' = [buffer EXCEPT ![k] = b]
           /\ changed' = TRUE
  <2>1. PICK k \in 1 .. Size, b \in NewBytes : buffer' = [buffer EXCEPT ![k] = b]
    BY <1>6, Zenon
  <2>2. b \in Byte
    BY MessagesAssumption DEF Byte
  <2>3. buffer' \in Seq(Byte)
    <3>1. \A s \in 27 .. 48, l \in Nat : l >= s => \A i \in 1 .. s : i \in 1 .. l
      OBVIOUS
    <3>2. k \in 1 .. Len(buffer)
      BY <1>3, <3>1, Zenon
    <3> QED
      BY <1>2, <2>1, <2>2, <3>2, ExceptSeq
  <2> QED
    BY <1>1, <1>2, <1>4, <1>6, <2>3 DEF CodecInv
<1> QED
  BY <1>5, <1>6, Zenon DEF Arrive

\* Decode keeps it: this is where the properties are decided.
LEMMA DecodeKeeps == CodecInv /\ Decode => CodecInv'
<1> SUFFICES ASSUME CodecInv, Decode PROVE CodecInv'
  OBVIOUS
<1> DEFINE d == Decoded(buffer)
<1>1. /\ step = "arrived" /\ step' = "decoded" /\ message' = message /\ buffer' = buffer
      /\ changed' = changed /\ result' = d.result /\ lastRead' = d.read
  BY DEF Decode
<1>2. message \in Messages /\ buffer \in Seq(Byte) /\ (~changed => Begins(buffer, message))
  BY <1>1 DEF CodecInv
<1>3. IsMessage(message) /\ Size' = Size /\ Size = kWireSize[message.type] /\ Size \in 27 .. 48
  BY <1>1, <1>2, SentMessages, Zenon DEF Size
<1>4. Types \cap Errors = {} /\ Len(buffer) \in Nat
  BY <1>2 DEF Types, Errors
<1>5. RoundTrip'
  <2>1. CASE changed
    BY <1>1, <2>1 DEF RoundTrip
  <2>2. CASE ~changed /\ Len(buffer) >= Size
    <3>1. d.result[1] \in Types /\ AsMessage(d.result) = message
      BY <1>2, <1>3, <2>2, EncodingIsDecoded, Zenon
    <3> HIDE DEF d
    <3> QED
      BY <1>1, <1>3, <1>4, <2>2, <3>1 DEF RoundTrip
  <2>3. CASE ~changed /\ ~(Len(buffer) >= Size)
    <3>1. Len(buffer) < Size
      <4>1. \A s \in 27 .. 48, l \in Nat : ~(l >= s) => l < s
        OBVIOUS
      <4> QED
        BY <1>3, <1>4, <2>3, <4>1, Zenon
    <3>2. d.result[1] = "TruncatedMessage"
      BY <1>2, <1>3, <2>3, <3>1, ShortIsTruncated, Zenon
    <3> HIDE DEF d
    <3> QED
      BY <1>1, <1>3, <2>3, <3>2 DEF RoundTrip
  <2> QED
    BY <2>1, <2>2, <2>3
<1>6. CASE \E x \in Errors, n \in {0, 3} : d = Error(x, n) /\ n <= Len(buffer)
  <2>1. PICK x \in Errors, n \in {0, 3} : d = Error(x, n) /\ n <= Len(buffer)
    BY <1>6
  <2>2. d.result[1] = x /\ d.read = n
    BY <2>1 DEF Error
  <2> HIDE DEF d
  <2>3. AcceptsOnlyEncodings' /\ lastRead' <= Len(buffer')
    BY <1>1, <2>1, <2>2, Zenon DEF AcceptsOnlyEncodings
  <2> QED
    BY <1>1, <1>2, <1>5, <2>3 DEF CodecInv
<1>7. CASE \E type \in Types :
             /\ buffer[1] = kType[type] /\ GetUnsigned(Bytes(buffer, 1, 2)) = kWireSize[type]
             /\ Len(buffer) >= kWireSize[type]
             /\ d = [result |-> <<type, Payload(buffer, type)>>, read |-> kWireSize[type]]
  <2>1. PICK type \in Types :
               /\ buffer[1] = kType[type] /\ GetUnsigned(Bytes(buffer, 1, 2)) = kWireSize[type]
               /\ Len(buffer) >= kWireSize[type]
               /\ d = [result |-> <<type, Payload(buffer, type)>>, read |-> kWireSize[type]]
    BY <1>7, Zenon
  <2> DEFINE m == AsMessage(<<type, Payload(buffer, type)>>)
  <2>2. m.type = type /\ SubSeq(buffer, 1, kWireSize[type]) = Written(m)
    BY <1>2, <2>1, AcceptedIsEncoding, Zenon
  <2>3. d.result = <<type, Payload(buffer, type)>> /\ d.read = kWireSize[type]
    BY <2>1
  <2>4. AsMessage(d.result) = m
    BY <2>3
  <2> HIDE DEF d, m
  <2>5. AcceptsOnlyEncodings'
    BY <1>1, <2>2, <2>4, Zenon DEF AcceptsOnlyEncodings
  <2>6. lastRead' <= Len(buffer')
    <3>1. kWireSize[type] \in 27 .. 48
      BY TypesDiffer
    <3> QED
      BY <1>1, <1>4, <2>1, <2>3, <3>1, Zenon
  <2> QED
    BY <1>1, <1>2, <1>5, <2>5, <2>6, Zenon DEF CodecInv
<1> QED
  BY <1>2, <1>6, <1>7, DecodedCases

\* CodecInv is inductive.
LEMMA CodecKeeps == CodecInv /\ [ProtocolNext]_protocolVars => CodecInv'
<1> SUFFICES ASSUME CodecInv, [ProtocolNext]_protocolVars PROVE CodecInv'
  OBVIOUS
<1>1. CASE UNCHANGED protocolVars
  <2>1. /\ step' = step /\ message' = message /\ buffer' = buffer /\ changed' = changed
        /\ result' = result /\ lastRead' = lastRead
    BY <1>1 DEF protocolVars
  <2> QED
    BY <2>1, Zenon DEF CodecInv, RoundTrip, AcceptsOnlyEncodings, Size
<1> QED
  BY <1>1, EncodeKeeps, ArriveKeeps, DecodeKeeps DEF ProtocolNext

\* decode() gives back what encode() wrote, whatever follows it, for every radix
\* and every message; of anything shorter it makes TruncatedMessage.
THEOREM MessagesSurvive == ProtocolSpec => []RoundTrip
<1>1. CodecInv => RoundTrip
  BY DEF CodecInv
<1> QED
  BY <1>1, CodecInit, CodecKeeps, PTL DEF ProtocolSpec

\* Whatever byte was changed, what decode() accepts begins with the encoding of
\* the message it returns.
THEOREM OnlyEncodingsAccepted == ProtocolSpec => []AcceptsOnlyEncodings
<1>1. CodecInv => AcceptsOnlyEncodings
  BY DEF CodecInv
<1> QED
  BY <1>1, CodecInit, CodecKeeps, PTL DEF ProtocolSpec

\* encode() leaves what follows the message alone, or touches nothing; decode()
\* reads nothing past the end of its input.
THEOREM CodecStaysInside == ProtocolSpec => []StaysInside
<1>1. CodecInv => StaysInside
  <2> SUFFICES ASSUME CodecInv PROVE StaysInside
    OBVIOUS
  <2>1. step = "encoded" =>
          IF result[1] = "BufferTooSmall"
            THEN Len(buffer) < Size /\ \A i \in DOMAIN buffer : buffer[i] = Radix - 1
            ELSE \A i \in DOMAIN buffer : i > result[2] => buffer[i] = Radix - 1
    BY DEF CodecInv
  <2>2. Len(buffer) \in Nat
    BY DEF CodecInv
  <2>3. lastRead <= Len(buffer)
    BY <2>2 DEF CodecInv
  <2> QED
    BY <2>1, <2>3 DEF StaysInside
<1> QED
  BY <1>1, CodecInit, CodecKeeps, PTL DEF ProtocolSpec
=============================================================================
