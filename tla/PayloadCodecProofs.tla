------------------------- MODULE PayloadCodecProofs -------------------------
(***************************************************************************)
(* Proofs about PayloadCodec: what was packed without an error is what is    *)
(* unpacked, between any two of the languages, and no buffer is overrun.     *)
(*                                                                         *)
(* Weight and FromBytes are recursive functions. Their equations, and what   *)
(* they compute, are shown by induction over a set of numbers (Induction).   *)
(***************************************************************************)
EXTENDS PayloadCodec, SequenceTheorems, WellFoundedInduction, TLAPS
-----------------------------------------------------------------------------
(***************************************************************************)
(* Numbers and recursion.                                                    *)
(***************************************************************************)

\* A set of numbers with 0 and the successors of its members has them all.
LEMMA Induction ==
  ASSUME NEW S, 0 \in S, \A n \in Nat : n \in S => n + 1 \in S
  PROVE  Nat \subseteq S
<1> SUFFICES ASSUME Nat \ S # {} PROVE FALSE
  OBVIOUS
<1>1. PICK x \in Nat \ S : \A y \in Nat \ S : ~(<<y, x>> \in OpToRel(<, Nat))
  BY NatLessThanWellFounded, WFMin
<1>2. PICK y \in Nat : x = y + 1
  <2>1. x # 0
    OBVIOUS
  <2>2. x = (x - 1) + 1 /\ x - 1 \in Nat
    BY <2>1
  <2>3. QED
    BY <2>2
<1>3. y \notin S
  BY <1>1, <1>2
<1>4. <<y, x>> \in Nat \X Nat /\ <<y, x>>[1] = y /\ <<y, x>>[2] = x
  OBVIOUS
<1>5. y < x
  BY <1>2
<1>6. QED
  BY <1>1, <1>3, <1>4, <1>5 DEF OpToRel

\* The same as far as a number n.
LEMMA Segment ==
  ASSUME NEW c \in Nat, NEW step \in [Nat -> [Nat -> Nat]], NEW n \in Nat
  PROVE  \E g \in [0..n -> Nat] : g[0] = c /\ \A i \in 0..(n - 1) : g[i + 1] = step[i][g[i]]
<1> DEFINE S == {k \in Nat : \E g \in [0..k -> Nat] :
                   g[0] = c /\ \A i \in 0..(k - 1) : g[i + 1] = step[i][g[i]]}
<1>1. 0 \in S
  <2> DEFINE h == [i \in 0..0 |-> c]
  <2>1. h \in [0..0 -> Nat] /\ h[0] = c /\ \A i \in 0..(0 - 1) : h[i + 1] = step[i][h[i]]
    OBVIOUS
  <2> HIDE DEF h
  <2>2. QED
    BY <2>1
<1>2. ASSUME NEW k \in Nat, k \in S PROVE k + 1 \in S
  <2>1. PICK g \in [0..k -> Nat] : g[0] = c /\ \A i \in 0..(k - 1) : g[i + 1] = step[i][g[i]]
    BY <1>2
  <2>2. PICK y \in Nat : y = step[k][g[k]]
    <3>1. k \in 0..k
      OBVIOUS
    <3>2. QED
      BY <3>1
  <2> DEFINE h == [i \in 0..(k + 1) |-> IF i = k + 1 THEN y ELSE g[i]]
  <2>3. h \in [0..(k + 1) -> Nat]
    <3>1. ASSUME NEW i \in 0..(k + 1), i # k + 1 PROVE g[i] \in Nat
      <4>1. i \in 0..k
        BY <3>1
      <4>2. QED
        BY <4>1
    <3>2. QED
      BY <3>1
  <2>4. h[0] = c
    BY <2>1
  <2>5. ASSUME NEW i \in 0..((k + 1) - 1) PROVE h[i + 1] = step[i][h[i]]
    <3>1. i \in 0..(k + 1) /\ i + 1 \in 0..(k + 1) /\ i # k + 1
      OBVIOUS
    <3>2. h[i] = g[i] /\ h[i + 1] = IF i + 1 = k + 1 THEN y ELSE g[i + 1]
      BY <3>1
    <3> HIDE DEF h
    <3>3. CASE i = k
      BY <2>2, <3>2, <3>3
    <3>4. CASE i # k
      <4>1. i \in 0..(k - 1) /\ i + 1 # k + 1
        BY <3>4
      <4>2. h[i + 1] = g[i + 1]
        BY <3>2, <4>1
      <4>3. g[i + 1] = step[i][g[i]]
        BY <2>1, <4>1
      <4>4. QED
        BY <3>2, <4>2, <4>3, Zenon
    <3>5. QED
      BY <3>3, <3>4
  <2> HIDE DEF h
  <2>6. k + 1 \in Nat
    OBVIOUS
  <2>7. QED
    BY <2>3, <2>4, <2>5, <2>6, Zenon
<1> HIDE DEF S
<1>3. Nat \subseteq S
  BY <1>1, <1>2, Induction
<1>4. QED
  BY <1>3 DEF S

\* Whatever the first value and the step, there is a function that begins with the one
\* and goes on with the other.
LEMMA Recursion ==
  ASSUME NEW c \in Nat, NEW step \in [Nat -> [Nat -> Nat]]
  PROVE  \E f \in [Nat -> Nat] : f[0] = c /\ \A i \in Nat : f[i + 1] = step[i][f[i]]
<1> DEFINE G == [n \in Nat |-> CHOOSE g \in [0..n -> Nat] :
                    g[0] = c /\ \A i \in 0..(n - 1) : g[i + 1] = step[i][g[i]]]
           f == [n \in Nat |-> G[n][n]]
<1>1. ASSUME NEW n \in Nat
      PROVE  /\ G[n] \in [0..n -> Nat]
             /\ G[n][0] = c
             /\ \A i \in 0..(n - 1) : G[n][i + 1] = step[i][G[n][i]]
  <2>1. \E g \in [0..n -> Nat] : g[0] = c /\ \A i \in 0..(n - 1) : g[i + 1] = step[i][g[i]]
    BY Segment
  <2>2. G[n] = CHOOSE g \in [0..n -> Nat] :
                 g[0] = c /\ \A i \in 0..(n - 1) : g[i + 1] = step[i][g[i]]
    BY Zenon
  <2> HIDE DEF G
  <2>3. QED
    BY <2>1, <2>2, Zenon
<1>2. \A n \in Nat : f[n] = G[n][n]
  OBVIOUS
<1>3. DOMAIN f = Nat /\ f = [n \in Nat |-> f[n]]
  OBVIOUS
<1> HIDE DEF G, f
<1>4. ASSUME NEW n \in Nat PROVE G[n + 1][n] = G[n][n]
  <2> DEFINE T == {i \in Nat : i <= n => G[n + 1][i] = G[n][i]}
  <2>0. n + 1 \in Nat
    OBVIOUS
  <2>1. 0 \in T
    <3>1. G[n + 1][0] = c /\ G[n][0] = c
      BY <1>1, <2>0
    <3>2. QED
      BY <3>1
  <2>2. ASSUME NEW i \in Nat, i \in T PROVE i + 1 \in T
    <3>0. i + 1 \in Nat
      OBVIOUS
    <3> SUFFICES ASSUME i + 1 <= n PROVE G[n + 1][i + 1] = G[n][i + 1]
      BY <3>0, Zenon
    <3>1. i \in 0..(n - 1) /\ i \in 0..((n + 1) - 1) /\ n + 1 \in Nat
      OBVIOUS
    <3>2. G[n][i + 1] = step[i][G[n][i]] /\ G[n + 1][i + 1] = step[i][G[n + 1][i]]
      BY <1>1, <3>1
    <3>3. G[n + 1][i] = G[n][i]
      BY <2>2
    <3>4. QED
      BY <3>2, <3>3, Zenon
  <2> HIDE DEF T
  <2>3. Nat \subseteq T
    BY <2>1, <2>2, Induction
  <2>4. n \in T /\ n <= n
    BY <2>3
  <2>5. QED
    BY <2>4, Zenon DEF T
<1>5. f \in [Nat -> Nat]
  <2>1. ASSUME NEW n \in Nat PROVE f[n] \in Nat
    <3>1. n \in 0..n
      OBVIOUS
    <3>2. G[n][n] \in Nat
      BY <1>1, <3>1
    <3>3. QED
      BY <1>2, <3>2
  <2>2. QED
    BY <1>3, <2>1
<1>6. f[0] = c
  BY <1>1, <1>2
<1>7. ASSUME NEW i \in Nat PROVE f[i + 1] = step[i][f[i]]
  <2>1. i \in 0..((i + 1) - 1) /\ i + 1 \in Nat
    OBVIOUS
  <2>2. G[i + 1][i + 1] = step[i][G[i + 1][i]]
    BY <1>1, <2>1
  <2>3. QED
    BY <1>2, <1>4, <2>1, <2>2
<1>8. QED
  BY <1>5, <1>6, <1>7
-----------------------------------------------------------------------------
(***************************************************************************)
(* Weights, and division by them.                                            *)
(***************************************************************************)

\* The equation that defines Weight, which holds because a function satisfies it.
LEMMA WeightDef ==
  /\ Weight \in [Nat -> Nat \ {0}]
  /\ Weight[0] = 1
  /\ \A i \in Nat : Weight[i + 1] = ByteRange * Weight[i]
<1>0. ByteRange \in Nat \ {0}
  BY PayloadCodecAssumption
<1> DEFINE step == [i \in Nat |-> [x \in Nat |-> ByteRange * x]]
<1>1. step \in [Nat -> [Nat -> Nat]] /\ \A i \in Nat, x \in Nat : step[i][x] = ByteRange * x
  BY <1>0
<1> HIDE DEF step
<1>2. PICK f \in [Nat -> Nat] : f[0] = 1 /\ \A i \in Nat : f[i + 1] = step[i][f[i]]
  <2>1. 1 \in Nat
    OBVIOUS
  <2>2. QED
    BY <1>1, <2>1, Recursion, Zenon
<1>3. f = [i \in Nat |-> IF i = 0 THEN 1 ELSE ByteRange * f[i - 1]]
  <2>1. ASSUME NEW i \in Nat PROVE f[i] = IF i = 0 THEN 1 ELSE ByteRange * f[i - 1]
    <3>1. CASE i = 0
      BY <1>2, <3>1
    <3>2. CASE i # 0
      <4>1. PICK k \in Nat : i = k + 1 /\ i - 1 = k
        <5>1. i - 1 \in Nat /\ i = (i - 1) + 1
          BY <3>2
        <5>2. QED
          BY <5>1
      <4>2. f[k + 1] = ByteRange * f[k]
        BY <1>1, <1>2
      <4>3. QED
        BY <3>2, <4>1, <4>2
    <3>3. QED
      BY <3>1, <3>2
  <2>2. QED
    BY <2>1
<1>4. Weight = [i \in Nat |-> IF i = 0 THEN 1 ELSE ByteRange * Weight[i - 1]]
  BY <1>3, Zenon DEF Weight
<1>5. Weight[0] = 1
  BY <1>4
<1>6. ASSUME NEW i \in Nat PROVE Weight[i + 1] = ByteRange * Weight[i]
  <2>1. i + 1 \in Nat /\ i + 1 # 0 /\ (i + 1) - 1 = i
    OBVIOUS
  <2>2. Weight[i + 1] = IF i + 1 = 0 THEN 1 ELSE ByteRange * Weight[(i + 1) - 1]
    BY <1>4, <2>1
  <2>3. QED
    BY <2>1, <2>2
<1>7. \A i \in Nat : Weight[i] \in Nat \ {0}
  <2> DEFINE S == {i \in Nat : Weight[i] \in Nat \ {0}}
  <2>1. 0 \in S
    BY <1>5
  <2>2. ASSUME NEW i \in Nat, i \in S PROVE i + 1 \in S
    <3>1. PICK x \in Nat \ {0} : x = Weight[i]
      BY <2>2
    <3>2. ByteRange * x \in Nat \ {0}
      BY <1>0
    <3>3. QED
      BY <1>6, <3>1, <3>2
  <2> HIDE DEF S
  <2>3. Nat \subseteq S
    BY <2>1, <2>2, Induction
  <2>4. QED
    BY <2>3 DEF S
<1>8. QED
  BY <1>4, <1>5, <1>6, <1>7

\* Quotient and remainder.
LEMMA DivMod ==
  ASSUME NEW v \in Nat, NEW m \in Nat \ {0}
  PROVE  v \div m \in Nat /\ v % m \in 0..(m - 1) /\ v = m * (v \div m) + (v % m)
OBVIOUS

\* Multiples of K are K apart.
LEMMA Apart ==
  ASSUME NEW K \in Nat, NEW a \in Nat, NEW b \in Nat, a < b
  PROVE  K * b >= K * a + K
OBVIOUS

\* There is one quotient and one remainder.
LEMMA OneQuotient ==
  ASSUME NEW K \in Nat \ {0}, NEW p \in Nat, NEW d \in Nat,
         NEW t \in 0..(K - 1), NEW r \in 0..(K - 1), K * p + t = K * d + r
  PROVE  p = d /\ t = r
<1>1. ~(p < d)
  BY Apart
<1>2. ~(d < p)
  BY Apart
<1>3. QED
  BY <1>1, <1>2

\* What the next byte adds to a remainder.
LEMMA NextDigit ==
  ASSUME NEW v \in Nat, NEW m \in Nat \ {0}, NEW B \in Nat \ {0}
  PROVE  v % (B * m) = (v % m) + ((v \div m) % B) * m
<1>1. PICK p \in Nat, t \in 0..(m - 1) : p = v \div m /\ t = v % m /\ v = m * p + t
  BY DivMod
<1>2. PICK q \in Nat, r \in 0..(B - 1) : q = p \div B /\ r = p % B /\ p = B * q + r
  BY DivMod
<1>3. PICK K \in Nat \ {0} : K = B * m
  OBVIOUS
<1>4. PICK d \in Nat, e \in 0..(K - 1) : e = v % K /\ v = K * d + e
  <2>1. v \div K \in Nat /\ v % K \in 0..(K - 1) /\ v = K * (v \div K) + (v % K)
    BY DivMod
  <2>2. QED
    BY <2>1, Zenon
<1>5. m * p = K * q + m * r
  <2>1. m * (B * q + r) = m * (B * q) + m * r
    OBVIOUS
  <2>2. m * (B * q) = K * q
    BY <1>3
  <2>3. QED
    BY <1>2, <2>1, <2>2
<1>6. m * r + t \in 0..(K - 1)
  <2>1. m * B >= m * r + m
    BY Apart
  <2>2. m * r \in Nat /\ m * B = K
    BY <1>3
  <2>3. QED
    BY <2>1, <2>2
<1>7. PICK s \in 0..(K - 1) : s = m * r + t
  BY <1>6
<1>8. K * q + s = K * d + e
  <2>1. m * r \in Nat /\ K * q \in Nat /\ K * d \in Nat
    OBVIOUS
  <2>2. QED
    BY <1>1, <1>4, <1>5, <1>7, <2>1
<1>9. s = e
  BY <1>8, OneQuotient
<1>10. QED
  <2>1. m * r = r * m
    OBVIOUS
  <2>2. QED
    BY <1>1, <1>2, <1>3, <1>4, <1>7, <1>9, <2>1

\* A number below the divisor is its own remainder.
LEMMA Below ==
  ASSUME NEW m \in Nat \ {0}, NEW v \in 0..(m - 1)
  PROVE  v % m = v
OBVIOUS

\* FromBytes adds up the bytes, each times its weight: the equation of the function it is
\* defined by.
LEMMA FromBytesDef ==
  ASSUME NEW bytes \in Seq(Nat)
  PROVE  \E f : /\ f[0] = 0
                /\ \A i \in 0..(Len(bytes) - 1) : f[i + 1] = f[i] + bytes[i + 1] * Weight[i]
                /\ FromBytes(bytes) = f[Len(bytes)]
<1>0. PICK n \in Nat : n = Len(bytes) /\ DOMAIN bytes = 1..n
  BY LenProperties
<1>1. ASSUME NEW i \in 0..(n - 1) PROVE bytes[i + 1] \in Nat /\ bytes[i + 1] * Weight[i] \in Nat
  <2>1. i \in Nat /\ i + 1 \in 1..n
    OBVIOUS
  <2>2. bytes[i + 1] \in Nat /\ Weight[i] \in Nat
    BY <1>0, <2>1, ElementOfSeq, WeightDef
  <2>3. QED
    BY <2>2
<1> DEFINE add  == [i \in Nat |-> IF i \in 0..(n - 1) THEN bytes[i + 1] * Weight[i] ELSE 0]
           step == [i \in Nat |-> [x \in Nat |-> x + add[i]]]
<1>2. add \in [Nat -> Nat] /\ \A i \in 0..(n - 1) : add[i] = bytes[i + 1] * Weight[i]
  BY <1>1
<1> HIDE DEF add
<1>3. step \in [Nat -> [Nat -> Nat]] /\ \A i \in Nat, x \in Nat : step[i][x] = x + add[i]
  BY <1>2
<1> HIDE DEF step
<1>4. PICK f \in [Nat -> Nat] : f[0] = 0 /\ \A i \in Nat : f[i + 1] = step[i][f[i]]
  <2>1. 0 \in Nat
    OBVIOUS
  <2>2. QED
    BY <1>3, <2>1, Recursion, Zenon
<1>5. PICK g : g = [i \in 0..n |-> f[i]]
  OBVIOUS
<1>6. ASSUME NEW i \in 0..(n - 1) PROVE g[i + 1] = g[i] + bytes[i + 1] * Weight[i]
  <2>1. i \in Nat /\ i \in 0..n /\ i + 1 \in 0..n
    OBVIOUS
  <2>2. g[i + 1] = f[i + 1] /\ g[i] = f[i] /\ f[i] \in Nat
    BY <1>5, <2>1
  <2>3. f[i + 1] = f[i] + add[i]
    BY <1>3, <1>4, <2>1
  <2>4. QED
    BY <1>2, <2>2, <2>3
<1>7. g = [i \in 0..n |-> IF i = 0 THEN 0 ELSE g[i - 1] + bytes[i] * Weight[i - 1]]
  <2>1. ASSUME NEW i \in 0..n PROVE g[i] = IF i = 0 THEN 0 ELSE g[i - 1] + bytes[i] * Weight[i - 1]
    <3>1. CASE i = 0
      BY <1>4, <1>5, <3>1
    <3>2. CASE i # 0
      <4>1. PICK k \in 0..(n - 1) : i = k + 1 /\ i - 1 = k
        <5>1. i - 1 \in 0..(n - 1) /\ i = (i - 1) + 1
          BY <3>2
        <5>2. QED
          BY <5>1
      <4>2. g[k + 1] = g[k] + bytes[k + 1] * Weight[k]
        BY <1>6
      <4>3. QED
        BY <3>2, <4>1, <4>2
    <3>3. QED
      BY <3>1, <3>2
  <2>2. QED
    BY <1>5, <2>1
<1>8. PICK h : /\ h = [i \in 0..n |-> IF i = 0 THEN 0 ELSE h[i - 1] + bytes[i] * Weight[i - 1]]
               /\ FromBytes(bytes) = h[n]
  BY <1>0, <1>7, Zenon DEF FromBytes
<1>9. h[0] = 0
  <2>1. 0 \in 0..n
    OBVIOUS
  <2>2. QED
    BY <1>8, <2>1
<1>10. ASSUME NEW i \in 0..(n - 1) PROVE h[i + 1] = h[i] + bytes[i + 1] * Weight[i]
  <2>1. i + 1 \in 0..n /\ i + 1 # 0 /\ (i + 1) - 1 = i
    OBVIOUS
  <2>2. h[i + 1] = IF i + 1 = 0 THEN 0 ELSE h[(i + 1) - 1] + bytes[i + 1] * Weight[(i + 1) - 1]
    BY <1>8, <2>1, Zenon
  <2>3. QED
    BY <2>1, <2>2
<1>11. QED
  BY <1>0, <1>8, <1>9, <1>10

\* The bytes of a number.
LEMMA Bytes ==
  ASSUME NEW w \in Nat, NEW v \in Nat
  PROVE  /\ LittleEndian(w, v) \in Seq(0..(ByteRange - 1))
         /\ Len(LittleEndian(w, v)) = w
         /\ \A i \in 1..w : LittleEndian(w, v)[i] = (v \div Weight[i - 1]) % ByteRange
<1>0. ByteRange \in Nat \ {0}
  BY PayloadCodecAssumption
<1>1. ASSUME NEW i \in 1..w PROVE (v \div Weight[i - 1]) % ByteRange \in 0..(ByteRange - 1)
  <2>1. PICK m \in Nat \ {0} : m = Weight[i - 1]
    <3>1. i - 1 \in Nat
      OBVIOUS
    <3>2. QED
      BY <3>1, WeightDef
  <2>2. v \div m \in Nat
    BY DivMod
  <2>3. QED
    BY <1>0, <2>1, <2>2, DivMod
<1>2. LittleEndian(w, v) \in [1..w -> 0..(ByteRange - 1)]
  BY <1>1 DEF LittleEndian
<1>3. LittleEndian(w, v) \in Seq(0..(ByteRange - 1))
  BY <1>2, SeqDef
<1>4. Len(LittleEndian(w, v)) = w
  <2>1. DOMAIN LittleEndian(w, v) = 1..w
    BY <1>2
  <2>2. QED
    BY <1>3, <2>1, LenProperties
<1>5. QED
  BY <1>3, <1>4 DEF LittleEndian

\* A number that has no more bytes than were encoded is what those bytes decode to.
LEMMA NumberReturns ==
  ASSUME NEW w \in Nat, NEW v \in 0..(Weight[w] - 1)
  PROVE  FromBytes(LittleEndian(w, v)) = v
<1> DEFINE bytes == LittleEndian(w, v)
<1>0. ByteRange \in Nat \ {0} /\ Weight[w] \in Nat \ {0} /\ v \in Nat
  BY PayloadCodecAssumption, WeightDef
<1>1. bytes \in Seq(Nat) /\ Len(bytes) = w
  <2>1. 0..(ByteRange - 1) \subseteq Nat
    BY <1>0
  <2>2. bytes \in Seq(0..(ByteRange - 1)) /\ Len(bytes) = w
    BY <1>0, Bytes
  <2> HIDE DEF bytes
  <2>3. QED
    BY <2>1, <2>2, SeqMonotonic
<1>2. \A i \in 1..w : bytes[i] = (v \div Weight[i - 1]) % ByteRange
  BY <1>0, Bytes
<1> HIDE DEF bytes
<1>3. PICK f : /\ f[0] = 0
               /\ \A i \in 0..(w - 1) : f[i + 1] = f[i] + bytes[i + 1] * Weight[i]
               /\ FromBytes(bytes) = f[w]
  BY <1>1, FromBytesDef
<1> DEFINE S == {i \in Nat : i <= w => f[i] = v % Weight[i]}
<1>4. 0 \in S
  BY <1>0, <1>3, WeightDef
<1>5. ASSUME NEW i \in Nat, i \in S PROVE i + 1 \in S
  <2>0. i + 1 \in Nat
    OBVIOUS
  <2> SUFFICES ASSUME i + 1 <= w PROVE f[i + 1] = v % Weight[i + 1]
    BY <2>0, Zenon
  <2>1. i \in 0..(w - 1) /\ i + 1 \in 1..w /\ (i + 1) - 1 = i /\ i <= w
    OBVIOUS
  <2>2. f[i] = v % Weight[i]
    BY <1>5, <2>1
  <2>3. bytes[i + 1] = (v \div Weight[i]) % ByteRange
    BY <1>2, <2>1
  <2>4. f[i + 1] = f[i] + bytes[i + 1] * Weight[i]
    BY <1>3, <2>1
  <2>5. PICK m \in Nat \ {0} : m = Weight[i]
    BY WeightDef
  <2>6. Weight[i + 1] = ByteRange * m
    BY <2>5, WeightDef
  <2>7. v % (ByteRange * m) = (v % m) + ((v \div m) % ByteRange) * m
    BY <1>0, NextDigit
  <2>8. QED
    BY <2>2, <2>3, <2>4, <2>5, <2>6, <2>7, Zenon
<1> HIDE DEF S
<1>6. Nat \subseteq S
  BY <1>4, <1>5, Induction
<1>7. f[w] = v % Weight[w]
  BY <1>6 DEF S
<1>8. QED
  BY <1>0, <1>3, <1>7, Below DEF bytes
-----------------------------------------------------------------------------
(***************************************************************************)
(* Values and their encodings.                                               *)
(***************************************************************************)

Byte == 0..(ByteRange - 1)

\* What a string is packed in: in Python its length is masked, in C++ it is cut to it.
Masked(s) == <<(Len(s) + 1) % ByteRange>> \o (s \o <<0>>)

CutOff(s) == <<strLength(s)>> \o SubSeq(Append(s, 0), 1, strLength(s))

\* The bytes a value is packed in.
Encoding(value) ==
  CASE value.kind = "int"  -> LittleEndian(value.w, value.v)
    [] value.kind = "str"  -> IF packer = "py" THEN Masked(value.s) ELSE CutOff(value.s)
    [] value.kind = "data" -> value.s

\* A byte has two values at least.
LEMMA ByteFacts == ByteRange \in Nat /\ ByteRange >= 2 /\ 0 \in Byte /\ MaxDataLen \in Nat
BY PayloadCodecAssumption DEF Byte

\* The three kinds of values.
LEMMA ValueKinds ==
  ASSUME NEW value \in Values
  PROVE  \/ \E w \in Nat \ {0} : \E v \in 0..(Weight[w] - 1) : value = Num(w, v)
         \/ \E s \in Seq(Byte) : value = Str(s)
         \/ \E s \in Seq(Byte) : value = Data(s)
<1>1. CASE \E w \in Widths, v \in Ints : value = Num(w, v % Weight[w])
  <2>1. PICK w \in Widths, v \in Ints : value = Num(w, v % Weight[w])
    BY <1>1
  <2>2. w \in Nat \ {0} /\ v \in Nat
    BY PayloadCodecAssumption
  <2>3. Weight[w] \in Nat \ {0}
    BY <2>2, WeightDef
  <2>4. v % Weight[w] \in 0..(Weight[w] - 1)
    BY <2>2, <2>3, DivMod
  <2>5. QED
    BY <2>1, <2>2, <2>4
<1>2. CASE \E s \in Strings : value = Str(s) \/ value = Data(s)
  <2>1. PICK s \in Strings : value = Str(s) \/ value = Data(s)
    BY <1>2
  <2>2. s \in Seq(Byte)
    BY PayloadCodecAssumption DEF Byte
  <2>3. QED
    BY <2>1, <2>2
<1>3. QED
  BY <1>1, <1>2 DEF Values

\* Some numbers have a smallest one, and no more than one.
LEMMA Smallest ==
  ASSUME NEW S, S \subseteq Nat, S # {}
  PROVE  \E x \in S : \A y \in S : x <= y
<1>1. PICK x \in S : \A y \in S : ~(<<y, x>> \in OpToRel(<, Nat))
  BY NatLessThanWellFounded, WFMin
<1>2. ASSUME NEW y \in S PROVE x <= y
  <2>1. <<y, x>> \in Nat \X Nat /\ <<y, x>>[1] = y /\ <<y, x>>[2] = x
    OBVIOUS
  <2>2. ~(y < x)
    BY <1>1, <2>1 DEF OpToRel
  <2>3. QED
    BY <2>2
<1>3. QED
  BY <1>2

\* What the operator Min of FiniteSetsExt chooses, given a smallest element.
LEMMA OneSmallest ==
  ASSUME NEW S, S \subseteq Nat, NEW m \in S, \A y \in S : m <= y
  PROVE  Min(S) = m
<1>1. Min(S) \in S /\ \A y \in S : Min(S) <= y
  BY Zenon DEF Min
<1>2. PICK x \in S : x = Min(S) /\ x <= m /\ m <= x
  BY <1>1
<1>3. QED
  BY <1>2

\* The smaller of two numbers.
LEMMA MinOfTwo ==
  ASSUME NEW a \in Int, NEW b \in Int
  PROVE  Min({a, b}) = IF a <= b THEN a ELSE b
<1>1. \E x \in {a, b} : \A y \in {a, b} : x <= y
  OBVIOUS
<1>2. Min({a, b}) \in {a, b} /\ \A y \in {a, b} : Min({a, b}) <= y
  BY <1>1, Zenon DEF Min
<1>3. QED
  BY <1>2

\* strLength is what a byte holds of the length of a string with its null, and never more
\* than there is.
LEMMA StrLength ==
  ASSUME NEW s \in Seq(Byte)
  PROVE  /\ strLength(s) \in Byte
         /\ strLength(s) <= Len(s) + 1
         /\ Len(s) + 1 < ByteRange => strLength(s) = Len(s) + 1
<1>1. PICK n \in Nat : n = Len(s)
  BY LenProperties
<1>2. strLength(s) = ((IF n <= ByteRange THEN n ELSE ByteRange) + 1) % ByteRange
  <2>1. n \in Int /\ ByteRange \in Int
    BY ByteFacts
  <2>2. Min({n, ByteRange}) = IF n <= ByteRange THEN n ELSE ByteRange
    BY <2>1, MinOfTwo
  <2>3. QED
    BY <1>1, <2>2, Zenon DEF strLength
<1>3. ASSUME NEW m \in Nat, m + 1 < ByteRange PROVE (m + 1) % ByteRange = m + 1
  <2>1. m + 1 \in 0..(ByteRange - 1) /\ ByteRange \in Nat \ {0}
    BY <1>3, ByteFacts
  <2>2. QED
    BY <2>1, Below
<1>4. (ByteRange - 1 + 1) % ByteRange = 0 /\ (ByteRange + 1) % ByteRange = 1
  BY ByteFacts
<1>5. CASE n + 1 < ByteRange
  <2>1. n <= ByteRange
    BY <1>5, ByteFacts
  <2>2. strLength(s) = n + 1
    BY <1>2, <1>3, <1>5, <2>1
  <2>3. QED
    BY <1>1, <1>5, <2>2, ByteFacts DEF Byte
<1>6. CASE n + 1 = ByteRange
  <2>1. strLength(s) = 0
    <3>1. n = ByteRange - 1 /\ n <= ByteRange
      BY <1>6, ByteFacts
    <3>2. QED
      BY <1>2, <1>4, <3>1
  <2>2. QED
    BY <1>1, <1>6, <2>1, ByteFacts DEF Byte
<1>7. CASE n + 1 > ByteRange
  <2>1. strLength(s) = 1
    BY <1>2, <1>4, <1>7, ByteFacts
  <2>2. QED
    BY <1>1, <1>7, <2>1, ByteFacts DEF Byte
<1>8. QED
  BY <1>5, <1>6, <1>7, ByteFacts

\* A string with its null, and its length in front of it.
LEMMA StringEncoding ==
  ASSUME NEW s \in Seq(Byte), Len(s) + 1 < ByteRange
  PROVE  LET e == <<Len(s) + 1>> \o (s \o <<0>>)
         IN  /\ s \o <<0>> \in Seq(Byte)
             /\ e \in Seq(Byte)
             /\ Len(e) = Len(s) + 2
             /\ e[1] = Len(s) + 1
             /\ \A i \in 1..Len(s) : e[i + 1] = s[i]
             /\ e[Len(s) + 2] = 0
<1> DEFINE null == s \o <<0>>
           head == <<Len(s) + 1>>
           e    == head \o null
<1>1. PICK n \in Nat : n = Len(s)
  BY LenProperties
<1>2. s \in Seq(Byte)
  OBVIOUS
<1>3. <<0>> \in Seq(Byte) /\ Len(<<0>>) = 1 /\ <<0>>[1] = 0
  BY ByteFacts
<1>4. head \in Seq(Byte) /\ Len(head) = 1 /\ head[1] = n + 1
  <2>1. n + 1 \in Byte
    BY <1>1, ByteFacts DEF Byte
  <2>2. QED
    BY <1>1, <2>1
<1>5. /\ null \in Seq(Byte)
      /\ Len(null) = n + 1
      /\ \A i \in 1..(n + 1) : null[i] = IF i <= n THEN s[i] ELSE <<0>>[i - n]
  BY <1>1, <1>2, <1>3, ConcatProperties
<1> HIDE DEF null, head
<1>6. /\ e \in Seq(Byte)
      /\ Len(e) = n + 2
      /\ \A i \in 1..(n + 2) : e[i] = IF i <= 1 THEN head[i] ELSE null[i - 1]
  <2>0. /\ e \in Seq(Byte)
        /\ Len(e) = Len(head) + Len(null)
        /\ \A i \in 1..(Len(head) + Len(null)) :
             e[i] = IF i <= Len(head) THEN head[i] ELSE null[i - Len(head)]
    <3>1. head \in Seq(Byte) /\ null \in Seq(Byte)
      BY <1>4, <1>5
    <3>2. QED
      BY <3>1, ConcatProperties
  <2>1. /\ e \in Seq(Byte)
        /\ Len(e) = 1 + (n + 1)
        /\ \A i \in 1..(1 + (n + 1)) : e[i] = IF i <= 1 THEN head[i] ELSE null[i - 1]
    <3> HIDE DEF e
    <3>1. QED
      BY <1>4, <1>5, <2>0
  <2>2. 1 + (n + 1) = n + 2
    OBVIOUS
  <2> HIDE DEF e
  <2>3. QED
    BY <2>1, <2>2
<1> HIDE DEF e
<1>7. e[1] = n + 1
  BY <1>4, <1>6
<1>8. ASSUME NEW i \in 1..n PROVE e[i + 1] = s[i]
  <2>1. i + 1 \in 1..(n + 2) /\ ~(i + 1 <= 1) /\ (i + 1) - 1 = i /\ i \in 1..(n + 1) /\ i <= n
    OBVIOUS
  <2>2. e[i + 1] = null[i] /\ null[i] = s[i]
    BY <1>5, <1>6, <2>1
  <2>3. QED
    BY <2>2
<1>9. e[n + 2] = 0
  <2>1. n + 2 \in 1..(n + 2) /\ ~(n + 2 <= 1) /\ (n + 2) - 1 = n + 1 /\ n + 1 \in 1..(n + 1)
        /\ ~(n + 1 <= n) /\ (n + 1) - n = 1
    OBVIOUS
  <2>2. e[n + 2] = null[n + 1] /\ null[n + 1] = <<0>>[1]
    BY <1>5, <1>6, <2>1
  <2>3. QED
    BY <1>3, <2>2
<1>10. QED
  BY <1>1, <1>5, <1>6, <1>7, <1>8, <1>9 DEF e, null, head
-----------------------------------------------------------------------------
(***************************************************************************)
(* Packing and unpacking one value.                                          *)
(***************************************************************************)

\* Where Packer and Unpacker are between two calls.
Typed ==
  /\ packer \in {"cpp", "py", "packet"} /\ unpacker \in {"cpp", "py"}
  /\ data \in Seq(Byte)
  /\ idx \in Nat
  /\ packer # "py" => Len(data) <= MaxDataLen
  /\ unpacker = "cpp" => idx <= Len(data)

\* p only adds to the data, within the packet's size; and if it is a success, what it adds is
\* the value's encoding.
Appends(p, value) ==
  /\ p.ok \in BOOLEAN
  /\ \E ext \in Seq(Byte) : /\ p.data = data \o ext
                            /\ packer # "py" => Len(data) + Len(ext) <= MaxDataLen
                            /\ p.ok => ext = Encoding(value)

\* A call that fails before it stored anything.
LEMMA AppendsNothing ==
  ASSUME Typed, NEW value
  PROVE  Appends(Packed(data, FALSE), value)
<1>1. /\ <<>> \in Seq(Byte) /\ Len(<<>>) = 0
      /\ data \o <<>> = data
      /\ Len(data) \in Nat
  BY EmptySeq, ConcatEmptySeq, LenProperties DEF Typed
<1>2. packer # "py" => Len(data) + Len(<<>>) <= MaxDataLen
  BY <1>1 DEF Typed
<1> DEFINE p == Packed(data, FALSE)
<1>3. p.ok = FALSE /\ p.data = data
  BY DEF Packed
<1> HIDE DEF p
<1>4. Appends(p, value)
  BY <1>1, <1>2, <1>3, Zenon DEF Appends
<1>5. QED
  BY <1>4 DEF p

\* A call that stores these bytes.
LEMMA AppendsThese ==
  ASSUME Typed, NEW value, NEW ext \in Seq(Byte), NEW ok \in BOOLEAN,
         packer # "py" => Len(data) + Len(ext) <= MaxDataLen,
         ok => ext = Encoding(value)
  PROVE  Appends(Packed(data \o ext, ok), value)
<1> DEFINE p == Packed(data \o ext, ok)
<1>1. p.data = data \o ext
  BY DEF Packed
<1>2. p.ok = ok
  BY Zenon DEF Packed
<1> HIDE DEF p
<1>3. Appends(p, value)
  BY <1>1, <1>2, Zenon DEF Appends
<1>4. QED
  BY <1>3 DEF p

\* Integers, in each of the three ways.
LEMMA PackInteger ==
  ASSUME Typed, NEW w \in Nat \ {0}, NEW v \in Nat
  PROVE  /\ packer = "cpp" => Appends(packInt(w, v), Num(w, v))
         /\ packer = "packet" => Appends(appendInt(w, v), Num(w, v))
         /\ packer = "py" => Appends(pack_int(w, v), Num(w, v))
<1> DEFINE e == LittleEndian(w, v)
<1>1. e \in Seq(Byte) /\ Len(e) = w
  BY Bytes DEF Byte
<1>2. Encoding(Num(w, v)) = e
  BY DEF Encoding, Num
<1>3. TRUE \in BOOLEAN /\ Len(data) \in Nat /\ MaxDataLen \in Nat
  BY LenProperties, ByteFacts DEF Typed
<1>4. packInt(w, v) = IF MaxDataLen - Len(data) < w THEN Packed(data, FALSE) ELSE Packed(data \o e, TRUE)
  BY DEF packInt
<1>5. appendInt(w, v) = IF Len(data) + Len(e) > MaxDataLen THEN Packed(data, FALSE) ELSE Packed(data \o e, TRUE)
  BY DEF appendInt, appendData
<1>6. pack_int(w, v) = Packed(data \o e, TRUE)
  BY DEF pack_int
<1> HIDE DEF e
<1>7. ASSUME packer # "py" => Len(data) + Len(e) <= MaxDataLen
      PROVE  Appends(Packed(data \o e, TRUE), Num(w, v))
  BY <1>1, <1>2, <1>7, AppendsThese
<1>8. Appends(Packed(data, FALSE), Num(w, v))
  BY AppendsNothing
<1>9. packer = "cpp" => Appends(packInt(w, v), Num(w, v))
  <2>1. CASE MaxDataLen - Len(data) < w
    BY <1>4, <1>8, <2>1
  <2>2. CASE ~(MaxDataLen - Len(data) < w)
    <3>1. Len(data) + Len(e) <= MaxDataLen
      BY <1>1, <1>3, <2>2
    <3>2. QED
      BY <1>4, <1>7, <2>2, <3>1
  <2>3. QED
    BY <2>1, <2>2
<1>10. packer = "packet" => Appends(appendInt(w, v), Num(w, v))
  <2>1. CASE Len(data) + Len(e) > MaxDataLen
    BY <1>5, <1>8, <2>1
  <2>2. CASE ~(Len(data) + Len(e) > MaxDataLen)
    <3>1. Len(data) + Len(e) <= MaxDataLen
      BY <1>1, <1>3, <2>2
    <3>2. QED
      BY <1>5, <1>7, <2>2, <3>1
  <2>3. QED
    BY <2>1, <2>2
<1>11. packer = "py" => Appends(pack_int(w, v), Num(w, v))
  BY <1>6, <1>7
<1>12. QED
  BY <1>9, <1>10, <1>11

\* Arbitrary data.
LEMMA PackData ==
  ASSUME Typed, NEW s \in Seq(Byte)
  PROVE  /\ packer = "packet" => Appends(appendData(s), Data(s))
         /\ packer = "py" => Appends(pack_data(s), Data(s))
<1>1. Encoding(Data(s)) = s
  BY DEF Encoding, Data
<1>2. Len(data) \in Nat /\ MaxDataLen \in Nat /\ Len(s) \in Nat
  BY LenProperties, ByteFacts DEF Typed
<1>3. ASSUME packer # "py" => Len(data) + Len(s) <= MaxDataLen
      PROVE  Appends(Packed(data \o s, TRUE), Data(s))
  BY <1>1, <1>3, AppendsThese
<1>4. Appends(Packed(data, FALSE), Data(s))
  BY AppendsNothing
<1>5. packer = "packet" => Appends(appendData(s), Data(s))
  <2>1. CASE Len(data) + Len(s) > MaxDataLen
    BY <1>4, <2>1 DEF appendData
  <2>2. CASE ~(Len(data) + Len(s) > MaxDataLen)
    <3>1. Len(data) + Len(s) <= MaxDataLen
      BY <1>2, <2>2
    <3>2. QED
      BY <1>3, <2>2, <3>1 DEF appendData
  <2>3. QED
    BY <2>1, <2>2
<1>6. packer = "py" => Appends(pack_data(s), Data(s))
  BY <1>3 DEF pack_data
<1>7. QED
  BY <1>5, <1>6

\* What packStr and appendStr add for a string: its length byte, and as much of the string and
\* its null as that says; which is what Python packs, if the byte counts them.
LEMMA StringBytes ==
  ASSUME NEW s \in Seq(Byte)
  PROVE  LET l   == strLength(s)
             cut == SubSeq(Append(s, 0), 1, l)
         IN  /\ <<l>> \in Seq(Byte) /\ Len(<<l>>) = 1
             /\ cut \in Seq(Byte) /\ Len(cut) = l
             /\ CutOff(s) = <<l>> \o cut
             /\ CutOff(s) \in Seq(Byte) /\ Len(CutOff(s)) = 1 + l /\ CutOff(s)[1] = l
             /\ Len(s) + 1 < ByteRange => CutOff(s) = <<Len(s) + 1>> \o (s \o <<0>>)
<1> DEFINE l    == strLength(s)
           null == Append(s, 0)
           cut  == SubSeq(null, 1, l)
           both == <<l>> \o cut
<1>1. PICK n \in Nat : n = Len(s)
  BY LenProperties
<1>2. l \in Byte /\ l \in Nat /\ l <= n + 1 /\ (n + 1 < ByteRange => l = n + 1)
  BY <1>1, StrLength DEF Byte
<1>3. CutOff(s) = both
  BY DEF CutOff
<1>4. null \in Seq(Byte) /\ Len(null) = n + 1 /\ null = s \o <<0>>
  BY <1>1, ByteFacts, AppendProperties, AppendIsConcat
<1>5. <<l>> \in Seq(Byte) /\ Len(<<l>>) = 1 /\ <<l>>[1] = l
  BY <1>2
<1> HIDE DEF l, null
<1>6. cut \in Seq(Byte) /\ Len(cut) = l
  <2>1. \A i \in 1..l : null[i] \in Byte
    <3>1. ASSUME NEW i \in 1..l PROVE null[i] \in Byte
      <4>1. i \in 1..Len(null)
        BY <1>2, <1>4
      <4>2. QED
        BY <1>4, <4>1, ElementOfSeq
    <3>2. QED
      BY <3>1
  <2>2. cut \in Seq(Byte) /\ Len(cut) = IF 1 <= l THEN l - 1 + 1 ELSE 0
    BY <1>2, <2>1, SubSeqProperties
  <2> HIDE DEF cut
  <2>3. QED
    BY <1>2, <2>2
<1>7. both \in Seq(Byte) /\ Len(both) = 1 + l /\ both[1] = l
  <2> HIDE DEF cut
  <2>1. /\ both \in Seq(Byte) /\ Len(both) = Len(<<l>>) + Len(cut)
        /\ \A i \in 1..(Len(<<l>>) + Len(cut)) :
             both[i] = IF i <= Len(<<l>>) THEN <<l>>[i] ELSE cut[i - Len(<<l>>)]
    BY <1>5, <1>6, ConcatProperties
  <2>2. 1 \in 1..(1 + l)
    BY <1>2
  <2> HIDE DEF both
  <2>3. QED
    BY <1>5, <1>6, <2>1, <2>2
<1>8. ASSUME n + 1 < ByteRange PROVE both = <<Len(s) + 1>> \o (s \o <<0>>)
  <2>1. l = n + 1
    BY <1>2, <1>8
  <2>2. cut = null
    BY <1>4, <2>1, SubSeqFull
  <2> HIDE DEF cut
  <2>3. QED
    BY <1>1, <1>4, <2>1, <2>2, Zenon
<1>9. QED
  BY <1>1, <1>3, <1>5, <1>6, <1>7, <1>8 DEF l, null, cut

\* Strings, in each of the three ways: the length byte stays if the string does not fit.
LEMMA PackString ==
  ASSUME Typed, NEW s \in Seq(Byte)
  PROVE  /\ packer = "cpp" => Appends(packStr(s), Str(s))
         /\ packer = "packet" => Appends(appendStr(s), Str(s))
         /\ packer = "py" => Appends(pack_str(s), Str(s))
<1> DEFINE l    == strLength(s)
           cut  == SubSeq(Append(s, 0), 1, l)
           both == <<l>> \o cut
<1>1. /\ <<l>> \in Seq(Byte) /\ Len(<<l>>) = 1
      /\ cut \in Seq(Byte) /\ Len(cut) = l
      /\ both = CutOff(s)
  BY StringBytes
<1>2. Len(data) \in Nat /\ MaxDataLen \in Nat /\ l \in Nat /\ data \in Seq(Byte)
  BY StrLength, LenProperties, ByteFacts DEF Typed, Byte
<1>3. Encoding(Str(s)) = IF packer = "py" THEN Masked(s) ELSE both
  BY <1>1, Zenon DEF Encoding, Str
<1>4. both \in Seq(Byte) /\ Len(both) = 1 + l
  <2>1. both \in Seq(Byte) /\ Len(both) = Len(<<l>>) + Len(cut)
    <3> HIDE DEF cut, l
    <3>1. QED
      BY <1>1, ConcatProperties
  <2> HIDE DEF both, cut, l
  <2>2. QED
    BY <1>1, <2>1
<1>5. packer = "cpp" => Appends(packStr(s), Str(s))
  <2> SUFFICES ASSUME packer = "cpp" PROVE Appends(packStr(s), Str(s))
    OBVIOUS
  <2>1. packStr(s) = IF MaxDataLen = Len(data) THEN Packed(data, FALSE)
                     ELSE IF MaxDataLen - (Len(data) + 1) < l THEN Packed(Append(data, l), FALSE)
                     ELSE Packed(Append(data, l) \o cut, TRUE)
    BY DEF packStr
  <2>2. Append(data, l) = data \o <<l>> /\ Append(data, l) \o cut = data \o both
    <3>1. l \in Byte
      BY StrLength
    <3> HIDE DEF l, cut
    <3>2. Append(data, l) = data \o <<l>>
      BY <1>2, <3>1, AppendIsConcat
    <3>3. (data \o <<l>>) \o cut = data \o (<<l>> \o cut)
      BY <1>1, <1>2, ConcatAssociative
    <3>4. QED
      BY <3>2, <3>3
  <2> HIDE DEF l, cut, both
  <2>3. Len(data) <= MaxDataLen
    BY DEF Typed
  <2>4. CASE MaxDataLen = Len(data)
    BY <2>1, <2>4, AppendsNothing
  <2>5. CASE MaxDataLen # Len(data) /\ MaxDataLen - (Len(data) + 1) < l
    <3>1. Len(data) + Len(<<l>>) <= MaxDataLen
      BY <1>1, <1>2, <2>3, <2>5
    <3>2. Appends(Packed(data \o <<l>>, FALSE), Str(s))
      <4>1. FALSE \in BOOLEAN
        OBVIOUS
      <4>2. QED
        BY <1>1, <3>1, <4>1, AppendsThese, Zenon
    <3>3. QED
      BY <2>1, <2>2, <2>5, <3>2
  <2>6. CASE MaxDataLen # Len(data) /\ ~(MaxDataLen - (Len(data) + 1) < l)
    <3>1. Len(data) + Len(both) <= MaxDataLen
      BY <1>2, <1>4, <2>3, <2>6
    <3>2. Appends(Packed(data \o both, TRUE), Str(s))
      <4>1. TRUE \in BOOLEAN
        OBVIOUS
      <4>2. QED
        BY <1>3, <1>4, <3>1, <4>1, AppendsThese, Zenon
    <3>3. QED
      BY <2>1, <2>2, <2>6, <3>2
  <2>7. QED
    BY <2>4, <2>5, <2>6
<1>6. packer = "packet" => Appends(appendStr(s), Str(s))
  <2> SUFFICES ASSUME packer = "packet" PROVE Appends(appendStr(s), Str(s))
    OBVIOUS
  <2>1. appendStr(s) = IF Len(data) + Len(both) > MaxDataLen THEN Packed(data, FALSE)
                       ELSE Packed(data \o both, TRUE)
    BY DEF appendStr, appendData
  <2> HIDE DEF l, cut, both
  <2>2. CASE Len(data) + Len(both) > MaxDataLen
    BY <2>1, <2>2, AppendsNothing
  <2>3. CASE ~(Len(data) + Len(both) > MaxDataLen)
    <3>1. Len(data) + Len(both) <= MaxDataLen
      BY <1>2, <1>4, <2>3
    <3>2. Appends(Packed(data \o both, TRUE), Str(s))
      <4>1. TRUE \in BOOLEAN
        OBVIOUS
      <4>2. QED
        BY <1>3, <1>4, <3>1, <4>1, AppendsThese, Zenon
    <3>3. QED
      BY <2>1, <2>3, <3>2
  <2>4. QED
    BY <2>2, <2>3
<1>7. packer = "py" => Appends(pack_str(s), Str(s))
  <2> SUFFICES ASSUME packer = "py" PROVE Appends(pack_str(s), Str(s))
    OBVIOUS
  <2> DEFINE m    == (Len(s) + 1) % ByteRange
             null == s \o <<0>>
             ext  == <<m>> \o null
  <2>1. PICK n \in Nat : n = Len(s)
    BY LenProperties
  <2>2. <<m>> \in Seq(Byte)
    <3>1. n + 1 \in Nat /\ ByteRange \in Nat \ {0}
      BY ByteFacts
    <3>2. m \in Byte
      BY <2>1, <3>1, DivMod DEF Byte
    <3>3. QED
      BY <3>2
  <2>3. s \in Seq(Byte) /\ <<0>> \in Seq(Byte)
    BY ByteFacts
  <2>4. null \in Seq(Byte)
    BY <2>3, ConcatProperties
  <2>5. pack_str(s) = Packed(((data \o <<m>>) \o s) \o <<0>>, TRUE)
    BY DEF pack_str
  <2>6. Encoding(Str(s)) = ext
    BY <1>3 DEF Masked
  <2> HIDE DEF m
  <2>7. ext \in Seq(Byte)
    <3> HIDE DEF null
    <3>1. QED
      BY <2>2, <2>4, ConcatProperties
  <2>8. ((data \o <<m>>) \o s) \o <<0>> = data \o ext
    <3>1. data \o <<m>> \in Seq(Byte)
      BY <1>2, <2>2, ConcatProperties
    <3>2. ((data \o <<m>>) \o s) \o <<0>> = (data \o <<m>>) \o null
      BY <2>3, <3>1, ConcatAssociative
    <3> HIDE DEF null
    <3>3. (data \o <<m>>) \o null = data \o (<<m>> \o null)
      BY <1>2, <2>2, <2>4, ConcatAssociative
    <3>4. QED
      BY <3>2, <3>3
  <2> HIDE DEF ext, null
  <2>9. Appends(Packed(data \o ext, TRUE), Str(s))
    <3>1. TRUE \in BOOLEAN /\ ~(packer # "py")
      OBVIOUS
    <3>2. QED
      BY <2>6, <2>7, <3>1, AppendsThese, Zenon
  <2>10. QED
    BY <2>5, <2>8, <2>9, Zenon
<1>8. QED
  BY <1>5, <1>6, <1>7

\* Whatever is packed, in whichever way.
LEMMA PackAppends ==
  ASSUME Typed, NEW value \in Values, NEW p \in Packing(value)
  PROVE  Appends(p, value)
<1>1. packer \in {"cpp", "py", "packet"}
  BY DEF Typed
<1>2. ASSUME NEW w \in Nat \ {0}, NEW v \in 0..(Weight[w] - 1), value = Num(w, v) PROVE Appends(p, value)
  <2>1. value.kind = "int" /\ value.w = w /\ value.v = v
    BY <1>2 DEF Num
  <2>2. Packing(value) = {[cpp |-> packInt(w, v), packet |-> appendInt(w, v), py |-> pack_int(w, v)][packer]}
    BY <2>1 DEF Packing
  <2>3. v \in Nat
    BY <1>2, WeightDef
  <2>4. QED
    BY <1>1, <1>2, <2>2, <2>3, PackInteger
<1>3. ASSUME NEW s \in Seq(Byte), value = Str(s) PROVE Appends(p, value)
  <2>1. value.kind = "str" /\ value.s = s
    BY <1>3 DEF Str
  <2>2. p = [cpp |-> packStr(s), packet |-> appendStr(s), py |-> pack_str(s)][packer]
    BY <2>1 DEF Packing
  <2>3. QED
    BY <1>1, <1>3, <2>2, PackString
<1>4. ASSUME NEW s \in Seq(Byte), value = Data(s) PROVE Appends(p, value)
  <2>1. value.kind = "data" /\ value.s = s
    BY <1>4 DEF Data
  <2>2. packer # "cpp" /\ Packing(value) = {[packet |-> appendData(s), py |-> pack_data(s)][packer]}
    BY <2>1 DEF Packing
  <2>3. /\ packer = "packet" => Appends(appendData(s), value)
        /\ packer = "py" => Appends(pack_data(s), value)
    BY <1>4, PackData, Zenon
  <2>4. packer = "packet" \/ packer = "py"
    BY <1>1, <2>2
  <2>5. QED
    BY <2>2, <2>3, <2>4
<1>5. QED
  BY <1>2, <1>3, <1>4, ValueKinds

\* What is left to unpack.
LEMMA RestFacts ==
  ASSUME Typed
  PROVE  /\ Rest \in Seq(Byte)
         /\ Len(Rest) = IF idx <= Len(data) THEN Len(data) - idx ELSE 0
         /\ \A i \in 1..Len(Rest) : Rest[i] = data[idx + i]
<1>1. PICK n \in Nat : n = Len(data)
  BY LenProperties DEF Typed
<1>2. idx \in Nat /\ data \in Seq(Byte)
  BY DEF Typed
<1>3. \A i \in (idx + 1)..n : data[i] \in Byte
  <2>1. ASSUME NEW i \in (idx + 1)..n PROVE data[i] \in Byte
    <3>1. i \in 1..Len(data)
      BY <1>1, <1>2
    <3>2. QED
      BY <1>2, <3>1, ElementOfSeq
  <2>2. QED
    BY <2>1
<1>4. /\ SubSeq(data, idx + 1, n) \in Seq(Byte)
      /\ Len(SubSeq(data, idx + 1, n)) = IF idx + 1 <= n THEN n - (idx + 1) + 1 ELSE 0
      /\ \A i \in 1..(n - (idx + 1) + 1) : SubSeq(data, idx + 1, n)[i] = data[(idx + 1) + i - 1]
  <2>1. idx + 1 \in Int /\ n \in Int
    BY <1>2
  <2>2. QED
    BY <1>3, <2>1, SubSeqProperties
<1>5. Rest = SubSeq(data, idx + 1, n)
  BY <1>1 DEF Rest
<1>6. Rest \in Seq(Byte) /\ Len(Rest) = IF idx <= n THEN n - idx ELSE 0
  BY <1>2, <1>4, <1>5
<1>7. ASSUME NEW i \in 1..Len(Rest) PROVE Rest[i] = data[idx + i]
  <2>1. i \in 1..(n - (idx + 1) + 1) /\ (idx + 1) + i - 1 = idx + i
    BY <1>2, <1>6
  <2>2. QED
    BY <1>4, <1>5, <2>1
<1>8. QED
  BY <1>1, <1>6, <1>7

\* Unpacking uses a natural number of bytes; in C++, none but those there are.
LEMMA UnpackUses ==
  ASSUME Typed, NEW value \in Values
  PROVE  LET u == Unpacking(value)
         IN  u.used \in Nat /\ (unpacker = "cpp" => idx + u.used <= Len(data))
<1> DEFINE u == Unpacking(value)
<1>1. /\ Rest \in Seq(Byte) /\ Len(Rest) \in Nat
      /\ Len(Rest) = IF idx <= Len(data) THEN Len(data) - idx ELSE 0
      /\ Len(data) \in Nat /\ idx \in Nat
      /\ unpacker \in {"cpp", "py"}
      /\ unpacker = "cpp" => idx <= Len(data)
  BY RestFacts, LenProperties DEF Typed
<1>2. Rest # <<>> => /\ Head(Rest) \in Nat
                     /\ Len(Tail(Rest)) = Len(Rest) - 1
                     /\ Len(Rest) > 0
  <2> SUFFICES ASSUME Rest # <<>>
               PROVE  Head(Rest) \in Nat /\ Len(Tail(Rest)) = Len(Rest) - 1 /\ Len(Rest) > 0
    OBVIOUS
  <2>1. Head(Rest) \in Byte /\ Len(Tail(Rest)) = Len(Rest) - 1
    BY <1>1, HeadTailProperties
  <2>2. Len(Rest) \in Nat \ {0}
    BY <1>1, EmptySeq
  <2>3. QED
    BY <2>1, <2>2 DEF Byte
<1>3. SUFFICES u.used \in Nat /\ (unpacker = "cpp" => u.used <= Len(Rest))
  BY <1>1
<1>4. \A val, n : Unpacked(val, n).used = n
  BY DEF Unpacked
<1>5. ASSUME NEW w \in Nat, value.kind = "int", value.w = w
      PROVE  u.used \in Nat /\ (unpacker = "cpp" => u.used <= Len(Rest))
  <2>1. CASE unpacker = "cpp"
    <3>1. u = unpackInt(w)
      BY <1>5, <2>1 DEF Unpacking
    <3>2. u.used = IF Len(Rest) < w THEN 0 ELSE w
      BY <1>4, <3>1, Zenon DEF unpackInt
    <3> HIDE DEF u
    <3>3. QED
      BY <1>1, <3>2
  <2>2. CASE unpacker = "py"
    <3>1. u = unpack_int(w)
      BY <1>5, <2>2 DEF Unpacking
    <3>2. u.used \in {0, w}
      BY <1>4, <3>1 DEF unpack_int
    <3> HIDE DEF u
    <3>3. QED
      BY <2>2, <3>2
  <2>3. QED
    BY <1>1, <2>1, <2>2
<1>6. ASSUME value.kind = "str"
      PROVE  u.used \in Nat /\ (unpacker = "cpp" => u.used <= Len(Rest))
  <2>1. CASE unpacker = "cpp"
    <3>1. u = unpackStr
      BY <1>6, <2>1 DEF Unpacking
    <3>2. u.used = IF Rest = <<>> THEN 0 ELSE IF Len(Tail(Rest)) < Head(Rest) THEN 1 ELSE 1 + Head(Rest)
      BY <1>4, <3>1, Zenon DEF unpackStr
    <3> HIDE DEF u
    <3>3. QED
      BY <1>1, <1>2, <3>2
  <2>2. CASE unpacker = "py"
    <3>1. u = unpack_str
      BY <1>6, <2>2 DEF Unpacking
    <3>2. u.used = IF Rest = <<>> THEN 0 ELSE 1 + Head(Rest)
      BY <1>4, <3>1, Zenon DEF unpack_str
    <3> HIDE DEF u
    <3>3. QED
      BY <1>2, <2>2, <3>2
  <2>3. QED
    BY <1>1, <2>1, <2>2
<1>7. ASSUME NEW w \in Nat, value.kind = "data", value.w = w
      PROVE  u.used \in Nat /\ (unpacker = "cpp" => u.used <= Len(Rest))
  <2>1. CASE unpacker = "cpp"
    <3>1. u = unpackData(w)
      BY <1>7, <2>1 DEF Unpacking
    <3>2. u.used = IF Len(Rest) < w THEN 0 ELSE w
      BY <1>4, <3>1, Zenon DEF unpackData
    <3> HIDE DEF u
    <3>3. QED
      BY <1>1, <3>2
  <2>2. CASE unpacker = "py"
    <3>1. u = unpack_data(w)
      BY <1>7, <2>2 DEF Unpacking
    <3>2. u.used = w
      BY <1>4, <3>1 DEF unpack_data
    <3> HIDE DEF u
    <3>3. QED
      BY <2>2, <3>2
  <2>3. QED
    BY <1>1, <2>1, <2>2
<1>8. CASE \E w \in Nat \ {0} : \E v \in 0..(Weight[w] - 1) : value = Num(w, v)
  <2>1. PICK w \in Nat \ {0} : \E v \in 0..(Weight[w] - 1) : value = Num(w, v)
    BY <1>8
  <2>2. value.kind = "int" /\ value.w = w
    BY <2>1 DEF Num
  <2> HIDE DEF u
  <2>3. QED
    BY <1>5, <2>2
<1>9. CASE \E s \in Seq(Byte) : value = Str(s)
  <2>1. value.kind = "str"
    BY <1>9 DEF Str
  <2> HIDE DEF u
  <2>2. QED
    BY <1>6, <2>1
<1>10. CASE \E s \in Seq(Byte) : value = Data(s)
  <2>1. PICK s \in Seq(Byte) : value = Data(s)
    BY <1>10
  <2>2. value.kind = "data" /\ value.w = Len(s) /\ Len(s) \in Nat
    BY <2>1, LenProperties DEF Data
  <2> HIDE DEF u
  <2>3. QED
    BY <1>7, <2>2
<1>11. QED
  BY <1>8, <1>9, <1>10, ValueKinds

\* The value's encoding is the next to be unpacked.
Ahead(value) ==
  /\ Encoding(value) \in Seq(Byte)
  /\ Len(Encoding(value)) <= Len(Rest)
  /\ \A i \in 1..Len(Encoding(value)) : Rest[i] = Encoding(value)[i]

\* Unpacking uses the bytes the value was packed in, unless Python packed a string whose length
\* a byte does not count; and yields what the receiver can be given of the value.
Returns(u, value) ==
  /\ (packer = "py" => Countable(value)) => u.used = Len(Encoding(value))
  /\ Countable(value) => u.value = Received(value)

\* A stretch of a sequence that has the same elements as another sequence is that sequence.
LEMMA Stretch ==
  ASSUME NEW S, NEW r \in Seq(S), NEW e \in Seq(S), NEW m \in Nat, m + Len(e) <= Len(r),
         \A i \in 1..Len(e) : r[m + i] = e[i]
  PROVE  SubSeq(r, m + 1, m + Len(e)) = e
<1>1. PICK n \in Nat : n = Len(e)
  BY LenProperties
<1>2. \A i \in (m + 1)..(m + n) : r[i] \in S
  <2>1. ASSUME NEW i \in (m + 1)..(m + n) PROVE r[i] \in S
    <3>1. i \in 1..Len(r)
      <4>1. Len(r) \in Nat
        BY LenProperties
      <4>2. QED
        BY <1>1, <4>1
    <3>2. QED
      BY <3>1, ElementOfSeq
  <2>2. QED
    BY <2>1
<1> DEFINE t == SubSeq(r, m + 1, m + n)
<1>3. /\ t \in Seq(S)
      /\ Len(t) = IF m + 1 <= m + n THEN m + n - (m + 1) + 1 ELSE 0
      /\ \A i \in 1..(m + n - (m + 1) + 1) : t[i] = r[(m + 1) + i - 1]
  <2>1. m + 1 \in Int /\ m + n \in Int
    OBVIOUS
  <2>2. QED
    BY <1>2, <2>1, SubSeqProperties
<1> HIDE DEF t
<1>4. Len(t) = n
  BY <1>3
<1>5. ASSUME NEW i \in 1..n PROVE t[i] = e[i]
  <2>1. i \in 1..(m + n - (m + 1) + 1) /\ (m + 1) + i - 1 = m + i
    OBVIOUS
  <2>2. t[i] = r[m + i]
    BY <1>3, <2>1
  <2>3. QED
    BY <1>1, <2>2
<1>6. t = e
  BY <1>1, <1>3, <1>4, <1>5, SeqEqual
<1>7. QED
  BY <1>1, <1>6 DEF t

\* Integers, in both languages.
LEMMA UnpackInteger ==
  ASSUME Typed, NEW w \in Nat \ {0}, NEW v \in 0..(Weight[w] - 1), Ahead(Num(w, v))
  PROVE  Returns(unpackInt(w), Num(w, v)) /\ Returns(unpack_int(w), Num(w, v))
<1> DEFINE e == LittleEndian(w, v)
<1>1. Encoding(Num(w, v)) = e
  BY DEF Encoding, Num
<1>2. v \in Nat
  BY WeightDef
<1>3. e \in Seq(Byte) /\ Len(e) = w /\ FromBytes(e) = v
  BY <1>2, Bytes, NumberReturns DEF Byte
<1> HIDE DEF e
<1>4. Rest \in Seq(Byte) /\ Len(Rest) \in Nat /\ Len(Rest) >= w
  BY <1>1, <1>3, RestFacts, LenProperties DEF Ahead
<1>5. SubSeq(Rest, 1, w) = e
  <2>1. \A i \in 1..Len(e) : Rest[0 + i] = e[i]
    BY <1>1, <1>3 DEF Ahead
  <2>2. 0 \in Nat /\ 0 + Len(e) <= Len(Rest) /\ 0 + 1 = 1 /\ 0 + Len(e) = w
    BY <1>3, <1>4
  <2>3. SubSeq(Rest, 0 + 1, 0 + Len(e)) = e
    BY <1>3, <1>4, <2>1, <2>2, Stretch, Zenon
  <2>4. QED
    BY <2>2, <2>3
<1> DEFINE u == Unpacked(Num(w, v), w)
<1>6. unpackInt(w) = u
  <2>1. ~(Len(Rest) < w)
    BY <1>4
  <2>2. QED
    BY <1>3, <1>5, <2>1, Zenon DEF unpackInt
<1>7. unpack_int(w) = u
  <2>1. Rest # <<>>
    BY <1>4, EmptySeq
  <2>2. Min({w, Len(Rest)}) = w
    BY <1>4, MinOfTwo
  <2>3. QED
    BY <1>3, <1>5, <2>1, <2>2 DEF unpack_int
<1>8. Returns(u, Num(w, v))
  <2>1. Received(Num(w, v)) = Num(w, v)
    BY DEF Received, Num
  <2>2. u.value = Num(w, v) /\ u.used = w
    BY DEF Unpacked
  <2> HIDE DEF u
  <2>3. QED
    BY <1>1, <1>3, <2>1, <2>2, Zenon DEF Returns
<1>9. QED
  BY <1>6, <1>7, <1>8

\* Arbitrary data, in both languages.
LEMMA UnpackDatum ==
  ASSUME Typed, NEW s \in Seq(Byte), Ahead(Data(s))
  PROVE  Returns(unpackData(Len(s)), Data(s)) /\ Returns(unpack_data(Len(s)), Data(s))
<1>1. Encoding(Data(s)) = s
  BY DEF Encoding, Data
<1>2. PICK w \in Nat : w = Len(s)
  BY LenProperties
<1>3. Rest \in Seq(Byte) /\ Len(Rest) \in Nat /\ Len(Rest) >= w
  BY <1>1, <1>2, RestFacts, LenProperties DEF Ahead
<1>4. SubSeq(Rest, 1, w) = s
  <2>1. \A i \in 1..Len(s) : Rest[0 + i] = s[i]
    BY <1>1, <1>2 DEF Ahead
  <2>2. 0 \in Nat /\ 0 + Len(s) <= Len(Rest) /\ 0 + 1 = 1 /\ 0 + Len(s) = w
    BY <1>2, <1>3
  <2>3. SubSeq(Rest, 0 + 1, 0 + Len(s)) = s
    BY <1>3, <2>1, <2>2, Stretch, Zenon
  <2>4. QED
    BY <2>2, <2>3
<1> DEFINE u == Unpacked(Data(s), w)
<1>5. unpackData(w) = u
  <2>1. ~(Len(Rest) < w)
    BY <1>3
  <2>2. QED
    BY <1>4, <2>1, Zenon DEF unpackData
<1>6. unpack_data(w) = u
  <2>1. Min({w, Len(Rest)}) = w
    BY <1>3, MinOfTwo
  <2>2. QED
    BY <1>4, <2>1 DEF unpack_data
<1>7. Returns(u, Data(s))
  <2>1. Received(Data(s)) = Data(s)
    BY DEF Received, Data
  <2>2. u.value = Data(s) /\ u.used = w
    BY DEF Unpacked
  <2> HIDE DEF u
  <2>3. QED
    BY <1>1, <1>2, <2>1, <2>2, Zenon DEF Returns
<1>8. QED
  BY <1>2, <1>5, <1>6, <1>7

\* The string in front of the first null.
LEMMA StringEnds ==
  ASSUME NEW s \in Seq(Byte), IsCString(s), NEW t \in Seq(Byte), Len(s) < Len(t),
         \A i \in 1..Len(s) : t[i] = s[i], t[Len(s) + 1] = 0
  PROVE  CString(t) = Str(s)
<1>1. PICK n \in Nat : n = Len(s)
  BY LenProperties
<1>2. PICK l \in Nat : l = Len(t) /\ DOMAIN t = 1..l
  BY LenProperties
<1> DEFINE zeros == {i \in DOMAIN t : t[i] = 0}
<1>3. n + 1 \in zeros
  BY <1>1, <1>2
<1>4. ASSUME NEW i \in zeros PROVE n + 1 <= i
  <2>1. i \in 1..l /\ t[i] = 0
    BY <1>2
  <2>2. ~(i \in 1..n)
    <3> SUFFICES ASSUME i \in 1..n PROVE FALSE
      OBVIOUS
    <3>1. s[i] # 0
      <4>1. DOMAIN s = 1..n
        BY <1>1, LenProperties
      <4>2. QED
        BY <4>1 DEF IsCString, ToSet
    <3>2. t[i] = s[i]
      BY <1>1
    <3>3. QED
      BY <2>1, <3>1, <3>2
  <2>3. QED
    BY <2>1, <2>2
<1>5. zeros \subseteq Nat
  BY <1>2
<1>6. CString(t) = IF zeros = {} THEN Overrun ELSE Str(SubSeq(t, 1, Min(zeros) - 1))
  BY DEF CString
<1> HIDE DEF zeros
<1>7. Min(zeros) = n + 1
  <2>1. Min(zeros) \in zeros /\ \A y \in zeros : Min(zeros) <= y
    <3>1. \E x \in zeros : \A y \in zeros : x <= y
      BY <1>3, <1>4
    <3>2. QED
      BY <3>1, Zenon DEF Min
  <2>2. PICK m \in zeros : m = Min(zeros) /\ m <= n + 1
    BY <1>3, <2>1
  <2>3. m \in Nat /\ n + 1 <= m
    BY <1>4, <1>5
  <2>4. QED
    BY <2>2, <2>3
<1>8. SubSeq(t, 1, n) = s
  <2>1. \A i \in 1..Len(s) : t[0 + i] = s[i]
    BY <1>1
  <2>2. 0 \in Nat /\ 0 + Len(s) <= Len(t) /\ 0 + 1 = 1 /\ 0 + Len(s) = n
    BY <1>1, <1>2
  <2>3. SubSeq(t, 0 + 1, 0 + Len(s)) = s
    BY <2>1, <2>2, Stretch, Zenon
  <2>4. QED
    BY <2>2, <2>3
<1>9. QED
  <2>1. zeros # {} /\ Min(zeros) - 1 = n
    BY <1>3, <1>7
  <2>2. QED
    BY <1>6, <1>8, <2>1

\* The first null of a string that has one, whatever follows the string.
LEMMA StringCut ==
  ASSUME NEW s \in Seq(Byte), ~IsCString(s), NEW t \in Seq(Byte), Len(s) < Len(t),
         \A i \in 1..Len(s) : t[i] = s[i]
  PROVE  CString(t) = CString(s)
<1>1. PICK n \in Nat : n = Len(s) /\ DOMAIN s = 1..n
  BY LenProperties
<1>2. PICK l \in Nat : l = Len(t) /\ DOMAIN t = 1..l /\ n < l
  BY <1>1, LenProperties
<1> DEFINE zs == {i \in DOMAIN s : s[i] = 0}
           zt == {i \in DOMAIN t : t[i] = 0}
<1>3. PICK z \in 1..n : z \in zs
  BY <1>1 DEF IsCString, ToSet
<1>4. zs \subseteq 1..n /\ zs \subseteq zt /\ zt \subseteq 1..l /\ \A y \in zt : y \in zs \/ y > n
  BY <1>1, <1>2
<1>5. /\ CString(s) = IF zs = {} THEN Overrun ELSE Str(SubSeq(s, 1, Min(zs) - 1))
      /\ CString(t) = IF zt = {} THEN Overrun ELSE Str(SubSeq(t, 1, Min(zt) - 1))
  BY DEF CString
<1> HIDE DEF zs, zt
<1>6. PICK m \in zs : \A y \in zs : m <= y
  <2>1. zs \subseteq Nat /\ zs # {}
    BY <1>3, <1>4
  <2>2. QED
    BY <2>1, Smallest
<1>7. m \in 1..n /\ \A y \in zt : m <= y
  BY <1>4, <1>6
<1>8. Min(zs) = m
  <2>1. zs \subseteq Nat
    BY <1>4
  <2>2. QED
    BY <1>6, <2>1, OneSmallest
<1>9. Min(zt) = m
  <2>1. zt \subseteq Nat /\ m \in zt
    BY <1>4, <1>6
  <2>2. QED
    BY <1>7, <2>1, OneSmallest
<1> DEFINE e == SubSeq(s, 1, m - 1)
<1>10. /\ e \in Seq(Byte)
       /\ Len(e) = m - 1
       /\ \A i \in 1..(m - 1) : e[i] = s[i]
  <2>1. \A i \in 1..(m - 1) : s[i] \in Byte
    <3>1. \A i \in 1..(m - 1) : i \in 1..Len(s)
      BY <1>1, <1>7
    <3>2. QED
      BY <3>1, ElementOfSeq
  <2>2. 1 \in Int /\ m - 1 \in Int
    BY <1>7
  <2>3. /\ e \in Seq(Byte)
        /\ Len(e) = IF 1 <= m - 1 THEN m - 1 - 1 + 1 ELSE 0
        /\ \A i \in 1..(m - 1 - 1 + 1) : e[i] = s[1 + i - 1]
    BY <2>1, <2>2, SubSeqProperties
  <2> HIDE DEF e
  <2>4. m - 1 - 1 + 1 = m - 1 /\ \A i \in 1..(m - 1) : 1 + i - 1 = i
    BY <1>7
  <2>5. QED
    BY <1>7, <2>3, <2>4
<1> HIDE DEF e
<1>11. SubSeq(t, 1, m - 1) = e
  <2>1. \A i \in 1..Len(e) : t[0 + i] = e[i]
    BY <1>1, <1>7, <1>10
  <2>2. 0 \in Nat /\ 0 + Len(e) <= Len(t) /\ 0 + 1 = 1 /\ 0 + Len(e) = m - 1
    BY <1>2, <1>7, <1>10
  <2>3. SubSeq(t, 0 + 1, 0 + Len(e)) = e
    BY <1>10, <2>1, <2>2, Stretch, Zenon
  <2>4. QED
    BY <2>2, <2>3
<1>12. zs # {} /\ zt # {}
  BY <1>3, <1>4
<1>13. QED
  BY <1>5, <1>8, <1>9, <1>11, <1>12, Zenon DEF e

\* A string whose length a byte counts is packed whole, in whichever language.
LEMMA PackedWhole ==
  ASSUME NEW s \in Seq(Byte), Len(s) + 1 < ByteRange
  PROVE  Encoding(Str(s)) = <<Len(s) + 1>> \o (s \o <<0>>)
<1>1. CutOff(s) = <<Len(s) + 1>> \o (s \o <<0>>)
  BY StringBytes, Zenon
<1>2. (Len(s) + 1) % ByteRange = Len(s) + 1
  <2>1. PICK n \in Nat : n = Len(s)
    BY LenProperties
  <2>2. n + 1 \in 0..(ByteRange - 1) /\ ByteRange \in Nat \ {0}
    BY <2>1, ByteFacts
  <2>3. (n + 1) % ByteRange = n + 1
    BY <2>2, Below
  <2>4. QED
    BY <2>1, <2>3
<1>3. Masked(s) = <<Len(s) + 1>> \o (s \o <<0>>)
  BY <1>2, Zenon DEF Masked
<1>4. Encoding(Str(s)) = IF packer = "py" THEN Masked(s) ELSE CutOff(s)
  BY DEF Encoding, Str
<1>5. QED
  BY <1>1, <1>3, <1>4, Zenon

\* The length byte leads to the end of what was packed: of a string that is too long, what C++
\* cut off, but not what Python packed.
LEMMA StringEnd ==
  ASSUME Typed, NEW s \in Seq(Byte), Ahead(Str(s)), packer = "py" => Len(s) + 1 < ByteRange
  PROVE  /\ Rest # <<>> /\ Len(Tail(Rest)) >= Head(Rest)
         /\ 1 + Head(Rest) = Len(Encoding(Str(s)))
<1>1. PICK e : e = Encoding(Str(s))
  OBVIOUS
<1>2. e \in Seq(Byte) /\ e[1] \in Nat /\ Len(e) = 1 + e[1]
  <2>1. CASE packer = "py"
    <3>1. e = <<Len(s) + 1>> \o (s \o <<0>>)
      BY <1>1, <2>1, PackedWhole
    <3>2. Len(s) \in Nat
      BY LenProperties
    <3>3. QED
      BY <2>1, <3>1, <3>2, StringEncoding
  <2>2. CASE packer # "py"
    <3>1. e = CutOff(s)
      BY <1>1, <2>2 DEF Encoding, Str
    <3>2. strLength(s) \in Nat
      BY StrLength DEF Byte
    <3>3. QED
      BY <3>1, <3>2, StringBytes
  <2>3. QED
    BY <2>1, <2>2
<1>3. Rest \in Seq(Byte) /\ Len(Rest) \in Nat /\ Len(e) <= Len(Rest) /\ Rest[1] = e[1]
  <2>1. 1 \in 1..Len(e)
    BY <1>2
  <2>2. QED
    BY <1>1, <2>1, RestFacts, LenProperties DEF Ahead
<1>4. Rest # <<>>
  BY <1>2, <1>3, EmptySeq
<1>5. Head(Rest) = e[1] /\ Len(Tail(Rest)) = Len(Rest) - 1
  BY <1>3, <1>4, HeadTailProperties
<1>6. QED
  BY <1>1, <1>2, <1>3, <1>4, <1>5

\* What is unpacked of a string whose length a byte counts.
LEMMA StringValue ==
  ASSUME Typed, NEW s \in Seq(Byte), Len(s) + 1 < ByteRange, Ahead(Str(s))
  PROVE  /\ unpacker = "cpp" => unpackStr.value = Received(Str(s))
         /\ unpacker = "py" => unpack_str.value = Received(Str(s))
<1> DEFINE e == <<Len(s) + 1>> \o (s \o <<0>>)
<1>1. Encoding(Str(s)) = e
  BY PackedWhole
<1>2. PICK n \in Nat : n = Len(s)
  BY LenProperties
<1>3. /\ Len(e) = n + 2
      /\ e[1] = n + 1
      /\ \A i \in 1..n : e[i + 1] = s[i]
      /\ e[n + 2] = 0
  BY <1>2, StringEncoding
<1> HIDE DEF e
<1>4. PICK l \in Nat : l = Len(Rest) /\ n + 2 <= l
  BY <1>1, <1>3, RestFacts, LenProperties DEF Ahead
<1>5. Rest \in Seq(Byte) /\ Rest # <<>>
  BY <1>4, RestFacts, EmptySeq
<1>6. /\ Rest[1] = n + 1
      /\ \A i \in 1..n : Rest[1 + i] = s[i]
      /\ Rest[n + 2] = 0
  <2>1. \A i \in 1..(n + 2) : Rest[i] = e[i]
    BY <1>1, <1>3 DEF Ahead
  <2>2. 1 \in 1..(n + 2) /\ n + 2 \in 1..(n + 2) /\ \A i \in 1..n : i + 1 \in 1..(n + 2) /\ 1 + i = i + 1
    OBVIOUS
  <2>3. QED
    BY <1>3, <2>1, <2>2
<1>7. Head(Rest) = n + 1
  BY <1>5, <1>6
<1> DEFINE t == Tail(Rest)
<1>8. /\ t \in Seq(Byte)
      /\ Len(t) = l - 1
      /\ \A i \in 1..(l - 1) : t[i] = Rest[i + 1]
  BY <1>4, <1>5, HeadTailProperties
<1> HIDE DEF t
<1>9. /\ Len(s) < Len(t) /\ ~(Len(t) < Head(Rest))
      /\ \A i \in 1..Len(s) : t[i] = s[i]
      /\ t[Len(s) + 1] = 0
  <2>1. \A i \in 1..Len(s) : t[i] = s[i]
    BY <1>2, <1>4, <1>6, <1>8
  <2>2. Len(s) < Len(t) /\ ~(Len(t) < Head(Rest))
    BY <1>2, <1>4, <1>7, <1>8
  <2>3. n + 1 \in 1..(l - 1) /\ (n + 1) + 1 = n + 2
    BY <1>4
  <2>4. t[Len(s) + 1] = 0
    BY <1>2, <1>6, <1>8, <2>3
  <2>5. QED
    BY <2>1, <2>2, <2>4
<1>10. ASSUME unpacker = "cpp" PROVE unpackStr.value = Received(Str(s))
  <2>1. unpackStr = Unpacked(CString(t), 1 + Head(Rest))
    BY <1>5, <1>9, Zenon DEF unpackStr, t
  <2>2. unpackStr.value = CString(t)
    BY <2>1 DEF Unpacked
  <2>3. Received(Str(s)) = IF IsCString(s) THEN Str(s) ELSE CString(s)
    <3>1. Str(s).kind = "str" /\ Str(s).s = s
      BY DEF Str
    <3>2. QED
      BY <1>10, <3>1, Zenon DEF Received, Readable, Misread
  <2>4. CASE IsCString(s)
    BY <1>8, <1>9, <2>2, <2>3, <2>4, StringEnds
  <2>5. CASE ~IsCString(s)
    BY <1>8, <1>9, <2>2, <2>3, <2>5, StringCut
  <2>6. QED
    BY <2>4, <2>5
<1> DEFINE slice == SubSeq(Rest, 2, Min({1 + Head(Rest), Len(Rest)}))
           c_str == IF Len(slice) > 1 THEN Front(slice) ELSE slice
<1>11. unpack_str.value = IF IsUtf8(c_str) THEN Str(c_str) ELSE Failed
  <2>1. unpack_str = Unpacked(IF IsUtf8(c_str) THEN Str(c_str) ELSE Failed, 1 + Head(Rest))
    BY <1>5, Zenon DEF unpack_str
  <2> HIDE DEF c_str
  <2>2. QED
    BY <2>1, Zenon DEF Unpacked
<1>12. slice = SubSeq(Rest, 2, n + 2)
  <2>1. 1 + Head(Rest) = n + 2 /\ n + 2 \in Int /\ Len(Rest) \in Int
    BY <1>4, <1>7
  <2>2. Min({n + 2, Len(Rest)}) = n + 2
    BY <1>4, <2>1, MinOfTwo
  <2>3. QED
    BY <2>1, <2>2, Zenon
<1> HIDE DEF slice
<1>13. /\ slice \in Seq(Byte)
       /\ Len(slice) = n + 1
       /\ \A i \in 1..n : slice[i] = s[i]
       /\ slice[n + 1] = 0
  <2>1. \A i \in 2..(n + 2) : Rest[i] \in Byte
    <3>1. ASSUME NEW i \in 2..(n + 2) PROVE Rest[i] \in Byte
      <4>1. i \in 1..Len(Rest)
        BY <1>4
      <4>2. QED
        BY <1>5, <4>1, ElementOfSeq
    <3>2. QED
      BY <3>1
  <2>2. /\ slice \in Seq(Byte)
        /\ Len(slice) = IF 2 <= n + 2 THEN n + 2 - 2 + 1 ELSE 0
        /\ \A i \in 1..(n + 2 - 2 + 1) : slice[i] = Rest[2 + i - 1]
    <3>1. 2 \in Int /\ n + 2 \in Int
      OBVIOUS
    <3>2. QED
      BY <1>12, <2>1, <3>1, SubSeqProperties
  <2>3. ASSUME NEW i \in 1..n PROVE slice[i] = s[i]
    <3>1. i \in 1..(n + 2 - 2 + 1) /\ 2 + i - 1 = 1 + i
      OBVIOUS
    <3>2. QED
      BY <1>6, <2>2, <3>1
  <2>4. slice[n + 1] = 0
    <3>1. n + 1 \in 1..(n + 2 - 2 + 1) /\ 2 + (n + 1) - 1 = n + 2
      OBVIOUS
    <3>2. QED
      BY <1>6, <2>2, <3>1
  <2>5. QED
    BY <2>2, <2>3, <2>4
<1>14. ASSUME unpacker = "py" PROVE unpack_str.value = Received(Str(s))
  <2>1. Received(Str(s)) = IF s = <<>> THEN Str(<<0>>) ELSE IF IsUtf8(s) THEN Str(s) ELSE Failed
    <3>1. Str(s).kind = "str" /\ Str(s).s = s
      BY DEF Str
    <3>2. unpacker # "cpp"
      BY <1>14
    <3>3. QED
      BY <3>1, <3>2, Zenon DEF Received, Readable, Misread
  <2>2. CASE n = 0
    <3>1. s = <<>>
      BY <1>2, <2>2, EmptySeq
    <3>2. slice = <<0>> /\ c_str = slice
      <4>1. Len(slice) = 1 /\ slice[1] = 0 /\ slice \in Seq(Byte)
        BY <1>13, <2>2
      <4>2. QED
        BY <4>1
    <3>3. IsUtf8(<<0>>)
      BY PayloadCodecAssumption DEF IsUtf8
    <3> HIDE DEF c_str
    <3>4. c_str = <<0>> /\ IsUtf8(c_str)
      BY <3>2, <3>3, Zenon
    <3>5. Received(Str(s)) = Str(<<0>>)
      BY <2>1, <3>1, Zenon
    <3>6. QED
      BY <1>11, <3>4, <3>5, Zenon
  <2>3. CASE n # 0
    <3>1. Len(slice) > 1 /\ s # <<>>
      BY <1>2, <1>13, <2>3, EmptySeq
    <3>2. Front(slice) = s
      <4>1. 0 \in Nat /\ 0 + Len(s) <= Len(slice) /\ 0 + 1 = 1 /\ 0 + Len(s) = Len(slice) - 1
        BY <1>2, <1>13
      <4>2. \A i \in 1..Len(s) : slice[0 + i] = s[i]
        BY <1>2, <1>13
      <4>3. SubSeq(slice, 0 + 1, 0 + Len(s)) = s
        BY <1>13, <4>1, <4>2, Stretch, Zenon
      <4>4. QED
        BY <4>1, <4>3, Zenon DEF Front
    <3>3. c_str = s
      BY <3>1, <3>2, Zenon
    <3>4. PICK r : r = IF IsUtf8(s) THEN Str(s) ELSE Failed
      OBVIOUS
    <3>5. unpack_str.value = r
      <4>1. s = c_str
        BY <3>3
      <4> HIDE DEF c_str
      <4>2. QED
        BY <1>11, <3>4, <4>1, Zenon
    <3>6. Received(Str(s)) = r
      BY <2>1, <3>1, <3>4, Zenon
    <3>7. QED
      BY <3>5, <3>6, Zenon
  <2>4. QED
    BY <2>2, <2>3
<1>15. QED
  BY <1>10, <1>14

\* Strings, in both languages.
LEMMA UnpackString ==
  ASSUME Typed, NEW s \in Seq(Byte), Ahead(Str(s))
  PROVE  /\ unpacker = "cpp" => Returns(unpackStr, Str(s))
         /\ unpacker = "py" => Returns(unpack_str, Str(s))
<1>1. Countable(Str(s)) <=> Len(s) + 1 < ByteRange
  BY DEF Countable, Str
<1>2. ASSUME packer = "py" => Countable(Str(s))
      PROVE  unpackStr.used = Len(Encoding(Str(s))) /\ unpack_str.used = Len(Encoding(Str(s)))
  <2>1. /\ Rest # <<>> /\ Len(Tail(Rest)) >= Head(Rest)
        /\ 1 + Head(Rest) = Len(Encoding(Str(s)))
    BY <1>1, <1>2, StringEnd
  <2>2. ~(Len(Tail(Rest)) < Head(Rest))
    <3>1. Rest \in Seq(Byte)
      BY RestFacts
    <3>2. Head(Rest) \in Byte /\ Tail(Rest) \in Seq(Byte)
      BY <2>1, <3>1, HeadTailProperties
    <3>4. Head(Rest) \in Nat /\ Len(Tail(Rest)) \in Nat
      BY <3>2, LenProperties, PayloadCodecAssumption DEF Byte
    <3>3. QED
      BY <2>1, <3>4
  <2>3. \A val, n : Unpacked(val, n).used = n
    BY DEF Unpacked
  <2>4. unpackStr.used = 1 + Head(Rest)
    BY <2>1, <2>2, <2>3, Zenon DEF unpackStr
  <2>5. unpack_str.used = 1 + Head(Rest)
    BY <2>1, <2>3, Zenon DEF unpack_str
  <2>6. QED
    BY <2>1, <2>4, <2>5, Zenon
<1>3. ASSUME Countable(Str(s))
      PROVE  /\ unpacker = "cpp" => unpackStr.value = Received(Str(s))
             /\ unpacker = "py" => unpack_str.value = Received(Str(s))
  BY <1>1, <1>3, StringValue
<1>4. QED
  BY <1>2, <1>3, Zenon DEF Returns

\* Whatever is unpacked where it was packed, in whichever language.
LEMMA UnpackReturns ==
  ASSUME Typed, NEW value \in Values, Ahead(value)
  PROVE  Returns(Unpacking(value), value)
<1>1. unpacker \in {"cpp", "py"}
  BY DEF Typed
<1>2. ASSUME NEW w \in Nat \ {0}, NEW v \in 0..(Weight[w] - 1), value = Num(w, v)
      PROVE  Returns(Unpacking(value), value)
  <2>1. value.kind = "int" /\ value.w = w
    BY <1>2 DEF Num
  <2>2. Unpacking(value) = IF unpacker = "cpp" THEN unpackInt(w) ELSE unpack_int(w)
    BY <2>1 DEF Unpacking
  <2>3. Returns(unpackInt(w), value) /\ Returns(unpack_int(w), value)
    BY <1>2, UnpackInteger
  <2>4. QED
    BY <2>2, <2>3
<1>3. ASSUME NEW s \in Seq(Byte), value = Str(s) PROVE Returns(Unpacking(value), value)
  <2>1. value.kind = "str"
    BY <1>3 DEF Str
  <2>2. Unpacking(value) = IF unpacker = "cpp" THEN unpackStr ELSE unpack_str
    BY <2>1 DEF Unpacking
  <2>3. /\ unpacker = "cpp" => Returns(unpackStr, value)
        /\ unpacker = "py" => Returns(unpack_str, value)
    BY <1>3, UnpackString
  <2>4. QED
    BY <1>1, <2>2, <2>3
<1>4. ASSUME NEW s \in Seq(Byte), value = Data(s) PROVE Returns(Unpacking(value), value)
  <2>1. value.kind = "data" /\ value.w = Len(s)
    BY <1>4 DEF Data
  <2>2. Unpacking(value) = IF unpacker = "cpp" THEN unpackData(Len(s)) ELSE unpack_data(Len(s))
    BY <2>1 DEF Unpacking
  <2>3. Returns(unpackData(Len(s)), value) /\ Returns(unpack_data(Len(s)), value)
    BY <1>4, UnpackDatum
  <2>4. QED
    BY <2>2, <2>3
<1>5. QED
  BY <1>2, <1>3, <1>4, ValueKinds
-----------------------------------------------------------------------------
(***************************************************************************)
(* The inductive invariant.                                                  *)
(***************************************************************************)

\* What was tried, and what came back.
History ==
  /\ attempts \in Seq([value : Values, ok : BOOLEAN])
  /\ results \in Seq(Range(results))
  /\ Len(results) <= Len(attempts)

\* The k-th value was packed.
Good(k) == attempts[k].ok

\* Its encoding is between these two offsets in the data.
Laid(off, k) ==
  LET e == Encoding(attempts[k].value)
  IN  /\ e \in Seq(Byte)
      /\ off[k] = off[k - 1] + Len(e)
      /\ off[k] <= Len(data)
      /\ \A i \in 1..Len(e) : data[off[k - 1] + i] = e[i]

\* Each attempt to pack a value left a stretch of the data behind: the value's encoding,
\* if it was packed. As long as nothing went wrong the Unpacker is between two of them.
Layout ==
  \E off \in [0..Len(attempts) -> Nat] :
    /\ off[0] = 0
    /\ off[Len(attempts)] = Len(data)
    /\ \A k \in 1..Len(attempts) : Good(k) => Laid(off, k)
    /\ InStep(Len(results)) => idx = off[Len(results)]

IInv == Typed /\ History /\ Layout /\ RoundTrip

\* Nothing is packed nor unpacked at first.
LEMMA InitIInv == Init => IInv
<1> SUFFICES ASSUME Init PROVE IInv
  OBVIOUS
<1> USE DEF Init
<1>1. /\ Len(<<>>) = 0
      /\ data \in Seq(Byte)
      /\ attempts \in Seq([value : Values, ok : BOOLEAN])
      /\ results \in Seq(Range(results))
  BY EmptySeq
<1>2. Typed
  BY <1>1, ByteFacts DEF Typed
<1>3. History
  BY <1>1 DEF History
<1>4. Layout
  <2>1. PICK off : off = [k \in 0..0 |-> 0]
    OBVIOUS
  <2>2. off \in [0..Len(attempts) -> Nat] /\ off[0] = 0
    BY <1>1, <2>1
  <2>3. QED
    BY <1>1, <2>2 DEF Layout
<1>5. RoundTrip
  BY <1>1 DEF RoundTrip
<1>6. QED
  BY <1>2, <1>3, <1>4, <1>5 DEF IInv

\* One more value, or a part of one, at the end of the data.
LEMMA PackStep ==
  ASSUME IInv, Pack
  PROVE  IInv'
<1>1. PICK value \in Values : \E p \in Packing(value) :
        /\ data' = p.data
        /\ attempts' = Append(attempts, [value |-> value, ok |-> p.ok])
        /\ mode' = IF packer = "packet" /\ ~p.ok THEN "aborted" ELSE mode
  BY DEF Pack
<1>2. PICK p \in Packing(value) : data' = p.data /\ attempts' = Append(attempts, [value |-> value, ok |-> p.ok])
  BY <1>1
<1>3. packer' = packer /\ unpacker' = unpacker /\ idx' = idx /\ results' = results
  BY DEF Pack
<1>4. Typed /\ History /\ RoundTrip
  BY DEF IInv
<1>5. p.ok \in BOOLEAN /\ Appends(p, value)
  BY <1>4, PackAppends, Zenon DEF Appends
<1>6. PICK ext \in Seq(Byte) : /\ data' = data \o ext
                               /\ packer # "py" => Len(data) + Len(ext) <= MaxDataLen
                               /\ p.ok => ext = Encoding(value)
  BY <1>2, <1>5, Zenon DEF Appends
<1>7. PICK d \in Nat, x \in Nat : d = Len(data) /\ x = Len(ext)
  BY <1>4, LenProperties DEF Typed
<1>8. /\ data' \in Seq(Byte)
      /\ Len(data') = d + x
      /\ \A i \in 1..(d + x) : data'[i] = IF i <= d THEN data[i] ELSE ext[i - d]
  <2>1. data \in Seq(Byte)
    BY <1>4 DEF Typed
  <2>2. /\ data \o ext \in Seq(Byte)
        /\ Len(data \o ext) = Len(data) + Len(ext)
        /\ \A i \in 1..(Len(data) + Len(ext)) :
             (data \o ext)[i] = IF i <= Len(data) THEN data[i] ELSE ext[i - Len(data)]
    BY <2>1, ConcatProperties
  <2>3. QED
    BY <1>6, <1>7, <2>2
<1>9. Typed'
  BY <1>3, <1>4, <1>6, <1>7, <1>8 DEF Typed
<1> DEFINE a == [value |-> value, ok |-> p.ok]
<1>10. PICK n \in Nat, m \in Nat : n = Len(attempts) /\ m = Len(results) /\ m <= n
  BY <1>4, LenProperties DEF History
<1>11. /\ attempts' \in Seq([value : Values, ok : BOOLEAN])
       /\ Len(attempts') = n + 1
       /\ \A k \in 1..n : attempts'[k] = attempts[k]
       /\ attempts'[n + 1] = a
  <2>1. a \in [value : Values, ok : BOOLEAN]
    BY <1>5
  <2>2. attempts \in Seq([value : Values, ok : BOOLEAN])
    BY <1>4 DEF History
  <2> HIDE DEF a
  <2>3. attempts' = Append(attempts, a)
    BY <1>2 DEF a
  <2>4. QED
    BY <1>10, <2>1, <2>2, <2>3, AppendProperties
<1>12. a.value = value /\ (a.ok <=> p.ok)
  BY Zenon
<1> HIDE DEF a
<1>13. History'
  BY <1>3, <1>4, <1>10, <1>11 DEF History
<1>14. \A k \in 1..n : Good(k)' <=> Good(k)
  BY <1>11, Zenon DEF Good
<1>15. \A k \in 0..n : InStep(k)' <=> InStep(k)
  <2>1. ASSUME NEW k \in 0..n PROVE InStep(k)' <=> InStep(k)
    <3>1. \A j \in 1..k : j \in 1..n
      OBVIOUS
    <3>2. QED
      BY <1>3, <1>11, <3>1, Zenon DEF InStep
  <2>2. QED
    BY <2>1
<1>16. RoundTrip'
  <2> SUFFICES ASSUME NEW k \in 1..m, Sound(k)'
               PROVE  results[k] = Received(attempts[k].value)'
    BY <1>3, <1>10, Zenon DEF RoundTrip
  <2>1. k \in 0..n /\ k \in 1..n
    BY <1>10
  <2>2. Sound(k) /\ attempts'[k] = attempts[k]
    BY <1>11, <1>15, <2>1, Zenon DEF Sound
  <2>3. results[k] = Received(attempts[k].value)
    BY <1>4, <1>10, <2>2, Zenon DEF RoundTrip
  <2>4. QED
    BY <1>3, <2>2, <2>3, Zenon DEF Received, Readable, Misread
<1>17. Layout'
  <2>1. PICK off \in [0..n -> Nat] : /\ off[0] = 0
                                     /\ off[n] = d
                                     /\ \A k \in 1..n : Good(k) => Laid(off, k)
                                     /\ InStep(m) => idx = off[m]
    BY <1>7, <1>10 DEF IInv, Layout
  <2> DEFINE new == [k \in 0..(n + 1) |-> IF k = n + 1 THEN d + x ELSE off[k]]
  <2>2. /\ new \in [0..(n + 1) -> Nat]
        /\ new[n + 1] = d + x
        /\ \A k \in 0..n : new[k] = off[k]
    <3>1. ASSUME NEW k \in 0..(n + 1), k # n + 1 PROVE off[k] \in Nat
      <4>1. k \in 0..n
        BY <3>1
      <4>2. QED
        BY <4>1
    <3>2. QED
      BY <3>1
  <2> HIDE DEF new
  <2>3. ASSUME NEW k \in 1..n, Good(k)' PROVE Laid(new, k)'
    <3>1. Laid(off, k)
      BY <1>14, <2>1, <2>3, Zenon
    <3>2. k \in 0..n /\ k - 1 \in 0..n
      OBVIOUS
    <3>3. new[k] = off[k] /\ new[k - 1] = off[k - 1] /\ off[k - 1] \in Nat /\ off[k] \in Nat
      BY <2>1, <2>2, <3>2
    <3>4. PICK e : e = Encoding(attempts[k].value)
      OBVIOUS
    <3>5. e = Encoding(attempts[k].value)'
      BY <1>3, <1>11, <3>4, Zenon DEF Encoding
    <3>6. /\ e \in Seq(Byte)
          /\ off[k] = off[k - 1] + Len(e)
          /\ off[k] <= d
          /\ \A i \in 1..Len(e) : data[off[k - 1] + i] = e[i]
      BY <1>7, <3>1, <3>4, Zenon DEF Laid
    <3>7. PICK l \in Nat : l = Len(e)
      BY <3>6, LenProperties
    <3>8. ASSUME NEW i \in 1..l PROVE data'[new[k - 1] + i] = e[i]
      <4>1. off[k - 1] + i \in 1..(d + x) /\ off[k - 1] + i <= d
        BY <3>3, <3>6, <3>7
      <4>2. data'[off[k - 1] + i] = data[off[k - 1] + i]
        BY <1>8, <4>1
      <4>3. QED
        BY <3>3, <3>6, <3>7, <4>2
    <3>9. new[k] = new[k - 1] + Len(e) /\ new[k] <= Len(data')
      BY <1>8, <3>3, <3>6
    <3>10. QED
      BY <3>5, <3>6, <3>7, <3>8, <3>9, Zenon DEF Laid
  <2>4. ASSUME Good(n + 1)' PROVE Laid(new, n + 1)'
    <3>1. p.ok
      BY <1>11, <1>12, <2>4, Zenon DEF Good
    <3>2. ext = Encoding(attempts[n + 1].value)'
      <4>1. attempts'[n + 1].value = value
        BY <1>11, <1>12, Zenon
      <4>2. QED
        BY <1>3, <1>6, <3>1, <4>1, Zenon DEF Encoding
    <3>3. (n + 1) - 1 = n /\ n \in 0..n
      OBVIOUS
    <3>4. new[n + 1] = d + x /\ new[(n + 1) - 1] = d
      BY <2>1, <2>2, <3>3
    <3>5. ASSUME NEW i \in 1..x PROVE data'[new[(n + 1) - 1] + i] = ext[i]
      <4>1. d + i \in 1..(d + x) /\ ~(d + i <= d) /\ (d + i) - d = i
        OBVIOUS
      <4>2. QED
        BY <1>8, <3>4, <4>1
    <3>6. new[n + 1] = new[(n + 1) - 1] + Len(ext) /\ new[n + 1] <= Len(data')
      BY <1>7, <1>8, <3>4
    <3>7. QED
      BY <1>7, <3>2, <3>5, <3>6, Zenon DEF Laid
  <2>5. \A k \in 1..(n + 1) : Good(k)' => Laid(new, k)'
    <3>1. \A k \in 1..(n + 1) : k \in 1..n \/ k = n + 1
      OBVIOUS
    <3>2. QED
      BY <2>3, <2>4, <3>1, Zenon
  <2>6. InStep(m)' => idx' = new[m]
    <3>1. m \in 0..n
      BY <1>10
    <3>2. QED
      BY <1>3, <1>15, <2>1, <2>2, <3>1, Zenon
  <2>7. new[0] = 0 /\ new[n + 1] = Len(data')
    BY <1>8, <2>1, <2>2
  <2>8. Len(results') = m /\ Len(attempts') = n + 1
    BY <1>3, <1>10, <1>11
  <2>9. QED
    BY <2>2, <2>5, <2>6, <2>7, <2>8, Zenon DEF Layout
<1>18. QED
  BY <1>9, <1>13, <1>16, <1>17 DEF IInv

\* One more value unpacked: while nothing went wrong, the one whose encoding begins there.
LEMMA UnpackStep ==
  ASSUME IInv, Unpack
  PROVE  IInv'
<1> DEFINE value == attempts[Len(results) + 1].value
           u     == Unpacking(value)
<1>1. /\ Len(results) < Len(attempts)
      /\ results' = Append(results, u.value)
      /\ idx' = idx + u.used
      /\ packer' = packer /\ unpacker' = unpacker /\ data' = data /\ attempts' = attempts
  BY DEF Unpack
<1>2. Typed /\ History /\ RoundTrip
  BY DEF IInv
<1>3. PICK n \in Nat, m \in Nat : n = Len(attempts) /\ m = Len(results) /\ m < n /\ m + 1 \in 1..n
  <2>1. Len(attempts) \in Nat /\ Len(results) \in Nat
    BY <1>2, LenProperties DEF History
  <2>2. Len(results) + 1 \in 1..Len(attempts)
    BY <1>1, <2>1
  <2>3. QED
    BY <1>1, <2>1, <2>2
<1>4. value \in Values /\ value = attempts[m + 1].value
  <2>1. attempts[m + 1] \in [value : Values, ok : BOOLEAN]
    BY <1>2, <1>3, ElementOfSeq DEF History
  <2>2. QED
    BY <1>3, <2>1
<1>5. u.used \in Nat /\ (unpacker = "cpp" => idx + u.used <= Len(data))
  <2> HIDE DEF value
  <2>1. QED
    BY <1>2, <1>4, UnpackUses
<1> HIDE DEF value, u
<1>6. Typed'
  BY <1>1, <1>2, <1>5 DEF Typed
<1>7. /\ results' \in Seq(Range(results'))
      /\ Len(results') = m + 1
      /\ \A k \in 1..m : results'[k] = results[k]
      /\ results'[m + 1] = u.value
  <2> DEFINE S == Range(results) \cup {u.value}
  <2>1. results \in Seq(S) /\ u.value \in S
    <3>1. Range(results) \subseteq S
      OBVIOUS
    <3>2. results \in Seq(Range(results))
      BY <1>2 DEF History
    <3> HIDE DEF S
    <3>3. results \in Seq(S)
      BY <3>1, <3>2, SeqMonotonic
    <3>4. QED
      BY <3>3 DEF S
  <2> HIDE DEF S
  <2>2. /\ results' \in Seq(S)
        /\ Len(results') = m + 1
        /\ \A k \in 1..m : results'[k] = results[k]
        /\ results'[m + 1] = u.value
    BY <1>1, <1>3, <2>1, AppendProperties
  <2>3. results' \in Seq(Range(results'))
    BY <2>2, SeqOfRange
  <2>4. QED
    BY <2>2, <2>3
<1>8. History'
  BY <1>1, <1>2, <1>3, <1>7 DEF History
<1>9. \A k : /\ InStep(k)' <=> InStep(k)
             /\ Sound(k)' <=> Sound(k)
             /\ Good(k)' <=> Good(k)
  BY <1>1, Zenon DEF InStep, Sound, Good
<1>10. PICK off \in [0..n -> Nat] : /\ off[0] = 0
                                    /\ off[n] = Len(data)
                                    /\ \A k \in 1..n : Good(k) => Laid(off, k)
                                    /\ InStep(m) => idx = off[m]
  BY <1>3 DEF IInv, Layout
<1>11. ASSUME InStep(m + 1)
       PROVE  idx' = off[m + 1] /\ (Countable(value) => u.value = Received(value))
  <2>1. InStep(m) /\ Good(m + 1) /\ (packer = "py" => Countable(value))
    <3>1. m + 1 \in 1..(m + 1) /\ \A j \in 1..m : j \in 1..(m + 1)
      OBVIOUS
    <3>2. QED
      BY <1>4, <1>11, <3>1, Zenon DEF InStep, Good
  <2>2. PICK e : e = Encoding(value)
    OBVIOUS
  <2>3. (m + 1) - 1 = m /\ m \in 0..n /\ m + 1 \in 0..n
    BY <1>3
  <2>4. idx = off[m] /\ Laid(off, m + 1)
    BY <1>3, <1>10, <2>1, Zenon
  <2>5. /\ e \in Seq(Byte)
        /\ off[m + 1] = idx + Len(e)
        /\ off[m + 1] <= Len(data)
        /\ \A i \in 1..Len(e) : data[idx + i] = e[i]
    BY <1>4, <2>2, <2>3, <2>4, Zenon DEF Laid
  <2>6. PICK l \in Nat : l = Len(e)
    BY <2>5, LenProperties
  <2>7. idx \in Nat /\ Len(data) \in Nat
    BY <1>2, LenProperties DEF Typed
  <2>8. Len(Rest) = Len(data) - idx /\ l <= Len(Rest)
    <3>1. Len(Rest) = IF idx <= Len(data) THEN Len(data) - idx ELSE 0
      BY <1>2, RestFacts
    <3>2. QED
      BY <2>5, <2>6, <2>7, <3>1
  <2>9. ASSUME NEW i \in 1..l PROVE Rest[i] = e[i]
    <3>1. i \in 1..Len(Rest)
      BY <2>7, <2>8
    <3>2. Rest[i] = data[idx + i]
      BY <1>2, <3>1, RestFacts
    <3>3. QED
      BY <2>5, <2>6, <3>2
  <2>10. Ahead(value)
    BY <2>2, <2>5, <2>6, <2>8, <2>9 DEF Ahead
  <2>11. Returns(u, value)
    BY <1>2, <1>4, <2>10, UnpackReturns DEF u
  <2>12. u.used = Len(e) /\ (Countable(value) => u.value = Received(value))
    BY <2>1, <2>2, <2>11, Zenon DEF Returns
  <2>13. QED
    BY <1>1, <2>5, <2>12, Zenon
<1>12. RoundTrip'
  <2> SUFFICES ASSUME NEW k \in 1..(m + 1), Sound(k)
               PROVE  results'[k] = Received(attempts[k].value)'
    BY <1>1, <1>7, <1>9, Zenon DEF RoundTrip
  <2>1. Received(attempts[k].value)' = Received(attempts[k].value)
    BY <1>1, Zenon DEF Received, Readable, Misread
  <2>2. CASE k = m + 1
    <3>1. InStep(m + 1) /\ Countable(value)
      BY <1>4, <2>2, Zenon DEF Sound
    <3>2. QED
      BY <1>4, <1>7, <1>11, <2>1, <2>2, <3>1, Zenon
  <2>3. CASE k # m + 1
    <3>1. k \in 1..m
      BY <2>3
    <3>2. results'[k] = results[k]
      BY <1>7, <3>1
    <3>3. QED
      BY <1>2, <1>3, <2>1, <3>1, <3>2, Zenon DEF RoundTrip
  <2>4. QED
    BY <2>2, <2>3
<1>13. Layout'
  <2>1. \A k \in 1..n : Good(k)' => Laid(off, k)'
    BY <1>1, <1>9, <1>10, Zenon DEF Laid, Encoding
  <2>2. InStep(m + 1)' => idx' = off[m + 1]
    BY <1>9, <1>11, Zenon
  <2>3. Len(results') = m + 1 /\ Len(attempts') = n /\ off[n] = Len(data')
    BY <1>1, <1>3, <1>7, <1>10
  <2>4. QED
    BY <1>10, <2>1, <2>2, <2>3, Zenon DEF Layout
<1>14. QED
  BY <1>6, <1>8, <1>12, <1>13 DEF IInv

\* Sending the packet changes none of this, nor does a step that changes nothing.
LEMMA Unchanged ==
  ASSUME IInv, UNCHANGED <<packer, unpacker, data, idx, attempts, results>>
  PROVE  IInv'
<1>1. packer' = packer /\ unpacker' = unpacker /\ data' = data /\ idx' = idx
      /\ attempts' = attempts /\ results' = results
  OBVIOUS
<1>2. Typed' /\ History'
  BY <1>1 DEF IInv, Typed, History
<1>3. \A k : /\ InStep(k)' <=> InStep(k)
             /\ Sound(k)' <=> Sound(k)
             /\ Good(k)' <=> Good(k)
  BY <1>1, Zenon DEF InStep, Sound, Good
<1>4. RoundTrip'
  BY <1>1, <1>3, Zenon DEF IInv, RoundTrip, Received, Readable, Misread
<1>5. Layout'
  <2>1. PICK off \in [0..Len(attempts) -> Nat] :
          /\ off[0] = 0
          /\ off[Len(attempts)] = Len(data)
          /\ \A k \in 1..Len(attempts) : Good(k) => Laid(off, k)
          /\ InStep(Len(results)) => idx = off[Len(results)]
    BY DEF IInv, Layout
  <2>2. \A k : Laid(off, k)' <=> Laid(off, k)
    BY <1>1, Zenon DEF Laid, Encoding
  <2>3. QED
    BY <1>1, <1>3, <2>1, <2>2, Zenon DEF Layout
<1>6. QED
  BY <1>2, <1>4, <1>5 DEF IInv

\* Each attempt to pack a value left its encoding, if it succeeded, where the Unpacker
\* arrives: an invariant, whatever the values and their order, in each pair of languages.
THEOREM Inductive == Spec => []IInv
<1>1. IInv /\ [Next]_vars => IInv'
  <2> SUFFICES ASSUME IInv, [Next]_vars PROVE IInv'
    OBVIOUS
  <2>1. CASE Pack
    BY <2>1, PackStep
  <2>2. CASE Send
    BY <2>2, Unchanged DEF Send
  <2>3. CASE Unpack
    BY <2>3, UnpackStep
  <2>4. CASE UNCHANGED vars
    BY <2>4, Unchanged DEF vars
  <2>5. QED
    BY <2>1, <2>2, <2>3, <2>4 DEF Next
<1>2. QED
  BY <1>1, InitIInv, PTL DEF Spec

\* Types; and no Packer of C++, nor Packet::append, stores past its packet's data, and no
\* Unpacker of C++ reads past it.
THEOREM TypeCorrect == Spec => []TypeOK
<1>1. IInv => TypeOK
  BY DEF IInv, Typed, History, TypeOK, Byte
<1>2. QED
  BY <1>1, Inductive, PTL

\* Between any two of the languages each value unpacked is the one packed, and of strings that
\* the receiver's language does not take, what Received says: up to their first null in C++, one
\* null for the empty string and an exception for what is not UTF-8 in Python. As long as no pack
\* failed, and no string that Python packed was longer than its length byte counts.
THEOREM ValuesReturn == Spec => []RoundTrip
<1>1. IInv => RoundTrip
  BY DEF IInv
<1>2. QED
  BY <1>1, Inductive, PTL
=============================================================================
