------------------------------ MODULE Proto_proofs ------------------------------
(***************************************************************************)
(* What the encoder writes, any decoder reads back: for every number, text  *)
(* and nested message.                                                     *)
(***************************************************************************)
EXTENDS Emit, SetLemmas, SequenceTheorems

Field == [id : Nat, v : Nat, bytes : Bytes]
Long  == 128 * 128 * 128 * 128  \* what the four bytes of a length cannot say

-----------------------------------------------------------------------------
(* The widths.                                                              *)

\* What the proofs need to know of a word: it is even, and as many bytes of each
\* form as the encoder takes hold it.
LEMMA WordFacts ==
  /\ Words \in Nat /\ 256 <= Words /\ Words <= 128 * 128 * 128 /\ Words % 2 = 0
  /\ \/ WordBytes = 2 /\ Words <= 128 * 128
     \/ WordBytes = 3
  /\ \/ FixedBytes = 1 /\ Words <= 256
     \/ FixedBytes = 2 /\ Words <= 256 * 256
     \/ FixedBytes = 3 /\ Words <= 256 * 256 * 256
<1>1. CASE WordBits = 8
  BY <1>1 DEF Words, WordBytes, FixedBytes
<1>2. CASE WordBits = 9
  BY <1>2 DEF Words, WordBytes, FixedBytes
<1>3. CASE WordBits = 10
  BY <1>3 DEF Words, WordBytes, FixedBytes
<1>4. CASE WordBits = 11
  BY <1>4 DEF Words, WordBytes, FixedBytes
<1>5. CASE WordBits = 12
  BY <1>5 DEF Words, WordBytes, FixedBytes
<1>6. CASE WordBits = 13
  BY <1>6 DEF Words, WordBytes, FixedBytes
<1>7. CASE WordBits = 14
  BY <1>7 DEF Words, WordBytes, FixedBytes
<1>8. CASE WordBits = 15
  BY <1>8 DEF Words, WordBytes, FixedBytes
<1>9. CASE WordBits = 16
  BY <1>9 DEF Words, WordBytes, FixedBytes
<1>10. CASE WordBits = 17
  BY <1>10 DEF Words, WordBytes, FixedBytes
<1>11. CASE WordBits = 18
  BY <1>11 DEF Words, WordBytes, FixedBytes
<1>12. CASE WordBits = 19
  BY <1>12 DEF Words, WordBytes, FixedBytes
<1>13. CASE WordBits = 20
  BY <1>13 DEF Words, WordBytes, FixedBytes
<1>14. CASE WordBits = 21
  BY <1>14 DEF Words, WordBytes, FixedBytes
<1> QED
  BY ProtoAssumption, <1>1, <1>2, <1>3, <1>4, <1>5, <1>6, <1>7, <1>8, <1>9, <1>10, <1>11,
     <1>12, <1>13, <1>14

-----------------------------------------------------------------------------
(* Writing varints.                                                         *)

\* The loop of write_varint ends, so that Varint is the function it defines.
LEMMA VarintEquation ==
  /\ Varint \in [Nat -> Bytes]
  /\ \A v \in Nat :
       Varint[v] = IF v < 128 THEN <<v>> ELSE <<128 + (v % 128)>> \o Varint[v \div 128]
<1> DEFINE G == [p \in Nat \X [Nat -> Bytes] |->
                  IF p[1] < 128 THEN <<p[1]>> ELSE <<128 + (p[1] % 128)>> \o p[2][p[1] \div 128]]
<1>1. ASSUME NEW v \in Nat, NEW f \in [Nat -> Bytes]
      PROVE  (IF v < 128 THEN <<v>> ELSE <<128 + (v % 128)>> \o f[v \div 128]) \in Bytes
  <2>1. v < 128 => <<v>> \in Bytes
    BY DEF Bytes, Byte
  <2>2. <<128 + (v % 128)>> \in Bytes /\ v \div 128 \in Nat
    BY DEF Bytes, Byte
  <2>3. <<128 + (v % 128)>> \o f[v \div 128] \in Bytes
    BY <2>2, ConcatProperties DEF Bytes
  <2> QED BY <2>1, <2>3
<1>2. G \in [Nat \X [Nat -> Bytes] -> Bytes]
  BY <1>1
<1>3. ASSUME NEW n \in Nat, NEW f \in [Nat -> Bytes], NEW g \in [Nat -> Bytes],
             \A k \in 0 .. n - 1 : f[k] = g[k]
      PROVE  G[<<n, f>>] = G[<<n, g>>]
  <2>1. n >= 128 => n \div 128 \in 0 .. n - 1
    OBVIOUS
  <2> QED BY <2>1, <1>3
<1>4. Bytes # {}
  BY EmptySeq DEF Bytes
<1>5. \E f \in [Nat -> Bytes] : f = [n \in Nat |-> G[<<n, f>>]]
  <2> HIDE DEF G
  <2> QED BY <1>2, <1>3, <1>4, Recursion
<1>6. PICK f \in [Nat -> Bytes] : f = [n \in Nat |-> G[<<n, f>>]]
  BY <1>5
<1> DEFINE Loop(h) ==
      [v \in Nat |-> IF v < 128 THEN <<v>> ELSE <<128 + (v % 128)>> \o h[v \div 128]]
<1>7. f = Loop(f)
  <2>1. ASSUME NEW n \in Nat PROVE G[<<n, f>>] = Loop(f)[n]
    OBVIOUS
  <2> HIDE DEF G
  <2> QED BY <1>6, <2>1
<1>8. Varint = CHOOSE h : h = Loop(h)
  BY DEF Varint
<1>9. Varint = Loop(Varint)
  <2> HIDE DEF Loop, G
  <2> QED BY <1>7, <1>8
<1>10. ASSUME NEW v \in Nat
       PROVE  Varint[v] = IF v < 128 THEN <<v>> ELSE <<128 + (v % 128)>> \o Varint[v \div 128]
  <2>1. Varint[v] = Loop(Varint)[v]
    BY <1>9
  <2> QED BY <2>1
<1>11. Varint \in [Nat -> Bytes]
  <2>1. DOMAIN Varint = Nat /\ Varint = [v \in Nat |-> Varint[v]]
    <3>1. DOMAIN Loop(Varint) = Nat /\ Loop(Varint) = [v \in Nat |-> Loop(Varint)[v]]
      OBVIOUS
    <3> HIDE DEF Loop
    <3> QED BY <1>9, <3>1
  <2> HIDE DEF G, Loop
  <2>2. ASSUME NEW n \in Nat, \A k \in 0 .. n - 1 : Varint[k] \in Bytes PROVE Varint[n] \in Bytes
    <3>1. CASE n < 128
      <4>1. Varint[n] = <<n>>
        BY <3>1, <1>10
      <4>2. n \in 0 .. 255
        BY <3>1
      <4>3. <<n>> \in Seq(0 .. 255)
        BY <4>2
      <4> QED BY <4>1, <4>3 DEF Bytes, Byte
    <3>2. CASE ~(n < 128)
      <4>1. n \div 128 \in 0 .. n - 1
        BY <3>2
      <4>2. Varint[n \div 128] \in Bytes /\ <<128 + (n % 128)>> \in Bytes
        BY <2>2, <4>1 DEF Bytes, Byte
      <4>3. Varint[n] = <<128 + (n % 128)>> \o Varint[n \div 128]
        BY <3>2, <1>10
      <4> QED BY <4>2, <4>3, ConcatProperties DEF Bytes
    <3> QED BY <3>1, <3>2
  <2> DEFINE S == {n \in Nat : Varint[n] \in Bytes}
  <2>3. S = Nat
    <3>1. S \in SUBSET Nat
      OBVIOUS
    <3>2. \A n \in Nat : (\A k \in 0 .. n - 1 : k \in S) => n \in S
      BY <2>2
    <3> HIDE DEF S
    <3> QED BY <3>1, <3>2, StrongInduction
  <2> QED BY <2>1, <2>3
<1> QED BY <1>10, <1>11

\* The numbers of the bytes of a varint b, its value v, and where it ends.
Digit(b, k) == IF k > Len(b) THEN 0 ELSE b[k] % 128
IsVarint(b, v) ==
  /\ b \in Bytes /\ v \in Nat /\ v < Long /\ Len(b) \in Nat /\ 1 <= Len(b) /\ Len(b) <= 4
  /\ \A i \in 1 .. Len(b) : b[i] < 128 <=> i = Len(b)
  /\ v = Digit(b, 1) + 128 * (Digit(b, 2) + 128 * (Digit(b, 3) + 128 * Digit(b, 4)))

LEMMA LowBits == \A x \in 0 .. 255 : x % 128 \in 0 .. 127
OBVIOUS

LEMMA LongFacts ==
  /\ Long \in Nat /\ 128 <= Long /\ 128 * 128 < Long /\ 128 * 128 * 128 < Long
  /\ Long = 128 * (128 * 128 * 128)
BY DEF Long

\* One more round of the loop.
LEMMA VarintRound ==
  ASSUME NEW b, NEW w, IsVarint(b, w), Len(b) <= 3, NEW d \in 0 .. 127
  PROVE  /\ IsVarint(<<128 + d>> \o b, 128 * w + d)
         /\ Len(<<128 + d>> \o b) = Len(b) + 1
<1> DEFINE c == <<128 + d>> \o b
<1>1. b \in Bytes /\ w \in Nat /\ Len(b) \in Nat /\ 1 <= Len(b) /\ Len(b) <= 3
  BY DEF IsVarint
<1>2. <<128 + d>> \in Bytes /\ Len(<<128 + d>>) = 1 /\ <<128 + d>>[1] = 128 + d
  BY DEF Bytes, Byte
<1>3. /\ c \in Bytes /\ Len(c) = 1 + Len(b)
      /\ \A i \in 1 .. 1 + Len(b) : c[i] = IF i <= 1 THEN <<128 + d>>[i] ELSE b[i - 1]
  BY <1>1, <1>2, ConcatProperties DEF Bytes
<1>4. c[1] = 128 + d /\ \A i \in 1 .. Len(b) : c[i + 1] = b[i]
  BY <1>1, <1>2, <1>3
<1> HIDE DEF c
<1>5. \A i \in 1 .. Len(b) : b[i] \in Byte
  BY <1>1, ElementOfSeq DEF Bytes
<1>6. ASSUME NEW i \in 1 .. Len(c) PROVE c[i] < 128 <=> i = Len(c)
  <2>1. CASE i = 1
    <3>1. c[i] = 128 + d /\ i # Len(c)
      BY <1>1, <1>3, <1>4, <2>1
    <3> QED BY <3>1
  <2>2. CASE i # 1
    <3>1. i - 1 \in 1 .. Len(b) /\ c[i] = b[i - 1]
      <4>1. i - 1 \in 1 .. Len(b) /\ (i - 1) + 1 = i
        BY <1>1, <1>3, <2>2
      <4> QED BY <4>1, <1>4
    <3>2. b[i - 1] < 128 <=> i - 1 = Len(b)
      BY <3>1 DEF IsVarint
    <3> QED BY <1>1, <1>3, <3>1, <3>2
  <2> QED BY <2>1, <2>2
<1>7. /\ Digit(c, 1) = d
      /\ Digit(c, 2) = Digit(b, 1) /\ Digit(c, 3) = Digit(b, 2) /\ Digit(c, 4) = Digit(b, 3)
      /\ Digit(b, 4) = 0
  <2>1. Digit(c, 1) = d
    BY <1>1, <1>3, <1>4 DEF Digit
  <2>2. ASSUME NEW k \in 1 .. 3 PROVE Digit(c, k + 1) = Digit(b, k)
    <3>1. k <= Len(b) => c[k + 1] = b[k]
      BY <1>1, <1>4
    <3> QED BY <1>1, <1>3, <3>1 DEF Digit
  <2>3. Digit(b, 4) = 0
    BY <1>1 DEF Digit
  <2>4. Digit(c, 1 + 1) = Digit(b, 1) /\ Digit(c, 2 + 1) = Digit(b, 2) /\ Digit(c, 3 + 1) = Digit(b, 3)
    BY <2>2
  <2> QED BY <2>1, <2>3, <2>4
<1>8. Digit(b, 1) \in 0 .. 127 /\ Digit(b, 2) \in 0 .. 127 /\ Digit(b, 3) \in 0 .. 127
  <2>1. ASSUME NEW k \in 1 .. 3 PROVE Digit(b, k) \in 0 .. 127
    <3>1. CASE k > Len(b)
      BY <3>1 DEF Digit
    <3>2. CASE ~(k > Len(b))
      <4>1. b[k] \in 0 .. 255
        BY <1>1, <1>5, <3>2 DEF Byte
      <4>2. b[k] % 128 \in 0 .. 127
        BY <4>1, LowBits
      <4> QED BY <3>2, <4>2 DEF Digit
    <3> QED BY <3>1, <3>2
  <2> QED BY <2>1
<1>9. PICK p \in 0 .. 127, q \in 0 .. 127, r \in 0 .. 127 :
        p = Digit(b, 1) /\ q = Digit(b, 2) /\ r = Digit(b, 3)
  BY <1>8
<1>10. /\ 128 * w + d \in Nat /\ 128 * w + d < Long
       /\ 128 * w + d = Digit(c, 1) + 128 * (Digit(c, 2) + 128 * (Digit(c, 3) + 128 * Digit(c, 4)))
  <2>1. w = p + 128 * (q + 128 * (r + 128 * 0))
    BY <1>7, <1>9 DEF IsVarint
  <2>2. w = p + 128 * (q + 128 * r)
    BY <2>1
  <2>3. 128 * w + d \in Nat /\ 128 * w + d < Long /\ 128 * w + d = d + 128 * (p + 128 * (q + 128 * r))
    BY <2>2 DEF Long
  <2> QED BY <1>7, <1>9, <2>3
<1>11. Len(c) \in Nat /\ 1 <= Len(c) /\ Len(c) <= 4
  BY <1>1, <1>3
<1>12. IsVarint(c, 128 * w + d)
  BY <1>3, <1>6, <1>10, <1>11 DEF IsVarint
<1> QED BY <1>1, <1>3, <1>12 DEF c

\* write_varint writes a varint of its value, in as few bytes as hold it.
LEMMA VarintWritten ==
  ASSUME NEW v \in Nat, v < Long
  PROVE  IsVarint(Varint[v], v)
<1> DEFINE Within(n, m) ==
             \A w \in Nat : w < m => IsVarint(Varint[w], w) /\ Len(Varint[w]) <= n
<1>1. ASSUME NEW w \in Nat, w < 128 PROVE IsVarint(Varint[w], w) /\ Len(Varint[w]) = 1
  <2>1. Varint[w] = <<w>>
    BY <1>1, VarintEquation
  <2>2. <<w>> \in Bytes /\ Len(<<w>>) = 1 /\ <<w>>[1] = w
    BY <1>1 DEF Bytes, Byte
  <2>3. /\ Digit(<<w>>, 1) = w /\ Digit(<<w>>, 2) = 0 /\ Digit(<<w>>, 3) = 0
        /\ Digit(<<w>>, 4) = 0
    BY <1>1, <2>2 DEF Digit
  <2>4. \A i \in 1 .. Len(<<w>>) : <<w>>[i] < 128 <=> i = Len(<<w>>)
    BY <1>1, <2>2
  <2>5. w < Long
    BY <1>1, LongFacts
  <2>6. w = w + 128 * (0 + 128 * (0 + 128 * 0))
    OBVIOUS
  <2>7. IsVarint(<<w>>, w)
    BY <2>2, <2>3, <2>4, <2>5, <2>6 DEF IsVarint
  <2> QED BY <2>1, <2>2, <2>7
<1>2. ASSUME NEW n \in 1 .. 3, NEW m \in Nat, m <= 128 * 128 * 128, Within(n, m)
      PROVE  Within(n + 1, 128 * m)
  <2> SUFFICES ASSUME NEW w \in Nat, w < 128 * m
               PROVE  IsVarint(Varint[w], w) /\ Len(Varint[w]) <= n + 1
    OBVIOUS
  <2>1. CASE w < 128
    <3>1. IsVarint(Varint[w], w) /\ Len(Varint[w]) = 1
      BY <1>1, <2>1
    <3> QED BY <3>1
  <2>2. CASE ~(w < 128)
    <3>1. /\ w \div 128 \in Nat /\ w \div 128 < m /\ w % 128 \in 0 .. 127
          /\ w = 128 * (w \div 128) + (w % 128)
      BY <1>2
    <3>2. IsVarint(Varint[w \div 128], w \div 128) /\ Len(Varint[w \div 128]) <= n
      BY <1>2, <3>1
    <3>3. Len(Varint[w \div 128]) \in Nat /\ Len(Varint[w \div 128]) <= 3
      BY <3>2 DEF IsVarint
    <3>4. Varint[w] = <<128 + (w % 128)>> \o Varint[w \div 128]
      BY <2>2, VarintEquation
    <3>5. /\ IsVarint(<<128 + (w % 128)>> \o Varint[w \div 128], 128 * (w \div 128) + (w % 128))
          /\ Len(<<128 + (w % 128)>> \o Varint[w \div 128]) = Len(Varint[w \div 128]) + 1
      BY <3>1, <3>2, <3>3, VarintRound
    <3>6. IsVarint(Varint[w], w) /\ Len(Varint[w]) = Len(Varint[w \div 128]) + 1
      BY <3>1, <3>4, <3>5
    <3> QED BY <3>2, <3>3, <3>6
  <2> QED BY <2>1, <2>2
<1>3. Within(1, 128)
  <2> SUFFICES ASSUME NEW w \in Nat, w < 128
               PROVE  IsVarint(Varint[w], w) /\ Len(Varint[w]) <= 1
    OBVIOUS
  <2>1. IsVarint(Varint[w], w) /\ Len(Varint[w]) = 1
    BY <1>1
  <2> QED BY <2>1
<1> HIDE DEF Within
<1>4. Within(1 + 1, 128 * 128)
  BY <1>2, <1>3
<1>5. Within(2 + 1, 128 * (128 * 128))
  <2>1. 1 + 1 = 2 /\ 128 * 128 \in Nat
    OBVIOUS
  <2> QED BY <1>2, <1>4, <2>1
<1>6. Within(3 + 1, 128 * (128 * 128 * 128))
  <2>1. 2 + 1 = 3 /\ 128 * (128 * 128) = 128 * 128 * 128 /\ 128 * 128 * 128 \in Nat
    OBVIOUS
  <2> QED BY <1>2, <1>5, <2>1
<1> QED BY <1>6, LongFacts DEF Within

\* A redundant varint of n bytes is one of any value they hold.
LEMMA RedundantWritten ==
  ASSUME NEW n \in {2, 3, 4}, NEW v \in Nat,
         n = 2 => v < 128 * 128, n = 3 => v < 128 * 128 * 128, n = 4 => v < Long
  PROVE  IsVarint(Redundant(v, n), v) /\ Len(Redundant(v, n)) = n
<1> DEFINE b == Redundant(v, n)
<1>1. /\ 128 ^ (1 - 1) = 1 /\ 128 ^ (2 - 1) = 128 /\ 128 ^ (3 - 1) = 128 * 128
      /\ 128 ^ (4 - 1) = 128 * 128 * 128
  OBVIOUS
<1>2. b = [i \in 1 .. n |-> ((v \div 128 ^ (i - 1)) % 128) + IF i = n THEN 0 ELSE 128]
  BY DEF Redundant
<1>3. /\ b[1] = (v % 128) + 128
      /\ b[2] = ((v \div 128) % 128) + IF n = 2 THEN 0 ELSE 128
      /\ n >= 3 => b[3] = ((v \div (128 * 128)) % 128) + IF n = 3 THEN 0 ELSE 128
      /\ n = 4 => b[4] = (v \div (128 * 128 * 128)) % 128
  BY <1>1, <1>2
<1> HIDE DEF b
<1>4. \A i \in 1 .. n : b[i] \in Byte /\ (b[i] < 128 <=> i = n)
  <2>1. \A i \in 1 .. n : i = 1 \/ i = 2 \/ (i = 3 /\ n >= 3) \/ (i = 4 /\ n = 4)
    OBVIOUS
  <2> QED BY <1>3, <2>1 DEF Byte
<1>5. b \in Bytes /\ Len(b) = n
  <2>1. b = [i \in 1 .. n |-> b[i]]
    BY <1>2
  <2>2. b \in [1 .. n -> Byte]
    BY <1>4, <2>1
  <2> QED BY <2>2 DEF Bytes
<1>6. /\ Digit(b, 1) = v % 128 /\ Digit(b, 2) = (v \div 128) % 128
      /\ Digit(b, 3) = IF n >= 3 THEN (v \div (128 * 128)) % 128 ELSE 0
      /\ Digit(b, 4) = IF n = 4 THEN (v \div (128 * 128 * 128)) % 128 ELSE 0
  BY <1>3, <1>5 DEF Digit
<1>7. /\ v = Digit(b, 1) + 128 * (Digit(b, 2) + 128 * (Digit(b, 3) + 128 * Digit(b, 4)))
      /\ v < Long
  <2>1. CASE n = 2
    <3>1. v = (v % 128) + 128 * (((v \div 128) % 128) + 128 * (0 + 128 * 0))
      BY <2>1
    <3> QED BY <1>6, <2>1, <3>1, LongFacts
  <2>2. CASE n = 3
    <3>1. v = (v % 128) + 128 * (((v \div 128) % 128) + 128 * (((v \div (128 * 128)) % 128) + 128 * 0))
      BY <2>2
    <3> QED BY <1>6, <2>2, <3>1, LongFacts
  <2>3. CASE n = 4
    <3>1. v = (v % 128) + 128 * (((v \div 128) % 128) + 128 * (((v \div (128 * 128)) % 128) + 128 * ((v \div (128 * 128 * 128)) % 128)))
      BY <2>3 DEF Long
    <3> QED BY <1>6, <2>3, <3>1, LongFacts
  <2> QED BY <2>1, <2>2, <2>3
<1>8. IsVarint(b, v)
  BY <1>4, <1>5, <1>7 DEF IsVarint
<1> QED BY <1>5, <1>8 DEF b
-----------------------------------------------------------------------------
(* Reading.                                                                 *)

LEMMA MinOf ==
  ASSUME NEW S \in SUBSET Nat, S # {}
  PROVE  Min(S) \in S /\ \A j \in S : Min(S) <= j
<1>1. \E i \in S : \A j \in S : i <= j
  BY Least
<1> QED BY <1>1 DEF Min

LEMMA MinIs ==
  ASSUME NEW S \in SUBSET Nat, NEW m \in S, \A j \in S : m <= j
  PROVE  Min(S) = m
<1>1. Min(S) \in S /\ \A j \in S : Min(S) <= j
  BY MinOf
<1>2. PICK n \in S : n = Min(S)
  BY <1>1
<1>3. n \in Nat /\ m \in Nat
  OBVIOUS
<1>4. m <= n /\ n <= m
  BY <1>1, <1>2
<1> QED BY <1>2, <1>3, <1>4

\* Where a varint at i may end, and its digits.
Ends(b, i) == {j \in i .. Len(b) : j < i + LenBytes /\ b[j] < 128}
DigitTo(b, last, k) == IF k > last THEN 0 ELSE b[k] % 128

LEMMA VarintAtIs ==
  ASSUME NEW b, NEW i
  PROVE  /\ Ends(b, i) = {} => VarintAt(b, i) = [v |-> 0, next |-> Len(b) + 2]
         /\ Ends(b, i) # {} =>
              VarintAt(b, i) =
                [v |-> DigitTo(b, Min(Ends(b, i)), i)
                         + 128 * (DigitTo(b, Min(Ends(b, i)), i + 1)
                         + 128 * (DigitTo(b, Min(Ends(b, i)), i + 2)
                         + 128 * DigitTo(b, Min(Ends(b, i)), i + 3))),
                 next |-> Min(Ends(b, i)) + 1]
BY DEF VarintAt, Ends, DigitTo

LEMMA EndsFacts ==
  ASSUME NEW b \in Bytes, NEW i \in Nat, i >= 1
  PROVE  /\ Ends(b, i) \in SUBSET Nat
         /\ Ends(b, i) # {} =>
              /\ Min(Ends(b, i)) \in Nat /\ Min(Ends(b, i)) >= i /\ Min(Ends(b, i)) <= Len(b)
              /\ \A k \in Nat : k >= i => DigitTo(b, Min(Ends(b, i)), k) \in 0 .. 127
<1>1. Len(b) \in Nat
  BY LenProperties DEF Bytes
<1>2. Ends(b, i) \in SUBSET Nat
  BY <1>1 DEF Ends
<1>3. ASSUME Ends(b, i) # {}
      PROVE  /\ Min(Ends(b, i)) \in Nat /\ Min(Ends(b, i)) >= i /\ Min(Ends(b, i)) <= Len(b)
             /\ \A k \in Nat : k >= i => DigitTo(b, Min(Ends(b, i)), k) \in 0 .. 127
  <2>1. PICK m \in Ends(b, i) : m = Min(Ends(b, i))
    BY <1>2, <1>3, MinOf
  <2>2. m \in Nat /\ m >= i /\ m <= Len(b)
    BY <1>1, <2>1 DEF Ends
  <2>3. ASSUME NEW k \in Nat, k >= i PROVE DigitTo(b, m, k) \in 0 .. 127
    <3>1. CASE k > m
      BY <3>1 DEF DigitTo
    <3>2. CASE ~(k > m)
      <4>1. k \in 1 .. Len(b)
        BY <1>1, <2>2, <2>3, <3>2
      <4>2. b[k] \in 0 .. 255
        BY <4>1, ElementOfSeq DEF Bytes, Byte
      <4>3. b[k] % 128 \in 0 .. 127
        BY <4>2, LowBits
      <4> QED BY <3>2, <4>3 DEF DigitTo
    <3> QED BY <3>1, <3>2
  <2> QED BY <2>1, <2>2, <2>3
<1> QED BY <1>2, <1>3

LEMMA VarintAtType ==
  ASSUME NEW b \in Bytes, NEW i \in Nat, i >= 1
  PROVE  /\ VarintAt(b, i).v \in Nat /\ VarintAt(b, i).next \in Nat
         /\ VarintAt(b, i).next = Len(b) + 2
              \/ (VarintAt(b, i).next > i /\ VarintAt(b, i).next <= Len(b) + 1)
<1>1. Len(b) \in Nat
  BY LenProperties DEF Bytes
<1>2. CASE Ends(b, i) = {}
  BY <1>1, <1>2, VarintAtIs
<1>3. CASE Ends(b, i) # {}
  <2>1. PICK m \in Nat, p \in 0 .. 127, q \in 0 .. 127, r \in 0 .. 127, s \in 0 .. 127 :
          /\ m = Min(Ends(b, i)) /\ m >= i /\ m <= Len(b)
          /\ p = DigitTo(b, m, i) /\ q = DigitTo(b, m, i + 1) /\ r = DigitTo(b, m, i + 2)
          /\ s = DigitTo(b, m, i + 3)
    <3>1. i + 1 \in Nat /\ i + 2 \in Nat /\ i + 3 \in Nat /\ i >= i /\ i + 1 >= i /\ i + 2 >= i /\ i + 3 >= i
      OBVIOUS
    <3> QED BY <1>3, <3>1, EndsFacts
  <2>2. VarintAt(b, i) = [v |-> p + 128 * (q + 128 * (r + 128 * s)), next |-> m + 1]
    BY <1>3, <2>1, VarintAtIs
  <2>3. PICK w \in Nat : w = p + 128 * (q + 128 * (r + 128 * s))
    OBVIOUS
  <2>4. VarintAt(b, i).v = w /\ VarintAt(b, i).next = m + 1
    BY <2>2, <2>3
  <2>5. m + 1 \in Nat /\ m + 1 > i /\ m + 1 <= Len(b) + 1
    BY <1>1, <2>1
  <2> QED BY <2>4, <2>5
<1> QED BY <1>2, <1>3

\* A varint is read the same wherever it is.
LEMMA VarintAtShift ==
  ASSUME NEW x \in Bytes, NEW y \in Bytes, NEW i \in Nat, i >= 1
  PROVE  VarintAt(x \o y, Len(x) + i)
           = [v |-> VarintAt(y, i).v, next |-> Len(x) + VarintAt(y, i).next]
<1> DEFINE b == x \o y
           n == Len(x)
<1>1. n \in Nat /\ Len(y) \in Nat
  BY LenProperties DEF Bytes
<1>2. b \in Bytes /\ Len(b) = n + Len(y)
  BY ConcatProperties DEF Bytes
<1>3. \A j \in 1 .. Len(y) : b[n + j] = y[j]
  <2>1. \A j \in 1 .. n + Len(y) : b[j] = IF j <= n THEN x[j] ELSE y[j - n]
    BY ConcatProperties DEF Bytes
  <2> HIDE DEF b, n
  <2>2. ASSUME NEW j \in 1 .. Len(y) PROVE b[n + j] = y[j]
    <3>1. n + j \in 1 .. n + Len(y) /\ ~(n + j <= n) /\ (n + j) - n = j
      BY <1>1
    <3>2. b[n + j] = IF n + j <= n THEN x[n + j] ELSE y[(n + j) - n]
      BY <2>1, <3>1
    <3> QED BY <3>1, <3>2
  <2> QED BY <2>2
<1> HIDE DEF b, n
<1>4. \A j \in Nat : j \in Ends(y, i) <=> n + j \in Ends(b, n + i)
  <2> SUFFICES ASSUME NEW j \in Nat PROVE j \in Ends(y, i) <=> n + j \in Ends(b, n + i)
    OBVIOUS
  <2>1. j \in i .. Len(y) <=> n + j \in n + i .. Len(b)
    BY <1>1, <1>2
  <2>2. j < i + LenBytes <=> n + j < n + i + LenBytes
    BY <1>1 DEF LenBytes
  <2>3. j \in i .. Len(y) => b[n + j] = y[j]
    BY <1>1, <1>3
  <2> QED BY <2>1, <2>2, <2>3 DEF Ends
<1>5. \A j \in Ends(b, n + i) : j - n \in Nat /\ j - n \in Ends(y, i)
  <2> SUFFICES ASSUME NEW j \in Ends(b, n + i) PROVE j - n \in Nat /\ j - n \in Ends(y, i)
    OBVIOUS
  <2>1. j \in n + i .. Len(b)
    BY DEF Ends
  <2>2. j - n \in Nat /\ n + (j - n) = j
    BY <1>1, <1>2, <2>1
  <2> QED BY <1>4, <2>2
<1>6. CASE Ends(y, i) = {}
  <2>1. Ends(b, n + i) = {}
    BY <1>5, <1>6
  <2>2. VarintAt(b, n + i) = [v |-> 0, next |-> Len(b) + 2]
    BY <2>1, VarintAtIs
  <2>3. VarintAt(y, i) = [v |-> 0, next |-> Len(y) + 2]
    BY <1>6, VarintAtIs
  <2>4. Len(b) + 2 = n + (Len(y) + 2)
    BY <1>1, <1>2
  <2> QED BY <2>2, <2>3, <2>4 DEF b, n
<1>7. CASE Ends(y, i) # {}
  <2>1. PICK m \in Ends(y, i) : m = Min(Ends(y, i)) /\ \A j \in Ends(y, i) : m <= j
    BY <1>7, EndsFacts, MinOf
  <2>2. m \in Nat /\ m >= i /\ m <= Len(y)
    BY <1>1, <2>1, <1>7, EndsFacts
  <2>3. n + m \in Ends(b, n + i)
    BY <1>4, <2>1, <2>2
  <2>4. \A j \in Ends(b, n + i) : n + m <= j
    <3>1. ASSUME NEW j \in Ends(b, n + i) PROVE n + m <= j
      <4>1. j - n \in Nat /\ m <= j - n
        BY <1>5, <2>1
      <4>2. j \in Int
        BY <1>1, <1>2 DEF Ends
      <4> QED BY <1>1, <2>2, <4>1, <4>2
    <3> QED BY <3>1
  <2>5. Min(Ends(b, n + i)) = n + m
    <3>1. n + i \in Nat /\ n + i >= 1
      BY <1>1
    <3>2. Ends(b, n + i) \in SUBSET Nat
      BY <1>2, <3>1, EndsFacts
    <3> QED BY <2>3, <2>4, <3>2, MinIs
  <2>6. ASSUME NEW k \in Nat, k >= i PROVE DigitTo(b, n + m, n + k) = DigitTo(y, m, k)
    <3>1. n + k > n + m <=> k > m
      BY <1>1, <2>2
    <3>2. ~(k > m) => b[n + k] = y[k]
      BY <1>1, <1>3, <2>2, <2>6
    <3> QED BY <3>1, <3>2 DEF DigitTo
  <2>7. /\ DigitTo(b, n + m, n + i) = DigitTo(y, m, i)
        /\ DigitTo(b, n + m, n + i + 1) = DigitTo(y, m, i + 1)
        /\ DigitTo(b, n + m, n + i + 2) = DigitTo(y, m, i + 2)
        /\ DigitTo(b, n + m, n + i + 3) = DigitTo(y, m, i + 3)
    <3>1. /\ n + i + 1 = n + (i + 1) /\ n + i + 2 = n + (i + 2) /\ n + i + 3 = n + (i + 3)
          /\ i + 1 \in Nat /\ i + 2 \in Nat /\ i + 3 \in Nat
          /\ i >= i /\ i + 1 >= i /\ i + 2 >= i /\ i + 3 >= i
      BY <1>1
    <3> QED BY <2>6, <3>1
  <2>8. (n + m) + 1 = n + (m + 1)
    BY <1>1, <2>2
  <2>9. VarintAt(y, i) = [v |-> DigitTo(y, m, i) + 128 * (DigitTo(y, m, i + 1)
                                  + 128 * (DigitTo(y, m, i + 2) + 128 * DigitTo(y, m, i + 3))),
                          next |-> m + 1]
    BY <1>7, <2>1, VarintAtIs
  <2>10. VarintAt(b, n + i) = [v |-> DigitTo(y, m, i) + 128 * (DigitTo(y, m, i + 1)
                                      + 128 * (DigitTo(y, m, i + 2) + 128 * DigitTo(y, m, i + 3))),
                               next |-> n + (m + 1)]
    <3>1. Ends(b, n + i) # {}
      BY <2>3
    <3> QED BY <3>1, <2>5, <2>7, <2>8, VarintAtIs
  <2> QED BY <2>9, <2>10 DEF b, n
<1> QED BY <1>6, <1>7

\* A varint is read as its value, whatever follows it.
LEMMA VarintRead ==
  ASSUME NEW b, NEW v, IsVarint(b, v), NEW y \in Bytes
  PROVE  VarintAt(b \o y, 1) = [v |-> v, next |-> Len(b) + 1]
<1> DEFINE c == b \o y
           n == Len(b)
<1>1. b \in Bytes /\ n \in Nat /\ 1 <= n /\ n <= 4 /\ Len(y) \in Nat
  BY LenProperties DEF IsVarint, Bytes
<1>2. c \in Bytes /\ Len(c) = n + Len(y)
  BY <1>1, ConcatProperties DEF Bytes
<1>3. \A j \in 1 .. n : c[j] = b[j]
  <2>1. \A j \in 1 .. n + Len(y) : c[j] = IF j <= n THEN b[j] ELSE y[j - n]
    BY <1>1, ConcatProperties DEF Bytes
  <2> HIDE DEF c, n
  <2> QED BY <1>1, <2>1
<1>4. \A i \in 1 .. n : b[i] < 128 <=> i = n
  BY DEF IsVarint
<1> HIDE DEF c, n
<1>5. n \in Ends(c, 1)
  BY <1>1, <1>2, <1>3, <1>4 DEF Ends, LenBytes
<1>6. \A j \in Ends(c, 1) : n <= j
  BY <1>1, <1>2, <1>3, <1>4 DEF Ends
<1>7. Min(Ends(c, 1)) = n
  <2>1. Ends(c, 1) \in SUBSET Nat
    BY <1>2, EndsFacts
  <2> QED BY <1>5, <1>6, <2>1, MinIs
<1>8. /\ DigitTo(c, n, 1) = Digit(b, 1) /\ DigitTo(c, n, 1 + 1) = Digit(b, 2)
      /\ DigitTo(c, n, 1 + 2) = Digit(b, 3) /\ DigitTo(c, n, 1 + 3) = Digit(b, 4)
  <2>1. \A k \in 1 .. 4 : DigitTo(c, n, k) = Digit(b, k)
    BY <1>1, <1>3 DEF DigitTo, Digit, n
  <2>2. 1 + 1 = 2 /\ 1 + 2 = 3 /\ 1 + 3 = 4
    OBVIOUS
  <2> QED BY <2>1, <2>2
<1>9. VarintAt(c, 1) = [v |-> Digit(b, 1) + 128 * (Digit(b, 2) + 128 * (Digit(b, 3) + 128 * Digit(b, 4))),
                        next |-> n + 1]
  <2>1. Ends(c, 1) # {}
    BY <1>5
  <2> QED BY <1>7, <1>8, <2>1, VarintAtIs
<1> QED BY <1>9 DEF IsVarint, c, n

\* The bytes of the rest of a sequence are those of the whole.
LEMMA Shifted ==
  ASSUME NEW x \in Bytes, NEW y \in Bytes
  PROVE  /\ Len(x) \in Nat /\ Len(y) \in Nat
         /\ x \o y \in Bytes /\ Len(x \o y) = Len(x) + Len(y)
         /\ \A j \in 1 .. Len(x) : (x \o y)[j] = x[j]
         /\ \A j \in 1 .. Len(y) : (x \o y)[Len(x) + j] = y[j]
         /\ \A i, j \in Int : i >= 1 /\ j <= Len(y)
              => SubSeq(x \o y, Len(x) + i, Len(x) + j) = SubSeq(y, i, j)
<1> DEFINE b == x \o y
           n == Len(x)
<1>1. n \in Nat /\ Len(y) \in Nat
  BY LenProperties DEF Bytes
<1>2. b \in Bytes /\ Len(b) = n + Len(y)
  BY ConcatProperties DEF Bytes
<1>3. \A j \in 1 .. n + Len(y) : b[j] = IF j <= n THEN x[j] ELSE y[j - n]
  BY ConcatProperties DEF Bytes
<1> HIDE DEF b, n
<1>4. ASSUME NEW j \in 1 .. Len(y) PROVE b[n + j] = y[j]
  <2>1. n + j \in 1 .. n + Len(y) /\ ~(n + j <= n) /\ (n + j) - n = j
    BY <1>1
  <2>2. b[n + j] = IF n + j <= n THEN x[n + j] ELSE y[(n + j) - n]
    BY <1>3, <2>1
  <2> QED BY <2>1, <2>2
<1>5. \A j \in 1 .. n : b[j] = x[j]
  BY <1>1, <1>3
<1>6. ASSUME NEW i \in Int, NEW j \in Int, i >= 1, j <= Len(y)
      PROVE  SubSeq(b, n + i, n + j) = SubSeq(y, i, j)
  <2>1. CASE j < i
    <3>1. n + j < n + i /\ n + j \in Int /\ n + i \in Int
      BY <1>1, <2>1
    <3> QED BY <2>1, <3>1, SubSeqEmpty
  <2>2. CASE ~(j < i)
    <3>1. /\ i \in 1 .. Len(y) /\ j \in 1 .. Len(y)
          /\ n + i \in n + 1 .. n + Len(y) /\ n + j \in n + 1 .. n + Len(y)
          /\ (n + i) - n = i /\ (n + j) - n = j
      BY <1>1, <1>6, <2>2
    <3>2. \A k, l \in n + 1 .. n + Len(y) : SubSeq(b, k, l) = SubSeq(y, k - n, l - n)
      BY SubSeqOfConcat2 DEF Bytes, n, b
    <3>3. SubSeq(b, n + i, n + j) = SubSeq(y, (n + i) - n, (n + j) - n)
      BY <3>1, <3>2
    <3> QED BY <3>1, <3>3
  <2> QED BY <2>1, <2>2
<1> QED BY <1>1, <1>2, <1>4, <1>5, <1>6 DEF b, n

\* The field at i.
At(b, i) == FieldAt(b, VarintAt(b, i))

LEMMA FixedAtType ==
  ASSUME NEW b \in Bytes, NEW at \in Nat, at >= 1, at + FixedBytes <= Len(b) + 1
  PROVE  FixedAt(b, at) \in Nat
<1>1. Len(b) \in Nat /\ \A j \in 1 .. Len(b) : b[j] \in 0 .. 255
  BY LenProperties, ElementOfSeq DEF Bytes, Byte
<1> DEFINE D(k) == IF k < FixedBytes THEN b[at + k] ELSE 0
<1>2. ASSUME NEW k \in 0 .. 2 PROVE D(k) \in Nat
  <2>1. k < FixedBytes => at + k \in 1 .. Len(b)
    BY <1>1, WordFacts
  <2>2. CASE k < FixedBytes
    <3>1. PICK c \in 0 .. 255 : c = b[at + k]
      BY <1>1, <2>1, <2>2
    <3>2. D(k) = b[at + k]
      BY <2>2
    <3>3. c \in Nat
      OBVIOUS
    <3> HIDE DEF D
    <3> QED BY <3>1, <3>2, <3>3
  <2>3. CASE ~(k < FixedBytes)
    BY <2>3
  <2> QED BY <2>2, <2>3
<1>3. PICK p \in Nat, q \in Nat, r \in Nat : p = D(0) /\ q = D(1) /\ r = D(2)
  BY <1>2
<1>4. FixedAt(b, at) = p + 256 * (q + 256 * r)
  BY <1>3 DEF FixedAt
<1> QED BY <1>4

LEMMA FieldAtType ==
  ASSUME NEW b \in Bytes, NEW i \in Nat, i >= 1
  PROVE  /\ At(b, i).f \in Field /\ At(b, i).next \in Nat
         /\ i <= Len(b) => At(b, i).next > i
<1>1. Len(b) \in Nat
  BY LenProperties DEF Bytes
<1>2. PICK tag : tag = VarintAt(b, i)
  OBVIOUS
<1>3. /\ tag.v \in Nat /\ tag.next \in Nat /\ tag.next >= 1
      /\ i <= Len(b) => tag.next > i
  <2>1. /\ tag.v \in Nat /\ tag.next \in Nat
        /\ tag.next = Len(b) + 2 \/ (tag.next > i /\ tag.next <= Len(b) + 1)
    BY <1>2, VarintAtType
  <2> QED BY <1>1, <2>1
<1>4. PICK size : size = VarintAt(b, tag.next)
  OBVIOUS
<1>5. /\ size.v \in Nat /\ size.next \in Nat /\ size.next >= 1
      /\ i <= Len(b) => size.next > i
  <2>1. /\ size.v \in Nat /\ size.next \in Nat
        /\ size.next = Len(b) + 2 \/ (size.next > tag.next /\ size.next <= Len(b) + 1)
    BY <1>3, <1>4, VarintAtType
  <2> QED BY <1>1, <1>3, <2>1
<1>6. At(b, i) = FieldOf(b, tag, size)
  BY <1>2, <1>4 DEF At, FieldAt
<1>7. PICK id \in Nat : id = tag.v \div 8
  BY <1>3
<1>8. <<>> \in Bytes
  BY EmptySeq DEF Bytes
<1> DEFINE Good(r) == /\ r.f \in Field /\ r.next \in Nat
                      /\ i <= Len(b) => r.next > i
<1>9. CASE tag.v % 8 = 0
  <2>1. size.v % Words \in Nat
    BY <1>5, WordFacts
  <2>2. FieldOf(b, tag, size)
          = [f |-> [id |-> id, v |-> size.v % Words, bytes |-> <<>>], next |-> size.next]
    BY <1>7, <1>9 DEF FieldOf
  <2> QED BY <1>5, <1>6, <1>8, <2>1, <2>2 DEF Field
<1>10. CASE tag.v % 8 = 1 /\ tag.next + FixedBytes <= Len(b) + 1
  <2>1. FixedAt(b, tag.next) \in Nat
    BY <1>3, <1>10, FixedAtType
  <2>2. FieldOf(b, tag, size)
          = [f |-> [id |-> id, v |-> FixedAt(b, tag.next), bytes |-> <<>>],
             next |-> tag.next + FixedBytes]
    BY <1>7, <1>10 DEF FieldOf
  <2>3. tag.next + FixedBytes \in Nat /\ (i <= Len(b) => tag.next + FixedBytes > i)
    BY <1>1, <1>3, WordFacts
  <2> QED BY <1>6, <1>8, <2>1, <2>2, <2>3 DEF Field
<1>11. CASE tag.v % 8 = 2 /\ size.next + size.v <= Len(b) + 1
  <2>1. PICK s : s = SubSeq(b, size.next, size.next + size.v - 1)
    OBVIOUS
  <2>2. s \in Bytes
    <3>1. \A j \in size.next .. size.next + size.v - 1 : b[j] \in Byte
      <4>1. \A j \in size.next .. size.next + size.v - 1 : j \in 1 .. Len(b)
        BY <1>1, <1>5, <1>11
      <4> QED BY <4>1, ElementOfSeq DEF Bytes
    <3>2. size.next \in Int /\ size.next + size.v - 1 \in Int
      BY <1>5
    <3> QED BY <2>1, <3>1, <3>2, SubSeqProperties DEF Bytes
  <2>3. FieldOf(b, tag, size)
          = [f |-> [id |-> id, v |-> size.v, bytes |-> s], next |-> size.next + size.v]
    BY <1>7, <1>11, <2>1 DEF FieldOf
  <2>4. size.next + size.v \in Nat /\ (i <= Len(b) => size.next + size.v > i)
    BY <1>1, <1>5
  <2> QED BY <1>5, <1>6, <2>2, <2>3, <2>4 DEF Field
<1>12. CASE /\ ~(tag.v % 8 = 0) /\ ~(tag.v % 8 = 1 /\ tag.next + FixedBytes <= Len(b) + 1)
            /\ ~(tag.v % 8 = 2 /\ size.next + size.v <= Len(b) + 1)
  <2>1. FieldOf(b, tag, size) = [f |-> Malformed, next |-> Len(b) + 2]
    BY <1>12 DEF FieldOf
  <2> QED BY <1>1, <1>6, <1>8, <2>1 DEF Field, Malformed
<1> QED BY <1>9, <1>10, <1>11, <1>12

LEMMA FixedAtShift ==
  ASSUME NEW x \in Bytes, NEW y \in Bytes, NEW at \in Nat, at >= 1, at + FixedBytes <= Len(y) + 1
  PROVE  FixedAt(x \o y, Len(x) + at) = FixedAt(y, at)
<1> DEFINE b == x \o y
           n == Len(x)
<1>1. n \in Nat /\ Len(y) \in Nat /\ \A j \in 1 .. Len(y) : b[n + j] = y[j]
  BY Shifted
<1> HIDE DEF b, n
<1>2. ASSUME NEW k \in 0 .. 2, k < FixedBytes PROVE b[n + at + k] = y[at + k]
  <2>1. at + k \in 1 .. Len(y) /\ n + at + k = n + (at + k)
    BY <1>1, <1>2, WordFacts
  <2> QED BY <1>1, <2>1
<1>3. FixedAt(b, n + at) = FixedAt(y, at)
  BY <1>2 DEF FixedAt
<1> QED BY <1>3 DEF b, n

\* A field of bytes is what its size says.
LEMMA FieldOfBytes ==
  ASSUME NEW b, NEW tag, NEW size, tag.v % 8 = 2, size.next + size.v <= Len(b) + 1
  PROVE  FieldOf(b, tag, size)
           = [f |-> [id |-> tag.v \div 8, v |-> size.v,
                     bytes |-> SubSeq(b, size.next, size.next + size.v - 1)],
              next |-> size.next + size.v]
BY DEF FieldOf

\* A field is read the same wherever it is.
LEMMA FieldAtShift ==
  ASSUME NEW x \in Bytes, NEW y \in Bytes, NEW i \in Nat, i >= 1
  PROVE  At(x \o y, Len(x) + i) = [f |-> At(y, i).f, next |-> Len(x) + At(y, i).next]
<1> DEFINE b == x \o y
           n == Len(x)
<1>1. /\ n \in Nat /\ Len(y) \in Nat /\ Len(b) = n + Len(y)
      /\ \A k, l \in Int : k >= 1 /\ l <= Len(y) => SubSeq(b, n + k, n + l) = SubSeq(y, k, l)
  BY Shifted
<1>2. PICK tag : tag = VarintAt(y, i)
  OBVIOUS
<1>3. tag.v \in Nat /\ tag.next \in Nat /\ tag.next >= 1
  <2>1. /\ tag.v \in Nat /\ tag.next \in Nat
        /\ tag.next = Len(y) + 2 \/ (tag.next > i /\ tag.next <= Len(y) + 1)
    BY <1>2, VarintAtType
  <2> QED BY <1>1, <2>1
<1>4. PICK size : size = VarintAt(y, tag.next)
  OBVIOUS
<1>5. size.v \in Nat /\ size.next \in Nat /\ size.next >= 1
  <2>1. /\ size.v \in Nat /\ size.next \in Nat
        /\ size.next = Len(y) + 2 \/ (size.next > tag.next /\ size.next <= Len(y) + 1)
    BY <1>3, <1>4, VarintAtType
  <2> QED BY <1>1, <1>3, <2>1
<1>6. At(y, i) = FieldOf(y, tag, size)
  BY <1>2, <1>4 DEF At, FieldAt
<1>7. PICK tag2 : tag2 = [v |-> tag.v, next |-> n + tag.next]
  OBVIOUS
<1>8. PICK size2 : size2 = [v |-> size.v, next |-> n + size.next]
  OBVIOUS
<1>9. VarintAt(b, n + i) = tag2
  BY <1>2, <1>7, VarintAtShift
<1>10. VarintAt(b, tag2.next) = size2
  BY <1>3, <1>4, <1>7, <1>8, VarintAtShift
<1>11. At(b, n + i) = FieldOf(b, tag2, size2)
  BY <1>9, <1>10 DEF At, FieldAt
<1>12. tag2.v = tag.v /\ tag2.next = n + tag.next /\ size2.v = size.v /\ size2.next = n + size.next
  BY <1>7, <1>8
<1>13. /\ tag2.next + FixedBytes <= Len(b) + 1 <=> tag.next + FixedBytes <= Len(y) + 1
       /\ size2.next + size2.v <= Len(b) + 1 <=> size.next + size.v <= Len(y) + 1
       /\ tag2.next + FixedBytes = n + (tag.next + FixedBytes)
       /\ size2.next + size2.v = n + (size.next + size.v)
       /\ Len(b) + 2 = n + (Len(y) + 2)
  <2> DEFINE Same(p, q, v, k, m) ==
               /\ (n + p) + k <= (n + m) + 1 <=> p + k <= m + 1
               /\ (n + q) + v <= (n + m) + 1 <=> q + v <= m + 1
               /\ (n + p) + k = n + (p + k)
               /\ (n + q) + v = n + (q + v)
               /\ (n + m) + 2 = n + (m + 2)
  <2>1. \A p, q, v, k, m \in Nat : Same(p, q, v, k, m)
    BY <1>1
  <2>2. FixedBytes \in Nat
    BY WordFacts
  <2>3. Same(tag.next, size.next, size.v, FixedBytes, Len(y))
    <3> HIDE DEF Same
    <3> QED BY <1>1, <1>3, <1>5, <2>1, <2>2
  <2>4. Len(b) = n + Len(y)
    BY <1>1
  <2> HIDE DEF n, b
  <2> QED BY <1>12, <2>3, <2>4
<1>14. tag.next + FixedBytes <= Len(y) + 1 => FixedAt(b, tag2.next) = FixedAt(y, tag.next)
  BY <1>3, <1>12, FixedAtShift
<1>15. size.next + size.v <= Len(y) + 1
         => SubSeq(b, size2.next, size2.next + size2.v - 1)
              = SubSeq(y, size.next, size.next + size.v - 1)
  <2>1. size2.next = n + size.next /\ size2.next + size2.v - 1 = n + (size.next + size.v - 1)
    BY <1>1, <1>5, <1>12
  <2>2. /\ size.next \in Int /\ size.next + size.v - 1 \in Int
        /\ size.next + size.v <= Len(y) + 1 => size.next + size.v - 1 <= Len(y)
    BY <1>1, <1>5
  <2> QED BY <1>1, <1>5, <2>1, <2>2
<1> HIDE DEF b, n
<1>16. FieldOf(b, tag2, size2)
         = [f |-> FieldOf(y, tag, size).f, next |-> n + FieldOf(y, tag, size).next]
  <2>1. CASE tag.v % 8 = 0
    BY <2>1, <1>12 DEF FieldOf
  <2>2. CASE tag.v % 8 = 1 /\ tag.next + FixedBytes <= Len(y) + 1
    BY <2>2, <1>12, <1>13, <1>14 DEF FieldOf
  <2>3. CASE tag.v % 8 = 2 /\ size.next + size.v <= Len(y) + 1
    <3>1. FieldOf(y, tag, size)
            = [f |-> [id |-> tag.v \div 8, v |-> size.v,
                      bytes |-> SubSeq(y, size.next, size.next + size.v - 1)],
               next |-> size.next + size.v]
      BY <2>3, FieldOfBytes
    <3>2. FieldOf(b, tag2, size2)
            = [f |-> [id |-> tag2.v \div 8, v |-> size2.v,
                      bytes |-> SubSeq(b, size2.next, size2.next + size2.v - 1)],
               next |-> size2.next + size2.v]
      BY <2>3, <1>12, <1>13, FieldOfBytes
    <3>3. /\ tag2.v \div 8 = tag.v \div 8 /\ size2.v = size.v
          /\ SubSeq(b, size2.next, size2.next + size2.v - 1)
               = SubSeq(y, size.next, size.next + size.v - 1)
          /\ size2.next + size2.v = n + (size.next + size.v)
      BY <2>3, <1>12, <1>13, <1>15
    <3>4. PICK z : z = [id |-> tag.v \div 8, v |-> size.v,
                       bytes |-> SubSeq(y, size.next, size.next + size.v - 1)]
      OBVIOUS
    <3>5. FieldOf(y, tag, size) = [f |-> z, next |-> size.next + size.v]
      BY <3>1, <3>4
    <3>6. FieldOf(b, tag2, size2) = [f |-> z, next |-> n + (size.next + size.v)]
      BY <3>2, <3>3, <3>4
    <3> QED BY <3>5, <3>6
  <2>4. CASE /\ ~(tag.v % 8 = 0) /\ ~(tag.v % 8 = 1 /\ tag.next + FixedBytes <= Len(y) + 1)
             /\ ~(tag.v % 8 = 2 /\ size.next + size.v <= Len(y) + 1)
    <3>1. FieldOf(y, tag, size) = [f |-> Malformed, next |-> Len(y) + 2]
      BY <2>4 DEF FieldOf
    <3>2. FieldOf(b, tag2, size2) = [f |-> Malformed, next |-> Len(b) + 2]
      BY <2>4, <1>12, <1>13 DEF FieldOf
    <3> QED BY <3>1, <3>2, <1>13
  <2> QED BY <2>1, <2>2, <2>3, <2>4
<1> QED BY <1>6, <1>11, <1>16 DEF b, n

-----------------------------------------------------------------------------
(* Messages.                                                                *)

\* What Parse reads from each place on.
Reading(b, from) ==
  from = [i \in 1 .. Len(b) + 1 |-> IF i > Len(b) THEN <<>> ELSE ParseFrom(b, from, At(b, i))]
From(b) == CHOOSE from : Reading(b, from)

LEMMA ParseIs == \A b : Parse(b) = From(b)[1]
BY DEF Parse, From, Reading, At

\* Parse reads field after field, and comes to an end.
LEMMA FromEquation ==
  ASSUME NEW b \in Bytes
  PROVE  /\ From(b) \in [1 .. Len(b) + 1 -> Seq(Field)]
         /\ \A i \in 1 .. Len(b) + 1 :
              From(b)[i] = IF i > Len(b) THEN <<>>
                           ELSE IF At(b, i).next > Len(b) + 1 THEN <<Malformed>>
                                ELSE <<At(b, i).f>> \o From(b)[At(b, i).next]
<1> DEFINE n == Len(b) + 1
           V == Seq(Field)
<1>1. Len(b) \in Nat /\ n \in Nat /\ n >= 1
  BY LenProperties DEF Bytes
<1>2. ASSUME NEW i \in Nat, i >= 1
      PROVE  At(b, i).f \in Field /\ At(b, i).next \in Nat /\ (i < n => At(b, i).next > i)
  BY <1>1, <1>2, FieldAtType
<1>3. <<Malformed>> \in V /\ <<>> \in V
  BY EmptySeq DEF Malformed, Field, Bytes
\* How far from the end, so that recursion goes down.
<1> DEFINE Step(d, h) == IF d = 0 \/ d >= n THEN <<>>
                         ELSE IF At(b, n - d).next > n THEN <<Malformed>>
                              ELSE <<At(b, n - d).f>> \o h[n - At(b, n - d).next]
           G == [p \in Nat \X [Nat -> V] |-> Step(p[1], p[2])]
<1>4. ASSUME NEW d \in Nat, ~(d = 0 \/ d >= n)
      PROVE  /\ n - d \in Nat /\ n - d >= 1 /\ n - d < n
             /\ At(b, n - d).f \in Field /\ At(b, n - d).next \in Nat /\ At(b, n - d).next > n - d
             /\ ~(At(b, n - d).next > n) => n - At(b, n - d).next \in 0 .. d - 1
  <2>1. n - d \in Nat /\ n - d >= 1 /\ n - d < n
    BY <1>1, <1>4
  <2>2. At(b, n - d).f \in Field /\ At(b, n - d).next \in Nat /\ At(b, n - d).next > n - d
    BY <1>2, <2>1
  <2> HIDE DEF n
  <2>3. PICK x \in Nat : x = At(b, n - d).next
    BY <2>2
  <2>4. ~(x > n) => n - x \in 0 .. d - 1
    BY <1>1, <2>2, <2>3
  <2> QED BY <2>1, <2>2, <2>3, <2>4
<1> HIDE DEF n, V
<1>5. ASSUME NEW d \in Nat, NEW h \in [Nat -> V] PROVE Step(d, h) \in V
  <2>1. CASE d = 0 \/ d >= n
    BY <1>3, <2>1
  <2>2. CASE ~(d = 0 \/ d >= n)
    <3>1. CASE At(b, n - d).next > n
      BY <1>3, <2>2, <3>1
    <3>2. CASE ~(At(b, n - d).next > n)
      <4>1. n - At(b, n - d).next \in Nat
        BY <1>4, <2>2, <3>2
      <4>2. <<At(b, n - d).f>> \in Seq(Field) /\ h[n - At(b, n - d).next] \in Seq(Field)
        BY <1>4, <2>2, <4>1 DEF V
      <4>3. <<At(b, n - d).f>> \o h[n - At(b, n - d).next] \in V
        BY <4>2, ConcatProperties DEF V
      <4> QED BY <2>2, <3>2, <4>3
    <3> QED BY <3>1, <3>2
  <2> QED BY <2>1, <2>2
<1>6. ASSUME NEW d \in Nat, NEW f \in [Nat -> V], NEW g \in [Nat -> V],
             \A k \in 0 .. d - 1 : f[k] = g[k]
      PROVE  Step(d, f) = Step(d, g)
  BY <1>4, <1>6
<1>7. G \in [Nat \X [Nat -> V] -> V]
  <2> HIDE DEF Step
  <2> QED BY <1>5
<1>8. \E h \in [Nat -> V] : h = [d \in Nat |-> G[<<d, h>>]]
  <2>1. ASSUME NEW d \in Nat, NEW f \in [Nat -> V], NEW g \in [Nat -> V],
               \A k \in 0 .. d - 1 : f[k] = g[k]
        PROVE  G[<<d, f>>] = G[<<d, g>>]
    <3> HIDE DEF Step
    <3> QED BY <1>6, <2>1
  <2> HIDE DEF G
  <2> QED BY <1>3, <1>7, <2>1, Recursion
<1>9. PICK h \in [Nat -> V] : h = [d \in Nat |-> G[<<d, h>>]]
  BY <1>8
<1>10. ASSUME NEW d \in Nat PROVE h[d] = Step(d, h)
  <2>1. h[d] = G[<<d, h>>]
    <3> HIDE DEF G
    <3> QED BY <1>9
  <2> HIDE DEF Step
  <2> QED BY <2>1
<1> DEFINE from == [i \in 1 .. n |-> h[n - i]]
<1>11. ASSUME NEW i \in 1 .. n
       PROVE  from[i] = IF i > Len(b) THEN <<>> ELSE ParseFrom(b, from, At(b, i))
  <2>1. /\ n - i \in Nat /\ n - (n - i) = i /\ i \in Nat /\ i >= 1
        /\ i > Len(b) <=> n - i = 0 \/ n - i >= n
    BY <1>1 DEF n
  <2>2. from[i] = Step(n - i, h)
    BY <1>10, <2>1
  <2>3. CASE i > Len(b)
    BY <2>1, <2>2, <2>3
  <2>4. CASE ~(i > Len(b))
    <3>1. Step(n - i, h) = IF At(b, i).next > n THEN <<Malformed>>
                           ELSE <<At(b, i).f>> \o h[n - At(b, i).next]
      BY <2>1, <2>4
    <3>2. ~(At(b, i).next > n) => At(b, i).next \in 1 .. n
      <4>1. At(b, i).next \in Nat /\ At(b, i).next > i
        <5>1. At(b, i).next \in Nat /\ (i < n => At(b, i).next > i)
          BY <1>2, <2>1
        <5>2. i < n
          BY <1>1, <2>1, <2>4 DEF n
        <5> QED BY <5>1, <5>2
      <4> HIDE DEF n
      <4>2. PICK x \in Nat : x = At(b, i).next
        BY <4>1
      <4>3. ~(x > n) => x \in 1 .. n
        BY <1>1, <2>1, <4>1, <4>2
      <4> QED BY <4>2, <4>3
    <3>3. ~(At(b, i).next > n) => from[At(b, i).next] = h[n - At(b, i).next]
      BY <3>2
    <3> QED BY <2>2, <2>4, <3>1, <3>3 DEF ParseFrom, n
  <2> QED BY <2>3, <2>4
<1>12. Reading(b, from)
  <2>1. from = [i \in 1 .. n |-> from[i]]
    OBVIOUS
  <2> HIDE DEF from
  <2> QED BY <1>11, <2>1 DEF Reading, n
<1>13. Reading(b, From(b))
  <2> HIDE DEF from
  <2> QED BY <1>12 DEF From
<1>14. PICK g : g = From(b)
  OBVIOUS
<1>15. \A i \in 1 .. n : g[i] = IF i > Len(b) THEN <<>>
                               ELSE IF At(b, i).next > n THEN <<Malformed>>
                                    ELSE <<At(b, i).f>> \o g[At(b, i).next]
  BY <1>13, <1>14 DEF Reading, ParseFrom, n
<1>16. DOMAIN g = 1 .. n /\ g = [i \in 1 .. n |-> g[i]]
  <2>1. g = [i \in 1 .. n |-> IF i > Len(b) THEN <<>> ELSE ParseFrom(b, g, At(b, i))]
    BY <1>13, <1>14 DEF Reading, n
  <2> QED BY <2>1
<1>17. \A i \in 1 .. n : g[i] \in V
  <2> DEFINE S == {d \in Nat : d < n => g[n - d] \in V}
  <2>1. ASSUME NEW d \in Nat, \A k \in 0 .. d - 1 : k \in S PROVE d \in S
    <3> SUFFICES ASSUME d < n PROVE g[n - d] \in V
      OBVIOUS
    <3>1. CASE d = 0
      <4>1. n - d = n /\ n \in 1 .. n /\ n > Len(b)
        BY <1>1, <3>1 DEF n
      <4> QED BY <4>1, <1>3, <1>15
    <3>2. CASE d # 0
      <4>1. n - d \in 1 .. n /\ ~(n - d > Len(b)) /\ ~(d = 0 \/ d >= n)
        BY <1>1, <3>2 DEF n
      <4>2. CASE At(b, n - d).next > n
        BY <4>1, <4>2, <1>3, <1>15
      <4>3. CASE ~(At(b, n - d).next > n)
        <5>1. PICK x \in Nat : x = At(b, n - d).next
          BY <1>4, <4>1
        <5>2. n - x \in 0 .. d - 1 /\ n - (n - x) = x /\ n - x < n /\ n - x \in Nat
          <6>1. x > n - d
            BY <1>4, <4>1, <5>1
          <6> QED BY <1>1, <6>1, <4>3, <5>1
        <5>3. g[x] \in V
          <6>1. n - x \in S
            BY <2>1, <5>2
          <6> QED BY <5>2, <6>1
        <5>4. <<At(b, n - d).f>> \in Seq(Field)
          BY <1>4, <4>1
        <5>5. <<At(b, n - d).f>> \o g[x] \in Seq(Field)
          BY <5>3, <5>4, ConcatProperties DEF V
        <5>6. g[n - d] = <<At(b, n - d).f>> \o g[x]
          BY <4>1, <4>3, <5>1, <1>15
        <5> QED BY <5>5, <5>6 DEF V
      <4> QED BY <4>2, <4>3
    <3> QED BY <3>1, <3>2
  <2>2. S = Nat
    <3>1. S \in SUBSET Nat
      OBVIOUS
    <3> HIDE DEF S
    <3> QED BY <2>1, <3>1, StrongInduction
  <2>3. ASSUME NEW i \in 1 .. n PROVE g[i] \in V
    <3>1. n - i \in Nat /\ n - i < n /\ n - (n - i) = i
      BY <1>1
    <3> QED BY <2>2, <3>1
  <2> QED BY <2>3
<1> QED BY <1>14, <1>15, <1>16, <1>17 DEF n, V

\* From a place past x on, what Parse reads is what it reads of the rest.
LEMMA FromShift ==
  ASSUME NEW x \in Bytes, NEW y \in Bytes, NEW j \in 1 .. Len(y) + 1
  PROVE  From(x \o y)[Len(x) + j] = From(y)[j]
<1> DEFINE b == x \o y
           m == Len(x)
           n == Len(y) + 1
<1>1. m \in Nat /\ Len(y) \in Nat /\ b \in Bytes /\ Len(b) = m + Len(y)
  BY Shifted
<1>2. ASSUME NEW i \in Nat, i >= 1
      PROVE  /\ At(b, m + i).f = At(y, i).f /\ At(b, m + i).next = m + At(y, i).next
             /\ At(y, i).next \in Nat /\ (i <= Len(y) => At(y, i).next > i)
  <2>1. At(b, m + i) = [f |-> At(y, i).f, next |-> m + At(y, i).next]
    BY <1>2, FieldAtShift
  <2>2. At(y, i).next \in Nat /\ (i <= Len(y) => At(y, i).next > i)
    BY <1>2, FieldAtType
  <2> QED BY <2>1, <2>2
<1>3. PICK g : g = From(b)
  OBVIOUS
<1>4. PICK h : h = From(y)
  OBVIOUS
<1>5. \A i \in 1 .. Len(b) + 1 :
        g[i] = IF i > Len(b) THEN <<>>
               ELSE IF At(b, i).next > Len(b) + 1 THEN <<Malformed>>
                    ELSE <<At(b, i).f>> \o g[At(b, i).next]
  BY <1>1, <1>3, FromEquation
<1>6. \A i \in 1 .. n :
        h[i] = IF i > Len(y) THEN <<>>
               ELSE IF At(y, i).next > n THEN <<Malformed>>
                    ELSE <<At(y, i).f>> \o h[At(y, i).next]
  BY <1>4, FromEquation
<1> DEFINE S == {d \in Nat : d < n => g[m + (n - d)] = h[n - d]}
<1> HIDE DEF b, m, n
<1>7. n \in Nat /\ n >= 1 /\ n = Len(y) + 1 /\ Len(b) + 1 = m + n
  BY <1>1 DEF n
<1>8. ASSUME NEW d \in Nat, \A k \in 0 .. d - 1 : k \in S PROVE d \in S
  <2> SUFFICES ASSUME d < n PROVE g[m + (n - d)] = h[n - d]
    OBVIOUS
  <2>1. PICK i : i = n - d
    OBVIOUS
  <2>2. PICK p : p = m + i
    OBVIOUS
  <2>3. /\ i \in 1 .. n /\ p \in 1 .. Len(b) + 1 /\ i \in Nat /\ i >= 1
        /\ p > Len(b) <=> i > Len(y)
    BY <1>1, <1>7, <2>1, <2>2
  <2>4. PICK q : q = At(y, i).next
    OBVIOUS
  <2>5. At(b, p).f = At(y, i).f /\ At(b, p).next = m + q /\ q \in Nat /\ (i <= Len(y) => q > i)
    BY <1>2, <2>2, <2>3, <2>4
  <2>6. CASE i > Len(y)
    <3>1. g[p] = <<>>
      BY <1>5, <2>3, <2>6
    <3>2. h[i] = <<>>
      BY <1>6, <2>3, <2>6
    <3> QED BY <2>1, <2>2, <3>1, <3>2
  <2>7. CASE ~(i > Len(y))
    <3>0. ~(p > Len(b)) /\ q > i
      BY <1>1, <2>3, <2>5, <2>7
    <3>1. g[p] = IF m + q > Len(b) + 1 THEN <<Malformed>> ELSE <<At(y, i).f>> \o g[m + q]
      BY <1>5, <2>3, <2>5, <3>0
    <3>2. h[i] = IF q > n THEN <<Malformed>> ELSE <<At(y, i).f>> \o h[q]
      BY <1>6, <2>3, <2>4, <2>7
    <3>3. m + q > Len(b) + 1 <=> q > n
      BY <1>1, <1>7, <2>5
    <3>4. ~(q > n) => g[m + q] = h[q]
      <4> SUFFICES ASSUME ~(q > n) PROVE g[m + q] = h[q]
        OBVIOUS
      <4>1. PICK k : k = n - q
        OBVIOUS
      <4>2. k \in 0 .. d - 1 /\ k < n /\ q = n - k
        BY <1>7, <2>1, <2>3, <2>5, <3>0, <4>1
      <4>3. g[m + (n - k)] = h[n - k]
        BY <1>8, <4>2
      <4> QED BY <4>2, <4>3
    <3> QED BY <2>1, <2>2, <3>1, <3>2, <3>3, <3>4
  <2> QED BY <2>6, <2>7
<1>9. S = Nat
  <2> HIDE DEF S
  <2>1. S \in SUBSET Nat
    BY DEF S
  <2> QED BY <1>8, <2>1, StrongInduction
<1>10. n - j \in Nat /\ n - j < n /\ n - (n - j) = j
  BY <1>1 DEF n
<1>11. PICK d \in Nat : d = n - j
  BY <1>10
<1>12. g[m + (n - d)] = h[n - d]
  <2>1. d \in S
    BY <1>9
  <2> QED BY <1>10, <1>11, <2>1
<1> QED BY <1>3, <1>4, <1>10, <1>11, <1>12 DEF b, m

LEMMA ParseType ==
  ASSUME NEW b \in Bytes
  PROVE  Parse(b) \in Seq(Field)
<1>1. 1 \in 1 .. Len(b) + 1
  BY LenProperties DEF Bytes
<1> QED BY <1>1, ParseIs, FromEquation

LEMMA ParseNothing == Parse(<<>>) = <<>>
<1>1. <<>> \in Bytes /\ Len(<<>>) = 0
  BY EmptySeq DEF Bytes
<1>2. 1 \in 1 .. Len(<<>>) + 1 /\ 1 > Len(<<>>)
  BY <1>1
<1> QED BY <1>1, <1>2, ParseIs, FromEquation

\* b says the fields m, whatever comes after it.
Codes(b, m) ==
  /\ b \in Bytes /\ m \in Seq(Field)
  /\ \A y \in Bytes : Parse(b \o y) = m \o Parse(y)

LEMMA CodesNothing == Codes(<<>>, <<>>)
<1>1. <<>> \in Bytes /\ <<>> \in Seq(Field)
  BY EmptySeq DEF Bytes
<1>2. ASSUME NEW y \in Bytes PROVE Parse(<<>> \o y) = <<>> \o Parse(y)
  <2>1. Parse(y) \in Seq(Field)
    BY ParseType
  <2>2. <<>> \o Parse(y) = Parse(y)
    BY <2>1, ConcatEmptySeq
  <2>3. <<>> \o y = y
    BY ConcatEmptySeq DEF Bytes
  <2> QED BY <2>2, <2>3
<1> QED BY <1>1, <1>2 DEF Codes

LEMMA CodesBoth ==
  ASSUME NEW a, NEW m, NEW b, NEW n, Codes(a, m), Codes(b, n)
  PROVE  Codes(a \o b, m \o n)
<1>1. a \in Bytes /\ b \in Bytes /\ m \in Seq(Field) /\ n \in Seq(Field)
  BY DEF Codes
<1>2. a \o b \in Bytes /\ m \o n \in Seq(Field)
  BY <1>1, ConcatProperties DEF Bytes
<1>3. ASSUME NEW y \in Bytes PROVE Parse((a \o b) \o y) = (m \o n) \o Parse(y)
  <2>1. b \o y \in Bytes
    BY <1>1, ConcatProperties DEF Bytes
  <2>2. (a \o b) \o y = a \o (b \o y)
    BY <1>1, ConcatAssociative DEF Bytes
  <2>3. Parse(a \o (b \o y)) = m \o Parse(b \o y)
    BY <2>1 DEF Codes
  <2>4. Parse(b \o y) = n \o Parse(y)
    BY DEF Codes
  <2>5. (m \o n) \o Parse(y) = m \o (n \o Parse(y))
    <3>1. PICK p \in Seq(Field) : p = Parse(y)
      BY ParseType
    <3>2. (m \o n) \o p = m \o (n \o p)
      BY <1>1, ConcatAssociative
    <3> QED BY <3>1, <3>2
  <2> QED BY <2>2, <2>3, <2>4, <2>5
<1> QED BY <1>2, <1>3 DEF Codes

LEMMA CodesParse ==
  ASSUME NEW b, NEW m, Codes(b, m)
  PROVE  Parse(b) = m
<1>1. b \in Bytes /\ m \in Seq(Field) /\ <<>> \in Bytes
  BY EmptySeq DEF Codes, Bytes
<1>2. b \o <<>> = b /\ m \o <<>> = m
  BY <1>1, ConcatEmptySeq DEF Bytes
<1>3. Parse(b \o <<>>) = m \o Parse(<<>>)
  BY <1>1 DEF Codes
<1> QED BY <1>2, <1>3, ParseNothing

\* Bytes that are read as one field, whatever comes after them.
LEMMA CodesField ==
  ASSUME NEW b \in Bytes, Len(b) >= 1, NEW f \in Field,
         \A y \in Bytes : At(b \o y, 1) = [f |-> f, next |-> Len(b) + 1]
  PROVE  Codes(b, <<f>>)
<1>1. ASSUME NEW y \in Bytes PROVE Parse(b \o y) = <<f>> \o Parse(y)
  <2> DEFINE c == b \o y
  <2>1. /\ Len(b) \in Nat /\ Len(y) \in Nat /\ Len(b) >= 1
        /\ c \in Bytes /\ Len(c) = Len(b) + Len(y)
    BY Shifted
  <2>2. At(c, 1) = [f |-> f, next |-> Len(b) + 1]
    OBVIOUS
  <2>3. From(c)[Len(b) + 1] = From(y)[1]
    <3>1. 1 \in 1 .. Len(y) + 1
      BY <2>1
    <3> QED BY <3>1, FromShift
  <2> HIDE DEF c
  <2>4. 1 \in 1 .. Len(c) + 1 /\ ~(1 > Len(c)) /\ ~(Len(b) + 1 > Len(c) + 1)
    BY <2>1
  <2>5. From(c)[1] = <<f>> \o From(c)[Len(b) + 1]
    <3>1. At(c, 1).f = f /\ At(c, 1).next = Len(b) + 1
      BY <2>2
    <3>2. From(c)[1] = IF 1 > Len(c) THEN <<>>
                       ELSE IF At(c, 1).next > Len(c) + 1 THEN <<Malformed>>
                            ELSE <<At(c, 1).f>> \o From(c)[At(c, 1).next]
      BY <2>1, <2>4, FromEquation
    <3> QED BY <2>4, <3>1, <3>2
  <2> QED BY <2>3, <2>5, ParseIs DEF c
<1>2. <<f>> \in Seq(Field)
  OBVIOUS
<1> QED BY <1>1, <1>2 DEF Codes

-----------------------------------------------------------------------------
(* What each writer of the encoder writes is read as the field it is of.     *)

\* The numbers of fields whose tags a decoder reads.
Ids == {id \in Nat : 8 * id + 7 < Long}

TagNumber(id, wire) == 8 * id + wire

LEMMA SmallIds == 0 .. 1000 \subseteq Ids
BY DEF Ids, Long

LEMMA TagRead ==
  ASSUME NEW id \in Ids, NEW wire \in 0 .. 7, NEW y \in Bytes
  PROVE  /\ Tag(id, wire) \in Bytes /\ Len(Tag(id, wire)) \in Nat /\ Len(Tag(id, wire)) >= 1
         /\ VarintAt(Tag(id, wire) \o y, 1) = [v |-> TagNumber(id, wire), next |-> Len(Tag(id, wire)) + 1]
         /\ TagNumber(id, wire) \div 8 = id /\ TagNumber(id, wire) % 8 = wire
<1>1. TagNumber(id, wire) \in Nat /\ TagNumber(id, wire) < Long
  BY DEF Ids, Long, TagNumber
<1>2. IsVarint(Tag(id, wire), TagNumber(id, wire))
  BY <1>1, VarintWritten DEF Tag, TagNumber
<1>3. TagNumber(id, wire) \div 8 = id /\ TagNumber(id, wire) % 8 = wire
  BY DEF Ids, TagNumber
<1> QED BY <1>2, <1>3, VarintRead DEF IsVarint

LEMMA BytesAssociative ==
  ASSUME NEW a \in Bytes, NEW b \in Bytes, NEW c \in Bytes
  PROVE  (a \o b) \o c = a \o (b \o c)
BY ConcatAssociative DEF Bytes

\* The field at the start of h and y is read by the tag and the varint h holds.
ReadBy(h, y, id, wire, v) ==
  At(h \o y, 1) = FieldOf(h \o y, [v |-> TagNumber(id, wire), next |-> Len(Tag(id, wire)) + 1],
                          [v |-> v, next |-> Len(h) + 1])

\* A tag and a varint s of v, and then whatever comes.
LEMMA TagAndSize ==
  ASSUME NEW id \in Ids, NEW wire \in 0 .. 7, NEW s, NEW v, IsVarint(s, v), NEW y \in Bytes,
         NEW h, h = Tag(id, wire) \o s
  PROVE  /\ h \in Bytes /\ Len(h) \in Nat /\ Len(h) >= 1
         /\ ReadBy(h, y, id, wire, v)
<1> DEFINE t == Tag(id, wire)
<1>1. t \in Bytes /\ Len(t) \in Nat /\ Len(t) >= 1
  BY TagRead, EmptySeq DEF Bytes
<1>0. \A z \in Bytes : VarintAt(t \o z, 1) = [v |-> TagNumber(id, wire), next |-> Len(t) + 1]
  BY TagRead
<1> HIDE DEF t
<1>2. s \in Bytes /\ Len(s) \in Nat
  BY DEF IsVarint
<1>3. t \o s \in Bytes /\ Len(t \o s) = Len(t) + Len(s) /\ s \o y \in Bytes
  BY <1>1, <1>2, Shifted
<1>4. (t \o s) \o y = t \o (s \o y)
  BY <1>1, <1>2, BytesAssociative
<1>5. VarintAt(t \o (s \o y), 1) = [v |-> TagNumber(id, wire), next |-> Len(t) + 1]
  BY <1>3, <1>0
<1>6. VarintAt(s \o y, 1) = [v |-> v, next |-> Len(s) + 1]
  BY VarintRead
<1>7. VarintAt(t \o (s \o y), Len(t) + 1)
        = [v |-> VarintAt(s \o y, 1).v, next |-> Len(t) + VarintAt(s \o y, 1).next]
  <2>1. 1 \in Nat /\ 1 >= 1
    OBVIOUS
  <2> QED BY <1>1, <1>3, <2>1, VarintAtShift
<1>8. VarintAt(t \o (s \o y), Len(t) + 1) = [v |-> v, next |-> Len(t \o s) + 1]
  <2>1. Len(t) + (Len(s) + 1) = Len(t \o s) + 1
    BY <1>1, <1>2, <1>3
  <2>2. VarintAt(s \o y, 1).v = v /\ VarintAt(s \o y, 1).next = Len(s) + 1
    BY <1>6
  <2> QED BY <1>7, <2>1, <2>2
<1>9. At(t \o (s \o y), 1) = FieldOf(t \o (s \o y), [v |-> TagNumber(id, wire), next |-> Len(t) + 1],
                                     [v |-> v, next |-> Len(t \o s) + 1])
  BY <1>5, <1>8 DEF At, FieldAt
<1>10. h = t \o s
  BY DEF t
<1>11. Len(h) \in Nat /\ Len(h) >= 1
  BY <1>1, <1>2, <1>3, <1>10
<1> QED BY <1>3, <1>4, <1>9, <1>10, <1>11 DEF t, ReadBy

\* A number.
NumberField(id, v) == [id |-> id, v |-> v, bytes |-> <<>>]
\* Text, or a nested message.
BytesField(id, b) == [id |-> id, v |-> Len(b), bytes |-> b]

LEMMA FieldsTyped ==
  /\ \A id \in Nat : \A v \in Nat : NumberField(id, v) \in Field
  /\ \A id \in Nat : \A b \in Bytes : BytesField(id, b) \in Field
<1>1. <<>> \in Bytes /\ \A b \in Bytes : Len(b) \in Nat
  BY EmptySeq, LenProperties DEF Bytes
<1> QED BY <1>1 DEF NumberField, BytesField, Field

LEMMA NumberCodes ==
  ASSUME NEW id \in Ids, NEW wire \in 0 .. 7, wire = 0, NEW s, NEW v, IsVarint(s, v)
  PROVE  Codes(Tag(id, wire) \o s, <<NumberField(id, v % Words)>>)
<1>0. PICK b : b = Tag(id, wire) \o s
  OBVIOUS
<1> DEFINE f == NumberField(id, v % Words)
<1>1. v \in Nat /\ v % Words \in Nat /\ id \in Nat
  BY WordFacts DEF IsVarint, Ids
<1>2. f \in Field
  BY <1>1, FieldsTyped
<1>3. b \in Bytes /\ Len(b) >= 1
  <2>1. PICK y : y \in Bytes
    BY EmptySeq DEF Bytes
  <2> QED BY <1>0, <2>1, TagAndSize
<1>4. ASSUME NEW y \in Bytes PROVE At(b \o y, 1) = [f |-> f, next |-> Len(b) + 1]
  <2>1. At(b \o y, 1) = FieldOf(b \o y, [v |-> TagNumber(id, wire), next |-> Len(Tag(id, wire)) + 1],
                                [v |-> v, next |-> Len(b) + 1])
    <3>1. ReadBy(b, y, id, wire, v)
      BY <1>0, <1>4, TagAndSize
    <3> QED BY <3>1 DEF ReadBy
  <2>2. TagNumber(id, wire) \div 8 = id /\ TagNumber(id, wire) % 8 = 0
    BY <1>4, TagRead
  <2> QED BY <2>1, <2>2 DEF FieldOf, NumberField
<1> QED BY <1>0, <1>2, <1>3, <1>4, CodesField

LEMMA VarintFieldCodes ==
  ASSUME NEW id \in Ids, NEW v \in Nat, v < Words
  PROVE  Codes(VarintField(id, v), <<NumberField(id, v)>>)
<1>1. v < Long /\ v % Words = v
  BY WordFacts DEF Long
<1>2. IsVarint(Varint[v], v)
  BY <1>1, VarintWritten
<1> QED BY <1>1, <1>2, NumberCodes DEF VarintField

LEMMA RedundantFieldCodes ==
  ASSUME NEW id \in Ids, NEW v \in Nat, v < Words
  PROVE  Codes(RedundantField(id, v), <<NumberField(id, v)>>)
<1>1. v % Words = v
  BY WordFacts
<1>2. IsVarint(Redundant(v, WordBytes), v)
  BY WordFacts, RedundantWritten
<1> QED BY <1>1, <1>2, NumberCodes DEF RedundantField

LEMMA BytesCodes ==
  ASSUME NEW id \in Ids, NEW wire \in 0 .. 7, wire = 2, NEW s, NEW text \in Bytes, IsVarint(s, Len(text))
  PROVE  Codes((Tag(id, wire) \o s) \o text, <<BytesField(id, text)>>)
<1>0. PICK h : h = Tag(id, wire) \o s
  OBVIOUS
<1> DEFINE b == h \o text
           f == BytesField(id, text)
<1>1. Len(text) \in Nat /\ id \in Nat
  BY LenProperties DEF Bytes, Ids
<1>2. f \in Field
  BY <1>1, FieldsTyped
<1>3. h \in Bytes /\ Len(h) \in Nat /\ Len(h) >= 1
  <2>1. PICK y : y \in Bytes
    BY EmptySeq DEF Bytes
  <2> QED BY <1>0, <2>1, TagAndSize
<1>4. b \in Bytes /\ Len(b) = Len(h) + Len(text)
  BY <1>3, Shifted
<1>7. \A z \in Bytes :
        At(h \o z, 1) = FieldOf(h \o z, [v |-> TagNumber(id, wire), next |-> Len(Tag(id, wire)) + 1],
                               [v |-> Len(text), next |-> Len(h) + 1])
  <2>1. \A z \in Bytes : ReadBy(h, z, id, wire, Len(text))
    BY <1>0, TagAndSize
  <2> QED BY <2>1 DEF ReadBy
<1>5. ASSUME NEW y \in Bytes PROVE At(b \o y, 1) = [f |-> f, next |-> Len(b) + 1]
  <2>1. text \o y \in Bytes /\ Len(text \o y) = Len(text) + Len(y) /\ Len(y) \in Nat
    BY Shifted
  <2>2. b \o y = h \o (text \o y)
    BY <1>3, ConcatAssociative DEF Bytes
  <2>3. At(h \o (text \o y), 1)
          = FieldOf(h \o (text \o y), [v |-> TagNumber(id, wire), next |-> Len(Tag(id, wire)) + 1],
                    [v |-> Len(text), next |-> Len(h) + 1])
    BY <2>1, <1>7
  <2>4. TagNumber(id, wire) \div 8 = id /\ TagNumber(id, wire) % 8 = 2
    BY <1>5, TagRead
  <2>5. SubSeq(h \o (text \o y), Len(h) + 1, Len(h) + Len(text)) = text
    <3>1. SubSeq(h \o (text \o y), Len(h) + 1, Len(h) + Len(text)) = SubSeq(text \o y, 1, Len(text))
      <4>1. Len(text) \in Int /\ 1 \in Int /\ 1 >= 1 /\ Len(text) <= Len(text \o y)
        BY <1>1, <2>1
      <4>2. PICK z \in Bytes : z = text \o y
        BY <2>1
      <4>3. SubSeq(h \o z, Len(h) + 1, Len(h) + Len(text)) = SubSeq(z, 1, Len(text))
        <5>1. PICK i, j : i = 1 /\ j = Len(text)
          OBVIOUS
        <5>2. i \in Int /\ j \in Int /\ i >= 1 /\ j <= Len(z)
          BY <4>1, <4>2, <5>1
        <5>3. SubSeq(h \o z, Len(h) + i, Len(h) + j) = SubSeq(z, i, j)
          <6>1. \A k, l \in Int : k >= 1 /\ l <= Len(z)
                  => SubSeq(h \o z, Len(h) + k, Len(h) + l) = SubSeq(z, k, l)
            BY <1>3, <4>2, Shifted
          <6> QED BY <5>2, <6>1, Zenon
        <5> QED BY <5>1, <5>3
      <4> QED BY <4>2, <4>3
    <3>2. SubSeq(text \o y, 1, Len(text)) = text
      <4>1. CASE Len(text) = 0
        <5>1. text = <<>>
          BY <4>1, EmptySeq DEF Bytes
        <5> QED BY <4>1, <5>1, SubSeqEmpty
      <4>2. CASE Len(text) # 0
        <5>1. 1 \in 1 .. Len(text) /\ Len(text) \in 1 .. Len(text)
          BY <1>1, <4>2
        <5> QED BY <5>1, SubSeqOfConcat1, SubSeqFull DEF Bytes
      <4> QED BY <4>1, <4>2
    <3> QED BY <3>1, <3>2
  <2>6. /\ Len(h) + 1 + Len(text) <= Len(h \o (text \o y)) + 1
        /\ Len(h) + 1 + Len(text) - 1 = Len(h) + Len(text)
        /\ Len(h) + 1 + Len(text) = Len(b) + 1
    <3>1. Len(h \o (text \o y)) = Len(h) + (Len(text) + Len(y))
      BY <1>3, <2>1, Shifted
    <3> QED BY <1>1, <1>3, <1>4, <2>1, <3>1
  <2>7. At(h \o (text \o y), 1)
          = [f |-> [id |-> id, v |-> Len(text), bytes |-> text], next |-> Len(b) + 1]
    <3> DEFINE tag == [v |-> TagNumber(id, wire), next |-> Len(Tag(id, wire)) + 1]
               size == [v |-> Len(text), next |-> Len(h) + 1]
               c == h \o (text \o y)
    <3>1. tag.v % 8 = 2 /\ tag.v \div 8 = id /\ size.v = Len(text) /\ size.next = Len(h) + 1
      BY <2>4
    <3>2. At(c, 1) = FieldOf(c, tag, size)
      BY <2>3
    <3> HIDE DEF tag, size, c
    <3>3. size.next + size.v <= Len(c) + 1
      BY <2>6, <3>1 DEF c
    <3>4. FieldOf(c, tag, size)
            = [f |-> [id |-> tag.v \div 8, v |-> size.v,
                      bytes |-> SubSeq(c, size.next, size.next + size.v - 1)],
               next |-> size.next + size.v]
      BY <3>1, <3>3, FieldOfBytes
    <3>5. SubSeq(c, size.next, size.next + size.v - 1) = text
      BY <2>5, <2>6, <3>1 DEF c
    <3> QED BY <2>6, <3>1, <3>2, <3>4, <3>5 DEF c
  <2> QED BY <2>2, <2>7 DEF BytesField
<1>6. Len(b) >= 1
  BY <1>1, <1>3, <1>4
<1> QED BY <1>0, <1>2, <1>4, <1>5, <1>6, CodesField

LEMMA StringFieldCodes ==
  ASSUME NEW id \in Ids, NEW text \in Bytes, Len(text) < Long
  PROVE  Codes(StringField(id, text), <<BytesField(id, text)>>)
<1>1. Len(text) \in Nat
  BY LenProperties DEF Bytes
<1>2. IsVarint(Varint[Len(text)], Len(text))
  BY <1>1, VarintWritten
<1> QED BY <1>2, BytesCodes DEF StringField

\* The fixed bytes of v, least significant first.
FixedForm(v) == [i \in 1 .. FixedBytes |-> (v \div 256 ^ (i - 1)) % 256]

LEMMA FixedWritten ==
  ASSUME NEW v \in Nat, v < Words, NEW y \in Bytes
  PROVE  /\ FixedForm(v) \in Bytes /\ Len(FixedForm(v)) = FixedBytes
         /\ FixedAt(FixedForm(v) \o y, 1) = v
<1>1. FixedBytes \in Nat /\ FixedBytes \in {1, 2, 3}
  BY WordFacts
<1>2. /\ FixedForm(v) \in [1 .. FixedBytes -> Byte]
      /\ FixedForm(v)[1] = v % 256
      /\ FixedBytes >= 2 => FixedForm(v)[2] = (v \div 256) % 256
      /\ FixedBytes = 3 => FixedForm(v)[3] = (v \div (256 * 256)) % 256
  <2>1. 256 ^ 0 = 1 /\ 256 ^ 1 = 256 /\ 256 ^ 2 = 256 * 256
    OBVIOUS
  <2>2. ASSUME NEW k \in 1 .. FixedBytes PROVE FixedForm(v)[k] \in Byte
    <3>1. CASE k = 1
      BY <1>1, <2>1, <3>1 DEF FixedForm, Byte
    <3>2. CASE k = 2
      BY <1>1, <2>1, <3>2 DEF FixedForm, Byte
    <3>3. CASE k = 3
      BY <1>1, <2>1, <3>3 DEF FixedForm, Byte
    <3> QED BY <1>1, <3>1, <3>2, <3>3
  <2>3. FixedForm(v)[1] = v % 256
    BY <1>1, <2>1 DEF FixedForm
  <2>4. FixedBytes >= 2 => FixedForm(v)[2] = (v \div 256) % 256
    BY <1>1, <2>1 DEF FixedForm
  <2>5. FixedBytes = 3 => FixedForm(v)[3] = (v \div (256 * 256)) % 256
    BY <1>1, <2>1 DEF FixedForm
  <2>6. FixedForm(v) = [k \in 1 .. FixedBytes |-> FixedForm(v)[k]]
    BY DEF FixedForm
  <2> QED BY <2>2, <2>3, <2>4, <2>5, <2>6
<1>3. PICK s : s = FixedForm(v)
  OBVIOUS
<1>4. s \in Bytes /\ Len(s) = FixedBytes
  BY <1>1, <1>2, <1>3 DEF Bytes
<1>5. PICK c : c = s \o y
  OBVIOUS
<1>6. \A j \in 1 .. FixedBytes : c[j] = s[j]
  BY <1>4, <1>5, Shifted
<1>7. FixedAt(c, 1) = v
  <2>1. CASE FixedBytes = 1
    <3>1. c[1 + 0] = v % 256 /\ v % 256 = v
      BY <1>2, <1>3, <1>6, <2>1, WordFacts
    <3> QED BY <2>1, <3>1 DEF FixedAt
  <2>2. CASE FixedBytes = 2
    <3>1. c[1 + 0] = v % 256 /\ c[1 + 1] = (v \div 256) % 256
      BY <1>2, <1>3, <1>6, <2>2
    <3>2. v < 256 * 256
      BY <2>2, WordFacts
    <3>3. (v % 256) + 256 * ((v \div 256) % 256) = v
      BY <3>2
    <3> QED BY <2>2, <3>1, <3>3 DEF FixedAt
  <2>3. CASE FixedBytes = 3
    <3>1. c[1 + 0] = v % 256 /\ c[1 + 1] = (v \div 256) % 256 /\ c[1 + 2] = (v \div (256 * 256)) % 256
      BY <1>2, <1>3, <1>6, <2>3
    <3>2. v < 256 * 256 * 256
      BY <2>3, WordFacts
    <3>3. (v % 256) + 256 * (((v \div 256) % 256) + 256 * ((v \div (256 * 256)) % 256)) = v
      BY <3>2
    <3> QED BY <2>3, <3>1, <3>3 DEF FixedAt
  <2> QED BY <1>1, <2>1, <2>2, <2>3
<1> QED BY <1>3, <1>4, <1>5, <1>7

LEMMA Fixed64FieldCodes ==
  ASSUME NEW id \in Ids, NEW v \in Nat, v < Words
  PROVE  Codes(Fixed64Field(id, v), <<NumberField(id, v)>>)
<1>1. PICK t : t = Tag(id, 1)
  OBVIOUS
<1>2. PICK s : s = FixedForm(v)
  OBVIOUS
<1>3. PICK b : b = t \o s
  OBVIOUS
<1>4. PICK w \in 0 .. 7 : w = 1
  OBVIOUS
<1>5. <<>> \in Bytes
  BY EmptySeq DEF Bytes
<1>6. t \in Bytes /\ Len(t) \in Nat /\ Len(t) >= 1 /\ TagNumber(id, w) \div 8 = id /\ TagNumber(id, w) % 8 = w
  BY <1>1, <1>4, <1>5, TagRead
<1>7. s \in Bytes /\ Len(s) = FixedBytes /\ FixedBytes \in Nat /\ FixedBytes >= 1
  BY <1>2, <1>5, FixedWritten, WordFacts
<1>8. b \in Bytes /\ Len(b) = Len(t) + FixedBytes /\ Len(b) \in Nat
  BY <1>3, <1>6, <1>7, Shifted
<1>9. ASSUME NEW y \in Bytes
      PROVE  At(b \o y, 1) = [f |-> NumberField(id, v), next |-> Len(b) + 1]
  <2>1. PICK z \in Bytes : z = s \o y
    BY <1>7, Shifted
  <2>2. Len(z) = FixedBytes + Len(y) /\ Len(y) \in Nat
    BY <1>7, <2>1, Shifted
  <2>3. PICK c : c = t \o z
    OBVIOUS
  <2>4. c = b \o y
    BY <1>3, <1>6, <1>7, <2>1, <2>3, BytesAssociative
  <2>5. Len(c) = Len(t) + (FixedBytes + Len(y))
    BY <1>6, <2>2, <2>3, Shifted
  <2>6. VarintAt(c, 1) = [v |-> TagNumber(id, w), next |-> Len(t) + 1]
    BY <1>1, <1>4, <2>3, TagRead
  <2>7. PICK tag : tag = VarintAt(c, 1)
    OBVIOUS
  <2>8. tag.v % 8 = 1 /\ tag.v \div 8 = id /\ tag.next = Len(t) + 1
    BY <1>4, <1>6, <2>6, <2>7
  <2>9. tag.next + FixedBytes <= Len(c) + 1 /\ tag.next + FixedBytes = Len(b) + 1
    BY <1>6, <1>7, <1>8, <2>2, <2>5, <2>8
  <2>10. FixedAt(c, tag.next) = v
    <3>1. PICK i \in Nat : i = 1
      OBVIOUS
    <3>2. i >= 1 /\ i + FixedBytes <= Len(z) + 1
      BY <1>7, <2>2, <3>1
    <3>3. FixedAt(t \o z, Len(t) + i) = FixedAt(z, i)
      BY <1>6, <3>2, FixedAtShift
    <3>4. FixedAt(z, 1) = v
      BY <1>2, <2>1, FixedWritten
    <3> QED BY <2>3, <2>8, <3>1, <3>3, <3>4
  <2>11. At(c, 1) = FieldOf(c, tag, VarintAt(c, tag.next))
    BY <2>7 DEF At, FieldAt
  <2>12. FieldOf(c, tag, VarintAt(c, tag.next))
           = [f |-> [id |-> tag.v \div 8, v |-> FixedAt(c, tag.next), bytes |-> <<>>],
              next |-> tag.next + FixedBytes]
    BY <2>8, <2>9 DEF FieldOf
  <2> QED BY <2>4, <2>8, <2>9, <2>10, <2>11, <2>12 DEF NumberField
<1>10. NumberField(id, v) \in Field
  BY FieldsTyped DEF Ids
<1>11. Len(b) >= 1
  BY <1>6, <1>7, <1>8
<1>12. Codes(b, <<NumberField(id, v)>>)
  BY <1>8, <1>9, <1>10, <1>11, CodesField
<1> QED BY <1>1, <1>2, <1>3, <1>12 DEF Fixed64Field, FixedForm

-----------------------------------------------------------------------------
(* Nested messages: begin_message and finish_message.                        *)

\* finish_message replaces the four bytes before the payload q and nothing else.
LEMMA FinishIs ==
  ASSUME NEW p \in Bytes, NEW z \in Bytes, Len(z) = LenBytes, NEW q \in Bytes
  PROVE  Finish((p \o z) \o q, Len(p) + LenBytes) = (p \o Redundant(Len(q), LenBytes)) \o q
<1>1. PICK b : b = (p \o z) \o q
  OBVIOUS
<1>2. PICK n : n = Len(p)
  OBVIOUS
<1>3. PICK h \in Bytes : h = p \o z
  BY Shifted
<1>4. n \in Nat /\ Len(h) = n + 4 /\ Len(q) \in Nat /\ Len(b) = Len(h) + Len(q) /\ Len(b) \in Nat
  <2>1. n \in Nat /\ Len(h) = n + Len(z)
    BY <1>2, <1>3, Shifted
  <2>2. Len(q) \in Nat /\ Len(h) \in Nat /\ Len(b) = Len(h) + Len(q)
    BY <1>1, <1>3, Shifted
  <2>3. Len(z) = 4
    BY DEF LenBytes
  <2> QED BY <2>1, <2>2, <2>3
<1>5. n + 4 - 4 = n /\ Len(b) - (n + 4) = Len(q) /\ Len(b) = (n + 4) + Len(q)
  BY <1>4
<1>6. SubSeq(b, 1, n) = p
  <2>1. SubSeq(h, 1, n) = p
    <3>1. CASE n = 0
      <4>1. p = <<>>
        BY <1>2, <3>1, EmptySeq DEF Bytes
      <4> QED BY <3>1, <4>1, SubSeqEmpty
    <3>2. CASE n # 0
      <4>1. 1 \in 1 .. Len(p) /\ Len(p) \in 1 .. Len(p)
        BY <1>2, <1>4, <3>2
      <4> QED BY <1>2, <1>3, <4>1, SubSeqOfConcat1, SubSeqFull DEF Bytes
    <3> QED BY <3>1, <3>2
  <2>2. SubSeq(h \o q, 1, n) = SubSeq(h, 1, n)
    <3>1. CASE n = 0
      BY <3>1, SubSeqEmpty
    <3>2. CASE n # 0
      <4>1. 1 \in 1 .. Len(h) /\ n \in 1 .. Len(h)
        BY <1>4, <3>2
      <4> QED BY <4>1, SubSeqOfConcat1 DEF Bytes
    <3> QED BY <3>1, <3>2
  <2> QED BY <1>1, <1>3, <2>1, <2>2
<1>7. SubSeq(b, n + 4 + 1, Len(b)) = q
  <2>1. PICK i, j : i = 1 /\ j = Len(q)
    OBVIOUS
  <2>2. i \in Int /\ j \in Int /\ i >= 1 /\ j <= Len(q)
    BY <1>4, <2>1
  <2>3. \A k, l \in Int : k >= 1 /\ l <= Len(q) => SubSeq(h \o q, Len(h) + k, Len(h) + l) = SubSeq(q, k, l)
    BY Shifted
  <2>4. SubSeq(h \o q, Len(h) + i, Len(h) + j) = SubSeq(q, i, j)
    BY <2>2, <2>3, Zenon
  <2>5. SubSeq(q, 1, Len(q)) = q
    BY SubSeqFull DEF Bytes
  <2>6. Len(h) + 1 = n + 4 + 1 /\ Len(h) + Len(q) = Len(b)
    BY <1>4
  <2> QED BY <1>1, <1>3, <2>1, <2>4, <2>5, <2>6
<1>8. Finish(b, n + 4) = SubSeq(b, 1, n) \o Redundant(Len(q), 4) \o SubSeq(b, n + 4 + 1, Len(b))
  <2>1. Finish(b, n + 4)
          = SubSeq(b, 1, (n + 4) - 4) \o Redundant(Len(b) - (n + 4), 4) \o SubSeq(b, (n + 4) + 1, Len(b))
    BY DEF Finish, LenBytes
  <2>2. (n + 4) - 4 = n /\ Len(b) - (n + 4) = Len(q)
    BY <1>4
  <2> QED BY <2>1, <2>2, Zenon
<1> QED BY <1>1, <1>2, <1>6, <1>7, <1>8 DEF LenBytes

\* The length of a message has its four bytes, also where they cannot say it.
LEMMA LengthBytes ==
  ASSUME NEW v \in Nat
  PROVE  Redundant(v, 4) \in Bytes /\ Len(Redundant(v, 4)) = 4
<1> DEFINE b == Redundant(v, 4)
<1>1. /\ 128 ^ (1 - 1) = 1 /\ 128 ^ (2 - 1) = 128 /\ 128 ^ (3 - 1) = 128 * 128
      /\ 128 ^ (4 - 1) = 128 * 128 * 128
  OBVIOUS
<1>2. b = [i \in 1 .. 4 |-> ((v \div 128 ^ (i - 1)) % 128) + IF i = 4 THEN 0 ELSE 128]
  BY DEF Redundant
<1>3. /\ b[1] = (v % 128) + 128
      /\ b[2] = ((v \div 128) % 128) + 128
      /\ b[3] = ((v \div (128 * 128)) % 128) + 128
      /\ b[4] = (v \div (128 * 128 * 128)) % 128
  BY <1>1, <1>2
<1>4. b = [i \in 1 .. 4 |-> b[i]]
  BY <1>2
<1> HIDE DEF b
<1>5. \A i \in 1 .. 4 : b[i] \in Byte
  <2>1. \A i \in 1 .. 4 : i = 1 \/ i = 2 \/ i = 3 \/ i = 4
    OBVIOUS
  <2> QED BY <1>3, <2>1 DEF Byte
<1>6. PICK n \in Nat : n = 4
  OBVIOUS
<1>7. b \in [1 .. n -> Byte]
  BY <1>4, <1>5, <1>6
<1>8. b \in Bytes /\ Len(b) = n
  BY <1>7 DEF Bytes
<1> QED BY <1>6, <1>8 DEF b

LEMMA ShortFacts ==
  ASSUME NEW q \in Bytes
  PROVE  /\ Len(q) < Long => IsVarint(Redundant(Len(q), LenBytes), Len(q))
         /\ Redundant(Len(q), LenBytes) \in Bytes /\ Len(Redundant(Len(q), LenBytes)) = LenBytes
<1>1. Len(q) \in Nat
  BY LenProperties DEF Bytes
<1>2. Len(q) < Long => IsVarint(Redundant(Len(q), 4), Len(q))
  BY <1>1, RedundantWritten
<1> QED BY <1>1, <1>2, LengthBytes DEF LenBytes

\* The room begin_message leaves.
Room == [i \in 1 .. LenBytes |-> 0]

LEMMA RoomFacts == Room \in Bytes /\ Len(Room) = LenBytes
BY DEF Room, LenBytes, Bytes, Byte

\* What a message begun after p and finished after q is: p, and the field of q.
LEMMA BegunFinished ==
  ASSUME NEW p \in Bytes, NEW id \in Ids, NEW q \in Bytes
  PROVE  /\ Begin(p, id) \in Bytes /\ Token(Begin(p, id)) = Len(p) + Len(Tag(id, 2)) + LenBytes
         /\ Finish(Begin(p, id) \o q, Token(Begin(p, id)))
              = p \o ((Tag(id, 2) \o Redundant(Len(q), LenBytes)) \o q)
<1>1. PICK w \in 0 .. 7 : w = 2
  OBVIOUS
<1>2. PICK t : t = Tag(id, 2)
  OBVIOUS
<1>3. t \in Bytes
  BY <1>1, <1>2, TagRead, EmptySeq DEF Bytes
<1>4. PICK h \in Bytes : h = p \o t
  BY <1>3, Shifted
<1>5. Len(h) = Len(p) + Len(t) /\ Len(h) \in Nat /\ Len(p) \in Nat /\ Len(t) \in Nat
  BY <1>3, <1>4, Shifted
<1>6. Begin(p, id) = h \o Room
  BY <1>2, <1>4 DEF Begin, Room
<1>7. h \o Room \in Bytes /\ Len(h \o Room) = Len(h) + LenBytes
  BY RoomFacts, Shifted
<1>8. Finish((h \o Room) \o q, Len(h) + LenBytes) = (h \o Redundant(Len(q), LenBytes)) \o q
  BY RoomFacts, FinishIs
<1>9. PICK r : r = Redundant(Len(q), LenBytes)
  OBVIOUS
<1>10. r \in Bytes
  BY <1>9, ShortFacts
<1>11. ((p \o t) \o r) \o q = p \o ((t \o r) \o q)
  <2>1. t \o r \in Bytes
    BY <1>3, <1>10, Shifted
  <2>2. (p \o t) \o r = p \o (t \o r)
    BY <1>3, <1>10, BytesAssociative
  <2>3. (p \o (t \o r)) \o q = p \o ((t \o r) \o q)
    BY <2>1, BytesAssociative
  <2> QED BY <2>2, <2>3
<1>12. Token(Begin(p, id)) = Len(h) + LenBytes
  BY <1>6, <1>7 DEF Token
<1> QED BY <1>2, <1>4, <1>5, <1>6, <1>7, <1>8, <1>9, <1>11, <1>12

LEMMA MessageIs ==
  ASSUME NEW id \in Ids, NEW q \in Bytes
  PROVE  Message(id, q) = (Tag(id, 2) \o Redundant(Len(q), LenBytes)) \o q
<1>1. <<>> \in Bytes
  BY EmptySeq DEF Bytes
<1>2. PICK w \in 0 .. 7 : w = 2
  OBVIOUS
<1>3. Tag(id, 2) \in Bytes /\ Redundant(Len(q), LenBytes) \in Bytes
  BY <1>1, <1>2, TagRead, ShortFacts
<1>4. PICK m \in Bytes : m = (Tag(id, 2) \o Redundant(Len(q), LenBytes)) \o q
  BY <1>3, Shifted
<1>5. Message(id, q) = <<>> \o m
  BY <1>1, <1>4, BegunFinished DEF Message
<1> QED BY <1>4, <1>5, ConcatEmptySeq DEF Bytes

LEMMA MessageCodes ==
  ASSUME NEW id \in Ids, NEW q \in Bytes, Len(q) < Long
  PROVE  Codes(Message(id, q), <<BytesField(id, q)>>)
<1>1. PICK w \in 0 .. 7 : w = 2
  OBVIOUS
<1>2. IsVarint(Redundant(Len(q), LenBytes), Len(q))
  BY ShortFacts
<1>3. Codes((Tag(id, w) \o Redundant(Len(q), LenBytes)) \o q, <<BytesField(id, q)>>)
  BY <1>1, <1>2, BytesCodes
<1> QED BY <1>1, <1>3, MessageIs

-----------------------------------------------------------------------------
(* Folds: FoldLeft goes through a sequence from its start.                   *)

LEMMA SubsetsOfNone == SUBSET (1 .. 0) = {{}} /\ {} \in SUBSET (1 .. 0) /\ 1 .. 0 = {}
OBVIOUS

LEMMA MaxIs ==
  ASSUME NEW S \in SUBSET Nat, NEW m \in S, \A j \in S : j <= m
  PROVE  Max(S) = m
<1>1. \A x \in S : (\A y \in S : x >= y) => x = m
  OBVIOUS
<1>2. \A y \in S : m >= y
  OBVIOUS
<1> QED BY <1>1, <1>2 DEF Max

LEMMA RangesOf ==
  ASSUME NEW n \in Nat, NEW i \in 1 .. n
  PROVE  /\ 1 .. i \in SUBSET (1 .. n) /\ 1 .. i # {} /\ Max(1 .. i) = i
         /\ (1 .. i) \ {i} = 1 .. i - 1 /\ i - 1 \in 0 .. n
<1>1. Max(1 .. i) = i
  <2>1. 1 .. i \in SUBSET Nat /\ i \in 1 .. i /\ \A j \in 1 .. i : j <= i
    OBVIOUS
  <2> QED BY <2>1, MaxIs
<1> QED BY <1>1

LEMMA MaxOfRange ==
  ASSUME NEW n \in Nat, NEW u \in SUBSET (1 .. n), u # {}
  PROVE  Max(u) \in u /\ Max(u) \in 1 .. n /\ u \ {Max(u)} \in SUBSET (1 .. n)
<1> DEFINE S == {k \in Nat : \A v \in SUBSET (1 .. k) : v # {} => Max(v) \in v}
<1>1. 0 \in S
  BY SubsetsOfNone
<1>2. ASSUME NEW k \in S PROVE k + 1 \in S
  <2> SUFFICES ASSUME NEW v \in SUBSET (1 .. k + 1), v # {} PROVE Max(v) \in v
    OBVIOUS
  <2>1. CASE k + 1 \in v
    <3>1. v \in SUBSET Nat /\ \A j \in v : j <= k + 1
      OBVIOUS
    <3> QED BY <2>1, <3>1, MaxIs
  <2>2. CASE k + 1 \notin v
    <3>1. ASSUME NEW j \in v PROVE j \in 1 .. k
      <4>1. j \in 1 .. k + 1 /\ j # k + 1
        BY <2>2
      <4> QED BY <4>1
    <3> QED BY <3>1
  <2> QED BY <2>1, <2>2
<1>3. S = Nat
  <2>1. S \in SUBSET Nat
    OBVIOUS
  <2> HIDE DEF S
  <2> QED BY <1>1, <1>2, <2>1, Induction
<1> QED BY <1>3

FoldsOver(R, base, n, G) ==
  \E f \in [SUBSET (1 .. n) -> R] :
    f = [u \in SUBSET (1 .. n) |-> IF u = {} THEN base ELSE G[<<f[u \ {Max(u)}], Max(u)>>]]

\* What the definition of a fold takes for granted: the fold of every subset.
LEMMA FoldOfSubsets ==
  ASSUME NEW R, NEW base \in R, NEW n \in Nat, NEW G \in [R \X (1 .. n) -> R]
  PROVE  FoldsOver(R, base, n, G)
<1> DEFINE Folds(f, k) ==
             /\ f \in [SUBSET (1 .. k) -> R]
             /\ \A u \in SUBSET (1 .. k) :
                  f[u] = IF u = {} THEN base ELSE G[<<f[u \ {Max(u)}], Max(u)>>]
           K == {k \in Nat : k <= n => \E f : Folds(f, k)}
<1>1. 0 \in K
  <2>1. Folds([u \in SUBSET (1 .. 0) |-> base], 0)
    BY SubsetsOfNone
  <2> QED BY <2>1
<1>2. ASSUME NEW k \in K PROVE k + 1 \in K
  <2>0. SUFFICES ASSUME k + 1 <= n PROVE \E f : Folds(f, k + 1)
    <3> HIDE DEF Folds
    <3> QED OBVIOUS
  <2>1. PICK f : Folds(f, k)
    <3>1. k \in Nat /\ k <= n
      BY <2>0
    <3> HIDE DEF Folds
    <3> QED BY <3>1
  <2> DEFINE g == [u \in SUBSET (1 .. k + 1) |->
                    IF k + 1 \in u THEN G[<<f[u \ {k + 1}], k + 1>>] ELSE f[u]]
  <2>2. ASSUME NEW u \in SUBSET (1 .. k + 1)
        PROVE  /\ g[u] \in R
               /\ g[u] = IF u = {} THEN base ELSE G[<<g[u \ {Max(u)}], Max(u)>>]
    <3>0. ASSUME NEW j \in u, j # k + 1 PROVE j \in 1 .. k
      <4>1. j \in 1 .. k + 1
        OBVIOUS
      <4> QED BY <3>0, <4>1
    <3>1. CASE k + 1 \in u
      <4>1. Max(u) = k + 1
        <5>1. u \in SUBSET Nat /\ \A j \in u : j <= k + 1
          OBVIOUS
        <5> QED BY <3>1, <5>1, MaxIs
      <4>2. PICK v : v = u \ {k + 1}
        OBVIOUS
      <4>3. v \in SUBSET (1 .. k) /\ v \in SUBSET (1 .. k + 1) /\ k + 1 \notin v
        BY <3>0, <4>2
      <4>4. g[v] = f[v] /\ f[v] \in R
        BY <2>1, <4>3
      <4>5. u # {} /\ g[u] = G[<<f[v], k + 1>>]
        BY <3>1, <4>2
      <4>6. k + 1 \in 1 .. n
        BY <2>0
      <4> HIDE DEF g
      <4> QED BY <4>1, <4>2, <4>4, <4>5, <4>6
    <3>2. CASE k + 1 \notin u
      <4>1. u \in SUBSET (1 .. k)
        BY <3>0, <3>2
      <4>2. PICK v : v = u \ {Max(u)}
        OBVIOUS
      <4>3. v \in SUBSET (1 .. k + 1) /\ v \in SUBSET (1 .. k) /\ k + 1 \notin v
        BY <3>2, <4>1, <4>2
      <4>4. g[u] = f[u] /\ g[v] = f[v]
        BY <3>2, <4>3
      <4>5. f[u] \in R /\ f[u] = IF u = {} THEN base ELSE G[<<f[v], Max(u)>>]
        BY <2>1, <4>1, <4>2
      <4> HIDE DEF g
      <4> QED BY <4>2, <4>4, <4>5
    <3> QED BY <3>1, <3>2
  <2>3. g \in [SUBSET (1 .. k + 1) -> R]
    <3>1. g = [u \in SUBSET (1 .. k + 1) |-> g[u]]
      OBVIOUS
    <3> HIDE DEF g
    <3> QED BY <2>2, <3>1
  <2>4. Folds(g, k + 1)
    <3> HIDE DEF g
    <3> QED BY <2>2, <2>3
  <2> QED BY <2>4
<1>3. PICK f : Folds(f, n)
  <2>1. K \in SUBSET Nat
    OBVIOUS
  <2> HIDE DEF K, Folds
  <2>2. K = Nat
    BY <1>1, <1>2, <2>1, Induction
  <2>3. n \in K
    BY <2>2
  <2> QED BY <2>3 DEF K
<1>4. f = [u \in SUBSET (1 .. n) |-> IF u = {} THEN base ELSE G[<<f[u \ {Max(u)}], Max(u)>>]]
  BY <1>3
<1> QED BY <1>3, <1>4 DEF FoldsOver

\* Fields goes through a message field by field.
FieldsRun(h, id, m) ==
  /\ h \in [0 .. Len(m) -> Seq(Field)] /\ h[0] = <<>> /\ h[Len(m)] = Fields(m, id)
  /\ \A i \in 1 .. Len(m) : h[i] = (IF m[i].id = id THEN Append(h[i - 1], m[i]) ELSE h[i - 1])

LEMMA FieldsFold ==
  ASSUME NEW id, NEW m \in Seq(Field)
  PROVE  \E h : FieldsRun(h, id, m)
<1> DEFINE n == Len(m)
           G == [p \in Seq(Field) \X (1 .. n) |-> (IF m[p[2]].id = id THEN Append(p[1], m[p[2]]) ELSE p[1])]
           Folds(f) == f = [u \in SUBSET (1 .. n) |->
                             IF u = {} THEN <<>> ELSE (IF m[Max(u)].id = id THEN Append(f[u \ {Max(u)}], m[Max(u)]) ELSE f[u \ {Max(u)}])]
<1>0. <<>> \in Seq(Field)
  BY EmptySeq
<1>1. n \in Nat /\ DOMAIN m = 1 .. n /\ \A i \in 1 .. n : m[i] \in Field
  BY LenProperties, ElementOfSeq
<1>2. \A a \in Seq(Field) : \A x \in Field : (IF x.id = id THEN Append(a, x) ELSE a) \in Seq(Field)
  BY AppendProperties
<1>3. G \in [Seq(Field) \X (1 .. n) -> Seq(Field)]
  BY <1>1, <1>2
<1>4. PICK f \in [SUBSET (1 .. n) -> Seq(Field)] :
        f = [u \in SUBSET (1 .. n) |-> IF u = {} THEN <<>> ELSE G[<<f[u \ {Max(u)}], Max(u)>>]]
  <2>1. PICK V : V = Seq(Field)
    OBVIOUS
  <2>2. <<>> \in V /\ G \in [V \X (1 .. n) -> V]
    BY <1>0, <1>3, <2>1
  <2> HIDE DEF G, n
  <2>3. FoldsOver(V, <<>>, n, G)
    BY <1>1, <2>2, FoldOfSubsets
  <2> QED BY <2>1, <2>3 DEF FoldsOver
<1>5. Folds(f)
  <2>1. ASSUME NEW u \in SUBSET (1 .. n), u # {}
        PROVE  G[<<f[u \ {Max(u)}], Max(u)>>] = (IF m[Max(u)].id = id THEN Append(f[u \ {Max(u)}], m[Max(u)]) ELSE f[u \ {Max(u)}])
    <3>1. Max(u) \in 1 .. n /\ u \ {Max(u)} \in SUBSET (1 .. n)
      BY <1>1, <2>1, MaxOfRange
    <3> QED BY <3>1
  <2> HIDE DEF G, n
  <2> QED BY <1>4, <2>1
<1> DEFINE iter == CHOOSE g : Folds(g)
<1>6. Folds(iter)
  BY <1>5
<1>7. Fields(m, id) = iter[1 .. n]
  BY <1>1 DEF Fields, FoldLeft, MapThenFoldSet
<1> HIDE DEF iter, G, n
<1> DEFINE h == [i \in 0 .. n |-> iter[1 .. i]]
<1>8. h[0] = <<>>
  <2>1. iter[1 .. 0] = <<>>
    BY <1>6, SubsetsOfNone
  <2> QED BY <1>1, <2>1
<1>9. ASSUME NEW i \in 1 .. n PROVE h[i] = (IF m[i].id = id THEN Append(h[i - 1], m[i]) ELSE h[i - 1])
  <2>1. 1 .. i \in SUBSET (1 .. n) /\ 1 .. i # {} /\ Max(1 .. i) = i /\ (1 .. i) \ {i} = 1 .. i - 1
        /\ i - 1 \in 0 .. n
    BY <1>1, RangesOf
  <2>2. iter[1 .. i] = (IF m[Max(1 .. i)].id = id THEN Append(iter[(1 .. i) \ {Max(1 .. i)}], m[Max(1 .. i)]) ELSE iter[(1 .. i) \ {Max(1 .. i)}])
    <3> PICK u : u = 1 .. i
      OBVIOUS
    <3> QED BY <1>6, <2>1
  <2>3. h[i] = iter[1 .. i] /\ h[i - 1] = iter[1 .. i - 1]
    BY <2>1
  <2> HIDE DEF h
  <2> QED BY <2>1, <2>2, <2>3
<1>10. h[n] = Fields(m, id)
  <2>1. h[n] = iter[1 .. n]
    BY <1>1
  <2> HIDE DEF h
  <2> QED BY <1>7, <2>1
<1>11. \A i \in 0 .. n : h[i] \in Seq(Field)
  <2> DEFINE K == {k \in Nat : k <= n => h[k] \in Seq(Field)}
  <2> HIDE DEF h
  <2>1. 0 \in K
    BY <1>0, <1>8
  <2>2. ASSUME NEW k \in K PROVE k + 1 \in K
    <3> SUFFICES ASSUME k + 1 <= n PROVE h[k + 1] \in Seq(Field)
      OBVIOUS
    <3>1. PICK i \in 1 .. n : i = k + 1
      BY <1>1
    <3>2. h[i - 1] \in Seq(Field) /\ m[i] \in Field
      BY <1>1, <3>1
    <3> QED BY <1>2, <1>9, <3>1, <3>2
  <2>3. K = Nat
    <3>1. K \in SUBSET Nat
      OBVIOUS
    <3> HIDE DEF K
    <3> QED BY <2>1, <2>2, <3>1, Induction
  <2> QED BY <1>1, <2>3
<1>12. h \in [0 .. n -> Seq(Field)]
  <2>1. h = [i \in 0 .. n |-> h[i]]
    OBVIOUS
  <2> HIDE DEF h
  <2> QED BY <1>11, <2>1
<1> HIDE DEF h
<1> QED BY <1>8, <1>9, <1>10, <1>12 DEF n, FieldsRun

Picked(id, f) == IF f.id = id THEN <<f>> ELSE <<>>

\* The fields with an id, from the start.
PickedRun(h, id, m) ==
  /\ h \in [0 .. Len(m) -> Seq(Field)] /\ h[0] = <<>> /\ h[Len(m)] = Fields(m, id)
  /\ \A i \in 1 .. Len(m) : h[i] = h[i - 1] \o Picked(id, m[i])

LEMMA FieldsChain ==
  ASSUME NEW id, NEW m \in Seq(Field)
  PROVE  \E h : PickedRun(h, id, m)
<1>0. <<>> \in Seq(Field) /\ Len(m) \in Nat
  BY EmptySeq, LenProperties
<1>1. PICK h : FieldsRun(h, id, m)
  BY FieldsFold
<1>3. h \in [0 .. Len(m) -> Seq(Field)] /\ h[0] = <<>> /\ h[Len(m)] = Fields(m, id)
  BY <1>1 DEF FieldsRun
<1>2. ASSUME NEW i \in 1 .. Len(m) PROVE h[i] = h[i - 1] \o Picked(id, m[i])
  <2>1. PICK s \in Seq(Field) : s = h[i - 1]
    BY <1>0, <1>3
  <2>2. PICK f \in Field : f = m[i]
    BY ElementOfSeq
  <2>3. Append(s, f) = s \o <<f>> /\ s \o <<>> = s
    BY AppendIsConcat, ConcatEmptySeq
  <2>4. h[i] = IF m[i].id = id THEN Append(h[i - 1], m[i]) ELSE h[i - 1]
    BY <1>1 DEF FieldsRun
  <2> QED BY <2>1, <2>2, <2>3, <2>4 DEF Picked
<1> QED BY <1>2, <1>3 DEF PickedRun

LEMMA FieldsType ==
  ASSUME NEW id, NEW m \in Seq(Field)
  PROVE  Fields(m, id) \in Seq(Field)
<1>1. Len(m) \in 0 .. Len(m)
  BY LenProperties
<1>2. PICK h : PickedRun(h, id, m)
  BY FieldsChain
<1> QED BY <1>1, <1>2 DEF PickedRun

LEMMA FieldsNone ==
  ASSUME NEW id, NEW m \in Seq(Field), \A i \in 1 .. Len(m) : m[i].id # id
  PROVE  Fields(m, id) = <<>>
<1>1. PICK n \in Nat : n = Len(m)
  BY LenProperties
<1>2. PICK h \in [0 .. n -> Seq(Field)] :
        /\ h[0] = <<>> /\ h[n] = Fields(m, id)
        /\ \A i \in 1 .. n : h[i] = h[i - 1] \o Picked(id, m[i])
  <2>1. PICK r : PickedRun(r, id, m)
    BY FieldsChain
  <2> QED BY <1>1, <2>1 DEF PickedRun
<1> DEFINE K == {k \in Nat : k <= n => h[k] = <<>>}
<1>3. 0 \in K
  BY <1>2
<1>4. ASSUME NEW k \in K PROVE k + 1 \in K
  <2> SUFFICES ASSUME k + 1 <= n PROVE h[k + 1] = <<>>
    OBVIOUS
  <2>1. PICK i \in 1 .. n : i = k + 1
    BY <1>1
  <2>2. h[i] = h[i - 1] \o Picked(id, m[i]) /\ h[i - 1] = <<>>
    <3>1. i - 1 = k /\ k <= n
      BY <1>1, <2>1
    <3>2. h[k] = <<>>
      BY <3>1
    <3> QED BY <1>2, <3>1, <3>2
  <2>3. Picked(id, m[i]) = <<>>
    BY <1>1, <2>1 DEF Picked
  <2>4. <<>> \o <<>> = <<>>
    BY ConcatEmptySeq, EmptySeq
  <2> QED BY <2>1, <2>2, <2>3, <2>4
<1>5. K = Nat
  <2>1. K \in SUBSET Nat
    OBVIOUS
  <2> HIDE DEF K
  <2> QED BY <1>3, <1>4, <2>1, Induction
<1>6. h[n] = <<>>
  <2>1. n \in K
    BY <1>1, <1>5
  <2> QED BY <2>1
<1> QED BY <1>2, <1>6

LEMMA FieldsOne ==
  ASSUME NEW id, NEW f \in Field
  PROVE  Fields(<<f>>, id) = Picked(id, f)
<1>1. PICK m \in Seq(Field) : m = <<f>>
  <2>1. <<f>> \in Seq(Field)
    OBVIOUS
  <2> QED BY <2>1
<1>2. Len(m) = 1 /\ m[1] = f
  BY <1>1
<1>3. PICK h \in [0 .. 1 -> Seq(Field)] :
        /\ h[0] = <<>> /\ h[1] = Fields(m, id)
        /\ \A i \in 1 .. 1 : h[i] = h[i - 1] \o Picked(id, m[i])
  <2>1. PICK r : PickedRun(r, id, m)
    BY FieldsChain
  <2> QED BY <1>2, <2>1 DEF PickedRun
<1>4. h[1] = <<>> \o Picked(id, f)
  <2>1. h[1] = h[1 - 1] \o Picked(id, m[1])
    BY <1>3
  <2>2. 1 - 1 = 0
    OBVIOUS
  <2> QED BY <1>2, <1>3, <2>1, <2>2
<1>5. Picked(id, f) \in Seq(Field)
  BY EmptySeq DEF Picked
<1> QED BY <1>1, <1>3, <1>4, <1>5, ConcatEmptySeq

LEMMA FieldsAssociative ==
  ASSUME NEW p \in Seq(Field), NEW q \in Seq(Field), NEW r \in Seq(Field)
  PROVE  (p \o q) \o r = p \o (q \o r)
BY ConcatAssociative

\* Of two messages, one after the other.
LEMMA FieldsBoth ==
  ASSUME NEW id, NEW m \in Seq(Field), NEW n \in Seq(Field)
  PROVE  Fields(m \o n, id) = Fields(m, id) \o Fields(n, id)
<1>1. PICK a \in Nat : a = Len(m)
  BY LenProperties
<1>2. PICK b \in Nat : b = Len(n)
  BY LenProperties
<1>3. PICK c \in Seq(Field) : c = m \o n
  BY ConcatProperties
<1>4. /\ Len(c) = a + b
      /\ \A i \in 1 .. a : c[i] = m[i]
      /\ \A i \in 1 .. b : c[a + i] = n[i]
  <2>1. Len(c) = a + b
    BY <1>1, <1>2, <1>3, ConcatProperties
  <2>2. \A i \in 1 .. a : c[i] = m[i]
    BY <1>1, <1>3, ConcatProperties
  <2>3. ASSUME NEW i \in 1 .. b PROVE c[a + i] = n[i]
    <3>1. PICK j : j = a + i
      OBVIOUS
    <3>2. j \in 1 .. a + b /\ ~(j <= a) /\ j - a = i
      BY <3>1
    <3>3. c[j] = IF j <= Len(m) THEN m[j] ELSE n[j - Len(m)]
      BY <1>1, <1>2, <1>3, <3>2, ConcatProperties
    <3> QED BY <1>1, <3>1, <3>2, <3>3
  <2> QED BY <2>1, <2>2, <2>3
<1>5. PICK f \in [0 .. a -> Seq(Field)] :
        /\ f[0] = <<>> /\ f[a] = Fields(m, id)
        /\ \A i \in 1 .. a : f[i] = f[i - 1] \o Picked(id, m[i])
  <2>1. PICK r : PickedRun(r, id, m)
    BY FieldsChain
  <2> QED BY <1>1, <2>1 DEF PickedRun
<1>6. PICK g \in [0 .. b -> Seq(Field)] :
        /\ g[0] = <<>> /\ g[b] = Fields(n, id)
        /\ \A i \in 1 .. b : g[i] = g[i - 1] \o Picked(id, n[i])
  <2>1. PICK r : PickedRun(r, id, n)
    BY FieldsChain
  <2> QED BY <1>2, <2>1 DEF PickedRun
<1>7. PICK h \in [0 .. a + b -> Seq(Field)] :
        /\ h[0] = <<>> /\ h[a + b] = Fields(c, id)
        /\ \A i \in 1 .. a + b : h[i] = h[i - 1] \o Picked(id, c[i])
  <2>1. PICK r : PickedRun(r, id, c)
    BY FieldsChain
  <2> QED BY <1>4, <2>1 DEF PickedRun
<1>8. h[a] = f[a]
  <2> DEFINE K == {k \in Nat : k <= a => h[k] = f[k]}
  <2>1. 0 \in K
    BY <1>5, <1>7
  <2>2. ASSUME NEW k \in K PROVE k + 1 \in K
    <3> SUFFICES ASSUME k + 1 <= a PROVE h[k + 1] = f[k + 1]
      OBVIOUS
    <3>1. PICK i \in 1 .. a : i = k + 1
      OBVIOUS
    <3>2. i \in 1 .. a + b /\ i - 1 = k /\ k <= a
      BY <3>1
    <3>3. h[i] = h[i - 1] \o Picked(id, c[i]) /\ f[i] = f[i - 1] \o Picked(id, m[i]) /\ c[i] = m[i]
      BY <1>4, <1>5, <1>7, <3>2
    <3> QED BY <3>1, <3>2, <3>3
  <2>3. K = Nat
    <3>1. K \in SUBSET Nat
      OBVIOUS
    <3> HIDE DEF K
    <3> QED BY <2>1, <2>2, <3>1, Induction
  <2>4. a \in K
    BY <2>3
  <2> QED BY <2>4
<1>9. PICK p \in Seq(Field) : p = h[a]
  <2>1. a \in 0 .. a + b
    OBVIOUS
  <2> QED BY <1>7, <2>1
<1>10. h[a + b] = p \o g[b]
  <2> DEFINE Same(k) == h[a + k] = p \o g[k]
             K == {k \in Nat : k <= b => Same(k)}
  <2>1. 0 \in K
    <3>1. a + 0 = a /\ p \o <<>> = p
      BY ConcatEmptySeq
    <3> QED BY <1>6, <1>9, <3>1
  <2>2. ASSUME NEW k \in K PROVE k + 1 \in K
    <3>0. SUFFICES ASSUME k + 1 <= b PROVE Same(k + 1)
      <4> HIDE DEF Same
      <4> QED OBVIOUS
    <3>1. PICK i \in 1 .. b : i = k + 1
      BY <3>0
    <3>2. PICK j \in 1 .. a + b : j = a + i
      OBVIOUS
    <3>3. j - 1 = a + k /\ i - 1 = k /\ k <= b /\ k \in 0 .. b /\ j = a + (k + 1)
      BY <3>1, <3>2
    <3>4. h[j] = h[j - 1] \o Picked(id, c[j]) /\ c[j] = n[i]
      BY <1>4, <1>7, <3>2
    <3>5. g[i] = g[i - 1] \o Picked(id, n[i])
      BY <1>6
    <3>6. h[a + k] = p \o g[k]
      BY <3>3
    <3>7. PICK q \in Seq(Field) : q = g[k]
      BY <3>3
    <3>8. PICK r \in Seq(Field) : r = Picked(id, n[i])
      <4>1. n[i] \in Field
        BY <1>2, ElementOfSeq
      <4>2. Picked(id, n[i]) \in Seq(Field)
        BY <4>1, EmptySeq DEF Picked
      <4> QED BY <4>2
    <3>9. (p \o q) \o r = p \o (q \o r)
      BY FieldsAssociative
    <3> QED BY <3>1, <3>3, <3>4, <3>5, <3>6, <3>7, <3>8, <3>9
  <2>3. K = Nat
    <3>1. K \in SUBSET Nat
      OBVIOUS
    <3> HIDE DEF K
    <3> QED BY <2>1, <2>2, <3>1, Induction
  <2>4. b \in K
    BY <2>3
  <2> QED BY <2>4
<1> QED BY <1>3, <1>5, <1>6, <1>7, <1>8, <1>9, <1>10
-----------------------------------------------------------------------------
(* What the encoder promises.                                               *)

\* A number is read back as it was, in each of the forms proto.rs writes one in,
\* as the varint whose loop ends by itself, as the varint padded to the width of a
\* word and as fixed bytes: whatever bytes come after it.
THEOREM NumbersReadBack ==
  ASSUME NEW id \in Ids, NEW v \in Word
  PROVE  /\ Codes(VarintField(id, v), <<NumberField(id, v)>>)
         /\ Codes(RedundantField(id, v), <<NumberField(id, v)>>)
         /\ Codes(Fixed64Field(id, v), <<NumberField(id, v)>>)
<1>1. v \in Nat /\ v < Words
  BY WordFacts DEF Word
<1> QED BY <1>1, VarintFieldCodes, RedundantFieldCodes, Fixed64FieldCodes

\* Text and a nested message are read back byte for byte, whether their length is
\* written ahead or left room for and filled in when the message is finished, as
\* long as its four bytes hold it; finishing disturbs nothing before the message.
THEOREM BytesReadBack ==
  ASSUME NEW id \in Ids, NEW text \in Bytes, Len(text) < Long
  PROVE  /\ Codes(StringField(id, text), <<BytesField(id, text)>>)
         /\ Codes(FmtField(id, text), <<BytesField(id, text)>>)
         /\ Codes(Message(id, text), <<BytesField(id, text)>>)
         /\ \A p \in Bytes :
              Finish(Begin(p, id) \o text, Token(Begin(p, id))) = p \o Message(id, text)
<1>1. FmtField(id, text) = Message(id, text)
  BY DEF FmtField
<1>2. ASSUME NEW p \in Bytes
      PROVE  Finish(Begin(p, id) \o text, Token(Begin(p, id))) = p \o Message(id, text)
  <2>1. Finish(Begin(p, id) \o text, Token(Begin(p, id)))
          = p \o ((Tag(id, 2) \o Redundant(Len(text), LenBytes)) \o text)
    BY BegunFinished
  <2>2. Message(id, text) = (Tag(id, 2) \o Redundant(Len(text), LenBytes)) \o text
    BY MessageIs
  <2> QED BY <2>1, <2>2
<1> QED BY <1>1, <1>2, StringFieldCodes, MessageCodes

\* What says some fields and then what says others says both, and its fields of one
\* number are those of the one and then those of the other: so the bytes of any
\* callback, which are put together of the fields above, are read as the fields
\* they were put together of, and nothing an encoder appends changes what is
\* before it.
THEOREM MessagesReadBack ==
  ASSUME NEW a, NEW m, NEW b, NEW n, Codes(a, m), Codes(b, n)
  PROVE  /\ Parse(a) = m /\ Codes(a \o b, m \o n)
         /\ \A id : Fields(Parse(a \o b), id) = Fields(m, id) \o Fields(n, id)
<1>1. Codes(a \o b, m \o n)
  BY CodesBoth
<1>2. Parse(a) = m /\ Parse(a \o b) = m \o n
  BY <1>1, CodesParse
<1>3. m \in Seq(Field) /\ n \in Seq(Field)
  BY DEF Codes
<1>4. ASSUME NEW id PROVE Fields(m \o n, id) = Fields(m, id) \o Fields(n, id)
  BY <1>3, FieldsBoth
<1> QED BY <1>1, <1>2, <1>4
====
