------------------------ MODULE ExtrinsicFrameProofs -------------------------
(***************************************************************************)
(* The frame is read back for a text of any length.  The arithmetic of the *)
(* compact lengths comes first: a number of three bytes more than its      *)
(* first is put together from quotients and remainders by 256.             *)
(***************************************************************************)
EXTENDS ExtrinsicFrame, SequenceTheorems, TLAPS

-----------------------------------------------------------------------------
(* Bytes of a number *)

\* A number is 256 times its quotient and a byte.
LEMMA Quotient256 ==
    \A m \in Int : /\ m % 256 \in 0..255
                   /\ m = 256 * (m \div 256) + (m % 256)
                   /\ m \div 256 \in Int
BY SMT

\* Shifting by two and three bytes is shifting by one byte twice and three times.
LEMMA QuotientOfQuotient ==
    \A m \in Int : /\ m \div 65536 = (m \div 256) \div 256
                   /\ m \div 16777216 = ((m \div 256) \div 256) \div 256
BY SMT

\* The low byte of 4 * v + d keeps the mode d and the six low bits of v.
LEMMA LowByte ==
    ASSUME NEW r \in 0..255, NEW q \in Int, NEW v \in Int, NEW d \in 0..3,
           4 * v + d = 256 * q + r
    PROVE  r % 4 = d /\ r \div 4 = v - 64 * q
<1>. DEFINE w == v - 64 * q
<1>1. w \in Int /\ r = 4 * w + d
  BY SMT
<1>. HIDE DEF w
<1>2. r % 4 = d /\ r \div 4 = w
  BY <1>1, SMT
<1>. QED  BY <1>2, SMT DEF w

\* value << 2 is 4 * value, or 2^32 less once the sign bit is reached.
LEMMA Shifted ==
    ASSUME NEW v \in Nat, v <= Max4
    PROVE  ShiftLeft2(v) = IF v < 536870912 THEN 4 * v ELSE 4 * v - 4294967296
<1>1. v < 1073741824
  BY SMT DEF Max4
<1>2. v % 1073741824 = v
  BY <1>1, SMT
<1>. QED  BY <1>2, SMT DEF ShiftLeft2

\* Two bytes in mode 1 give the number back.
LEMMA TwoBytes ==
    ASSUME NEW v \in Nat, v <= Max2, NEW m \in Int, m = 4 * v + 1
    PROVE  /\ (m % 256) % 4 = 1
           /\ ((m % 256) \div 4) + 64 * ((m \div 256) % 256) = v
<1>1. /\ m % 256 \in 0..255
      /\ m = 256 * (m \div 256) + (m % 256)
      /\ m \div 256 \in Int
  BY Quotient256
<1>2. m \div 256 \in 0..255
  BY <1>1, SMT DEF Max2
<1>3. (m \div 256) % 256 = m \div 256
  BY <1>2, SMT
<1>4. (m % 256) % 4 = 1 /\ (m % 256) \div 4 = v - 64 * (m \div 256)
  BY <1>1, LowByte, SMT
<1>. QED  BY <1>1, <1>3, <1>4, SMT

\* Four bytes in mode 2 give the number back, also from a negative int32.
LEMMA FourBytes ==
    ASSUME NEW v \in Nat, v <= Max4, NEW m \in Int,
           m = 4 * v + 2 \/ m = 4 * v + 2 - 4294967296
    PROVE  /\ (m % 256) % 4 = 2
           /\ ((m % 256) \div 4) + 64 * ((m \div 256) % 256)
                + 16384 * ((m \div 65536) % 256)
                + 4194304 * ((m \div 16777216) % 256) = v
<1>. DEFINE q1 == m \div 256   q2 == q1 \div 256   q3 == q2 \div 256   q4 == q3 \div 256
            r0 == m % 256      r1 == q1 % 256      r2 == q2 % 256      r3 == q3 % 256
            S  == r0 + 256 * r1 + 65536 * r2 + 16777216 * r3
<1>1. r0 \in 0..255 /\ m = 256 * q1 + r0 /\ q1 \in Int
  BY Quotient256
<1>2. r1 \in 0..255 /\ q1 = 256 * q2 + r1 /\ q2 \in Int
  BY Quotient256, <1>1
<1>3. r2 \in 0..255 /\ q2 = 256 * q3 + r2 /\ q3 \in Int
  BY Quotient256, <1>2
<1>4. r3 \in 0..255 /\ q3 = 256 * q4 + r3 /\ q4 \in Int
  BY Quotient256, <1>3
<1>5. m \div 65536 = q2 /\ m \div 16777216 = q3
  BY QuotientOfQuotient
<1>. HIDE DEF q1, q2, q3, q4, r0, r1, r2, r3
<1>6. m = S + 4294967296 * q4
  BY <1>1, <1>2, <1>3, <1>4, SMT
<1>7. 4 * v + 2 = S
  <2>1. S \in Int /\ 0 <= S /\ S < 4294967296
    BY <1>1, <1>2, <1>3, <1>4, SMT
  <2>2. 0 <= 4 * v + 2 /\ 4 * v + 2 < 4294967296
    BY SMT DEF Max4
  <2>. HIDE DEF S
  <2>3. 4 * v + 2 = S + 4294967296 * q4 \/ 4 * v + 2 = S + 4294967296 * (q4 + 1)
    BY <1>4, <1>6, <2>1, SMT
  <2>4. CASE 4 * v + 2 = S + 4294967296 * q4
    <3>1. q4 = 0
      BY <1>4, <2>1, <2>2, <2>4, SMT
    <3>. QED  BY <2>1, <2>4, <3>1, SMT
  <2>5. CASE 4 * v + 2 = S + 4294967296 * (q4 + 1)
    <3>1. q4 + 1 = 0
      BY <1>4, <2>1, <2>2, <2>5, SMT
    <3>. QED  BY <2>1, <2>5, <3>1, SMT
  <2>. QED  BY <2>3, <2>4, <2>5
<1>8. r0 % 4 = 2 /\ r0 \div 4 = v - 64 * (r1 + 256 * r2 + 65536 * r3)
  BY <1>1, <1>2, <1>3, <1>4, <1>7, LowByte, SMT
<1>. QED
  BY <1>1, <1>2, <1>3, <1>4, <1>5, <1>8, SMT DEF r0, q1, q2, r1, q3, r2, r3

-----------------------------------------------------------------------------
(* Compact lengths *)

\* The bytes are picked by their number.
LEMMA PickedBytes ==
    \A m : /\ ByteOf(m, 0) = m % 256
           /\ ByteOf(m, 1) = (m \div 256) % 256
           /\ ByteOf(m, 2) = (m \div 65536) % 256
           /\ ByteOf(m, 3) = (m \div 16777216) % 256
BY SMT DEF ByteOf

\* What scaleCompactEncode writes in each of its modes, and how it reads back.
THEOREM CompactRoundTrip ==
    ASSUME NEW v \in Nat, v <= Max4
    PROVE  LET c == Compact(v) IN
           /\ c \in Seq(0..255)
           /\ \/ Len(c) = 1 /\ v <= 63 /\ c[1] % 4 = 0 /\ c[1] \div 4 = v
              \/ /\ Len(c) = 2 /\ v > 63 /\ v <= 16383 /\ c[1] % 4 = 1
                 /\ (c[1] \div 4) + 64 * c[2] = v
              \/ /\ Len(c) = 4 /\ v > 16383 /\ c[1] % 4 = 2
                 /\ (c[1] \div 4) + 64 * c[2] + 16384 * c[3] + 4194304 * c[4] = v
<1>1. CASE v <= Max1
  <2>1. v <= 63 /\ ShiftLeft2(v) = 4 * v
    BY <1>1, Shifted, SMT DEF Max1
  <2>2. (4 * v) % 256 = 4 * v /\ (4 * v) % 4 = 0 /\ (4 * v) \div 4 = v
    BY <2>1, SMT
  <2>3. Compact(v) = <<4 * v>>
    BY <1>1, <2>1, <2>2, PickedBytes, SMT DEF Compact
  <2>4. 4 * v \in 0..255
    BY <2>1, SMT
  <2>. QED  BY <2>1, <2>2, <2>3, <2>4, SMT
<1>2. CASE v > Max1 /\ v <= Max2
  <2>. DEFINE m == 4 * v + 1
  <2>1. v > 63 /\ v <= 16383 /\ ShiftLeft2(v) = 4 * v /\ v <= Max4
    BY <1>2, Shifted, SMT DEF Max1, Max2
  <2>2. Compact(v) = <<m % 256, (m \div 256) % 256>>
    <3>1. ~(v <= Max1) /\ v <= Max2
      BY <1>2, SMT DEF Max1
    <3>2. Compact(v) = <<ByteOf(m, 0), ByteOf(m, 1)>>
      BY <2>1, <3>1 DEF Compact
    <3>. HIDE DEF m
    <3>. QED  BY <3>2, PickedBytes
  <2>3. m \in Int /\ m % 256 \in 0..255 /\ (m \div 256) % 256 \in 0..255
    BY Quotient256, SMT
  <2>4. (m % 256) % 4 = 1 /\ ((m % 256) \div 4) + 64 * ((m \div 256) % 256) = v
    BY <1>2, <2>3, TwoBytes, SMT
  <2>. HIDE DEF m
  <2>. QED  BY <2>1, <2>2, <2>3, <2>4, SMT
<1>3. CASE v > Max2
  <2>. DEFINE m == ShiftLeft2(v) + 2
              b1 == (m \div 256) % 256   b2 == (m \div 65536) % 256
              b3 == (m \div 16777216) % 256
  <2>1. v > 63 /\ v > 16383 /\ v > Max1
    BY <1>3, SMT DEF Max1, Max2
  <2>2. m \in Int /\ (m = 4 * v + 2 \/ m = 4 * v + 2 - 4294967296)
    BY Shifted, SMT
  <2>3. Compact(v) = <<m % 256, b1, b2, b3>>
    <3>1. ~(v <= Max1) /\ ~(v <= Max2)
      BY <1>3, SMT DEF Max1, Max2
    <3>2. Compact(v) = <<ByteOf(m, 0), ByteOf(m, 1), ByteOf(m, 2), ByteOf(m, 3)>>
      BY <3>1 DEF Compact
    <3>. HIDE DEF m
    <3>. QED  BY <3>2, PickedBytes, SMT
  <2>. HIDE DEF m
  <2>4. m \div 65536 \in Int /\ m \div 16777216 \in Int
    BY <2>2, SMT
  <2>5. m % 256 \in 0..255 /\ b1 \in 0..255 /\ b2 \in 0..255 /\ b3 \in 0..255
    BY <2>2, <2>4, Quotient256, SMT
  <2>6. /\ (m % 256) % 4 = 2
        /\ ((m % 256) \div 4) + 64 * b1 + 16384 * b2 + 4194304 * b3 = v
    BY <2>2, FourBytes, SMT
  <2>. HIDE DEF b1, b2, b3
  <2>. QED  BY <2>1, <2>3, <2>5, <2>6, SMT
<1>. QED  BY <1>1, <1>2, <1>3, SMT DEF Max1, Max2

\* Where the bytes of a compact length are at the cursor, the node reads it.
LEMMA CompactIsRead ==
    ASSUME NEW v \in Nat, v <= Max4,
           cursor \in Nat \ {0}, frame.head \in Seq(0..255),
           cursor + Len(Compact(v)) - 1 <= Len(frame.head),
           \A i \in 1..Len(Compact(v)) : frame.head[cursor + i - 1] = Compact(v)[i]
    PROVE  HoldsCompact /\ Width = Len(Compact(v)) /\ Number = v
<1>. DEFINE c == Compact(v)
<1>1. c \in Seq(0..255) /\ Len(c) \in Nat
  BY CompactRoundTrip, SMT
<1>2. \A i \in 0..(Len(c) - 1) : At(i) = c[i + 1]
  <2>. SUFFICES ASSUME NEW i \in 0..(Len(c) - 1)
                PROVE  At(i) = c[i + 1]
    OBVIOUS
  <2>1. i + 1 \in 1..Len(c) /\ cursor + (i + 1) - 1 = cursor + i
    BY <1>1, SMT
  <2>. QED  BY <2>1 DEF At
<1>3. \A n \in 0..Len(c) : Holds(n)
  BY <1>1, SMT DEF Holds
<1>4. CASE Len(c) = 1 /\ v <= 63 /\ c[1] % 4 = 0 /\ c[1] \div 4 = v
  <2>1. Len(c) = 1 /\ v <= 63 /\ c[1] % 4 = 0 /\ c[1] \div 4 = v
    BY <1>4, SMT
  <2>2. At(0) = c[1]
    BY <1>2, <2>1, SMT
  <2>3. Width = 1
    BY <2>1, <2>2 DEF Width
  <2>. QED  BY <1>3, <2>1, <2>2, <2>3, SMT DEF HoldsCompact, Number
<1>5. CASE /\ Len(c) = 2 /\ v > 63 /\ v <= 16383 /\ c[1] % 4 = 1
           /\ (c[1] \div 4) + 64 * c[2] = v
  <2>1. /\ Len(c) = 2 /\ v > 63 /\ c[1] % 4 = 1
        /\ (c[1] \div 4) + 64 * c[2] = v
    BY <1>5, SMT
  <2>2. At(0) = c[1] /\ At(1) = c[2]
    BY <1>2, <2>1, SMT
  <2>3. Width = 2
    BY <2>1, <2>2 DEF Width
  <2>4. Number = v
    BY <2>1, <2>2, <2>3, SMT DEF Number
  <2>. QED  BY <1>3, <2>1, <2>2, <2>3, <2>4, SMT DEF HoldsCompact
<1>6. CASE /\ Len(c) = 4 /\ v > 16383 /\ c[1] % 4 = 2
           /\ (c[1] \div 4) + 64 * c[2] + 16384 * c[3] + 4194304 * c[4] = v
  <2>1. /\ Len(c) = 4 /\ v > 16383 /\ c[1] % 4 = 2
        /\ (c[1] \div 4) + 64 * c[2] + 16384 * c[3] + 4194304 * c[4] = v
    BY <1>6, SMT
  <2>2. At(0) = c[1] /\ At(1) = c[2] /\ At(2) = c[3] /\ At(3) = c[4]
    BY <1>2, <2>1, SMT
  <2>3. Width = 4
    BY <2>1, <2>2, SMT DEF Width
  <2>4. Number = v
    BY <2>1, <2>2, <2>3, SMT DEF Number
  <2>. QED  BY <1>3, <2>1, <2>2, <2>3, <2>4, SMT DEF HoldsCompact
<1>. QED  BY <1>4, <1>5, <1>6, CompactRoundTrip, SMT

-----------------------------------------------------------------------------
(* The whole frame *)

\* Where the framing bytes of n bytes are.
LEMMA HeadBytes ==
    ASSUME NEW n \in Nat, n <= Max4, ExtrinsicLength(n) <= Max4
    PROVE  LET o == Compact(ExtrinsicLength(n))
               h == o \o CallHead(n) IN
           /\ ExtrinsicLength(n) = 3 + Len(Compact(n)) + n
           /\ h \in Seq(0..255)
           /\ Len(h) = Len(o) + 3 + Len(Compact(n))
           /\ \A i \in 1..Len(o) : h[i] = o[i]
           /\ h[Len(o) + 1] = 4 /\ h[Len(o) + 2] = 5 /\ h[Len(o) + 3] = 0
           /\ \A i \in 1..Len(Compact(n)) : h[Len(o) + 3 + i] = Compact(n)[i]
<1>. DEFINE c == Compact(n)
            o == Compact(ExtrinsicLength(n))
<1>1. c \in Seq(0..255) /\ Len(c) \in Nat
  BY CompactRoundTrip, SMT
<1>2. <<4, 5, 0>> \in Seq(0..255) /\ Len(<<4, 5, 0>>) = 3
  BY SMT
<1>3. CallHead(n) = <<4, 5, 0>> \o c
  BY DEF CallHead, Version, Pallet, Call
<1>. HIDE DEF c
<1>4. /\ CallHead(n) \in Seq(0..255)
      /\ Len(CallHead(n)) = 3 + Len(c)
      /\ CallHead(n)[1] = 4 /\ CallHead(n)[2] = 5 /\ CallHead(n)[3] = 0
      /\ \A i \in 1..Len(c) : CallHead(n)[3 + i] = c[i]
  BY <1>1, <1>2, <1>3, SMT
<1>5. ExtrinsicLength(n) = 3 + Len(c) + n /\ ExtrinsicLength(n) \in Nat
  BY <1>1, <1>4, SMT DEF ExtrinsicLength
<1>6. o \in Seq(0..255) /\ Len(o) \in Nat
  BY <1>5, CompactRoundTrip, SMT
<1>. HIDE DEF o
<1>7. /\ o \o CallHead(n) \in Seq(0..255)
      /\ Len(o \o CallHead(n)) = Len(o) + 3 + Len(c)
      /\ \A i \in 1..Len(o) : (o \o CallHead(n))[i] = o[i]
      /\ \A i \in 1..(3 + Len(c)) : (o \o CallHead(n))[Len(o) + i] = CallHead(n)[i]
  <2>. DEFINE k == CallHead(n)
              h == o \o k
  <2>1. k \in Seq(0..255) /\ Len(k) = 3 + Len(c)
    BY <1>4
  <2>. HIDE DEF k
  <2>2. h \in Seq(0..255) /\ Len(h) = Len(o) + Len(k)
    BY <1>6, <2>1, ConcatProperties
  <2>3. \A i \in 1..(Len(o) + Len(k)) : h[i] = IF i <= Len(o) THEN o[i] ELSE k[i - Len(o)]
    BY <1>6, <2>1, ConcatProperties
  <2>. HIDE DEF h
  <2>4. \A i \in 1..Len(o) : h[i] = o[i]
    BY <1>1, <1>6, <2>1, <2>3, SMT
  <2>5. \A i \in 1..(3 + Len(c)) : h[Len(o) + i] = k[i]
    <3>. SUFFICES ASSUME NEW i \in 1..(3 + Len(c))
                  PROVE  h[Len(o) + i] = k[i]
      OBVIOUS
    <3>1. /\ Len(o) + i \in 1..(Len(o) + Len(k))
          /\ ~(Len(o) + i <= Len(o))
          /\ Len(o) + i - Len(o) = i
      BY <1>1, <1>6, <2>1, SMT
    <3>. QED  BY <2>3, <3>1
  <2>6. Len(h) = Len(o) + 3 + Len(c)
    BY <1>1, <1>6, <2>1, <2>2, SMT
  <2>. QED  BY <2>2, <2>4, <2>5, <2>6 DEF h, k
<1>8. \A i \in 1..Len(c) : (o \o CallHead(n))[Len(o) + 3 + i] = c[i]
  <2>. SUFFICES ASSUME NEW i \in 1..Len(c)
                PROVE  (o \o CallHead(n))[Len(o) + 3 + i] = c[i]
    OBVIOUS
  <2>1. 3 + i \in 1..(3 + Len(c)) /\ Len(o) + (3 + i) = Len(o) + 3 + i
    BY <1>1, <1>6, SMT
  <2>. QED  BY <1>4, <1>7, <2>1
<1>9. /\ (o \o CallHead(n))[Len(o) + 1] = 4
      /\ (o \o CallHead(n))[Len(o) + 2] = 5
      /\ (o \o CallHead(n))[Len(o) + 3] = 0
  BY <1>1, <1>4, <1>7, SMT
<1>. QED  BY <1>5, <1>7, <1>8, <1>9 DEF o, c

\* The frame of n bytes, where there is one.
Framed(n) == [head |-> Compact(ExtrinsicLength(n)) \o CallHead(n), bytes |-> n]

\* How long a compact length is.
LEMMA CompactLengths ==
    ASSUME NEW v \in Nat, v <= Max4
    PROVE  /\ Compact(v) \in Seq(0..255)
           /\ Compact(v) # TooLarge
           /\ \/ Len(Compact(v)) = 1 /\ v <= 63
              \/ Len(Compact(v)) = 2 /\ v > 63 /\ v <= 16383
              \/ Len(Compact(v)) = 4 /\ v > 16383
<1>. DEFINE c == Compact(v)
<1>1. /\ c \in Seq(0..255)
      /\ \/ Len(c) = 1 /\ v <= 63
         \/ Len(c) = 2 /\ v > 63 /\ v <= 16383
         \/ Len(c) = 4 /\ v > 16383
  BY CompactRoundTrip
<1>. HIDE DEF c
<1>2. Len(<<>>) = 0
  OBVIOUS
<1>3. Len(c) \in {1, 2, 4}
  BY <1>1, SMT
<1>4. \A l \in {1, 2, 4} : l # 0
  OBVIOUS
<1>5. c # <<>>
  BY <1>2, <1>3, <1>4
<1>. QED  BY <1>1, <1>5 DEF c, TooLarge

\* What does not fit in four bytes has no compact length.
LEMMA CompactOverflows == \A v \in Nat : v > Max4 => Compact(v) = TooLarge
BY SMT DEF Compact, Max1, Max2, Max4

LEMMA ExtrinsicLengthIs ==
    ASSUME NEW n \in Nat, n <= Max4
    PROVE  ExtrinsicLength(n) = 3 + Len(Compact(n)) + n
<1>. DEFINE c == Compact(n)
            k == <<Version, Pallet, Call>>
<1>1. c \in Seq(0..255)
  BY CompactLengths
<1>2. k \in Seq(0..255) /\ Len(k) = 3
  BY SMT DEF Version, Pallet, Call
<1>. HIDE DEF c, k
<1>3. Len(k \o c) = Len(k) + Len(c)
  BY <1>1, <1>2, ConcatProperties
<1>. QED  BY <1>2, <1>3 DEF ExtrinsicLength, CallHead, c, k

\* Which bytes are framed and which are thrown back.
LEMMA WrapBytesIs ==
    ASSUME NEW n \in Nat
    PROVE  \/ /\ n + 7 <= Max4 /\ WrapBytes(n) = Framed(n)
              /\ n <= Max4 /\ ExtrinsicLength(n) \in Nat /\ ExtrinsicLength(n) <= Max4
           \/ n + 7 > Max4 /\ WrapBytes(n) = Thrown
<1>1. CASE n + 7 <= Max4
  <2>1. n <= Max4
    BY <1>1, SMT DEF Max4
  <2>2. Len(Compact(n)) \in {1, 2, 4} /\ Compact(n) # TooLarge
    BY <2>1, CompactLengths, SMT
  <2>3. ExtrinsicLength(n) = 3 + Len(Compact(n)) + n
    BY <2>1, ExtrinsicLengthIs
  <2>4. ExtrinsicLength(n) \in Nat /\ ExtrinsicLength(n) <= Max4
    <3>1. \A l \in {1, 2, 4} : 3 + l + n \in Nat /\ 3 + l + n <= Max4
      BY <1>1, SMT DEF Max4
    <3>. QED  BY <2>2, <2>3, <3>1
  <2>5. Compact(ExtrinsicLength(n)) # TooLarge
    BY <2>4, CompactLengths
  <2>6. WrapBytes(n) = Framed(n)
    BY <2>2, <2>5 DEF WrapBytes, Framed
  <2>. QED  BY <1>1, <2>1, <2>4, <2>6, SMT
<1>2. CASE n + 7 > Max4
  <2>1. CASE n > Max4
    <3>1. WrapBytes(n) = Thrown
      BY <2>1, CompactOverflows DEF WrapBytes
    <3>. QED  BY <1>2, <3>1, SMT
  <2>2. CASE n <= Max4
    <3>1. n > 16383
      BY <1>2, SMT DEF Max4
    <3>2. Len(Compact(n)) = 4
      BY <2>2, <3>1, CompactLengths, SMT
    <3>3. ExtrinsicLength(n) \in Nat /\ ExtrinsicLength(n) > Max4
      <4>1. ExtrinsicLength(n) = 3 + 4 + n
        BY <2>2, <3>2, ExtrinsicLengthIs
      <4>. QED  BY <1>2, <4>1, SMT DEF Max4
    <3>4. WrapBytes(n) = Thrown
      BY <3>3, CompactOverflows DEF WrapBytes
    <3>. QED  BY <1>2, <3>4, SMT
  <2>. QED  BY <2>1, <2>2, SMT DEF Max4
<1>. QED  BY <1>1, <1>2, SMT DEF Max4

-----------------------------------------------------------------------------
(* The invariant *)

\* Where the node is in the frame, and what it has read so far: the cursor is
\* at the field it reads next, and the lengths are those that were written.
ReadSoFar ==
    LET n == BytesOf(text)
        o == Compact(ExtrinsicLength(n)) IN
    /\ n + 7 <= Max4
    /\ frame = Framed(n)
    /\ reading \in Fields \cup {"done"}
    /\ reading = "length" => cursor = 1
    /\ reading = "call" => cursor = Len(o) + 1 /\ field.length = ExtrinsicLength(n)
    /\ reading = "argument" => cursor = Len(o) + 4
    /\ reading = "transaction" =>
          cursor = Len(o) + 4 + Len(Compact(n)) /\ field.argument = n
    /\ reading = "done" => field.argument = n

IInv ==
    /\ text \in Texts
    /\ cursor \in Nat /\ cursor # 0
    /\ field \in [length : Nat, argument : Nat]
    /\ \/ frame = Unwrapped /\ cursor = 1 /\ reading = "length"
       \/ /\ frame = Thrown /\ reading = "length"
          /\ ~IsBytes(text) \/ BytesOf(text) + 7 > Max4
       \/ IsBytes(text) /\ ReadSoFar

\* A frame is none of the two records that stand for no frame.
LEMMA FramedArrives ==
    ASSUME NEW n \in Nat, n <= Max4, ExtrinsicLength(n) \in Nat, ExtrinsicLength(n) <= Max4
    PROVE  /\ Framed(n) # Unwrapped /\ Framed(n) # Thrown
           /\ Framed(n).head \in Seq(0..255)
           /\ Len(Framed(n).head) \in {5, 6, 7, 9, 11}
<1>. DEFINE e == ExtrinsicLength(n)
            l == Len(Compact(e))
            k == Len(Compact(n))
            h == Compact(e) \o CallHead(n)
<1>1. h \in Seq(0..255) /\ Len(h) = l + 3 + k
  BY HeadBytes
<1>2. \/ l = 1 /\ e <= 63
      \/ l = 2 /\ e > 63 /\ e <= 16383
      \/ l = 4 /\ e > 16383
  BY CompactLengths
<1>3. \/ k = 1 /\ n <= 63
      \/ k = 2 /\ n > 63 /\ n <= 16383
      \/ k = 4 /\ n > 16383
  BY CompactLengths
<1>4. e = 3 + k + n
  BY ExtrinsicLengthIs
<1>5. Framed(n).head = h
  BY DEF Framed
<1>. HIDE DEF e, l, k
<1>6. Len(h) \in {5, 6, 7, 9, 11}
  <2>. HIDE DEF h
  <2>1. l + 3 + k \in {5, 6, 7, 9, 11}
    BY <1>2, <1>3, <1>4, SMT
  <2>. QED  BY <1>1, <2>1
<1>. HIDE DEF h
<1>7. Len(<<>>) = 0 /\ Len(<<-1>>) = 1
  BY SMT
<1>8. \A j \in {5, 6, 7, 9, 11} : j # 0 /\ j # 1
  OBVIOUS
<1>9. h # <<>> /\ h # <<-1>>
  BY <1>6, <1>7, <1>8
<1>10. Unwrapped.head = <<>> /\ Thrown.head = <<-1>>
  BY DEF Unwrapped, Thrown
<1>. QED  BY <1>1, <1>5, <1>6, <1>9, <1>10

LEMMA BytesOfText == \A t \in Texts : BytesOf(t) \in Nat
<1>. SUFFICES ASSUME NEW t \in Texts
              PROVE  BytesOf(t) \in Nat
  OBVIOUS
<1>1. t.digits \in Nat
  BY LengthsAssumption DEF Texts
<1>. QED  BY <1>1, SMT DEF BytesOf

LEMMA IInvInit == Init => IInv
BY SMT DEF Init, IInv

\* Wrapping.
LEMMA WrapKeepsIInv == IInv /\ Wrap => IInv'
<1>. SUFFICES ASSUME IInv, Wrap
              PROVE  IInv'
  OBVIOUS
<1>. DEFINE n == BytesOf(text)
<1>1. /\ text' = text /\ cursor' = cursor /\ reading' = reading /\ field' = field
      /\ frame = Unwrapped
      /\ frame' = IF IsBytes(text) THEN WrapBytes(n) ELSE Thrown
  BY DEF Wrap
<1>2. cursor = 1 /\ reading = "length"
  <2>1. Unwrapped # Thrown
    BY SMT DEF Unwrapped, Thrown
  <2>2. ReadSoFar => frame # Unwrapped
    <3>. SUFFICES ASSUME ReadSoFar
                  PROVE  frame # Unwrapped
      OBVIOUS
    <3>1. n \in Nat
      BY BytesOfText DEF IInv
    <3>2. frame = Framed(n) /\ n + 7 <= Max4
      BY DEF ReadSoFar
    <3>3. n <= Max4 /\ ExtrinsicLength(n) \in Nat /\ ExtrinsicLength(n) <= Max4
      BY <3>1, <3>2, WrapBytesIs, SMT DEF Max4
    <3>. QED  BY <3>1, <3>2, <3>3, FramedArrives
  <2>. QED  BY <1>1, <2>1, <2>2 DEF IInv
<1>3. CASE ~IsBytes(text)
  BY <1>1, <1>2, <1>3 DEF IInv, IsBytes, BytesOf
<1>4. CASE IsBytes(text)
  <2>1. n \in Nat
    BY BytesOfText DEF IInv
  <2>2. CASE n + 7 <= Max4 /\ WrapBytes(n) = Framed(n)
    <3>1. ReadSoFar'
      BY <1>1, <1>2, <1>4, <2>2, SMT DEF ReadSoFar, BytesOf, Fields, Framed
    <3>. QED  BY <1>1, <1>4, <3>1 DEF IInv, IsBytes
  <2>3. CASE n + 7 > Max4 /\ WrapBytes(n) = Thrown
    BY <1>1, <1>2, <1>4, <2>3 DEF IInv, IsBytes, BytesOf
  <2>. QED  BY <2>1, <2>2, <2>3, WrapBytesIs
<1>. QED  BY <1>3, <1>4

\* What ReadSoFar gives a step of the node: the framed bytes and their lengths.
LEMMA FrameInHand ==
    ASSUME IInv, ReadSoFar, IsBytes(text)
    PROVE  LET n == BytesOf(text)
               o == Compact(ExtrinsicLength(n)) IN
           /\ n \in Nat /\ n <= Max4
           /\ ExtrinsicLength(n) \in Nat /\ ExtrinsicLength(n) <= Max4
           /\ ExtrinsicLength(n) = 3 + Len(Compact(n)) + n
           /\ frame.bytes = n
           /\ frame.head = o \o CallHead(n)
           /\ frame.head \in Seq(0..255)
           /\ Len(frame.head) = Len(o) + 3 + Len(Compact(n))
           /\ Len(o) \in Nat /\ Len(Compact(n)) \in Nat
<1>. DEFINE n == BytesOf(text)
<1>1. n \in Nat
  BY BytesOfText DEF IInv
<1>2. frame = Framed(n) /\ n + 7 <= Max4
  BY DEF ReadSoFar
<1>3. n <= Max4 /\ ExtrinsicLength(n) \in Nat /\ ExtrinsicLength(n) <= Max4
  BY <1>1, <1>2, WrapBytesIs, SMT DEF Max4
<1>4. frame.bytes = n /\ frame.head = Compact(ExtrinsicLength(n)) \o CallHead(n)
  BY <1>2 DEF Framed
<1>5. Compact(n) \in Seq(0..255) /\ Compact(ExtrinsicLength(n)) \in Seq(0..255)
  BY <1>1, <1>3, CompactLengths
<1>6. Len(Compact(n)) \in Nat /\ Len(Compact(ExtrinsicLength(n))) \in Nat
  BY <1>5, LenProperties
<1>. QED  BY <1>1, <1>3, <1>4, <1>6, HeadBytes

\* Every field the node comes to can be read, and is read as it was written.
LEMMA NodeReadsKeepsIInv == IInv /\ NodeReads => IInv'
<1>. SUFFICES ASSUME IInv, NodeReads
              PROVE  IInv'
  OBVIOUS
<1>. DEFINE n == BytesOf(text)
            e == ExtrinsicLength(n)
            o == Compact(e)
            c == Compact(n)
<1>1. /\ text' = text /\ frame' = frame
      /\ frame # Unwrapped /\ frame # Thrown /\ reading \in Fields
      /\ Readable => ReadField
  BY DEF NodeReads, Arrived
<1>2. IsBytes(text) /\ ReadSoFar
  BY <1>1 DEF IInv
<1>3. /\ n \in Nat /\ n <= Max4 /\ e \in Nat /\ e <= Max4
      /\ e = 3 + Len(c) + n
      /\ frame.bytes = n /\ frame.head = o \o CallHead(n)
      /\ frame.head \in Seq(0..255)
      /\ Len(frame.head) = Len(o) + 3 + Len(c)
      /\ Len(o) \in Nat /\ Len(c) \in Nat
  BY <1>2, FrameInHand
<1>4. /\ \A i \in 1..Len(o) : frame.head[i] = o[i]
      /\ frame.head[Len(o) + 1] = 4 /\ frame.head[Len(o) + 2] = 5
      /\ frame.head[Len(o) + 3] = 0
      /\ \A i \in 1..Len(c) : frame.head[Len(o) + 3 + i] = c[i]
  <2>. DEFINE h == o \o CallHead(n)
  <2>. HIDE DEF n
  <2>1. /\ \A i \in 1..Len(o) : h[i] = o[i]
        /\ h[Len(o) + 1] = 4 /\ h[Len(o) + 2] = 5 /\ h[Len(o) + 3] = 0
        /\ \A i \in 1..Len(c) : h[Len(o) + 3 + i] = c[i]
    BY <1>3, HeadBytes
  <2>2. frame.head = h
    BY <1>3
  <2>. HIDE DEF h, o, c
  <2>. QED  BY <2>1, <2>2
<1>5. /\ n + 7 <= Max4 /\ frame = Framed(n)
      /\ cursor \in Nat /\ cursor # 0 /\ field \in [length : Nat, argument : Nat]
      /\ text \in Texts
  BY <1>2 DEF IInv, ReadSoFar
<1>6. /\ reading = "length" => cursor = 1
      /\ reading = "call" => cursor = Len(o) + 1 /\ field.length = e
      /\ reading = "argument" => cursor = Len(o) + 4
      /\ reading = "transaction" => cursor = Len(o) + 4 + Len(c) /\ field.argument = n
  BY <1>2 DEF ReadSoFar
<1>7. BytesOf(text)' = n /\ IsBytes(text)'
  BY <1>1, <1>2 DEF BytesOf, IsBytes
<1>. HIDE DEF n, e, o, c
<1>8. SUFFICES /\ cursor' \in Nat /\ cursor' # 0
               /\ field' \in [length : Nat, argument : Nat]
               /\ reading' \in Fields \cup {"done"}
               /\ reading' = "length" => cursor' = 1
               /\ reading' = "call" => cursor' = Len(o) + 1 /\ field'.length = e
               /\ reading' = "argument" => cursor' = Len(o) + 4
               /\ reading' = "transaction" =>
                     cursor' = Len(o) + 4 + Len(c) /\ field'.argument = n
               /\ reading' = "done" => field'.argument = n
  BY <1>1, <1>5, <1>7 DEF IInv, ReadSoFar, n, e, o, c
<1>9. CASE reading = "length"
  <2>1. \A i \in 1..Len(o) : frame.head[cursor + i - 1] = o[i]
    <3>1. \A i \in 1..Len(o) : cursor + i - 1 = i
      BY <1>3, <1>6, <1>9, SMT
    <3>. QED  BY <1>4, <3>1
  <2>2. cursor + Len(o) - 1 <= Len(frame.head)
    BY <1>3, <1>6, <1>9, SMT
  <2>3. HoldsCompact /\ Width = Len(o) /\ Number = e
    BY <1>3, <1>5, <2>1, <2>2, CompactIsRead DEF o
  <2>4. ReadField
    BY <1>1, <1>9, <2>3 DEF Readable
  <2>5. /\ reading' = "call" /\ cursor' = cursor + Len(o)
        /\ field' = [field EXCEPT !.length = e]
    BY <1>9, <2>3, <2>4 DEF ReadField, Following
  <2>. QED  BY <1>3, <1>5, <1>6, <1>9, <2>5, SMT DEF Fields
<1>10. CASE reading = "call"
  <2>1. cursor = Len(o) + 1 /\ field.length = e
    BY <1>6, <1>10
  <2>2. At(0) = 4 /\ At(1) = 5 /\ At(2) = 0
    <3>1. cursor + 0 = Len(o) + 1 /\ cursor + 1 = Len(o) + 2 /\ cursor + 2 = Len(o) + 3
      BY <1>3, <2>1, SMT
    <3>. QED  BY <1>4, <3>1 DEF At
  <2>3. Holds(3) /\ field.length = Left
    BY <1>3, <2>1, SMT DEF Holds, Left
  <2>4. ReadField
    BY <1>1, <1>10, <2>2, <2>3 DEF Readable, Version, Pallet, Call
  <2>5. reading' = "argument" /\ cursor' = cursor + 3 /\ field' = field
    BY <1>10, <2>4 DEF ReadField, Following
  <2>. QED  BY <1>3, <1>5, <2>1, <2>5, SMT DEF Fields
<1>11. CASE reading = "argument"
  <2>1. cursor = Len(o) + 4
    BY <1>6, <1>11
  <2>2. \A i \in 1..Len(c) : frame.head[cursor + i - 1] = c[i]
    <3>1. \A i \in 1..Len(c) : cursor + i - 1 = Len(o) + 3 + i
      BY <1>3, <2>1, SMT
    <3>. QED  BY <1>4, <3>1
  <2>3. cursor + Len(c) - 1 <= Len(frame.head)
    BY <1>3, <2>1, SMT
  <2>4. HoldsCompact /\ Width = Len(c) /\ Number = n
    BY <1>3, <1>5, <2>2, <2>3, CompactIsRead DEF c
  <2>5. ReadField
    BY <1>1, <1>11, <2>4 DEF Readable
  <2>6. /\ reading' = "transaction" /\ cursor' = cursor + Len(c)
        /\ field' = [field EXCEPT !.argument = n]
    BY <1>11, <2>4, <2>5 DEF ReadField, Following
  <2>7. field' \in [length : Nat, argument : Nat] /\ field'.argument = n
    BY <1>3, <1>5, <2>6, SMT
  <2>8. cursor' = Len(o) + 4 + Len(c) /\ cursor' \in Nat /\ cursor' # 0
    BY <1>3, <2>1, <2>6, SMT
  <2>. QED  BY <2>6, <2>7, <2>8 DEF Fields
<1>12. CASE reading = "transaction"
  <2>1. cursor = Len(o) + 4 + Len(c) /\ field.argument = n
    BY <1>6, <1>12
  <2>2. cursor = Len(frame.head) + 1 /\ field.argument = Left
    BY <1>3, <2>1, SMT DEF Left
  <2>3. ReadField
    BY <1>1, <1>12, <2>2 DEF Readable
  <2>4. reading' = "done" /\ cursor' = cursor + 0 /\ field' = field
    BY <1>12, <2>3 DEF ReadField, Following
  <2>. QED  BY <1>5, <2>1, <2>4, SMT
<1>. QED  BY <1>1, <1>9, <1>10, <1>11, <1>12 DEF Fields

-----------------------------------------------------------------------------
(* What follows *)

\* The invariant is inductive.
THEOREM Spec_IInv == Spec => []IInv
<1>1. IInv /\ [Next]_vars => IInv'
  <2>. SUFFICES ASSUME IInv, [Next]_vars
                PROVE  IInv'
    OBVIOUS
  <2>1. CASE UNCHANGED vars
    BY <2>1 DEF vars, IInv, ReadSoFar, BytesOf, IsBytes
  <2>. QED  BY <2>1, WrapKeepsIInv, NodeReadsKeepsIInv DEF Next
<1>. QED  BY IInvInit, <1>1, PTL DEF Spec

LEMMA IInvTypeOK == IInv => TypeOK
<1>. SUFFICES ASSUME IInv
              PROVE  TypeOK
  OBVIOUS
<1>1. CASE frame = Unwrapped /\ cursor = 1 /\ reading = "length"
  BY <1>1, SMT DEF IInv, TypeOK, Arrived, Unwrapped, Fields
<1>2. CASE frame = Thrown /\ reading = "length"
  BY <1>2, SMT DEF IInv, TypeOK, Arrived, Thrown, Fields
<1>3. CASE IsBytes(text) /\ ReadSoFar
  <2>. DEFINE n == BytesOf(text)
  <2>1. /\ n \in Nat /\ n <= Max4 /\ ExtrinsicLength(n) \in Nat /\ ExtrinsicLength(n) <= Max4
        /\ frame.bytes = n /\ frame = Framed(n)
    BY <1>3, FrameInHand DEF ReadSoFar
  <2>. HIDE DEF n
  <2>2. frame.head \in Seq(0..255) /\ Len(frame.head) \in {5, 6, 7, 9, 11}
    BY <2>1, FramedArrives
  <2>. QED  BY <1>3, <2>1, <2>2 DEF IInv, TypeOK, ReadSoFar
<1>. QED  BY <1>1, <1>2, <1>3 DEF IInv

LEMMA IInvReads == IInv => NodeReadsTheTransaction
<1>. SUFFICES ASSUME IInv
              PROVE  NodeReadsTheTransaction
  OBVIOUS
<1>1. CASE IsBytes(text) /\ ReadSoFar
  <2>1. text.digits \in Nat
    BY LengthsAssumption DEF IInv, Texts
  <2>2. BytesOf(text) > 0
    BY <1>1, <2>1, SMT DEF IsBytes, BytesOf
  <2>. QED  BY <1>1, <2>2 DEF ReadSoFar, NodeReadsTheTransaction, Fields
<1>. QED  BY <1>1 DEF IInv, NodeReadsTheTransaction

LEMMA IInvFrames == IInv => FramesWhatFits
<1>. SUFFICES ASSUME IInv
              PROVE  FramesWhatFits
  OBVIOUS
<1>1. CASE IsBytes(text) /\ ReadSoFar
  <2>. DEFINE n == BytesOf(text)
  <2>1. n \in Nat /\ n <= Max4 /\ ExtrinsicLength(n) \in Nat /\ ExtrinsicLength(n) <= Max4
    BY <1>1, FrameInHand
  <2>2. n + 7 <= Max4 /\ frame = Framed(n)
    BY <1>1 DEF ReadSoFar
  <2>. HIDE DEF n
  <2>3. frame # Thrown
    BY <2>1, <2>2, FramedArrives
  <2>4. ~(n + 7 > Max4)
    BY <2>1, <2>2, SMT DEF Max4
  <2>. QED  BY <1>1, <2>3, <2>4, SMT DEF FramesWhatFits, n, Max4
<1>2. CASE frame = Unwrapped
  BY <1>2 DEF FramesWhatFits
<1>3. CASE frame = Thrown /\ (~IsBytes(text) \/ BytesOf(text) + 7 > Max4)
  BY <1>3, SMT DEF FramesWhatFits, Max4
<1>. QED  BY <1>1, <1>2, <1>3 DEF IInv

\* Of a text of any length the frame is of bytes, and its head of 5, 6, 7, 9 or
\* 11 of them.
THEOREM Spec_TypeOK == Spec => []TypeOK
BY Spec_IInv, IInvTypeOK, PTL

\* For every length the node reads back the transaction that was framed.
THEOREM Spec_NodeReadsTheTransaction == Spec => []NodeReadsTheTransaction
BY Spec_IInv, IInvReads, PTL

\* For every length the helper frames the transaction unless it cannot be.
THEOREM Spec_FramesWhatFits == Spec => []FramesWhatFits
BY Spec_IInv, IInvFrames, PTL

=============================================================================
