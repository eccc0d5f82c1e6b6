---------------------------- MODULE ProtocolProofs ----------------------------
(* Proofs about the functions a connection is made of, for bytes of any size *)
(* (the instances TLC checks have a small Radix, the code has 256): the      *)
(* encoding of numbers, strings, lists and messages, what the lines of the   *)
(* user and of the administrator are parsed to, and how frames lie in a      *)
(* stream of bytes.                                                          *)
EXTENDS Framing, WellFoundedInduction, TLAPS

(* Sequences.  The prover knows them; what is cited of them often is stated  *)
(* here once.                                                                *)

(* A sequence is a function on 1 .. its length.                              *)
LEMMA SeqFacts ==
  ASSUME NEW S, NEW seq \in Seq(S)
  PROVE  /\ Len(seq) \in Nat
         /\ seq \in [1 .. Len(seq) -> S]
         /\ DOMAIN seq = 1 .. Len(seq)
OBVIOUS

(* Each of its elements is one of S.                                         *)
LEMMA SeqElement ==
  ASSUME NEW S, NEW seq \in Seq(S), NEW i \in 1 .. Len(seq)
  PROVE  seq[i] \in S
OBVIOUS

(* Only the empty sequence has no element.                                   *)
LEMMA SeqEmpty ==
  ASSUME NEW S
  PROVE  /\ <<>> \in Seq(S) /\ Len(<<>>) = 0
         /\ \A seq \in Seq(S) : seq # <<>> => Len(seq) \in Nat \ {0}
OBVIOUS

(* Two sequences with the same elements are the same.                        *)
LEMMA SeqSame ==
  ASSUME NEW S, NEW x \in Seq(S), NEW y \in Seq(S),
         Len(x) = Len(y), \A i \in 1 .. Len(x) : x[i] = y[i]
  PROVE  x = y
OBVIOUS

(* A sequence over S is one over every set that holds S.                     *)
LEMMA SeqWider ==
  ASSUME NEW S, NEW T, NEW seq \in Seq(S), S \subseteq T
  PROVE  seq \in Seq(T)
OBVIOUS

(* Where \o puts the elements of both.                                       *)
LEMMA SeqConcat ==
  ASSUME NEW S, NEW x \in Seq(S), NEW y \in Seq(S)
  PROVE  /\ x \o y \in Seq(S) /\ Len(x \o y) = Len(x) + Len(y)
         /\ \A i \in 1 .. Len(x) + Len(y) :
              (x \o y)[i] = IF i <= Len(x) THEN x[i] ELSE y[i - Len(x)]
OBVIOUS

(* The empty sequence adds nothing.                                          *)
LEMMA SeqNothing ==
  ASSUME NEW S, NEW seq \in Seq(S)
  PROVE  seq \o <<>> = seq /\ <<>> \o seq = seq
OBVIOUS

(* The elements m .. n of what need not be a sequence elsewhere.             *)
LEMMA SeqPart ==
  ASSUME NEW S, NEW s, NEW m \in Int, NEW n \in Int, \A i \in m .. n : s[i] \in S
  PROVE  /\ SubSeq(s, m, n) \in Seq(S)
         /\ Len(SubSeq(s, m, n)) = IF m <= n THEN n - m + 1 ELSE 0
         /\ \A i \in 1 .. n - m + 1 : SubSeq(s, m, n)[i] = s[m + i - 1]
OBVIOUS

-------------------------------------------------------------------------------
(* Numbers and strings.                                                      *)

(* A number is its quotient and its remainder.                               *)
LEMMA Division ==
  ASSUME NEW n \in Nat, NEW b \in Nat, b >= 1
  PROVE  /\ n \div b \in Nat /\ n % b \in 0 .. b - 1
         /\ n = (b * (n \div b)) + (n % b)
<1>1. n % b \in 0 .. b - 1
  OBVIOUS
<1>2. n \div b \in Int /\ n = (b * (n \div b)) + (n % b)
  OBVIOUS
<1>3. n \div b >= 0
  BY <1>1, <1>2
<1> QED BY <1>1, <1>2, <1>3

(* The quotient of a small number is small.                                  *)
LEMMA Quotient ==
  ASSUME NEW b \in Nat, b >= 1, NEW q \in Nat, NEW r \in Nat, NEW c \in Nat,
         (b * q) + r < b * c
  PROVE  q < c
OBVIOUS

(* What is below the modulus stays.                                          *)
LEMMA Remainder ==
  ASSUME NEW b \in Nat, b >= 1, NEW r \in 0 .. b - 1
  PROVE  r % b = r
OBVIOUS

(* The sizes of the fields.                                                  *)
LEMMA Sizes == /\ Radix \in Nat /\ Radix >= 1
               /\ U16 \in Nat /\ U16 >= 1
               /\ U32 \in Nat /\ U32 >= 1
<1>1. Radix \in Nat /\ Radix >= 1
  BY RadixAssumption
<1>2. U16 \in Nat /\ U16 >= 1
  BY <1>1 DEF U16
<1>3. U32 \in Nat /\ U32 >= 1
  BY <1>2 DEF U32
<1> QED BY <1>1, <1>2, <1>3, Zenon

(* write_u16_be and read_u16_be: a number that fits 16 bits is read back.    *)
LEMMA U16RoundTrip ==
  ASSUME NEW n \in 0 .. U16 - 1
  PROVE  /\ write_u16_be(n) \in Seq(0 .. Radix - 1) /\ Len(write_u16_be(n)) = 2
         /\ write_u16_be(n)[1] * Radix + write_u16_be(n)[2] = n
<1> DEFINE q == n \div Radix
           r == n % Radix
<1>0. n \in Nat
  BY Sizes
<1>1. q \in Nat /\ r \in 0 .. Radix - 1 /\ n = (Radix * q) + r
  BY <1>0, Sizes, Division, Zenon
<1>2. (Radix * q) + r < Radix * Radix
  BY <1>1, Sizes DEF U16
<1>3. q \in 0 .. Radix - 1
  <2> HIDE DEF q, r
  <2> QED BY <1>1, <1>2, Sizes, Quotient
<1>4. q % Radix = q
  <2> HIDE DEF q
  <2> QED BY <1>3, Sizes, Remainder, ZenonT(40)
<1>5. write_u16_be(n) = <<q, r>>
  BY <1>4, Zenon DEF write_u16_be
<1> HIDE DEF q, r
<1>6. q * Radix + r = n
  BY <1>1, <1>3, Sizes
<1>7. <<q, r>> \in Seq(0 .. Radix - 1) /\ Len(<<q, r>>) = 2
  BY <1>1, <1>3, Sizes
<1> QED BY <1>5, <1>6, <1>7

(* write_u32_be and read_u32_be: a number that fits 32 bits is read back.    *)
THEOREM U32RoundTrip ==
  ASSUME NEW n \in 0 .. U32 - 1
  PROVE  /\ write_u32_be(n) \in Seq(0 .. Radix - 1) /\ Len(write_u32_be(n)) = 4
         /\ read_u32_be(write_u32_be(n)) = n
<1> DEFINE q == n \div U16
           r == n % U16
           high == write_u16_be(q)
           low == write_u16_be(r)
<1>0. n \in Nat
  BY Sizes
<1>1. q \in Nat /\ r \in 0 .. U16 - 1 /\ n = (U16 * q) + r
  BY <1>0, Sizes, Division, ZenonT(40)
<1>2. (U16 * q) + r < U16 * U16
  BY <1>1, Sizes DEF U32
<1>3. q \in 0 .. U16 - 1
  <2> HIDE DEF q, r
  <2> QED BY <1>1, <1>2, Sizes, Quotient, SMTT(40)
<1>4. /\ high \in Seq(0 .. Radix - 1) /\ Len(high) = 2 /\ high[1] * Radix + high[2] = q
      /\ low \in Seq(0 .. Radix - 1) /\ Len(low) = 2 /\ low[1] * Radix + low[2] = r
  <2> HIDE DEF q, r
  <2> QED BY <1>1, <1>3, U16RoundTrip, Zenon
<1>5. write_u32_be(n) = high \o low
  BY Zenon DEF write_u32_be
<1> HIDE DEF high, low, q, r
<1>6. /\ high \o low \in Seq(0 .. Radix - 1) /\ Len(high \o low) = 4
      /\ (high \o low)[1] = high[1] /\ (high \o low)[2] = high[2]
      /\ (high \o low)[3] = low[1] /\ (high \o low)[4] = low[2]
  <2>1. /\ high \o low \in Seq(0 .. Radix - 1) /\ Len(high \o low) = Len(high) + Len(low)
        /\ \A i \in 1 .. Len(high) + Len(low) : (high \o low)[i] =
                 IF i <= Len(high) THEN high[i] ELSE low[i - Len(high)]
    BY <1>4, SeqConcat, Zenon
  <2> QED BY <1>4, <2>1
<1>7. /\ SubSeq(high \o low, 3, 4)[1] = low[1]
      /\ SubSeq(high \o low, 3, 4)[2] = low[2]
  <2> DEFINE both == high \o low
  <2>1. \A i \in 3 .. 4 : both[i] \in 0 .. Radix - 1
    <3>1. both \in Seq(0 .. Radix - 1) /\ Len(both) = 4
      BY <1>6, Zenon
    <3> HIDE DEF both
    <3> TAKE i \in 3 .. 4
    <3>2. i \in 1 .. Len(both)
      BY <3>1
    <3> QED BY <3>1, <3>2, SeqElement, ZenonT(40)
  <2> HIDE DEF both
  <2>2. \A i \in 1 .. 4 - 3 + 1 : SubSeq(both, 3, 4)[i] = both[3 + i - 1]
    BY <2>1, SeqPart
  <2>3. SubSeq(both, 3, 4)[1] = both[3] /\ SubSeq(both, 3, 4)[2] = both[4]
    BY <2>2
  <2> QED BY <1>6, <2>3, Zenon DEF both
<1>8. read_u32_be(high \o low) = q * U16 + r
  BY <1>4, <1>6, <1>7, ZenonT(40) DEF read_u32_be, read_u16_be
<1>9. q * U16 + r = n
  BY <1>1, <1>3, Sizes
<1> QED BY <1>5, <1>6, <1>8, <1>9

(* Two sequences put together: where the elements of both are.               *)
Joins(z, x, y, m, n) ==
  /\ z \in Seq(Nat) /\ Len(z) = m + n
  /\ \A j \in 1 .. m : z[j] = x[j]
  /\ \A j \in 1 .. n : z[m + j] = y[j]

(* \o puts them so.                                                         *)
LEMMA ConcatFacts ==
  ASSUME NEW x \in Seq(Nat), NEW y \in Seq(Nat), NEW m, NEW n, Len(x) = m, Len(y) = n
  PROVE  Joins(x \o y, x, y, m, n)
<1>1. m \in Nat /\ n \in Nat
  BY SeqFacts
<1>2. /\ x \o y \in Seq(Nat) /\ Len(x \o y) = Len(x) + Len(y)
      /\ \A j \in 1 .. Len(x) + Len(y) :
           (x \o y)[j] = IF j <= Len(x) THEN x[j] ELSE y[j - Len(x)]
  BY SeqConcat, Zenon
<1>3. /\ \A j \in 1 .. m : j \in 1 .. m + n /\ j <= m
      /\ \A j \in 1 .. n : m + j \in 1 .. m + n /\ ~(m + j <= m) /\ (m + j) - m = j
  BY <1>1
<1> QED BY <1>2, <1>3, Zenon DEF Joins

(* A part of a sequence.                                                     *)
LEMMA PartFacts ==
  ASSUME NEW data \in Seq(Nat), NEW m \in Nat \ {0}, NEW n \in Nat, n <= Len(data), m <= n + 1
  PROVE  /\ SubSeq(data, m, n) \in Seq(Nat) /\ Len(SubSeq(data, m, n)) = n + 1 - m
         /\ \A i \in 1 .. n + 1 - m : SubSeq(data, m, n)[i] = data[m + i - 1]
<1>1. Len(data) \in Nat
  BY SeqFacts, Zenon
<1>2. \A i \in m .. n : data[i] \in Nat
  <2> TAKE i \in m .. n
  <2>1. i \in 1 .. Len(data)
    BY <1>1
  <2> QED BY <2>1, SeqElement, Zenon
<1>3. m \in Int /\ n \in Int
  OBVIOUS
<1>4. /\ SubSeq(data, m, n) \in Seq(Nat)
      /\ Len(SubSeq(data, m, n)) = IF m <= n THEN n - m + 1 ELSE 0
      /\ \A i \in 1 .. n - m + 1 : SubSeq(data, m, n)[i] = data[m + i - 1]
  BY <1>2, <1>3, SeqPart
<1>5. n - m + 1 = n + 1 - m /\ (IF m <= n THEN n - m + 1 ELSE 0) = n + 1 - m
  OBVIOUS
<1> QED BY <1>4, <1>5, Zenon

(* encode_string and decode_string: any string that encode_string accepts is *)
(* read back, whatever follows it in the payload.                            *)
THEOREM StringRoundTrip ==
  ASSUME NEW value \in Seq(Nat), Len(value) <= kMaxU16Count,
         NEW more \in Seq(Nat)
  PROVE  decode_string(encode_string(value) \o more) = value
<1>1. PICK n \in Nat, m \in Nat : n = Len(value) /\ m = Len(more)
  BY SeqFacts, Zenon
<1>2. n \in 0 .. U16 - 1 /\ ~(n > kMaxU16Count)
  BY <1>1, Sizes DEF kMaxU16Count
<1>3. PICK count \in Seq(Nat) : /\ count = write_u16_be(n) /\ Len(count) = 2
                                /\ count[1] * Radix + count[2] = n
  <2>1. /\ write_u16_be(n) \in Seq(0 .. Radix - 1) /\ Len(write_u16_be(n)) = 2
        /\ write_u16_be(n)[1] * Radix + write_u16_be(n)[2] = n
    BY <1>2, U16RoundTrip, Zenon
  <2>2. 0 .. Radix - 1 \subseteq Nat
    BY Sizes
  <2>3. write_u16_be(n) \in Seq(Nat)
    BY <2>1, <2>2, SeqWider, Zenon
  <2> QED BY <2>1, <2>3, Zenon
<1>4. PICK head : head = count \o value
  BY Zenon
<1>5. PICK data : data = head \o more
  BY Zenon
<1>6. Joins(head, count, value, 2, n)
  BY <1>1, <1>3, <1>4, ConcatFacts, Zenon
<1>7. head \in Seq(Nat) /\ Len(head) = 2 + n
  BY <1>6, Zenon DEF Joins
<1>8. Joins(data, head, more, 2 + n, m)
  BY <1>1, <1>5, <1>7, ConcatFacts, Zenon
<1>9. /\ 1 \in 1 .. 2 /\ 2 \in 1 .. 2 /\ 1 \in 1 .. 2 + n /\ 2 \in 1 .. 2 + n
      /\ \A i \in 1 .. n : 2 + i \in 1 .. 2 + n
  OBVIOUS
<1>10. read_u16_be(data) = n
  <2>1. data[1] = head[1] /\ data[2] = head[2]
    BY <1>8, <1>9, Zenon DEF Joins
  <2>2. head[1] = count[1] /\ head[2] = count[2]
    BY <1>6, <1>9, Zenon DEF Joins
  <2> QED BY <1>3, <2>1, <2>2, Zenon DEF read_u16_be
<1>11. \A i \in 1 .. n : data[2 + i] = value[i]
  BY <1>6, <1>8, <1>9, Zenon DEF Joins
<1>12. data \in Seq(Nat) /\ Len(data) = 2 + n + m
  BY <1>8, Zenon DEF Joins
<1>13. SubSeq(data, 3, 2 + n) = value
  <2>1. PICK k \in Nat : k = 2 + n
    OBVIOUS
  <2>2. 3 \in Nat \ {0} /\ k <= Len(data) /\ 3 <= k + 1 /\ k + 1 - 3 = n
    BY <1>12, <2>1
  <2>3. /\ SubSeq(data, 3, k) \in Seq(Nat) /\ Len(SubSeq(data, 3, k)) = k + 1 - 3
        /\ \A i \in 1 .. k + 1 - 3 : SubSeq(data, 3, k)[i] = data[3 + i - 1]
    BY <1>12, <2>2, PartFacts, Zenon
  <2>4. \A i \in 1 .. n : 3 + i - 1 = 2 + i
    OBVIOUS
  <2>5. \A i \in 1 .. n : SubSeq(data, 3, k)[i] = value[i]
    BY <1>11, <2>2, <2>3, <2>4, Zenon
  <2>6. SubSeq(data, 3, k) = value
    BY <1>1, <2>2, <2>3, <2>5, SeqSame, Zenon
  <2> QED BY <2>1, <2>6, Zenon
<1>14. ~(2 + n + m < 2) /\ ~(2 + n + m < 2 + n)
  OBVIOUS
<1>15. decode_string(data) = value
  BY <1>10, <1>12, <1>13, <1>14, Zenon DEF decode_string
<1>16. encode_string(value) = head
  BY <1>1, <1>2, <1>3, <1>4, Zenon DEF encode_string
<1> QED BY <1>5, <1>15, <1>16, Zenon

(* The length field of a frame, read back, is the number of bytes behind the *)
(* header (unit, function code, type and payload), if the message fits.      *)
THEOREM LengthExact ==
  ASSUME NEW type \in DOMAIN MsgType, NEW payload \in Seq(Nat), Len(payload) + 3 < U16
  PROVE  read_u16_be(write_u16_be(length_field(pdu_of(type, payload)))) = Len(payload) + 3
<1> DEFINE codes == <<kAppFunctionCode, MsgType[type]>>
           n == Len(payload) + 3
<1>1. codes \in Seq(Nat) /\ Len(codes) = 2
  BY DEF MsgType, kAppFunctionCode
<1>2. Len(payload) \in Nat
  BY SeqFacts
<1>3. Len(pdu_of(type, payload)) + 1 = n
  <2>1. Len(codes \o payload) = Len(codes) + Len(payload)
    <3> HIDE DEF codes
    <3> QED BY <1>1, SeqConcat, Zenon
  <2> QED BY <1>1, <1>2, <2>1 DEF pdu_of
<1>4. n \in 0 .. U16 - 1
  BY <1>2, Sizes
<1> HIDE DEF n
<1>5. n % U16 = n
  BY <1>4, Sizes, Remainder
<1>6. write_u16_be(n)[1] * Radix + write_u16_be(n)[2] = n
  BY <1>4, U16RoundTrip
<1>7. length_field(pdu_of(type, payload)) = n
  BY <1>3, <1>5 DEF length_field
<1> QED BY <1>6, <1>7, Zenon DEF read_u16_be, n

-------------------------------------------------------------------------------
(* Lists.                                                                    *)

(* A set of numbers has a least one: what fails for some length of a list    *)
(* fails for a shortest one.                                                 *)
LEMMA Least ==
  ASSUME NEW S, S \subseteq Nat, S # {}
  PROVE  \E m \in S : \A n \in S : m <= n
<1> DEFINE R == OpToRel(<, Nat)
<1>1. IsWellFoundedOn(R, Nat)
  BY NatLessThanWellFounded, Zenon
<1>2. \A y, x \in Nat : y < x => <<y, x>> \in R
  BY DEF OpToRel
<1> HIDE DEF R
<1>3. PICK x \in S : \A y \in S : ~(<<y, x>> \in R)
  BY <1>1, WFMin, Zenon
<1>4. \A y \in S : ~(y < x)
  BY <1>2, <1>3, Zenon
<1> QED BY <1>4, SMT

(* What inserted computes for the first k of the parts: one more part at     *)
(* every step.                                                               *)
Unrolls(g, parts, k) ==
  g = [i \in 1 .. k |-> IF i = 1 THEN parts[i] ELSE g[i - 1] \o parts[i]]

(* There is such a function, however many parts there are.                   *)
LEMMA UnrollExists ==
  ASSUME NEW parts, NEW n \in Nat
  PROVE  \E g : Unrolls(g, parts, n)
<1> DEFINE bad == {k \in Nat : ~ \E g : Unrolls(g, parts, k)}
<1> SUFFICES ASSUME n \in bad PROVE FALSE
  BY Zenon
<1>1. PICK m \in bad : \A k \in bad : m <= k
  <2>1. bad \subseteq Nat /\ bad # {}
    BY Zenon
  <2> HIDE DEF bad
  <2> QED BY <2>1, Least, Zenon
<1>2. m \in Nat /\ ~ \E g : Unrolls(g, parts, m)
  BY Zenon
<1>3. CASE m = 0
  <2> DEFINE g == [i \in 1 .. 0 |-> 0]
  <2>1. Unrolls(g, parts, 0)
    BY DEF Unrolls
  <2> QED BY <1>2, <1>3, <2>1, Zenon
<1>4. CASE m # 0
  <2>1. m - 1 \in Nat /\ ~(m <= m - 1) /\ m \in 1 .. m
    BY <1>2, <1>4
  <2>2. PICK f : Unrolls(f, parts, m - 1)
    BY <1>1, <2>1, Zenon
  <2> DEFINE last == IF m = 1 THEN parts[1] ELSE f[m - 1] \o parts[m]
             g == [i \in 1 .. m |-> IF i = m THEN last ELSE f[i]]
  <2>3. \A i \in 1 .. m : g[i] = IF i = 1 THEN parts[i] ELSE g[i - 1] \o parts[i]
    <3> SUFFICES ASSUME NEW i \in 1 .. m
                 PROVE  g[i] = IF i = 1 THEN parts[i] ELSE g[i - 1] \o parts[i]
      BY Zenon
    <3>1. CASE i = m /\ m = 1
      BY <3>1, <2>1, Zenon
    <3>2. CASE i = m /\ m # 1
      <4>1. i - 1 \in 1 .. m /\ i - 1 # m
        BY <1>2, <3>2
      <4> QED BY <3>2, <4>1, Zenon
    <3>3. CASE i # m
      <4>1. i \in 1 .. m - 1
        BY <1>2, <3>3
      <4>2. f[i] = IF i = 1 THEN parts[i] ELSE f[i - 1] \o parts[i]
        BY <2>2, <4>1, Zenon DEF Unrolls
      <4>3. g[i] = f[i]
        BY <3>3, Zenon
      <4>4. i # 1 => i - 1 \in 1 .. m /\ i - 1 # m
        BY <1>2, <4>1
      <4>5. i # 1 => g[i - 1] = f[i - 1]
        BY <4>4, Zenon
      <4> QED BY <4>2, <4>3, <4>5, Zenon
    <3> QED BY <3>1, <3>2, <3>3, Zenon
  <2>4. DOMAIN g = 1 .. m /\ g = [i \in 1 .. m |-> g[i]]
    BY Zenon
  <2> HIDE DEF g
  <2>5. Unrolls(g, parts, m)
    BY <2>3, <2>4, Zenon DEF Unrolls
  <2> QED BY <1>2, <2>5, Zenon
<1> QED BY <1>3, <1>4, Zenon

(* inserted, which joins the parts of a payload, is its last value.          *)
LEMMA FlattenUnrolls ==
  ASSUME NEW parts, Len(parts) \in Nat \ {0}
  PROVE  \E g : Unrolls(g, parts, Len(parts)) /\ inserted(parts) = g[Len(parts)]
<1>1. \E g : g = [i \in 1 .. Len(parts) |-> IF i = 1 THEN parts[i] ELSE g[i - 1] \o parts[i]]
  BY UnrollExists, Zenon DEF Unrolls
<1> QED BY <1>1, Zenon DEF inserted, Unrolls

(* The first i parts, put together: where each of their bytes is.            *)
Laid(flat, parts, a, w, i) ==
  /\ flat \in Seq(Nat) /\ Len(flat) = a + w * (i - 1)
  /\ \A j \in 1 .. a : flat[j] = parts[1][j]
  /\ \A k \in 2 .. i : \A j \in 1 .. w : flat[a + w * (k - 2) + j] = parts[k][j]

(* Where parts of one length begin.                                          *)
LEMMA Places ==
  ASSUME NEW w \in Nat
  PROVE  /\ \A i \in Nat : w * (i + 1) = w * i + w /\ w * i \in Nat
         /\ \A i, k \in Nat : k <= i => w * k <= w * i
<1>1. \A i \in Nat : w * (i + 1) = w * i + w /\ w * i \in Nat
  OBVIOUS
<1>2. \A i, k \in Nat : k <= i => w * k <= w * i
  OBVIOUS
<1> QED BY <1>1, <1>2

(* One more part leaves the others where they are.                           *)
LEMMA OneMore ==
  ASSUME NEW a \in Nat, NEW w \in Nat, NEW i \in Nat \ {0}, NEW parts, NEW flat,
         Laid(flat, parts, a, w, i), parts[i + 1] \in Seq(Nat), Len(parts[i + 1]) = w
  PROVE  Laid(flat \o parts[i + 1], parts, a, w, i + 1)
<1> DEFINE more == parts[i + 1]
           longer == flat \o more
           n == a + w * (i - 1)
<1>1. /\ flat \in Seq(Nat) /\ more \in Seq(Nat) /\ Len(flat) = n /\ Len(more) = w
  BY Zenon DEF Laid
<1>2. /\ longer \in Seq(Nat) /\ Len(longer) = Len(flat) + Len(more)
      /\ \A j \in 1 .. Len(flat) + Len(more) :
           longer[j] = IF j <= Len(flat) THEN flat[j] ELSE more[j - Len(flat)]
  <2> HIDE DEF more
  <2> QED BY <1>1, SeqConcat, Zenon
<1>3. /\ w * (i - 1) \in Nat /\ w * i = w * (i - 1) + w
      /\ \A k \in 2 .. i : w * (k - 2) \in Nat /\ w * (k - 2) + w <= w * (i - 1)
  <2>1. i - 1 \in Nat /\ (i - 1) + 1 = i
    OBVIOUS
  <2>2. w * (i - 1) \in Nat /\ w * i = w * (i - 1) + w
    BY <2>1, Places
  <2>3. ASSUME NEW k \in 2 .. i PROVE w * (k - 2) \in Nat /\ w * (k - 2) + w <= w * (i - 1)
    <3>1. k - 2 \in Nat /\ k - 1 \in Nat /\ (k - 2) + 1 = k - 1 /\ k - 1 <= i - 1
      OBVIOUS
    <3>2. w * (k - 2) \in Nat /\ w * (k - 1) = w * (k - 2) + w
      BY <3>1, Places
    <3>3. w * (k - 1) <= w * (i - 1)
      BY <2>1, <3>1, Places
    <3> QED BY <3>2, <3>3
  <2> QED BY <2>2, <2>3
<1>4. n \in Nat
  BY <1>3
<1> HIDE DEF more, longer
<1>5. \A j \in 1 .. n : longer[j] = flat[j]
  BY <1>1, <1>2, <1>4
<1>6. \A j \in 1 .. w : longer[n + j] = more[j]
  <2> TAKE j \in 1 .. w
  <2> HIDE DEF n
  <2>1. n + j \in 1 .. n + w /\ ~(n + j <= n) /\ (n + j) - n = j
    BY <1>4
  <2> QED BY <1>1, <1>2, <2>1, Zenon
<1>7. longer \in Seq(Nat) /\ Len(longer) = a + w * ((i + 1) - 1)
  <2>1. (i + 1) - 1 = i
    OBVIOUS
  <2>2. Len(longer) = n + w
    BY <1>1, <1>2
  <2>3. n + w = a + w * i
    BY <1>3
  <2> QED BY <1>2, <2>1, <2>2, <2>3, Zenon
<1>8. \A j \in 1 .. a : longer[j] = parts[1][j]
  <2> TAKE j \in 1 .. a
  <2>1. j \in 1 .. n
    BY <1>3
  <2> QED BY <1>5, <2>1, Zenon DEF Laid
<1>9. \A k \in 2 .. i + 1 : \A j \in 1 .. w : longer[a + w * (k - 2) + j] = parts[k][j]
  <2> TAKE k \in 2 .. i + 1
  <2> TAKE j \in 1 .. w
  <2>1. CASE k = i + 1
    <3>1. (i + 1) - 2 = i - 1
      OBVIOUS
    <3> QED BY <1>6, <2>1, <3>1, Zenon DEF more, n
  <2>2. CASE k # i + 1
    <3>1. k \in 2 .. i
      BY <2>2
    <3>2. a + w * (k - 2) + j \in 1 .. n
      <4>1. w * (k - 2) \in Nat /\ w * (k - 2) + w <= w * (i - 1) /\ w * (i - 1) \in Nat
        BY <1>3, <3>1, Zenon
      <4>2. \A p, q \in Nat : p + w <= q => a + p + j \in 1 .. a + q
        OBVIOUS
      <4> QED BY <4>1, <4>2, Zenon
    <3> QED BY <1>5, <3>1, <3>2, Zenon DEF Laid
  <2> QED BY <2>1, <2>2, Zenon
<1> QED BY <1>7, <1>8, <1>9, Zenon DEF Laid, longer, more

(* inserted of a first part and others of one length.                        *)
LEMMA FlattenLaid ==
  ASSUME NEW a \in Nat, NEW w \in Nat, NEW parts, NEW n \in Nat \ {0}, Len(parts) = n,
         \A i \in 1 .. n : parts[i] \in Seq(Nat) /\ Len(parts[i]) = IF i = 1 THEN a ELSE w
  PROVE  Laid(inserted(parts), parts, a, w, n)
<1>1. PICK g : Unrolls(g, parts, n) /\ inserted(parts) = g[n]
  BY FlattenUnrolls, Zenon
<1> DEFINE bad == {i \in 1 .. n : ~Laid(g[i], parts, a, w, i)}
<1> SUFFICES ASSUME bad # {} PROVE FALSE
  <2>1. n \in 1 .. n
    OBVIOUS
  <2> QED BY <1>1, <2>1, Zenon
<1>2. PICK m \in bad : \A k \in bad : m <= k
  <2>1. bad \subseteq Nat
    OBVIOUS
  <2> HIDE DEF bad
  <2> QED BY <2>1, Least, Zenon
<1>3. m \in 1 .. n /\ ~Laid(g[m], parts, a, w, m)
  BY Zenon
<1>4. g[m] = IF m = 1 THEN parts[m] ELSE g[m - 1] \o parts[m]
  BY <1>1, <1>3, Zenon DEF Unrolls
<1>5. CASE m = 1
  <2>1. g[1] = parts[1] /\ parts[1] \in Seq(Nat) /\ Len(parts[1]) = a
    BY <1>3, <1>4, <1>5, Zenon
  <2>2. a = a + w * (1 - 1) /\ 2 .. 1 = {}
    OBVIOUS
  <2>3. Laid(g[1], parts, a, w, 1)
    BY <2>1, <2>2, Zenon DEF Laid
  <2> QED BY <1>3, <1>5, <2>3, Zenon
<1>6. CASE m # 1
  <2> DEFINE i == m - 1
  <2>1. i \in Nat \ {0} /\ i \in 1 .. n /\ ~(m <= i) /\ i + 1 = m
    BY <1>3, <1>6
  <2> HIDE DEF i
  <2>2. Laid(g[i], parts, a, w, i)
    BY <1>2, <2>1, Zenon
  <2>3. parts[i + 1] \in Seq(Nat) /\ Len(parts[i + 1]) = w
    BY <1>3, <1>6, <2>1, Zenon
  <2>4. Laid(g[i] \o parts[i + 1], parts, a, w, i + 1)
    BY <2>1, <2>2, <2>3, OneMore, Zenon
  <2>5. g[m] = g[i] \o parts[m]
    BY <1>4, <1>6, Zenon DEF i
  <2> QED BY <1>3, <2>1, <2>4, <2>5, Zenon
<1> QED BY <1>5, <1>6, Zenon

(* What lies behind an offset.                                               *)
LEMMA FromFacts ==
  ASSUME NEW S, NEW data \in Seq(S), NEW offset \in 0 .. Len(data)
  PROVE  /\ from(data, offset) \in Seq(S) /\ Len(from(data, offset)) = Len(data) - offset
         /\ \A i \in 1 .. Len(data) - offset : from(data, offset)[i] = data[offset + i]
<1> DEFINE m == offset + 1
           n == Len(data)
<1>1. m \in Int /\ n \in Nat /\ offset \in Nat /\ m \in 1 .. n + 1
  BY SeqFacts
<1>2. \A i \in m .. n : data[i] \in S
  <2> TAKE i \in m .. n
  <2>1. i \in 1 .. Len(data)
    BY <1>1
  <2> QED BY <2>1, SeqElement, Zenon
<1> HIDE DEF m, n
<1>3. /\ SubSeq(data, m, n) \in Seq(S)
      /\ Len(SubSeq(data, m, n)) = IF m <= n THEN n - m + 1 ELSE 0
      /\ \A i \in 1 .. n - m + 1 : SubSeq(data, m, n)[i] = data[m + i - 1]
  BY <1>1, <1>2, SeqPart
<1>4. from(data, offset) = SubSeq(data, m, n)
  BY DEF from, m, n
<1>5. n - m + 1 = n - offset /\ (IF m <= n THEN n - m + 1 ELSE 0) = n - offset
  BY <1>1 DEF m
<1>6. \A i \in 1 .. n - offset : m + i - 1 = offset + i
  BY <1>1 DEF m
<1>7. \A i \in 1 .. n - offset : SubSeq(data, m, n)[i] = data[offset + i]
  BY <1>3, <1>5, <1>6, Zenon
<1> QED BY <1>3, <1>4, <1>5, <1>7, Zenon DEF n

(* read_u32_be reads the first four bytes.                                   *)
LEMMA ReadU32 ==
  ASSUME NEW data \in Seq(Nat), Len(data) >= 4
  PROVE  read_u32_be(data) = (data[1] * Radix + data[2]) * U16 + (data[3] * Radix + data[4])
<1>1. \A i \in 3 .. 4 : data[i] \in Nat
  <2> TAKE i \in 3 .. 4
  <2>1. i \in 1 .. Len(data)
    BY SeqFacts
  <2> QED BY <2>1, SeqElement, Zenon
<1>2. \A i \in 1 .. 4 - 3 + 1 : SubSeq(data, 3, 4)[i] = data[3 + i - 1]
  BY <1>1, SeqPart
<1>3. SubSeq(data, 3, 4)[1] = data[3] /\ SubSeq(data, 3, 4)[2] = data[4]
  BY <1>2
<1> QED BY <1>3, Zenon DEF read_u32_be, read_u16_be

(* Four bytes that write_u32_be has written are read as the number.          *)
LEMMA ReadWritten ==
  ASSUME NEW n \in 0 .. U32 - 1, NEW data \in Seq(Nat), Len(data) >= 4,
         \A j \in 1 .. 4 : data[j] = write_u32_be(n)[j]
  PROVE  read_u32_be(data) = n
<1> DEFINE bytes == write_u32_be(n)
<1>1. bytes \in Seq(0 .. Radix - 1) /\ Len(bytes) = 4 /\ read_u32_be(bytes) = n
  BY U32RoundTrip, Zenon
<1>2. 0 .. Radix - 1 \subseteq Nat
  BY Sizes
<1> HIDE DEF bytes
<1>3. bytes \in Seq(Nat)
  BY <1>1, <1>2, SeqWider, Zenon
<1>4. Len(bytes) >= 4
  BY <1>1
<1>5. 1 \in 1 .. 4 /\ 2 \in 1 .. 4 /\ 3 \in 1 .. 4 /\ 4 \in 1 .. 4
  OBVIOUS
<1>6. data[1] = bytes[1] /\ data[2] = bytes[2] /\ data[3] = bytes[3] /\ data[4] = bytes[4]
  BY <1>5, Zenon DEF bytes
<1>7. read_u32_be(data) = read_u32_be(bytes)
  BY <1>3, <1>4, <1>6, ReadU32, Zenon
<1> QED BY <1>1, <1>7, Zenon

(* encode_list of entries of one length: the number of them, and where each  *)
(* byte of each of them is.                                                  *)
Listed(list, entries, w, n) ==
  /\ list \in Seq(Nat) /\ Len(list) = 2 + w * n
  /\ list[1] * Radix + list[2] = n
  /\ \A k \in 1 .. n : \A j \in 1 .. w : list[2 + w * (k - 1) + j] = entries[k][j]

(* encode_list makes such a list.                                            *)
LEMMA ListFacts ==
  ASSUME NEW w \in Nat, NEW entries \in Seq(Seq(Nat)), NEW n \in 0 .. kMaxU16Count,
         Len(entries) = n, \A k \in 1 .. n : Len(entries[k]) = w
  PROVE  Listed(encode_list(entries), entries, w, n)
<1>0. PICK list : list = encode_list(entries)
  BY Zenon
<1> DEFINE count == write_u16_be(n)
           parts == <<count>> \o entries
<1>1. n \in Nat /\ n \in 0 .. U16 - 1 /\ ~(n > kMaxU16Count)
  BY Sizes DEF kMaxU16Count
<1>2. count \in Seq(Nat) /\ Len(count) = 2 /\ count[1] * Radix + count[2] = n
  <2>1. /\ count \in Seq(0 .. Radix - 1) /\ Len(count) = 2
        /\ count[1] * Radix + count[2] = n
    BY <1>1, U16RoundTrip, Zenon
  <2>2. 0 .. Radix - 1 \subseteq Nat
    BY Sizes
  <2> HIDE DEF count
  <2> QED BY <2>1, <2>2, SeqWider, Zenon
<1> HIDE DEF count
<1>3. /\ Len(parts) = n + 1 /\ DOMAIN parts = 1 .. n + 1 /\ parts[1] = count
      /\ \A k \in 1 .. n : parts[k + 1] = entries[k]
  <2>1. <<count>> \in Seq(Seq(Nat)) /\ Len(<<count>>) = 1 /\ <<count>>[1] = count
    BY <1>2
  <2> DEFINE one == <<count>>
  <2> HIDE DEF one
  <2>2. one \in Seq(Seq(Nat)) /\ Len(one) = 1 /\ one[1] = count
    BY <2>1, Zenon DEF one
  <2>3. /\ one \o entries \in Seq(Seq(Nat)) /\ Len(one \o entries) = Len(one) + Len(entries)
        /\ \A i \in 1 .. Len(one) + Len(entries) :
             (one \o entries)[i] = IF i <= Len(one) THEN one[i] ELSE entries[i - Len(one)]
    BY <2>2, SeqConcat, Zenon
  <2>4. DOMAIN (one \o entries) = 1 .. Len(one \o entries)
    BY <2>3, SeqFacts, Zenon
  <2>5. parts = one \o entries
    BY Zenon DEF one
  <2> HIDE DEF parts
  <2>6. Len(parts) = n + 1
    BY <1>1, <2>2, <2>3, <2>5
  <2>7. parts[1] = count
    BY <1>1, <2>2, <2>3, <2>5
  <2>8. ASSUME NEW k \in 1 .. n PROVE parts[k + 1] = entries[k]
    <3>1. k + 1 \in 1 .. 1 + n /\ ~(k + 1 <= 1) /\ (k + 1) - 1 = k
      BY <1>1
    <3> QED BY <2>2, <2>3, <2>5, <3>1, Zenon
  <2> QED BY <2>4, <2>5, <2>6, <2>7, <2>8, Zenon
<1> HIDE DEF parts
<1>4. \A i \in 1 .. n + 1 : parts[i] \in Seq(Nat) /\ Len(parts[i]) = IF i = 1 THEN 2 ELSE w
  <2> TAKE i \in 1 .. n + 1
  <2>1. CASE i = 1
    BY <1>2, <1>3, <2>1, Zenon
  <2>2. CASE i # 1
    <3>1. PICK k \in 1 .. n : i = k + 1
      <4>1. i - 1 \in 1 .. n /\ i = (i - 1) + 1
        BY <1>1, <2>2
      <4> QED BY <4>1, Zenon
    <3>2. entries[k] \in Seq(Nat)
      BY SeqElement, Zenon
    <3> QED BY <1>3, <2>2, <3>1, <3>2, Zenon
  <2> QED BY <2>1, <2>2, Zenon
<1>5. list = inserted(parts)
  <2>1. Throws \notin Range(parts)
    BY <1>3, <1>4, ThrowsAssumption, Zenon DEF Range
  <2>2. list = joined(parts)
    BY <1>0, <1>1, Zenon DEF encode_list, parts, count
  <2> QED BY <2>1, <2>2, Zenon DEF joined
<1>6. Laid(list, parts, 2, w, n + 1)
  <2>1. PICK m \in Nat \ {0} : m = n + 1
    BY <1>1
  <2>2. 2 \in Nat
    OBVIOUS
  <2>3. /\ Len(parts) = m
        /\ \A i \in 1 .. m : parts[i] \in Seq(Nat) /\ Len(parts[i]) = IF i = 1 THEN 2 ELSE w
    BY <1>3, <1>4, <2>1, Zenon
  <2>4. Laid(inserted(parts), parts, 2, w, m)
    BY <2>2, <2>3, FlattenLaid, Zenon
  <2> QED BY <1>5, <2>1, <2>4, Zenon
<1>7. (n + 1) - 1 = n /\ 1 \in 1 .. 2 /\ 2 \in 1 .. 2
  BY <1>1
<1>8. list \in Seq(Nat) /\ Len(list) = 2 + w * n
  BY <1>6, <1>7, Zenon DEF Laid
<1>9. list[1] * Radix + list[2] = n
  <2>1. list[1] = count[1] /\ list[2] = count[2]
    BY <1>3, <1>6, <1>7, Zenon DEF Laid
  <2> QED BY <1>2, <2>1, Zenon
<1>10. ASSUME NEW k \in 1 .. n, NEW j \in 1 .. w
       PROVE  list[2 + w * (k - 1) + j] = entries[k][j]
  <2>1. k + 1 \in 2 .. n + 1 /\ (k + 1) - 2 = k - 1
    BY <1>1
  <2>2. list[2 + w * ((k + 1) - 2) + j] = parts[k + 1][j]
    BY <1>6, <2>1, Zenon DEF Laid
  <2> QED BY <1>3, <2>1, <2>2, Zenon
<1> QED BY <1>0, <1>8, <1>9, <1>10, Zenon DEF Listed

(* What lies behind a head: its bytes, counted from the end of the head.     *)
LEMMA Behind ==
  ASSUME NEW head \in Seq(Nat), NEW list \in Seq(Nat)
  PROVE  /\ head \o list \in Seq(Nat) /\ Len(head \o list) = Len(head) + Len(list)
         /\ \A j \in 1 .. Len(head) : (head \o list)[j] = head[j]
         /\ \A o \in 0 .. Len(list) :
              LET rest == from(head \o list, Len(head) + o) IN
              /\ rest \in Seq(Nat) /\ Len(rest) = Len(list) - o
              /\ \A j \in 1 .. Len(list) - o : rest[j] = list[o + j]
<1>1. PICK h \in Nat, l \in Nat : h = Len(head) /\ l = Len(list)
  BY SeqFacts
<1>2. /\ head \o list \in Seq(Nat) /\ Len(head \o list) = Len(head) + Len(list)
      /\ \A j \in 1 .. Len(head) + Len(list) :
           (head \o list)[j] = IF j <= Len(head) THEN head[j] ELSE list[j - Len(head)]
  BY SeqConcat, Zenon
<1>3. PICK blob \in Seq(Nat) : blob = head \o list
  BY <1>2, Zenon
<1>4. /\ Len(blob) = h + l
      /\ \A j \in 1 .. h + l : blob[j] = IF j <= h THEN head[j] ELSE list[j - h]
  BY <1>1, <1>2, <1>3, Zenon
<1>5. \A j \in 1 .. h : blob[j] = head[j]
  <2>1. \A j \in 1 .. h : j \in 1 .. h + l /\ j <= h
    OBVIOUS
  <2> QED BY <1>4, <2>1, Zenon
<1>6. ASSUME NEW o \in 0 .. l
      PROVE  /\ from(blob, h + o) \in Seq(Nat) /\ Len(from(blob, h + o)) = l - o
             /\ \A j \in 1 .. l - o : from(blob, h + o)[j] = list[o + j]
  <2>1. PICK p : p = h + o
    BY Zenon
  <2>2. p \in 0 .. Len(blob) /\ Len(blob) - p = l - o
    BY <1>4, <2>1
  <2>3. /\ from(blob, p) \in Seq(Nat) /\ Len(from(blob, p)) = Len(blob) - p
        /\ \A j \in 1 .. Len(blob) - p : from(blob, p)[j] = blob[p + j]
    BY <2>2, FromFacts, Zenon
  <2>4. \A j \in 1 .. l - o : /\ p + j \in 1 .. h + l /\ ~(p + j <= h) /\ (p + j) - h = o + j
    BY <2>1
  <2>5. \A j \in 1 .. l - o : blob[p + j] = list[o + j]
    BY <1>4, <2>4, Zenon
  <2> QED BY <2>1, <2>2, <2>3, <2>5, Zenon
<1> QED BY <1>1, <1>2, <1>3, <1>5, <1>6, Zenon

-------------------------------------------------------------------------------
(* Messages.                                                                 *)

(* What is put behind a head is what lies behind it.                         *)
LEMMA FromConcat ==
  ASSUME NEW x \in Seq(Nat), NEW y \in Seq(Nat)
  PROVE  from(x \o y, Len(x)) = y
<1>1. PICK h \in Nat, l \in Nat : h = Len(x) /\ l = Len(y)
  BY SeqFacts, Zenon
<1>2. PICK blob : blob = x \o y
  BY Zenon
<1>3. Joins(blob, x, y, h, l)
  BY <1>1, <1>2, ConcatFacts, Zenon
<1>4. blob \in Seq(Nat) /\ Len(blob) = h + l /\ \A j \in 1 .. l : blob[h + j] = y[j]
  BY <1>3, Zenon DEF Joins
<1>5. h \in 0 .. Len(blob) /\ Len(blob) - h = l
  BY <1>4
<1>6. /\ from(blob, h) \in Seq(Nat) /\ Len(from(blob, h)) = Len(blob) - h
      /\ \A i \in 1 .. Len(blob) - h : from(blob, h)[i] = blob[h + i]
  BY <1>4, <1>5, FromFacts, Zenon
<1>7. Len(from(blob, h)) = l /\ \A i \in 1 .. l : from(blob, h)[i] = y[i]
  BY <1>4, <1>5, <1>6, Zenon
<1>8. from(blob, h) = y
  BY <1>1, <1>6, <1>7, SeqSame, Zenon
<1> QED BY <1>1, <1>2, <1>8, Zenon

(* How sequences are put together is of no importance.                       *)
Grouped(x, y, z) == (x \o y) \o z = x \o (y \o z)

(* Concatenation of bytes is associative.                                    *)
LEMMA Regroup ==
  ASSUME NEW x \in Seq(Nat), NEW y \in Seq(Nat), NEW z \in Seq(Nat)
  PROVE  Grouped(x, y, z)
BY DEF Grouped

(* What can be read of a number with something behind it.                    *)
Number(data, n, more) ==
  /\ data \in Seq(Nat) /\ Len(data) = 4 + Len(more)
  /\ read_u32_be(data) = n /\ from(data, 4) = more

(* read_u32_be reads a number back, whatever follows it.                     *)
LEMMA NumberRead ==
  ASSUME NEW n \in Ids, NEW more \in Seq(Nat)
  PROVE  /\ write_u32_be(n) \in Seq(Nat) /\ Len(write_u32_be(n)) = 4
         /\ Number(write_u32_be(n) \o more, n, more)
<1>1. n \in 0 .. U32 - 1
  BY Zenon DEF Ids
<1>2. write_u32_be(n) \in Seq(0 .. Radix - 1) /\ Len(write_u32_be(n)) = 4
  BY <1>1, U32RoundTrip, Zenon
<1>3. 0 .. Radix - 1 \subseteq Nat
  BY Sizes
<1>4. PICK w \in Seq(Nat) : w = write_u32_be(n)
  BY <1>2, <1>3, SeqWider, Zenon
<1>5. PICK k \in Nat : k = Len(more)
  BY SeqFacts, Zenon
<1>6. PICK data : data = w \o more
  BY Zenon
<1>7. Joins(data, w, more, 4, k)
  BY <1>2, <1>4, <1>5, <1>6, ConcatFacts, Zenon
<1>8. data \in Seq(Nat) /\ Len(data) = 4 + k /\ \A j \in 1 .. 4 : data[j] = w[j]
  BY <1>7, Zenon DEF Joins
<1>9. Len(data) >= 4
  BY <1>8
<1>10. read_u32_be(data) = n
  BY <1>1, <1>4, <1>8, <1>9, ReadWritten, Zenon
<1>11. from(data, 4) = more
  BY <1>2, <1>4, <1>6, FromConcat, Zenon
<1> QED BY <1>2, <1>4, <1>5, <1>6, <1>8, <1>10, <1>11, Zenon DEF Number

(* A string with something behind it.                                        *)
Text(data, value, more) ==
  /\ data \in Seq(Nat) /\ Len(data) = 2 + Len(value) + Len(more)
  /\ decode_string(data) = value /\ from(data, 2 + Len(value)) = more

(* What encode_string makes of a string it accepts.                          *)
LEMMA TextRead ==
  ASSUME NEW value \in Strings, NEW more \in Seq(Nat)
  PROVE  /\ encode_string(value) \in Seq(Nat) /\ Len(encode_string(value)) = 2 + Len(value)
         /\ encode_string(value) # Throws
         /\ Text(encode_string(value) \o more, value, more)
<1>1. value \in Seq(Nat) /\ Len(value) <= kMaxU16Count
  BY Zenon DEF Strings
<1>2. PICK n \in Nat, m \in Nat : n = Len(value) /\ m = Len(more)
  BY <1>1, SeqFacts, Zenon
<1>3. n \in 0 .. U16 - 1 /\ ~(n > kMaxU16Count)
  BY <1>1, <1>2, Sizes DEF kMaxU16Count
<1>4. write_u16_be(n) \in Seq(0 .. Radix - 1) /\ Len(write_u16_be(n)) = 2
  BY <1>3, U16RoundTrip, Zenon
<1>5. 0 .. Radix - 1 \subseteq Nat
  BY Sizes
<1>6. PICK w \in Seq(Nat) : w = write_u16_be(n)
  BY <1>4, <1>5, SeqWider, Zenon
<1>7. PICK e : e = w \o value
  BY Zenon
<1>8. encode_string(value) = e
  BY <1>2, <1>3, <1>6, <1>7, Zenon DEF encode_string
<1>9. Joins(e, w, value, 2, n)
  BY <1>1, <1>2, <1>4, <1>6, <1>7, ConcatFacts, Zenon
<1>10. e \in Seq(Nat) /\ Len(e) = 2 + n
  BY <1>9, Zenon DEF Joins
<1>11. Joins(e \o more, e, more, 2 + n, m)
  BY <1>2, <1>10, ConcatFacts, Zenon
<1>12. e \o more \in Seq(Nat) /\ Len(e \o more) = 2 + n + m
  BY <1>11, Zenon DEF Joins
<1>13. decode_string(e \o more) = value
  BY <1>1, <1>8, StringRoundTrip, Zenon
<1>14. from(e \o more, 2 + n) = more
  BY <1>10, FromConcat, Zenon
<1>15. e # Throws
  BY <1>10, ThrowsAssumption, Zenon
<1> QED BY <1>2, <1>8, <1>10, <1>12, <1>13, <1>14, <1>15, Zenon DEF Text

(* The parts of a payload, put together.                                     *)
LEMMA JoinedTwo ==
  ASSUME NEW a \in Seq(Nat), NEW b \in Seq(Nat)
  PROVE  joined(<<a, b>>) = a \o b
<1>1. PICK parts : parts = <<a, b>>
  BY Zenon
<1>2. Len(parts) = 2 /\ DOMAIN parts = 1 .. 2 /\ parts[1] = a /\ parts[2] = b
  BY <1>1
<1>3. 2 \in Nat \ {0} /\ 1 \in 1 .. 2 /\ 2 \in 1 .. 2 /\ 2 # 1 /\ 2 - 1 = 1
      /\ \A i \in 1 .. 2 : i = 1 \/ i = 2
  OBVIOUS
<1>4. Throws \notin Range(parts)
  BY <1>2, <1>3, ThrowsAssumption, Zenon DEF Range
<1>5. PICK g : Unrolls(g, parts, 2) /\ inserted(parts) = g[2]
  BY <1>2, <1>3, FlattenUnrolls, Zenon
<1>6. g[1] = parts[1]
  BY <1>3, <1>5, Zenon DEF Unrolls
<1>7. g[2] = g[2 - 1] \o parts[2]
  BY <1>3, <1>5, Zenon DEF Unrolls
<1>8. joined(parts) = a \o b
  BY <1>2, <1>3, <1>4, <1>5, <1>6, <1>7, Zenon DEF joined
<1> QED BY <1>1, <1>8, Zenon

(* The same for the four parts of a chat message.                            *)
FourParts(a, b, c, d) == joined(<<a, b, c, d>>) = ((a \o b) \o c) \o d

(* They are put together in their order.                                     *)
LEMMA JoinedFour ==
  ASSUME NEW a \in Seq(Nat), NEW b \in Seq(Nat), NEW c \in Seq(Nat), NEW d \in Seq(Nat)
  PROVE  FourParts(a, b, c, d)
<1>1. PICK parts : parts = <<a, b, c, d>>
  BY Zenon
<1>2. /\ Len(parts) = 4 /\ DOMAIN parts = 1 .. 4
      /\ parts[1] = a /\ parts[2] = b /\ parts[3] = c /\ parts[4] = d
  BY <1>1
<1>3. /\ 4 \in Nat \ {0} /\ 1 \in 1 .. 4 /\ 2 \in 1 .. 4 /\ 3 \in 1 .. 4 /\ 4 \in 1 .. 4
      /\ 2 # 1 /\ 3 # 1 /\ 4 # 1 /\ 2 - 1 = 1 /\ 3 - 1 = 2 /\ 4 - 1 = 3
      /\ \A i \in 1 .. 4 : i = 1 \/ i = 2 \/ i = 3 \/ i = 4
  OBVIOUS
<1>4. Throws \notin Range(parts)
  <2>1. \A i \in 1 .. 4 : parts[i] \in Seq(Nat)
    BY <1>2, <1>3, Zenon
  <2> QED BY <1>2, <2>1, ThrowsAssumption, Zenon DEF Range
<1>5. PICK g : Unrolls(g, parts, 4) /\ inserted(parts) = g[4]
  BY <1>2, <1>3, FlattenUnrolls, Zenon
<1>6. g[1] = a
  BY <1>2, <1>3, <1>5, Zenon DEF Unrolls
<1>7. g[2] = a \o b
  <2>1. g[2] = g[2 - 1] \o parts[2]
    BY <1>3, <1>5, Zenon DEF Unrolls
  <2> QED BY <1>2, <1>3, <1>6, <2>1, Zenon
<1>8. g[3] = (a \o b) \o c
  <2>1. g[3] = g[3 - 1] \o parts[3]
    BY <1>3, <1>5, Zenon DEF Unrolls
  <2> QED BY <1>2, <1>3, <1>7, <2>1, Zenon
<1>9. g[4] = ((a \o b) \o c) \o d
  <2>1. g[4] = g[4 - 1] \o parts[4]
    BY <1>3, <1>5, Zenon DEF Unrolls
  <2> QED BY <1>2, <1>3, <1>8, <2>1, Zenon
<1>10. joined(parts) = ((a \o b) \o c) \o d
  BY <1>4, <1>5, <1>9, Zenon DEF joined
<1> QED BY <1>1, <1>10, Zenon DEF FourParts

(* Nothing comes of parts one of which threw.                                *)
LEMMA JoinedThrows ==
  ASSUME NEW a, NEW b, NEW c
  PROVE  joined(<<a, b, c, Throws>>) = Throws
<1>1. DOMAIN <<a, b, c, Throws>> = 1 .. 4 /\ <<a, b, c, Throws>>[4] = Throws /\ 4 \in 1 .. 4
  OBVIOUS
<1>2. Throws \in Range(<<a, b, c, Throws>>)
  BY <1>1, Zenon DEF Range
<1> QED BY <1>2, Zenon DEF joined

(* The empty sequence changes nothing.                                       *)
LEMMA Nothing ==
  /\ <<>> \in Seq(Nat) /\ Len(<<>>) = 0
  /\ \A x \in Seq(Nat) : x \o <<>> = x /\ <<>> \o x = x
<1>1. <<>> \in Seq(Nat) /\ Len(<<>>) = 0
  OBVIOUS
<1>2. \A x \in Seq(Nat) : x \o <<>> = x /\ <<>> \o x = x
  BY SeqNothing, Zenon
<1> QED BY <1>1, <1>2, Zenon

(* A user's id and nickname, with something behind them.                     *)
Info(data, info, more) ==
  /\ data \in Seq(Nat) /\ Len(data) = 6 + Len(info.nickname) + Len(more)
  /\ decode_user_info(data) = info /\ from(data, 6 + Len(info.nickname)) = more

(* encode_user_info and decode_user_info, whatever follows.                  *)
LEMMA InfoRead ==
  ASSUME NEW info, info.id \in Ids, info.nickname \in Strings, NEW more \in Seq(Nat)
  PROVE  /\ encode_user_info(info) \in Seq(Nat)
         /\ Len(encode_user_info(info)) = 6 + Len(info.nickname)
         /\ Info(encode_user_info(info) \o more,
                 [id |-> info.id, nickname |-> info.nickname], more)
<1>1. PICK id, nick : id = info.id /\ nick = info.nickname
  BY Zenon
<1>2. id \in Ids /\ nick \in Strings
  BY <1>1, Zenon
<1>3. PICK field : field = write_u32_be(id)
  BY Zenon
<1>4. PICK string : string = encode_string(nick)
  BY Zenon
<1>5. field \in Seq(Nat) /\ Len(field) = 4
  BY <1>2, <1>3, NumberRead, Zenon
<1>6. string \in Seq(Nat) /\ Len(string) = 2 + Len(nick) /\ Text(string \o more, nick, more)
  BY <1>2, <1>4, TextRead, Zenon
<1>7. PICK rest : rest = string \o more
  BY Zenon
<1>8. Text(rest, nick, more)
  BY <1>6, <1>7, Zenon
<1>9. rest \in Seq(Nat)
  BY <1>8, Zenon DEF Text
<1>10. Number(field \o rest, id, rest)
  BY <1>2, <1>3, <1>9, NumberRead, Zenon
<1>11. PICK entry : entry = field \o string
  BY Zenon
<1>12. encode_user_info(info) = entry
  <2>1. joined(<<field, string>>) = field \o string
    BY <1>5, <1>6, JoinedTwo, Zenon
  <2> QED BY <1>1, <1>3, <1>4, <1>11, <2>1, Zenon DEF encode_user_info
<1>13. PICK data : data = entry \o more
  BY Zenon
<1>14. data = field \o rest
  <2>1. Grouped(field, string, more)
    BY <1>5, <1>6, Regroup, Zenon
  <2> QED BY <1>7, <1>11, <1>13, <2>1, Zenon DEF Grouped
<1>15. Number(data, id, rest)
  BY <1>10, <1>14, Zenon
<1>16. PICK n \in Nat, m \in Nat : n = Len(nick) /\ m = Len(more)
  <2>1. nick \in Seq(Nat)
    BY <1>2, Zenon DEF Strings
  <2> QED BY <2>1, SeqFacts, Zenon
<1>17. Len(data) = 4 + (2 + n + m)
  <2>1. Len(rest) = 2 + n + m
    BY <1>8, <1>16, Zenon DEF Text
  <2> QED BY <1>15, <2>1, Zenon DEF Number
<1>18. entry \in Seq(Nat) /\ Len(entry) = 6 + n
  <2>1. Joins(entry, field, string, 4, 2 + n)
    BY <1>5, <1>6, <1>11, <1>16, ConcatFacts, Zenon
  <2>2. entry \in Seq(Nat) /\ Len(entry) = 4 + (2 + n)
    BY <2>1, Zenon DEF Joins
  <2>3. 4 + (2 + n) = 6 + n
    OBVIOUS
  <2> QED BY <2>2, <2>3, Zenon
<1>19. from(data, 6 + n) = more
  BY <1>13, <1>18, FromConcat, Zenon
<1>20. PICK user : user = [id |-> id, nickname |-> nick]
  BY Zenon
<1>21. decode_user_info(data) = user
  <2>1. ~(4 + (2 + n + m) < 4)
    OBVIOUS
  <2>2. read_u32_be(data) = id /\ from(data, 4) = rest
    BY <1>15, Zenon DEF Number
  <2>3. decode_string(rest) = nick
    BY <1>8, Zenon DEF Text
  <2>4. nick # Throws
    BY <1>2, ThrowsAssumption, Zenon DEF Strings
  <2> QED BY <1>17, <1>20, <2>1, <2>2, <2>3, <2>4, Zenon DEF decode_user_info
<1>22. user.nickname = nick
  BY <1>20
<1>23. Len(data) = 6 + n + m
  BY <1>17
<1>24. data \in Seq(Nat)
  BY <1>15, Zenon DEF Number
<1>25. Info(data, user, more)
  BY <1>16, <1>19, <1>21, <1>22, <1>23, <1>24, Zenon DEF Info
<1> QED BY <1>1, <1>12, <1>13, <1>16, <1>18, <1>20, <1>25, Zenon

(* What follows each part.                                                   *)
Tails(t, flat, parts, n) ==
  /\ \A i \in 1 .. n : t[i] \in Seq(Nat)
  /\ \A i \in 1 .. n - 1 : t[i] = parts[i + 1] \o t[i + 1]
  /\ t[n] = <<>> /\ flat = parts[1] \o t[1]

(* inserted of parts of any length: each is followed by the others.        *)
LEMMA FlattenTails ==
  ASSUME NEW parts, NEW n \in Nat \ {0}, Len(parts) = n,
         \A i \in 1 .. n : parts[i] \in Seq(Nat)
  PROVE  \E t : Tails(t, inserted(parts), parts, n)
<1>1. PICK g : Unrolls(g, parts, n) /\ inserted(parts) = g[n]
  BY FlattenUnrolls, Zenon
<1>2. \A i \in 1 .. n : g[i] = IF i = 1 THEN parts[i] ELSE g[i - 1] \o parts[i]
  BY <1>1, Zenon DEF Unrolls
<1>3. 1 \in 1 .. n /\ n \in 1 .. n
  OBVIOUS
<1>4. \A i \in 1 .. n : g[i] \in Seq(Nat)
  <2> DEFINE bad == {i \in 1 .. n : g[i] \notin Seq(Nat)}
  <2> SUFFICES ASSUME bad # {} PROVE FALSE
    BY Zenon
  <2>1. PICK m \in bad : \A k \in bad : m <= k
    <3>1. bad \subseteq Nat
      OBVIOUS
    <3> HIDE DEF bad
    <3> QED BY <3>1, Least, Zenon
  <2>2. m \in 1 .. n /\ g[m] \notin Seq(Nat)
    BY Zenon
  <2>3. m # 1
    BY <1>2, <2>2, Zenon
  <2>4. m - 1 \in 1 .. n /\ ~(m <= m - 1)
    BY <2>2, <2>3
  <2>5. g[m - 1] \in Seq(Nat)
    BY <2>1, <2>4, Zenon
  <2>6. g[m] = g[m - 1] \o parts[m] /\ parts[m] \in Seq(Nat)
    BY <1>2, <2>2, <2>3, Zenon
  <2>7. g[m - 1] \o parts[m] \in Seq(Nat)
    BY <2>5, <2>6, SeqConcat, Zenon
  <2> QED BY <2>2, <2>6, <2>7, Zenon
<1>5. PICK flat : flat = g[n]
  BY Zenon
<1> DEFINE t == [i \in 1 .. n |-> from(flat, Len(g[i]))]
           Whole(i) == t[i] \in Seq(Nat) /\ flat = g[i] \o t[i]
<1>6. ASSUME NEW i \in 1 .. n, NEW x \in Seq(Nat), flat = g[i] \o x PROVE t[i] = x
  <2>1. from(g[i] \o x, Len(g[i])) = x
    BY <1>4, FromConcat, Zenon
  <2>2. t[i] = from(flat, Len(g[i]))
    BY Zenon
  <2> QED BY <1>6, <2>1, <2>2, Zenon
<1> HIDE DEF t
<1>7. t[n] = <<>> /\ Whole(n)
  <2>1. <<>> \in Seq(Nat) /\ flat = g[n] \o <<>>
    BY <1>3, <1>4, <1>5, Nothing, Zenon
  <2> QED BY <1>3, <1>6, <2>1, Zenon
<1>8. ASSUME NEW i \in 1 .. n - 1, Whole(i + 1)
      PROVE  Whole(i) /\ t[i] = parts[i + 1] \o t[i + 1]
  <2>1. i \in 1 .. n /\ i + 1 \in 1 .. n /\ i + 1 # 1 /\ (i + 1) - 1 = i
    OBVIOUS
  <2>2. g[i + 1] = g[i] \o parts[i + 1]
    BY <1>2, <2>1, Zenon
  <2>3. g[i] \in Seq(Nat) /\ parts[i + 1] \in Seq(Nat) /\ t[i + 1] \in Seq(Nat)
    BY <1>4, <1>8, <2>1, Zenon
  <2>4. flat = g[i] \o (parts[i + 1] \o t[i + 1])
    <3>1. flat = (g[i] \o parts[i + 1]) \o t[i + 1]
      BY <1>8, <2>2, Zenon
    <3>2. Grouped(g[i], parts[i + 1], t[i + 1])
      BY <2>3, Regroup, Zenon
    <3> QED BY <3>1, <3>2, Zenon DEF Grouped
  <2>5. parts[i + 1] \o t[i + 1] \in Seq(Nat)
    BY <2>3, SeqConcat, Zenon
  <2>6. t[i] = parts[i + 1] \o t[i + 1]
    BY <1>6, <2>1, <2>4, <2>5, Zenon
  <2> QED BY <2>4, <2>5, <2>6, Zenon
<1>9. ASSUME NEW i \in 1 .. n PROVE Whole(i)
  <2> HIDE DEF Whole
  <2> DEFINE bad == {d \in 0 .. n - 1 : ~Whole(n - d)}
  <2>1. bad = {}
    <3> SUFFICES ASSUME bad # {} PROVE FALSE
      BY Zenon
    <3>1. PICK m \in bad : \A k \in bad : m <= k
      <4>1. bad \subseteq Nat
        OBVIOUS
      <4> HIDE DEF bad
      <4> QED BY <4>1, Least, Zenon
    <3>2. m \in 0 .. n - 1 /\ ~Whole(n - m)
      BY Zenon
    <3>3. m # 0
      <4>1. n - 0 = n
        OBVIOUS
      <4> QED BY <1>7, <3>2, <4>1, Zenon
    <3>4. /\ m - 1 \in 0 .. n - 1 /\ ~(m <= m - 1) /\ n - m \in 1 .. n - 1
          /\ n - (m - 1) = (n - m) + 1
      BY <3>2, <3>3
    <3>5. Whole((n - m) + 1)
      <4>1. Whole(n - (m - 1))
        BY <3>1, <3>4, Zenon
      <4> QED BY <3>4, <4>1, Zenon
    <3>6. Whole(n - m)
      BY <1>8, <3>4, <3>5, Zenon
    <3> QED BY <3>2, <3>6, Zenon
  <2>2. n - i \in 0 .. n - 1 /\ n - (n - i) = i
    OBVIOUS
  <2> QED BY <2>1, <2>2, Zenon
<1>10. ASSUME NEW i \in 1 .. n - 1 PROVE t[i] = parts[i + 1] \o t[i + 1]
  <2>1. i + 1 \in 1 .. n
    OBVIOUS
  <2>2. Whole(i + 1)
    BY <1>9, <2>1, Zenon
  <2> QED BY <1>8, <2>2, Zenon
<1>11. flat = parts[1] \o t[1]
  BY <1>2, <1>3, <1>9, Zenon
<1>12. \A i \in 1 .. n : t[i] \in Seq(Nat)
  BY <1>9, Zenon
<1>13. Tails(t, flat, parts, n)
  BY <1>7, <1>10, <1>11, <1>12, Zenon DEF Tails
<1> QED BY <1>1, <1>5, <1>13, Zenon

(* A sequence is a function on 1 .. n.                                       *)
LEMMA SeqOfFunction ==
  ASSUME NEW S, NEW n \in Nat, NEW f \in [1 .. n -> S]
  PROVE  f \in Seq(S) /\ Len(f) = n /\ DOMAIN f = 1 .. n
OBVIOUS

(* The parts that encode_list joins: the number of entries, and these.       *)
Counted(parts, entries, n) ==
  /\ Len(parts) = n + 1 /\ DOMAIN parts = 1 .. n + 1
  /\ \A i \in 1 .. n + 1 : parts[i] \in Seq(Nat)
  /\ Len(parts[1]) = 2 /\ parts[1][1] * Radix + parts[1][2] = n
  /\ \A k \in 1 .. n : parts[k + 1] = entries[k]

(* Every list that is not too long is so encoded.                            *)
LEMMA CountedParts ==
  ASSUME NEW entries \in Seq(Seq(Nat)), NEW n \in 0 .. kMaxU16Count, Len(entries) = n
  PROVE  \E parts : Counted(parts, entries, n) /\ encode_list(entries) = inserted(parts)
<1> DEFINE count == write_u16_be(n)
           parts == <<count>> \o entries
<1>1. n \in Nat /\ n \in 0 .. U16 - 1 /\ ~(n > kMaxU16Count)
  BY Sizes DEF kMaxU16Count
<1>2. count \in Seq(Nat) /\ Len(count) = 2 /\ count[1] * Radix + count[2] = n
  <2>1. /\ count \in Seq(0 .. Radix - 1) /\ Len(count) = 2
        /\ count[1] * Radix + count[2] = n
    BY <1>1, U16RoundTrip, Zenon
  <2>2. 0 .. Radix - 1 \subseteq Nat
    BY Sizes
  <2> HIDE DEF count
  <2> QED BY <2>1, <2>2, SeqWider, Zenon
<1> HIDE DEF count
<1>3. /\ Len(parts) = n + 1 /\ DOMAIN parts = 1 .. n + 1 /\ parts[1] = count
      /\ \A k \in 1 .. n : parts[k + 1] = entries[k]
  <2>1. <<count>> \in Seq(Seq(Nat)) /\ Len(<<count>>) = 1 /\ <<count>>[1] = count
    BY <1>2
  <2> DEFINE one == <<count>>
  <2> HIDE DEF one
  <2>2. one \in Seq(Seq(Nat)) /\ Len(one) = 1 /\ one[1] = count
    BY <2>1, Zenon DEF one
  <2>3. /\ one \o entries \in Seq(Seq(Nat)) /\ Len(one \o entries) = Len(one) + Len(entries)
        /\ \A i \in 1 .. Len(one) + Len(entries) :
             (one \o entries)[i] = IF i <= Len(one) THEN one[i] ELSE entries[i - Len(one)]
    BY <2>2, SeqConcat, Zenon
  <2>4. DOMAIN (one \o entries) = 1 .. Len(one \o entries)
    BY <2>3, SeqFacts, Zenon
  <2>5. parts = one \o entries
    BY Zenon DEF one
  <2> HIDE DEF parts
  <2>6. Len(parts) = n + 1
    BY <1>1, <2>2, <2>3, <2>5
  <2>7. parts[1] = count
    BY <1>1, <2>2, <2>3, <2>5
  <2>8. ASSUME NEW k \in 1 .. n PROVE parts[k + 1] = entries[k]
    <3>1. k + 1 \in 1 .. 1 + n /\ ~(k + 1 <= 1) /\ (k + 1) - 1 = k
      BY <1>1
    <3> QED BY <2>2, <2>3, <2>5, <3>1, Zenon
  <2> QED BY <2>4, <2>5, <2>6, <2>7, <2>8, Zenon
<1> HIDE DEF parts
<1>4. ASSUME NEW i \in 1 .. n + 1 PROVE parts[i] \in Seq(Nat)
  <2>1. CASE i = 1
    BY <1>2, <1>3, <2>1, Zenon
  <2>2. CASE i # 1
    <3>1. PICK k \in 1 .. n : i = k + 1
      <4>1. i - 1 \in 1 .. n /\ i = (i - 1) + 1
        BY <1>1, <2>2
      <4> QED BY <4>1, Zenon
    <3>2. entries[k] \in Seq(Nat)
      BY SeqElement, Zenon
    <3> QED BY <1>3, <3>1, <3>2, Zenon
  <2> QED BY <2>1, <2>2, Zenon
<1>5. encode_list(entries) = inserted(parts)
  <2>1. Throws \notin Range(parts)
    BY <1>3, <1>4, ThrowsAssumption, Zenon DEF Range
  <2>2. encode_list(entries) = joined(parts)
    BY <1>1, Zenon DEF encode_list, parts, count
  <2> QED BY <2>1, <2>2, Zenon DEF joined
<1>6. Counted(parts, entries, n)
  BY <1>2, <1>3, <1>4, Zenon DEF Counted
<1> QED BY <1>5, <1>6, Zenon

(* The list of the first k users, as decode_users builds it.                 *)
FirstUsers(users, t, k) == [users |-> SubSeq(users, 1, k), rest |-> t[k + 1]]

(* A list encoded and followed by nothing: what follows each of its entries. *)
Followed(data, users, t, n) ==
  /\ data \in Seq(Nat) /\ Len(data) >= 2 /\ read_u16_be(data) = n /\ from(data, 2) = t[1]
  /\ \A k \in 1 .. n : Info(t[k], users[k], t[k + 1])
  /\ \A k \in 1 .. n + 1 : t[k] \in Seq(Nat)

(* encode_users_list makes such a list.                                      *)
LEMMA UsersFollowed ==
  ASSUME NEW users \in Seq(UserInfos), NEW n \in 0 .. kMaxU16Count, Len(users) = n
  PROVE  \E t : Followed(encode_list([k \in DOMAIN users |-> encode_user_info(users[k])]),
                         users, t, n)
<1>1. n \in Nat /\ n + 1 \in Nat \ {0} /\ 1 \in 1 .. n + 1
  BY Sizes DEF kMaxU16Count
<1>2. ASSUME NEW k \in 1 .. n
      PROVE  /\ users[k].id \in Ids /\ users[k].nickname \in Strings
             /\ users[k] = [id |-> users[k].id, nickname |-> users[k].nickname]
  <2>1. users[k] \in UserInfos
    BY SeqElement, Zenon
  <2> QED BY <2>1, Zenon DEF UserInfos
<1>3. PICK entries : entries = [k \in DOMAIN users |-> encode_user_info(users[k])]
  BY Zenon
<1>4. DOMAIN users = 1 .. n
  BY SeqFacts, Zenon
<1>5. ASSUME NEW k \in 1 .. n PROVE encode_user_info(users[k]) \in Seq(Nat)
  BY <1>2, SeqEmpty, InfoRead, Zenon
<1>6. entries \in [1 .. n -> Seq(Nat)]
  BY <1>3, <1>4, <1>5, Zenon
<1>7. entries \in Seq(Seq(Nat)) /\ Len(entries) = n
  BY <1>1, <1>6, SeqOfFunction, Zenon
<1>8. PICK parts : Counted(parts, entries, n) /\ encode_list(entries) = inserted(parts)
  BY <1>7, CountedParts, Zenon
<1>9. PICK N \in Nat \ {0} : N = n + 1
  BY <1>1, Zenon
<1>10. Len(parts) = N /\ \A i \in 1 .. N : parts[i] \in Seq(Nat)
  BY <1>8, <1>9, Zenon DEF Counted
<1>11. PICK data : data = inserted(parts)
  BY Zenon
<1>12. PICK t : Tails(t, data, parts, N)
  BY <1>10, <1>11, FlattenTails, Zenon
<1>13. ASSUME NEW k \in 1 .. n PROVE Info(t[k], users[k], t[k + 1])
  <2>1. k \in 1 .. N - 1 /\ k + 1 \in 1 .. N
    BY <1>9
  <2>2. t[k] = parts[k + 1] \o t[k + 1] /\ t[k + 1] \in Seq(Nat)
    BY <1>12, <2>1, Zenon DEF Tails
  <2>3. parts[k + 1] = encode_user_info(users[k])
    BY <1>3, <1>4, <1>8, Zenon DEF Counted
  <2> QED BY <1>2, <2>2, <2>3, InfoRead, Zenon
<1>14. data = parts[1] \o t[1] /\ t[1] \in Seq(Nat)
  BY <1>1, <1>9, <1>12, Zenon DEF Tails
<1>15. parts[1] \in Seq(Nat) /\ Len(parts[1]) = 2 /\ parts[1][1] * Radix + parts[1][2] = n
  BY <1>1, <1>8, Zenon DEF Counted
<1>16. PICK l \in Nat : l = Len(t[1])
  BY <1>14, SeqFacts, Zenon
<1>17. Joins(data, parts[1], t[1], 2, l)
  BY <1>14, <1>15, <1>16, ConcatFacts, Zenon
<1>18. data \in Seq(Nat) /\ Len(data) = 2 + l
  BY <1>17, Zenon DEF Joins
<1>19. Len(data) >= 2
  BY <1>18
<1>20. read_u16_be(data) = n
  <2>1. 1 \in 1 .. 2 /\ 2 \in 1 .. 2
    OBVIOUS
  <2>2. data[1] = parts[1][1] /\ data[2] = parts[1][2]
    BY <1>17, <2>1, Zenon DEF Joins
  <2> QED BY <1>15, <2>2, Zenon DEF read_u16_be
<1>21. from(data, 2) = t[1]
  BY <1>14, <1>15, FromConcat, Zenon
<1>22. \A k \in 1 .. n + 1 : t[k] \in Seq(Nat)
  BY <1>9, <1>12, Zenon DEF Tails
<1>23. Followed(data, users, t, n)
  BY <1>13, <1>18, <1>19, <1>20, <1>21, <1>22, Zenon DEF Followed
<1> QED BY <1>3, <1>8, <1>11, <1>23, Zenon

(* decode_users takes one user after the other.                              *)
LEMMA UsersRead ==
  ASSUME NEW users \in Seq(UserInfos), NEW n \in Nat, Len(users) = n,
         NEW t, NEW data, Followed(data, users, t, n)
  PROVE  decode_users(data) = FirstUsers(users, t, n)
<1> DEFINE g == [k \in 0 .. n |-> FirstUsers(users, t, k)]
           Lists(f) == f = [k \in 0 .. n |->
                             IF k = 0 THEN [users |-> <<>>, rest |-> from(data, 2)]
                             ELSE next_user(f[k - 1])]
<1>1. read_u16_be(data) = n /\ from(data, 2) = t[1]
  BY Zenon DEF Followed
<1>2. FirstUsers(users, t, 0) = [users |-> <<>>, rest |-> from(data, 2)]
  <2>1. SubSeq(users, 1, 0) = <<>> /\ 0 + 1 = 1
    OBVIOUS
  <2> QED BY <1>1, <2>1, Zenon DEF FirstUsers
<1>3. ASSUME NEW k \in 1 .. n
      PROVE  next_user(FirstUsers(users, t, k - 1)) = FirstUsers(users, t, k)
  <2>1. PICK before : before = FirstUsers(users, t, k - 1)
    BY Zenon
  <2>2. /\ (k - 1) + 1 = k /\ k \in 1 .. n + 1 /\ k \in Nat
        /\ 1 \in 1 .. n /\ k \in 1 .. Len(users)
    OBVIOUS
  <2>3. before.users = SubSeq(users, 1, k - 1) /\ before.rest = t[k]
    BY <2>1, <2>2 DEF FirstUsers
  <2>4. SubSeq(users, 1, k - 1) \in Seq(UserInfos)
    <3>1. \A i \in 1 .. k - 1 : users[i] \in UserInfos
      <4>1. \A i \in 1 .. k - 1 : i \in 1 .. Len(users)
        OBVIOUS
      <4> QED BY <4>1, SeqElement, Zenon
    <3>2. 1 \in Int /\ k - 1 \in Int
      OBVIOUS
    <3> QED BY <3>1, <3>2, SeqPart
  <2>5. users[k] \in UserInfos
    BY <2>2, SeqElement, Zenon
  <2>6. Append(SubSeq(users, 1, k - 1), users[k]) = SubSeq(users, 1, k)
    <3>1. 1 \in 1 .. Len(users) /\ k \in 1 .. Len(users)
      BY <2>2
    <3> QED BY <3>1
  <2>7. before # Throws
    <3>1. t[k] \in Seq(Nat)
      BY <2>2, Zenon DEF Followed
    <3>2. before \in UserLists
      BY <2>1, <2>2, <2>4, <3>1, Zenon DEF FirstUsers, UserLists
    <3> QED BY <3>2, ResultsAssumption, Zenon
  <2>8. Info(t[k], users[k], t[k + 1])
    BY Zenon DEF Followed
  <2>9. PICK info : info = users[k]
    BY Zenon
  <2>10. decode_user_info(t[k]) = info /\ from(t[k], 6 + Len(info.nickname)) = t[k + 1]
    BY <2>8, <2>9, Zenon DEF Info
  <2>11. info # Throws
    BY <2>5, <2>9, ResultsAssumption, Zenon
  <2>12. next_user(before) = [users |-> Append(before.users, info),
                              rest |-> from(before.rest, 6 + Len(info.nickname))]
    BY <2>3, <2>7, <2>10, <2>11, Zenon DEF next_user
  <2> QED BY <2>1, <2>3, <2>6, <2>9, <2>10, <2>12, Zenon DEF FirstUsers
<1>4. Lists(g)
  <2>1. ASSUME NEW k \in 0 .. n
        PROVE  g[k] = IF k = 0 THEN [users |-> <<>>, rest |-> from(data, 2)]
                      ELSE next_user(g[k - 1])
    <3>1. g[k] = FirstUsers(users, t, k)
      BY Zenon
    <3>2. CASE k = 0
      BY <1>2, <3>1, <3>2, Zenon
    <3>3. CASE k # 0
      <4>1. k \in 1 .. n /\ k - 1 \in 0 .. n
        BY <3>3
      <4>2. g[k - 1] = FirstUsers(users, t, k - 1)
        BY <4>1, Zenon
      <4>3. next_user(FirstUsers(users, t, k - 1)) = FirstUsers(users, t, k)
        BY <1>3, <4>1, Zenon
      <4> HIDE DEF g
      <4> QED BY <3>1, <3>3, <4>2, <4>3, Zenon
    <3> QED BY <3>2, <3>3, Zenon
  <2>2. g = [k \in 0 .. n |-> g[k]]
    BY Zenon
  <2> HIDE DEF g
  <2> QED BY <2>1, <2>2, Zenon
<1>5. \E f : Lists(f) /\ decode_users(data) = f[n]
  <2>1. \E f : f = [k \in 0 .. n |-> IF k = 0 THEN [users |-> <<>>, rest |-> from(data, 2)]
                                     ELSE next_user(f[k - 1])]
    BY <1>4, Zenon
  <2> QED BY <1>1, <2>1, Zenon DEF decode_users
<1>6. PICK f : Lists(f) /\ decode_users(data) = f[n]
  BY <1>5, Zenon
<1>7. ASSUME NEW k \in 0 .. n PROVE f[k] = FirstUsers(users, t, k)
  <2> DEFINE bad == {i \in 0 .. n : f[i] # FirstUsers(users, t, i)}
  <2> SUFFICES ASSUME bad # {} PROVE FALSE
    BY Zenon
  <2>1. PICK m \in bad : \A i \in bad : m <= i
    <3>1. bad \subseteq Nat
      OBVIOUS
    <3> HIDE DEF bad
    <3> QED BY <3>1, Least, Zenon
  <2>2. m \in 0 .. n /\ f[m] # FirstUsers(users, t, m)
    BY Zenon
  <2>3. f[m] = IF m = 0 THEN [users |-> <<>>, rest |-> from(data, 2)] ELSE next_user(f[m - 1])
    BY <1>6, <2>2, Zenon
  <2>4. m # 0
    BY <1>2, <2>2, <2>3, Zenon
  <2>5. m - 1 \in 0 .. n /\ ~(m <= m - 1) /\ m \in 1 .. n
    BY <2>2, <2>4
  <2>6. f[m - 1] = FirstUsers(users, t, m - 1)
    BY <2>1, <2>5, Zenon
  <2> QED BY <1>3, <2>2, <2>3, <2>4, <2>5, <2>6, Zenon
<1>8. n \in 0 .. n
  OBVIOUS
<1> QED BY <1>6, <1>7, <1>8, Zenon

(* The payload of a list of ids.                                             *)
IdList(data, ids, n) ==
  /\ data \in Seq(Nat) /\ Len(data) = 2 + 4 * n /\ read_u16_be(data) = n
  /\ [k \in 1 .. n |-> read_u32_be(SubSeq(data, 4 * k - 1, 4 * k + 2))] = ids

(* encode_banned_ids: the ids are read back one by one.                      *)
LEMMA BannedRead ==
  ASSUME NEW ids \in Seq(Ids), NEW n \in 0 .. kMaxU16Count, Len(ids) = n
  PROVE  IdList(encode_list([k \in DOMAIN ids |-> write_u32_be(ids[k])]), ids, n)
<1>1. n \in Nat /\ 4 \in Nat
  BY Sizes DEF kMaxU16Count
<1>2. DOMAIN ids = 1 .. n /\ ids \in [1 .. n -> Ids]
  BY SeqFacts, Zenon
<1>3. PICK entries : entries = [k \in DOMAIN ids |-> write_u32_be(ids[k])]
  BY Zenon
<1>4. ASSUME NEW k \in 1 .. n
      PROVE  /\ ids[k] \in Ids /\ entries[k] = write_u32_be(ids[k])
             /\ entries[k] \in Seq(Nat) /\ Len(entries[k]) = 4
  <2>1. ids[k] \in Ids /\ entries[k] = write_u32_be(ids[k])
    BY <1>2, <1>3, Zenon
  <2> QED BY <2>1, SeqEmpty, NumberRead, Zenon
<1>5. entries \in [1 .. n -> Seq(Nat)]
  BY <1>2, <1>3, <1>4, Zenon
<1>6. entries \in Seq(Seq(Nat)) /\ Len(entries) = n
  BY <1>1, <1>5, SeqOfFunction, Zenon
<1>7. Listed(encode_list(entries), entries, 4, n)
  BY <1>1, <1>4, <1>6, ListFacts, Zenon
<1> DEFINE data == encode_list(entries)
<1> HIDE DEF data
<1>8. Listed(data, entries, 4, n)
  BY <1>7, Zenon DEF data
<1>9. data \in Seq(Nat) /\ Len(data) = 2 + 4 * n /\ read_u16_be(data) = n
  BY <1>8, Zenon DEF Listed, read_u16_be
<1>10. ASSUME NEW k \in 1 .. n
       PROVE  read_u32_be(SubSeq(data, 4 * k - 1, 4 * k + 2)) = ids[k]
  <2>1. PICK a \in Nat \ {0}, b \in Nat : a = 4 * k - 1 /\ b = 4 * k + 2
    <3>1. 4 * k - 1 \in Nat \ {0} /\ 4 * k + 2 \in Nat
      OBVIOUS
    <3> QED BY <3>1, Zenon
  <2>2. b <= Len(data) /\ a <= b + 1 /\ b + 1 - a = 4
    BY <1>1, <1>9, <2>1
  <2>3. PICK part : part = SubSeq(data, a, b)
    BY Zenon
  <2>4. /\ part \in Seq(Nat) /\ Len(part) = b + 1 - a
        /\ \A i \in 1 .. b + 1 - a : part[i] = data[a + i - 1]
    BY <1>9, <2>2, <2>3, PartFacts, ZenonT(40)
  <2>5. \A i \in 1 .. 4 : a + i - 1 = 2 + 4 * (k - 1) + i
    BY <2>1
  <2>6. ASSUME NEW i \in 1 .. 4 PROVE part[i] = write_u32_be(ids[k])[i]
    <3>1. part[i] = data[2 + 4 * (k - 1) + i]
      BY <2>2, <2>4, <2>5, Zenon
    <3>2. data[2 + 4 * (k - 1) + i] = entries[k][i]
      BY <1>8, Zenon DEF Listed
    <3> QED BY <1>4, <3>1, <3>2, Zenon
  <2>7. Len(part) >= 4
    BY <2>2, <2>4
  <2>8. ids[k] \in 0 .. U32 - 1
    BY <1>4, Zenon DEF Ids
  <2>9. read_u32_be(part) = ids[k]
    BY <2>4, <2>6, <2>7, <2>8, ReadWritten, Zenon
  <2> QED BY <2>1, <2>3, <2>9, Zenon
<1>11. [k \in 1 .. n |-> read_u32_be(SubSeq(data, 4 * k - 1, 4 * k + 2))] = ids
  BY <1>2, <1>10, Zenon
<1> QED BY <1>3, <1>9, <1>11, Zenon DEF IdList, data

(* A payload that is read back as the message it was made of.                *)
Carried(m) ==
  /\ encode_payload(m) \in Seq(Nat)
  /\ decode_payload(m.type, encode_payload(m)) = m

(* A string alone.                                                           *)
LEMMA TextAlone ==
  ASSUME NEW value \in Strings
  PROVE  /\ encode_string(value) \in Seq(Nat)
         /\ decode_string(encode_string(value)) = value /\ value # Throws
<1>1. encode_string(value) \in Seq(Nat) /\ Text(encode_string(value) \o <<>>, value, <<>>)
  BY Nothing, TextRead, Zenon
<1>2. encode_string(value) \o <<>> = encode_string(value)
  BY <1>1, Nothing, Zenon
<1>3. decode_string(encode_string(value)) = value
  BY <1>1, <1>2, Zenon DEF Text
<1>4. value # Throws
  BY ThrowsAssumption, Zenon DEF Strings
<1> QED BY <1>1, <1>3, <1>4, Zenon

(* Register.                                                                 *)
LEMMA RegisterCarried ==
  ASSUME NEW m \in [type : {"Register"}, nickname : Strings]
  PROVE  Carried(m)
<1>1. m.type = "Register" /\ m.nickname \in Strings
  OBVIOUS
<1>2. m = [type |-> "Register", nickname |-> m.nickname]
  OBVIOUS
<1>3. PICK data : data = encode_string(m.nickname)
  BY Zenon
<1>4. data \in Seq(Nat) /\ decode_string(data) = m.nickname /\ m.nickname # Throws
  BY <1>1, <1>3, TextAlone, Zenon
<1>5. encode_payload(m) = data
  BY <1>1, <1>3, Zenon DEF encode_payload, ChatTypes, DeliverTypes
<1>6. decode_payload("Register", data) = m
  BY <1>2, <1>4, Zenon DEF decode_payload, with, ChatTypes, DeliverTypes
<1> QED BY <1>1, <1>4, <1>5, <1>6, Zenon DEF Carried

(* Error.                                                                    *)
LEMMA ErrorCarried ==
  ASSUME NEW m \in [type : {"Error"}, text : Strings]
  PROVE  Carried(m)
<1>1. m.type = "Error" /\ m.text \in Strings
  OBVIOUS
<1>2. m = [type |-> "Error", text |-> m.text]
  OBVIOUS
<1>3. PICK data : data = encode_string(m.text)
  BY Zenon
<1>4. data \in Seq(Nat) /\ decode_string(data) = m.text /\ m.text # Throws
  BY <1>1, <1>3, TextAlone, Zenon
<1>5. encode_payload(m) = data
  BY <1>1, <1>3, Zenon DEF encode_payload, ChatTypes, DeliverTypes
<1>6. decode_payload("Error", data) = m
  BY <1>2, <1>4, Zenon DEF decode_payload, with, ChatTypes, DeliverTypes
<1> QED BY <1>1, <1>4, <1>5, <1>6, Zenon DEF Carried

(* ListUsers, which has no payload.                                          *)
LEMMA RequestCarried ==
  ASSUME NEW m \in [type : {"ListUsers"}]
  PROVE  Carried(m)
<1>1. m.type = "ListUsers" /\ m = [type |-> "ListUsers"]
  OBVIOUS
<1>2. encode_payload(m) = <<>>
  BY <1>1, Zenon DEF encode_payload, ChatTypes, DeliverTypes
<1>3. decode_payload("ListUsers", <<>>) = m
  BY <1>1, Zenon DEF decode_payload, ChatTypes, DeliverTypes
<1> QED BY <1>1, <1>2, <1>3, Nothing, Zenon DEF Carried

(* AssignId, with the flag that asks for a room key.                         *)
LEMMA AssignCarried ==
  ASSUME NEW m \in [type : {"AssignId"}, id : Ids, create_room : BOOLEAN]
  PROVE  Carried(m)
<1>1. m.type = "AssignId" /\ m.id \in Ids /\ m.create_room \in BOOLEAN
  OBVIOUS
<1>2. m = [type |-> "AssignId", id |-> m.id, create_room |-> m.create_room]
  OBVIOUS
<1>3. PICK flag : flag = IF m.create_room THEN 1 ELSE 0
  BY Zenon
<1>4. <<flag>> \in Seq(Nat) /\ Len(<<flag>>) = 1 /\ <<flag>>[1] = flag
  BY <1>3
<1>5. PICK one \in Seq(Nat) : one = <<flag>>
  BY <1>4, Zenon
<1>6. PICK field : field = write_u32_be(m.id)
  BY Zenon
<1>7. field \in Seq(Nat) /\ Len(field) = 4 /\ Number(field \o one, m.id, one)
  BY <1>1, <1>6, NumberRead, Zenon
<1>8. PICK data : data = field \o one
  BY Zenon
<1>9. Joins(data, field, one, 4, 1)
  BY <1>4, <1>5, <1>7, <1>8, ConcatFacts, Zenon
<1>10. data \in Seq(Nat) /\ Len(data) = 4 + 1 /\ data[4 + 1] = flag
  <2>1. 1 \in 1 .. 1
    OBVIOUS
  <2> QED BY <1>4, <1>5, <1>9, <2>1, Zenon DEF Joins
<1>11. ~(Len(data) < 4) /\ Len(data) > 4 /\ data[5] = flag
  BY <1>10
<1>12. read_u32_be(data) = m.id
  BY <1>7, <1>8, Zenon DEF Number
<1>13. (flag # 0) = m.create_room
  BY <1>1, <1>3
<1>14. encode_payload(m) = data
  BY <1>1, <1>3, <1>5, <1>6, <1>8, Zenon DEF encode_payload, ChatTypes, DeliverTypes
<1>15. (Len(data) > 4 /\ data[5] # 0) = m.create_room
  BY <1>1, <1>11, <1>13, Zenon
<1>16. decode_payload("AssignId", data)
         = [type |-> "AssignId", id |-> m.id, create_room |-> Len(data) > 4 /\ data[5] # 0]
  BY <1>11, <1>12, Zenon DEF decode_payload, ChatTypes, DeliverTypes
<1>17. decode_payload("AssignId", data) = m
  BY <1>2, <1>15, <1>16, Zenon
<1> QED BY <1>1, <1>10, <1>14, <1>17, Zenon DEF Carried

(* Deliver, PeerKey and RoomKey.                                             *)
LEMMA DeliverCarried ==
  ASSUME NEW m \in [type : DeliverTypes, from_id : Ids, text : Strings]
  PROVE  Carried(m)
<1>1. m.type \in DeliverTypes /\ m.from_id \in Ids /\ m.text \in Strings
  OBVIOUS
<1>2. m = [type |-> m.type, from_id |-> m.from_id, text |-> m.text]
  OBVIOUS
<1>3. PICK field, string : field = write_u32_be(m.from_id) /\ string = encode_string(m.text)
  BY Zenon
<1>4. string \in Seq(Nat) /\ decode_string(string) = m.text /\ m.text # Throws
  BY <1>1, <1>3, TextAlone, Zenon
<1>5. field \in Seq(Nat) /\ Number(field \o string, m.from_id, string)
  BY <1>1, <1>3, <1>4, NumberRead, Zenon
<1>6. PICK data : data = field \o string
  BY Zenon
<1>7. /\ data \in Seq(Nat) /\ Len(data) = 4 + Len(string)
      /\ read_u32_be(data) = m.from_id /\ from(data, 4) = string
  BY <1>5, <1>6, Zenon DEF Number
<1>8. ~(Len(data) < 4)
  <2>1. Len(string) \in Nat
    BY <1>4, SeqFacts, Zenon
  <2> QED BY <1>7, <2>1
<1>9. joined(<<field, string>>) = data
  BY <1>4, <1>5, <1>6, JoinedTwo, Zenon
<1>10. encode_payload(m) = data
  BY <1>1, <1>3, <1>9, Zenon DEF encode_payload, ChatTypes, DeliverTypes
<1>11. decode_payload(m.type, data) = m
  BY <1>1, <1>2, <1>4, <1>7, <1>8, Zenon DEF decode_payload, with, ChatTypes, DeliverTypes
<1> QED BY <1>7, <1>10, <1>11, Zenon DEF Carried

(* UserJoined and UserLeft.                                                  *)
LEMMA PresenceCarried ==
  ASSUME NEW m \in [type : {"UserJoined", "UserLeft"}, id : Ids, nickname : Strings]
  PROVE  Carried(m)
<1>1. m.type \in {"UserJoined", "UserLeft"} /\ m.id \in Ids /\ m.nickname \in Strings
  OBVIOUS
<1>2. m = [type |-> m.type, id |-> m.id, nickname |-> m.nickname]
  OBVIOUS
<1>3. PICK data : data = encode_user_info(m)
  BY Zenon
<1>4. PICK info : info = [id |-> m.id, nickname |-> m.nickname]
  BY Zenon
<1>5. data \in Seq(Nat) /\ Info(data \o <<>>, info, <<>>)
  BY <1>1, <1>3, <1>4, Nothing, InfoRead, Zenon
<1>6. data \o <<>> = data
  BY <1>5, Nothing, Zenon
<1>7. decode_user_info(data) = info
  BY <1>5, <1>6, Zenon DEF Info
<1>8. info.id = m.id /\ info.nickname = m.nickname /\ info \in UserInfos
  BY <1>1, <1>4 DEF UserInfos
<1>9. info # Throws
  BY <1>8, ResultsAssumption, Zenon
<1>10. encode_payload(m) = data
  BY <1>1, <1>3, Zenon DEF encode_payload, ChatTypes, DeliverTypes
<1>11. decode_payload(m.type, data) = m
  BY <1>1, <1>2, <1>7, <1>8, <1>9, Zenon DEF decode_payload, with, ChatTypes, DeliverTypes
<1> QED BY <1>5, <1>10, <1>11, Zenon DEF Carried

(* UsersList and BannedIds.                                                  *)
LEMMA ListCarried ==
  ASSUME NEW m \in ListMessages
  PROVE  Carried(m)
<1>1. CASE m.type = "UsersList"
  <2>1. m.users \in Seq(UserInfos) /\ Len(m.users) <= kMaxU16Count
    BY <1>1 DEF ListMessages
  <2>2. m = [type |-> "UsersList", users |-> m.users]
    BY <1>1 DEF ListMessages
  <2>3. PICK users : users = m.users
    BY Zenon
  <2>4. users \in Seq(UserInfos)
    BY <2>1, <2>3, Zenon
  <2>5. PICK n : n = Len(users)
    BY Zenon
  <2>6. n \in Nat /\ n \in 0 .. kMaxU16Count
    <3>1. n \in Nat
      BY <2>4, <2>5, SeqFacts, Zenon
    <3> QED BY <2>1, <2>3, <2>5, <3>1, Sizes DEF kMaxU16Count
  <2>7. PICK data : data = encode_list([k \in DOMAIN users |-> encode_user_info(users[k])])
    BY Zenon
  <2>8. PICK t : Followed(data, users, t, n)
    BY <2>4, <2>5, <2>6, <2>7, UsersFollowed, Zenon
  <2>9. decode_users(data) = FirstUsers(users, t, n)
    BY <2>4, <2>5, <2>6, <2>8, UsersRead, Zenon
  <2>10. SubSeq(users, 1, n) = users
    BY <2>4, <2>5
  <2>11. PICK list : list = FirstUsers(users, t, n)
    BY Zenon
  <2>12. list = [users |-> users, rest |-> t[n + 1]]
    BY <2>10, <2>11, Zenon DEF FirstUsers
  <2>13. list.users = users
    BY <2>12
  <2>14. list # Throws
    <3>1. n + 1 \in 1 .. n + 1
      BY <2>6
    <3>2. t[n + 1] \in Seq(Nat)
      BY <2>8, <3>1, Zenon DEF Followed
    <3>3. list \in UserLists
      BY <2>4, <2>12, <3>2, Zenon DEF UserLists
    <3> QED BY <3>3, ResultsAssumption, Zenon
  <2>15. data \in Seq(Nat) /\ Len(data) >= 2
    BY <2>8, Zenon DEF Followed
  <2>16. ~(Len(data) < 2)
    BY <2>15, SeqFacts
  <2>17. encode_payload(m) = data
    BY <1>1, <2>3, <2>7, Zenon DEF encode_payload, ChatTypes, DeliverTypes
  <2>18. decode_payload("UsersList", data) = m
    BY <2>2, <2>3, <2>9, <2>11, <2>13, <2>14, <2>16, Zenon
       DEF decode_payload, with, ChatTypes, DeliverTypes
  <2> QED BY <1>1, <2>15, <2>17, <2>18, Zenon DEF Carried
<1>2. CASE m.type = "BannedIds"
  <2>1. m.ids \in Seq(Ids) /\ Len(m.ids) <= kMaxU16Count
    BY <1>2 DEF ListMessages
  <2>2. m = [type |-> "BannedIds", ids |-> m.ids]
    BY <1>2 DEF ListMessages
  <2>3. PICK ids : ids = m.ids
    BY Zenon
  <2>4. ids \in Seq(Ids)
    BY <2>1, <2>3, Zenon
  <2>5. PICK n : n = Len(ids)
    BY Zenon
  <2>6. n \in Nat /\ n \in 0 .. kMaxU16Count
    <3>1. n \in Nat
      BY <2>4, <2>5, SeqFacts, Zenon
    <3> QED BY <2>1, <2>3, <2>5, <3>1, Sizes DEF kMaxU16Count
  <2>7. PICK data : data = encode_list([k \in DOMAIN ids |-> write_u32_be(ids[k])])
    BY Zenon
  <2>8. IdList(data, ids, n)
    BY <2>4, <2>5, <2>6, <2>7, BannedRead, Zenon
  <2>9. ~(2 + 4 * n < 2) /\ ~(2 + 4 * n < 2 + 4 * n)
    BY <2>6
  <2>10. encode_payload(m) = data
    BY <1>2, <2>3, <2>7, Zenon DEF encode_payload, ChatTypes, DeliverTypes
  <2>11. decode_payload("BannedIds", data) = m
    BY <2>2, <2>3, <2>8, <2>9, Zenon DEF IdList, decode_payload, ChatTypes, DeliverTypes
  <2> QED BY <1>2, <2>8, <2>10, <2>11, Zenon DEF Carried, IdList
<1>3. m.type = "UsersList" \/ m.type = "BannedIds"
  BY DEF ListMessages
<1> QED BY <1>1, <1>2, <1>3, Zenon

(* The payload of a chat message, seen from each of its parts.               *)
ChatBytes(data, id, tag, recipient, string) ==
  /\ data \in Seq(Nat) /\ Len(data) = 5 + Len(recipient) + Len(string)
  /\ read_u32_be(data) = id /\ data[5] = tag
  /\ from(data, 5) = recipient \o string
  /\ from(data, 5 + Len(recipient)) = string
  /\ \A i \in 1 .. Len(recipient) : data[5 + i] = recipient[i]

(* encode_chat puts them together.                                           *)
LEMMA ChatLaid ==
  ASSUME NEW id \in Ids, NEW tag \in Nat, NEW recipient \in Seq(Nat), NEW string \in Seq(Nat)
  PROVE  ChatBytes(joined(<<write_u32_be(id), <<tag>>, recipient, string>>),
                   id, tag, recipient, string)
<1>1. PICK field : field = write_u32_be(id)
  BY Zenon
<1>2. field \in Seq(Nat) /\ Len(field) = 4
  BY <1>1, SeqEmpty, NumberRead, Zenon
<1>3. <<tag>> \in Seq(Nat) /\ Len(<<tag>>) = 1 /\ <<tag>>[1] = tag
  OBVIOUS
<1>4. PICK one \in Seq(Nat) : one = <<tag>>
  BY <1>3, Zenon
<1>5. PICK r \in Nat, s \in Nat : r = Len(recipient) /\ s = Len(string)
  BY SeqFacts, Zenon
<1>6. PICK head, rest, most : head = field \o one /\ rest = recipient \o string
                              /\ most = head \o recipient
  BY Zenon
<1>7. PICK data : data = most \o string
  BY Zenon
<1>8. joined(<<write_u32_be(id), <<tag>>, recipient, string>>) = data
  <2>1. FourParts(field, one, recipient, string)
    BY <1>2, JoinedFour, Zenon
  <2> QED BY <1>1, <1>4, <1>6, <1>7, <2>1, Zenon DEF FourParts
<1>9. Joins(head, field, one, 4, 1)
  BY <1>2, <1>3, <1>4, <1>6, ConcatFacts, Zenon
<1>10. head \in Seq(Nat) /\ Len(head) = 5 /\ head[5] = tag
  <2>1. 1 \in 1 .. 1 /\ 4 + 1 = 5
    OBVIOUS
  <2>2. head \in Seq(Nat) /\ Len(head) = 4 + 1 /\ head[4 + 1] = one[1]
    BY <1>9, <2>1, Zenon DEF Joins
  <2> QED BY <1>3, <1>4, <2>1, <2>2, Zenon
<1>11. Joins(rest, recipient, string, r, s) /\ Joins(most, head, recipient, 5, r)
  BY <1>5, <1>6, <1>10, ConcatFacts, Zenon
<1>12. rest \in Seq(Nat) /\ Len(rest) = r + s /\ most \in Seq(Nat) /\ Len(most) = 5 + r
  BY <1>11, Zenon DEF Joins
<1>13. data = head \o rest
  <2>1. Grouped(head, recipient, string)
    BY <1>10, Regroup, Zenon
  <2> QED BY <1>6, <1>7, <2>1, Zenon DEF Grouped
<1>14. Joins(data, head, rest, 5, r + s)
  BY <1>10, <1>12, <1>13, ConcatFacts, Zenon
<1>15. data \in Seq(Nat) /\ Len(data) = 5 + (r + s) /\ data[5] = tag
  <2>1. 5 \in 1 .. 5
    OBVIOUS
  <2> QED BY <1>10, <1>14, <2>1, Zenon DEF Joins
<1>16. from(data, 5) = rest
  BY <1>10, <1>12, <1>13, FromConcat, Zenon
<1>17. from(data, 5 + r) = string
  BY <1>7, <1>12, FromConcat, Zenon
<1>18. \A i \in 1 .. r : data[5 + i] = recipient[i]
  <2>1. \A i \in 1 .. r : i \in 1 .. r + s
    OBVIOUS
  <2>2. \A i \in 1 .. r : data[5 + i] = rest[i]
    BY <1>14, <2>1, Zenon DEF Joins
  <2>3. \A i \in 1 .. r : rest[i] = recipient[i]
    BY <1>11, Zenon DEF Joins
  <2> QED BY <2>2, <2>3, Zenon
<1>19. read_u32_be(data) = id
  <2>1. one \o rest \in Seq(Nat)
    BY <1>12, SeqConcat, Zenon
  <2>2. data = field \o (one \o rest)
    <3>1. Grouped(field, one, rest)
      BY <1>2, <1>12, Regroup, Zenon
    <3> QED BY <1>6, <1>13, <3>1, Zenon DEF Grouped
  <2>3. Number(field \o (one \o rest), id, one \o rest)
    BY <1>1, <2>1, NumberRead, Zenon
  <2> QED BY <2>2, <2>3, Zenon DEF Number
<1>20. Len(data) = 5 + r + s
  BY <1>15
<1>21. ChatBytes(data, id, tag, recipient, string)
  BY <1>5, <1>6, <1>15, <1>16, <1>17, <1>18, <1>19, <1>20, Zenon DEF ChatBytes
<1> QED BY <1>8, <1>21, Zenon

(* Chat, KeyOffer and RoomKeyOffer, to an id, a nickname or all.             *)
LEMMA ChatCarried ==
  ASSUME NEW m \in ChatMessages
  PROVE  Carried(m)
<1>1. /\ m.type \in ChatTypes /\ m.from_id \in Ids /\ m.recipient_tag \in Nat
      /\ m.recipient_data \in Seq(Nat) /\ m.text \in Strings /\ addressed(m)
  BY DEF ChatMessages
<1>2. m = [type |-> m.type, from_id |-> m.from_id, recipient_tag |-> m.recipient_tag,
           recipient_data |-> m.recipient_data, text |-> m.text]
  BY DEF ChatMessages
<1>3. PICK id, tag, recipient, string :
        /\ id = m.from_id /\ tag = m.recipient_tag /\ recipient = m.recipient_data
        /\ string = encode_string(m.text)
  BY Zenon
<1>4. string \in Seq(Nat) /\ decode_string(string) = m.text /\ m.text # Throws
  BY <1>1, <1>3, TextAlone, Zenon
<1>5. PICK data : data = joined(<<write_u32_be(id), <<tag>>, recipient, string>>)
  BY Zenon
<1>6. id \in Ids /\ tag \in Nat /\ recipient \in Seq(Nat)
  BY <1>1, <1>3, Zenon
<1>7. ChatBytes(data, id, tag, recipient, string)
  BY <1>4, <1>5, <1>6, ChatLaid, Zenon
<1>8. encode_payload(m) = data
  BY <1>1, <1>3, <1>5, Zenon DEF encode_payload, ChatTypes, DeliverTypes
<1>9. PICK r \in Nat, s \in Nat : r = Len(recipient) /\ s = Len(string)
  BY <1>4, <1>6, SeqFacts, Zenon
<1>10. data \in Seq(Nat) /\ Len(data) = 5 + r + s /\ ~(5 + r + s < 5)
  <2>1. ~(5 + r + s < 5)
    OBVIOUS
  <2> QED BY <1>7, <1>9, <2>1, Zenon DEF ChatBytes
<1>11. recipient # Throws
  BY <1>6, ThrowsAssumption, Zenon
<1>12. /\ read_u32_be(data) = id /\ data[5] = tag /\ from(data, 5) = recipient \o string
       /\ decode_string(from(data, 5 + Len(recipient))) = m.text
  BY <1>4, <1>7, Zenon DEF ChatBytes
<1>13. 1 # 2 /\ 1 # 3 /\ 2 # 3
  OBVIOUS
<1>14. ASSUME tag = kRecipientById, r = 4 PROVE decode_chat_payload(m.type, data) = m
  <2>1. SubSeq(data, 6, 9) = recipient
    <3>0. PICK part : part = SubSeq(data, 6, 9)
      BY Zenon
    <3>1. 6 \in Nat \ {0} /\ 9 \in Nat /\ 9 <= Len(data) /\ 6 <= 9 + 1 /\ 9 + 1 - 6 = 4
      BY <1>10, <1>14
    <3>2. /\ part \in Seq(Nat) /\ Len(part) = 9 + 1 - 6
          /\ \A i \in 1 .. 9 + 1 - 6 : part[i] = data[6 + i - 1]
      BY <1>10, <3>0, <3>1, PartFacts, ZenonT(40)
    <3>3. \A i \in 1 .. 4 : 6 + i - 1 = 5 + i
      OBVIOUS
    <3>4. \A i \in 1 .. 4 : data[5 + i] = recipient[i]
      BY <1>7, <1>9, <1>14, Zenon DEF ChatBytes
    <3>5. Len(part) = 4 /\ \A i \in 1 .. 4 : part[i] = recipient[i]
      BY <3>1, <3>2, <3>3, <3>4, Zenon
    <3>6. Len(recipient) = 4
      BY <1>9, <1>14, Zenon
    <3>7. part = recipient
      BY <1>6, <3>2, <3>5, <3>6, SeqSame, Zenon
    <3> QED BY <3>0, <3>7, Zenon
  <2>2. ~(5 + r + s < 9)
    BY <1>14
  <2>3. decode_chat_payload(m.type, data) = m
    BY <1>2, <1>3, <1>4, <1>10, <1>11, <1>12, <1>13, <1>14, <2>1, <2>2, Zenon
       DEF decode_chat_payload, with, kRecipientById, kRecipientByNickname, kRecipientBroadcast
  <2> QED BY <2>3, Zenon
<1>15. ASSUME tag = kRecipientByNickname, decode_string(recipient) \in Strings,
              recipient = encode_string(decode_string(recipient))
       PROVE  decode_chat_payload(m.type, data) = m
  <2>1. PICK nick \in Strings : nick = decode_string(recipient)
    BY <1>15, Zenon
  <2>2. decode_string(from(data, 5)) = nick /\ nick # Throws /\ encode_string(nick) = recipient
    <3>1. nick \in Seq(Nat) /\ Len(nick) <= kMaxU16Count /\ nick # Throws
      BY ThrowsAssumption, Zenon DEF Strings
    <3>2. decode_string(encode_string(nick) \o string) = nick
      BY <1>4, <3>1, StringRoundTrip, Zenon
    <3> QED BY <1>12, <1>15, <2>1, <3>1, <3>2, Zenon
  <2>3. decode_chat_payload(m.type, data) = m
    BY <1>2, <1>3, <1>4, <1>10, <1>11, <1>12, <1>13, <1>15, <2>2, Zenon
       DEF decode_chat_payload, with, kRecipientById, kRecipientByNickname, kRecipientBroadcast
  <2> QED BY <2>3, Zenon
<1>16. ASSUME tag = kRecipientBroadcast, recipient = <<>>
       PROVE  decode_chat_payload(m.type, data) = m
  <2>1. decode_chat_payload(m.type, data) = m
    BY <1>2, <1>3, <1>4, <1>10, <1>11, <1>12, <1>13, <1>16, Zenon
       DEF decode_chat_payload, with, kRecipientById, kRecipientByNickname, kRecipientBroadcast
  <2> QED BY <2>1, Zenon
<1>17. decode_chat_payload(m.type, data) = m
  BY <1>1, <1>3, <1>9, <1>14, <1>15, <1>16, Zenon DEF addressed
<1>18. decode_payload(m.type, data) = decode_chat_payload(m.type, data)
  BY <1>1, Zenon DEF decode_payload, ChatTypes, DeliverTypes
<1> QED BY <1>8, <1>10, <1>17, <1>18, Zenon DEF Carried

(* Every payload is decoded to the message it was encoded from.              *)
LEMMA PayloadRoundTrip ==
  ASSUME NEW m \in AppMessages
  PROVE  Carried(m)
<1>1. CASE m \in PlainMessages
  BY <1>1, RegisterCarried, AssignCarried, DeliverCarried, ErrorCarried, PresenceCarried,
     RequestCarried, Zenon DEF PlainMessages
<1> QED BY <1>1, ChatCarried, ListCarried, Zenon DEF AppMessages

(* The code of a type stands for this type alone.                            *)
LEMMA TypeCodes ==
  ASSUME NEW type \in DOMAIN MsgType
  PROVE  /\ MsgType[type] \in Nat /\ MsgType[type] \in Range(MsgType)
         /\ (CHOOSE t \in DOMAIN MsgType : MsgType[t] = MsgType[type]) = type
<1>1. MsgType[type] \in Nat
  BY DEF MsgType
<1>2. \A t \in DOMAIN MsgType : MsgType[t] = MsgType[type] => t = type
  BY DEF MsgType
<1>3. MsgType[type] \in Range(MsgType)
  BY Zenon DEF Range
<1>4. (CHOOSE t \in DOMAIN MsgType : MsgType[t] = MsgType[type]) = type
  BY <1>2, Zenon
<1> QED BY <1>1, <1>3, <1>4, Zenon

(* Every message has a type.                                                 *)
LEMMA MessageTypes ==
  ASSUME NEW m \in AppMessages
  PROVE  m.type \in DOMAIN MsgType
<1>1. DOMAIN MsgType = {"Register", "AssignId", "Chat", "Deliver", "Error", "UserJoined",
                        "UserLeft", "ListUsers", "UsersList", "KeyOffer", "RoomKeyOffer",
                        "BannedIds", "PeerKey", "RoomKey"}
  BY DEF MsgType
<1>2. CASE m \in PlainMessages
  BY <1>1, <1>2 DEF PlainMessages, DeliverTypes
<1>3. CASE m \in ChatMessages
  BY <1>1, <1>3 DEF ChatMessages, ChatTypes
<1>4. CASE m \in ListMessages
  BY <1>1, <1>4 DEF ListMessages
<1> QED BY <1>2, <1>3, <1>4, Zenon DEF AppMessages

(* A frame: its bytes, what is behind its header, and what this is read as.  *)
Frame(f, m) ==
  /\ f \in Seq(Nat) /\ Len(f) >= 9
  /\ decode_app_message(from(f, kMbapHeaderSize)) = m

(* The header says how long the frame is.                                    *)
Sized(f) ==
  /\ Len(f) = kMbapHeaderSize + read_u16_be(from(f, 4))
  /\ Len(f) < kMbapHeaderSize + U16

(* What write_frame sends of a message is read back as this message; if the  *)
(* message fits, its header says where the frame ends.                       *)
THEOREM MessageRoundTrip ==
  ASSUME NEW m \in AppMessages
  PROVE  Frame(encode(m), m) /\ (fits(m) => Sized(encode(m)))
<1>1. PICK type, payload : type = m.type /\ payload = encode_payload(m)
  BY Zenon
<1>2. payload \in Seq(Nat) /\ decode_payload(type, payload) = m
  BY <1>1, PayloadRoundTrip, Zenon DEF Carried
<1>3. type \in DOMAIN MsgType
  BY <1>1, MessageTypes, Zenon
<1>4. PICK n \in Nat : n = Len(payload)
  BY <1>2, SeqFacts, Zenon
<1>5. PICK code \in Nat : code = MsgType[type]
  BY <1>3, TypeCodes, Zenon
<1>6. PICK codes \in Seq(Nat) : /\ codes = <<kAppFunctionCode, code>> /\ Len(codes) = 2
                                /\ codes[1] = kAppFunctionCode /\ codes[2] = code
  <2>1. <<kAppFunctionCode, code>> \in Seq(Nat) /\ Len(<<kAppFunctionCode, code>>) = 2
    BY DEF kAppFunctionCode
  <2>2. /\ <<kAppFunctionCode, code>>[1] = kAppFunctionCode
        /\ <<kAppFunctionCode, code>>[2] = code
    OBVIOUS
  <2> QED BY <2>1, <2>2, Zenon
<1>7. PICK pdu : pdu = codes \o payload
  BY Zenon
<1>8. Joins(pdu, codes, payload, 2, n)
  BY <1>2, <1>4, <1>6, <1>7, ConcatFacts, Zenon
<1>9. /\ pdu \in Seq(Nat) /\ Len(pdu) = 2 + n
      /\ pdu[1] = kAppFunctionCode /\ pdu[2] = code /\ from(pdu, 2) = payload
  <2>1. 1 \in 1 .. 2 /\ 2 \in 1 .. 2
    OBVIOUS
  <2>2. pdu \in Seq(Nat) /\ Len(pdu) = 2 + n /\ pdu[1] = codes[1] /\ pdu[2] = codes[2]
    BY <1>8, <2>1, Zenon DEF Joins
  <2>3. from(pdu, 2) = payload
    BY <1>2, <1>6, <1>7, FromConcat, Zenon
  <2> QED BY <1>6, <2>2, <2>3, Zenon
<1>10. PICK unit \in Seq(Nat) : unit = <<0>> /\ Len(unit) = 1
  <2>1. <<0>> \in Seq(Nat) /\ Len(<<0>>) = 1
    OBVIOUS
  <2> QED BY <2>1, Zenon
<1>11. PICK rest : rest = unit \o pdu
  BY Zenon
<1>12. Joins(rest, unit, pdu, 1, 2 + n)
  BY <1>9, <1>10, <1>11, ConcatFacts, Zenon
<1>13. rest \in Seq(Nat) /\ Len(rest) = 1 + (2 + n)
  BY <1>12, Zenon DEF Joins
<1>14. from(rest, 1) = pdu
  BY <1>9, <1>10, <1>11, FromConcat, Zenon
<1>15. decode_app_message(rest) = m
  <2>1. ~(2 + n < 2)
    OBVIOUS
  <2>2. code \in Range(MsgType) /\ (CHOOSE t \in DOMAIN MsgType : MsgType[t] = code) = type
    BY <1>3, <1>5, TypeCodes, Zenon
  <2> QED BY <1>2, <1>9, <1>14, <2>1, <2>2, Zenon DEF decode_app_message
<1>16. PICK length : length = length_field(pdu)
  BY Zenon
<1>17. length \in 0 .. U16 - 1 /\ 0 \in 0 .. U16 - 1
  <2>1. Len(pdu) + 1 \in Nat
    BY <1>9
  <2>2. (Len(pdu) + 1) % U16 \in 0 .. U16 - 1
    BY <2>1, Sizes, Division, Zenon
  <2>3. 0 \in 0 .. U16 - 1
    BY Sizes
  <2> QED BY <1>16, <2>2, <2>3, Zenon DEF length_field
<1>18. PICK zero \in Seq(Nat) : zero = write_u16_be(0) /\ Len(zero) = 2
  <2>1. write_u16_be(0) \in Seq(0 .. Radix - 1) /\ Len(write_u16_be(0)) = 2
    BY <1>17, U16RoundTrip, Zenon
  <2>2. 0 .. Radix - 1 \subseteq Nat
    BY Sizes
  <2> QED BY <2>1, <2>2, SeqWider, Zenon
<1>19. PICK field \in Seq(Nat) : /\ field = write_u16_be(length) /\ Len(field) = 2
                                 /\ field[1] * Radix + field[2] = length
  <2>1. /\ write_u16_be(length) \in Seq(0 .. Radix - 1) /\ Len(write_u16_be(length)) = 2
        /\ write_u16_be(length)[1] * Radix + write_u16_be(length)[2] = length
    BY <1>17, U16RoundTrip, Zenon
  <2>2. 0 .. Radix - 1 \subseteq Nat
    BY Sizes
  <2> QED BY <2>1, <2>2, SeqWider, Zenon
<1>20. PICK front, head, f : /\ front = zero \o zero /\ head = front \o field
                             /\ f = head \o rest
  BY Zenon
<1>21. Joins(front, zero, zero, 2, 2)
  BY <1>18, <1>20, ConcatFacts, Zenon
<1>22. front \in Seq(Nat) /\ Len(front) = 4
  <2>1. front \in Seq(Nat) /\ Len(front) = 2 + 2
    BY <1>21, Zenon DEF Joins
  <2> QED BY <2>1
<1>23. Joins(head, front, field, 4, 2)
  BY <1>19, <1>20, <1>22, ConcatFacts, Zenon
<1>24. head \in Seq(Nat) /\ Len(head) = 6
  <2>1. head \in Seq(Nat) /\ Len(head) = 4 + 2
    BY <1>23, Zenon DEF Joins
  <2> QED BY <2>1
<1>25. Joins(f, head, rest, 6, 1 + (2 + n))
  BY <1>13, <1>20, <1>24, ConcatFacts, Zenon
<1>26. f \in Seq(Nat) /\ Len(f) = 9 + n /\ Len(f) >= 9
  <2>1. f \in Seq(Nat) /\ Len(f) = 6 + (1 + (2 + n))
    BY <1>25, Zenon DEF Joins
  <2> QED BY <2>1
<1>27. from(f, 6) = rest
  <2>1. from(head \o rest, Len(head)) = rest
    BY <1>13, <1>24, FromConcat, Zenon
  <2> QED BY <1>20, <1>24, <2>1, Zenon
<1>28. encode(m) = f
  <2>1. payload # Throws
    BY <1>2, ThrowsAssumption, Zenon
  <2>2. Grouped(head, unit, pdu)
    BY <1>9, <1>24, Regroup, Zenon
  <2>3. (head \o unit) \o pdu = f
    BY <1>11, <1>20, <2>2, Zenon DEF Grouped
  <2>4. pdu_of(type, payload) = pdu
    BY <1>5, <1>6, <1>7, Zenon DEF pdu_of
  <2> QED BY <1>1, <1>10, <1>16, <1>18, <1>19, <1>20, <2>1, <2>3, <2>4, Zenon
          DEF encode, kTransactionId, kProtocolId
<1>29. Frame(f, m)
  BY <1>15, <1>26, <1>27, Zenon DEF Frame, kMbapHeaderSize
<1>30. read_u16_be(from(f, 4)) = length
  <2>1. PICK behind : behind = field \o rest
    BY Zenon
  <2>2. Grouped(front, field, rest)
    BY <1>13, <1>22, Regroup, Zenon
  <2>3. f = front \o behind
    BY <1>20, <2>1, <2>2, Zenon DEF Grouped
  <2>4. Joins(behind, field, rest, 2, 1 + (2 + n))
    BY <1>13, <1>19, <2>1, ConcatFacts, Zenon
  <2>5. behind \in Seq(Nat)
    BY <2>4, Zenon DEF Joins
  <2>6. from(f, 4) = behind
    BY <1>22, <2>3, <2>5, FromConcat, Zenon
  <2>7. 1 \in 1 .. 2 /\ 2 \in 1 .. 2
    OBVIOUS
  <2>8. behind[1] = field[1] /\ behind[2] = field[2]
    BY <2>4, <2>7, Zenon DEF Joins
  <2> QED BY <1>19, <2>6, <2>8, Zenon DEF read_u16_be
<1>31. ASSUME fits(m) PROVE Sized(f)
  <2>1. n + 3 < U16
    BY <1>1, <1>4, <1>31, Zenon DEF fits
  <2>2. n + 3 \in 0 .. U16 - 1 /\ Len(pdu) + 1 = n + 3
    BY <1>9, <2>1, Sizes
  <2>3. length = n + 3
    BY <1>16, <2>2, Sizes, Remainder, Zenon DEF length_field
  <2>4. Len(f) = 6 + length /\ Len(f) < 6 + U16
    BY <1>26, <2>1, <2>3, Sizes
  <2> QED BY <1>30, <2>4, Zenon DEF Sized, kMbapHeaderSize
<1> QED BY <1>28, <1>29, <1>31, Zenon

-------------------------------------------------------------------------------
(* The messages that are built for lines.                                    *)

(* A frame of a message is ready, and means what was asked for.              *)
Ready(m, asked) == m \in AppMessages /\ (asked = NoId \/ asked = understood(m))

(* What is sent to an id: read_u32_be reads it back.                         *)
LEMMA BuiltById ==
  ASSUME NEW type \in {"Chat", "KeyOffer"}, NEW id \in Ids, NEW text \in Strings
  PROVE  Ready(build_by_id(type, MyId, id, text), ToPeer(type, id, text))
<1>1. PICK data : data = write_u32_be(id)
  BY Zenon
<1>2. data \in Seq(Nat) /\ Len(data) = 4 /\ read_u32_be(data) = id
  <2>1. <<>> \in Seq(Nat) /\ \A x \in Seq(Nat) : x \o <<>> = x
    BY Nothing, Zenon
  <2>2. data \in Seq(Nat) /\ Len(data) = 4 /\ Number(data \o <<>>, id, <<>>)
    BY <1>1, <2>1, NumberRead, Zenon
  <2> QED BY <2>1, <2>2, Zenon DEF Number
<1>3. PICK m : m = build_by_id(type, MyId, id, text)
  BY Zenon
<1>4. m = [type |-> type, from_id |-> MyId, recipient_tag |-> 1, recipient_data |-> data,
           text |-> text]
  BY <1>1, <1>3, Zenon DEF build_by_id, build_chat_like, kRecipientById
<1>5. /\ m.type = type /\ m.from_id = MyId /\ m.recipient_tag = 1
      /\ m.recipient_data = data /\ m.text = text
  BY ONLY <1>4
<1>6. type \in ChatTypes /\ 1 \in Nat
  BY DEF ChatTypes
<1>7. MyId \in Ids
  BY FramingConstants, Zenon
<1>8. m \in [type : ChatTypes, from_id : Ids, recipient_tag : Nat, recipient_data : Seq(Nat),
             text : Strings]
  BY <1>2, <1>4, <1>6, <1>7, Zenon
<1>9. addressed(m)
  BY <1>2, <1>5, Zenon DEF addressed, kRecipientById
<1>10. m \in AppMessages
  BY <1>8, <1>9, Zenon DEF AppMessages, ChatMessages
<1>11. m # Throws
  BY <1>10, ResultsAssumption, Zenon
<1>12. 1 # 2 /\ 1 # 3
  OBVIOUS
<1>13. understood(m) = ToPeer(type, id, text)
  BY <1>2, <1>5, <1>6, <1>11, <1>12, Zenon
     DEF understood, ToPeer, kRecipientById, kRecipientByNickname, kRecipientBroadcast
<1> QED BY <1>3, <1>10, <1>13, Zenon DEF Ready

(* What is sent to everyone.                                                 *)
LEMMA BuiltBroadcast ==
  ASSUME NEW text \in Strings
  PROVE  Ready(build_chat_broadcast(MyId, text),
               [type |-> "Chat", from_id |-> MyId, text |-> text, to |-> <<"all">>])
<1>1. PICK data : data = <<>>
  BY Zenon
<1>2. data \in Seq(Nat)
  BY <1>1, Nothing, Zenon
<1>3. PICK m : m = build_chat_broadcast(MyId, text)
  BY Zenon
<1>4. m = [type |-> "Chat", from_id |-> MyId, recipient_tag |-> 3, recipient_data |-> data,
           text |-> text]
  BY <1>1, <1>3, Zenon DEF build_chat_broadcast, build_chat_like, kRecipientBroadcast
<1>5. /\ m.type = "Chat" /\ m.from_id = MyId /\ m.recipient_tag = 3
      /\ m.recipient_data = data /\ m.text = text
  BY ONLY <1>4
<1>6. "Chat" \in ChatTypes /\ 3 \in Nat
  BY DEF ChatTypes
<1>7. MyId \in Ids
  BY FramingConstants, Zenon
<1>8. m \in [type : ChatTypes, from_id : Ids, recipient_tag : Nat, recipient_data : Seq(Nat),
             text : Strings]
  BY <1>2, <1>4, <1>6, <1>7, Zenon
<1>9. addressed(m)
  BY <1>1, <1>5, Zenon DEF addressed, kRecipientBroadcast
<1>10. m \in AppMessages
  BY <1>8, <1>9, Zenon DEF AppMessages, ChatMessages
<1>11. m # Throws
  BY <1>10, ResultsAssumption, Zenon
<1>12. 3 # 1 /\ 3 # 2
  OBVIOUS
<1>13. understood(m) = [type |-> "Chat", from_id |-> MyId, text |-> text, to |-> <<"all">>]
  BY <1>5, <1>6, <1>11, <1>12, Zenon
     DEF understood, kRecipientById, kRecipientByNickname, kRecipientBroadcast
<1> QED BY <1>3, <1>10, <1>13, Zenon DEF Ready

(* A text that is too long is not encoded.                                   *)
LEMMA LongTextThrows ==
  ASSUME NEW type \in ChatTypes, NEW from_id, NEW tag, NEW data, NEW text \in Seq(Nat),
         encode(build_chat_like(type, from_id, tag, data, text)) # Throws
  PROVE  text \in Strings
<1>1. PICK m : m = build_chat_like(type, from_id, tag, data, text)
  BY Zenon
<1>2. m = [type |-> type, from_id |-> from_id, recipient_tag |-> tag,
           recipient_data |-> data, text |-> text]
  BY <1>1, Zenon DEF build_chat_like
<1>3. m.type = type /\ m.text = text
  BY ONLY <1>2
<1>4. PICK n \in Nat : n = Len(text)
  BY SeqFacts, Zenon
<1>5. ASSUME n > kMaxU16Count PROVE FALSE
  <2>1. encode_string(m.text) = Throws
    BY <1>3, <1>4, <1>5, Zenon DEF encode_string
  <2>2. type # "Register" /\ type # "AssignId"
    BY DEF ChatTypes
  <2>3. encode_payload(m) = joined(<<write_u32_be(m.from_id), <<m.recipient_tag>>,
                                     m.recipient_data, Throws>>)
    <3>1. /\ type # "Error" /\ type \notin DeliverTypes /\ type # "ListUsers"
          /\ type \notin {"UserJoined", "UserLeft"} /\ type # "UsersList" /\ type # "BannedIds"
      BY DEF ChatTypes, DeliverTypes
    <3> QED BY <1>3, <2>1, <2>2, <3>1, Zenon DEF encode_payload
  <2>4. encode_payload(m) = Throws
    BY <2>3, JoinedThrows, Zenon
  <2> QED BY <1>1, <2>4, Zenon DEF encode
<1>6. n <= kMaxU16Count
  <2>1. ~(n > kMaxU16Count)
    BY <1>5, Zenon
  <2> QED BY <2>1, Sizes DEF kMaxU16Count
<1> QED BY <1>4, <1>6, Zenon DEF Strings

(* What the administrator's list becomes.                                    *)
LEMMA BuiltBanned ==
  ASSUME NEW ids \in Seq(Ids), encode([type |-> "BannedIds", ids |-> ids]) # Throws
  PROVE  Ready([type |-> "BannedIds", ids |-> ids], [type |-> "BannedIds", ids |-> Range(ids)])
<1>1. PICK m : m = [type |-> "BannedIds", ids |-> ids]
  BY Zenon
<1>2. m.type = "BannedIds" /\ m.ids = ids
  BY ONLY <1>1
<1>3. PICK n \in Nat : n = Len(ids)
  BY SeqFacts, Zenon
<1>4. "BannedIds" \notin ChatTypes /\ "BannedIds" \notin DeliverTypes
  BY DEF ChatTypes, DeliverTypes
<1>5. ASSUME n > kMaxU16Count PROVE FALSE
  <2>1. PICK entries : entries = [k \in DOMAIN m.ids |-> write_u32_be(m.ids[k])]
    BY Zenon
  <2>2. DOMAIN m.ids = 1 .. n
    BY <1>2, <1>3, SeqFacts, Zenon
  <2>3. Len(entries) = n
    <3>1. entries = [k \in 1 .. n |-> write_u32_be(ids[k])]
      BY <1>2, <2>1, <2>2, Zenon
    <3> QED BY ONLY <3>1, n \in Nat
  <2>4. encode_list(entries) = Throws
    BY <1>5, <2>3, Zenon DEF encode_list
  <2>5. encode_payload(m) = encode_list(entries)
    BY <1>2, <1>4, <2>1, Zenon DEF encode_payload
  <2> QED BY <1>1, <2>4, <2>5, Zenon DEF encode
<1>6. n <= kMaxU16Count
  <2>1. ~(n > kMaxU16Count)
    BY <1>5, Zenon
  <2> QED BY <2>1, Sizes DEF kMaxU16Count
<1>7. m \in [type : {"BannedIds"}, ids : Seq(Ids)]
  BY <1>1, Zenon
<1>8. m \in AppMessages
  BY <1>2, <1>3, <1>6, <1>7, Zenon DEF AppMessages, ListMessages
<1>9. m # Throws
  BY <1>8, ResultsAssumption, Zenon
<1>10. understood(m) = [type |-> "BannedIds", ids |-> Range(ids)]
  BY <1>2, <1>4, <1>9, Zenon DEF understood
<1> QED BY <1>1, <1>8, <1>10, Zenon DEF Ready

-------------------------------------------------------------------------------
(* Lines of the user and of the administrator.                               *)

(* What stoul makes of a token that parse_key accepts.                       *)
LEMMA Parsed ==
  ASSUME NEW token \in Tokens, stoul(token) # Throws
  PROVE  /\ stoul(token) \in Nat /\ stoul(token) % U32 \in Ids
         /\ token.kind \in {"number", "negative", "mixed"}
         /\ token.kind # "negative" => stoul(token) = token.value
         /\ token.kind # "negative" /\ token.value < U32 => stoul(token) % U32 = token.value
<1>1. token.kind \in {"number", "negative", "mixed"} /\ token.value \in Nat
  <2>1. CASE token \in [kind : {"number", "negative", "mixed"}, value : Nat]
    BY <2>1
  <2>2. CASE token \in [kind : {"name"}, name : Seq(Nat)] \union {all, nothing}
    <3>1. token.kind \in {"name", "all", "nothing"}
      BY <2>2 DEF all, nothing
    <3> QED BY <3>1, Zenon DEF stoul
  <2> QED BY <2>1, <2>2, Zenon DEF Tokens
<1>2. U64 \in Nat /\ U64 >= 1
  BY Sizes DEF U64
<1>3. /\ ~(token.value >= U64)
      /\ stoul(token) = IF token.kind = "negative" THEN (U64 - token.value) % U64
                        ELSE token.value
  <2>1. token.kind \notin {"name", "all", "nothing"}
    BY <1>1
  <2> QED BY <2>1, Zenon DEF stoul
<1>4. stoul(token) \in Nat
  <2>1. U64 - token.value \in Nat
    BY <1>1, <1>2, <1>3
  <2>2. PICK d \in Nat : d = U64 - token.value
    BY <2>1, Zenon
  <2>3. d % U64 \in 0 .. U64 - 1
    BY <1>2, Division, Zenon
  <2>4. d % U64 \in Nat
    BY <1>2, <2>3
  <2> QED BY <1>1, <1>3, <2>2, <2>4, Zenon
<1>5. stoul(token) % U32 \in Ids
  BY <1>4, Sizes, Division, Zenon DEF Ids
<1>6. ASSUME token.kind # "negative", token.value < U32 PROVE stoul(token) % U32 = token.value
  <2>1. token.value \in 0 .. U32 - 1
    BY <1>1, <1>6, Sizes
  <2>2. token.value % U32 = token.value
    BY <2>1, Sizes, Remainder, Zenon
  <2> QED BY <1>3, <1>6, <2>2, Zenon
<1> QED BY <1>1, <1>3, <1>4, <1>5, <1>6, Zenon

(* A number that is no id means nothing; one that is, means this id.         *)
LEMMA NumberMeans ==
  ASSUME NEW token \in Tokens, stoul(token) # Throws, NEW type, NEW text
  PROVE  \/ ToNumber(type, token, text) = NoId
         \/ ToNumber(type, token, text) = ToPeer(type, stoul(token) % U32, text)
<1>1. CASE token.kind = "number" /\ token.value < U32
  <2>1. token.kind # "negative"
    BY <1>1
  <2>2. stoul(token) % U32 = token.value
    BY <1>1, <2>1, Parsed, Zenon
  <2> QED BY <1>1, <2>2, Zenon DEF ToNumber
<1>2. CASE ~(token.kind = "number" /\ token.value < U32)
  BY <1>2, Zenon DEF ToNumber
<1> QED BY <1>1, <1>2, Zenon

(* The kinds of tokens and lines.                                            *)
LEMMA LineKinds ==
  ASSUME NEW line \in Lines
  PROVE  /\ line.form \in {"/users", "/exit", "", "/key", "message"}
         /\ line.form = "/key" => line.argument \in Tokens
         /\ line.form = "message" =>
              /\ line.recipient \in Tokens /\ line.text \in Seq(Nat)
              /\ line.recipient.kind \in {"number", "name", "all"}
<1>1. CASE line \in [form : {"/users", "/exit", ""}]
  BY <1>1, Zenon
<1>2. CASE line \in [form : {"/key"}, argument : Tokens]
  BY <1>2, Zenon
<1>3. CASE line \in {l \in [form : {"message"}, recipient : Tokens, text : Seq(Nat)] :
                       l.recipient.kind \in {"number", "name", "all"}}
  BY <1>3, Zenon
<1> QED BY <1>1, <1>2, <1>3, Zenon DEF Lines

(* The function of which newly_banned is the last value.                     *)
Chosen(g, ids, n) ==
  g = [k \in 0 .. n |->
         IF k = 0 THEN <<>>
         ELSE IF ids[k] \in banned_ids_ \union Range(g[k - 1]) THEN g[k - 1]
         ELSE Append(g[k - 1], ids[k])]

(* There is one for every list.                                              *)
LEMMA ChosenExists ==
  ASSUME NEW ids, NEW n \in Nat
  PROVE  \E g : Chosen(g, ids, n)
<1> DEFINE bad == {k \in Nat : ~ \E g : Chosen(g, ids, k)}
<1> SUFFICES ASSUME n \in bad PROVE FALSE
  BY Zenon
<1>1. PICK m \in bad : \A k \in bad : m <= k
  <2>1. bad \subseteq Nat /\ bad # {}
    BY Zenon
  <2> HIDE DEF bad
  <2> QED BY <2>1, Least, Zenon
<1>2. m \in Nat /\ ~ \E g : Chosen(g, ids, m)
  BY Zenon
<1>3. CASE m = 0
  <2> DEFINE g == [k \in 0 .. 0 |-> <<>>]
  <2>1. \A k \in 0 .. 0 : k = 0
    OBVIOUS
  <2>2. Chosen(g, ids, 0)
    BY <2>1, Zenon DEF Chosen
  <2> QED BY <1>2, <1>3, <2>2, Zenon
<1>4. CASE m # 0
  <2>1. m - 1 \in Nat /\ ~(m <= m - 1)
    BY <1>2, <1>4
  <2>2. PICK f : Chosen(f, ids, m - 1)
    BY <1>1, <2>1, Zenon
  <2> DEFINE last == IF ids[m] \in banned_ids_ \union Range(f[m - 1]) THEN f[m - 1]
                     ELSE Append(f[m - 1], ids[m])
             g == [k \in 0 .. m |-> IF k = m THEN last ELSE f[k]]
  <2>3. ASSUME NEW k \in 0 .. m
        PROVE  g[k] = IF k = 0 THEN <<>>
                      ELSE IF ids[k] \in banned_ids_ \union Range(g[k - 1]) THEN g[k - 1]
                      ELSE Append(g[k - 1], ids[k])
    <3>1. k # 0 => k - 1 \in 0 .. m /\ k - 1 # m
      BY <1>2
    <3>2. k # 0 => g[k - 1] = f[k - 1]
      BY <3>1, Zenon
    <3>3. CASE k = m
      <4>1. g[k] = last
        BY <3>3, Zenon
      <4> QED BY <1>4, <3>2, <3>3, <4>1, Zenon
    <3>4. CASE k # m
      <4>1. k \in 0 .. m - 1
        BY <1>2, <3>4
      <4>2. f[k] = IF k = 0 THEN <<>>
                   ELSE IF ids[k] \in banned_ids_ \union Range(f[k - 1]) THEN f[k - 1]
                   ELSE Append(f[k - 1], ids[k])
        BY <2>2, <4>1, Zenon DEF Chosen
      <4>3. g[k] = f[k]
        BY <3>4, Zenon
      <4> QED BY <3>2, <4>2, <4>3, Zenon
    <3> QED BY <3>3, <3>4, Zenon
  <2>4. g = [k \in 0 .. m |-> g[k]]
    BY Zenon
  <2> HIDE DEF g
  <2>5. Chosen(g, ids, m)
    BY <2>3, <2>4, Zenon DEF Chosen
  <2> QED BY <1>2, <2>5, Zenon
<1> QED BY <1>3, <1>4, Zenon

(* The first k ids, those that were banned left out.                         *)
Picked(list, ids, k) ==
  list \in Seq(Ids) /\ Range(list) = {ids[i] : i \in 1 .. k} \ banned_ids_

(* What a list holds after x is appended.                                    *)
Enlarged(longer, list, x, S) == longer \in Seq(S) /\ Range(longer) = Range(list) \union {x}

(* Append adds one element.                                                  *)
LEMMA RangeAppend ==
  ASSUME NEW S, NEW list \in Seq(S), NEW x \in S
  PROVE  Enlarged(Append(list, x), list, x, S)
<1>1. PICK n \in Nat : n = Len(list)
  BY SeqFacts, Zenon
<1>2. PICK longer : longer = Append(list, x)
  BY Zenon
<1>3. /\ longer \in Seq(S) /\ DOMAIN longer = 1 .. n + 1 /\ DOMAIN list = 1 .. n
      /\ longer[n + 1] = x /\ \A i \in 1 .. n : longer[i] = list[i]
  BY <1>1, <1>2
<1>4. 1 .. n + 1 = (1 .. n) \union {n + 1}
  BY ONLY n \in Nat
<1>5. Range(longer) = Range(list) \union {x}
  <2>1. ASSUME NEW y \in Range(longer) PROVE y \in Range(list) \union {x}
    BY <1>3, <1>4, Zenon DEF Range
  <2>2. ASSUME NEW y \in Range(list) PROVE y \in Range(longer)
    BY <1>3, <1>4, Zenon DEF Range
  <2>3. x \in Range(longer)
    BY <1>3, <1>4, Zenon DEF Range
  <2> QED BY <2>1, <2>2, <2>3, Zenon
<1> QED BY <1>2, <1>3, <1>5, Zenon DEF Enlarged

(* One step of newly_banned.                                                 *)
LEMMA PickedNext ==
  ASSUME NEW ids \in Seq(Ids), NEW k \in 1 .. Len(ids), NEW list, Picked(list, ids, k - 1),
         NEW next, next = IF ids[k] \in banned_ids_ \union Range(list) THEN list
                          ELSE Append(list, ids[k])
  PROVE  Picked(next, ids, k)
<1>1. PICK x \in Ids : x = ids[k]
  BY SeqElement, Zenon
<1>2. Len(ids) \in Nat
  BY SeqFacts, Zenon
<1>3. 1 .. k = (1 .. k - 1) \union {k}
  BY <1>2
<1>4. PICK before, after : /\ before = {ids[i] : i \in 1 .. k - 1}
                           /\ after = {ids[i] : i \in 1 .. k}
  BY Zenon
<1>5. after = before \union {x}
  BY <1>1, <1>3, <1>4, Zenon
<1>6. list \in Seq(Ids) /\ Range(list) = before \ banned_ids_
  BY <1>4, Zenon DEF Picked
<1>7. CASE x \in banned_ids_ \union Range(list)
  <2>1. next = list
    BY <1>1, <1>7, Zenon
  <2>2. Range(next) = after \ banned_ids_
    BY <1>5, <1>6, <1>7, <2>1, Zenon
  <2> QED BY <1>4, <1>6, <2>1, <2>2, Zenon DEF Picked
<1>8. CASE x \notin banned_ids_ \union Range(list)
  <2>1. next = Append(list, x)
    BY <1>1, <1>8, Zenon
  <2>2. next \in Seq(Ids) /\ Range(next) = Range(list) \union {x}
    <3>1. Enlarged(next, list, x, Ids)
      BY <1>6, <2>1, RangeAppend, Zenon
    <3> QED BY <3>1, Zenon DEF Enlarged
  <2>3. Range(next) = after \ banned_ids_
    <3>1. ASSUME NEW y PROVE y \in Range(next) <=> y \in after \ banned_ids_
      BY <1>5, <1>6, <1>8, <2>2, Zenon
    <3> QED BY <3>1, Zenon
  <2> QED BY <1>4, <2>2, <2>3, Zenon DEF Picked
<1> QED BY <1>7, <1>8, Zenon

(* newly_banned lists the ids of the line that were not banned.              *)
LEMMA NewlyBanned ==
  ASSUME NEW ids \in Seq(Ids)
  PROVE  newly_banned(ids) \in Seq(Ids) /\ Range(newly_banned(ids)) = Range(ids) \ banned_ids_
<1>1. PICK n \in Nat : n = Len(ids) /\ DOMAIN ids = 1 .. n
  BY SeqFacts, Zenon
<1>2. \E g : g = [k \in 0 .. n |->
                    IF k = 0 THEN <<>>
                    ELSE IF ids[k] \in banned_ids_ \union Range(g[k - 1]) THEN g[k - 1]
                    ELSE Append(g[k - 1], ids[k])]
  BY ChosenExists, Zenon DEF Chosen
<1>3. PICK g : Chosen(g, ids, n) /\ newly_banned(ids) = g[n]
  BY <1>1, <1>2, Zenon DEF newly_banned, Chosen
<1> DEFINE bad == {k \in 0 .. n : ~Picked(g[k], ids, k)}
<1>4. bad = {}
  <2> SUFFICES ASSUME bad # {} PROVE FALSE
    BY Zenon
  <2>1. PICK m \in bad : \A k \in bad : m <= k
    <3>1. 0 .. n \subseteq Nat
      OBVIOUS
    <3>2. bad \subseteq Nat
      BY <3>1, Zenon
    <3> HIDE DEF bad
    <3> QED BY <3>2, Least, Zenon
  <2>2. m \in 0 .. n /\ ~Picked(g[m], ids, m)
    BY Zenon
  <2>3. g[m] = IF m = 0 THEN <<>>
               ELSE IF ids[m] \in banned_ids_ \union Range(g[m - 1]) THEN g[m - 1]
               ELSE Append(g[m - 1], ids[m])
    BY <1>3, <2>2, Zenon DEF Chosen
  <2>4. CASE m = 0
    <3>1. <<>> \in Seq(Ids) /\ DOMAIN <<>> = {} /\ 1 .. 0 = {}
      OBVIOUS
    <3>2. Range(<<>>) = {} /\ {ids[i] : i \in 1 .. 0} = {}
      BY <3>1, Zenon DEF Range
    <3>3. Picked(<<>>, ids, 0)
      BY <3>1, <3>2, Zenon DEF Picked
    <3> QED BY <2>2, <2>3, <2>4, <3>3, Zenon
  <2>5. CASE m # 0
    <3>1. m - 1 \in 0 .. n /\ ~(m <= m - 1) /\ m \in 1 .. n
      BY <2>2, <2>5
    <3>2. Picked(g[m - 1], ids, m - 1)
      BY <2>1, <3>1, Zenon
    <3>3. m \in 1 .. Len(ids)
      BY <1>1, <3>1, Zenon
    <3>4. g[m] = IF ids[m] \in banned_ids_ \union Range(g[m - 1]) THEN g[m - 1]
                 ELSE Append(g[m - 1], ids[m])
      BY <2>3, <2>5, Zenon
    <3> QED BY <2>2, <3>2, <3>3, <3>4, PickedNext, Zenon
  <2> QED BY <2>4, <2>5, Zenon
<1>5. n \in 0 .. n
  OBVIOUS
<1>6. Picked(g[n], ids, n)
  BY <1>4, <1>5, Zenon
<1>7. Range(ids) = {ids[i] : i \in 1 .. n}
  BY <1>1, Zenon DEF Range
<1> QED BY <1>3, <1>6, <1>7, Zenon DEF Picked

(* getline() sees all tokens but an empty last one.                          *)
LEMMA TokensSeen ==
  ASSUME NEW list \in Seq(Tokens), list # <<>>
  PROVE  \E tokens : /\ tokens = getline_tokens(list) /\ tokens \in Seq(Tokens)
                     /\ Range(tokens) \subseteq Range(list)
                     /\ Range(list) \subseteq Range(tokens) \union {nothing}
<1>1. PICK n \in Nat : n = Len(list) /\ DOMAIN list = 1 .. n
  BY SeqFacts, Zenon
<1>2. n # 0
  BY <1>1, SeqEmpty
<1>3. CASE list[n] = nothing
  <2>1. PICK tokens : tokens = SubSeq(list, 1, n - 1)
    BY Zenon
  <2>2. /\ tokens \in Seq(Tokens) /\ DOMAIN tokens = 1 .. n - 1
        /\ \A i \in 1 .. n - 1 : tokens[i] = list[i]
    BY <1>1, <1>2, <2>1
  <2>3. 1 .. n = (1 .. n - 1) \union {n}
    BY <1>2
  <2>4. getline_tokens(list) = tokens
    BY <1>1, <1>3, <2>1, Zenon DEF getline_tokens
  <2>5. /\ Range(tokens) \subseteq Range(list)
        /\ Range(list) \subseteq Range(tokens) \union {nothing}
    BY <1>1, <1>3, <2>2, <2>3, Zenon DEF Range
  <2> QED BY <2>2, <2>4, <2>5, Zenon
<1>4. CASE list[n] # nothing
  BY <1>1, <1>4, Zenon DEF getline_tokens
<1> QED BY <1>3, <1>4, Zenon

(* An id that can be banned.                                                 *)
LEMMA Bannable ==
  ASSUME NEW token \in Tokens, bannable_id(token)
  PROVE  /\ stoul(token) % U32 \in 1 .. U32 - 1
         /\ token.kind \in {"number", "negative"}
         /\ token.kind = "number" => stoul(token) % U32 = token.value
<1>1. /\ stoul(token) \in Nat /\ stoul(token) # 0 /\ stoul(token) < U32
      /\ token.kind \in {"number", "negative", "mixed"} /\ token.kind # "mixed"
      /\ token.kind # "negative" => stoul(token) = token.value
  BY Parsed, Zenon DEF bannable_id, consumed_all
<1>2. PICK v \in Nat : v = stoul(token)
  BY <1>1, Zenon
<1>3. v \in 0 .. U32 - 1 /\ v \in 1 .. U32 - 1
  BY <1>1, <1>2, Sizes
<1>4. v % U32 = v
  BY <1>3, Sizes, Remainder, Zenon
<1>5. "number" # "negative"
  OBVIOUS
<1> QED BY <1>1, <1>2, <1>3, <1>4, <1>5, Zenon

(* The ids of a line of the administrator, and what it asks for.             *)
Parses(line, ids) ==
  /\ ids \in Seq(Ids) /\ Range(ids) \subseteq 1 .. U32 - 1
  /\ ids # <<>> => \/ Asked(line) = NoId
                   \/ Asked(line) = [type |-> "BannedIds", ids |-> Range(ids) \ banned_ids_]

(* parse_admin_command returns what the line asks for, or nothing.           *)
LEMMA AdminParsed ==
  ASSUME NEW line \in AdministratorLines
  PROVE  Parses(line, parse_admin_command(line))
<1>1. ASSUME parse_admin_command(line) = <<>> PROVE Parses(line, parse_admin_command(line))
  <2>1. <<>> \in Seq(Ids) /\ DOMAIN <<>> = {}
    OBVIOUS
  <2>2. Range(<<>>) = {}
    BY <2>1, Zenon DEF Range
  <2> QED BY <1>1, <2>1, <2>2, Zenon DEF Parses
<1>2. ASSUME parse_admin_command(line) # <<>> PROVE Parses(line, parse_admin_command(line))
  <2>1. line.form = "ban:"
    BY <1>2, Zenon DEF parse_admin_command
  <2>2. PICK list \in Seq(Tokens) : list = line.ids /\ list # <<>>
    <3>1. line \in [form : {"ban:"}, ids : Seq(Tokens) \ {<<>>}]
      BY <2>1 DEF AdministratorLines
    <3>2. line.ids \in Seq(Tokens) \ {<<>>}
      BY <3>1, Zenon
    <3> QED BY <3>2, Zenon
  <2>3. PICK tokens : /\ tokens = getline_tokens(list) /\ tokens \in Seq(Tokens)
                      /\ Range(tokens) \subseteq Range(list)
                      /\ Range(list) \subseteq Range(tokens) \union {nothing}
    BY <2>2, TokensSeen, Zenon
  <2>4. PICK ids : ids = [k \in DOMAIN tokens |-> stoul(tokens[k]) % U32]
    BY Zenon
  <2>5. /\ \A k \in DOMAIN tokens : bannable_id(tokens[k])
        /\ parse_admin_command(line) = ids
    BY <1>2, <2>2, <2>3, <2>4, Zenon DEF parse_admin_command
  <2>6. \A token \in Range(tokens) : token \in Tokens /\ bannable_id(token)
    <3>1. \A k \in DOMAIN tokens : tokens[k] \in Tokens
      <4>1. DOMAIN tokens = 1 .. Len(tokens)
        BY <2>3, SeqFacts, Zenon
      <4> QED BY <2>3, <4>1, SeqElement, Zenon
    <3> QED BY <2>5, <3>1, Zenon DEF Range
  <2>7. Range(ids) = {stoul(token) % U32 : token \in Range(tokens)}
    BY <2>4, Zenon DEF Range
  <2>8. Range(ids) \subseteq 1 .. U32 - 1
    BY <2>6, <2>7, Bannable, Zenon
  <2>9. ids \in Seq(Ids)
    <3>1. PICK n \in Nat : DOMAIN tokens = 1 .. n
      BY <2>3, SeqFacts, Zenon
    <3>2. \A k \in 1 .. n : ids[k] \in Ids
      <4>1. 1 .. U32 - 1 \subseteq Ids
        BY Sizes DEF Ids
      <4>2. \A k \in 1 .. n : ids[k] \in Range(ids)
        BY <2>4, <3>1, Zenon DEF Range
      <4> QED BY <2>8, <4>1, <4>2, Zenon
    <3>3. ids = [k \in 1 .. n |-> ids[k]]
      BY <2>4, <3>1, Zenon
    <3>4. ids \in [1 .. n -> Ids]
      BY <3>2, <3>3, Zenon
    <3> QED BY ONLY <3>4, n \in Nat
  <2>10. CASE \E token \in Range(list) : token.kind = "negative"
    <3>1. "ban:" \notin {"/users", "/key", "message"}
      OBVIOUS
    <3>2. Asked(line) = NoId
      BY <2>1, <2>2, <2>10, <3>1, Zenon DEF Asked
    <3> QED BY <2>5, <2>8, <2>9, <3>2, Zenon DEF Parses
  <2>11. CASE ~ \E token \in Range(list) : token.kind = "negative"
    <3> DEFINE values == {token.value : token \in {t \in Range(list) : t.kind = "number"}}
    <3>1. "ban:" \notin {"/users", "/key", "message"} /\ nothing.kind # "number"
      BY DEF nothing
    <3>2. \A token \in Range(tokens) :
            token.kind = "number" /\ stoul(token) % U32 = token.value
      BY <2>3, <2>6, <2>11, Bannable, Zenon
    <3>3. {t \in Range(list) : t.kind = "number"} = Range(tokens)
      BY <2>3, <3>1, <3>2, Zenon
    <3>4. values = Range(ids)
      BY <2>7, <3>2, <3>3, Zenon
    <3>5. Asked(line) = [type |-> "BannedIds", ids |-> values \ banned_ids_]
      BY <2>1, <2>2, <2>11, <3>1, Zenon DEF Asked
    <3>6. Asked(line) = [type |-> "BannedIds", ids |-> Range(ids) \ banned_ids_]
      BY <3>4, <3>5, Zenon
    <3> QED BY <2>5, <2>8, <2>9, <3>6, Zenon DEF Parses
  <2> QED BY <2>10, <2>11, Zenon
<1> QED BY <1>1, <1>2, Zenon

-------------------------------------------------------------------------------
(* Frames in a stream.                                                       *)

(* Bytes cut in two.                                                         *)
Cut(bytes, n, head, rest) ==
  /\ head \in Seq(Nat) /\ rest \in Seq(Nat) /\ Len(head) = n /\ Len(rest) = Len(bytes) - n
  /\ bytes = head \o rest

(* What send() takes and what it leaves, what read() takes and what it       *)
(* leaves: put together they are what there was.                             *)
LEMMA CutAt ==
  ASSUME NEW bytes \in Seq(Nat), NEW n \in Nat, n <= Len(bytes)
  PROVE  Cut(bytes, n, SubSeq(bytes, 1, n), from(bytes, n))
<1>1. PICK l \in Nat : l = Len(bytes)
  BY SeqFacts, Zenon
<1>2. PICK head, rest : head = SubSeq(bytes, 1, n) /\ rest = from(bytes, n)
  BY Zenon
<1>3. 1 \in Nat \ {0} /\ 1 <= n + 1 /\ n + 1 - 1 = n /\ n \in 0 .. l /\ l - n \in Nat
  BY <1>1
<1>4. \A i \in 1 .. n : 1 + i - 1 = i
  OBVIOUS
<1>5. head \in Seq(Nat) /\ Len(head) = n /\ \A i \in 1 .. n : head[i] = bytes[i]
  <2>1. /\ SubSeq(bytes, 1, n) \in Seq(Nat) /\ Len(SubSeq(bytes, 1, n)) = n + 1 - 1
        /\ \A i \in 1 .. n + 1 - 1 : SubSeq(bytes, 1, n)[i] = bytes[1 + i - 1]
    BY <1>3, PartFacts, Zenon
  <2> QED BY <1>2, <1>3, <1>4, <2>1, Zenon
<1>6. rest \in Seq(Nat) /\ Len(rest) = l - n /\ \A i \in 1 .. l - n : rest[i] = bytes[n + i]
  BY <1>1, <1>2, <1>3, FromFacts, Zenon
<1>7. PICK k \in Nat : k = l - n
  BY <1>3, Zenon
<1>8. PICK both : both = head \o rest
  BY Zenon
<1>9. Joins(both, head, rest, n, k)
  BY <1>5, <1>6, <1>7, <1>8, ConcatFacts, Zenon
<1>10. /\ both \in Seq(Nat) /\ Len(both) = n + k
       /\ \A j \in 1 .. n : both[j] = head[j]
       /\ \A j \in 1 .. k : both[n + j] = rest[j]
  BY <1>9, Zenon DEF Joins
<1>11. ASSUME NEW i \in 1 .. l PROVE both[i] = bytes[i]
  <2>1. CASE i \in 1 .. n
    BY <1>5, <1>10, <2>1, Zenon
  <2>2. CASE i \notin 1 .. n
    <3>1. i - n \in 1 .. k /\ n + (i - n) = i
      BY <1>7, <2>2
    <3> QED BY <1>6, <1>7, <1>10, <3>1, Zenon
  <2> QED BY <2>1, <2>2, Zenon
<1>12. n + k = l
  BY <1>7
<1>13. both = bytes
  BY <1>1, <1>10, <1>11, <1>12, SeqSame, Zenon
<1> QED BY <1>1, <1>2, <1>5, <1>6, <1>8, <1>13, Zenon DEF Cut

(* Two ways to cut the same bytes.                                           *)
Together(x, y, f, q) == x \o y = f \o q

(* They agree as far as both first parts go; with first parts of one length, *)
(* they are the same.                                                        *)
Alike(x, y, f, q) ==
  /\ \A i \in 1 .. Len(x) : i \in 1 .. Len(f) => x[i] = f[i]
  /\ Len(x) = Len(f) => x = f /\ y = q
  /\ Len(x) + Len(y) = Len(f) + Len(q)

(* It does not matter how bytes were cut.                                    *)
LEMMA SameCut ==
  ASSUME NEW x \in Seq(Nat), NEW y \in Seq(Nat), NEW f \in Seq(Nat), NEW q \in Seq(Nat),
         Together(x, y, f, q)
  PROVE  Alike(x, y, f, q)
<1>1. PICK a \in Nat, b \in Nat, c \in Nat, d \in Nat :
        a = Len(x) /\ b = Len(y) /\ c = Len(f) /\ d = Len(q)
  BY SeqFacts, Zenon
<1>2. PICK both : both = x \o y /\ both = f \o q
  BY Zenon DEF Together
<1>3. Joins(both, x, y, a, b) /\ Joins(both, f, q, c, d)
  BY <1>1, <1>2, ConcatFacts, Zenon
<1>4. /\ Len(both) = a + b /\ \A j \in 1 .. a : both[j] = x[j]
      /\ \A j \in 1 .. b : both[a + j] = y[j]
  BY <1>3, Zenon DEF Joins
<1>5. /\ Len(both) = c + d /\ \A j \in 1 .. c : both[j] = f[j]
      /\ \A j \in 1 .. d : both[c + j] = q[j]
  BY <1>3, Zenon DEF Joins
<1>6. \A i \in 1 .. a : i \in 1 .. c => x[i] = f[i]
  BY <1>4, <1>5, Zenon
<1>7. a + b = c + d
  BY <1>4, <1>5, Zenon
<1>8. ASSUME a = c PROVE x = f /\ y = q
  <2>1. b = d
    BY <1>7, <1>8
  <2>2. x = f
    BY <1>1, <1>6, <1>8, SeqSame, Zenon
  <2>3. \A j \in 1 .. b : y[j] = q[j]
    BY <1>4, <1>5, <1>8, <2>1, Zenon
  <2>4. y = q
    BY <1>1, <2>1, <2>3, SeqSame, Zenon
  <2> QED BY <2>2, <2>4, Zenon
<1> QED BY <1>1, <1>6, <1>7, <1>8, Zenon DEF Alike

(* A frame that is taken for what was meant by it, and that says where it    *)
(* ends.                                                                     *)
Framed(f, meaning) ==
  /\ f \in Seq(Nat) /\ Len(f) >= 9 /\ Sized(f)
  /\ understood(decode_app_message(from(f, kMbapHeaderSize))) = meaning

(* read_frame knows how many bytes to wait for: the header, and once it has  *)
(* the header, the frame.                                                    *)
LEMMA SizeKnown ==
  ASSUME NEW x \in Seq(Nat), NEW y \in Seq(Nat), NEW f \in Seq(Nat), NEW q \in Seq(Nat),
         Together(x, y, f, q), Len(f) >= 9, Sized(f), Len(x) <= Len(f)
  PROVE  size(x) = IF Len(x) < kMbapHeaderSize THEN kMbapHeaderSize ELSE Len(f)
<1>1. PICK a \in Nat, c \in Nat : a = Len(x) /\ c = Len(f)
  BY SeqFacts, Zenon
<1>2. CASE a < 6
  BY <1>1, <1>2, Zenon DEF size, kMbapHeaderSize
<1>3. CASE ~(a < 6)
  <2>1. /\ 5 \in 1 .. a /\ 5 \in 1 .. c /\ 6 \in 1 .. a /\ 6 \in 1 .. c
        /\ 4 \in 0 .. a /\ 4 \in 0 .. c
        /\ 1 \in 1 .. a - 4 /\ 2 \in 1 .. a - 4 /\ 1 \in 1 .. c - 4 /\ 2 \in 1 .. c - 4
    <3>1. a >= 6 /\ c >= 6
      BY <1>1, <1>3
    <3> QED BY ONLY <3>1, a \in Nat, c \in Nat
  <2>2. 4 + 1 = 5 /\ 4 + 2 = 6
    OBVIOUS
  <2>3. x[5] = f[5] /\ x[6] = f[6]
    <3>1. \A i \in 1 .. Len(x) : i \in 1 .. Len(f) => x[i] = f[i]
      <4>1. Alike(x, y, f, q)
        BY SameCut, Zenon
      <4> QED BY <4>1, Zenon DEF Alike
    <3> QED BY <1>1, <2>1, <3>1, Zenon
  <2>4. from(x, 4)[1] = x[5] /\ from(x, 4)[2] = x[6]
    <3>1. \A i \in 1 .. Len(x) - 4 : from(x, 4)[i] = x[4 + i]
      BY <1>1, <2>1, FromFacts, Zenon
    <3> QED BY <1>1, <2>1, <2>2, <3>1, Zenon
  <2>5. from(f, 4)[1] = f[5] /\ from(f, 4)[2] = f[6]
    <3>1. \A i \in 1 .. Len(f) - 4 : from(f, 4)[i] = f[4 + i]
      BY <1>1, <2>1, FromFacts, Zenon
    <3> QED BY <1>1, <2>1, <2>2, <3>1, Zenon
  <2>6. read_u16_be(from(x, 4)) = read_u16_be(from(f, 4))
    BY <2>3, <2>4, <2>5, Zenon DEF read_u16_be
  <2>7. Len(f) = 6 + read_u16_be(from(f, 4))
    BY Zenon DEF Sized, kMbapHeaderSize
  <2> QED BY <1>1, <1>3, <2>6, <2>7, Zenon DEF size, kMbapHeaderSize
<1> QED BY <1>2, <1>3, Zenon

(* The n frames F that were begun, with what was meant by them, and what     *)
(* P[i] there is to read behind the first i of them.                         *)
Stream(F, P, list, n) ==
  /\ n \in Nat /\ P[n] = <<>>
  /\ \A i \in 0 .. n : P[i] \in Seq(Nat)
  /\ \A i \in 0 .. n - 1 : Framed(F[i + 1], list[i + 1]) /\ P[i] = F[i + 1] \o P[i + 1]

(* A list with one more element.                                             *)
Longer(longer, list, n, e) == (\A i \in 1 .. n : longer[i] = list[i]) /\ longer[n + 1] = e

(* What a frame adds to what there is to read.                               *)
Extended(P2, P, f, n) == \A i \in 0 .. n : P2[i] = P[i] \o f

(* The frames F with f behind them.                                          *)
Extension(F, P, longer, n, f) ==
  \E F2, P2 : /\ Stream(F2, P2, longer, n + 1) /\ Extended(P2, P, f, n)
              /\ F2[n + 1] = f /\ \A i \in 1 .. n : F2[i] = F[i]

(* One more frame is begun.                                                  *)
LEMMA StreamExtended ==
  ASSUME NEW F, NEW P, NEW list, NEW n, Stream(F, P, list, n),
         NEW f, NEW meaning, Framed(f, meaning),
         NEW longer, Longer(longer, list, n, meaning)
  PROVE  Extension(F, P, longer, n, f)
<1>1. n \in Nat /\ P[n] = <<>> /\ \A i \in 0 .. n : P[i] \in Seq(Nat)
  BY Zenon DEF Stream
<1>2. f \in Seq(Nat)
  BY Zenon DEF Framed
<1>3. PICK F2, P2 : /\ F2 = [i \in 1 .. n + 1 |-> IF i = n + 1 THEN f ELSE F[i]]
                    /\ P2 = [i \in 0 .. n + 1 |-> IF i = n + 1 THEN <<>> ELSE P[i] \o f]
  BY Zenon
<1>4. /\ \A i \in 0 .. n : i \in 0 .. n + 1 /\ i # n + 1
      /\ \A i \in 1 .. n : i \in 1 .. n + 1 /\ i # n + 1
      /\ n + 1 \in 0 .. n + 1 /\ n + 1 \in 1 .. n + 1 /\ n + 1 \in Nat /\ n \in 0 .. n
      /\ (n + 1) - 1 = n
  BY <1>1
<1>5. F2[n + 1] = f /\ P2[n + 1] = <<>>
  BY <1>3, <1>4, Zenon
<1>6. \A i \in 1 .. n : F2[i] = F[i]
  BY <1>3, <1>4, Zenon
<1>7. Extended(P2, P, f, n)
  BY <1>3, <1>4, Zenon DEF Extended
<1>8. ASSUME NEW i \in 0 .. n + 1 PROVE P2[i] \in Seq(Nat)
  <2>1. CASE i = n + 1
    BY <1>5, <2>1, SeqEmpty, Zenon
  <2>2. CASE i # n + 1
    <3>1. i \in 0 .. n
      BY <1>1, <2>2
    <3>2. PICK x \in Seq(Nat) : x = P[i]
      BY <1>1, <3>1, Zenon
    <3>3. x \o f \in Seq(Nat)
      BY <1>2, SeqConcat, Zenon
    <3> QED BY <1>7, <3>1, <3>2, <3>3, Zenon DEF Extended
  <2> QED BY <2>1, <2>2, Zenon
<1>9. ASSUME NEW i \in 0 .. n
      PROVE  Framed(F2[i + 1], longer[i + 1]) /\ P2[i] = F2[i + 1] \o P2[i + 1]
  <2>1. CASE i = n
    <3>1. P2[n] = <<>> \o f
      BY <1>1, <1>4, <1>7, Zenon DEF Extended
    <3>2. <<>> \o f = f /\ f \o <<>> = f
      BY <1>2, SeqNothing, Zenon
    <3>3. longer[n + 1] = meaning
      BY Zenon DEF Longer
    <3> QED BY <1>5, <2>1, <3>1, <3>2, <3>3, Zenon
  <2>2. CASE i # n
    <3>1. i \in 0 .. n - 1 /\ i + 1 \in 1 .. n /\ i + 1 \in 0 .. n
      BY <1>1, <2>2
    <3>2. F2[i + 1] = F[i + 1] /\ longer[i + 1] = list[i + 1]
      BY <1>6, <3>1, Zenon DEF Longer
    <3>3. Framed(F[i + 1], list[i + 1]) /\ P[i] = F[i + 1] \o P[i + 1]
      BY <3>1, Zenon DEF Stream
    <3>4. PICK g \in Seq(Nat), q \in Seq(Nat) : g = F[i + 1] /\ q = P[i + 1]
      <4>1. F[i + 1] \in Seq(Nat)
        BY <3>3, Zenon DEF Framed
      <4> QED BY <1>1, <3>1, <4>1, Zenon
    <3>5. Grouped(g, q, f)
      BY <1>2, Regroup, Zenon
    <3>6. P2[i] = (g \o q) \o f /\ P2[i + 1] = q \o f
      BY <1>7, <3>1, <3>3, <3>4, Zenon DEF Extended
    <3>7. P2[i] = g \o P2[i + 1]
      BY <3>5, <3>6, Zenon DEF Grouped
    <3> QED BY <3>2, <3>3, <3>4, <3>7, Zenon
  <2> QED BY <2>1, <2>2, Zenon
<1>10. Stream(F2, P2, longer, n + 1)
  BY <1>4, <1>5, <1>8, <1>9, Zenon DEF Stream
<1> QED BY <1>5, <1>6, <1>7, <1>10, Zenon DEF Extension

(* Of n frames r are read; the reader has the bytes x of the next one, and   *)
(* there are others on the way.                                              *)
Pending(F, P, list, n, r, x, way) ==
  /\ Stream(F, P, list, n) /\ r \in 0 .. n
  /\ x \in Seq(Nat) /\ way \in Seq(Nat) /\ P[r] = x \o way
  /\ r < n => Len(x) < Len(F[r + 1])

(* Nothing is there when every frame is read.                                *)
LEMMA NothingPending ==
  ASSUME NEW F, NEW P, NEW list, NEW n, NEW x, NEW way, Pending(F, P, list, n, n, x, way)
  PROVE  x = <<>> /\ way = <<>>
<1>1. x \in Seq(Nat) /\ way \in Seq(Nat) /\ x \o way = <<>>
  BY Zenon DEF Pending, Stream
<1>2. PICK a \in Nat, b \in Nat : a = Len(x) /\ b = Len(way)
  BY <1>1, SeqFacts, Zenon
<1>3. Joins(x \o way, x, way, a, b)
  BY <1>1, <1>2, ConcatFacts, Zenon
<1>4. Len(<<>>) = a + b /\ Len(<<>>) = 0
  BY <1>1, <1>3, SeqEmpty, Zenon DEF Joins
<1>5. a = 0 /\ b = 0
  BY ONLY <1>4, a \in Nat, b \in Nat
<1> QED BY <1>1, <1>2, <1>5, SeqEmpty, Zenon

(* write_exact starts with a frame.                                          *)
LEMMA PendingExtended ==
  ASSUME NEW F, NEW P, NEW list, NEW n, NEW r, NEW x, NEW way,
         Pending(F, P, list, n, r, x, way),
         NEW f, NEW meaning, Framed(f, meaning),
         NEW longer, Longer(longer, list, n, meaning)
  PROVE  \E F2, P2 : Pending(F2, P2, longer, n + 1, r, x, way \o f)
<1>1. /\ Stream(F, P, list, n) /\ r \in 0 .. n /\ x \in Seq(Nat) /\ way \in Seq(Nat)
      /\ P[r] = x \o way /\ (r < n => Len(x) < Len(F[r + 1]))
  BY Zenon DEF Pending
<1>2. PICK F2, P2 : /\ Stream(F2, P2, longer, n + 1) /\ Extended(P2, P, f, n)
                    /\ F2[n + 1] = f /\ \A i \in 1 .. n : F2[i] = F[i]
  <2>1. Extension(F, P, longer, n, f)
    BY <1>1, StreamExtended, Zenon
  <2> QED BY <2>1, Zenon DEF Extension
<1>3. n \in Nat
  BY <1>1, Zenon DEF Stream
<1>4. f \in Seq(Nat) /\ Len(f) >= 9
  BY Zenon DEF Framed
<1>5. r \in 0 .. n + 1
  BY <1>1, <1>3
<1>6. way \o f \in Seq(Nat)
  BY <1>1, <1>4, SeqConcat, Zenon
<1>7. Grouped(x, way, f)
  BY <1>1, <1>4, Regroup, Zenon
<1>8. P2[r] = (x \o way) \o f
  BY <1>1, <1>2, Zenon DEF Extended
<1>9. P2[r] = x \o (way \o f)
  BY <1>7, <1>8, Zenon DEF Grouped
<1>10. Len(x) < Len(F2[r + 1])
  <2>1. CASE r = n
    <3>1. x = <<>>
      BY <2>1, NothingPending, Zenon
    <3>2. Len(<<>>) = 0 /\ Len(f) \in Nat
      BY <1>4, SeqEmpty, SeqFacts
    <3>3. 0 < Len(f)
      BY <1>4, <3>2
    <3> QED BY <1>2, <2>1, <3>1, <3>2, <3>3, Zenon
  <2>2. CASE r # n
    <3>1. r < n /\ r + 1 \in 1 .. n
      BY <1>1, <1>3, <2>2
    <3> QED BY <1>1, <1>2, <3>1, Zenon
  <2> QED BY <2>1, <2>2, Zenon
<1>11. Pending(F2, P2, longer, n + 1, r, x, way \o f)
  BY <1>1, <1>2, <1>5, <1>6, <1>9, <1>10, Zenon DEF Pending
<1> QED BY <1>11, Zenon

(* read_exact has read some more bytes of the next frame, or all of them.    *)
Advanced(F, P, list, n, r, bytes, way) ==
  /\ Len(bytes) = size(bytes) =>
       /\ Len(bytes) # kMbapHeaderSize /\ r + 1 \in 1 .. n
       /\ understood(decode_app_message(from(bytes, kMbapHeaderSize))) = list[r + 1]
       /\ Pending(F, P, list, n, r + 1, <<>>, way)
  /\ Len(bytes) # size(bytes) => Pending(F, P, list, n, r, bytes, way)

(* How much read_exact() may ask for.                                        *)
Missing(x, k) == k \in Nat /\ k <= size(x) - Len(x)

(* No frame is given up, taken apart at the wrong place or taken for another.*)
LEMMA PendingRead ==
  ASSUME NEW F, NEW P, NEW list, NEW n, NEW r, NEW x, NEW head, NEW rest,
         head \in Seq(Nat), rest \in Seq(Nat), head # <<>>,
         Pending(F, P, list, n, r, x, head \o rest), Missing(x, Len(head))
  PROVE  Advanced(F, P, list, n, r, x \o head, rest)
<1>1. PICK way : way = head \o rest
  BY Zenon
<1>2. /\ Stream(F, P, list, n) /\ r \in 0 .. n /\ x \in Seq(Nat) /\ way \in Seq(Nat)
      /\ P[r] = x \o way /\ (r < n => Len(x) < Len(F[r + 1])) /\ n \in Nat
  BY <1>1, Zenon DEF Pending, Stream
<1>3. r # n
  <2>1. ASSUME r = n PROVE FALSE
    <3>1. way = <<>>
      BY <1>1, <2>1, NothingPending, Zenon
    <3>2. PICK h \in Nat, l \in Nat : h = Len(head) /\ l = Len(rest)
      BY SeqFacts, Zenon
    <3>3. Joins(way, head, rest, h, l)
      BY <1>1, <3>2, ConcatFacts, Zenon
    <3>4. 0 = h + l
      BY <3>1, <3>3, SeqEmpty, Zenon DEF Joins
    <3>5. h = 0
      BY ONLY <3>4, h \in Nat, l \in Nat
    <3> QED BY <3>2, <3>5, SeqEmpty, Zenon
  <2> QED BY <2>1, Zenon
<1>4. r \in 0 .. n - 1 /\ r < n /\ r + 1 \in 1 .. n /\ r + 1 \in 0 .. n
  BY <1>2, <1>3
<1>5. PICK f, q : f = F[r + 1] /\ q = P[r + 1]
  BY Zenon
<1>6. /\ Framed(f, list[r + 1]) /\ q \in Seq(Nat) /\ P[r] = f \o q
      /\ f \in Seq(Nat) /\ Len(f) >= 9 /\ Sized(f)
  BY <1>2, <1>4, <1>5, Zenon DEF Stream, Framed
<1>7. Together(x, way, f, q)
  BY <1>2, <1>6, Zenon DEF Together
<1>8. PICK bytes : bytes = x \o head
  BY Zenon
<1>9. PICK a \in Nat, h \in Nat, c \in Nat : a = Len(x) /\ h = Len(head) /\ c = Len(f)
  BY <1>2, <1>6, SeqFacts, Zenon
<1>10. Joins(bytes, x, head, a, h)
  BY <1>2, <1>8, <1>9, ConcatFacts, Zenon
<1>11. bytes \in Seq(Nat) /\ Len(bytes) = a + h
  BY <1>10, Zenon DEF Joins
<1>12. Together(bytes, rest, f, q)
  <2>1. Grouped(x, head, rest)
    BY <1>2, Regroup, Zenon
  <2> QED BY <1>1, <1>7, <1>8, <2>1, Zenon DEF Together, Grouped
<1>13. a < c /\ c >= 9
  BY <1>2, <1>4, <1>5, <1>6, <1>9, Zenon
<1>14. size(x) = IF a < 6 THEN 6 ELSE c
  <2>1. Len(x) <= Len(f)
    BY ONLY <1>9, <1>13, a \in Nat, c \in Nat
  <2> QED BY <1>2, <1>6, <1>7, <1>9, <2>1, SizeKnown, Zenon DEF kMbapHeaderSize
<1>15. a + h <= c
  <2>1. h <= size(x) - a
    BY <1>9, Zenon DEF Missing
  <2> QED BY ONLY <1>13, <1>14, <2>1, a \in Nat, c \in Nat, h \in Nat
<1>16. size(bytes) = IF a + h < 6 THEN 6 ELSE c
  <2>1. Len(bytes) <= Len(f)
    BY <1>9, <1>11, <1>15, Zenon
  <2> QED BY <1>6, <1>9, <1>11, <1>12, <2>1, SizeKnown, ZenonT(40) DEF kMbapHeaderSize
<1>17. ASSUME a + h = size(bytes)
       PROVE  /\ Len(bytes) # kMbapHeaderSize /\ r + 1 \in 1 .. n
              /\ understood(decode_app_message(from(bytes, kMbapHeaderSize))) = list[r + 1]
              /\ Pending(F, P, list, n, r + 1, <<>>, rest)
  <2>1. a + h = c /\ c # 6
    BY ONLY <1>13, <1>16, <1>17, a \in Nat, c \in Nat, h \in Nat
  <2>2. Alike(bytes, rest, f, q)
    BY <1>6, <1>11, <1>12, SameCut, Zenon
  <2>3. bytes = f /\ rest = q
    BY <1>9, <1>11, <2>1, <2>2, Zenon DEF Alike
  <2>4. Len(bytes) # kMbapHeaderSize
    BY <1>11, <2>1, Zenon DEF kMbapHeaderSize
  <2>5. understood(decode_app_message(from(bytes, kMbapHeaderSize))) = list[r + 1]
    BY <1>6, <2>3, Zenon DEF Framed
  <2>6. ASSUME r + 1 < n PROVE 0 < Len(F[(r + 1) + 1])
    <3>1. r + 1 \in 0 .. n - 1
      BY <1>2, <2>6
    <3>2. PICK g : g = F[(r + 1) + 1]
      BY Zenon
    <3>3. g \in Seq(Nat) /\ Len(g) >= 9
      BY <1>2, <3>1, <3>2, Zenon DEF Stream, Framed
    <3>4. 0 < Len(g)
      <4>1. Len(g) \in Nat
        BY <3>3, SeqFacts, Zenon
      <4> QED BY ONLY <3>3, <4>1
    <3> QED BY <3>2, <3>4, Zenon
  <2>7. P[r + 1] = <<>> \o rest /\ <<>> \in Seq(Nat) /\ Len(<<>>) = 0
    BY <1>5, <2>3, SeqNothing, SeqEmpty, Zenon
  <2>8. Pending(F, P, list, n, r + 1, <<>>, rest)
    BY <1>2, <1>4, <2>6, <2>7, Zenon DEF Pending
  <2> QED BY <1>4, <2>4, <2>5, <2>8, Zenon
<1>18. ASSUME a + h # size(bytes) PROVE Pending(F, P, list, n, r, bytes, rest)
  <2>1. a + h < c
    BY ONLY <1>13, <1>15, <1>16, <1>18, a \in Nat, c \in Nat, h \in Nat
  <2>2. P[r] = bytes \o rest
    BY <1>6, <1>12, Zenon DEF Together
  <2> QED BY <1>2, <1>5, <1>9, <1>11, <2>1, <2>2, Zenon DEF Pending
<1> QED BY <1>8, <1>11, <1>17, <1>18, Zenon DEF Advanced

(* A sequence of whatever.                                                   *)
Sequence(s) == \E S : s \in Seq(S)

(* A sequence that something was appended to.                                *)
Grown(longer, s, e) ==
  /\ Sequence(longer) /\ Len(s) \in Nat /\ Len(longer) = Len(s) + 1
  /\ Longer(longer, s, Len(s), e)

(* What Append does.                                                         *)
LEMMA Appended ==
  ASSUME NEW s, Sequence(s), NEW e
  PROVE  Grown(Append(s, e), s, e)
<1>1. PICK S : s \in Seq(S)
  BY Zenon DEF Sequence
<1>2. PICK T : T = S \union {e}
  BY Zenon
<1>3. s \in Seq(T) /\ e \in T
  BY <1>1, <1>2, SeqWider, Zenon
<1>4. /\ Append(s, e) \in Seq(T) /\ Len(Append(s, e)) = Len(s) + 1
      /\ \A i \in 1 .. Len(s) : Append(s, e)[i] = s[i]
      /\ Append(s, e)[Len(s) + 1] = e
  BY <1>3
<1>5. Len(s) \in Nat
  BY <1>3, SeqFacts, Zenon
<1> QED BY <1>4, <1>5, Zenon DEF Grown, Sequence, Longer

(* The sizes read_frame waits for are numbers.                               *)
LEMMA SizeNat ==
  ASSUME NEW x \in Seq(Nat)
  PROVE  size(x) \in Nat /\ size(x) >= 6 /\ (Len(x) < 6 => size(x) = 6)
<1>1. PICK a \in Nat : a = Len(x)
  BY SeqFacts, Zenon
<1>2. CASE a < 6
  <2>1. size(x) = 6
    BY <1>1, <1>2, Zenon DEF size, kMbapHeaderSize
  <2> QED BY <2>1
<1>3. CASE ~(a < 6)
  <2>1. size(x) = 6 + (from(x, 4)[1] * Radix + from(x, 4)[2])
    BY <1>1, <1>3, Zenon DEF size, kMbapHeaderSize, read_u16_be
  <2>2. 4 \in 0 .. a /\ 1 \in 1 .. a - 4 /\ 2 \in 1 .. a - 4
    BY ONLY <1>3, a \in Nat
  <2>3. from(x, 4) \in Seq(Nat) /\ Len(from(x, 4)) = a - 4
    BY <1>1, <2>2, FromFacts, Zenon
  <2>4. from(x, 4)[1] \in Nat /\ from(x, 4)[2] \in Nat
    BY <2>2, <2>3, SeqElement, Zenon
  <2>5. PICK y \in Nat, z \in Nat : y = from(x, 4)[1] /\ z = from(x, 4)[2]
    BY <2>4, Zenon
  <2>6. PICK b \in Nat : b = Radix
    BY RadixAssumption, Zenon
  <2>7. y * b \in Nat
    BY ONLY y \in Nat, b \in Nat
  <2>8. PICK c \in Nat : c = y * b
    BY <2>7, Zenon
  <2>9. 6 + (c + z) \in Nat /\ 6 + (c + z) >= 6
    BY ONLY c \in Nat, z \in Nat
  <2>10. size(x) = 6 + (c + z)
    BY <2>1, <2>5, <2>6, <2>8, Zenon
  <2> QED BY <1>1, <1>3, <2>9, <2>10, Zenon
<1> QED BY <1>2, <1>3, Zenon

(* Once the header is read, what is waited for does not change.              *)
LEMMA SizeKept ==
  ASSUME NEW x \in Seq(Nat), NEW head \in Seq(Nat), Missing(x, Len(head))
  PROVE  Len(x \o head) <= size(x \o head)
<1>1. PICK a \in Nat, h \in Nat : a = Len(x) /\ h = Len(head)
  BY SeqFacts, Zenon
<1>2. PICK bytes : bytes = x \o head
  BY Zenon
<1>3. Joins(bytes, x, head, a, h)
  BY <1>1, <1>2, ConcatFacts, Zenon
<1>4. bytes \in Seq(Nat) /\ Len(bytes) = a + h /\ \A j \in 1 .. a : bytes[j] = x[j]
  BY <1>3, Zenon DEF Joins
<1>5. PICK s \in Nat, t \in Nat : s = size(x) /\ t = size(bytes)
  BY <1>4, SizeNat, Zenon
<1>6. h <= s - a /\ t >= 6
  BY <1>1, <1>4, <1>5, SizeNat, Zenon DEF Missing
<1>7. a + h <= s
  BY ONLY <1>6, a \in Nat, h \in Nat, s \in Nat
<1>8. CASE a < 6
  <2>1. s = 6
    BY <1>1, <1>5, <1>8, SizeNat, Zenon
  <2>2. a + h <= t
    BY ONLY <1>6, <1>7, <2>1, a \in Nat, h \in Nat, t \in Nat
  <2> QED BY <1>2, <1>4, <1>5, <2>2, Zenon
<1>9. CASE ~(a < 6)
  <2>1. /\ ~(a + h < 6) /\ 5 \in 1 .. a /\ 6 \in 1 .. a
        /\ 4 \in 0 .. a /\ 4 \in 0 .. a + h
        /\ 1 \in 1 .. a - 4 /\ 2 \in 1 .. a - 4
        /\ 1 \in 1 .. (a + h) - 4 /\ 2 \in 1 .. (a + h) - 4
        /\ 4 + 1 = 5 /\ 4 + 2 = 6
    BY ONLY <1>9, a \in Nat, h \in Nat
  <2>2. from(x, 4)[1] = x[5] /\ from(x, 4)[2] = x[6]
    <3>1. \A i \in 1 .. Len(x) - 4 : from(x, 4)[i] = x[4 + i]
      BY <1>1, <2>1, FromFacts, Zenon
    <3> QED BY <1>1, <2>1, <3>1, Zenon
  <2>3. from(bytes, 4)[1] = bytes[5] /\ from(bytes, 4)[2] = bytes[6]
    <3>1. \A i \in 1 .. Len(bytes) - 4 : from(bytes, 4)[i] = bytes[4 + i]
      <4>1. bytes \in Seq(Nat) /\ 4 \in 0 .. Len(bytes)
        BY <1>4, <2>1, Zenon
      <4> QED BY <4>1, FromFacts, Zenon
    <3> QED BY <1>4, <2>1, <3>1, Zenon
  <2>4. bytes[5] = x[5] /\ bytes[6] = x[6]
    BY <1>4, <2>1, Zenon
  <2>5. read_u16_be(from(bytes, 4)) = read_u16_be(from(x, 4))
    BY <2>2, <2>3, <2>4, Zenon DEF read_u16_be
  <2>6. s = t
    BY <1>1, <1>4, <1>5, <1>9, <2>1, <2>5, Zenon DEF size, kMbapHeaderSize
  <2> QED BY <1>2, <1>4, <1>5, <1>7, <2>6, Zenon
<1> QED BY <1>8, <1>9, Zenon

(* What the reader has of a frame is shorter than what a length can say.     *)
LEMMA PendingShort ==
  ASSUME NEW F, NEW P, NEW list, NEW n, NEW r, NEW x, NEW way,
         Pending(F, P, list, n, r, x, way)
  PROVE  Len(x) < kMbapHeaderSize + U16
<1>1. /\ Stream(F, P, list, n) /\ r \in 0 .. n /\ x \in Seq(Nat)
      /\ (r < n => Len(x) < Len(F[r + 1])) /\ n \in Nat
  BY Zenon DEF Pending, Stream
<1>2. CASE r = n
  <2>1. x = <<>>
    BY <1>2, NothingPending, Zenon
  <2>2. 0 < 6 + U16
    BY Sizes
  <2> QED BY <2>1, <2>2, SeqEmpty, Zenon DEF kMbapHeaderSize
<1>3. CASE r # n
  <2>1. r < n /\ r \in 0 .. n - 1
    BY ONLY <1>1, <1>3
  <2>2. PICK f : f = F[r + 1]
    BY Zenon
  <2>3. f \in Seq(Nat) /\ Sized(f)
    BY <1>1, <2>1, <2>2, Zenon DEF Stream, Framed
  <2>4. PICK a \in Nat, c \in Nat : a = Len(x) /\ c = Len(f)
    BY <1>1, <2>3, SeqFacts, Zenon
  <2>5. a < c /\ c < 6 + U16
    BY <1>1, <2>1, <2>2, <2>3, <2>4, Zenon DEF Sized, kMbapHeaderSize
  <2>6. a < 6 + U16
    BY ONLY <2>5, Sizes, a \in Nat, c \in Nat
  <2> QED BY <2>4, <2>6, Zenon DEF kMbapHeaderSize
<1> QED BY <1>2, <1>3, Zenon

===============================================================================
