--------------------------- MODULE Inclusion_proof ---------------------------
(***************************************************************************)
(* No two u64 indices have the same key, so what a trie holds under the    *)
(* key of an index is the value of that index and of no other; and every   *)
(* receipt that decodes encodes to the bytes it came from.                 *)
(*                                                                         *)
(* The argument for the first.  The first byte of a key tells how many bytes follow; of  *)
(* two numbers with the same digits, the quotients by each power of 256    *)
(* are equal, from the highest power down to 1.                            *)
(***************************************************************************)
EXTENDS Inclusion, SequenceTheorems, TLAPS

(* Quotient and remainder are unique. *)
LEMMA QuotientIs ==
  ASSUME NEW d \in Nat \ {0}, NEW q \in Nat, NEW r \in 0 .. d - 1
  PROVE  (d * q + r) \div d = q
<1> DEFINE x == d * q + r
           a == x \div d
           b == x % d
<1>1. x \in Nat
  OBVIOUS
<1>2. a \in Nat /\ b \in 0 .. d - 1 /\ x = d * a + b
  BY <1>1
<1> HIDE DEF a, b
<1>3. d * q + r = d * a + b
  BY <1>2
<1>4. ~(a < q)
  <2> SUFFICES ASSUME a < q PROVE FALSE
    OBVIOUS
  <2>1. d * (a + 1) <= d * q
    BY <1>2
  <2>2. d * (a + 1) = d * a + d
    BY <1>2
  <2> QED
    BY <1>2, <1>3, <2>1, <2>2
<1>5. ~(q < a)
  <2> SUFFICES ASSUME q < a PROVE FALSE
    OBVIOUS
  <2>1. d * (q + 1) <= d * a
    BY <1>2
  <2>2. d * (q + 1) = d * q + d
    BY <1>2
  <2> QED
    BY <1>2, <1>3, <2>1, <2>2
<1> QED
  BY <1>2, <1>4, <1>5 DEF a

(* Dividing twice. *)
LEMMA NestedQuotient ==
  ASSUME NEW x \in Nat, NEW p \in Nat \ {0}
  PROVE  x \div (p * 256) = (x \div p) \div 256
<1> DEFINE q == x \div p
           r == x % p
           a == q \div 256
           b == q % 256
           d == p * 256
           s == p * b + r
<1>1. q \in Nat /\ r \in 0 .. p - 1 /\ x = p * q + r
  OBVIOUS
<1>2. a \in Nat /\ b \in 0 .. 255 /\ q = 256 * a + b
  BY <1>1
<1> HIDE DEF q, r, a, b
<1>3. d \in Nat \ {0} /\ s \in 0 .. d - 1
  <2>1. p * b <= p * 255 /\ p * b \in Nat
    BY <1>2
  <2> QED
    BY <1>1, <2>1
<1>4. x = d * a + s
  <2>1. p * q = p * (256 * a) + p * b
    BY <1>2
  <2>2. p * (256 * a) = d * a
    BY <1>2
  <2>3. p * b \in Nat /\ d * a \in Nat
    BY <1>2, <1>3
  <2> HIDE DEF d
  <2> QED
    BY <1>1, <2>1, <2>2, <2>3
<1> HIDE DEF d, s
<1>5. x \div d = a
  BY <1>2, <1>3, <1>4, QuotientIs
<1> QED
  BY <1>5 DEF d, a, q

-----------------------------------------------------------------------------
(* Powers and widths. *)

(* The powers of 256 up to that of a u64, and how they grow. *)
LEMMA Powers ==
  /\ Power256(0) = 1 /\ Power256(1) = 256
  /\ \A k \in 1 .. 8 : /\ Power256(k) \in Nat \ {0}
                       /\ Power256(k - 1) \in Nat \ {0}
                       /\ Power256(k) = Power256(k - 1) * 256
<1> DEFINE Step(k) == Power256(k - 1) \in Nat \ {0} /\ Power256(k) = Power256(k - 1) * 256
<1>1. Step(1)
  BY DEF Power256
<1>2. Step(2)
  BY DEF Power256
<1>3. Step(3)
  BY DEF Power256
<1>4. Step(4)
  BY DEF Power256
<1>5. Step(5)
  BY DEF Power256
<1>6. Step(6)
  BY DEF Power256
<1>7. Step(7)
  BY DEF Power256
<1>8. Step(8)
  BY DEF Power256
<1> HIDE DEF Step
<1>9. ASSUME NEW k \in 1 .. 8 PROVE Step(k)
  <2>1. k \in {1, 2, 3, 4, 5, 6, 7, 8}
    OBVIOUS
  <2> QED
    BY <1>1, <1>2, <1>3, <1>4, <1>5, <1>6, <1>7, <1>8, <2>1
<1>10. Power256(0) = 1 /\ Power256(1) = 256
  BY DEF Power256
<1>11. ASSUME NEW k \in 1 .. 8 PROVE Power256(k) \in Nat \ {0}
  BY <1>9 DEF Step
<1> QED
  BY <1>9, <1>10, <1>11 DEF Step

IsU64(n) == n \in Nat /\ \E w \in 1 .. 8 : n < Power256(w)

(* A u64 has a width, and fits in it. *)
LEMMA WidthFits ==
  ASSUME NEW n, IsU64(n)
  PROVE  Width(n) \in 1 .. 8 /\ n < Power256(Width(n))
<1> DEFINE P(w) == n < Power256(w) /\ (w = 1 \/ n >= Power256(w - 1))
<1>1. \A k \in 1 .. 8 : Power256(k) \in Nat /\ Power256(k - 1) \in Nat
  BY Powers
<1>2. \E w \in 1 .. 8 : P(w)
  <2>1. \A w \in 1 .. 8 : w = 1 \/ w - 1 \in 1 .. 8
    OBVIOUS
  <2>2. \A w \in 2 .. 8 : n < Power256(w) => n < Power256(w - 1) \/ P(w)
    BY <1>1 DEF IsU64
  <2>3. n < Power256(1) => P(1)
    OBVIOUS
  <2>4. PICK w \in 1 .. 8 : n < Power256(w)
    BY DEF IsU64
  <2> HIDE DEF P
  <2>5. w \in {1, 2, 3, 4, 5, 6, 7, 8}
    OBVIOUS
  <2>6. ASSUME NEW k \in 2 .. 8, n < Power256(k) PROVE n < Power256(k - 1) \/ P(k)
    BY <2>2, <2>6
  <2>7. /\ n < Power256(8) => n < Power256(7) \/ P(8)
        /\ n < Power256(7) => n < Power256(6) \/ P(7)
        /\ n < Power256(6) => n < Power256(5) \/ P(6)
        /\ n < Power256(5) => n < Power256(4) \/ P(5)
        /\ n < Power256(4) => n < Power256(3) \/ P(4)
        /\ n < Power256(3) => n < Power256(2) \/ P(3)
        /\ n < Power256(2) => n < Power256(1) \/ P(2)
    <3>1. \A k \in 2 .. 8 : n < Power256(k) => n < Power256(k - 1) \/ P(k)
      BY <2>6
    <3>2. 8 - 1 = 7 /\ 7 - 1 = 6 /\ 6 - 1 = 5 /\ 5 - 1 = 4 /\ 4 - 1 = 3 /\ 3 - 1 = 2 /\ 2 - 1 = 1
      OBVIOUS
    <3> QED
      BY <3>1, <3>2
  <2>8. P(1) \/ P(2) \/ P(3) \/ P(4) \/ P(5) \/ P(6) \/ P(7) \/ P(8)
    BY <2>3, <2>4, <2>5, <2>7
  <2> QED
    BY <2>8
<1>3. Width(n) = CHOOSE w \in 1 .. 8 : P(w)
  BY DEF Width
<1> QED
  BY <1>2, <1>3

-----------------------------------------------------------------------------

(* Numbers with the same digits are equal. *)
LEMMA SameDigits ==
  ASSUME NEW n \in Nat, NEW m \in Nat, NEW w \in 1 .. 8, n < Power256(w), m < Power256(w),
         Base256(n, w) = Base256(m, w)
  PROVE  n = m
<1> DEFINE Same(k) == n \div Power256(k) = m \div Power256(k)
<1>1. Same(w)
  <2> DEFINE p == Power256(w)
  <2>1. p \in Nat \ {0} /\ n \in 0 .. p - 1 /\ m \in 0 .. p - 1
    BY Powers
  <2> HIDE DEF p
  <2>2. n = p * 0 + n /\ m = p * 0 + m
    BY <2>1
  <2>3. n \div p = 0 /\ m \div p = 0
    BY <2>1, <2>2, QuotientIs
  <2> QED
    BY <2>3 DEF p
<1>2. ASSUME NEW k \in 1 .. 8, k <= w, Same(k) PROVE Same(k - 1)
  <2> DEFINE p == Power256(k - 1)
             i == w - k + 1
             x == n \div p
             y == m \div p
  <2>1. p \in Nat \ {0} /\ Power256(k) = p * 256
    BY Powers
  <2>2. i \in 1 .. w /\ w - i = k - 1
    BY <1>2
  <2>3. x % 256 = y % 256
    <3>1. Base256(n, w)[i] = x % 256 /\ Base256(m, w)[i] = y % 256
      BY <2>2 DEF Base256
    <3> QED
      BY <3>1
  <2>4. x \div 256 = y \div 256
    <3>1. n \div Power256(k) = x \div 256
      BY <2>1, NestedQuotient
    <3>2. m \div Power256(k) = y \div 256
      BY <2>1, NestedQuotient
    <3> QED
      BY <1>2, <3>1, <3>2
  <2>5. x \in Nat /\ y \in Nat
    BY <2>1
  <2> HIDE DEF x, y
  <2>6. x = y
    BY <2>3, <2>4, <2>5
  <2> QED
    BY <2>6 DEF x, y
<1> HIDE DEF Same
<1>3. Same(0)
  <2>1. w \in {1, 2, 3, 4, 5, 6, 7, 8}
    OBVIOUS
  <2>2. ASSUME NEW k \in 1 .. 8, k <= w => Same(k) PROVE k - 1 <= w => Same(k - 1)
    BY <1>1, <1>2, <2>2
  <2> DEFINE T(k) == k <= w => Same(k)
  <2>3. T(8)
    BY <1>1
  <2>4. T(7)
    BY <2>2, <2>3
  <2>5. T(6)
    BY <2>2, <2>4
  <2>6. T(5)
    BY <2>2, <2>5
  <2>7. T(4)
    BY <2>2, <2>6
  <2>8. T(3)
    BY <2>2, <2>7
  <2>9. T(2)
    BY <2>2, <2>8
  <2>10. T(1)
    BY <2>2, <2>9
  <2>11. T(0)
    BY <2>2, <2>10
  <2> QED
    BY <2>11
<1>4. n \div 1 = n /\ m \div 1 = m
  OBVIOUS
<1> QED
  BY <1>3, <1>4, Powers DEF Same

(* The three forms of a key. *)
LEMMA KeyForms ==
  ASSUME NEW n, IsU64(n)
  PROVE  LET key == RlpEncodeIndex(n)
             w   == Width(n)
         IN  /\ n = 0 => Len(key) = 1 /\ key[1] = 128
             /\ n \in 1 .. 127 => Len(key) = 1 /\ key[1] = n
             /\ n >= 128 => /\ w \in 1 .. 8 /\ n < Power256(w)
                            /\ Len(key) = w + 1 /\ key[1] = 128 + w
                            /\ \A i \in 1 .. w : key[i + 1] = Base256(n, w)[i]
<1> DEFINE key == RlpEncodeIndex(n)
           w   == Width(n)
<1>1. n \in Nat /\ w \in 1 .. 8 /\ n < Power256(w)
  BY WidthFits DEF IsU64
<1>2. CASE n >= 128
  <2> DEFINE digits == Base256(n, w)
  <2>1. digits \in Seq(Int) /\ Len(digits) = w
    <3>1. \A i \in 1 .. w : w - i \in 0 .. 7
      BY <1>1
    <3>2. \A k \in 0 .. 7 : Power256(k) \in Nat \ {0}
      <4>1. ASSUME NEW k \in 0 .. 7 PROVE Power256(k) \in Nat \ {0}
        <5>1. k + 1 \in 1 .. 8 /\ (k + 1) - 1 = k
          OBVIOUS
        <5> QED
          BY <5>1, Powers
      <4> QED
        BY <4>1
    <3>3. \A i \in 1 .. w : (n \div Power256(w - i)) % 256 \in Int
      BY <1>1, <3>1, <3>2
    <3> HIDE DEF w
    <3>4. digits \in [1 .. w -> Int]
      BY <3>3 DEF Base256
    <3> HIDE DEF digits
    <3> QED
      BY <1>1, <3>4
  <2>2. key = <<128 + w>> \o digits
    BY <1>1, <1>2 DEF RlpEncodeIndex
  <2>3. <<128 + w>> \in Seq(Int) /\ Len(<<128 + w>>) = 1
    BY <1>1
  <2> HIDE DEF digits, key, w
  <2>4. Len(key) = w + 1 /\ key[1] = 128 + w
    BY <1>1, <2>1, <2>2, <2>3
  <2>5. ASSUME NEW i \in 1 .. w PROVE key[i + 1] = digits[i]
    BY <1>1, <2>1, <2>2, <2>3
  <2> QED
    BY <1>1, <1>2, <2>4, <2>5 DEF digits, key, w
<1>3. CASE n < 128
  BY <1>1, <1>3 DEF RlpEncodeIndex
<1> QED
  BY <1>1, <1>2, <1>3

(* No two indices have the same key (rlp_encode_index). *)
THEOREM KeysDistinct ==
  ASSUME NEW n, NEW m, IsU64(n), IsU64(m), RlpEncodeIndex(n) = RlpEncodeIndex(m)
  PROVE  n = m
<1> DEFINE v == Width(n)
           w == Width(m)
<1>1. n \in Nat /\ m \in Nat
  BY DEF IsU64
<1>2. CASE n >= 128 /\ m >= 128
  <2> DEFINE key == RlpEncodeIndex(n)
  <2>1. /\ v \in 1 .. 8 /\ n < Power256(v) /\ key[1] = 128 + v
        /\ \A i \in 1 .. v : key[i + 1] = Base256(n, v)[i]
    BY <1>2, KeyForms
  <2>2. /\ w \in 1 .. 8 /\ m < Power256(w) /\ key[1] = 128 + w
        /\ \A i \in 1 .. w : key[i + 1] = Base256(m, w)[i]
    BY <1>2, KeyForms
  <2> HIDE DEF key, v, w
  <2>3. v = w
    BY <2>1, <2>2
  <2>4. \A i \in 1 .. w : Base256(n, w)[i] = Base256(m, w)[i]
    BY <2>1, <2>2, <2>3
  <2>5. Base256(n, w) = Base256(m, w)
    BY <2>4 DEF Base256
  <2> QED
    BY <1>1, <2>1, <2>2, <2>3, <2>5, SameDigits
<1>3. CASE n < 128 /\ m < 128
  <2>1. (n = 0 \/ n \in 1 .. 127) /\ (m = 0 \/ m \in 1 .. 127)
    BY <1>1, <1>3
  <2>2. RlpEncodeIndex(n)[1] = (IF n = 0 THEN 128 ELSE n) /\ RlpEncodeIndex(m)[1] = (IF m = 0 THEN 128 ELSE m)
    BY <2>1, KeyForms
  <2> QED
    BY <2>1, <2>2
<1>4. \A i : IsU64(i) => (i < 128 <=> Len(RlpEncodeIndex(i)) = 1)
  <2> SUFFICES ASSUME NEW i, IsU64(i) PROVE i < 128 <=> Len(RlpEncodeIndex(i)) = 1
    OBVIOUS
  <2>1. i \in Nat
    BY DEF IsU64
  <2>2. CASE i >= 128
    <3>1. Width(i) \in 1 .. 8 /\ Len(RlpEncodeIndex(i)) = Width(i) + 1
      BY <2>2, KeyForms
    <3> QED
      BY <2>1, <2>2, <3>1
  <2>3. CASE i < 128
    <3>1. i = 0 \/ i \in 1 .. 127
      BY <2>1, <2>3
    <3>2. Len(RlpEncodeIndex(i)) = 1
      BY <3>1, KeyForms
    <3> QED
      BY <2>3, <3>2
  <2> QED
    BY <2>1, <2>2, <2>3
<1>5. n < 128 <=> m < 128
  BY <1>4
<1> QED
  BY <1>1, <1>2, <1>3, <1>5

-----------------------------------------------------------------------------
(* Receipts. *)

(* The type of a receipt's bytes. *)
IsWire(raw) ==
  /\ raw = Wire(raw.first, raw.items, raw.rest)
  /\ raw.first \in -1 .. 255 /\ raw.items \in Seq(STRING) /\ raw.rest \in Int

(* The bytes that a receipt encodes to are the ones that it was decoded from. *)
RoundTrips(receipt, raw) ==
  /\ ToWireBytes(receipt) = [raw EXCEPT !.rest = 0]
  /\ raw.rest = 0 \/ receipt.kind = "Ethereum"

(* A list of six items is its first four and the two behind them. *)
LEMMA SplitItems ==
  ASSUME NEW S, NEW items \in Seq(S)
  PROVE  /\ Len(items) = 4 => SubSeq(items, 1, 4) = items /\ items \o <<>> = items
         /\ Len(items) = 6 => SubSeq(items, 1, 4) \o <<items[5], items[6]>> = items
<1>1. CASE Len(items) = 4
  BY <1>1, SubSeqFull
<1>2. CASE Len(items) = 6
  <2> DEFINE joined == SubSeq(items, 1, 4) \o <<items[5], items[6]>>
  <2>1. /\ SubSeq(items, 1, 4) \in Seq(S) /\ Len(SubSeq(items, 1, 4)) = 4
        /\ \A i \in 1 .. 4 : SubSeq(items, 1, 4)[i] = items[i]
    <3>1. 1 \in 1 .. Len(items) + 1 /\ 4 \in 0 .. Len(items) /\ 4 - 1 + 1 = 4
      BY <1>2
    <3> QED
      BY <3>1, SubSeqProperties
  <2>2. <<items[5], items[6]>> \in Seq(S)
    <3> DEFINE n == items[5]
               v == items[6]
    <3>0. 5 \in 1 .. Len(items) /\ 6 \in 1 .. Len(items)
      BY <1>2
    <3>1. n \in S /\ v \in S
      BY <3>0, ElementOfSeq
    <3> HIDE DEF n, v
    <3>2. <<n, v>> \in Seq(S)
      BY <3>1
    <3> QED
      BY <3>2 DEF n, v
  <2>3. joined \in Seq(S) /\ Len(joined) = 6
    BY <2>1, <2>2
  <2>4. ASSUME NEW i \in 1 .. 6 PROVE joined[i] = items[i]
    BY <1>2, <2>1, <2>2
  <2> QED
    BY <1>2, <2>3, <2>4
<1> QED
  BY <1>1, <1>2

(* Whatever decodes encodes to the same bytes, up to what follows the list of
   an Ethereum receipt. *)
LEMMA DecodeThenEncode ==
  ASSUME NEW raw, IsWire(raw), DecodeReceipt(raw).tag = "Decoded"
  PROVE  RoundTrips(DecodeReceipt(raw).receipt, raw)
<1> DEFINE outcome == DecodeReceipt(raw)
<1>0. /\ raw = Wire(raw.first, raw.items, raw.rest)
      /\ raw.first \in -1 .. 255 /\ raw.items \in Seq(STRING) /\ raw.rest \in Int
  BY DEF IsWire
<1>1. [raw EXCEPT !.rest = 0] = Wire(raw.first, raw.items, 0)
  BY <1>0 DEF Wire
<1>2. \A error : Refused(error).tag = "Err"
  BY DEF Refused
<1>3. ASSUME NEW types, types = {ListHeader} \/ types = 1 .. 4,
             outcome = ReceiptEnvelopeDecode(raw, types)
      PROVE  RoundTrips(outcome.receipt, raw)
  <2> DEFINE type == IF raw.first = ListHeader THEN 0 ELSE raw.first
  <2>1. /\ ReadsReceipt(raw) /\ raw.first \in types
        /\ outcome.receipt = Ethereum(type, raw.items)
    BY <1>2, <1>3 DEF ReceiptEnvelopeDecode, Decoded
  <2>2. (IF type = 0 THEN ListHeader ELSE type) = raw.first
    BY <1>3, <2>1 DEF ListHeader
  <2>3. raw.items \o <<>> = raw.items
    BY <1>0
  <2> QED
    BY <1>1, <2>1, <2>2, <2>3 DEF RoundTrips, ToWireBytes, TxType, Ethereum
<1>4. ASSUME raw.first \in ArbitrumTxTypeMin .. ArbitrumTxTypeMax, outcome = DecodeArbitrum(raw)
      PROVE  RoundTrips(outcome.receipt, raw)
  <2>1. raw.rest = 0 /\ outcome.receipt = Arbitrum(raw.first, raw.items)
    BY <1>2, <1>4 DEF DecodeArbitrum, Decoded
  <2>2. raw.items \o <<>> = raw.items /\ raw.first # 0
    BY <1>0, <1>4 DEF ArbitrumTxTypeMin
  <2> QED
    BY <1>1, <2>1, <2>2 DEF RoundTrips, ToWireBytes, TxType, Arbitrum
<1>5. ASSUME raw.first = OpDepositTxType, outcome = DecodeOpDeposit(raw)
      PROVE  RoundTrips(outcome.receipt, raw)
  <2> DEFINE fields == SubSeq(raw.items, 1, 4)
  <2>1. raw.rest = 0 /\ Len(raw.items) \in {4, 6}
    BY <1>2, <1>5 DEF DecodeOpDeposit
  <2>2. CASE Len(raw.items) = 4
    <3>1. outcome.receipt = OpDeposit(fields, {}, {})
      BY <1>2, <1>5, <2>2 DEF DecodeOpDeposit, Decoded
    <3>2. fields \o <<>> = raw.items
      BY <1>0, <2>2, SplitItems
    <3> HIDE DEF fields, outcome
    <3>3. ToWireBytes(outcome.receipt) = Wire(126, raw.items, 0)
      BY <3>1, <3>2 DEF ToWireBytes, TxType, OpDeposit, OpDepositTxType
    <3> QED
      BY <1>1, <1>5, <2>1, <3>3 DEF RoundTrips, OpDepositTxType
  <2>3. CASE Len(raw.items) = 6
    <3> DEFINE n == raw.items[5]
               v == raw.items[6]
    <3>1. outcome.receipt = OpDeposit(fields, {n}, {v})
      BY <1>2, <1>5, <2>3 DEF DecodeOpDeposit, Decoded
    <3>2. fields \o <<n, v>> = raw.items
      BY <1>0, <2>3, SplitItems
    <3> HIDE DEF n, v, fields, outcome
    <3>3. (CHOOSE x \in {n} : TRUE) = n /\ (CHOOSE x \in {v} : TRUE) = v
      OBVIOUS
    <3>4. ToWireBytes(outcome.receipt) = Wire(126, fields \o <<n, v>>, 0)
      BY <3>1, <3>3 DEF ToWireBytes, TxType, OpDeposit, OpDepositTxType
    <3> QED
      BY <1>1, <1>5, <2>1, <3>2, <3>4 DEF RoundTrips, OpDepositTxType
  <2> QED
    BY <2>1, <2>2, <2>3
<1> QED
  BY <1>0, <1>2, <1>3, <1>4, <1>5 DEF DecodeReceipt

=============================================================================
