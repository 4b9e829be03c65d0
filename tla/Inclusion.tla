----------------------------- MODULE Inclusion ------------------------------
(***************************************************************************)
(* src/inclusion.rs: inclusion of a transaction or receipt in the trie of  *)
(* a block, and the receipt codec.                                         *)
(*                                                                         *)
(* The root of a trie is the set of its <<key, value>> pairs, and the      *)
(* nodes from the root to a key are one Path of that trie: alloy's         *)
(* verify_proof accepts a value exactly at the end of such a path.         *)
(*                                                                         *)
(* The bytes of a receipt are a record: the first byte, the items of the   *)
(* RLP list behind it (which begins with it, when it is a list header),    *)
(* and how many bytes follow that list, or -1 if it is cut short.  No      *)
(* receipt begins with an RLP string header (0x80 .. 0xbf).                *)
(***************************************************************************)
EXTENDS Integers, Sequences

Refused(error) == [tag |-> "Err", error |-> error]
Included       == [tag |-> "Included"]

-----------------------------------------------------------------------------
(* Keys. *)

(* 256 to the power n, for the lengths that a u64 can have. *)
Power256(n) ==
  LET p == 256 * 256
  IN  CASE n = 0 -> 1  [] n = 1 -> 256    [] n = 2 -> p      [] n = 3 -> p * 256
        [] n = 4 -> p * p      [] n = 5 -> p * p * 256      [] n = 6 -> p * p * p
        [] n = 7 -> p * p * p * 256      [] n = 8 -> p * p * p * p

(* How many bytes a u64 has without leading zeros, and those bytes. *)
Width(n) ==
  CHOOSE w \in 1 .. 8 : n < Power256(w) /\ (w = 1 \/ n >= Power256(w - 1))

Base256(n, width) == [i \in 1 .. width |-> (n \div Power256(width - i)) % 256]

(* Mutated form: the first index is the byte zero, and none has a prefix. *)
RlpEncodeIndex_Raw(index) == Base256(index, Width(index))

(* RLP of an integer: its bytes without leading zeros, behind their number
   unless they are a single byte below 0x80. *)
RlpEncodeIndex(index) ==
  IF index = 0 THEN <<128>>
  ELSE IF index < 128 THEN <<index>>
  ELSE <<128 + Width(index)>> \o Base256(index, Width(index))

Path(root, key) == [root |-> root, key |-> key]

(* alloy_trie::proof::verify_proof. *)
VerifyProof(root, key, value, nodes) ==
  /\ nodes = <<Path(root, key)>>
  /\ <<key, value>> \in root

VerifyMptInclusion(root, key, value, nodes) ==
  IF nodes # <<>> /\ VerifyProof(root, key, value, nodes)
  THEN Included ELSE Refused("MptInclusion")

VerifyTransactionInclusion(root, index, raw, nodes) ==
  VerifyMptInclusion(root, RlpEncodeIndex(index), raw, nodes)

VerifyReceiptInclusion(root, index, raw, nodes) ==
  VerifyMptInclusion(root, RlpEncodeIndex(index), raw, nodes)

-----------------------------------------------------------------------------
(* Receipts. *)

Wire(first, items, rest) == [first |-> first, items |-> items, rest |-> rest]

EmptyBytes == Wire(-1, <<>>, 0)
ListHeader == 192
Malformed  == "malformed"

ArbitrumTxTypeMin == 100
ArbitrumTxTypeMax == 106
OpDepositTxType   == 126

Ethereum(type, items) == [kind |-> "Ethereum", type |-> type, receipt |-> items]
Arbitrum(type, items) == [kind |-> "Arbitrum", type |-> type, receipt |-> items]
OpDeposit(items, nonce, version) ==
  [kind |-> "OpDeposit", receipt |-> items, nonce |-> nonce, version |-> version]

Decoded(receipt) == [tag |-> "Decoded", receipt |-> receipt]

WellFormed(items) == \A i \in DOMAIN items : items[i] # Malformed

(* ReceiptWithBloom::decode consumes one list of status, gas, bloom and logs,
   and leaves what follows it. *)
ReadsReceipt(raw) == raw.rest >= 0 /\ Len(raw.items) = 4 /\ WellFormed(raw.items)

(* ReceiptEnvelope::decode and decode_2718 leave what follows, too; the latter
   knows no envelope of type 0. *)
ReceiptEnvelopeDecode(raw, types) ==
  IF ReadsReceipt(raw) /\ raw.first \in types
  THEN Decoded(Ethereum(IF raw.first = ListHeader THEN 0 ELSE raw.first, raw.items))
  ELSE Refused("ReceiptDecode")

(* A body of 4 items, or of 6 with depositNonce and depositReceiptVersion; an
   Option is a set of at most one value. *)
DecodeOpDeposit(raw) ==
  IF raw.rest # 0 \/ Len(raw.items) \notin {4, 6} \/ ~WellFormed(raw.items)
  THEN Refused("ReceiptDecode")
  ELSE LET fields == SubSeq(raw.items, 1, 4)
       IN  IF Len(raw.items) = 4 THEN Decoded(OpDeposit(fields, {}, {}))
           ELSE Decoded(OpDeposit(fields, {raw.items[5]}, {raw.items[6]}))

DecodeArbitrum(raw) ==
  IF ReadsReceipt(raw) /\ raw.rest = 0 THEN Decoded(Arbitrum(raw.first, raw.items))
                                       ELSE Refused("ReceiptDecode")

DecodeReceipt(raw) ==
  IF raw.first >= 128 THEN ReceiptEnvelopeDecode(raw, {ListHeader})
  ELSE IF raw.first \in ArbitrumTxTypeMin .. ArbitrumTxTypeMax THEN DecodeArbitrum(raw)
  ELSE IF raw.first = OpDepositTxType THEN DecodeOpDeposit(raw)
  ELSE IF raw.first \in 0 .. 4 THEN ReceiptEnvelopeDecode(raw, 1 .. 4)
  ELSE Refused("ReceiptDecode")

(* DecodedReceipt::tx_type. *)
TxType(receipt) ==
  IF receipt.kind = "OpDeposit" THEN OpDepositTxType ELSE receipt.type

(* Mutated form: a nonce of a deposit is written alone, or dropped. *)
ToWireBytes_NoVersion(receipt) ==
  LET tail == IF receipt.kind # "OpDeposit" \/ receipt.nonce = {} THEN <<>>
              ELSE <<CHOOSE n \in receipt.nonce : TRUE>>
  IN  Wire(IF TxType(receipt) = 0 THEN ListHeader ELSE TxType(receipt), receipt.receipt \o tail, 0)

(* The nonce and the version of a deposit are written together or not at all. *)
ToWireBytes(receipt) ==
  LET tail == IF receipt.kind # "OpDeposit" \/ receipt.nonce = {} \/ receipt.version = {} THEN <<>>
              ELSE <<CHOOSE n \in receipt.nonce : TRUE, CHOOSE v \in receipt.version : TRUE>>
  IN  Wire(IF TxType(receipt) = 0 THEN ListHeader ELSE TxType(receipt), receipt.receipt \o tail, 0)

VerifyAndDecodeReceipt(root, index, raw, nodes) ==
  IF VerifyReceiptInclusion(root, index, raw, nodes) = Included
  THEN DecodeReceipt(raw) ELSE Refused("MptInclusion")

=============================================================================
