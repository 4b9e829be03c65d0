------------------------------ MODULE MCChain -------------------------------
(***************************************************************************)
(* A small chain.  Epochs and eras hold two blocks or slots:               *)
(*                                                                         *)
(*   blocks 0..2   before Paris, in epochs 0 and 1 (1 is partial)          *)
(*   slots  0, 1   before Paris, no payload                                *)
(*   slots  2, 3   block 3, then an empty slot      (historical_roots)     *)
(*   slots  4, 5   block 4, then an empty slot      (Capella)              *)
(*   slots  6, 7   blocks 5 and 6                   (Deneb)                *)
(*   slot   8      block 7, whose era has not ended (Electra)              *)
(***************************************************************************)
EXTENDS Integers

TimeOf(slot) == 1 + 2 * slot
Header(number, time, content) ==
  [number |-> number, timestamp |-> time, content |-> content]

MCPowHeader == [n \in 0 .. 2 |-> Header(n, n, "canonical")]

ProposedSlot == [n \in 3 .. 7 |-> CASE n = 3 -> 2 [] n = 4 -> 4 [] n >= 5 -> n + 1]
PosHeader(n) == Header(n, TimeOf(ProposedSlot[n]), "canonical")
GindexAt(slot) == IF slot < 6 THEN 3228 ELSE 6444
PosBlock(n) == [tag |-> ProposedSlot[n],
                leaves |-> {<<GindexAt(ProposedSlot[n]), PosHeader(n)>>}]

MCBlockRootAt ==
  [s \in 0 .. 8 |-> CASE s < 2 -> [tag |-> s, leaves |-> {}]
                      [] s \in {2, 3} -> PosBlock(3)
                      [] s \in {4, 5} -> PosBlock(4)
                      [] s >= 6 -> PosBlock(s - 1)]

CanonicalHeader(n) == IF n < 3 THEN MCPowHeader[n] ELSE PosHeader(n)

=============================================================================
