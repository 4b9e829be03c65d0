-------------------------- MODULE ArchiveRpc_proof --------------------------
(***************************************************************************)
(* For every chain and whatever the upstreams answer: a fetch of an        *)
(* ArchiveRpcSource keeps its types, and the bytes it encodes are never    *)
(* decoded to another proof; nor do they fail to decode, but for a block   *)
(* that was never mined and that an epoch provider vouches for.  And if    *)
(* the upstreams answer from the chain, the bytes are the canonical proof. *)
(*                                                                         *)
(* The argument for the second.  Before Paris the decoder's choice hangs   *)
(* on the timestamp, of which nothing is known but that the header was     *)
(* found in some list; a proof by an accumulator has a size of its own.    *)
(* From Paris on, the fork of the beacon block is that of the slot of the  *)
(* timestamp, and the timestamps of the execution forks are those of       *)
(* slots.                                                                  *)
(*                                                                         *)
(* The argument for the third.  FaithInd follows one header of the chain   *)
(* through the fetch: the record of its epoch, or the beacon block of its  *)
(* slot, its fork and the roots of its era are those that CanonicalProof   *)
(* names, so that what is encoded is that proof.                           *)
(***************************************************************************)
EXTENDS ArchiveRpc, ProofConstruction_proof

(* A proof of the variant that its header calls for decodes as itself. *)
LEMMA RightVariantDecodes ==
  ASSUME NEW header, NEW proof, proof.variant = ProofVariant(header)
  PROVE  LET result == Encoded(header, proof)
         IN  Decodable(result.bytes) /\ FromSszBytes(result.bytes) = result.bytes
BY DEF Encoded, Decodable, FromSszBytes

-----------------------------------------------------------------------------
(* The inductive invariant: what has been established of the header. *)

IsTyped(header) == header.number \in Nat /\ header.timestamp \in Nat

PostMerge(header) ==
  IsTyped(header) /\ IsParisActive(header.number) /\ header.timestamp >= GenesisTime

GoodEnd(result) ==
  /\ result.tag \in {"Err", "Panic", "Bytes"}
  /\ result.tag = "Bytes" => IF Decodable(result.bytes)
                             THEN FromSszBytes(result.bytes) = result.bytes
                             ELSE VouchedFromShanghai(result.bytes.header)

RpcInd ==
  /\ providers \in [epoch : BOOLEAN, beacon : BOOLEAN]
  /\ faithful \in BOOLEAN
  /\ fetch.pc \in {"idle", "raw", "epoch", "block", "batch", "done"}
  /\ fetch.pc = "raw" => fetch.number \in Numbers
  /\ fetch.pc = "epoch" => /\ providers.epoch /\ IsTyped(fetch.header)
                           /\ ~IsParisActive(fetch.header.number)
                           /\ Era(fetch.header.number) \in DOMAIN Accumulators
  /\ fetch.pc \in {"block", "batch"} => providers.beacon /\ PostMerge(fetch.header)
  /\ fetch.pc = "batch" => fetch.block.fork = ForkForSlot(SlotOf(fetch.header))
  /\ IF fetch.pc = "done" THEN GoodEnd(fetch.result) ELSE fetch.result = NoHeader

(* A fetch that has ended well. *)
LEMMA EndIsGood ==
  ASSUME NEW result, GoodEnd(result), fetch' = End(result), faithful' \in BOOLEAN,
         UNCHANGED providers, RpcInd
  PROVE  RpcInd'
BY DEF RpcInd, End, Fetch

(* Failures and panics end it well. *)
LEMMA NoBytesIsGood == GoodEnd(Failed) /\ GoodEnd(Panicked)
BY DEF GoodEnd, Failed, Panicked

(* The proof made before Paris. *)
LEMMA PreMergeIsGood ==
  ASSUME NEW header, IsTyped(header), ~IsParisActive(header.number),
         NEW records \in Accumulators[Era(header.number)]
  PROVE  GoodEnd(ConstructPreMergeProof(header, records))
<1> DEFINE proof  == PreMergeProof(header, records)
           result == Encoded(header, proof)
<1>1. result.tag = "Bytes" /\ result.bytes.header = header /\ result.bytes.proof = proof
  BY DEF Encoded
<1>2. proof.variant = "HistoricalHashes"
  BY DEF PreMergeProof
<1>3. CASE <<Offset(header.number), header>> \in records
  <2>1. ASSUME header.timestamp < ShanghaiTime PROVE GoodEnd(result)
    <3>1. ProofVariant(header) = "HistoricalHashes"
      BY <2>1, MainnetNumbers DEF ProofVariant, IsShanghaiActive, IsCancunActive, IsTyped
    <3>2. Decodable(result.bytes) /\ FromSszBytes(result.bytes) = result.bytes
      BY <1>2, <3>1, RightVariantDecodes
    <3> HIDE DEF result
    <3> QED
      BY <1>1, <3>2 DEF GoodEnd
  <2>2. ASSUME ~(header.timestamp < ShanghaiTime) PROVE GoodEnd(result)
    <3>1. IsShanghaiActive(header.timestamp)
      BY <2>2, MainnetNumbers DEF IsShanghaiActive, IsTyped
    <3>2. ProofVariant(header) \in {"HistoricalSummariesDeneb", "HistoricalSummariesCapella"}
      BY <3>1 DEF ProofVariant
    <3>3. VouchedFromShanghai(header)
      BY <1>3, <3>1 DEF VouchedFromShanghai
    <3> HIDE DEF result, proof
    <3>4. ~Decodable(result.bytes)
      BY <1>1, <1>2, <3>2 DEF Decodable, WireSize
    <3> QED
      BY <1>1, <3>3, <3>4 DEF GoodEnd
  <2> QED
    BY <1>3, <2>1, <2>2, NoBytesIsGood DEF ConstructPreMergeProof
<1>4. CASE <<Offset(header.number), header>> \notin records
  BY <1>4, NoBytesIsGood DEF ConstructPreMergeProof
<1> QED
  BY <1>3, <1>4

(* The proof made from Paris on. *)
LEMMA PostMergeIsGood ==
  ASSUME NEW header, PostMerge(header), NEW fork, fork = ForkForSlot(SlotOf(header)),
         NEW batch, NEW block
  PROVE  GoodEnd(Encoded(header, PostMergeProof(fork, SlotOf(header), batch, block)))
<1> DEFINE slot   == SlotOf(header)
           proof  == PostMergeProof(fork, slot, batch, block)
           result == Encoded(header, proof)
<1>1. /\ slot \in Nat
      /\ slot >= CapellaSlot <=> IsShanghaiActive(header.timestamp)
      /\ slot >= DenebSlot <=> IsCancunActive(header.timestamp)
  BY SlotOfFork DEF PostMerge, IsTyped, SlotOf
<1>2. CapellaSlot \in Nat /\ DenebSlot \in Nat /\ CapellaSlot <= DenebSlot
  BY SlotClock, MainnetNumbers
<1>3. proof.variant = ProofVariant(header)
  <2>1. /\ slot < CapellaSlot => proof = HistoricalRootsProof(slot, batch, block)
        /\ slot >= CapellaSlot /\ slot < DenebSlot => proof = CapellaProof(slot, batch.block_roots, block)
        /\ slot >= DenebSlot => proof = DenebProof(slot, batch.block_roots, block)
    BY <1>1, ProofOfSlot
  <2> HIDE DEF slot, proof
  <2> QED
    BY <1>1, <1>2, <2>1
    DEF ProofVariant, PostMerge, HistoricalRootsProof, CapellaProof, DenebProof, BeaconProof
<1>4. Decodable(result.bytes) /\ FromSszBytes(result.bytes) = result.bytes
  BY <1>3, RightVariantDecodes
<1>5. result.tag = "Bytes"
  BY DEF Encoded
<1> QED
  BY <1>4, <1>5 DEF GoodEnd

(* Where raw_block_to_alloy_header's result is sent. *)
LEMMA DispatchIsGood ==
  ASSUME RpcInd, NEW header, IsTyped(header),
         ~IsParisActive(header.number) => Era(header.number) \in DOMAIN Accumulators,
         fetch' = Dispatch(header), faithful' \in BOOLEAN, UNCHANGED providers
  PROVE  RpcInd'
<1>1. CASE fetch' = End(Failed)
  BY <1>1, EndIsGood, NoBytesIsGood
<1>2. CASE fetch' # End(Failed)
  BY <1>2, SlotClock DEF Dispatch, RpcInd, Fetch, PostMerge, IsTyped
<1> QED
  BY <1>1, <1>2

(* Every step keeps the invariant. *)
LEMMA NextRpcInd == RpcInd /\ [RpcNext]_rpcVars => RpcInd'
<1> SUFFICES ASSUME RpcInd, [RpcNext]_rpcVars PROVE RpcInd'
  OBVIOUS
<1>1. ASSUME NEW n \in Numbers, BeginFetch(n) PROVE RpcInd'
  BY <1>1 DEF BeginFetch, RpcInd, Fetch
<1>2. ASSUME RawBlockReturns PROVE RpcInd'
  <2>1. PICK raw \in RawBlocks[fetch.number] :
          /\ fetch' = CASE raw.tag = "Block"     -> Dispatch(RawBlockToAlloyHeader(raw.header))
                        [] raw.tag = "Oversized" -> End(Panicked)
                        [] raw.tag \in {"Malformed", "Err", "Null"} -> End(Failed)
          /\ faithful' = (raw.tag = "Block" /\ Canonical(raw.header) /\ raw.header.number = fetch.number)
    BY <1>2 DEF RawBlockReturns
  <2>2. fetch.number \in Numbers /\ UNCHANGED providers /\ faithful' \in BOOLEAN
    BY <1>2, <2>1 DEF RawBlockReturns, RpcInd
  <2>3. CASE raw.tag = "Block"
    <3> DEFINE h      == raw.header
               header == RawBlockToAlloyHeader(h)
    <3>1. /\ h = [number |-> h.number, timestamp |-> h.timestamp, content |-> h.content]
          /\ h.number \in Nat /\ h.timestamp \in Nat
          /\ ~IsParisActive(h.number) => Era(h.number) \in DOMAIN Accumulators
      BY <2>2, <2>3, RpcAnswers
    <3>2. header.number = h.number /\ header.timestamp = h.timestamp
      BY <3>1 DEF RawBlockToAlloyHeader
    <3>3. fetch' = Dispatch(header)
      BY <2>1, <2>3
    <3> QED
      BY <2>2, <3>1, <3>2, <3>3, DispatchIsGood DEF IsTyped
  <2>4. CASE raw.tag # "Block"
    <3>1. fetch' = End(Panicked) \/ fetch' = End(Failed)
      BY <2>1, <2>2, <2>4, RpcAnswers
    <3> QED
      BY <2>2, <3>1, EndIsGood, NoBytesIsGood
  <2> QED
    BY <2>3, <2>4
<1>3. ASSUME EpochReturns PROVE RpcInd'
  <2> DEFINE epoch == Era(fetch.header.number)
  <2>1. /\ UNCHANGED providers /\ faithful' \in BOOLEAN
        /\ IsTyped(fetch.header) /\ ~IsParisActive(fetch.header.number)
        /\ epoch \in DOMAIN Accumulators
    BY <1>3 DEF EpochReturns, RpcInd
  <2>2. CASE fetch' = End(Failed)
    BY <2>1, <2>2, EndIsGood, NoBytesIsGood
  <2>3. ASSUME NEW records \in Accumulators[epoch],
               fetch' = End(ConstructPreMergeProof(fetch.header, records))
        PROVE  RpcInd'
    <3>1. GoodEnd(ConstructPreMergeProof(fetch.header, records))
      BY <2>1, PreMergeIsGood
    <3> QED
      BY <2>1, <2>3, <3>1, EndIsGood
  <2> QED
    BY <1>3, <2>2, <2>3 DEF EpochReturns
<1>4. ASSUME BlockReturns PROVE RpcInd'
  <2>1. UNCHANGED providers /\ faithful' \in BOOLEAN
    BY <1>4 DEF BlockReturns, RpcInd
  <2>2. CASE fetch' = End(Failed)
    BY <2>1, <2>2, EndIsGood, NoBytesIsGood
  <2>3. ASSUME NEW answer, answer.fork = ForkForSlot(SlotOf(fetch.header)),
               fetch' = Fetch("batch", fetch.number, fetch.header, answer, NoHeader)
        PROVE  RpcInd'
    BY <1>4, <2>1, <2>3 DEF BlockReturns, RpcInd, Fetch
  <2> QED
    BY <1>4, <2>2, <2>3 DEF BlockReturns
<1>5. ASSUME BatchReturns PROVE RpcInd'
  <2> DEFINE slot   == SlotOf(fetch.header)
             result == Encoded(fetch.header,
                         PostMergeProof(fetch.block.fork, slot, FetchHistoricalBatch(slot), fetch.block.root))
  <2>1. UNCHANGED providers /\ faithful' \in BOOLEAN
    BY <1>5 DEF BatchReturns, RpcInd
  <2>2. GoodEnd(result)
    BY <1>5, PostMergeIsGood DEF BatchReturns, RpcInd
  <2>3. fetch' = End(Failed) \/ fetch' = End(result)
    BY <1>5 DEF BatchReturns
  <2> HIDE DEF result
  <2> QED
    BY <2>1, <2>2, <2>3, EndIsGood, NoBytesIsGood
<1>6. ASSUME EndFetch PROVE RpcInd'
  BY <1>6 DEF EndFetch, RpcInd, IdleFetch, Fetch
<1>7. CASE UNCHANGED rpcVars
  BY <1>7 DEF rpcVars, RpcInd
<1> QED
  BY <1>1, <1>2, <1>3, <1>4, <1>5, <1>6, <1>7 DEF RpcNext

(* The inductive invariant holds in every reachable state. *)
LEMMA RpcInvariance == RpcSpec => []RpcInd
<1>1. RpcInit => RpcInd
  BY DEF RpcInit, RpcInd, IdleFetch, Fetch
<1> QED
  BY <1>1, NextRpcInd, PTL DEF RpcSpec

-----------------------------------------------------------------------------

(* A fetch waits for a provider that it has and a slot that exists. *)
THEOREM RpcTypeCorrect == RpcSpec => []RpcTypeOK
<1>1. RpcInd => RpcTypeOK
  BY SlotOfFork DEF SlotOf, RpcInd, RpcTypeOK, PostMerge, IsTyped, GoodEnd
<1> QED
  BY <1>1, RpcInvariance, PTL

(* What a fetch encodes is decoded to itself or not at all, whatever the
   upstreams answered; and not at all only if the execution node and the epoch
   provider agree on a block that was never mined. *)
THEOREM EncodedIsDecoded == RpcSpec => []EncodedProofIsDecoded
<1>1. RpcInd => EncodedProofIsDecoded
  BY DEF RpcInd, EncodedProofIsDecoded, GoodEnd, NoHeader
<1> QED
  BY <1>1, RpcInvariance, PTL

-----------------------------------------------------------------------------
(* Faithful upstreams.  The theorem's hypotheses, about this chain. *)

ConsensusFork(slot) ==
  IF slot >= ElectraSlot THEN "Electra"
  ELSE IF slot >= DenebSlot THEN "Deneb"
  ELSE IF slot >= CapellaSlot THEN "Capella" ELSE "Bellatrix"

(* A beacon block of the chain is encoded as in the fork of its slot. *)
BlocksOfTheirFork ==
  \A slot \in Slots : \A answer \in BeaconBlocks[slot] :
    answer.tag = "Block" /\ answer.root = BlockRootAt[slot] => answer.fork = ConsensusFork(slot)

(* No era with a slot of Electra has ended: a header of Prague is built without
   its requests_hash, so that none is ever accepted. *)
NoElectraEraEnded ==
  \A slot, last \in Slots : slot >= ElectraSlot => last < EraEnd(slot)

(* What a header of the chain has become; and, unless it lost a field, what the
   fetch of it ends with. *)
FromChain(header) ==
  /\ header.timestamp \in Nat
  /\ IF header.timestamp < PragueTime THEN Canonical(header)
     ELSE IsParisActive(header.number) /\ SlotOf(header) \in Slots

AsCanonical(header, result) ==
  header.timestamp < PragueTime => result = Encoded(header, CanonicalProof(header))

FaithInd ==
  /\ fetch.pc \in {"idle", "raw"} => fetch.header = NoHeader
  /\ faithful =>
       /\ fetch.pc \in {"epoch", "block", "batch"} => FromChain(fetch.header)
       /\ fetch.pc = "batch" => fetch.block.root = BlockRootAt[SlotOf(fetch.header)]
       /\ fetch.pc = "done" /\ fetch.header # NoHeader =>
            FromChain(fetch.header) /\ AsCanonical(fetch.header, fetch.result)

(* A call that ends unfaithfully, or before it has a header, keeps it. *)
LEMMA EndsUnclaimed ==
  ASSUME NEW result, fetch' = End(result), ~faithful' \/ fetch.header = NoHeader
  PROVE  FaithInd'
BY DEF FaithInd, End, Fetch

(* A call that ends with the canonical bytes keeps it. *)
LEMMA EndsAsCanonical ==
  ASSUME NEW result, fetch' = End(result), FromChain(fetch.header), AsCanonical(fetch.header, result)
  PROVE  FaithInd'
BY DEF FaithInd, End, Fetch, FromChain, AsCanonical, PragueTime, SlotOf

(* Prague came after Shanghai. *)
LEMMA PragueIsLate == PragueTime \in Nat /\ ShanghaiTime <= PragueTime
<1>1. /\ CapellaSlot \in Nat /\ ElectraSlot \in Nat /\ CapellaSlot <= ElectraSlot
      /\ SecondsPerSlot \in Nat /\ GenesisTime \in Nat
  BY SlotClock, MainnetNumbers
<1>2. /\ CapellaSlot * SecondsPerSlot <= ElectraSlot * SecondsPerSlot
      /\ CapellaSlot * SecondsPerSlot \in Nat /\ ElectraSlot * SecondsPerSlot \in Nat
  BY <1>1
<1> QED
  BY <1>1, <1>2, SlotClock DEF PragueTime

(* Prague is Electra's execution fork. *)
LEMMA SlotOfPrague ==
  ASSUME NEW time \in Nat, time >= PragueTime
  PROVE  LET slot == SlotForExecutionTimestamp(time)
         IN  slot \in Nat /\ slot >= ElectraSlot /\ slot >= CapellaSlot
<1> DEFINE x == time - GenesisTime
<1>1. /\ CapellaSlot \in Nat /\ ElectraSlot \in Nat /\ CapellaSlot <= ElectraSlot
      /\ SecondsPerSlot \in Nat \ {0} /\ GenesisTime \in Nat
      /\ ElectraSlot * SecondsPerSlot \in Nat
  BY SlotClock, MainnetNumbers
<1>2. x \in Nat /\ x >= ElectraSlot * SecondsPerSlot
  BY <1>1 DEF PragueTime
<1> HIDE DEF x
<1>3. x \div SecondsPerSlot \in Nat /\ x \div SecondsPerSlot >= ElectraSlot
  BY <1>1, <1>2, QuotientBound
<1> QED
  BY <1>1, <1>3 DEF SlotForExecutionTimestamp, x

(* A canonical header that raw_block_to_alloy_header has read. *)
LEMMA ReadFromChain ==
  ASSUME NEW h, h = [number |-> h.number, timestamp |-> h.timestamp, content |-> h.content],
         h.timestamp \in Nat, Canonical(h)
  PROVE  FromChain(RawBlockToAlloyHeader(h))
<1>1. CASE h.timestamp < PragueTime
  <2>1. ~(h.timestamp >= PragueTime)
    BY <1>1, PragueIsLate
  <2>2. RawBlockToAlloyHeader(h) = h
    BY <2>1 DEF RawBlockToAlloyHeader
  <2> QED
    BY <1>1, <2>2 DEF FromChain
<1>2. CASE h.timestamp >= PragueTime
  <2> DEFINE header == RawBlockToAlloyHeader(h)
  <2>1. header.number = h.number /\ header.timestamp = h.timestamp
    BY DEF RawBlockToAlloyHeader
  <2>2. ~Mined(h)
    BY <1>2, PragueIsLate, MainnetNumbers DEF Mined, IsShanghaiActive
  <2>3. Proposed(h)
    BY <2>2, CanonicalKinds
  <2> HIDE DEF header
  <2>4. IsParisActive(header.number) /\ SlotOf(header) \in Slots
    BY <2>1, <2>3 DEF Proposed, SlotOf
  <2> QED
    BY <1>2, <2>1, <2>4, PragueIsLate DEF FromChain, header
<1> QED
  BY <1>1, <1>2, PragueIsLate

(* The kind of a canonical header, from its number. *)
LEMMA KindFromNumber ==
  ASSUME NEW header, Canonical(header)
  PROVE  IF IsParisActive(header.number) THEN Proposed(header) ELSE Mined(header)
BY CanonicalKinds, VariantOfKinds DEF Proposed

(* Every step keeps it. *)
LEMMA NextFaithInd ==
  ASSUME Provider = "documented", BlocksOfTheirFork, RpcInd, FaithInd, [RpcNext]_rpcVars
  PROVE  FaithInd'
<1>1. ASSUME NEW n \in Numbers, BeginFetch(n) PROVE FaithInd'
  BY <1>1 DEF BeginFetch, FaithInd, Fetch
<1>2. ASSUME RawBlockReturns PROVE FaithInd'
  <2>1. PICK raw \in RawBlocks[fetch.number] :
          /\ fetch' = CASE raw.tag = "Block"     -> Dispatch(RawBlockToAlloyHeader(raw.header))
                        [] raw.tag = "Oversized" -> End(Panicked)
                        [] raw.tag \in {"Malformed", "Err", "Null"} -> End(Failed)
          /\ faithful' = (raw.tag = "Block" /\ Canonical(raw.header) /\ raw.header.number = fetch.number)
    BY <1>2 DEF RawBlockReturns
  <2>2. fetch.number \in Numbers /\ fetch.header = NoHeader
    BY <1>2 DEF RawBlockReturns, RpcInd, FaithInd
  <2>3. CASE \E result : fetch' = End(result)
    BY <2>2, <2>3, EndsUnclaimed
  <2>4. CASE ~\E result : fetch' = End(result)
    <3> DEFINE header == RawBlockToAlloyHeader(raw.header)
    <3>1. raw.tag = "Block"
      BY <2>1, <2>2, <2>4, RpcAnswers
    <3>2. \E pc \in {"block", "epoch"} : fetch' = Fetch(pc, fetch.number, header, NoHeader, NoHeader)
      BY <2>1, <2>4, <3>1 DEF Dispatch
    <3>3. faithful' => FromChain(header)
      BY <2>1, <2>2, <3>1, RpcAnswers, ReadFromChain
    <3> HIDE DEF header
    <3>4. (FromChain(fetch.header))' <=> FromChain(fetch'.header)
      BY DEF FromChain, PragueTime, SlotOf
    <3> QED
      BY <3>2, <3>3, <3>4 DEF FaithInd, Fetch
  <2> QED
    BY <2>3, <2>4
<1>3. ASSUME EpochReturns PROVE FaithInd'
  <2> DEFINE epoch  == Era(fetch.header.number)
             header == fetch.header
  <2>1. CASE ~faithful'
    BY <1>3, <2>1, EndsUnclaimed DEF EpochReturns
  <2>2. CASE faithful'
    <3>1. /\ fetch' = End(ConstructPreMergeProof(header, EpochRecords(epoch)))
          /\ faithful /\ fetch.pc = "epoch"
      BY <1>3, <2>2 DEF EpochReturns
    <3>2. FromChain(header) /\ ~IsParisActive(header.number)
      BY <3>1 DEF FaithInd, RpcInd
    <3>3. Mined(header)
      BY <3>2, KindFromNumber DEF FromChain
    <3>4. <<Offset(header.number), header>> \in EpochRecords(epoch)
      BY <3>3 DEF EpochRecords, Mined
    <3>5. ConstructPreMergeProof(header, EpochRecords(epoch)) = Encoded(header, CanonicalProof(header))
      BY <3>2, <3>4 DEF ConstructPreMergeProof, CanonicalProof
    <3> QED
      BY <3>1, <3>2, <3>5, EndsAsCanonical DEF AsCanonical
  <2> QED
    BY <2>1, <2>2
<1>4. ASSUME BlockReturns PROVE FaithInd'
  <2> DEFINE slot   == SlotOf(fetch.header)
             header == fetch.header
  <2>1. PICK answer \in BeaconBlocks[slot] :
          /\ fetch' = IF answer.tag = "Err" \/ answer.fork # ForkForSlot(slot)
                      THEN End(Failed)
                      ELSE Fetch("batch", fetch.number, header, answer, NoHeader)
          /\ faithful' = (faithful /\ answer.tag = "Block" /\ answer.root = BlockRootAt[slot])
    BY <1>4 DEF BlockReturns
  <2>2. fetch.pc = "block" /\ PostMerge(header)
    BY <1>4 DEF BlockReturns, RpcInd
  <2>3. CASE fetch' = End(Failed) /\ ~faithful'
    BY <2>3, EndsUnclaimed
  <2>4. CASE fetch' = End(Failed) /\ faithful'
    <3>1. FromChain(header) /\ faithful /\ answer.tag = "Block" /\ answer.root = BlockRootAt[slot]
      BY <2>1, <2>2, <2>4 DEF FaithInd
    <3>2. ASSUME header.timestamp < PragueTime PROVE FALSE
      <4>1. Proposed(header)
        BY <2>2, <3>1, <3>2, KindFromNumber DEF FromChain, PostMerge
      <4>2. slot \in Slots /\ slot \in Nat
        BY <4>1, MainnetNumbers DEF Proposed, SlotOf, Slots
      <4>3. answer.fork = ForkForSlot(slot)
        <5>1. answer.fork = ConsensusFork(slot)
          BY <3>1, <4>2 DEF BlocksOfTheirFork
        <5>2. CapellaSlot \in Nat /\ DenebSlot \in Nat /\ ElectraSlot \in Nat
              /\ CapellaSlot <= DenebSlot /\ DenebSlot <= ElectraSlot
          BY SlotClock, MainnetNumbers
        <5> HIDE DEF slot
        <5> QED
          BY <4>2, <5>1, <5>2 DEF ConsensusFork, ForkForSlot
      <4> QED
        BY <2>1, <2>4, <3>1, <4>3 DEF End, Fetch
    <3> QED
      BY <2>4, <3>1, <3>2, EndsAsCanonical DEF AsCanonical
  <2>5. CASE fetch' = Fetch("batch", fetch.number, header, answer, NoHeader)
    <3>1. (FromChain(fetch.header))' <=> FromChain(fetch'.header)
      BY DEF FromChain, PragueTime, SlotOf
    <3>2. faithful' => FromChain(header) /\ answer.root = BlockRootAt[slot]
      BY <2>1, <2>2 DEF FaithInd
    <3> QED
      BY <2>5, <3>1, <3>2 DEF FaithInd, Fetch, SlotOf
  <2> QED
    BY <2>1, <2>3, <2>4, <2>5
<1>5. ASSUME BatchReturns PROVE FaithInd'
  <2> DEFINE slot   == SlotOf(fetch.header)
             header == fetch.header
             result == Encoded(header,
                         PostMergeProof(fetch.block.fork, slot, FetchHistoricalBatch(slot), fetch.block.root))
  <2>1. fetch.pc = "batch" /\ PostMerge(header) /\ fetch.block.fork = ForkForSlot(slot)
    BY <1>5 DEF BatchReturns, RpcInd
  <2>2. CASE ~faithful'
    BY <1>5, <2>2, EndsUnclaimed DEF BatchReturns
  <2>3. CASE faithful'
    <3>1. fetch' = End(result) /\ faithful
      BY <1>5, <2>3 DEF BatchReturns
    <3>2. FromChain(header) /\ fetch.block.root = BlockRootAt[slot]
      BY <2>1, <3>1 DEF FaithInd
    <3>3. FetchHistoricalBatch(slot) = EraBatch(Era(slot))
      BY DEF FetchHistoricalBatch
    <3>4. result = Encoded(header, CanonicalProof(header))
      BY <2>1, <3>2, <3>3 DEF CanonicalProof, PostMerge, SlotOf
    <3> HIDE DEF result
    <3> QED
      BY <3>1, <3>2, <3>4, EndsAsCanonical DEF AsCanonical
  <2> QED
    BY <2>2, <2>3
<1>6. ASSUME EndFetch PROVE FaithInd'
  BY <1>6 DEF EndFetch, FaithInd, IdleFetch, Fetch
<1>7. CASE UNCHANGED rpcVars
  BY <1>7 DEF rpcVars, FaithInd, FromChain, AsCanonical, SlotOf
<1> QED
  BY <1>1, <1>2, <1>3, <1>4, <1>5, <1>6, <1>7 DEF RpcNext

(* A header that has an accumulator or a block waiting for it, and kept all its
   fields, ends as the canonical bytes: ones that every snapshot accepts that
   reaches its era. *)
LEMMA CanonicalBytesVerify ==
  ASSUME NEW header, Canonical(header), NEW snapshot, Finalized(snapshot),
         IsShanghaiActive(header.timestamp) =>
           HistoricalSummaryIndex(SlotOf(header)) \in DOMAIN snapshot
  PROVE  LET result == Encoded(header, CanonicalProof(header))
         IN  result.tag = "Bytes" /\ Verifies(result.bytes, snapshot)
<1> DEFINE result == Encoded(header, CanonicalProof(header))
           hwp == result.bytes
<1>1. result.tag = "Bytes" /\ hwp.header = header /\ hwp.proof = CanonicalProof(header)
  BY DEF Encoded
<1> HIDE DEF result
<1>2. /\ Decodable(hwp) /\ FromSszBytes(hwp) = hwp
      /\ ValidateHeaderWithProof(CanonicalAssets, hwp.header, hwp.proof)
           = IF IsShanghaiActive(header.timestamp) THEN "summary" ELSE "ok"
      /\ IsShanghaiActive(header.timestamp) =>
           (VerifyHistoricalSummariesBeaconBlockProof(snapshot, hwp.proof)
              <=> HistoricalSummaryIndex(SlotOf(header)) \in DOMAIN snapshot)
  BY <1>1, CanonicalProofAccepted DEF SlotOf
<1>3. Verifies(hwp, snapshot)
  BY <1>2 DEF Verifies
<1> QED
  BY <1>1, <1>3 DEF result

(* The finished snapshots are finalized, and as long as there are eras that
   have ended. *)
LEMMA FinishedIsFinalized ==
  ASSUME NEW snapshot \in FinishedSnapshots
  PROVE  /\ Finalized(snapshot)
         /\ \A i \in DOMAIN snapshot :
              /\ i \in Nat
              /\ \E last \in Slots : last >= (Era(CapellaSlot) + i + 1) * SlotsPerHistoricalRoot - 1
<1>1. PICK n \in Slots : /\ snapshot = SummariesUpTo(n)
                         /\ (Era(CapellaSlot) + n) * SlotsPerHistoricalRoot - 1 \in Slots
  BY DEF FinishedSnapshots
<1>2. n \in Nat /\ DOMAIN snapshot = 0 .. n - 1
  BY <1>1, MainnetNumbers DEF SummariesUpTo, Slots
<1>3. Finalized(snapshot)
  BY <1>1, <1>2 DEF SummariesUpTo, Finalized
<1>4. ASSUME NEW i \in DOMAIN snapshot
      PROVE  \E last \in Slots : last >= (Era(CapellaSlot) + i + 1) * SlotsPerHistoricalRoot - 1
  <2> DEFINE e == Era(CapellaSlot)
             d == SlotsPerHistoricalRoot
  <2>1. e \in Nat /\ d \in Nat \ {0} /\ i \in 0 .. n - 1
    BY <1>2, EraType, MainnetNumbers
  <2> HIDE DEF e, d
  <2>2. (e + n) * d >= (e + i + 1) * d /\ (e + n) * d \in Nat /\ (e + i + 1) * d \in Nat
    <3>1. \E k \in Nat : n = i + 1 + k
      <4>1. n - (i + 1) \in Nat /\ n = i + 1 + (n - (i + 1))
        BY <1>2, <2>1
      <4> QED
        BY <4>1
    <3>2. PICK k \in Nat : n = i + 1 + k
      BY <3>1
    <3>3. (e + n) * d = (e + i + 1) * d + k * d
      BY <2>1, <3>2
    <3>4. k * d \in Nat /\ (e + i + 1) * d \in Nat
      BY <2>1, <3>2
    <3> QED
      BY <3>3, <3>4
  <2> QED
    BY <1>1, <2>2 DEF e, d
<1> QED
  BY <1>2, <1>3, <1>4

(* Three answers of the chain fit together into bytes that the Verifier accepts
   with the snapshot of an era that has ended. *)
LEMMA CanonicalFetchVerifies ==
  ASSUME FaithInd, fetch.pc = "done", faithful, fetch.header # NoHeader,
         fetch.header.timestamp < PragueTime, NEW snapshot \in FinishedSnapshots,
         Provable(fetch.header.number, fetch.header.timestamp, snapshot)
  PROVE  fetch.result.tag = "Bytes" /\ Verifies(fetch.result.bytes, snapshot)
<1> DEFINE header == fetch.header
           slot   == SlotOf(header)
<1>1. /\ Canonical(header)
      /\ fetch.result = Encoded(header, CanonicalProof(header))
  BY DEF FaithInd, FromChain, AsCanonical
<1>2. Finalized(snapshot)
  BY FinishedIsFinalized
<1>3. IsParisActive(header.number) =>
        slot < CapellaSlot \/ HistoricalSummaryIndex(slot) \in DOMAIN snapshot
  BY DEF Provable, SlotOf
<1>4. IsShanghaiActive(header.timestamp) => HistoricalSummaryIndex(slot) \in DOMAIN snapshot
  <2> SUFFICES ASSUME IsShanghaiActive(header.timestamp)
               PROVE  HistoricalSummaryIndex(slot) \in DOMAIN snapshot
    OBVIOUS
  <2>1. Proposed(header)
    BY <1>1, CanonicalKinds DEF Mined
  <2>2. IsParisActive(header.number) /\ slot \in Nat /\ slot >= CapellaSlot
    BY <2>1, VariantOfKinds DEF Proposed, SlotOf
  <2> HIDE DEF slot
  <2> QED
    BY <1>3, <2>2, MainnetNumbers
<1> QED
  BY <1>1, <1>2, <1>4, CanonicalBytesVerify

(* When every upstream answered with the chain's data, the fetch of a header
   from before Prague ends with the bytes that CanonicalProof describes, which
   the Verifier accepts. *)
CanonicalUntilPrague ==
  fetch.pc = "done" /\ faithful /\ fetch.header # NoHeader /\ fetch.header.timestamp < PragueTime =>
    /\ fetch.result = Encoded(fetch.header, CanonicalProof(fetch.header))
    /\ \A snapshot \in FinishedSnapshots :
         Provable(fetch.header.number, fetch.header.timestamp, snapshot) =>
           fetch.result.tag = "Bytes" /\ Verifies(fetch.result.bytes, snapshot)

(* What ArchiveRpcSource makes of faithful answers is the canonical proof, up
   to Prague; the requests_hash of the headers from then on is lost. *)
THEOREM FaithfulFetchIsCanonical ==
  ASSUME Provider = "documented", BlocksOfTheirFork
  PROVE  RpcSpec => []CanonicalUntilPrague
<1>1. RpcInit => RpcInd /\ FaithInd
  BY DEF RpcInit, RpcInd, FaithInd, IdleFetch, Fetch
<1>2. RpcInd /\ FaithInd /\ [RpcNext]_rpcVars => RpcInd' /\ FaithInd'
  BY NextRpcInd, NextFaithInd
<1>3. FaithInd => CanonicalUntilPrague
  BY CanonicalFetchVerifies DEF FaithInd, AsCanonical, CanonicalUntilPrague
<1> QED
  BY <1>1, <1>2, <1>3, PTL DEF RpcSpec

(* Three answers of the chain fit together into bytes that the Verifier
   accepts, with the snapshot of any era that has ended.  Of Electra's eras it
   would be false. *)
THEOREM FaithfulFetchIsAccepted ==
  ASSUME Provider = "documented", BlocksOfTheirFork, NoElectraEraEnded
  PROVE  RpcSpec => []FaithfulFetchVerifies
<1>1. RpcInit => RpcInd /\ FaithInd
  BY DEF RpcInit, RpcInd, FaithInd, IdleFetch, Fetch
<1>2. RpcInd /\ FaithInd /\ [RpcNext]_rpcVars => RpcInd' /\ FaithInd'
  BY NextRpcInd, NextFaithInd
<1>3. FaithInd => FaithfulFetchVerifies
  <2> DEFINE header == fetch.header
             slot   == SlotOf(header)
  <2> SUFFICES ASSUME FaithInd, fetch.pc = "done", faithful, header # NoHeader,
                      NEW snapshot \in FinishedSnapshots,
                      Provable(header.number, header.timestamp, snapshot)
               PROVE  fetch.result.tag = "Bytes" /\ Verifies(fetch.result.bytes, snapshot)
    BY DEF FaithfulFetchVerifies
  <2>1. FromChain(header) /\ AsCanonical(header, fetch.result)
    BY DEF FaithInd
  <2>2. /\ Finalized(snapshot)
        /\ \A i \in DOMAIN snapshot :
             /\ i \in Nat
             /\ \E last \in Slots : last >= (Era(CapellaSlot) + i + 1) * SlotsPerHistoricalRoot - 1
    BY FinishedIsFinalized
  <2>3. IsParisActive(header.number) =>
          slot < CapellaSlot \/ HistoricalSummaryIndex(slot) \in DOMAIN snapshot
    BY DEF Provable, SlotOf
  <2>4. header.timestamp < PragueTime
    <3> SUFFICES ASSUME ~(header.timestamp < PragueTime) PROVE FALSE
      OBVIOUS
    <3>1. /\ header.timestamp \in Nat /\ header.timestamp >= PragueTime
          /\ IsParisActive(header.number) /\ slot \in Slots
      BY <2>1, PragueIsLate DEF FromChain
    <3>2. slot \in Nat /\ slot >= ElectraSlot /\ slot >= CapellaSlot
      BY <3>1, SlotOfPrague DEF SlotOf
    <3>3. PICK last \in Slots :
            last >= (Era(CapellaSlot) + HistoricalSummaryIndex(slot) + 1) * SlotsPerHistoricalRoot - 1
      <4>1. HistoricalSummaryIndex(slot) \in DOMAIN snapshot
        <5> HIDE DEF slot
        <5> QED
          BY <2>3, <3>1, <3>2, MainnetNumbers
      <4> QED
        BY <2>2, <4>1
    <3>4. Era(slot) = Era(CapellaSlot) + HistoricalSummaryIndex(slot)
      BY <3>2, SummaryIndexOfSlot
    <3>5. last >= EraEnd(slot)
      BY <3>3, <3>4 DEF EraEnd
    <3>6. last < EraEnd(slot)
      BY <3>1, <3>2 DEF NoElectraEraEnded
    <3>7. last \in Nat /\ EraEnd(slot) \in Int
      <4>1. Era(slot) \in Nat
        BY <3>2, EraType
      <4> QED
        BY <4>1, MainnetNumbers DEF EraEnd, Slots
    <3> QED
      BY <3>5, <3>6, <3>7
  <2> QED
    BY <2>4, CanonicalFetchVerifies
<1> QED
  BY <1>1, <1>2, <1>3, PTL DEF RpcSpec

=============================================================================
