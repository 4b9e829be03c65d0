----------------------------- MODULE ArchiveRpc -----------------------------
(***************************************************************************)
(* src/sources/archive_rpc.rs with src/sources/beacon_rpc.rs: one fetch of *)
(* an ArchiveRpcSource, which asks an execution node for a header and then *)
(* an EpochProvider, or a BeaconDataProvider twice, for what its proof is  *)
(* made of.  Each answer is awaited, so each is a step; any may fail, and  *)
(* none is checked against another but by construct_pre_merge_proof.       *)
(***************************************************************************)
EXTENDS ProofConstruction

CONSTANTS
  Numbers,      \* block numbers asked for
  RawBlocks,    \* RawBlocks[n]: answers to eth_getBlockByNumber
  Accumulators, \* Accumulators[e]: record lists an EpochProvider may hold
  BeaconBlocks, \* BeaconBlocks[s]: answers for the beacon block at a slot
  Provider      \* "documented": a BeaconDataProvider as its trait describes;
                \* "beacon-api": the BeaconRpcSource

(* Rust's types of the answers, and a set of lists for each epoch asked for. *)
ASSUME RpcAnswers ==
  /\ \A n \in Numbers : \A raw \in RawBlocks[n] :
       /\ raw.tag \in {"Block", "Oversized", "Malformed", "Err", "Null"}
       /\ raw.tag = "Block" =>
            LET h == raw.header
            IN  /\ h = [number |-> h.number, timestamp |-> h.timestamp, content |-> h.content]
                /\ h.number \in Nat /\ h.timestamp \in Nat
  /\ \A n \in Numbers : \A raw \in RawBlocks[n] :
       raw.tag = "Block" /\ ~IsParisActive(raw.header.number) =>
         Era(raw.header.number) \in DOMAIN Accumulators

VARIABLES
  providers,  \* which of the two providers the source was given
  fetch,      \* the fetch in progress
  faithful    \* history: every answer of this fetch was the canonical one

rpcVars == <<providers, fetch, faithful>>

NoHeader == [tag |-> "NoHeader"]

Fetch(pc, number, header, block, result) ==
  [pc |-> pc, number |-> number, header |-> header, block |-> block, result |-> result]

IdleFetch == Fetch("idle", 0, NoHeader, NoHeader, NoHeader)

Failed   == [tag |-> "Err"]
Panicked == [tag |-> "Panic"]
Encoded(header, proof) == [tag |-> "Bytes", bytes |-> [header |-> header, proof |-> proof]]

End(result) == Fetch("done", fetch.number, fetch.header, NoHeader, result)

-----------------------------------------------------------------------------
(* The configuration: new, with_epoch_provider, with_beacon_provider. *)

RpcInit ==
  /\ providers \in [epoch : BOOLEAN, beacon : BOOLEAN]
  /\ fetch = IdleFetch
  /\ faithful = TRUE

BeginFetch(n) ==
  /\ fetch.pc = "idle"
  /\ fetch' = Fetch("raw", n, NoHeader, NoHeader, NoHeader)
  /\ faithful' = TRUE
  /\ UNCHANGED providers

-----------------------------------------------------------------------------
(* raw_block_to_alloy_header: a field that does not parse is an error, but
   parse_u256 computes 32 - len for a longer one.  RawBlock has no
   requestsHash, so a header of Prague, which is Electra's execution fork,
   loses it and hashes to something else. *)
PragueTime == GenesisTime + ElectraSlot * SecondsPerSlot

RawBlockToAlloyHeader(raw) ==
  IF raw.timestamp >= PragueTime THEN [raw EXCEPT !.content = "no requests_hash"] ELSE raw

(* The mutated form lets a block from before beacon genesis through. *)
Dispatch_NoGenesis(header) ==
  IF IsParisActive(header.number) /\ providers.beacon
  THEN Fetch("block", fetch.number, header, NoHeader, NoHeader)
  ELSE IF ~IsParisActive(header.number) /\ providers.epoch
       THEN Fetch("epoch", fetch.number, header, NoHeader, NoHeader)
       ELSE End(Failed)

(* The first await of build_post_merge_hwp, or the epoch provider's. *)
Dispatch(header) ==
  IF IsParisActive(header.number)
  THEN IF ~providers.beacon \/ header.timestamp < GenesisTime
       THEN End(Failed)
       ELSE Fetch("block", fetch.number, header, NoHeader, NoHeader)
  ELSE IF ~providers.epoch
       THEN End(Failed)
       ELSE Fetch("epoch", fetch.number, header, NoHeader, NoHeader)

(* eth_getBlockByNumber answers. *)
RawBlockReturns ==
  /\ fetch.pc = "raw"
  /\ \E raw \in RawBlocks[fetch.number] :
       /\ fetch' = CASE raw.tag = "Block"     -> Dispatch(RawBlockToAlloyHeader(raw.header))
                     [] raw.tag = "Oversized" -> End(Panicked)
                     [] raw.tag \in {"Malformed", "Err", "Null"} -> End(Failed)
       /\ faithful' = (raw.tag = "Block" /\ Canonical(raw.header) /\ raw.header.number = fetch.number)
  /\ UNCHANGED providers

(* construct_pre_merge_proof indexes the list before it compares. *)
ConstructPreMergeProof_Unchecked(header, records) ==
  IF Offset(header.number) \notin {r[1] : r \in records} THEN Panicked
  ELSE Encoded(header, PreMergeProof(header, records))

ConstructPreMergeProof(header, records) ==
  IF Offset(header.number) \notin {r[1] : r \in records} THEN Panicked
  ELSE IF <<Offset(header.number), header>> \notin records THEN Failed
  ELSE Encoded(header, PreMergeProof(header, records))

(* The epoch provider answers, with some list of records or an error. *)
EpochReturns ==
  /\ fetch.pc = "epoch"
  /\ LET epoch == Era(fetch.header.number)
     IN  \/ /\ fetch' = End(Failed)
            /\ faithful' = FALSE
         \/ \E records \in Accumulators[epoch] :
              /\ fetch' = End(ConstructPreMergeProof(fetch.header, records))
              /\ faithful' = (faithful /\ records = EpochRecords(epoch))
  /\ UNCHANGED providers

-----------------------------------------------------------------------------
SlotOf(header) == SlotForExecutionTimestamp(header.timestamp)

(* The beacon node's block, decoded under the fork of the slot. *)
BlockReturns ==
  /\ fetch.pc = "block"
  /\ LET slot == SlotOf(fetch.header)
     IN  \E answer \in BeaconBlocks[slot] :
           /\ fetch' = IF answer.tag = "Err" \/ answer.fork # ForkForSlot(slot)
                       THEN End(Failed)
                       ELSE Fetch("batch", fetch.number, fetch.header, answer, NoHeader)
           /\ faithful' = (faithful /\ answer.tag = "Block" /\ answer.root = BlockRootAt[slot])
  /\ UNCHANGED providers

(* block_roots of the BeaconState at a slot: process_slot stores the root of a
   slot when the state leaves it, so the state has none for its own. *)
BlockRootsInState(slot) ==
  {<<Offset(s), BlockRootAt[s]>> : s \in {t \in Slots : slot - SlotsPerHistoricalRoot <= t /\ t < slot}}

EraEnd(slot) == (Era(slot) + 1) * SlotsPerHistoricalRoot - 1

(* BeaconDataProvider::fetch_historical_batch, as its trait describes it, and
   as BeaconRpcSource does it, from the state at the era's last slot. *)
FetchHistoricalBatch(slot) ==
  IF Provider = "documented"
  THEN EraBatch(Era(slot))
  ELSE [block_roots |-> BlockRootsInState(EraEnd(slot)), state_roots |-> EraEnd(slot)]

(* The beacon node's batch, and the proof. *)
BatchReturns ==
  /\ fetch.pc = "batch"
  /\ LET slot == SlotOf(fetch.header)
     IN  \/ /\ fetch' = End(Failed)
            /\ faithful' = FALSE
         \/ /\ fetch' = End(Encoded(fetch.header,
                 PostMergeProof(fetch.block.fork, slot, FetchHistoricalBatch(slot), fetch.block.root)))
            /\ UNCHANGED faithful
  /\ UNCHANGED providers

EndFetch ==
  /\ fetch.pc = "done"
  /\ fetch' = IdleFetch
  /\ UNCHANGED <<providers, faithful>>

RpcNext ==
  \/ \E n \in Numbers : BeginFetch(n)
  \/ RawBlockReturns \/ EpochReturns \/ BlockReturns \/ BatchReturns
  \/ EndFetch

(* Nothing bounds the wait for an answer: reqwest's default client, which
   BeaconRpcSource takes, has no timeout, and a provider may be any. *)
RpcSpec == RpcInit /\ [][RpcNext]_rpcVars

-----------------------------------------------------------------------------
(* Properties. *)

(* A fetch waits for a provider that it has, for a slot that exists, and ends
   with bytes, an error or a panic (ArchiveRpcSource, its awaits in order). *)
RpcTypeOK ==
  /\ providers \in [epoch : BOOLEAN, beacon : BOOLEAN]
  /\ fetch.pc \in {"idle", "raw", "epoch", "block", "batch", "done"}
  /\ fetch.pc = "epoch" => providers.epoch /\ fetch.header.number \in Nat
  /\ fetch.pc \in {"block", "batch"} => providers.beacon /\ SlotOf(fetch.header) \in Nat
  /\ fetch.pc = "batch" => fetch.block.fork = ForkForSlot(SlotOf(fetch.header))
  /\ fetch.pc = "done" => fetch.result.tag \in {"Err", "Panic", "Bytes"}
  /\ faithful \in BOOLEAN

(* The verdict of HeaderValidator on encoded bytes, with one snapshot. *)
Verifies(bytes, snapshot) ==
  /\ Decodable(bytes)
  /\ LET hwp     == FromSszBytes(bytes)
         verdict == ValidateHeaderWithProof(CanonicalAssets, hwp.header, hwp.proof)
     IN  \/ verdict = "ok"
         \/ verdict = "summary" /\ VerifyHistoricalSummariesBeaconBlockProof(snapshot, hwp.proof)

(* The snapshots of the eras whose last slot is past. *)
FinishedSnapshots ==
  {SummariesUpTo(n) : n \in {m \in Slots : (Era(CapellaSlot) + m) * SlotsPerHistoricalRoot - 1 \in Slots}}

(* Whether the provider that a block of this number needs is there, and the
   commitment that its proof is checked against exists. *)
Provable(number, timestamp, snapshot) ==
  IF IsParisActive(number)
  THEN /\ providers.beacon
       /\ LET slot == SlotForExecutionTimestamp(timestamp)
          IN  slot < CapellaSlot \/ HistoricalSummaryIndex(slot) \in DOMAIN snapshot
  ELSE providers.epoch

(* "Pre-merge ... Post-merge (Bellatrix -> Electra)" (archive_rpc.rs): when the
   execution node, the epoch provider and the beacon provider all answered with
   the canonical chain's data, the three answers fit together into bytes that
   the Verifier accepts: the fork the block was decoded under, the slot, the
   order of the two eras' trees, and the variant the decoder will choose. *)
FaithfulFetchVerifies ==
  fetch.pc = "done" /\ faithful /\ fetch.header # NoHeader =>
    \A snapshot \in FinishedSnapshots :
      Provable(fetch.header.number, fetch.header.timestamp, snapshot) =>
        fetch.result.tag = "Bytes" /\ Verifies(fetch.result.bytes, snapshot)

(* An epoch provider, which nothing checks, vouches for a block from before
   Paris whose timestamp is from Shanghai on: such a block was never mined. *)
VouchedFromShanghai(header) ==
  /\ ~IsParisActive(header.number)
  /\ IsShanghaiActive(header.timestamp)
  /\ \E records \in Accumulators[Era(header.number)] : <<Offset(header.number), header>> \in records

(* The proof has no tag in its encoding, so the decoder chooses the variant
   from the header while the source chose it from the header's number and from
   the fork of the beacon block.  Whatever the upstreams answered, even a
   header whose timestamp is not of its number's era, the bytes are never read
   as another proof; and they can be read, unless the execution node and the
   epoch provider agree on a block that was never mined. *)
EncodedProofIsDecoded ==
  fetch.result.tag = "Bytes" =>
    LET bytes == fetch.result.bytes
    IN  IF Decodable(bytes) THEN FromSszBytes(bytes) = bytes
        ELSE VouchedFromShanghai(bytes.header)

(* "Returns an error if the header's hash doesn't match the corresponding entry
   in the epoch accumulator (which would mean the wrong epoch was supplied ..."
   (construct_pre_merge_proof): never a panic, once the header has parsed. *)
WrongEpochIsAnError ==
  fetch.pc = "done" /\ fetch.header # NoHeader => fetch.result # Panicked

=============================================================================
