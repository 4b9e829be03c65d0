------------------------ MODULE ConsensusContainers --------------------------
(***************************************************************************)
(* src/portal_types/consensus: the containers of a beacon block and of a   *)
(* beacon state for each fork, and the proofs of one of their fields.      *)
(*                                                                         *)
(* A container exists twice in the code: as a struct, from which its root  *)
(* is derived, and as the list of leaves that a proof builder spells out.  *)
(* Both are given here, as names of fields in order.                       *)
(***************************************************************************)
EXTENDS MerkleTree

Forks == {"Bellatrix", "Capella", "Deneb", "Electra"}

(* superstruct's `only`: fields that some variants have. *)
Only(forks, fork, fields) == IF fork \in forks THEN fields ELSE <<>>

FieldRoot(container, name) == Leaf(<<container, name>>)

ContainerRoot(leaves) == TreeHashRoot(leaves, DepthFor(Len(leaves)))

-----------------------------------------------------------------------------
(* ExecutionPayload *)

ExecutionPayload(fork) ==
  <<"parent_hash", "fee_recipient", "state_root", "receipts_root", "logs_bloom",
    "prev_randao", "block_number", "gas_limit", "gas_used", "timestamp",
    "extra_data", "base_fee_per_gas", "block_hash", "transactions">>
  \o Only({"Capella", "Deneb", "Electra"}, fork, <<"withdrawals">>)
  \o Only({"Deneb", "Electra"}, fork, <<"blob_gas_used", "excess_blob_gas">>)

PayloadRoots(names) == [i \in DOMAIN names |-> FieldRoot("payload", names[i])]

PayloadRoot == [fork \in Forks |-> ContainerRoot(PayloadRoots(ExecutionPayload(fork)))]

(* The leaves of build_block_hash_proof. *)
BlockHashLeaves(fork) ==
  LET bellatrix ==
        <<"parent_hash", "fee_recipient", "state_root", "receipts_root", "logs_bloom",
          "prev_randao", "block_number", "gas_limit", "gas_used", "timestamp",
          "extra_data", "base_fee_per_gas", "block_hash", "transactions">>
      capella == Append(bellatrix, "withdrawals")
      deneb   == capella \o <<"blob_gas_used", "excess_blob_gas">>
  IN  PayloadRoots([Bellatrix |-> bellatrix, Capella |-> capella,
                    Deneb |-> deneb, Electra |-> deneb][fork])

BuildBlockHashProof(fork) == BuildMerkleProofForIndex(BlockHashLeaves(fork), 12)

-----------------------------------------------------------------------------
(* BeaconBlockBody *)

BeaconBlockBody(fork) ==
  <<"randao_reveal", "eth1_data", "graffiti", "proposer_slashings",
    "attester_slashings", "attestations", "deposits", "voluntary_exits",
    "sync_aggregate", "execution_payload">>
  \o Only({"Capella", "Deneb", "Electra"}, fork, <<"bls_to_execution_changes">>)
  \o Only({"Deneb", "Electra"}, fork, <<"blob_kzg_commitments">>)
  \o Only({"Electra"}, fork, <<"execution_requests">>)

BodyRoots(fork, names) ==
  [i \in DOMAIN names |-> IF names[i] = "execution_payload" THEN PayloadRoot[fork]
                          ELSE FieldRoot("body", names[i])]

BodyRoot == [fork \in Forks |-> ContainerRoot(BodyRoots(fork, BeaconBlockBody(fork)))]

(* The mutated form forgets that Electra added a field. *)
ExecutionPayloadLeaves_Deneb(fork) ==
  BodyRoots(fork,
    <<"randao_reveal", "eth1_data", "graffiti", "proposer_slashings",
      "attester_slashings", "attestations", "deposits", "voluntary_exits",
      "sync_aggregate", "execution_payload">>
    \o Only({"Capella", "Deneb", "Electra"}, fork, <<"bls_to_execution_changes">>)
    \o Only({"Deneb", "Electra"}, fork, <<"blob_kzg_commitments">>))

(* The leaves of build_execution_payload_proof. *)
ExecutionPayloadLeaves(fork) ==
  LET bellatrix ==
        <<"randao_reveal", "eth1_data", "graffiti", "proposer_slashings",
          "attester_slashings", "attestations", "deposits", "voluntary_exits",
          "sync_aggregate", "execution_payload">>
      capella == Append(bellatrix, "bls_to_execution_changes")
      deneb   == Append(capella, "blob_kzg_commitments")
      electra == Append(deneb, "execution_requests")
  IN  BodyRoots(fork, [Bellatrix |-> bellatrix, Capella |-> capella,
                       Deneb |-> deneb, Electra |-> electra][fork])

BuildExecutionPayloadProof(fork) == BuildMerkleProofForIndex(ExecutionPayloadLeaves(fork), 9)

-----------------------------------------------------------------------------
(* BeaconBlock *)

BeaconBlock(fork) == <<"slot", "proposer_index", "parent_root", "state_root", "body">>

BlockRoots(fork, names) ==
  [i \in DOMAIN names |-> IF names[i] = "body" THEN BodyRoot[fork]
                          ELSE FieldRoot("block", names[i])]

BeaconBlockRoot == [fork \in Forks |-> ContainerRoot(BlockRoots(fork, BeaconBlock(fork)))]

(* The leaves that build_body_root_proof spells out, the same for every fork. *)
BodyRootLeaves(fork) ==
  BlockRoots(fork, <<"slot", "proposer_index", "parent_root", "state_root", "body">>)

BuildBodyRootProof(fork) == BuildMerkleProofForIndex(BodyRootLeaves(fork), 4)

BuildExecutionBlockHashProof(fork) ==
  BuildBlockHashProof(fork) \o BuildExecutionPayloadProof(fork) \o BuildBodyRootProof(fork)

-----------------------------------------------------------------------------
(* BeaconState; only Deneb and Electra build a proof from it. *)

BeaconState(fork) ==
  <<"genesis_time", "genesis_validators_root", "slot", "fork", "latest_block_header",
    "block_roots", "state_roots", "historical_roots", "eth1_data", "eth1_data_votes",
    "eth1_deposit_index", "validators", "balances", "randao_mixes", "slashings",
    "previous_epoch_participation", "current_epoch_participation", "justification_bits",
    "previous_justified_checkpoint", "current_justified_checkpoint",
    "finalized_checkpoint", "inactivity_scores", "current_sync_committee",
    "next_sync_committee", "latest_execution_payload_header">>
  \o Only({"Capella", "Deneb", "Electra"}, fork,
          <<"next_withdrawal_index", "next_withdrawal_validator_index",
            "historical_summaries">>)
  \o Only({"Electra"}, fork,
          <<"deposit_requests_start_index", "deposit_balance_to_consume",
            "exit_balance_to_consume", "earliest_exit_epoch",
            "consolidation_balance_to_consume", "earliest_consolidation_epoch",
            "pending_deposits", "pending_partial_withdrawals", "pending_consolidations">>)

StateRoots(names) == [i \in DOMAIN names |-> FieldRoot("state", names[i])]

BeaconStateRoot == [fork \in Forks |-> ContainerRoot(StateRoots(BeaconState(fork)))]

(* The leaves of build_historical_summaries_proof. *)
HistoricalSummariesLeaves(fork) ==
  LET deneb ==
        <<"genesis_time", "genesis_validators_root", "slot", "fork",
          "latest_block_header", "block_roots", "state_roots", "historical_roots",
          "eth1_data", "eth1_data_votes", "eth1_deposit_index", "validators",
          "balances", "randao_mixes", "slashings", "previous_epoch_participation",
          "current_epoch_participation", "justification_bits",
          "previous_justified_checkpoint", "current_justified_checkpoint",
          "finalized_checkpoint", "inactivity_scores", "current_sync_committee",
          "next_sync_committee", "latest_execution_payload_header",
          "next_withdrawal_index", "next_withdrawal_validator_index",
          "historical_summaries">>
      electra ==
        deneb \o
        <<"deposit_requests_start_index", "deposit_balance_to_consume",
          "exit_balance_to_consume", "earliest_exit_epoch",
          "consolidation_balance_to_consume", "earliest_consolidation_epoch",
          "pending_deposits", "pending_partial_withdrawals", "pending_consolidations">>
  IN  StateRoots([Deneb |-> deneb, Electra |-> electra][fork])

BuildHistoricalSummariesProof(fork) ==
  BuildMerkleProofForIndex(HistoricalSummariesLeaves(fork), 27)

=============================================================================
