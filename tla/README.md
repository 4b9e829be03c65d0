# eth-historian in TLA+

eth-historian authenticates historical Ethereum blocks. A `Verifier` fetches a
header with a proof from any of several data sources, none of which it trusts,
and checks the proof against commitments that are either embedded in the binary
(pre-merge epoch roots, frozen `historical_roots`) or supplied by the caller
(`historical_summaries` of a finalized beacon state). This directory models it
in TLA+, checks the model with TLC, and proves the main theorems with TLAPS.

Paths below are relative to the repository root.

## 1. The system

| part | state | operations | talks to |
|---|---|---|---|
| `VerifierBuilder`, `Verifier` (`src/api.rs`) | list of sources, skip flag, shared `Arc<HeaderValidator>` | builder calls, `build`, `verify`, `verify_block_by_number`, `verify_block_by_hash`, `set_historical_summaries` | sources (awaited in order), validator |
| `HeaderValidator` (`src/header_validator.rs`) | the two accumulators, a provider | `validate_header_with_proof` and one check per era | provider (awaits its read lock) |
| `HistoricalSummariesProvider` | one snapshot behind an async `RwLock`, shared by all clones | `set_summaries`, `get_historical_summary` | |
| accumulators, `assert_canonized_accumulator_fingerprints` (`src/lib.rs`) | embedded assets | decode, fingerprint check (panics) | `build` |
| `HeaderWithProof` codec, `build_*_proof` | none | encode, decode (the variant is chosen from the header), four builders | |
| `construct_pre_merge_proof` | none | compare with the epoch's record, make the branch | |
| `ArchiveRpcSource` | optional `EpochProvider`, optional `BeaconDataProvider` | fetch by number | execution node, then a provider (up to three awaits) |
| `BeaconRpcSource` | HTTP client without a timeout | block at a slot, batch of an era | beacon node |
| `PortalSidecarSource` | HTTP client with a timeout of 30 s | get a header with proof by number or hash | Portal client |
| `PortalBeaconSidecarSource` | HTTP client with a timeout of 60 s | latest summaries, by the rollover that the wall clock points at | Portal client; its caller writes the snapshot |
| `Era1FileSource` | a path | a stub, always an error | |
| `MerkleTree`, consensus containers | none | trees and proofs; field proofs of each fork's containers | builders |
| inclusion (`src/inclusion.rs`) | none | trie proof check, receipt codec | alloy |
| Go, Python, TypeScript bindings | a tokio runtime behind a `OnceLock` (not in TypeScript); in Go, error strings on Rust's heap | verify one `HeaderWithProof`, check inclusion, report fingerprints | core |

What makes the parts correct, and what is hard about them:

* **Verifier.** `Ok` only for the block that was asked for, committed to by the
  canonical chain, with the right trust label; a failing source never hides a
  good one behind it; every call returns unless a source never answers. Hard:
  calls suspend at each fetch and at the lock while other holders replace the snapshot; sources fail in several
  ways; the fingerprint check is one call among the builder's.
* **Validator and codec.** An accepted proof shows the header at the right
  place in the right tree. Hard: four forks with boundaries given once as block
  numbers, once as timestamps, once as slots; the proof has no tag on the wire,
  two variants have equal size; an index comes with the proof.
* **ArchiveRpcSource and BeaconRpcSource.** Right answers from the nodes give
  bytes that verify. Hard: three answers of two nodes that nobody compares;
  fork dispatch on both sides; a beacon state holds no root of its own slot.
* **Snapshot refresh.** A verdict rests on a snapshot in force during its call;
  after a refresh, what had ended is covered. Hard: the rollover is computed
  from a clock that may be wrong, before its content exists; the content is
  awaited and written later, by several tasks, in any order.
* **Trees and containers.** Generated proofs fold to the root at the index the
  verifier uses.
* **Inclusion and bindings.** What is accepted is in the canonical block at that
  index, and what is there is accepted; receipts round-trip; strings that cross
  the C ABI are freed once. Hard: keys of two lengths, four kinds of receipts;
  untyped roots and pointers across an ABI; threads that race for a runtime.

`PROJECT.json` lists every component with its status, and every hazard at the
line where it bites.

## 2. Modules

| module | models |
|---|---|
| `CanonicalChain` | the chain and the commitments to it; what "canonical" and "finalized" mean |
| `HeaderValidator` | pure: fork predicates, codec, the four verdicts, the summary lookup |
| `ProofConstruction` | pure: slot arithmetic, `fork_for_slot`, the proof builders |
| `Verifier` | the state machine of `src/api.rs` |
| `VerifierProperties` | its properties, and the refinement mapping |
| `Authentication` | the abstract promise: a request ends with a legitimate answer or an error |
| `ArchiveRpc` | the state machine of one fetch by `ArchiveRpcSource` with `BeaconRpcSource`, and its properties |
| `MerkleTree` | pure: `src/merkle/proof.rs` and `build_merkle_proof_for_index`, with computed (symbolic) hashes |
| `ConsensusContainers` | pure: the fields of each fork's containers, as the structs order them and as the proof builders list them |
| `MerkleProofs` | one proof from its builder to its check, and the properties |
| `PortalSources` | pure: `get_content` of both Portal sources, their content keys, and `Era1FileSource` |
| `SummariesRefresh` | the state machine of tasks that refresh a snapshot through `PortalBeaconSidecarSource`, and its properties |
| `Inclusion` | pure: `src/inclusion.rs`, the keys, the checks and the receipt codec |
| `Bindings` | the state machine of one process whose threads call the core or a binding, and its properties |
| `MCChain` | the small chain on which TLC works |
| `MCVerifier`, `MCArchiveRpc`, `MCSummariesRefresh`, `MCBindings` | sources, requests, snapshots; nodes' answers; clocks; payloads, block contents and receipts |
| `ProofConstruction_proof`, `Inclusion_proof` | the theorems about the pure modules: what is accepted is canonical, what is canonical is accepted, keys are distinct |
| `MerkleTree_proof`, `MerkleProofs_proof` | the lemmas about trees, shifts and branches of every depth, and the theorems about the proofs that are built and judged |
| `Verifier_proof`, `ArchiveRpc_proof`, `SummariesRefresh_proof`, `Bindings_proof` | the theorems about the state machines |

`CanonicalChain <- HeaderValidator <- ProofConstruction` is a chain of
`EXTENDS`; `Verifier`, `ArchiveRpc`, `SummariesRefresh` and `Bindings` all extend
its end, so that the same validator judges what one receives, what another
produces, what a refreshed snapshot admits and what a binding reports.

**Abstractions.** Hashes are collision-free: a header stands for its hash, and
the root of a tree is the set of its `<<generalized index, leaf>>` pairs. A
branch is the siblings of one position of one tree, whatever that tree holds at
the position itself, and `verify_merkle_proof` puts the leaf there and compares
the tree that comes out, with the checks on length and position that the code
makes. A batch is its `block_roots` and, for its `state_roots`, the slot of the
state they were taken from, because the root of a `HistoricalBatch` depends on
both and a summary's on the first alone. RLP and SSZ are "decodable, as which variant".
Where a block hash sits in a beacon block (3228, 6444) is taken from the code.
`MerkleTree` and `MerkleProofs` go below this abstraction: there the hash of two
nodes is the pair of them, branches are folded bit by bit, and both the
positions and "accepted exactly when the tree holds the leaf there" are checked and
proved.
Loops and recursions are functions of the step or of the depth there, and no
operator is recursive, so that these modules can be proved about. The two levels
are separate module chains: nothing extends both.

**Verifier, state to code.** `builder` is the `VerifierBuilder` (the sources
live on in the `Verifier`), `assets` the embedded files, `summaries` the
snapshot behind the lock, `call[c]` the suspended future of task `c`: waiting
for source number `next` (`pc = "fetch"`), at the read lock with the header it
holds (`"summary"`), or done. Each action runs from one await to the next:
`Verify`, `VerifyBlockByNumber`, `VerifyBlockByHash` are first polls,
`FetchReturns` is one turn of the loop over the sources, `ReadSummaries` is the
lock granted and the rest of `verify`, `SetHistoricalSummaries` is the write.
A panic ends a call with `Panic`. `window[c]` is a history variable: the
snapshots in force at some moment of the call.

**ArchiveRpc, state to code.** `providers` is what `with_*_provider` were called
with, `fetch` the suspended future; `RawBlockReturns`, `EpochReturns`,
`BlockReturns` and `BatchReturns` are its awaits, in order. `faithful` is a
history variable: every answer so far was the canonical chain's. The constant
`Provider` selects a `BeaconDataProvider` that does what its trait documents, or
`BeaconRpcSource` as it is.

**PortalSources, in a Verifier.** A reply of a Portal client either does not
arrive or carries an `error`, a `result`, both or neither; `GetContent` is what
`get_content` makes of it. `MCVerifier` registers a `PortalSidecarSource` over a
client that means well but fails, `Era1FileSource`, an honest source and one
that answers anything.

**SummariesRefresh, state to code.** `time` is the world's, `skew` the error of
this machine's clock, `published` what the Beacon network holds, `summaries` the
snapshot behind the lock, `task[r]` a task: idle, waiting for content (`asked`),
or waiting for the write lock with it (`fetched`). `FetchLatest` reads the clock
and computes the rollover; `ContentReturns` is the rest of
`fetch_latest_historical_summaries`, with every failure; `SetSummaries` is the
write. `written` is a history variable: which refresh is in force. The loop
around the two calls is the caller's (as in `tests/integration.rs:483-514`);
the network and the passing of time are external. `Verifier` lets anybody
replace the snapshot by anything, so what it guarantees holds of refreshers too;
this module says what they in turn guarantee.

**Inclusion.** The root of a trie is its set of pairs, and the nodes that lead
to a key are one path. The bytes of a receipt are a record of the first byte,
the items of the list behind it, and how many bytes follow. A value that no list
can begin with (0x80 to 0xbf as a first byte) does not occur.

**Bindings, state to code.** `language` says how the process calls, `runtime` is
the `OnceLock`, `heap` the C strings not yet freed, `thread[t]` a call: in the
runtime's initialization, before `block_on` (`"verify"`), in the Go wrapper with
an error string that is not yet copied (`"error"`) or not yet freed
(`"copied"`), or done. `block[t]` is the `VerifiedBlock` of the thread's last
successful verification, of which it passes roots to inclusion calls, the right
one or the other one. `Fails` and `Panics` are where the languages differ: in Go
an error becomes a C string and a panic reaches `extern "C"` and aborts; in
Python and TypeScript both become exceptions.

**MerkleProofs, state to code.** `subject` is what a builder is called for,
`proof` what it made, `claim` what a verifier was then shown. The `Build*`
actions are the builders with the `FixedVector::new(..).expect(..)` around them
(`"panic"` when the length is wrong); `Judge` shows the verifier any leaf, any
path and any index of the same tree. Container fields are names. Their order is
written twice, once from the struct, whose root `tree_hash` derives, and once
from the leaves that the builder spells out, because the code has both and they
must agree. `BeaconStateDeneb`'s proof is defined but never judged: nothing in
the repository says at which index it would be.

## 3. Runs

The small chain has epochs and eras of two: blocks 0..2 before Paris (in a full
epoch and a partial one), block 3 in Bellatrix, 4 in Capella, 5 and 6 in Deneb,
7 in Electra, with empty slots in between. Each era's first and last slot, each
fork's first slot, and an unfinished era occur in it, which is every boundary
that the code distinguishes; a longer era adds offsets, not cases.

| run | what it asks | size |
|---|---|---|
| `verifier_trust` | One caller; every builder sequence with at most two sources, honest or answering anything or never; assets intact or one altered; a true or false snapshot, replaced at any time. Type invariant, `OnlyCanonicalBlocks`, `AuthPathIsTheEra`, `OnlyASilentSourceHoldsACall`. | 121,499 states, 1 min |
| `verifier_sharing` | Two callers (symmetric); at most two of an honest source, a Portal sidecar and Era1 files, in any order; snapshots coming and going. `SnapshotJustifiesVerdict`, `HonestSourceSuffices`, and that `Authentication` is implemented. | 85,900 states, 1 min |
| `archive_source` | Every block, every choice of providers, nodes that answer rightly, wrongly or not at all. `FaithfulFetchVerifies`, `EncodedProofIsDecoded`. | 350 states |
| `merkle_proofs` | Blocks of the four forks, the Electra state, every slot of an era of eight, every block of epochs of one to eight. `FieldProofsFold`, `EraProofsFold`, `OnlyTheRightLeaf`. | 21,042 states, seconds |
| `summaries_refresh` | Two refreshers while two eras end, on a machine whose clock is right, an era fast or slow, or two slow (before genesis at first); a client that fails, lags behind or returns the content of another rollover. `RefreshedErasVerify`, `OnlyTheOvertakenGoBack`, `EndedErasGetCovered`, `EveryRefreshEnds`. | 15,628 states, 20 s |
| `bindings` | Two threads in a process of each language; intact or altered assets; a runtime that may fail to build; six payloads of four blocks; inclusion under both roots with both keys; receipts of every kind. `EveryStringHasOneOwner`, `InclusionIsOfTheChain`, `ProvenValuesAreIncluded`, `VerifiesUntilCapella`, `FingerprintsOfAWorkingBuild`, `RoundTripLosesOnlyATail`, `EveryBindingCallEnds`. | 163,075 states, 1 min |
| `off_range_slot` | violation of `HonestSourceSuffices` | |
| `beacon_api_batch` | violation of `FaithfulFetchVerifies` | |
| `prague_header` | violation of `FaithfulFetchVerifies` | |
| `short_accumulator` | violation of `WrongEpochIsAnError` | |
| `go_inclusion` | violation of `ProvenValuesAreIncluded` | |
| `receipt_tail` | violation of `DecodedReceiptsRoundTrip` | |

Bounds, all of them constants of a cfg or sets of an MC module: `MaxSources = 2` is enough for a source before and one after the one
that matters, and the proofs have no bound; answers, snapshots and requests are
the finite sets of the MC modules. `verifier_trust` and
`off_range_slot` set `CHECK_DEADLOCK FALSE`: with altered assets `build` panics
and nothing follows, which is the design. The others check deadlock.
`verifier_sharing` asks for block 5 only, which needs the lock in every call;
`verifier_trust` asks for blocks of all four eras. In `archive_source` block 7
is an Electra block whose era is unfinished, so nothing is promised of it;
`prague_header` is the same chain with Electra one slot earlier, where the era
is finished, and fails.

In `summaries_refresh` an epoch is one slot and a rollover two epochs, so that a
rollover is an era, as on mainnet. `Ticks = {4}` passes an era at a time, from
`StartTime`, when only era 1 has ended, to `MaxTime`, when eras 2 and 3 have;
`Skews` put the machine's clock at a rollover, between two, and before genesis.
When time stops, a right clock asks for the last rollover and a slow one for the
one before, both of which get published, so that sincere refreshes can go on and
eras are ended by these clocks: `EndedErasGetCovered` is about those. `Careless`
lets the client return another rollover's content; the properties are conditional
on `Sincere`, because the code does not compare the epoch that comes back.

In `bindings`, `Addresses` has one address per thread, which is as many as are
ever in use, so that addresses are reused at once; `Askers` is one thread,
because inclusion and decoding share no state and a second asker adds only the
product; `TrieKeys` has index 0 and index 128, the first whose key has a prefix.
Receipts: legacy, Arbitrum, deposits with and without nonce; `RawReceipts`, which
are decoded without a proof, add the bytes around every range of types, with one
byte too few or too many and with other numbers of items. `bindings` has
`CHECK_DEADLOCK FALSE`, because a panic in Go aborts the process, which is what
altered assets are meant to cause. It sets `CgoCheck = FALSE`, a process run
with `GODEBUG=cgocheck=0` (or whose caller pins its nodes), since otherwise no Go
inclusion call gets anywhere; `go_inclusion` is the same with the default.
`receipt_tail` is one thread of a Rust process, with the same receipts.

`merkle_proofs` keeps the real containers (up to 37 fields) and shrinks only the
era, to a tree of depth three, which has full, partial and empty subtrees on
every level; the depth enters the definitions only as `EraDepth`.

The SHA of an altered asset is modelled as different: the run includes both an
altered `merge_macc.bin` and an altered `historical_roots.ssz`, accepted only by
a builder that skipped the check.

### What the violations show

1. `off_range_slot`: `verify_historical_roots_beacon_block_proof` indexes
   `historical_roots` with the era of the slot in the proof
   (`src/header_validator.rs:264`). For a slot from Capella on it panics, so
   the sources registered behind are not tried, contrary to
   `src/api.rs:128-130`. `verifier_sharing` checks the same property where no
   source makes that answer.
2. `beacon_api_batch`: the state at the last slot of an era has no root for that
   slot yet, so the batch of `BeaconRpcSource` (`src/sources/beacon_rpc.rs:164`)
   ends with the root of one era before, contrary to
   `src/sources/beacon_rpc.rs:39-42`. That entry is among the siblings of every
   other slot of the era, and no proof of one of those verifies. The proof of the
   last slot does, if it is from Capella on: there the stale entry is the proof's
   own leaf, which no sibling depends on. Before Capella it does not either,
   because the `state_roots` beside it are stale too.
3. `prague_header`: `RawBlock` has no `requestsHash`, so the rebuilt header of
   an Electra block (`src/sources/archive_rpc.rs:439`) has another hash;
   `src/sources/archive_rpc.rs:27` claims Electra.
4. `short_accumulator`: `construct_pre_merge_proof` panics rather than
   returning the error its doc promises when the list supplied is the last,
   partial epoch's (`src/proof_construction.rs:62`).
5. `go_inclusion`: `runInclusion` (`src/bindings/go/eth_historian.go:194`) passes
   C an array in Go memory of pointers to Go memory. cgo's rules forbid that
   unless the pointees are pinned by `runtime.Pinner`; `KeepAlive`, which the
   comments at 174-176 and 195-197 rely on, does not pin. The check that Go makes
   by default panics, so no call with a proof node returns what 112-113 promise.
   The tests of the package only pass empty lists.
6. `receipt_tail`: `decode_receipt` ignores bytes behind the list of a legacy or
   Ethereum typed receipt (`src/inclusion.rs:267`, `:286`), so such a receipt
   encodes to fewer bytes than it was decoded from, where the doc of
   `to_wire_bytes` (`src/inclusion.rs:195-197`) promises a round trip "byte for
   byte for every admitted type". That this is all a round trip can lose, and that
   nothing is lost of a receipt whose inclusion was shown first, is
   `RoundTripLosesOnlyATail` in `bindings`.

Two more facts that a reader of the code should know, which passing properties
state as they are. A block from Shanghai on that is verified without a snapshot
is refused with `VerificationFailed` (`src/api.rs:218`, `VerifiesUntilCapella`);
the `HistoricalSummariesUnavailable` that `src/api.rs:139-141` documents for this
case is never constructed. And a refresh that was overtaken by a later one writes
its older snapshot over it (`OnlyTheOvertakenGoBack`), which no doc denies.

### Fairness

`Verifier`: weak fairness of `FetchReturns(c)` while the source that is awaited
is one of `Timely`, and of `ReadSummaries(c)`. Nothing in `src/api.rs` bounds the
await of a source. Those of the two Portal sources end, by the timeouts of their
clients (`src/sources/portal.rs:66`, `src/sources/portal_beacon.rs:72`);
`Era1FileSource` returns at once; `ArchiveRpcSource` over a `BeaconRpcSource` need
not return, because that one's client has no timeout
(`src/sources/beacon_rpc.rs:70`), and an implementor of the public trait need
not either. So `Timely` is a constant, in `verifier_trust` only the honest source
is in it, and `OnlyASilentSourceHoldsACall` says what remains true: a call that
never returns waits for one source, not in `Timely`, for ever. tokio's `RwLock` is
FIFO and no guard is held across an await, so a reader is granted the lock.
Nothing else is fair: nobody needs to call, to collect a result or to refresh.
`ArchiveRpc` has no fairness at all, for the reason above, and no liveness
property. `SummariesRefresh`: weak fairness of `ContentReturns(r)`, because of the
client's timeout of 60 s, and of `SetSummaries(r)`, because of the fair lock;
`EndedErasGetCovered` moreover assumes, in the property, that refreshes keep
succeeding. `Bindings`: weak fairness of a thread's steps within a call, which is
that the operating system schedules it; nobody needs to begin a call or to take a
result. Building the runtime may fail any number of times, each time as a panic
of the thread that tried; `EveryBindingCallEnds` excepts only the behaviours in
which it fails for ever, since a waiting thread may then always be overtaken by
another that tries.

### Mutants

Each property of a passing run has a mutated definition in the models that
breaks it: a dropped bound in the loop, a source asked again for ever, the
execution proof ignored, a label mixed up, a stale snapshot, an error that ends
the fallback, an answer for another block accepted, fork boundaries off by one,
an unchecked record, a missing genesis check, a field that
Electra added forgotten among the leaves, a tree split in halves, an index that
is not shifted, a clock that wraps, a rollover too early, an error answered by
the content before, a string freed before it is copied, two roots that change
places, a raw key, a missing summary that is not missed, one of two fingerprints
checked, half of an optional pair dropped, a lock that is not waited for. They are the operators whose name has a suffix, as in
`Refuse_Again`; nothing else refers to them.

## 4. Proofs

Assumptions, all evaluated by TLC on every run that extends their modules:

* `MainnetNumbers`: eras are not empty, Shanghai is not after Cancun, Capella
  starts on an era boundary (on mainnet 758 * 8192), the pre-merge chain has a
  block for every number;
* `SlotClock`: an execution fork's timestamp is that of its consensus fork's
  first slot;
* `ChainHeaders`: what consensus makes of headers.  A mined block has its number
  and is from before Shanghai; a payload has a later number, the time of the slot
  at which it was proposed and its place in that slot's beacon block, a beacon
  block has one payload, and an empty slot repeats the entry of an earlier one;
* `RolloverPeriod`: a historical root is a whole number of epochs, and clocks and
  times are integers;
* `RpcAnswers`, `BindingTypes`, `ChainContents`: the shapes of the answers of the
  nodes and providers, of what callers hold, and of what the blocks of the chain
  contain; an index is a `u64`. Nothing is assumed of what an answer says: an
  `EpochProvider` may give any records, and so may the nodes give any headers;
* `EraDepthIsNat`: the tree of an era has at least one level;
* `InputTypes`: what Rust's types give (a proof is one of four variants, a slot
  is a natural number).

| theorem | says |
|---|---|
| `PreMergeSound`, `MergeToCapellaSound`, `SummarySound` | a proof accepted against the canonical commitments is of a canonical header of that era |
| `CanonicalProofAccepted` | the proof that a faithful source builds for a canonical header decodes as itself and is accepted, from Shanghai on by exactly the finalized snapshots that reach its era |
| `KeysDistinct` | `rlp_encode_index` gives different 64-bit indices different keys |
| `TypeCorrect` | `Spec => []TypeOK` |
| `OnlyCanonical` | `Spec => []OnlyCanonicalBlocks` |
| `AuthPathCorrect` | `Spec => []AuthPathIsTheEra` |
| `SnapshotJustifies` | `Spec => []SnapshotJustifiesVerdict` |
| `HonestSourceIsEnough` | `Spec => []HonestSourceSuffices`, given `SlotsInRange` |
| `VerifierKeepsPromise` | `Spec => ImplementsAuthentication` |
| `RpcTypeCorrect`, `EncodedIsDecoded` | `RpcSpec => []RpcTypeOK`, `RpcSpec => []EncodedProofIsDecoded`, whatever the nodes and the epoch provider answer |
| `FaithfulFetchIsCanonical` | faithful answers make the canonical proof of every header before Prague, and it is accepted (`CanonicalUntilPrague`); given `Provider = "documented"` and `BlocksOfTheirFork` |
| `FaithfulFetchIsAccepted` | `RpcSpec => []FaithfulFetchVerifies`, given also `NoElectraEraEnded` |
| `RefreshTypeCorrect`, `RefreshCoversEndedEras`, `OvertakenOnly` | `RefreshSpec => []RefreshTypeOK`, `[]RefreshedErasVerify`, and the action property `OnlyTheOvertakenGoBack` |
| `BindTypeCorrect`, `StringsAreOwnedOnce`, `InclusionReachesTheChain`, `FingerprintsMean`, `ReceiptsLoseOnlyATail` | `BindSpec => []BindTypeOK` and the invariants of the same subject; the third and the fifth given `KeysEncoded` |
| `ChainIsIncluded` | `BindSpec => []ProvenValuesAreIncluded`, given `KeysEncoded` and `NodesPass` |
| `BindingsVerifyUntilCapella` | `BindSpec => []VerifiesUntilCapella` |
| `EraAcceptsOnlyTheRightLeaf`, `FieldsAcceptOnlyTheRightLeaf` | of any leaf and any path at all (of the fixed length, for a field), each of the five checks accepts only the leaf that its tree has at the index |
| `EraProofsAreAccepted`, `FieldProofsAreAccepted` | what each builder makes has the length of its vector and is accepted |
| `EraProofsHold`, `FieldProofsHold`, `OnlyTheRightLeafIsAccepted` | `[]EraProofsFold`, `[]FieldProofsFold` and `[]OnlyTheRightLeaf` in every behaviour of `MerkleProofs` |

They hold for any number of callers, sources, tasks and threads, any answers,
requests and bytes, any chain, any clock and any snapshots, and trees of any
depth.

Some theorems have hypotheses of their own, named in their statements. They are
not assumptions of the modules, because runs of the same modules violate them on
purpose:

* `SlotsInRange`: no source answers with a `HistoricalRoots` proof whose slot is
  of an era from Capella on. `off_range_slot` is the run without it: there the
  validator panics, and no later source is tried.
* `Provider = "documented"`: the `BeaconDataProvider` does what its trait says.
  `beacon_api_batch` is the run with the one that ships.
* `BlocksOfTheirFork`: a beacon block that hashes to the canonical root is
  encoded as of the fork of its slot.
* `NoElectraEraEnded`: of an Electra era that has ended the property is false,
  as `prague_header` shows. `FaithfulFetchIsCanonical` does without, by speaking
  of the headers before Prague.
* `NodesPass`: the process is not a Go one with the default checks of cgo, which
  `go_inclusion` is about.
* `KeysEncoded`: the tries of the chain are keyed by the RLP of the index, as
  Ethereum's are.

All of them hold in the instance that the passing run of the same property
checks.

The argument. The three soundness theorems are about the pure validator. None
of the safety properties is inductive: a result is justified by checks made two
steps earlier, before the read lock. `IndInv` (in `Verifier_proof`) therefore
says of each call what it has established so far (`GoodCall`): one that waits
at the lock holds a header that matches its request and is bound to the beacon
block of its proof, with a slot from Capella on; one that is done has a result
that is `Justified`. What it may assume is relative: `trusted` is true while
the Verifier is guarded and every snapshot of the call's window is finalized,
and it can only become false as the window grows, which `GoodCallWeakens` and
the monotonicity of the window cover. One lemma per function of a call
(`ReturnIsGood`, `RefuseIsGood`, `JudgeIsGood`, `ConsiderIsGood`,
`SummaryVerdictIsGood`) and one for "a step changes one call" (`OneCall`) reduce
`NextIndInv` to one case per action.

`SnapshotJustifies` needs a second invariant, `AllFounded`: `GoodCall` speaks of
finalized snapshots only, while this property is about any, so it says of a call
at the lock that what it holds is founded on its own proof, and of one that is
done that a snapshot of its window holds the summary.

Completeness starts from `CanonicalProofAccepted`. Four places name the fork of
a block: the validator and the decoder by its number and timestamp, the source by
the slot of the timestamp, the chain by the position in the beacon block. They
agree by `SlotClock` and `ChainHeaders`, with the arithmetic of `ExactQuotient`,
`SlotOfItsTime` and `SummaryIndexOfSlot`; the rest is that each builder's branch
is the one which the check of its variant folds.

`HonestSourceIsEnough` needs a third invariant, `AllHeard`. If turn `i` of the
loop provides the canonical proof, a call waits for a source not past `i`, or at
the lock with an answer not past `i`, which is that proof if it is of turn `i`;
and a call that is done is done with `Ok`. Before turn `i` a refusal always goes
on (`RefusalGoesOn`), and nothing else ends the loop (`OthersAreHeardOut`, where
`SlotsInRange` excludes the panic); at turn `i` the answer is accepted at once or
held (`CanonicalJudged`) and accepted under the lock (`HeldIsAccepted`). That the
snapshot covers the header throughout the call is a condition on a window that
only grows, so a refresh cannot make the invariant false. `Heard` is relative to
what is `Covered` so far, for the same reason that `GoodCall` is to what is
trusted.

`ArchiveRpc`: `RpcInd` says of a fetch which variant its header will be decoded
as, from the guards that it has passed, and `SlotOfFork` carries that across
`fork_for_slot` by `SlotClock`. Before Paris there is one exception, which
`EncodedProofIsDecoded` names: nothing compares a record's timestamp with its
number, so an epoch provider that agrees with the node on a block from before
Paris dated after Shanghai makes bytes that cannot be decoded
(`archive_source` has such a provider). What can be decoded is always what was
encoded. `FaithInd` follows a header of the chain: while
every answer was the chain's, the beacon block in hand is that of its slot, and
what the fetch ends with is `CanonicalProof` of it, unless the header is of Prague
and lost a field.

`SummariesRefresh`: `RefreshInd` says that every content that a task holds, and
every snapshot in force once there was a write, is that of some rollover. The
rest is arithmetic: the snapshot of a rollover covers exactly the eras before it
(`CoversFirstEras`, through the validator, its gindex and its branch), the
rollover of a clock covers what has ended (`EndedIsBehind`), and it grows with
the clock (`RolloverEraGrows`).

`Bindings`: `BindInd` has the ownership of strings as a bijection between
addresses in use and calls that hold one, that a verified block passed the
validator against canonical assets and carries its own roots, and that a result
is what the pure functions gave for its request. Panics and aborts keep it. Its
clause for results, `Vouches`, says so in both directions, which
`BindingsVerifyUntilCapella` and `ChainIsIncluded` combine with
`CanonicalProofAccepted` and `KeysDistinct`. The latter is a fact about the bytes
of an integer: the width of a key tells how many there are (`WidthFits`), and
digits tell numbers of one width apart (`SameDigits`). Both are cases over the
eight widths of a `u64`, which is why `Inclusion` writes powers of 256 out.

The refinement hides sources, proofs and snapshots. A step that begins a call
is an abstract `Begin`, or `Settle` when it returns without waiting; the turns
of the loop stutter; the end is a `Settle` whose legitimacy is `IndInv`.

`MerkleTree` and `MerkleProofs`: trees of any depth need induction. The library's
induction rules take a predicate, which the provers cannot instantiate; the lemma
`SetInduction` says the same of a set, from the minimum of a non-empty set under
a well-founded order (`WFMin`). With it the functions of the step or depth are
unfolded once each, a set of n elements is shown to have `2^n` subsets, which
yields the laws of powers and of shifts, and the rest is algebra of bits:
`Gindex(c, depth, index)` is `c * 2^depth + index`, whose lowest bits are those of
the index (`BitOfSum`) and whose other bits are those of `c` (`BitAbove`).

The core is a pair of lemmas about the loop of `merkle_root_from_branch`.
`SiblingsLeadToTheRoot`: from the leaf at an index, with the siblings on its way,
the rounds end in the root. `OnlySiblingsLeadToTheRoot`: if they end in the root,
they started at that leaf and met those siblings, because `Hash` is injective.
Together they make each check an equivalence (`SummaryAccepts`, `BatchAccepts`,
`EpochAccepts`, `BlockAccepts`, `StateAccepts`): accepted is that leaf with those
nodes, and nothing else. Where trees are stacked, a generalized index is cut at
their boundaries (`RoundsAccept`, `VerifyInStack` for 3228 and 6444). Both
builders are shown to give the siblings: `build_merkle_proof_for_index` reads
them off the levels (`BuildsSiblings`), and the walk of `generate_proof` down a
right-sparse tree, with its `Zero` nodes for the missing blocks of a partial
epoch, meets the same hashes (`SubtreeHash`, `GeneratesSiblings`). For the fields,
the list of leaves of each builder is shown to be that of the struct, fork by
fork (`PayloadNamesAgree`, `BodyNamesAgree`, `StateNamesAgree`, `BlockTree`). The
invariant of `MerkleProofs` (`IndInv` in `MerkleProofs_proof`) then only has to
say that what was built is the path of that builder, which fits its vector, and
that a claim about a field has the fixed length. Without that length
`OnlyTheRightLeaf` would be false for fields: the bits of 3228 that a path of
another length uses lead to another node, and only the type of the vector
excludes such a path.

The assumption `EraDepthIsNat` (the depth of an era is positive) is the only one.

Only model-checked: the liveness properties (`OnlyASilentSourceHoldsACall`,
`EndedErasGetCovered`, `EveryRefreshEnds`, `EveryBindingCallEnds`), because TLAPS has no rule for fairness and `ENABLED`.
Every other property of the passing runs is a theorem.

## 5. Not modelled

* Hash functions, the codecs of RLP and SSZ, HTTP and JSON, beyond what section 2
  says. In particular the SSZ codec of the consensus containers, which the `ssz`
  crates derive, and the fields of a header other than those that decide
  something. A proof is therefore "decodable, as which variant".
* Receipts whose first byte is the header of an RLP string (0x80 to 0xbf): what
  becomes of them is decided inside alloy.
* The proof of `HistoricalSummariesWithProof`, which the code fetches and drops;
  its SSZ envelope has one fixed length of proof, so content of another fork's
  layout counts as undecodable.
* A clock that is stepped while a task runs: `skew` is constant during a run, and
  time only moves forward.
* The language runtimes: Python's GIL (released around each call), the event loop
  of JavaScript, what is left of a wasm instance after a trap (a panic ends the
  call there), and callers that break the contracts of the C functions with null
  or dangling pointers, which the Go wrapper never passes.
* `EpochProvider`s other than the files of `FilesystemEpochProvider`, and the
  examples and command-line tools.
* Compromise of the trust root is out of scope: whoever supplies a snapshot
  vouches for it.
