------------------------------ MODULE Bindings ------------------------------
(***************************************************************************)
(* One process whose threads call eth-historian: through the core API, or  *)
(* through the Go, Python or TypeScript binding.                           *)
(*                                                                         *)
(* Each verification makes a Verifier of its own, without a snapshot, and  *)
(* shares only the tokio runtime behind a OnceLock.  In Go an error is a C *)
(* string on Rust's heap, which the wrapper copies and then frees.  A      *)
(* panic aborts the process when it reaches the C ABI, and ends the call   *)
(* otherwise (PanicException, or a trap of the wasm instance).             *)
(***************************************************************************)
EXTENDS ProofConstruction, Inclusion

CONSTANTS
  Languages,      \* "rust", "go", "python", "ts": how this process calls
  Threads,
  Addresses,      \* bound: where a C string may be; one for each thread
  Payloads,       \* bytes that callers take for a HeaderWithProof
  Bodies,         \* header -> its `transaction`s and `receipt`s, by index
  TrieKeys,       \* index -> its key in the tries of the chain
  Values,         \* raw transactions and receipts that callers hold
  Askers,         \* bound: the threads that ask about inclusion and receipts
  RawReceipts,    \* bytes that they decode without a proof
  CgoCheck,       \* Go: the runtime checks what C is passed, as by default
  EmbeddedAssets  \* what this build may embed

(* Rust's types: bytes of the wrong length decode as nothing, a proof that
   decodes has a slot unless it is pre-merge, and an index is a u64. *)
ASSUME BindingTypes ==
  /\ Languages \subseteq {"rust", "go", "python", "ts"}
  /\ \A i \in DOMAIN TrieKeys : i \in Nat /\ \E w \in 1 .. 8 : i < Power256(w)
  /\ CgoCheck \in BOOLEAN
  /\ \A payload \in Payloads :
       \/ payload.proof.variant = "Unreadable"
       \/ /\ payload.header.number \in Nat
          /\ payload.header.timestamp \in Nat
          /\ payload.proof.variant \in AuthPaths
          /\ payload.proof.variant # "HistoricalHashes" => payload.proof.slot \in Nat
  /\ \A embedded \in EmbeddedAssets :
       embedded = [epochs |-> embedded.epochs, roots |-> embedded.roots]
  /\ \A raw \in Values \cup RawReceipts :
       /\ raw = Wire(raw.first, raw.items, raw.rest)
       /\ raw.first \in -1 .. 255 /\ raw.items \in Seq(STRING) /\ raw.rest \in Int

(* The canonical blocks' contents: what a trie holds is under an index that has
   a key, and ends where its list does. *)
ASSUME ChainContents ==
  /\ \A payload \in Payloads : Canonical(payload.header) => payload.header \in DOMAIN Bodies
  /\ \A h \in DOMAIN Bodies :
       /\ DOMAIN Bodies[h].transaction \subseteq DOMAIN TrieKeys
       /\ DOMAIN Bodies[h].receipt \subseteq DOMAIN TrieKeys
       /\ \A i \in DOMAIN Bodies[h].receipt : Bodies[h].receipt[i].rest = 0

VARIABLES
  language,  \* how this process calls
  assets,    \* the accumulators embedded in this build
  process,   \* "running" or "aborted"
  runtime,   \* the OnceLock: "unset", "initializing" by one thread, or "ready"
  heap,      \* address -> message, of the C strings not yet freed
  thread,    \* the state of each thread's call
  block      \* the VerifiedBlock that each thread has obtained last

bindVars == <<language, assets, process, runtime, heap, thread, block>>

None  == [tag |-> "None"]
Panicked == [tag |-> "Panicked"]

(* A call: where it is, what was asked, in Go the address of its error string,
   and its result. *)
Doing(pc, request, address, result) ==
  [pc |-> pc, request |-> request, address |-> address, result |-> result]

Idle == Doing("idle", None, 0, None)

BindInit ==
  /\ language \in Languages
  /\ assets \in EmbeddedAssets
  /\ process = "running"
  /\ runtime = "unset"
  /\ heap = <<>>
  /\ thread = [t \in Threads |-> Idle]
  /\ block = [t \in Threads |-> None]

-----------------------------------------------------------------------------
(* How the Rust side of a call goes on or ends. *)

Goes(t, pc, request) ==
  /\ thread' = [thread EXCEPT ![t] = Doing(pc, request, 0, None)]
  /\ UNCHANGED <<process, heap, block>>

Succeeds(t, request, result) ==
  /\ thread' = [thread EXCEPT ![t] = Doing("done", request, 0, result)]
  /\ block' = IF result.tag = "Verified" THEN [block EXCEPT ![t] = result] ELSE block
  /\ UNCHANGED <<process, heap>>

Raises(t, request, result) ==
  /\ thread' = [thread EXCEPT ![t] = Doing("done", request, 0, result)]
  /\ UNCHANGED <<process, heap, block>>

(* make_error and err_cstring: the string outlives the call, at an address
   that the allocator finds free. *)
IntoRaw(t, request, result) ==
  /\ \E a \in Addresses \ DOMAIN heap :
       /\ heap' = [b \in DOMAIN heap \cup {a} |-> IF b = a THEN [of |-> t, result |-> result] ELSE heap[b]]
       /\ thread' = [thread EXCEPT ![t] = Doing("error", request, a, None)]
  /\ UNCHANGED <<process, block>>

Fails(t, request, error) ==
  IF language = "go" THEN IntoRaw(t, request, Refused(error))
                     ELSE Raises(t, request, Refused(error))

Aborts == process' = "aborted" /\ UNCHANGED <<heap, thread, block>>

Panics(t, request) ==
  IF language = "go" THEN Aborts ELSE Raises(t, request, Panicked)

-----------------------------------------------------------------------------
(* The wrapper's side of an error, in Go. *)

(* Mutated form: the string is freed before it is copied. *)
CopyError_Freed(t) ==
  /\ thread[t].pc = "error"
  /\ thread' = [thread EXCEPT ![t] = Doing("copied", @.request, @.address, heap[@.address].result)]
  /\ heap' = [a \in DOMAIN heap \ {thread[t].address} |-> heap[a]]
  /\ UNCHANGED <<language, assets, process, runtime, block>>

(* C.GoString *)
CopyError(t) ==
  /\ thread[t].pc = "error"
  /\ thread' = [thread EXCEPT ![t] = Doing("copied", @.request, @.address, heap[@.address].result)]
  /\ UNCHANGED <<language, assets, process, runtime, heap, block>>

(* eth_historian_free_error *)
FreeError(t) ==
  /\ thread[t].pc = "copied"
  /\ heap' = [a \in DOMAIN heap \ {thread[t].address} |-> heap[a]]
  /\ thread' = [thread EXCEPT ![t] = Doing("done", @.request, 0, @.result)]
  /\ UNCHANGED <<language, assets, process, runtime, block>>

-----------------------------------------------------------------------------
(* verify_header_with_proof. *)

(* Mutated form: only one of the two embedded files is checked. *)
FingerprintsHold_RootsOnly(embedded) == embedded.roots = CanonicalAssets.roots

FingerprintsHold(embedded) ==
  /\ embedded.epochs = CanonicalAssets.epochs
  /\ embedded.roots = CanonicalAssets.roots

ConstructsAndDecodes(t, request) ==
  IF ~FingerprintsHold(assets) THEN Panics(t, request)
  ELSE IF ~Decodable(request.payload) THEN Fails(t, request, "SszDecode")
  ELSE Goes(t, IF language = "python" THEN "runtime" ELSE "verify", request)

(* Only Go decodes before it constructs the Verifier. *)
DecodesAndConstructs(t, request) ==
  IF ~Decodable(request.payload) THEN Fails(t, request, "SszDecode")
  ELSE IF ~FingerprintsHold(assets) THEN Panics(t, request)
  ELSE Goes(t, "runtime", request)

CallVerify(t, payload) ==
  /\ thread[t].pc = "idle"
  /\ LET request == [op |-> "verify", payload |-> payload]
     IN  IF language = "go" THEN DecodesAndConstructs(t, request)
                            ELSE ConstructsAndDecodes(t, request)
  /\ UNCHANGED <<language, assets, runtime>>

(* OnceLock::get_or_init: one thread initializes, the others wait for it. *)
InitRuntime(t) ==
  /\ thread[t].pc = "runtime" /\ runtime = "unset"
  /\ runtime' = "initializing"
  /\ thread' = [thread EXCEPT ![t].pc = "initializing"]
  /\ UNCHANGED <<language, assets, process, heap, block>>

Initializing(t) == thread[t].pc = "initializing" /\ runtime = "initializing"

RuntimeBuilt(t) ==
  /\ Initializing(t)
  /\ runtime' = "ready"
  /\ thread' = [thread EXCEPT ![t].pc = "verify"]
  /\ UNCHANGED <<language, assets, process, heap, block>>

(* The `expect` on what `build` returns: the lock stays unset, and one of the
   threads that wait for it tries next. *)
RuntimeFails(t) ==
  /\ Initializing(t)
  /\ runtime' = "unset"
  /\ Panics(t, thread[t].request)
  /\ UNCHANGED <<language, assets>>

(* Mutated forms: a thread that finds the lock taken goes on at once; or waits
   for it to be unset again. *)
UseRuntime_Unready(t) ==
  /\ thread[t].pc = "runtime" /\ runtime # "unset"
  /\ thread' = [thread EXCEPT ![t].pc = "verify"]
  /\ UNCHANGED <<language, assets, process, runtime, heap, block>>
UseRuntime_Unset(t) ==
  /\ thread[t].pc = "runtime" /\ runtime = "ready" /\ runtime = "unset"
  /\ thread' = [thread EXCEPT ![t].pc = "verify"]
  /\ UNCHANGED <<language, assets, process, runtime, heap, block>>

UseRuntime(t) ==
  /\ thread[t].pc = "runtime" /\ runtime = "ready"
  /\ thread' = [thread EXCEPT ![t].pc = "verify"]
  /\ UNCHANGED <<language, assets, process, runtime, heap, block>>

(* Mutated form: a summary that is missing is not missed. *)
Verdict_Lenient(hwp) ==
  LET verdict == ValidateHeaderWithProof(assets, hwp.header, hwp.proof)
  IN  IF verdict = "summary" THEN "ok" ELSE verdict

(* Verifier::verify without a snapshot: no summary is found. *)
Verdict(hwp) ==
  LET verdict == ValidateHeaderWithProof(assets, hwp.header, hwp.proof)
  IN  IF verdict = "summary" THEN "failed" ELSE verdict

TrieRoot(values) == {<<TrieKeys[i], values[i]>> : i \in DOMAIN values}

(* Mutated form: two of the roots change places on the way through the ABI. *)
VerifiedBlock_Swapped(hwp) ==
  [tag |-> "Verified", header |-> hwp.header, path |-> hwp.proof.variant,
   transaction |-> TrieRoot(Bodies[hwp.header].receipt),
   receipt     |-> TrieRoot(Bodies[hwp.header].transaction)]

(* The fields that a caller sees: those of FfiVerifyResult, of which the Go
   struct is a copy, PyVerifiedBlock or VerifiedBlockJs. *)
VerifiedBlock(hwp) ==
  [tag |-> "Verified", header |-> hwp.header, path |-> hwp.proof.variant,
   transaction |-> TrieRoot(Bodies[hwp.header].transaction),
   receipt     |-> TrieRoot(Bodies[hwp.header].receipt)]

(* block_on, or the await of verify: it never waits. *)
RunVerify(t) ==
  /\ thread[t].pc = "verify"
  /\ LET request == thread[t].request
         hwp     == FromSszBytes(request.payload)
     IN  CASE Verdict(hwp) = "ok"     -> Succeeds(t, request, VerifiedBlock(hwp))
           [] Verdict(hwp) = "failed" -> Fails(t, request, "VerificationFailed")
           [] Verdict(hwp) = "panic"  -> Panics(t, request)
  /\ UNCHANGED <<language, assets, runtime>>

-----------------------------------------------------------------------------
(* Inclusion: `op` is "transaction", "receipt" or, of the core API only,
   "decode".  A binding's caller passes a root: either one of its block, or
   bytes of another length, which the wrapper refuses before the core is
   called.  The methods of the core's VerifiedBlock take the root themselves. *)

ShortRoot == "short"

RootFor(op) == IF op = "transaction" THEN op ELSE "receipt"

Judged(request, root) ==
  CASE request.op = "transaction" ->
         VerifyTransactionInclusion(root, request.index, request.raw, request.nodes)
    [] request.op = "receipt" ->
         VerifyReceiptInclusion(root, request.index, request.raw, request.nodes)
    [] request.op = "decode" ->
         VerifyAndDecodeReceipt(root, request.index, request.raw, request.nodes)

(* runInclusion passes C an array, in Go's memory, of pointers to the nodes, in
   Go's memory too.  Go forbids that unless they are pinned, which KeepAlive
   does not do, and unless told otherwise its runtime panics (external). *)
BreaksCgoRules(nodes) == language = "go" /\ nodes # <<>>

CallInclusion(t, op, which, index, raw, key) ==
  /\ t \in Askers
  /\ thread[t].pc = "idle"
  /\ block[t].tag = "Verified"
  /\ language = "rust" => which = RootFor(op)
  /\ op = "decode" => language = "rust"
  /\ LET root    == IF which = "transaction" THEN block[t].transaction ELSE block[t].receipt
         nodes   == IF key \in DOMAIN TrieKeys THEN <<Path(root, TrieKeys[key])>> ELSE <<>>
         request == [op |-> op, which |-> which, index |-> index, raw |-> raw, nodes |-> nodes]
         outcome == Judged(request, root)
     IN  IF which = ShortRoot THEN Raises(t, request, Refused("RootLength"))
         ELSE IF CgoCheck /\ BreaksCgoRules(nodes) THEN Raises(t, request, Panicked)
         ELSE IF outcome.tag = "Err" THEN Fails(t, request, outcome.error)
         ELSE Succeeds(t, request, outcome)
  /\ UNCHANGED <<language, assets, runtime>>

(* decode_receipt without inclusion. *)
CallDecode(t, raw) ==
  /\ t \in Askers
  /\ thread[t].pc = "idle" /\ language = "rust"
  /\ Raises(t, [op |-> "decode_receipt", raw |-> raw], DecodeReceipt(raw))
  /\ UNCHANGED <<language, assets, runtime>>

(* canonized_fingerprints: the constants of the build, whatever it embeds. *)
CallFingerprints(t) ==
  /\ thread[t].pc = "idle"
  /\ Raises(t, [op |-> "fingerprints"], [tag |-> "Fingerprints", of |-> CanonicalAssets])
  /\ UNCHANGED <<language, assets, runtime>>

(* The caller takes the result. *)
Return(t) ==
  /\ thread[t].pc = "done"
  /\ thread' = [thread EXCEPT ![t] = Idle]
  /\ UNCHANGED <<language, assets, process, runtime, heap, block>>

Advances(t) ==
  \/ InitRuntime(t) \/ RuntimeBuilt(t) \/ RuntimeFails(t) \/ UseRuntime(t)
  \/ RunVerify(t) \/ CopyError(t) \/ FreeError(t)

BindNext ==
  /\ process = "running"
  /\ \E t \in Threads :
       \/ \E payload \in Payloads : CallVerify(t, payload)
       \/ \E op \in {"transaction", "receipt", "decode"},
             which \in {"transaction", "receipt", ShortRoot},
             index \in DOMAIN TrieKeys, raw \in Values, key \in DOMAIN TrieKeys \cup {-1} :
            CallInclusion(t, op, which, index, raw, key)
       \/ \E raw \in RawReceipts : CallDecode(t, raw)
       \/ CallFingerprints(t)
       \/ Advances(t)
       \/ Return(t)

(* Threads are scheduled by the operating system: one that may go on does. *)
BindFairness == \A t \in Threads : WF_bindVars(process = "running" /\ Advances(t))

BindSpec == BindInit /\ [][BindNext]_bindVars /\ BindFairness

-----------------------------------------------------------------------------

Done(t, op) == thread[t].pc = "done" /\ thread[t].request.op = op

(* Addresses and results are where the state of a call says they are (the FFI
   of bindings/go/src/lib.rs and its wrapper in eth_historian.go). *)
BindTypeOK ==
  /\ language \in Languages
  /\ process \in {"running", "aborted"}
  /\ runtime \in {"unset", "initializing", "ready"}
  /\ DOMAIN thread = Threads /\ DOMAIN block = Threads
  /\ DOMAIN heap \subseteq Addresses
  /\ \A t \in Threads :
       /\ thread[t].pc \in {"idle", "runtime", "initializing", "verify", "error", "copied", "done"}
       /\ thread[t].pc \in {"error", "copied"} => language = "go"
       /\ thread[t].pc = "verify" /\ language \in {"go", "python"} => runtime = "ready"
       /\ block[t].tag \in {"None", "Verified"}

Holds(t) == thread[t].pc \in {"error", "copied"}

(* "The caller MUST free": every error string that Rust gave away is held by
   the call that failed, which will free it once, and what a call copies is its
   own message.  So nothing is leaked, freed twice or read after an address was
   given to another thread, however the calls interleave. *)
EveryStringHasOneOwner ==
  /\ \A t \in Threads : Holds(t) =>
       /\ thread[t].address \in DOMAIN heap
       /\ heap[thread[t].address].of = t
  /\ \A a \in DOMAIN heap : \E t \in Threads : Holds(t) /\ thread[t].address = a

(* End to end: a value accepted by inclusion against the root that the caller
   took from its verified block is the canonical chain's at that index, of a
   block that the canonical chain commits to.  It rests on the fingerprints,
   the proof, the roots that crossed the ABI, and the key of the index. *)
InclusionIsOfTheChain ==
  \A t \in Threads : \A op \in {"transaction", "receipt", "decode"} :
    Done(t, op) /\ thread[t].request.which = RootFor(op)
      /\ thread[t].result.tag \in {"Included", "Decoded"} =>
        LET body == Bodies[block[t].header][RootFor(op)]
        IN  /\ Canonical(block[t].header)
            /\ thread[t].request.index \in DOMAIN body
            /\ body[thread[t].request.index] = thread[t].request.raw

(* And conversely, "returns nil on success" (Go's VerifyTransactionInclusion):
   the value that the block has at an index is accepted with the nodes that
   lead to it, at each length of the index's key. *)
ProvenValuesAreIncluded ==
  \A t \in Threads : \A op \in {"transaction", "receipt"} :
    Done(t, op) /\ thread[t].request.which = op =>
      LET body  == Bodies[block[t].header][op]
          index == thread[t].request.index
      IN  /\ index \in DOMAIN body
          /\ body[index] = thread[t].request.raw
          /\ thread[t].request.nodes = <<Path(TrieRoot(body), TrieKeys[index])>>
          => thread[t].result = Included

(* "pre-merge and merge->Capella work today", post-Capella fails (Go's
   VerifyHeaderWithProof): every language verifies the canonical blocks before
   Capella, with the label of their era, and refuses the later ones. *)
VerifiesUntilCapella ==
  \A t \in Threads : Done(t, "verify") =>
    LET hwp == thread[t].request.payload
    IN  Canonical(hwp.header) /\ hwp.proof = CanonicalProof(hwp.header)
          /\ thread[t].result # Panicked =>
          IF IsShanghaiActive(hwp.header.timestamp)
          THEN thread[t].result = Refused("VerificationFailed")
          ELSE thread[t].result = VerifiedBlock(hwp)

(* "Clients that want to double-check the installed wheel" compare the
   fingerprints with published values.  They are constants of the source and
   not hashes of what is embedded, so they only mean something together with a
   verdict: a process that has both reports the fingerprints of its assets. *)
FingerprintsOfAWorkingBuild ==
  \A t, u \in Threads :
    Done(t, "fingerprints") /\ Done(u, "verify")
      /\ (thread[u].result.tag = "Verified" \/ thread[u].result = Refused("VerificationFailed"))
      => thread[t].result.of = assets

(* "Round-trips [`decode_receipt`] byte for byte for every admitted type"
   (to_wire_bytes): what is decoded from some bytes is encoded to them. *)
DecodedReceiptsRoundTrip ==
  \A t \in Threads : \A op \in {"decode", "decode_receipt"} :
    Done(t, op) /\ thread[t].result.tag = "Decoded" =>
      ToWireBytes(thread[t].result.receipt) = thread[t].request.raw

(* What the round trip loses at most: bytes behind the list of a legacy or
   Ethereum typed receipt, which decode_receipt ignores, while it refuses them
   behind those of Arbitrum and Optimism.  Nothing else changes, of any type,
   and nothing at all of a receipt whose inclusion in a trie was shown. *)
RoundTripLosesOnlyATail ==
  \A t \in Threads : \A op \in {"decode", "decode_receipt"} :
    Done(t, op) /\ thread[t].result.tag = "Decoded" =>
      LET receipt == thread[t].result.receipt
          raw     == thread[t].request.raw
      IN  /\ ToWireBytes(receipt) = [raw EXCEPT !.rest = 0]
          /\ raw.rest = 0 \/ (receipt.kind = "Ethereum" /\ op = "decode_receipt")

(* A call that began ends, unless its process aborts: nobody waits for ever
   for the runtime that another thread initializes, though that may fail any
   number of times; if it fails for ever, others may always be first to retry. *)
EveryBindingCallEnds ==
  \/ []<><<\E u \in Threads : RuntimeFails(u)>>_bindVars
  \/ \A t \in Threads :
       thread[t].pc \notin {"idle", "done"} ~> thread[t].pc = "done" \/ process = "aborted"

=============================================================================
