--------------------------- MODULE Bindings_proof ---------------------------
(***************************************************************************)
(* For every chain, every build, and any number of threads: the bindings   *)
(* keep their types, own every error string once, report fingerprints that *)
(* mean something, let inclusion reach the canonical chain, all of it and  *)
(* nothing else, and verify every block until Capella.                     *)
(*                                                                         *)
(* The argument.  A call that is past its construction of the Verifier has *)
(* shown the fingerprints; a block it obtained is therefore canonical, and *)
(* its roots are those of the canonical contents; what is included under   *)
(* such a root is found there under the key of its index.  Conversely the  *)
(* node that a faithful prover gives is the path to that key, and another  *)
(* index has another key (KeysDistinct); and what a faithful source builds *)
(* is accepted (CanonicalProofAccepted), which without summaries ends at   *)
(* the read lock from Capella on.                                          *)
(***************************************************************************)
EXTENDS Bindings, ProofConstruction_proof, Inclusion_proof

(* The chain's tries are keyed as rlp_encode_index keys them. *)
KeysEncoded == \A i \in DOMAIN TrieKeys : TrieKeys[i] = RlpEncodeIndex(i)

(* No thread of this process is stopped by the checks of Go's runtime. *)
NodesPass == ~CgoCheck \/ "go" \notin Languages

Inclusions == {"transaction", "receipt", "decode"}

Working(k) == k.pc \in {"runtime", "initializing", "verify"}
Holding(k) == k.pc \in {"error", "copied"}

(* A request that shows the value which the block b has at its index. *)
Proven(request, b) ==
  LET body == IF request.op = "transaction" THEN Bodies[b.header].transaction
                                            ELSE Bodies[b.header].receipt
  IN  /\ request.op \in {"transaction", "receipt"} /\ request.which = request.op
      /\ request.index \in DOMAIN body
      /\ body[request.index] = request.raw
      /\ request.nodes = <<Path(TrieRoot(body), TrieKeys[request.index])>>

(* What an error or a result, when the thread's block is b, says of the
   request and of the build it came from. *)
Vouches(request, result, b) ==
  /\ request.op = "verify" =>
       LET hwp == FromSszBytes(request.payload)
       IN  \/ result = Panicked
           \/ ~Decodable(request.payload) /\ result = Refused("SszDecode")
           \/ /\ Decodable(request.payload) /\ FingerprintsHold(assets)
              /\ \/ Verdict(hwp) = "failed" /\ result = Refused("VerificationFailed")
                 \/ Verdict(hwp) = "ok" /\ result = VerifiedBlock(hwp)
  /\ KeysEncoded /\ NodesPass /\ Proven(request, b) => result = Included

(* The block that a thread has obtained last. *)
GoodBlock(b) ==
  /\ b.tag \in {"None", "Verified"}
  /\ b.tag = "Verified" =>
       /\ Canonical(b.header)
       /\ b.header \in DOMAIN Bodies
       /\ b.transaction = TrieRoot(Bodies[b.header].transaction)
       /\ b.receipt = TrieRoot(Bodies[b.header].receipt)

(* A value that inclusion accepted, of the block b. *)
IsIncluded(request, b) ==
  LET body == IF request.op = "transaction" THEN Bodies[b.header].transaction
                                            ELSE Bodies[b.header].receipt
  IN  /\ b.tag = "Verified"
      /\ request.index \in DOMAIN body
      /\ body[request.index] = request.raw

(* The result of a call, when the thread's block is b. *)
GoodResult(request, result, b) ==
  /\ Vouches(request, result, b)
  /\ request.op = "fingerprints" => result.of = CanonicalAssets
  /\ request.op \in Inclusions /\ request.which = RootFor(request.op)
       /\ result.tag \in {"Included", "Decoded"} /\ KeysEncoded => IsIncluded(request, b)
  /\ request.op = "decode" => request.which = "receipt"
  /\ request.op \in {"decode", "decode_receipt"} /\ result.tag = "Decoded" =>
       RoundTrips(result.receipt, request.raw)

(* Thread t's call k and block b, given the heap and the runtime. *)
GoodThread(t, k, b, h, rt) ==
  /\ k.pc \in {"idle", "runtime", "initializing", "verify", "error", "copied", "done"}
  /\ Holding(k) => /\ language = "go"
                   /\ k.address \in DOMAIN h
                   /\ h[k.address].of = t
  /\ k.pc = "verify" /\ language \in {"go", "python"} => rt = "ready"
  /\ Working(k) => /\ k.request.op = "verify"
                   /\ k.request.payload \in Payloads
                   /\ Decodable(k.request.payload)
                   /\ FingerprintsHold(assets)
  /\ k.pc = "error" => h[k.address].result.tag = "Err" /\ Vouches(k.request, h[k.address].result, b)
  /\ k.pc = "copied" => k.result.tag = "Err" /\ Vouches(k.request, k.result, b)
  /\ Holding(k) => k.request.op \in Inclusions \cup {"verify"}
  /\ Holding(k) /\ k.request.op = "decode" => k.request.which = "receipt"
  /\ k.pc = "done" => GoodResult(k.request, k.result, b)
  /\ GoodBlock(b)

Owned ==
  \A a \in DOMAIN heap : \E t \in Threads : Holding(thread[t]) /\ thread[t].address = a

(* The inductive invariant. *)
BindInd ==
  /\ language \in Languages
  /\ assets \in EmbeddedAssets
  /\ process \in {"running", "aborted"}
  /\ runtime \in {"unset", "initializing", "ready"}
  /\ thread = [t \in Threads |-> thread[t]]
  /\ block = [t \in Threads |-> block[t]]
  /\ DOMAIN heap \subseteq Addresses
  /\ Owned
  /\ \A t \in Threads : GoodThread(t, thread[t], block[t], heap, runtime)

-----------------------------------------------------------------------------
(* What the core returns to a binding. *)

(* A build that passed its check embeds the canonical accumulators. *)
LEMMA PassedTheCheck ==
  ASSUME assets \in EmbeddedAssets, FingerprintsHold(assets)
  PROVE  assets = CanonicalAssets
BY BindingTypes DEF FingerprintsHold, CanonicalAssets

(* A block that a working build verifies is canonical, and its roots are those
   of its canonical contents. *)
LEMMA VerifiedIsCanonical ==
  ASSUME NEW payload \in Payloads, Decodable(payload), assets = CanonicalAssets,
         Verdict(FromSszBytes(payload)) = "ok"
  PROVE  GoodBlock(VerifiedBlock(FromSszBytes(payload)))
<1> DEFINE hwp == FromSszBytes(payload)
<1>1. hwp.header = payload.header
  BY DEF FromSszBytes
<1>2. /\ hwp.proof.variant \in AuthPaths
      /\ hwp.proof.variant = ProofVariant(hwp.header)
      /\ hwp.header.number \in Nat
      /\ hwp.proof.variant # "HistoricalHashes" => hwp.proof.slot \in Nat
  <2>1. ProofVariant(payload.header) \in AuthPaths
    BY DEF ProofVariant, AuthPaths
  <2>2. payload.proof.variant # "Unreadable"
    BY <2>1 DEF Decodable, WireSize, AuthPaths
  <2>3. CASE payload.proof.variant = ProofVariant(payload.header)
    BY <2>1, <2>2, <2>3, BindingTypes DEF FromSszBytes, AuthPaths
  <2>4. CASE payload.proof.variant # ProofVariant(payload.header)
    <3>1. ProofVariant(payload.header) # "HistoricalHashes" => payload.proof.slot \in Nat
      BY <2>1, <2>2, <2>4, BindingTypes DEF Decodable, WireSize, AuthPaths
    <3> QED
      BY <2>1, <2>2, <2>4, <3>1, BindingTypes DEF FromSszBytes, Misread
  <2> QED
    BY <2>3, <2>4
<1>3. ValidateHeaderWithProof(CanonicalAssets, hwp.header, hwp.proof) = "ok"
  BY DEF Verdict
<1>4. Canonical(hwp.header)
  <2>1. CASE hwp.proof.variant = "HistoricalHashes"
    <3>1. VerifyPreMergeHeader(CanonicalAssets, hwp.header, hwp.proof) = "ok"
      BY <1>3, <2>1 DEF ValidateHeaderWithProof
    <3>2. CanonicalIn("HistoricalHashes", hwp.header)
      BY <1>2, <3>1, PreMergeSound
    <3> QED
      BY <3>2 DEF Canonical, AuthPaths
  <2>2. CASE hwp.proof.variant = "HistoricalRoots"
    <3>1. VerifyMergeToCapellaHeader(CanonicalAssets, hwp.header, hwp.proof) = "ok"
      BY <1>3, <2>2 DEF ValidateHeaderWithProof
    <3>2. CanonicalIn("HistoricalRoots", hwp.header)
      BY <1>2, <2>2, <3>1, MergeToCapellaSound
    <3> QED
      BY <3>2 DEF Canonical, AuthPaths
  <2>3. CASE hwp.proof.variant = "HistoricalSummariesCapella"
    BY <1>3, <2>3 DEF ValidateHeaderWithProof, VerifyCapellaToDenebHeader, AwaitSummary
  <2>4. CASE hwp.proof.variant = "HistoricalSummariesDeneb"
    BY <1>3, <2>4 DEF ValidateHeaderWithProof, VerifyPostDenebHeader, AwaitSummary
  <2> QED
    BY <1>2, <2>1, <2>2, <2>3, <2>4 DEF AuthPaths
<1>5. hwp.header \in DOMAIN Bodies
  BY <1>1, <1>4, ChainContents
<1> QED
  BY <1>4, <1>5 DEF VerifiedBlock, GoodBlock

(* A value that is accepted under a root of a good block is in its contents. *)
LEMMA IncludedIsThere ==
  ASSUME KeysEncoded, NEW b, GoodBlock(b), b.tag = "Verified", NEW request,
         request.op \in Inclusions, request.index \in DOMAIN TrieKeys,
         NEW root, root = IF request.op = "transaction" THEN b.transaction ELSE b.receipt,
         VerifyMptInclusion(root, RlpEncodeIndex(request.index), request.raw, request.nodes) = Included
  PROVE  IsIncluded(request, b)
<1> DEFINE body == IF request.op = "transaction" THEN Bodies[b.header].transaction
                                                 ELSE Bodies[b.header].receipt
<1>1. root = TrieRoot(body) /\ DOMAIN body \subseteq DOMAIN TrieKeys
  BY ChainContents DEF GoodBlock
<1>2. <<RlpEncodeIndex(request.index), request.raw>> \in root
  BY DEF VerifyMptInclusion, VerifyProof, Included, Refused
<1>3. PICK i \in DOMAIN body : RlpEncodeIndex(request.index) = TrieKeys[i] /\ request.raw = body[i]
  <2> HIDE DEF body
  <2> QED
    BY <1>1, <1>2 DEF TrieRoot
<1>4. request.index = i
  <2>1. i \in DOMAIN TrieKeys
    BY <1>1, <1>3
  <2>2. RlpEncodeIndex(request.index) = RlpEncodeIndex(i)
    BY <1>3, <2>1 DEF KeysEncoded
  <2>3. IsU64(request.index) /\ IsU64(i)
    BY <2>1, BindingTypes DEF IsU64
  <2> QED
    BY <2>2, <2>3, KeysDistinct
<1> QED
  BY <1>3, <1>4 DEF IsIncluded

(* A value that is shown is accepted. *)
LEMMA ProvenIsIncluded ==
  ASSUME KeysEncoded, NEW b, GoodBlock(b), b.tag = "Verified", NEW request, Proven(request, b),
         NEW root, root = IF request.which = "transaction" THEN b.transaction ELSE b.receipt
  PROVE  VerifyMptInclusion(root, RlpEncodeIndex(request.index), request.raw, request.nodes) = Included
<1> DEFINE body == IF request.op = "transaction" THEN Bodies[b.header].transaction
                                                 ELSE Bodies[b.header].receipt
<1>1. root = TrieRoot(body) /\ DOMAIN body \subseteq DOMAIN TrieKeys
  BY ChainContents DEF GoodBlock, Proven
<1>2. /\ request.index \in DOMAIN body /\ body[request.index] = request.raw
      /\ request.nodes = <<Path(TrieRoot(body), TrieKeys[request.index])>>
  BY DEF Proven
<1> HIDE DEF body
<1>3. TrieKeys[request.index] = RlpEncodeIndex(request.index)
  BY <1>1, <1>2 DEF KeysEncoded
<1>4. <<RlpEncodeIndex(request.index), request.raw>> \in root
  BY <1>1, <1>2, <1>3 DEF TrieRoot
<1> QED
  BY <1>1, <1>2, <1>3, <1>4 DEF VerifyMptInclusion, VerifyProof

(* The outcome of inclusion against a root of the thread's block is good. *)
LEMMA JudgedIsGood ==
  ASSUME NEW b, GoodBlock(b), b.tag = "Verified", NEW request,
         request.op \in Inclusions, request.raw \in Values, request.index \in DOMAIN TrieKeys,
         request.op = "decode" => request.which = "receipt",
         NEW root, request.which # ShortRoot =>
           root = IF request.which = "transaction" THEN b.transaction ELSE b.receipt,
         request.which # ShortRoot
  PROVE  /\ Judged(request, root).tag \in {"Err", "Included", "Decoded"}
         /\ GoodResult(request, Judged(request, root), b)
<1> DEFINE result == Judged(request, root)
<1>1. \A error : Refused(error).tag = "Err"
  BY DEF Refused
<1>2. CASE request.op = "transaction"
  <2>1. result = VerifyMptInclusion(root, RlpEncodeIndex(request.index), request.raw, request.nodes)
    BY <1>2 DEF Judged, VerifyTransactionInclusion
  <2>2. result = Included \/ result.tag = "Err"
    BY <1>1, <2>1 DEF VerifyMptInclusion
  <2>3. request.which = "transaction" /\ result = Included /\ KeysEncoded => IsIncluded(request, b)
    BY <1>2, <2>1, IncludedIsThere
  <2>4. KeysEncoded /\ Proven(request, b) => result = Included
    BY <2>1, ProvenIsIncluded
  <2> QED
    BY <1>2, <2>2, <2>3, <2>4 DEF GoodResult, Vouches, Included, RootFor
<1>3. CASE request.op = "receipt"
  <2>1. result = VerifyMptInclusion(root, RlpEncodeIndex(request.index), request.raw, request.nodes)
    BY <1>3 DEF Judged, VerifyReceiptInclusion
  <2>2. result = Included \/ result.tag = "Err"
    BY <1>1, <2>1 DEF VerifyMptInclusion
  <2>3. request.which = "receipt" /\ result = Included /\ KeysEncoded => IsIncluded(request, b)
    BY <1>3, <2>1, IncludedIsThere
  <2>4. KeysEncoded /\ Proven(request, b) => result = Included
    BY <2>1, ProvenIsIncluded
  <2> QED
    BY <1>3, <2>2, <2>3, <2>4 DEF GoodResult, Vouches, Included, RootFor
<1>4. CASE request.op = "decode"
  <2> DEFINE verdict == VerifyMptInclusion(root, RlpEncodeIndex(request.index), request.raw, request.nodes)
  <2>1. result = IF verdict = Included THEN DecodeReceipt(request.raw) ELSE Refused("MptInclusion")
    BY <1>4 DEF Judged, VerifyAndDecodeReceipt, VerifyReceiptInclusion
  <2>2. DecodeReceipt(request.raw).tag \in {"Err", "Decoded"}
    BY <1>1 DEF DecodeReceipt, ReceiptEnvelopeDecode, DecodeArbitrum, DecodeOpDeposit, Decoded
  <2>3. verdict = Included /\ KeysEncoded => IsIncluded(request, b)
    BY <1>4, IncludedIsThere DEF ShortRoot
  <2>4. result.tag = "Decoded" => RoundTrips(result.receipt, request.raw)
    BY <1>1, <2>1, BindingTypes, DecodeThenEncode DEF IsWire
  <2>5. result.tag \in {"Err", "Decoded"}
    BY <1>1, <2>1, <2>2
  <2>6. result.tag = "Decoded" => verdict = Included
    BY <1>1, <2>1
  <2> QED
    BY <1>4, <2>3, <2>4, <2>5, <2>6 DEF GoodResult, Vouches, Refused, Proven
<1> QED
  BY <1>2, <1>3, <1>4 DEF Inclusions

-----------------------------------------------------------------------------
(* The steps of one thread. *)

(* Whether a thread is good depends, besides its own state, on the language and
   the assets only, which no step changes. *)
LEMMA GoodThreadAfter ==
  ASSUME NEW t, language' = language, assets' = assets,
         GoodThread(t, thread'[t], block'[t], heap', runtime')
  PROVE  GoodThread(t, thread[t], block[t], heap, runtime)'
<1>1. /\ \A hwp : Verdict(hwp)' = Verdict(hwp)
      /\ FingerprintsHold(assets)' = FingerprintsHold(assets)
  BY Zenon DEF Verdict, FingerprintsHold
<1>2. ASSUME Vouches(thread'[t].request, heap'[thread'[t].address].result, block'[t])
      PROVE  Vouches(thread[t].request, heap[thread[t].address].result, block[t])'
  BY <1>1, <1>2 DEF Vouches
<1>3. ASSUME Vouches(thread'[t].request, thread'[t].result, block'[t])
      PROVE  Vouches(thread[t].request, thread[t].result, block[t])'
  BY <1>1, <1>3 DEF Vouches
<1>4. ASSUME GoodResult(thread'[t].request, thread'[t].result, block'[t])
      PROVE  GoodResult(thread[t].request, thread[t].result, block[t])'
  BY <1>3, <1>4 DEF GoodResult
<1> QED
  BY <1>1, <1>2, <1>3, <1>4 DEF GoodThread

(* The lock of the runtime is left as it is, or given up by a thread that was
   setting it. *)
RuntimeStays ==
  runtime' = runtime \/ (runtime = "initializing" /\ runtime' = "unset")

(* A step that leaves every thread and every string alone, as when the process
   aborts, keeps the invariant. *)
LEMMA NoThread ==
  ASSUME BindInd, UNCHANGED <<language, assets, heap, thread, block>>,
         process' \in {"running", "aborted"}, RuntimeStays
  PROVE  BindInd'
<1>1. ASSUME NEW t \in Threads
      PROVE  GoodThread(t, thread[t], block[t], heap, runtime)'
  <2>1. GoodThread(t, thread[t], block[t], heap, runtime)
    BY DEF BindInd
  <2>2. GoodThread(t, thread'[t], block'[t], heap', runtime')
    BY <2>1 DEF GoodThread, RuntimeStays
  <2> QED
    BY <2>2, GoodThreadAfter
<1>2. Owned'
  BY DEF BindInd, Owned, Holding
<1> QED
  BY <1>1, <1>2 DEF BindInd, RuntimeStays

(* A step of one thread keeps the invariant if its new state is good, and the
   strings of the others stay where they are. *)
LEMMA OneThread ==
  ASSUME BindInd, NEW t \in Threads, NEW k, NEW b,
         thread' = [thread EXCEPT ![t] = k],
         block' = [block EXCEPT ![t] = b],
         UNCHANGED <<language, assets>>,
         process' \in {"running", "aborted"},
         runtime' \in {"unset", "initializing", "ready"},
         runtime = "ready" => runtime' = "ready",
         DOMAIN heap' \subseteq Addresses,
         \A d \in Threads \ {t} : Holding(thread[d]) =>
           /\ thread[d].address \in DOMAIN heap'
           /\ heap'[thread[d].address] = heap[thread[d].address],
         Owned',
         GoodThread(t, k, b, heap', runtime')
  PROVE  BindInd'
<1>1. thread' = [d \in Threads |-> thread'[d]] /\ block' = [d \in Threads |-> block'[d]]
  BY DEF BindInd
<1>2. ASSUME NEW d \in Threads
      PROVE  GoodThread(d, thread'[d], block'[d], heap', runtime')
  <2>1. CASE d = t
    <3>1. thread'[d] = k /\ block'[d] = b
      BY <2>1 DEF BindInd
    <3> QED
      BY <2>1, <3>1
  <2>2. CASE d # t
    <3>1. thread'[d] = thread[d] /\ block'[d] = block[d]
      BY <2>2 DEF BindInd
    <3>2. GoodThread(d, thread[d], block[d], heap, runtime)
      BY DEF BindInd
    <3>3. GoodThread(d, thread[d], block[d], heap', runtime')
      BY <2>2, <3>2 DEF GoodThread, Holding
    <3> QED
      BY <3>1, <3>3
  <2> QED
    BY <2>1, <2>2
<1>3. ASSUME NEW d \in Threads
      PROVE  GoodThread(d, thread[d], block[d], heap, runtime)'
  BY <1>2, GoodThreadAfter
<1> QED
  BY <1>1, <1>3 DEF BindInd

(* If it holds no string before or after, the heap is owned as before. *)
LEMMA OwnedStill ==
  ASSUME BindInd, NEW t \in Threads, NEW k, ~Holding(thread[t]),
         thread' = [thread EXCEPT ![t] = k], heap' = heap
  PROVE  Owned'
<1>1. ASSUME NEW a \in DOMAIN heap
      PROVE  \E d \in Threads : Holding(thread'[d]) /\ thread'[d].address = a
  <2>1. PICK d \in Threads : Holding(thread[d]) /\ thread[d].address = a
    BY DEF BindInd, Owned
  <2>2. thread'[d] = thread[d]
    BY <2>1 DEF BindInd
  <2> QED
    BY <2>1, <2>2
<1> QED
  BY <1>1 DEF Owned, Holding

(* A step that leaves the heap and holds no string. *)
LEMMA Quietly ==
  ASSUME BindInd, NEW t \in Threads, NEW k, NEW b,
         ~Holding(thread[t]),
         thread' = [thread EXCEPT ![t] = k],
         block' = [block EXCEPT ![t] = b],
         UNCHANGED <<language, assets, heap, process>>,
         runtime' \in {"unset", "initializing", "ready"},
         runtime = "ready" => runtime' = "ready",
         GoodThread(t, k, b, heap, runtime')
  PROVE  BindInd'
<1>1. Owned'
  BY OwnedStill
<1>2. \A d \in Threads \ {t} : Holding(thread[d]) => thread[d].address \in DOMAIN heap
  BY DEF BindInd, GoodThread
<1>3. process' \in {"running", "aborted"} /\ DOMAIN heap' \subseteq Addresses
  BY DEF BindInd
<1>4. GoodThread(t, k, b, heap', runtime')
  OBVIOUS
<1> QED
  BY <1>1, <1>2, <1>3, <1>4, OneThread

(* The Rust side goes on. *)
LEMMA GoesOn ==
  ASSUME BindInd, NEW t \in Threads, ~Holding(thread[t]),
         UNCHANGED <<language, assets, runtime>>,
         NEW pc \in {"runtime", "verify"}, NEW request, Goes(t, pc, request),
         pc = "verify" => language \notin {"go", "python"},
         request.op = "verify", request.payload \in Payloads,
         Decodable(request.payload), FingerprintsHold(assets)
  PROVE  BindInd'
<1> DEFINE k == Doing(pc, request, 0, None)
<1>1. GoodBlock(block[t]) /\ block' = [block EXCEPT ![t] = block[t]]
  BY DEF BindInd, GoodThread, Goes
<1>2. GoodThread(t, k, block[t], heap, runtime)
  BY <1>1 DEF GoodThread, Doing, Holding, Working
<1> HIDE DEF k
<1> QED
  BY <1>1, <1>2, Quietly DEF Goes, k, BindInd

(* The call ends with a good result. *)
LEMMA EndsWith ==
  ASSUME BindInd, NEW t \in Threads, ~Holding(thread[t]),
         UNCHANGED <<language, assets>>, RuntimeStays, NEW request, NEW result,
         \/ Raises(t, request, result) /\ GoodResult(request, result, block[t])
         \/ /\ Succeeds(t, request, result)
            /\ IF result.tag = "Verified" THEN GoodBlock(result) /\ GoodResult(request, result, result)
                                          ELSE GoodResult(request, result, block[t])
  PROVE  BindInd'
<1> DEFINE k == Doing("done", request, 0, result)
<1>1. GoodBlock(block[t]) /\ block = [block EXCEPT ![t] = block[t]]
  BY DEF BindInd, GoodThread
<1>2. ASSUME NEW b, GoodBlock(b), GoodResult(request, result, b), block' = [block EXCEPT ![t] = b],
             thread' = [thread EXCEPT ![t] = k], UNCHANGED <<process, heap>>
      PROVE  BindInd'
  <2>1. GoodThread(t, k, b, heap, runtime')
    BY <1>2 DEF GoodThread, Doing, Holding, Working
  <2> HIDE DEF k
  <2> QED
    BY <1>2, <2>1, Quietly DEF BindInd, RuntimeStays
<1>3. CASE Raises(t, request, result) /\ GoodResult(request, result, block[t])
  BY <1>1, <1>2, <1>3 DEF Raises
<1>4. CASE /\ Succeeds(t, request, result)
           /\ IF result.tag = "Verified" THEN GoodBlock(result) /\ GoodResult(request, result, result)
                                         ELSE GoodResult(request, result, block[t])
  <2>1. CASE result.tag = "Verified"
    BY <1>2, <1>4, <2>1 DEF Succeeds
  <2>2. CASE result.tag # "Verified"
    BY <1>1, <1>2, <1>4, <2>2 DEF Succeeds
  <2> QED
    BY <2>1, <2>2
<1> QED
  BY <1>3, <1>4

(* The call fails: in Go a new string is given away, to this thread alone. *)
LEMMA FailsWith ==
  ASSUME BindInd, NEW t \in Threads, ~Holding(thread[t]),
         UNCHANGED <<language, assets, runtime>>, NEW request, NEW error,
         Fails(t, request, error),
         request.op \in Inclusions \cup {"verify"},
         request.op = "decode" => request.which = "receipt",
         Vouches(request, Refused(error), block[t])
  PROVE  BindInd'
<1> DEFINE result == Refused(error)
<1>0. result.tag = "Err"
  BY DEF Refused
<1>1. CASE language # "go"
  <2>1. Raises(t, request, result)
    BY <1>1 DEF Fails
  <2>2. GoodResult(request, result, block[t])
    BY <1>0 DEF GoodResult, Inclusions
  <2> QED
    BY <2>1, <2>2, EndsWith DEF RuntimeStays
<1>2. CASE language = "go"
  <2> HIDE DEF result
  <2>1. IntoRaw(t, request, result)
    BY <1>2 DEF Fails, result
  <2>2. PICK a \in Addresses \ DOMAIN heap :
          /\ heap' = [x \in DOMAIN heap \cup {a} |->
                       IF x = a THEN [of |-> t, result |-> result] ELSE heap[x]]
          /\ thread' = [thread EXCEPT ![t] = Doing("error", request, a, None)]
    BY <2>1 DEF IntoRaw
  <2> DEFINE k == Doing("error", request, a, None)
  <2>3. /\ DOMAIN heap' = DOMAIN heap \cup {a}
        /\ heap'[a] = [of |-> t, result |-> result]
        /\ \A x \in DOMAIN heap : heap'[x] = heap[x]
    BY <2>2
  <2>4. GoodBlock(block[t]) /\ block' = [block EXCEPT ![t] = block[t]]
    BY <2>1 DEF BindInd, GoodThread, IntoRaw
  <2>5. GoodThread(t, k, block[t], heap', runtime')
    <3>1. Vouches(request, result, block[t])
      BY DEF result
    <3>2. /\ k.pc = "error" /\ k.request = request /\ k.address = a
      BY DEF Doing
    <3> HIDE DEF k
    <3> QED
      BY <1>0, <1>2, <2>3, <2>4, <3>1, <3>2 DEF GoodThread, Holding, Working
  <2>6. thread'[t] = k /\ \A d \in Threads \ {t} : thread'[d] = thread[d]
    BY <2>2 DEF BindInd
  <2>7. Owned'
    <3>1. ASSUME NEW x \in DOMAIN heap'
          PROVE  \E d \in Threads : Holding(thread'[d]) /\ thread'[d].address = x
      <4>1. CASE x = a
        BY <2>6, <4>1 DEF Holding, Doing
      <4>2. CASE x # a
        <5>1. PICK d \in Threads : Holding(thread[d]) /\ thread[d].address = x
          BY <2>3, <4>2 DEF BindInd, Owned
        <5> QED
          BY <2>6, <5>1
      <4> QED
        BY <4>1, <4>2
    <3> QED
      BY <3>1 DEF Owned, Holding
  <2>8. \A d \in Threads \ {t} : Holding(thread[d]) =>
          /\ thread[d].address \in DOMAIN heap'
          /\ heap'[thread[d].address] = heap[thread[d].address]
    BY <2>3 DEF BindInd, GoodThread
  <2>9. /\ DOMAIN heap' \subseteq Addresses
        /\ process' \in {"running", "aborted"}
        /\ runtime' \in {"unset", "initializing", "ready"}
    BY <2>1, <2>3 DEF BindInd, IntoRaw
  <2> HIDE DEF k
  <2> QED
    BY <2>2, <2>4, <2>5, <2>7, <2>8, <2>9, OneThread DEF k
<1> QED
  BY <1>1, <1>2

(* A panic aborts the process, or ends the call. *)
LEMMA PanicsWith ==
  ASSUME BindInd, NEW t \in Threads, ~Holding(thread[t]),
         UNCHANGED <<language, assets>>, RuntimeStays, NEW request, Panics(t, request),
         request.op = "verify"
  PROVE  BindInd'
<1>1. CASE language # "go"
  <2>1. Raises(t, request, Panicked)
    BY <1>1 DEF Panics
  <2>2. GoodResult(request, Panicked, block[t])
    BY DEF GoodResult, Vouches, Panicked, Inclusions, Proven
  <2> QED
    BY <2>1, <2>2, EndsWith
<1>2. CASE language = "go"
  BY <1>2, NoThread DEF Panics, Aborts
<1> QED
  BY <1>1, <1>2

-----------------------------------------------------------------------------
(* The invariant is inductive. *)

(* It holds before the first call. *)
LEMMA InitBindInd == BindInit => BindInd
<1> SUFFICES ASSUME BindInit PROVE BindInd
  OBVIOUS
<1>1. DOMAIN heap = {}
  BY DEF BindInit
<1>2. ASSUME NEW t \in Threads
      PROVE  GoodThread(t, thread[t], block[t], heap, runtime)
  <2>1. thread[t].pc = "idle" /\ block[t].tag = "None"
    BY DEF BindInit, Idle, Doing, None
  <2> QED
    BY <2>1 DEF GoodThread, GoodBlock, Holding, Working
<1> QED
  BY <1>1, <1>2 DEF BindInit, BindInd, Owned

(* Every step keeps it: one case per action of BindNext. *)
LEMMA NextBindInd ==
  ASSUME BindInd, [BindNext]_bindVars
  PROVE  BindInd'
<1> DEFINE Good(t) == GoodThread(t, thread[t], block[t], heap, runtime)
<1>0. ASSUME NEW t \in Threads PROVE Good(t)
  BY DEF BindInd
<1>1. ASSUME NEW t \in Threads, NEW payload \in Payloads, CallVerify(t, payload)
      PROVE  BindInd'
  <2> DEFINE request == [op |-> "verify", payload |-> payload]
  <2>1. ~Holding(thread[t]) /\ UNCHANGED <<language, assets, runtime>>
    BY <1>1 DEF CallVerify, Holding
  <2>2. request.op = "verify" /\ request.payload = payload
    OBVIOUS
  <2>3. \/ Panics(t, request)
        \/ ~Decodable(payload) /\ Fails(t, request, "SszDecode")
        \/ /\ FingerprintsHold(assets) /\ Decodable(payload)
           /\ \E pc \in {"runtime", "verify"} :
                /\ Goes(t, pc, request)
                /\ pc = "verify" => language \notin {"go", "python"}
    BY <1>1 DEF CallVerify, ConstructsAndDecodes, DecodesAndConstructs
  <2> HIDE DEF request
  <2>5. CASE Panics(t, request)
    BY <2>1, <2>2, <2>5, PanicsWith DEF RuntimeStays
  <2>6. CASE ~Decodable(payload) /\ Fails(t, request, "SszDecode")
    <3>1. Vouches(request, Refused("SszDecode"), block[t])
      BY <2>2, <2>6 DEF Vouches, Proven
    <3> QED
      BY <2>1, <2>2, <2>6, <3>1, FailsWith
  <2>7. ASSUME FingerprintsHold(assets), Decodable(payload), NEW pc \in {"runtime", "verify"},
               Goes(t, pc, request), pc = "verify" => language \notin {"go", "python"}
        PROVE  BindInd'
    BY <2>1, <2>2, <2>7, GoesOn
  <2> QED
    BY <2>3, <2>5, <2>6, <2>7
<1>2. ASSUME NEW t \in Threads,
             NEW op \in Inclusions, NEW which \in {"transaction", "receipt", ShortRoot},
             NEW index \in DOMAIN TrieKeys, NEW raw \in Values, NEW key,
             CallInclusion(t, op, which, index, raw, key)
      PROVE  BindInd'
  <2> DEFINE root    == IF which = "transaction" THEN block[t].transaction ELSE block[t].receipt
             nodes   == IF key \in DOMAIN TrieKeys THEN <<Path(root, TrieKeys[key])>> ELSE <<>>
             request == [op |-> op, which |-> which, index |-> index, raw |-> raw, nodes |-> nodes]
             outcome == Judged(request, root)
  <2>1. /\ ~Holding(thread[t]) /\ UNCHANGED <<language, assets, runtime>>
        /\ GoodBlock(block[t]) /\ block[t].tag = "Verified"
        /\ op = "decode" => which = "receipt"
    BY <1>0, <1>2 DEF CallInclusion, Holding, GoodThread, RootFor
  <2>2. /\ request.op = op /\ request.which = which /\ request.raw = raw
        /\ request.index = index
        /\ Inclusions \cap {"verify", "fingerprints", "decode_receipt"} = {}
    BY DEF Inclusions
  <2>3. \/ which = ShortRoot /\ Raises(t, request, Refused("RootLength"))
        \/ CgoCheck /\ language = "go" /\ Raises(t, request, Panicked)
        \/ which # ShortRoot /\ outcome.tag = "Err" /\ Fails(t, request, outcome.error)
        \/ which # ShortRoot /\ outcome.tag # "Err" /\ Succeeds(t, request, outcome)
    BY <1>2 DEF CallInclusion, BreaksCgoRules
  <2> HIDE DEF request, outcome
  <2>4. which # ShortRoot =>
          /\ outcome.tag \in {"Err", "Included", "Decoded"}
          /\ GoodResult(request, outcome, block[t])
    BY <2>1, <2>2, JudgedIsGood DEF outcome
  <2>5. outcome.tag = "Err" => outcome = Refused(outcome.error)
    <3>1. \A error : Refused(error) = Refused(Refused(error).error)
      BY DEF Refused
    <3>2. \/ outcome \in {Refused("MptInclusion"), Refused("ReceiptDecode")}
          \/ outcome.tag \in {"Included", "Decoded"}
      BY <2>2 DEF outcome, Judged, Inclusions, VerifyTransactionInclusion, VerifyReceiptInclusion,
           VerifyMptInclusion, VerifyAndDecodeReceipt, DecodeReceipt, ReceiptEnvelopeDecode,
           DecodeArbitrum, DecodeOpDeposit, Decoded, Included
    <3> QED
      BY <3>1, <3>2
  <2>6. ASSUME NEW result,
               \/ which = ShortRoot /\ result = Refused("RootLength")
               \/ CgoCheck /\ language = "go" /\ result = Panicked,
               Raises(t, request, result)
        PROVE  BindInd'
    <3>1. result.tag \in {"Err", "Panicked"}
      BY <2>6 DEF Refused, Panicked
    <3>2. ~(NodesPass /\ Proven(request, block[t]))
      BY <2>2, <2>6 DEF NodesPass, Proven, BindInd, ShortRoot
    <3>3. GoodResult(request, result, block[t])
      BY <2>1, <2>2, <3>1, <3>2 DEF GoodResult, Vouches
    <3> QED
      BY <2>1, <2>6, <3>3, EndsWith DEF RuntimeStays
  <2>7. CASE which # ShortRoot /\ outcome.tag = "Err" /\ Fails(t, request, outcome.error)
    <3>1. Vouches(request, Refused(outcome.error), block[t])
      BY <2>4, <2>5, <2>7 DEF GoodResult
    <3> QED
      BY <2>1, <2>2, <2>7, <3>1, FailsWith
  <2>8. CASE which # ShortRoot /\ outcome.tag # "Err" /\ Succeeds(t, request, outcome)
    BY <2>1, <2>4, <2>8, EndsWith DEF RuntimeStays
  <2> QED
    BY <2>3, <2>6, <2>7, <2>8
<1>3. ASSUME NEW t \in Threads, NEW raw \in RawReceipts, CallDecode(t, raw)
      PROVE  BindInd'
  <2> DEFINE request == [op |-> "decode_receipt", raw |-> raw]
             result  == DecodeReceipt(raw)
  <2>1. result.tag = "Decoded" => RoundTrips(result.receipt, raw)
    BY BindingTypes, DecodeThenEncode DEF IsWire
  <2>2. GoodResult(request, result, block[t])
    BY <2>1 DEF GoodResult, Vouches, Inclusions, Proven
  <2>3. Raises(t, request, result) /\ ~Holding(thread[t]) /\ UNCHANGED <<language, assets, runtime>>
    BY <1>3 DEF CallDecode, Holding
  <2> QED
    BY <2>2, <2>3, EndsWith DEF RuntimeStays
<1>4. ASSUME NEW t \in Threads, CallFingerprints(t)
      PROVE  BindInd'
  <2> DEFINE request == [op |-> "fingerprints"]
             result  == [tag |-> "Fingerprints", of |-> CanonicalAssets]
  <2>1. GoodResult(request, result, block[t])
    BY DEF GoodResult, Vouches, Inclusions, Proven
  <2>2. Raises(t, request, result) /\ ~Holding(thread[t]) /\ UNCHANGED <<language, assets, runtime>>
    BY <1>4 DEF CallFingerprints, Holding
  <2> QED
    BY <2>1, <2>2, EndsWith DEF RuntimeStays
<1>5. ASSUME NEW t \in Threads, InitRuntime(t) \/ RuntimeBuilt(t) \/ UseRuntime(t)
      PROVE  BindInd'
  <2>1. PICK pc \in {"initializing", "verify"} :
          /\ thread' = [thread EXCEPT ![t] = [thread[t] EXCEPT !.pc = pc]]
          /\ pc = "verify" => runtime' = "ready"
    BY <1>5 DEF InitRuntime, Initializing, RuntimeBuilt, UseRuntime
  <2>2. /\ Working(thread[t]) /\ ~Holding(thread[t])
        /\ UNCHANGED <<language, assets, process, heap, block>>
        /\ runtime' \in {"unset", "initializing", "ready"}
        /\ runtime = "ready" => runtime' = "ready"
    BY <1>5 DEF InitRuntime, Initializing, RuntimeBuilt, UseRuntime, Working, Holding, BindInd
  <2> DEFINE k == [thread[t] EXCEPT !.pc = pc]
  <2>3. block' = [block EXCEPT ![t] = block[t]]
    BY <2>2 DEF BindInd
  <2>4. GoodThread(t, k, block[t], heap, runtime')
    <3>1. k.pc = pc /\ k.request = thread[t].request
      BY <1>0, <2>2 DEF GoodThread
    <3> HIDE DEF k
    <3> QED
      BY <1>0, <2>1, <2>2, <3>1 DEF GoodThread, Working, Holding
  <2> HIDE DEF k
  <2> QED
    BY <2>1, <2>2, <2>3, <2>4, Quietly DEF k
<1>6. ASSUME NEW t \in Threads, RunVerify(t)
      PROVE  BindInd'
  <2> DEFINE request == thread[t].request
             hwp     == FromSszBytes(request.payload)
  <2>1. /\ ~Holding(thread[t]) /\ UNCHANGED <<language, assets, runtime>>
        /\ request.op = "verify" /\ request.payload \in Payloads
        /\ Decodable(request.payload) /\ FingerprintsHold(assets)
        /\ GoodBlock(block[t])
    BY <1>0, <1>6 DEF RunVerify, Holding, Working, GoodThread
  <2>2. assets = CanonicalAssets
    BY <2>1, PassedTheCheck DEF BindInd
  <2>3. \/ Verdict(hwp) = "ok" /\ Succeeds(t, request, VerifiedBlock(hwp))
        \/ Verdict(hwp) = "failed" /\ Fails(t, request, "VerificationFailed")
        \/ Panics(t, request)
    <3>1. hwp.proof.variant \in AuthPaths
      BY <2>1 DEF FromSszBytes, ProofVariant, AuthPaths, Misread
    <3>2. Verdict(hwp) \in {"ok", "failed", "panic"}
      <4>1. ValidateHeaderWithProof(assets, hwp.header, hwp.proof)
              \in {"ok", "failed", "panic", "summary"}
        BY <3>1 DEF AuthPaths, ValidateHeaderWithProof, VerifyPreMergeHeader,
             VerifyMergeToCapellaHeader, VerifyHistoricalRootsBeaconBlockProof,
             VerifyCapellaToDenebHeader, VerifyPostDenebHeader, AwaitSummary
      <4> QED
        BY <4>1 DEF Verdict
    <3> QED
      BY <1>6, <3>2 DEF RunVerify
  <2>4. CASE Verdict(hwp) = "ok" /\ Succeeds(t, request, VerifiedBlock(hwp))
    <3>1. GoodBlock(VerifiedBlock(hwp)) /\ VerifiedBlock(hwp).tag = "Verified"
      BY <2>1, <2>2, <2>4, VerifiedIsCanonical DEF VerifiedBlock
    <3>2. GoodResult(request, VerifiedBlock(hwp), VerifiedBlock(hwp))
      BY <2>1, <2>4 DEF GoodResult, Vouches, Inclusions, Proven
    <3> QED
      BY <2>1, <2>4, <3>1, <3>2, EndsWith DEF RuntimeStays
  <2>5. CASE Verdict(hwp) = "failed" /\ Fails(t, request, "VerificationFailed")
    <3>1. Vouches(request, Refused("VerificationFailed"), block[t])
      BY <2>1, <2>5 DEF Vouches, Proven
    <3> QED
      BY <2>1, <2>5, <3>1, FailsWith
  <2>6. CASE Panics(t, request)
    BY <2>1, <2>6, PanicsWith DEF RuntimeStays
  <2> QED
    BY <2>3, <2>4, <2>5, <2>6
<1>7. ASSUME NEW t \in Threads, CopyError(t)
      PROVE  BindInd'
  <2> DEFINE k == Doing("copied", thread[t].request, thread[t].address,
                        heap[thread[t].address].result)
  <2>1. /\ thread[t].pc = "error"
        /\ thread' = [thread EXCEPT ![t] = k]
        /\ UNCHANGED <<language, assets, process, runtime, heap, block>>
    BY <1>7 DEF CopyError
  <2>2. /\ k.pc = "copied" /\ k.request = thread[t].request /\ k.address = thread[t].address
        /\ k.result = heap[thread[t].address].result
    BY DEF Doing
  <2> HIDE DEF k
  <2>3. GoodThread(t, k, block[t], heap', runtime')
    BY <1>0, <2>1, <2>2 DEF GoodThread, Holding, Working
  <2>4. Owned'
    <3>1. thread'[t] = k /\ \A d \in Threads \ {t} : thread'[d] = thread[d]
      BY <2>1 DEF BindInd
    <3>2. ASSUME NEW a \in DOMAIN heap
          PROVE  \E d \in Threads : Holding(thread'[d]) /\ thread'[d].address = a
      <4>1. PICK d \in Threads : Holding(thread[d]) /\ thread[d].address = a
        BY DEF BindInd, Owned
      <4>2. Holding(thread'[d]) /\ thread'[d].address = a
        BY <2>2, <3>1, <4>1 DEF Holding
      <4> QED
        BY <4>2
    <3> QED
      BY <2>1, <3>2 DEF Owned, Holding
  <2>5. \A d \in Threads \ {t} : Holding(thread[d]) => thread[d].address \in DOMAIN heap
    BY <1>0 DEF GoodThread
  <2>6. block' = [block EXCEPT ![t] = block[t]]
    BY <2>1 DEF BindInd
  <2> QED
    BY <2>1, <2>3, <2>4, <2>5, <2>6, OneThread DEF BindInd
<1>8. ASSUME NEW t \in Threads, FreeError(t)
      PROVE  BindInd'
  <2> DEFINE k == Doing("done", thread[t].request, 0, thread[t].result)
             a == thread[t].address
  <2>1. /\ thread[t].pc = "copied"
        /\ thread' = [thread EXCEPT ![t] = k]
        /\ heap' = [x \in DOMAIN heap \ {a} |-> heap[x]]
        /\ UNCHANGED <<language, assets, process, runtime, block>>
    BY <1>8 DEF FreeError
  <2>2. /\ k.pc = "done" /\ k.request = thread[t].request /\ k.result = thread[t].result
        /\ DOMAIN heap' = DOMAIN heap \ {a}
        /\ \A x \in DOMAIN heap' : heap'[x] = heap[x]
    BY <2>1 DEF Doing
  <2>3. GoodResult(thread[t].request, thread[t].result, block[t]) /\ GoodBlock(block[t])
    BY <1>0, <2>1 DEF GoodThread, Holding, GoodResult, Inclusions
  <2> HIDE DEF k
  <2>4. GoodThread(t, k, block[t], heap', runtime')
    BY <2>2, <2>3 DEF GoodThread, Holding, Working
  <2>5. ASSUME NEW d \in Threads \ {t}, Holding(thread[d])
        PROVE  /\ thread[d].address \in DOMAIN heap'
               /\ heap'[thread[d].address] = heap[thread[d].address]
    <3>1. heap[thread[d].address].of = d /\ heap[a].of = t /\ thread[d].address \in DOMAIN heap
      BY <1>0, <2>1, <2>5 DEF GoodThread, Holding
    <3> QED
      BY <2>2, <3>1
  <2>6. Owned'
    <3>1. \A d \in Threads \ {t} : thread'[d] = thread[d]
      BY <2>1 DEF BindInd
    <3>2. ASSUME NEW x \in DOMAIN heap'
          PROVE  \E d \in Threads : Holding(thread'[d]) /\ thread'[d].address = x
      <4>1. PICK d \in Threads : Holding(thread[d]) /\ thread[d].address = x
        BY <2>2 DEF BindInd, Owned
      <4>2. d # t
        BY <2>2, <4>1
      <4> QED
        BY <3>1, <4>1, <4>2
    <3> QED
      BY <3>2 DEF Owned, Holding
  <2>7. block' = [block EXCEPT ![t] = block[t]] /\ DOMAIN heap' \subseteq Addresses
    BY <2>1, <2>2 DEF BindInd
  <2> QED
    BY <2>1, <2>4, <2>5, <2>6, <2>7, OneThread DEF BindInd
<1>9. ASSUME NEW t \in Threads, Return(t)
      PROVE  BindInd'
  <2>1. /\ ~Holding(thread[t]) /\ thread' = [thread EXCEPT ![t] = Idle]
        /\ UNCHANGED <<language, assets, process, runtime, heap, block>>
    BY <1>9 DEF Return, Holding
  <2>2. Idle.pc = "idle"
    BY DEF Idle, Doing
  <2>3. GoodThread(t, Idle, block[t], heap, runtime')
    BY <1>0, <2>2 DEF GoodThread, Holding, Working
  <2>4. block' = [block EXCEPT ![t] = block[t]]
    BY <2>1 DEF BindInd
  <2> QED
    BY <2>1, <2>3, <2>4, Quietly DEF BindInd
<1>10. CASE UNCHANGED bindVars
  <2>1. process' \in {"running", "aborted"}
    BY <1>10 DEF bindVars, BindInd
  <2> QED
    BY <1>10, <2>1, NoThread DEF bindVars, RuntimeStays
<1>11. ASSUME NEW t \in Threads, RuntimeFails(t)
       PROVE  BindInd'
  <2>1. /\ ~Holding(thread[t]) /\ thread[t].request.op = "verify"
        /\ UNCHANGED <<language, assets>> /\ Panics(t, thread[t].request)
        /\ runtime = "initializing" /\ runtime' = "unset"
    BY <1>0, <1>11 DEF RuntimeFails, Initializing, GoodThread, Holding, Working
  <2> QED
    BY <2>1, PanicsWith DEF RuntimeStays
<1> QED
  BY <1>1, <1>2, <1>3, <1>4, <1>5, <1>6, <1>7, <1>8, <1>9, <1>10, <1>11 DEF BindNext, Advances, Inclusions

(* The inductive invariant holds in every reachable state. *)
LEMMA BindInvariance == BindSpec => []BindInd
<1>1. BindInd /\ [BindNext]_bindVars => BindInd'
  BY NextBindInd
<1> QED
  BY <1>1, InitBindInd, PTL DEF BindSpec

-----------------------------------------------------------------------------
(* The theorems. *)

(* Every reachable state has the shape that the code's types give it; where
   the runtime is used it is ready. *)
THEOREM BindTypeCorrect == BindSpec => []BindTypeOK
<1>1. BindInd => BindTypeOK
  <2> SUFFICES ASSUME BindInd PROVE BindTypeOK
    OBVIOUS
  <2>1. DOMAIN thread = Threads /\ DOMAIN block = Threads
    BY DEF BindInd
  <2>2. ASSUME NEW t \in Threads
        PROVE  GoodThread(t, thread[t], block[t], heap, runtime)
    BY DEF BindInd
  <2> QED
    BY <2>1, <2>2 DEF BindInd, BindTypeOK, GoodThread, GoodBlock, Holding
<1> QED
  BY <1>1, BindInvariance, PTL

(* No error string is leaked, freed twice or read after it was freed. *)
THEOREM StringsAreOwnedOnce == BindSpec => []EveryStringHasOneOwner
<1>1. BindInd => EveryStringHasOneOwner
  BY DEF BindInd, EveryStringHasOneOwner, Owned, GoodThread, Holds, Holding
<1> QED
  BY <1>1, BindInvariance, PTL

(* What inclusion accepts under the root that a binding reported is in a
   canonical block at that index. *)
THEOREM InclusionReachesTheChain ==
  ASSUME KeysEncoded
  PROVE  BindSpec => []InclusionIsOfTheChain
<1>1. BindInd => InclusionIsOfTheChain
  <2> SUFFICES ASSUME BindInd, NEW t \in Threads, NEW op \in Inclusions, Done(t, op),
                      thread[t].request.which = RootFor(op),
                      thread[t].result.tag \in {"Included", "Decoded"}
               PROVE  LET body == Bodies[block[t].header][RootFor(op)]
                      IN  /\ Canonical(block[t].header)
                          /\ thread[t].request.index \in DOMAIN body
                          /\ body[thread[t].request.index] = thread[t].request.raw
    BY DEF InclusionIsOfTheChain, Inclusions
  <2>1. GoodResult(thread[t].request, thread[t].result, block[t]) /\ GoodBlock(block[t])
    BY DEF BindInd, GoodThread, Done
  <2>2. IsIncluded(thread[t].request, block[t]) /\ thread[t].request.op = op
    BY <2>1 DEF GoodResult, Done
  <2> QED
    BY <2>1, <2>2 DEF IsIncluded, GoodBlock, RootFor, Inclusions
<1> QED
  BY <1>1, BindInvariance, PTL

(* And what the block has at an index is accepted, with the nodes that lead
   there: no index is without a key, and no key leads elsewhere. *)
THEOREM ChainIsIncluded ==
  ASSUME KeysEncoded, NodesPass
  PROVE  BindSpec => []ProvenValuesAreIncluded
<1>1. BindInd => ProvenValuesAreIncluded
  <2> DEFINE body(t, op) == Bodies[block[t].header][op]
             request(t)  == thread[t].request
  <2> SUFFICES ASSUME BindInd, NEW t \in Threads, NEW op \in {"transaction", "receipt"},
                      Done(t, op), request(t).which = op,
                      request(t).index \in DOMAIN body(t, op),
                      body(t, op)[request(t).index] = request(t).raw,
                      request(t).nodes = <<Path(TrieRoot(body(t, op)), TrieKeys[request(t).index])>>
               PROVE  thread[t].result = Included
    BY DEF ProvenValuesAreIncluded
  <2>1. GoodResult(request(t), thread[t].result, block[t]) /\ request(t).op = op
    BY DEF BindInd, GoodThread, Done
  <2>2. Proven(request(t), block[t])
    BY <2>1 DEF Proven
  <2> QED
    BY <2>1, <2>2 DEF GoodResult, Vouches
<1> QED
  BY <1>1, BindInvariance, PTL

(* Every binding verifies the canonical blocks before Shanghai, from whatever
   the proof's builders made of them, and refuses the later ones. *)
THEOREM BindingsVerifyUntilCapella == BindSpec => []VerifiesUntilCapella
<1>1. BindInd => VerifiesUntilCapella
  <2> SUFFICES ASSUME BindInd, NEW t \in Threads, Done(t, "verify"),
                      Canonical(thread[t].request.payload.header),
                      thread[t].request.payload.proof = CanonicalProof(thread[t].request.payload.header),
                      thread[t].result # Panicked
               PROVE  IF IsShanghaiActive(thread[t].request.payload.header.timestamp)
                      THEN thread[t].result = Refused("VerificationFailed")
                      ELSE thread[t].result = VerifiedBlock(thread[t].request.payload)
    BY DEF VerifiesUntilCapella
  <2> DEFINE hwp    == thread[t].request.payload
             result == thread[t].result
  <2>1. /\ Decodable(hwp) /\ FromSszBytes(hwp) = hwp
        /\ ValidateHeaderWithProof(CanonicalAssets, hwp.header, hwp.proof)
             = IF IsShanghaiActive(hwp.header.timestamp) THEN "summary" ELSE "ok"
    BY CanonicalProofAccepted
  <2>2. Vouches(thread[t].request, result, block[t]) /\ thread[t].request.op = "verify"
    BY DEF BindInd, GoodThread, GoodResult, Done
  <2>3. /\ FingerprintsHold(assets)
        /\ \/ Verdict(hwp) = "failed" /\ result = Refused("VerificationFailed")
           \/ Verdict(hwp) = "ok" /\ result = VerifiedBlock(hwp)
    BY <2>1, <2>2 DEF Vouches
  <2>4. assets = CanonicalAssets
    BY <2>3, PassedTheCheck DEF BindInd
  <2>5. Verdict(hwp) = IF IsShanghaiActive(hwp.header.timestamp) THEN "failed" ELSE "ok"
    BY <2>1, <2>4 DEF Verdict
  <2> QED
    BY <2>3, <2>5
<1> QED
  BY <1>1, BindInvariance, PTL

(* A process that has both fingerprints and a verdict embeds what the
   fingerprints say. *)
THEOREM FingerprintsMean == BindSpec => []FingerprintsOfAWorkingBuild
<1>1. BindInd => FingerprintsOfAWorkingBuild
  <2> SUFFICES ASSUME BindInd, NEW t \in Threads, NEW u \in Threads,
                      Done(t, "fingerprints"), Done(u, "verify"),
                      \/ thread[u].result.tag = "Verified"
                      \/ thread[u].result = Refused("VerificationFailed")
               PROVE  thread[t].result.of = assets
    BY DEF FingerprintsOfAWorkingBuild
  <2>1. /\ GoodResult(thread[t].request, thread[t].result, block[t])
        /\ GoodResult(thread[u].request, thread[u].result, block[u])
    BY DEF BindInd, GoodThread, Done
  <2>2. thread[t].result.of = CanonicalAssets
    BY <2>1 DEF GoodResult, Done
  <2>3. FingerprintsHold(assets)
    <3>1. /\ Panicked.tag = "Panicked" /\ Refused("SszDecode").tag = "Err"
          /\ Refused("VerificationFailed") = [tag |-> "Err", error |-> "VerificationFailed"]
          /\ Refused("SszDecode").error = "SszDecode"
      BY DEF Panicked, Refused
    <3> QED
      BY <2>1, <3>1 DEF GoodResult, Vouches, Done
  <2> QED
    BY <2>2, <2>3, PassedTheCheck DEF BindInd
<1> QED
  BY <1>1, BindInvariance, PTL

(* Receipts round-trip, up to what follows the list of an Ethereum receipt; a
   receipt shown to be in a block has nothing there. *)
THEOREM ReceiptsLoseOnlyATail ==
  ASSUME KeysEncoded
  PROVE  BindSpec => []RoundTripLosesOnlyATail
<1>1. BindInd => RoundTripLosesOnlyATail
  <2> SUFFICES ASSUME BindInd, NEW t \in Threads, NEW op \in {"decode", "decode_receipt"},
                      Done(t, op), thread[t].result.tag = "Decoded"
               PROVE  LET receipt == thread[t].result.receipt
                          raw     == thread[t].request.raw
                      IN  /\ ToWireBytes(receipt) = [raw EXCEPT !.rest = 0]
                          /\ raw.rest = 0 \/ (receipt.kind = "Ethereum" /\ op = "decode_receipt")
    BY DEF RoundTripLosesOnlyATail
  <2> DEFINE request == thread[t].request
  <2>1. GoodResult(request, thread[t].result, block[t]) /\ GoodBlock(block[t]) /\ request.op = op
    BY DEF BindInd, GoodThread, Done
  <2>2. RoundTrips(thread[t].result.receipt, request.raw)
    BY <2>1 DEF GoodResult
  <2>3. op = "decode" => request.raw.rest = 0
    <3> SUFFICES ASSUME op = "decode" PROVE request.raw.rest = 0
      OBVIOUS
    <3>1. IsIncluded(request, block[t])
      BY <2>1 DEF GoodResult, RootFor, Inclusions
    <3>2. /\ block[t].header \in DOMAIN Bodies
          /\ request.index \in DOMAIN Bodies[block[t].header].receipt
          /\ Bodies[block[t].header].receipt[request.index] = request.raw
      BY <2>1, <3>1 DEF IsIncluded, GoodBlock
    <3> QED
      BY <3>2, ChainContents
  <2> QED
    BY <2>2, <2>3 DEF RoundTrips
<1> QED
  BY <1>1, BindInvariance, PTL

=============================================================================
