--------------------------- MODULE Verifier_proof ---------------------------
(***************************************************************************)
(* For every chain, every set of sources, answers, requests and snapshots  *)
(* and any number of callers: Verifier keeps its type invariant, returns   *)
(* only the block asked for, canonical, under the right AuthPath, succeeds *)
(* if one of its sources is honest, and implements Authentication.         *)
(*                                                                         *)
(* The argument.  A call accumulates its evidence across an await: what it *)
(* checked before the read lock (Pending) is joined to the snapshot it     *)
(* finds there.  So the invariant says, of each call, what it has already  *)
(* established, and of each window, that the snapshot in force is in it.   *)
(* For the honest source it says that no call has passed its turn: until   *)
(* then refusals go on, and at that turn what it gave is held or accepted. *)
(***************************************************************************)
EXTENDS VerifierProperties, ProofConstruction_proof

AnySnapshot == Snapshots \cup {NoSummaries}

GindexOf(path) == IF path = "HistoricalSummariesDeneb" THEN DenebGindex ELSE BellatrixGindex

(* What a call has established when it waits for the read lock: its block is
   the one asked for, and bound to the beacon block whose summary it awaits. *)
Pending(request, hwp) ==
  /\ HasProof(hwp)
  /\ hwp.proof.variant \in {"HistoricalSummariesCapella", "HistoricalSummariesDeneb"}
  /\ <<GindexOf(hwp.proof.variant), hwp.header>> \in hwp.proof.beaconRoot.leaves
  /\ Matches(request, hwp.header)

(* The results of a call. *)
IsOutcome(result) ==
  \/ result.tag = "Err"
  \/ result = Panic
  \/ result = [tag |-> "Ok", header |-> result.header, path |-> result.path]

(* What a result establishes, when everything it rests on is trusted. *)
Justified(request, result, trusted) ==
  result.tag = "Ok" =>
    /\ result.header \in Headers
    /\ Matches(request, result.header)
    /\ result.path \in AuthPaths
    /\ trusted => CanonicalIn(result.path, result.header)

(* The state of one call, of a Verifier with n sources. *)
GoodCall(k, n, trusted) ==
  /\ k.pc \in {"idle", "fetch", "summary", "done"}
  /\ k.pc # "idle" => k.request \in Requests
  /\ k.pc = "idle" => k = IdleCall
  /\ k.pc \in {"fetch", "summary"} => k.next \in Nat
  /\ k.pc = "fetch" => k.next \in 1 .. n
  /\ k.pc = "summary" => Pending(k.request, k.held)
  /\ IF k.pc = "done" THEN IsOutcome(k.result) ELSE k.result = Nothing
  /\ Justified(k.request, k.result, trusted)

(* The inductive invariant. *)
IndInv ==
  /\ phase \in {"building", "built", "aborted"}
  /\ builder \in [sources : Seq(Sources), summaries : AnySnapshot, skip : BOOLEAN]
  /\ assets \in {CanonicalAssets} \cup AlteredAssets
  /\ summaries \in AnySnapshot
  /\ window \in [Callers -> SUBSET AnySnapshot]
  /\ call = [c \in Callers |-> call[c]]
  /\ Guarded => assets = CanonicalAssets
  /\ \A c \in Callers :
       /\ GoodCall(call[c], Len(builder.sources), Trusted(c))
       /\ call[c].pc # "idle" => phase = "built"
       /\ InFlight(c) => summaries \in window[c]

-----------------------------------------------------------------------------
(* The steps of a call. *)

(* Indices into a snapshot are natural numbers. *)
LEMMA SnapshotDomain ==
  ASSUME NEW snapshot \in AnySnapshot
  PROVE  DOMAIN snapshot \subseteq Nat
BY InputTypes DEF AnySnapshot, NoSummaries, SummariesUpTo

(* The results that a call can end with are told apart by their tags. *)
LEMMA OutcomeTags ==
  ASSUME NEW result, result = Nothing \/ IsOutcome(result)
  PROVE  result.tag \in {"Nothing", "Ok", "Err", "Panic"}
<1>1. CASE result = Nothing
  BY <1>1 DEF Nothing
<1>2. CASE result = Panic
  BY <1>2 DEF Panic
<1>3. CASE result = [tag |-> "Ok", header |-> result.header, path |-> result.path]
  <2> DEFINE h == result.header
             p == result.path
  <2>1. result = [tag |-> "Ok", header |-> h, path |-> p]
    BY <1>3
  <2> HIDE DEF h, p
  <2> QED
    BY <2>1
<1> QED
  BY <1>1, <1>2, <1>3 DEF IsOutcome

(* A call that ends with a justified result is good. *)
LEMMA ReturnIsGood ==
  ASSUME NEW k, k.request \in Requests, NEW n, NEW trusted, NEW result,
         IsOutcome(result), Justified(k.request, result, trusted)
  PROVE  GoodCall(Return(k, result), n, trusted)
BY DEF Return, Call, GoodCall

(* The loop goes on to a source that exists, or the call ends. *)
LEMMA RefuseIsGood ==
  ASSUME NEW k, k.request \in Requests, k.next \in Nat, NEW error, NEW trusted,
         Len(builder.sources) \in Nat
  PROVE  GoodCall(Refuse(k, error), Len(builder.sources), trusted)
<1>1. CASE k.request.by # "proof" /\ k.next < Len(builder.sources)
  BY <1>1 DEF Refuse, Call, GoodCall, Justified, Nothing
<1>2. CASE ~(k.request.by # "proof" /\ k.next < Len(builder.sources))
  <2>1. Justified(k.request, Err(error), trusted)
    BY DEF Justified, Err
  <2>2. GoodCall(Return(k, Err(error)), Len(builder.sources), trusted)
    BY <2>1, ReturnIsGood DEF Err, IsOutcome
  <2> QED
    BY <1>2, <2>2 DEF Refuse
<1> QED
  BY <1>1, <1>2

(* Decoding yields a HeaderWithProof of the same header. *)
LEMMA DecodedHasProof ==
  ASSUME NEW bytes, Decodable(bytes),
         \/ HasProof(bytes)
         \/ bytes.header \in Headers /\ bytes.proof.variant = "Unreadable"
  PROVE  /\ HasProof(FromSszBytes(bytes))
         /\ FromSszBytes(bytes).header = bytes.header
<1>1. ProofVariant(bytes.header) \in AuthPaths
  BY DEF ProofVariant, AuthPaths
<1>2. CASE bytes.proof.variant = ProofVariant(bytes.header)
  BY <1>1, <1>2 DEF FromSszBytes, HasProof, AuthPaths
<1>3. CASE bytes.proof.variant # ProofVariant(bytes.header)
  <2>1. ProofVariant(bytes.header) # "HistoricalHashes" => bytes.proof.slot \in Nat
    BY <1>1, <1>3 DEF Decodable, WireSize, HasProof, AuthPaths
  <2> QED
    BY <1>1, <1>3, <2>1 DEF FromSszBytes, HasProof, Misread
<1> QED
  BY <1>2, <1>3

(* The four verdicts. *)
LEMMA VerdictType ==
  ASSUME NEW hwp, HasProof(hwp)
  PROVE  ValidateHeaderWithProof(assets, hwp.header, hwp.proof) \in {"ok", "failed", "panic", "summary"}
<1>1. CASE hwp.proof.variant = "HistoricalHashes"
  BY <1>1 DEF ValidateHeaderWithProof, VerifyPreMergeHeader
<1>2. CASE hwp.proof.variant = "HistoricalRoots"
  BY <1>2 DEF ValidateHeaderWithProof, VerifyMergeToCapellaHeader, VerifyHistoricalRootsBeaconBlockProof
<1>3. CASE hwp.proof.variant = "HistoricalSummariesCapella"
  BY <1>3 DEF ValidateHeaderWithProof, VerifyCapellaToDenebHeader, AwaitSummary
<1>4. CASE hwp.proof.variant = "HistoricalSummariesDeneb"
  BY <1>4 DEF ValidateHeaderWithProof, VerifyPostDenebHeader, AwaitSummary
<1> QED
  BY <1>1, <1>2, <1>3, <1>4 DEF HasProof, AuthPaths

(* A verdict reached before the read lock is justified, or leaves the call
   waiting with its evidence. *)
LEMMA JudgeIsGood ==
  ASSUME NEW k, k.request \in Requests, k.next \in Nat, NEW hwp, HasProof(hwp),
         Matches(k.request, hwp.header), Len(builder.sources) \in Nat,
         NEW trusted, trusted => assets = CanonicalAssets
  PROVE  GoodCall(Judge(k, hwp), Len(builder.sources), trusted)
<1> DEFINE verdict == ValidateHeaderWithProof(assets, hwp.header, hwp.proof)
           n == Len(builder.sources)
<1>0. hwp.header \in Headers /\ hwp.header.number \in Nat
  BY InputTypes DEF HasProof
<1>1. /\ verdict \in {"ok", "failed", "panic", "summary"}
      /\ verdict = "ok" => /\ Justified(k.request, Ok(hwp), trusted)
      /\ verdict = "summary" => Pending(k.request, hwp)
  <2>1. CASE hwp.proof.variant = "HistoricalHashes"
    <3>1. verdict = VerifyPreMergeHeader(assets, hwp.header, hwp.proof)
      BY <2>1 DEF ValidateHeaderWithProof
    <3>2. verdict \in {"ok", "failed"}
      BY <3>1 DEF VerifyPreMergeHeader
    <3>3. verdict = "ok" /\ trusted => CanonicalIn("HistoricalHashes", hwp.header)
      BY <1>0, <3>1, PreMergeSound
    <3> QED
      BY <1>0, <2>1, <3>2, <3>3 DEF Justified, Ok, AuthPaths
  <2>2. CASE hwp.proof.variant = "HistoricalRoots"
    <3>1. verdict = VerifyMergeToCapellaHeader(assets, hwp.header, hwp.proof)
      BY <2>2 DEF ValidateHeaderWithProof
    <3>2. verdict \in {"ok", "failed", "panic"}
      BY <3>1 DEF VerifyMergeToCapellaHeader, VerifyHistoricalRootsBeaconBlockProof
    <3>3. verdict = "ok" /\ trusted => CanonicalIn("HistoricalRoots", hwp.header)
      BY <2>2, <3>1, MergeToCapellaSound DEF HasProof
    <3> QED
      BY <1>0, <2>2, <3>2, <3>3 DEF Justified, Ok, AuthPaths
  <2>3. CASE hwp.proof.variant = "HistoricalSummariesCapella"
    <3>1. verdict = VerifyCapellaToDenebHeader(hwp.header, hwp.proof)
      BY <2>3 DEF ValidateHeaderWithProof
    <3>2. verdict \in {"failed", "summary"}
      BY <3>1 DEF VerifyCapellaToDenebHeader, AwaitSummary
    <3>3. verdict = "summary" => <<BellatrixGindex, hwp.header>> \in hwp.proof.beaconRoot.leaves
      BY <3>1, ExecutionProofBinds DEF VerifyCapellaToDenebHeader
    <3> QED
      BY <2>3, <3>2, <3>3 DEF Pending, GindexOf
  <2>4. CASE hwp.proof.variant = "HistoricalSummariesDeneb"
    <3>1. verdict = VerifyPostDenebHeader(hwp.header, hwp.proof)
      BY <2>4 DEF ValidateHeaderWithProof
    <3>2. verdict \in {"failed", "summary"}
      BY <3>1 DEF VerifyPostDenebHeader, AwaitSummary
    <3>3. verdict = "summary" => <<DenebGindex, hwp.header>> \in hwp.proof.beaconRoot.leaves
      BY <3>1, ExecutionProofBinds DEF VerifyPostDenebHeader
    <3> QED
      BY <2>4, <3>2, <3>3 DEF Pending, GindexOf
  <2> QED
    BY <2>1, <2>2, <2>3, <2>4 DEF HasProof, AuthPaths
<1>2. CASE verdict = "ok"
  <2>1. GoodCall(Return(k, Ok(hwp)), n, trusted)
    BY <1>1, <1>2, ReturnIsGood DEF Ok, IsOutcome
  <2> QED
    BY <1>2, <2>1 DEF Judge
<1>3. CASE verdict = "failed"
  BY <1>3, RefuseIsGood DEF Judge
<1>4. CASE verdict = "panic"
  <2>1. GoodCall(Return(k, Panic), n, trusted)
    BY ReturnIsGood DEF Panic, Justified, IsOutcome
  <2> QED
    BY <1>4, <2>1 DEF Judge
<1>5. CASE verdict = "summary"
  <2>1. Judge(k, hwp) = Call("summary", k.request, k.next, hwp, Nothing)
    BY <1>5 DEF Judge
  <2> QED
    BY <1>1, <1>5, <2>1 DEF Call, GoodCall, Justified, Nothing
<1> QED
  BY <1>1, <1>2, <1>3, <1>4, <1>5

(* One turn of the loop: whatever the source answered. *)
LEMMA ConsiderIsGood ==
  ASSUME NEW k, k.request \in Requests, k.next \in Nat, Len(builder.sources) \in Nat,
         NEW s \in Sources, NEW r \in Requests, NEW answer \in Answers[s][r],
         NEW trusted, trusted => assets = CanonicalAssets
  PROVE  GoodCall(Consider(k, answer), Len(builder.sources), trusted)
<1>1. CASE answer.tag = "Err" \/ ~Decodable(answer.bytes) \/ ~Matches(k.request, answer.bytes.header)
  BY <1>1, RefuseIsGood DEF Consider
<1>2. CASE ~(answer.tag = "Err" \/ ~Decodable(answer.bytes) \/ ~Matches(k.request, answer.bytes.header))
  <2> DEFINE hwp == FromSszBytes(answer.bytes)
  <2>1. \/ HasProof(answer.bytes)
        \/ answer.bytes.header \in Headers /\ answer.bytes.proof.variant = "Unreadable"
    BY <1>2, InputTypes
  <2>2. HasProof(hwp) /\ Matches(k.request, hwp.header)
    BY <1>2, <2>1, DecodedHasProof
  <2>3. GoodCall(Judge(k, hwp), Len(builder.sources), trusted)
    BY <2>2, JudgeIsGood
  <2> QED
    BY <1>2, <2>3 DEF Consider
<1> QED
  BY <1>1, <1>2

(* The verdict on a call that waited is justified by its evidence and the
   snapshot that it found. *)
LEMMA SummaryVerdictIsGood ==
  ASSUME NEW k, k.request \in Requests, k.next \in Nat, Pending(k.request, k.held),
         Len(builder.sources) \in Nat, NEW snapshot \in AnySnapshot,
         NEW trusted, trusted => Finalized(snapshot)
  PROVE  GoodCall(SummaryVerdict(k, snapshot), Len(builder.sources), trusted)
<1>1. CASE VerifyHistoricalSummariesBeaconBlockProof(snapshot, k.held.proof)
  <2> DEFINE path == k.held.proof.variant
             header == k.held.header
  <2>1. trusted => ProposedAt(header, GindexOf(path), {s \in Slots : s >= CapellaSlot})
    BY <1>1, SummarySound, SnapshotDomain DEF Pending
  <2>2. trusted => CanonicalIn(path, header)
    <3>1. CASE path = "HistoricalSummariesCapella"
      BY <2>1, <3>1 DEF CanonicalIn, GindexOf
    <3>2. CASE path = "HistoricalSummariesDeneb"
      BY <2>1, <3>2 DEF CanonicalIn, GindexOf
    <3> QED
      BY <3>1, <3>2 DEF Pending
  <2>3. Justified(k.request, Ok(k.held), trusted)
    BY <2>2 DEF Justified, Ok, Pending, HasProof
  <2>4. GoodCall(Return(k, Ok(k.held)), Len(builder.sources), trusted)
    BY <2>3, ReturnIsGood DEF Ok, IsOutcome
  <2> QED
    BY <1>1, <2>4 DEF SummaryVerdict
<1>2. CASE ~VerifyHistoricalSummariesBeaconBlockProof(snapshot, k.held.proof)
  BY <1>2, RefuseIsGood DEF SummaryVerdict
<1> QED
  BY <1>1, <1>2

(* An idle call is good whatever the Verifier, and a good call stays good if
   less is trusted. *)
LEMMA IdleIsGood ==
  ASSUME NEW n, NEW trusted
  PROVE  GoodCall(IdleCall, n, trusted)
BY DEF IdleCall, Call, Nothing, GoodCall, Justified

(* Trusting less keeps a good call good. *)
LEMMA GoodCallWeakens ==
  ASSUME NEW k, NEW n, NEW trusted, NEW less, GoodCall(k, n, trusted), less => trusted
  PROVE  GoodCall(k, n, less)
BY DEF GoodCall, Justified

-----------------------------------------------------------------------------
(* The invariant is inductive. *)

(* The number of registered sources is a natural number. *)
LEMMA SourceCount ==
  ASSUME IndInv
  PROVE  Len(builder.sources) \in Nat /\ \A i \in 1 .. Len(builder.sources) : builder.sources[i] \in Sources
BY DEF IndInv

(* A step that changes one call, and at most its own window, keeps the
   invariant if the new state of that call is good. *)
LEMMA OneCall ==
  ASSUME IndInv, phase = "built", NEW c \in Callers, NEW k,
         call' = [call EXCEPT ![c] = k],
         UNCHANGED <<phase, builder, assets, summaries>>,
         window' \in [Callers -> SUBSET AnySnapshot],
         \A d \in Callers \ {c} : window'[d] = window[d],
         k.pc \in {"fetch", "summary"} => summaries \in window'[c],
         GoodCall(k, Len(builder.sources), Trusted(c)')
  PROVE  IndInv'
<1>1. call' = [d \in Callers |-> call'[d]]
  BY DEF IndInv
<1>2. ASSUME NEW d \in Callers
      PROVE  /\ GoodCall(call[d], Len(builder.sources), Trusted(d))'
             /\ (call[d].pc # "idle" => phase = "built")'
             /\ (InFlight(d) => summaries \in window[d])'
  <2>1. CASE d = c
    <3>1. call'[d] = k
      BY <2>1 DEF IndInv
    <3>2. GoodCall(call[d], Len(builder.sources), Trusted(d))'
      BY <2>1, <3>1
    <3>3. (InFlight(d) => summaries \in window[d])'
      BY <2>1, <3>1 DEF InFlight
    <3> QED
      BY <3>2, <3>3
  <2>2. CASE d # c
    <3>1. call'[d] = call[d] /\ window'[d] = window[d]
      BY <2>2 DEF IndInv
    <3>2. Trusted(d)' => Trusted(d)
      BY <3>1 DEF Trusted, Guarded
    <3>3. GoodCall(call[d], Len(builder.sources), Trusted(d)')
      BY <3>2, GoodCallWeakens DEF IndInv
    <3>4. GoodCall(call[d], Len(builder.sources), Trusted(d))'
      BY <3>1, <3>3
    <3>5. (InFlight(d) => summaries \in window[d])'
      BY <3>1 DEF IndInv, InFlight
    <3> QED
      BY <3>4, <3>5
  <2> QED
    BY <2>1, <2>2
<1> QED
  BY <1>1, <1>2 DEF IndInv, Guarded

(* The invariant holds before the Verifier is built. *)
LEMMA InitIndInv == Init => IndInv
<1> SUFFICES ASSUME Init PROVE IndInv
  OBVIOUS
<1>1. builder \in [sources : Seq(Sources), summaries : AnySnapshot, skip : BOOLEAN]
  BY DEF Init, NewBuilder, AnySnapshot
<1>2. ASSUME NEW c \in Callers
      PROVE  /\ GoodCall(call[c], Len(builder.sources), Trusted(c))
             /\ call[c].pc = "idle"
  BY IdleIsGood DEF Init, IdleCall, Call
<1> QED
  BY <1>1, <1>2 DEF Init, IndInv, Guarded, InFlight, AnySnapshot

(* While the Verifier is being built there is no call yet. *)
LEMMA BuildingSteps ==
  ASSUME IndInv, phase = "building", UNCHANGED <<assets, call, window>>,
         phase' \in {"building", "built", "aborted"},
         builder' \in [sources : Seq(Sources), summaries : AnySnapshot, skip : BOOLEAN],
         summaries' \in AnySnapshot,
         Guarded' => assets = CanonicalAssets
  PROVE  IndInv'
<1>1. ASSUME NEW c \in Callers
      PROVE  /\ GoodCall(call[c], Len(builder.sources), Trusted(c))'
             /\ call'[c].pc = "idle"
  <2>1. call[c] = IdleCall
    BY DEF IndInv, GoodCall
  <2>2. GoodCall(IdleCall, Len(builder'.sources), Trusted(c)')
    BY IdleIsGood
  <2> QED
    BY <2>1, <2>2 DEF IdleCall, Call
<1> QED
  BY <1>1 DEF IndInv, InFlight

(* Every step keeps the invariant: one case per action of Next. *)
LEMMA NextIndInv == IndInv /\ [Next]_vars => IndInv'
<1> SUFFICES ASSUME IndInv, [Next]_vars PROVE IndInv'
  OBVIOUS
<1> USE SourceCount
<1>1. ASSUME NEW s \in Sources, DataSource(s) PROVE IndInv'
  <2>1. builder' \in [sources : Seq(Sources), summaries : AnySnapshot, skip : BOOLEAN]
    <3>1. builder' = [builder EXCEPT !.sources = Append(builder.sources, s)]
      BY <1>1 DEF DataSource, Configure
    <3>2. Append(builder.sources, s) \in Seq(Sources)
      BY DEF IndInv
    <3> QED
      BY <3>1, <3>2 DEF IndInv
  <2> QED
    BY <1>1, <2>1, BuildingSteps DEF DataSource, Configure, IndInv, Guarded
<1>2. ASSUME NEW snapshot \in Snapshots, HistoricalSummaries(snapshot) PROVE IndInv'
  <2>1. builder' \in [sources : Seq(Sources), summaries : AnySnapshot, skip : BOOLEAN]
    BY <1>2 DEF HistoricalSummaries, Configure, IndInv, AnySnapshot
  <2> QED
    BY <1>2, <2>1, BuildingSteps DEF HistoricalSummaries, Configure, IndInv, Guarded
<1>3. ASSUME SkipFingerprintCheck PROVE IndInv'
  <2>1. builder' \in [sources : Seq(Sources), summaries : AnySnapshot, skip : BOOLEAN]
    BY <1>3 DEF SkipFingerprintCheck, Configure, IndInv
  <2> QED
    BY <1>3, <2>1, BuildingSteps DEF SkipFingerprintCheck, Configure, IndInv, Guarded
<1>4. ASSUME Build PROVE IndInv'
  <2>1. summaries' \in AnySnapshot /\ phase' \in {"built", "aborted"}
    BY <1>4 DEF Build, IndInv
  <2>2. Guarded' => assets = CanonicalAssets
    <3>1. Guarded' => FingerprintsMatch
      BY <1>4 DEF Build, Guarded
    <3>2. assets = [epochs |-> assets.epochs, roots |-> assets.roots]
      BY InputTypes DEF IndInv, CanonicalAssets
    <3>3. FingerprintsMatch => assets = CanonicalAssets
      BY <3>2 DEF FingerprintsMatch, CanonicalAssets
    <3> QED
      BY <3>1, <3>3
  <2> QED
    BY <1>4, <2>1, <2>2, BuildingSteps DEF Build, IndInv
<1>5. ASSUME NEW c \in Callers, NEW r \in Requests, Verify(c, r) PROVE IndInv'
  <2> DEFINE hwp == [header |-> r.header, proof |-> r.proof]
             k == Judge(NewCall(r), hwp)
  <2>1. /\ phase = "built"
        /\ call' = [call EXCEPT ![c] = k]
        /\ window' = [window EXCEPT ![c] = {summaries}]
        /\ UNCHANGED <<phase, builder, assets, summaries>>
        /\ r.by = "proof"
    BY <1>5 DEF Verify, Start
  <2>2. /\ HasProof(hwp)
        /\ Matches(r, hwp.header)
        /\ NewCall(r).request = r
        /\ NewCall(r).next = 1
    BY <2>1, InputTypes DEF HasProof, Matches, NewCall, Call
  <2>3. Trusted(c)' => assets = CanonicalAssets
    BY <2>1 DEF Trusted, Guarded, IndInv
  <2>4. GoodCall(k, Len(builder.sources), Trusted(c)')
    BY <2>2, <2>3, JudgeIsGood
  <2>5. window' \in [Callers -> SUBSET AnySnapshot] /\ summaries \in window'[c]
    BY <2>1 DEF IndInv
  <2> HIDE DEF k
  <2> QED
    BY <2>1, <2>4, <2>5, OneCall DEF IndInv
<1>6. ASSUME NEW c \in Callers, NEW r \in Requests, TrySources(c, r) PROVE IndInv'
  <2> DEFINE k == IF builder.sources = <<>> THEN Return(NewCall(r), Err("NoDataSource"))
                                            ELSE NewCall(r)
  <2>1. /\ phase = "built"
        /\ call' = [call EXCEPT ![c] = k]
        /\ window' = [window EXCEPT ![c] = {summaries}]
        /\ UNCHANGED <<phase, builder, assets, summaries>>
    BY <1>6 DEF TrySources, Start
  <2>2. GoodCall(k, Len(builder.sources), Trusted(c)')
    <3>1. CASE builder.sources = <<>>
      BY <3>1, ReturnIsGood DEF NewCall, Call, Err, Justified, IsOutcome
    <3>2. CASE builder.sources # <<>>
      <4>1. 1 \in 1 .. Len(builder.sources)
        BY <3>2 DEF IndInv
      <4> QED
        BY <3>2, <4>1 DEF NewCall, Call, GoodCall, Justified, Nothing
    <3> QED
      BY <3>1, <3>2
  <2>3. window' \in [Callers -> SUBSET AnySnapshot] /\ summaries \in window'[c]
    BY <2>1 DEF IndInv
  <2> HIDE DEF k
  <2> QED
    BY <2>1, <2>2, <2>3, OneCall DEF IndInv
<1>7. ASSUME NEW c \in Callers, FetchReturns(c) PROVE IndInv'
  <2> DEFINE s == builder.sources[call[c].next]
             r == call[c].request
  <2>1. /\ r \in Requests /\ call[c].next \in Nat /\ s \in Sources
        /\ phase = "built" /\ summaries \in window[c]
    BY <1>7 DEF FetchReturns, IndInv, GoodCall, InFlight
  <2>2. PICK answer \in Answers[s][r] : call' = [call EXCEPT ![c] = Consider(call[c], answer)]
    BY <1>7 DEF FetchReturns, IndInv
  <2>3. UNCHANGED <<phase, builder, assets, summaries, window>>
    BY <1>7 DEF FetchReturns
  <2>4. Trusted(c)' => assets = CanonicalAssets
    BY <2>3 DEF Trusted, Guarded, IndInv
  <2>5. GoodCall(Consider(call[c], answer), Len(builder.sources), Trusted(c)')
    BY <2>1, <2>4, ConsiderIsGood
  <2> QED
    BY <2>1, <2>2, <2>3, <2>5, OneCall DEF IndInv
<1>8. ASSUME NEW c \in Callers, ReadSummaries(c) PROVE IndInv'
  <2>1. /\ call' = [call EXCEPT ![c] = SummaryVerdict(call[c], summaries)]
        /\ UNCHANGED <<phase, builder, assets, summaries, window>>
    BY <1>8 DEF ReadSummaries, IndInv
  <2>2. /\ call[c].request \in Requests /\ call[c].next \in Nat
        /\ Pending(call[c].request, call[c].held)
        /\ phase = "built" /\ summaries \in window[c] /\ summaries \in AnySnapshot
    BY <1>8 DEF ReadSummaries, IndInv, GoodCall, InFlight
  <2>3. Trusted(c)' => Finalized(summaries)
    BY <2>1, <2>2 DEF Trusted
  <2>4. GoodCall(SummaryVerdict(call[c], summaries), Len(builder.sources), Trusted(c)')
    BY <2>2, <2>3, SummaryVerdictIsGood
  <2> QED
    BY <2>1, <2>2, <2>4, OneCall DEF IndInv
<1>9. ASSUME NEW c \in Callers, Collect(c) PROVE IndInv'
  <2>1. /\ call' = [call EXCEPT ![c] = IdleCall]
        /\ window' = [window EXCEPT ![c] = {}]
        /\ UNCHANGED <<phase, builder, assets, summaries>>
        /\ phase = "built"
    BY <1>9 DEF Collect, IndInv
  <2>2. IdleCall.pc \notin {"fetch", "summary"}
    BY DEF IdleCall, Call
  <2>3. window' \in [Callers -> SUBSET AnySnapshot]
    BY <2>1 DEF IndInv
  <2> QED
    BY <2>1, <2>2, <2>3, IdleIsGood, OneCall DEF IndInv
<1>10. ASSUME NEW snapshot \in Snapshots, SetHistoricalSummaries(snapshot) PROVE IndInv'
  <2>1. /\ summaries' = snapshot
        /\ UNCHANGED <<phase, builder, assets, call>>
        /\ \A c \in Callers :
             window'[c] = IF InFlight(c) THEN window[c] \cup {snapshot} ELSE window[c]
    BY <1>10 DEF SetHistoricalSummaries
  <2>2. window' \in [Callers -> SUBSET AnySnapshot]
    BY <1>10 DEF SetHistoricalSummaries, IndInv, AnySnapshot
  <2>3. ASSUME NEW c \in Callers
        PROVE  GoodCall(call[c], Len(builder.sources), Trusted(c))'
    <3>1. Trusted(c)' => Trusted(c)
      BY <2>1 DEF Trusted, Guarded
    <3>2. GoodCall(call[c], Len(builder.sources), Trusted(c)')
      BY <3>1, GoodCallWeakens DEF IndInv
    <3> QED
      BY <2>1, <3>2
  <2>4. ASSUME NEW c \in Callers
        PROVE  (InFlight(c) => summaries \in window[c])'
    BY <2>1 DEF InFlight
  <2>5. Guarded' => assets' = CanonicalAssets
    BY <2>1 DEF IndInv, Guarded
  <2> QED
    BY <2>1, <2>2, <2>3, <2>4, <2>5 DEF IndInv, AnySnapshot
<1>11. CASE UNCHANGED vars
  BY <1>11 DEF vars, IndInv, Guarded, Trusted, InFlight
<1> QED
  BY <1>1, <1>2, <1>3, <1>4, <1>5, <1>6, <1>7, <1>8, <1>9, <1>10, <1>11
     DEF Next, VerifyBlockByNumber, VerifyBlockByHash

(* The inductive invariant holds in every reachable state. *)
LEMMA Invariance == Spec => []IndInv
BY InitIndInv, NextIndInv, PTL DEF Spec

-----------------------------------------------------------------------------
(* The theorems. *)

(* Every reachable state has the shape that the code's types give it: in
   particular a waiting call always names a source that was registered. *)
THEOREM TypeCorrect == Spec => []TypeOK
<1>1. IndInv => TypeOK
  <2> SUFFICES ASSUME IndInv PROVE TypeOK
    OBVIOUS
  <2>1. DOMAIN call = Callers
    BY DEF IndInv
  <2>2. ASSUME NEW c \in Callers
        PROVE  /\ call[c].pc \in {"idle", "fetch", "summary", "done"}
               /\ call[c].pc # "idle" => phase = "built" /\ call[c].request \in Requests
               /\ call[c].pc = "fetch" => call[c].next \in 1 .. Len(builder.sources)
               /\ call[c].pc = "summary" => call[c].held.header \in Headers
               /\ call[c].result.tag \in {"Nothing", "Ok", "Err", "Panic"}
               /\ Succeeded(c) => call[c].result.header \in Headers
    <3>1. GoodCall(call[c], Len(builder.sources), Trusted(c))
      BY DEF IndInv
    <3>2. call[c].result.tag \in {"Nothing", "Ok", "Err", "Panic"}
      <4>1. \/ call[c].result = Nothing
            \/ IsOutcome(call[c].result)
        BY <3>1 DEF GoodCall
      <4> QED
        BY <4>1, OutcomeTags
    <3> QED
      BY <3>1, <3>2 DEF IndInv, GoodCall, Pending, HasProof, Justified, Succeeded
  <2> QED
    BY <2>1, <2>2 DEF IndInv, TypeOK, AnySnapshot
<1> QED
  BY <1>1, Invariance, PTL

(* A call returns Ok only for the block it was asked about, and, if no false
   snapshot was in force during it, only for a block of the canonical chain. *)
THEOREM OnlyCanonical == Spec => []OnlyCanonicalBlocks
<1>1. IndInv => OnlyCanonicalBlocks
  BY DEF IndInv, GoodCall, Justified, OnlyCanonicalBlocks, Succeeded, Canonical
<1> QED
  BY <1>1, Invariance, PTL

(* The AuthPath of a VerifiedBlock names the commitment that holds it. *)
THEOREM AuthPathCorrect == Spec => []AuthPathIsTheEra
<1>1. IndInv => AuthPathIsTheEra
  BY DEF IndInv, GoodCall, Justified, AuthPathIsTheEra, Succeeded
<1> QED
  BY <1>1, Invariance, PTL

-----------------------------------------------------------------------------
(* The snapshot behind a verdict. *)

SummaryPaths == {"HistoricalSummariesCapella", "HistoricalSummariesDeneb"}

(* A result that rests on a summary rests on one of the snapshots in w. *)
Founded(k, w) ==
  k.result.tag = "Ok" /\ k.result.path \in SummaryPaths =>
    \E snapshot \in w : SummaryCommits(snapshot, k.result.header)

AllFounded == \A c \in Callers : Founded(call[c], window[c])

(* A verdict reached before the read lock rests on no summary. *)
LEMMA JudgeIsFounded ==
  ASSUME NEW k, NEW hwp, HasProof(hwp), NEW w
  PROVE  Founded(Judge(k, hwp), w)
<1> DEFINE verdict == ValidateHeaderWithProof(assets, hwp.header, hwp.proof)
<1>1. \A error : Refuse(k, error).result.tag # "Ok"
  BY DEF Refuse, Return, Call, Err, Nothing
<1>2. CASE verdict = "ok"
  <2>1. hwp.proof.variant \notin SummaryPaths
    BY <1>2 DEF SummaryPaths, ValidateHeaderWithProof, VerifyCapellaToDenebHeader,
                VerifyPostDenebHeader, AwaitSummary
  <2>2. Judge(k, hwp).result.path = hwp.proof.variant
    BY <1>2 DEF Judge, Return, Call, Ok
  <2> QED
    BY <2>1, <2>2 DEF Founded
<1>3. CASE verdict # "ok"
  <2>1. Judge(k, hwp).result.tag # "Ok"
    BY <1>1, <1>3, VerdictType DEF Judge, Return, Call, Panic, Nothing
  <2> QED
    BY <2>1 DEF Founded
<1> QED
  BY <1>2, <1>3

(* The whole turn of the loop neither. *)
LEMMA ConsiderIsFounded ==
  ASSUME NEW k, NEW s \in Sources, NEW r \in Requests, NEW answer \in Answers[s][r], NEW w
  PROVE  Founded(Consider(k, answer), w)
<1>1. \A error : Founded(Refuse(k, error), w)
  BY DEF Refuse, Return, Call, Err, Nothing, Founded
<1>2. CASE answer.tag = "Err" \/ ~Decodable(answer.bytes) \/ ~Matches(k.request, answer.bytes.header)
  BY <1>1, <1>2 DEF Consider
<1>3. CASE ~(answer.tag = "Err" \/ ~Decodable(answer.bytes) \/ ~Matches(k.request, answer.bytes.header))
  <2>1. HasProof(FromSszBytes(answer.bytes))
    BY <1>3, DecodedHasProof, InputTypes
  <2> QED
    BY <1>3, <2>1, JudgeIsFounded DEF Consider
<1> QED
  BY <1>2, <1>3

(* A verdict under the read lock rests on the snapshot found there. *)
LEMMA SummaryVerdictIsFounded ==
  ASSUME NEW k, Pending(k.request, k.held), NEW w, NEW snapshot \in w
  PROVE  Founded(SummaryVerdict(k, snapshot), w)
<1>1. CASE VerifyHistoricalSummariesBeaconBlockProof(snapshot, k.held.proof)
  <2> DEFINE i     == HistoricalSummaryIndex(k.held.proof.slot)
             index == SlotsPerHistoricalRoot + Offset(k.held.proof.slot)
             leaf  == <<index, k.held.proof.beaconRoot>>
  <2>1. i \in DOMAIN snapshot /\ leaf \in snapshot[i].leaves
    BY <1>1, FoldsToItsLeaf DEF VerifyHistoricalSummariesBeaconBlockProof
  <2>2. \E gindex \in {BellatrixGindex, DenebGindex} : <<gindex, k.held.header>> \in leaf[2].leaves
    BY DEF Pending, GindexOf
  <2>3. SummaryCommits(snapshot, k.held.header)
    BY <2>1, <2>2 DEF SummaryCommits
  <2>4. SummaryVerdict(k, snapshot).result.header = k.held.header
    BY <1>1 DEF SummaryVerdict, Return, Call, Ok
  <2> QED
    BY <2>3, <2>4 DEF Founded
<1>2. CASE ~VerifyHistoricalSummariesBeaconBlockProof(snapshot, k.held.proof)
  BY <1>2 DEF SummaryVerdict, Refuse, Return, Call, Err, Nothing, Founded
<1> QED
  BY <1>1, <1>2

(* What every result rests on stays in the window of its call. *)
LEMMA NextFounded == IndInv /\ AllFounded /\ [Next]_vars => AllFounded'
<1> SUFFICES ASSUME IndInv, AllFounded, [Next]_vars PROVE AllFounded'
  OBVIOUS
<1>1. ASSUME NEW c \in Callers, NEW k, call' = [call EXCEPT ![c] = k],
             \A d \in Callers \ {c} : window'[d] = window[d],
             Founded(k, window'[c])
      PROVE  AllFounded'
  <2>1. ASSUME NEW d \in Callers PROVE Founded(call'[d], window'[d])
    <3>1. CASE d = c
      BY <1>1, <3>1 DEF IndInv
    <3>2. CASE d # c
      BY <1>1, <3>2 DEF IndInv, AllFounded
    <3> QED
      BY <3>1, <3>2
  <2> QED
    BY <2>1 DEF AllFounded, Founded, SummaryCommits
<1>2. ASSUME UNCHANGED call, \A c \in Callers : window[c] \subseteq window'[c]
      PROVE  AllFounded'
  BY <1>2 DEF AllFounded, Founded, SummaryCommits
<1>3. ASSUME NEW c \in Callers, NEW r \in Requests, Verify(c, r) PROVE AllFounded'
  <2> DEFINE k == Judge(NewCall(r), [header |-> r.header, proof |-> r.proof])
  <2>1. /\ call' = [call EXCEPT ![c] = k]
        /\ window' = [window EXCEPT ![c] = {summaries}]
        /\ HasProof([header |-> r.header, proof |-> r.proof])
    BY <1>3, InputTypes DEF Verify, Start, HasProof
  <2>2. Founded(k, window'[c])
    BY <2>1, JudgeIsFounded
  <2> HIDE DEF k
  <2>3. \A d \in Callers \ {c} : window'[d] = window[d]
    BY <2>1 DEF IndInv
  <2> QED
    BY <1>1, <2>1, <2>2, <2>3
<1>4. ASSUME NEW c \in Callers, NEW r \in Requests, TrySources(c, r) PROVE AllFounded'
  <2> DEFINE k == IF builder.sources = <<>> THEN Return(NewCall(r), Err("NoDataSource"))
                                            ELSE NewCall(r)
  <2>1. call' = [call EXCEPT ![c] = k] /\ window' = [window EXCEPT ![c] = {summaries}]
    BY <1>4 DEF TrySources, Start
  <2>2. Founded(k, window'[c])
    BY DEF Founded, Return, NewCall, Call, Err, Nothing
  <2> HIDE DEF k
  <2>3. \A d \in Callers \ {c} : window'[d] = window[d]
    BY <2>1 DEF IndInv
  <2> QED
    BY <1>1, <2>1, <2>2, <2>3
<1>5. ASSUME NEW c \in Callers, FetchReturns(c) PROVE AllFounded'
  <2>1. call[c].request \in Requests /\ builder.sources[call[c].next] \in Sources
    BY <1>5, SourceCount DEF FetchReturns, IndInv, GoodCall
  <2>2. PICK answer \in Answers[builder.sources[call[c].next]][call[c].request] :
          call' = [call EXCEPT ![c] = Consider(call[c], answer)]
    BY <1>5 DEF FetchReturns
  <2>3. window' = window
    BY <1>5 DEF FetchReturns
  <2>4. Founded(Consider(call[c], answer), window'[c])
    BY <2>1, ConsiderIsFounded
  <2> QED
    BY <1>1, <2>2, <2>3, <2>4
<1>6. ASSUME NEW c \in Callers, ReadSummaries(c) PROVE AllFounded'
  <2>1. /\ call' = [call EXCEPT ![c] = SummaryVerdict(call[c], summaries)]
        /\ window' = window
        /\ Pending(call[c].request, call[c].held) /\ summaries \in window[c]
    BY <1>6 DEF ReadSummaries, IndInv, GoodCall, InFlight
  <2>2. Founded(SummaryVerdict(call[c], summaries), window'[c])
    BY <2>1, SummaryVerdictIsFounded
  <2> QED
    BY <1>1, <2>1, <2>2
<1>7. ASSUME NEW c \in Callers, Collect(c) PROVE AllFounded'
  <2>1. call' = [call EXCEPT ![c] = IdleCall] /\ window' = [window EXCEPT ![c] = {}]
    BY <1>7 DEF Collect
  <2>2. Founded(IdleCall, window'[c])
    BY DEF Founded, IdleCall, Call, Nothing
  <2>3. \A d \in Callers \ {c} : window'[d] = window[d]
    BY <2>1 DEF IndInv
  <2> QED
    BY <1>1, <2>1, <2>2, <2>3
<1>8. ASSUME NEW snapshot \in Snapshots, SetHistoricalSummaries(snapshot) PROVE AllFounded'
  BY <1>2, <1>8 DEF SetHistoricalSummaries
<1>9. CASE UNCHANGED <<call, window>>
  BY <1>2, <1>9
<1> QED
  BY <1>3, <1>4, <1>5, <1>6, <1>7, <1>8, <1>9
     DEF Next, VerifyBlockByNumber, VerifyBlockByHash, DataSource, HistoricalSummaries,
         SkipFingerprintCheck, Configure, Build, vars

(* A post-Capella Ok rests on a snapshot that was in force during its call. *)
THEOREM SnapshotJustifies == Spec => []SnapshotJustifiesVerdict
<1>1. Init => AllFounded
  BY DEF Init, AllFounded, Founded, IdleCall, Call, Nothing
<1>2. AllFounded => SnapshotJustifiesVerdict
  BY DEF AllFounded, Founded, SnapshotJustifiesVerdict, Succeeded, SummaryPaths
<1> QED
  BY <1>1, <1>2, NextFounded, Invariance, PTL DEF Spec

-----------------------------------------------------------------------------
(* No step of a call changes its request. *)

(* The states of one call on its way: waiting, or done with an outcome. *)
OnItsWay(k, request) == k.pc \in {"fetch", "summary", "done"} /\ k.request = request

(* Returning keeps a call on its way. *)
LEMMA ReturnOnItsWay ==
  ASSUME NEW k, NEW result
  PROVE  OnItsWay(Return(k, result), k.request)
BY DEF OnItsWay, Return, Call

(* Refusing an answer keeps a call on its way. *)
LEMMA RefuseOnItsWay ==
  ASSUME NEW k, NEW error
  PROVE  OnItsWay(Refuse(k, error), k.request)
BY ReturnOnItsWay DEF OnItsWay, Refuse, Call

(* Judging an answer keeps a call on its way, whatever the verdict. *)
LEMMA JudgeOnItsWay ==
  ASSUME NEW k, NEW hwp, HasProof(hwp)
  PROVE  OnItsWay(Judge(k, hwp), k.request)
<1> DEFINE verdict == ValidateHeaderWithProof(assets, hwp.header, hwp.proof)
<1>1. verdict \in {"ok", "failed", "panic", "summary"}
  BY VerdictType
<1>2. CASE verdict = "ok"
  BY <1>2, ReturnOnItsWay DEF Judge
<1>3. CASE verdict = "failed"
  BY <1>3, RefuseOnItsWay DEF Judge
<1>4. CASE verdict = "panic"
  BY <1>4, ReturnOnItsWay DEF Judge
<1>5. CASE verdict = "summary"
  <2>1. Judge(k, hwp) = Call("summary", k.request, k.next, hwp, Nothing)
    BY <1>5 DEF Judge
  <2> QED
    BY <2>1 DEF OnItsWay, Call
<1> QED
  BY <1>1, <1>2, <1>3, <1>4, <1>5

(* One turn of the loop over the sources keeps a call on its way. *)
LEMMA ConsiderOnItsWay ==
  ASSUME NEW k, NEW s \in Sources, NEW r \in Requests, NEW answer \in Answers[s][r]
  PROVE  OnItsWay(Consider(k, answer), k.request)
<1>1. CASE answer.tag = "Err" \/ ~Decodable(answer.bytes) \/ ~Matches(k.request, answer.bytes.header)
  BY <1>1, RefuseOnItsWay DEF Consider
<1>2. CASE ~(answer.tag = "Err" \/ ~Decodable(answer.bytes) \/ ~Matches(k.request, answer.bytes.header))
  <2>1. HasProof(FromSszBytes(answer.bytes))
    BY <1>2, InputTypes, DecodedHasProof
  <2> QED
    BY <1>2, <2>1, JudgeOnItsWay DEF Consider
<1> QED
  BY <1>1, <1>2

(* The verdict under the read lock keeps a call on its way. *)
LEMMA SummaryVerdictOnItsWay ==
  ASSUME NEW k, NEW snapshot
  PROVE  OnItsWay(SummaryVerdict(k, snapshot), k.request)
BY ReturnOnItsWay, RefuseOnItsWay DEF SummaryVerdict

-----------------------------------------------------------------------------
(* An honest source is reached, and heard. *)

(* What a source or a request may hold for the embedded historical_roots to
   be indexed within bounds: it panics on a slot of an era from Capella on. *)
SlotsInRange ==
  \A s \in Sources, r \in Requests : \A answer \in Answers[s][r] :
    answer.tag = "Bytes" /\ Decodable(answer.bytes) =>
      LET proof == FromSszBytes(answer.bytes).proof
      IN  proof.variant = "HistoricalRoots" => Era(proof.slot) \in DOMAIN CanonicalAssets.roots

(* The canonical proof of the header comes from source number i, or is what
   the caller passed to verify, whose only turn is the first. *)
Provides(request, sources, i, header) ==
  \/ i \in 1 .. Len(sources) /\ Serves(sources[i], request, header)
  \/ /\ i = 1
     /\ request.by = "proof"
     /\ Canonical(header)
     /\ request.header = header
     /\ request.proof = CanonicalProof(header)

(* A call that has not gone past turn i: it waits for the summary of what that
   turn gave it or is at an earlier turn, and if it has ended it ended well. *)
OnCourse(k, i, header) ==
  /\ k.pc = "fetch" => k.request.by # "proof" /\ k.next <= i
  /\ k.pc = "summary" =>
       /\ k.next <= i
       /\ k.next = i \/ k.request.by = "proof" => k.held = WithCanonicalProof(header)
  /\ k.pc = "done" => k.result.tag = "Ok"

Heard(k, sources, snapshots) ==
  \A i \in Nat, header \in Headers :
    k.pc # "idle" /\ Provides(k.request, sources, i, header) /\ Covered(header, snapshots)
      => OnCourse(k, i, header)

(* With the canonical assets, every call keeps to what is provided for it. *)
AllHeard ==
  assets = CanonicalAssets => \A c \in Callers : Heard(call[c], builder.sources, window[c])

(* A canonical header with its proof decodes as itself. *)
LEMMA CanonicalDecodes ==
  ASSUME NEW header, Canonical(header)
  PROVE  /\ Decodable(WithCanonicalProof(header))
         /\ FromSszBytes(WithCanonicalProof(header)) = WithCanonicalProof(header)
BY CanonicalProofAccepted DEF WithCanonicalProof

(* A call that ends with Ok, or that waits for a summary at an earlier turn, is
   on its course. *)
LEMMA CallsOnCourse ==
  ASSUME NEW k, NEW i \in Nat, NEW header, NEW hwp
  PROVE  /\ OnCourse(Return(k, Ok(hwp)), i, header)
         /\ k.request.by # "proof" /\ k.next \in Nat /\ k.next < i
              => OnCourse(Call("summary", k.request, k.next, hwp, Nothing), i, header)
<1>1. OnCourse(Return(k, Ok(hwp)), i, header)
  <2>1. Return(k, Ok(hwp)).pc = "done" /\ Return(k, Ok(hwp)).result = Ok(hwp)
    BY DEF Return, Call
  <2>2. Ok(hwp).tag = "Ok"
    BY DEF Ok
  <2> QED
    BY <2>1, <2>2 DEF OnCourse
<1>2. ASSUME k.request.by # "proof", k.next \in Nat, k.next < i
      PROVE  OnCourse(Call("summary", k.request, k.next, hwp, Nothing), i, header)
  <2> DEFINE held == Call("summary", k.request, k.next, hwp, Nothing)
  <2>1. held.pc = "summary" /\ held.request = k.request /\ held.next = k.next
    BY DEF Call
  <2>2. k.next <= i /\ k.next # i
    BY <1>2
  <2> QED
    BY <1>2, <2>1, <2>2 DEF OnCourse
<1> QED
  BY <1>1, <1>2

(* It passes at once, or is held until the summary is read. *)
LEMMA CanonicalJudged ==
  ASSUME NEW header, Canonical(header), assets = CanonicalAssets, NEW k, k.next \in Nat
  PROVE  OnCourse(Judge(k, WithCanonicalProof(header)), k.next, header)
<1> DEFINE hwp     == WithCanonicalProof(header)
           verdict == ValidateHeaderWithProof(assets, hwp.header, hwp.proof)
<1>1. verdict \in {"ok", "summary"}
  BY CanonicalProofAccepted DEF WithCanonicalProof
<1>2. CASE verdict = "ok"
  BY <1>2, CallsOnCourse DEF Judge
<1>3. CASE verdict = "summary"
  <2>1. Judge(k, hwp) = Call("summary", k.request, k.next, hwp, Nothing)
    BY <1>3 DEF Judge
  <2> QED
    BY <2>1 DEF Call, OnCourse
<1> QED
  BY <1>1, <1>2, <1>3

(* Before the turn of the honest source, a refusal goes on to the next one. *)
LEMMA RefusalGoesOn ==
  ASSUME NEW k, k.request.by # "proof", k.next \in Nat, NEW error, NEW header,
         Len(builder.sources) \in Nat, NEW i \in 1 .. Len(builder.sources), k.next < i
  PROVE  OnCourse(Refuse(k, error), i, header)
<1>1. Refuse(k, error) = Call("fetch", k.request, k.next + 1, Nothing, Nothing)
  BY DEF Refuse
<1> QED
  BY <1>1 DEF Call, OnCourse

(* So does whatever another source answers, unless it succeeds. *)
LEMMA OthersAreHeardOut ==
  ASSUME SlotsInRange, assets = CanonicalAssets, NEW header,
         NEW s \in Sources, NEW r \in Requests, NEW answer \in Answers[s][r],
         NEW k, k.request.by # "proof", k.next \in Nat,
         Len(builder.sources) \in Nat, NEW i \in 1 .. Len(builder.sources), k.next < i
  PROVE  OnCourse(Consider(k, answer), i, header)
<1>1. CASE answer.tag = "Err" \/ ~Decodable(answer.bytes) \/ ~Matches(k.request, answer.bytes.header)
  BY <1>1, RefusalGoesOn DEF Consider
<1>2. CASE ~(answer.tag = "Err" \/ ~Decodable(answer.bytes) \/ ~Matches(k.request, answer.bytes.header))
  <2> DEFINE hwp     == FromSszBytes(answer.bytes)
             verdict == ValidateHeaderWithProof(assets, hwp.header, hwp.proof)
  <2>1. answer.tag = "Bytes" /\ Decodable(answer.bytes) /\ HasProof(hwp)
    BY <1>2, DecodedHasProof, InputTypes
  <2>2. hwp.proof.variant = "HistoricalRoots" => Era(hwp.proof.slot) \in DOMAIN assets.roots
    BY <2>1 DEF SlotsInRange
  <2>3. Consider(k, answer) = Judge(k, hwp)
    BY <1>2 DEF Consider
  <2> HIDE DEF hwp
  <2>4. verdict \in {"ok", "failed", "panic", "summary"}
    BY <2>1, VerdictType
  <2>5. verdict # "panic"
    BY <2>1, <2>2
    DEF ValidateHeaderWithProof, HasProof, AuthPaths, VerifyPreMergeHeader,
        VerifyMergeToCapellaHeader, VerifyHistoricalRootsBeaconBlockProof,
        VerifyCapellaToDenebHeader, VerifyPostDenebHeader, AwaitSummary
  <2>6. CASE verdict = "ok"
    BY <2>3, <2>6, CallsOnCourse DEF Judge
  <2>7. CASE verdict = "failed"
    <3>1. OnCourse(Refuse(k, "VerificationFailed"), i, header)
      BY RefusalGoesOn
    <3>2. Judge(k, hwp) = Refuse(k, "VerificationFailed")
      BY <2>7 DEF Judge
    <3> QED
      BY <2>3, <3>1, <3>2
  <2>8. CASE verdict = "summary"
    <3>1. i \in Nat
      OBVIOUS
    <3>2. OnCourse(Call("summary", k.request, k.next, hwp, Nothing), i, header)
      BY <3>1, CallsOnCourse
    <3>3. Judge(k, hwp) = Call("summary", k.request, k.next, hwp, Nothing)
      BY <2>8 DEF Judge
    <3> QED
      BY <2>3, <3>2, <3>3
  <2> QED
    BY <2>3, <2>4, <2>5, <2>6, <2>7, <2>8
<1> QED
  BY <1>1, <1>2

(* Only a header from Shanghai on waits for its summary, and a snapshot that
   covers it has that summary. *)
LEMMA HeldIsAccepted ==
  ASSUME NEW header, Canonical(header), NEW request,
         Pending(request, WithCanonicalProof(header)),
         NEW snapshots, Covered(header, snapshots), NEW snapshot \in snapshots
  PROVE  VerifyHistoricalSummariesBeaconBlockProof(snapshot, CanonicalProof(header))
<1> DEFINE slot == SlotForExecutionTimestamp(header.timestamp)
<1>1. CanonicalProof(header).variant \in {"HistoricalSummariesCapella", "HistoricalSummariesDeneb"}
  BY DEF Pending, WithCanonicalProof
<1>2. Proposed(header) /\ ~Mined(header)
  BY <1>1, CanonicalKinds, MinedAccepted
<1>3. /\ CanonicalProof(header)
           = PostMergeProof(ForkForSlot(slot), slot, EraBatch(Era(slot)), BlockRootAt[slot])
      /\ CanonicalProof(header).variant = ProofVariant(header)
      /\ slot \in Slots /\ slot \in Nat
  BY <1>2, ProposedAccepted, VariantOfKinds DEF Proposed
<1>4. CapellaSlot \in Nat
  BY MainnetNumbers
<1>5. slot >= CapellaSlot
  BY <1>1, <1>2, <1>3, <1>4, VariantOfKinds
<1>6. ~CanonicalIn("HistoricalHashes", header)
  BY <1>2, ChainHeaders, MainnetNumbers DEF CanonicalIn, Mined, IsShanghaiActive
<1>7. ~CanonicalIn("HistoricalRoots", header)
  <2> SUFFICES ASSUME CanonicalIn("HistoricalRoots", header) PROVE FALSE
    OBVIOUS
  <2>1. PICK s \in Slots : s < CapellaSlot /\ <<BellatrixGindex, header>> \in BlockRootAt[s].leaves
    BY DEF CanonicalIn, ProposedAt
  <2>2. slot <= s
    BY <2>1, ProposedBySlot
  <2>3. s \in Nat
    BY MainnetNumbers DEF Slots
  <2> QED
    BY <1>3, <1>4, <1>5, <2>1, <2>2, <2>3
<1>8. /\ HistoricalSummaryIndex(slot) \in DOMAIN snapshot
      /\ snapshot[HistoricalSummaryIndex(slot)] = SummaryRoot(EraRoots(Era(slot)))
  BY <1>6, <1>7 DEF Covered, HasSummaryOf
<1> HIDE DEF slot
<1> QED
  BY <1>3, <1>5, <1>8, SummaryProofVerifies

(* Under the read lock the honest proof is accepted, and any other is accepted
   or refused. *)
LEMMA SummaryOnCourse ==
  ASSUME NEW k, k.pc = "summary", k.next \in Nat, Pending(k.request, k.held),
         Len(builder.sources) \in Nat,
         NEW i \in Nat, NEW header, Provides(k.request, builder.sources, i, header),
         OnCourse(k, i, header),
         NEW snapshots, Covered(header, snapshots), NEW snapshot \in snapshots
  PROVE  OnCourse(SummaryVerdict(k, snapshot), i, header)
<1>1. CASE VerifyHistoricalSummariesBeaconBlockProof(snapshot, k.held.proof)
  BY <1>1, CallsOnCourse DEF SummaryVerdict
<1>2. CASE ~VerifyHistoricalSummariesBeaconBlockProof(snapshot, k.held.proof)
  <2>1. Canonical(header)
    BY DEF Provides, Serves
  <2>2. k.held # WithCanonicalProof(header)
    <3> SUFFICES ASSUME k.held = WithCanonicalProof(header) PROVE FALSE
      OBVIOUS
    <3>1. k.held.proof = CanonicalProof(header)
      BY DEF WithCanonicalProof
    <3>2. Pending(k.request, WithCanonicalProof(header))
      OBVIOUS
    <3> QED
      BY <1>2, <2>1, <3>1, <3>2, HeldIsAccepted
  <2>3. k.request.by # "proof" /\ k.next <= i /\ k.next # i
    BY <2>2 DEF OnCourse
  <2>4. i \in 1 .. Len(builder.sources) /\ k.next < i
    BY <2>3 DEF Provides
  <2>5. OnCourse(Refuse(k, "VerificationFailed"), i, header)
    BY <2>3, <2>4, RefusalGoesOn
  <2> QED
    BY <1>2, <2>5 DEF SummaryVerdict
<1> QED
  BY <1>1, <1>2

(* A step that changes one call keeps the others to their courses. *)
LEMMA OneCallHeard ==
  ASSUME IndInv, AllHeard, NEW c \in Callers, NEW k,
         call' = [call EXCEPT ![c] = k],
         UNCHANGED <<builder, assets>>,
         \A d \in Callers \ {c} : window'[d] = window[d],
         assets = CanonicalAssets => Heard(k, builder.sources, window'[c])
  PROVE  AllHeard'
<1>1. ASSUME assets = CanonicalAssets, NEW d \in Callers
      PROVE  Heard(call'[d], builder.sources, window'[d])
  <2>1. CASE d = c
    BY <1>1, <2>1 DEF IndInv
  <2>2. CASE d # c
    BY <1>1, <2>2 DEF IndInv, AllHeard
  <2> QED
    BY <2>1, <2>2
<1>2. assets' = CanonicalAssets =>
        \A d \in Callers : Heard(call'[d], builder'.sources, window'[d])
  BY <1>1
<1> QED
  BY <1>2 DEF AllHeard, Heard, Provides, Serves, Covered, HasSummaryOf, OnCourse

(* What a call provides for is heard by its next step as well. *)
LEMMA NextHeard == SlotsInRange /\ IndInv /\ AllHeard /\ [Next]_vars => AllHeard'
<1> SUFFICES ASSUME SlotsInRange, IndInv, AllHeard, [Next]_vars PROVE AllHeard'
  OBVIOUS
<1>0. Len(builder.sources) \in Nat /\ \A i \in 1 .. Len(builder.sources) : builder.sources[i] \in Sources
  BY SourceCount
<1>1. ASSUME UNCHANGED <<call, assets>>,
             \A c \in Callers : call[c].pc # "idle" =>
               builder' = builder /\ window[c] \subseteq window'[c]
      PROVE  AllHeard'
  <2>1. ASSUME assets = CanonicalAssets, NEW c \in Callers
        PROVE  Heard(call[c], builder'.sources, window'[c])
    <3>1. CASE call[c].pc = "idle"
      BY <3>1 DEF Heard
    <3>2. CASE call[c].pc # "idle"
      <4>1. \A header : Covered(header, window'[c]) => Covered(header, window[c])
        BY <1>1, <3>2 DEF Covered
      <4>2. Heard(call[c], builder.sources, window[c])
        BY <2>1 DEF AllHeard
      <4> QED
        BY <1>1, <3>2, <4>1, <4>2 DEF Heard
    <3> QED
      BY <3>1, <3>2
  <2>2. assets' = CanonicalAssets =>
          \A c \in Callers : Heard(call'[c], builder'.sources, window'[c])
    BY <1>1, <2>1
  <2> QED
    BY <2>2 DEF AllHeard, Heard, Provides, Serves, Covered, HasSummaryOf, OnCourse
<1>2. ASSUME NEW c \in Callers, NEW r \in Requests, Verify(c, r) PROVE AllHeard'
  <2> DEFINE hwp == [header |-> r.header, proof |-> r.proof]
             k   == Judge(NewCall(r), hwp)
  <2>1. /\ call' = [call EXCEPT ![c] = k]
        /\ window' = [window EXCEPT ![c] = {summaries}]
        /\ UNCHANGED <<builder, assets>>
        /\ r.by = "proof" /\ HasProof(hwp)
    BY <1>2, InputTypes DEF Verify, Start, HasProof
  <2>2. NewCall(r).request = r /\ NewCall(r).next = 1
    BY DEF NewCall, Call
  <2>3. k.request = r
    BY <2>1, <2>2, JudgeOnItsWay DEF OnItsWay
  <2>4. ASSUME assets = CanonicalAssets, NEW i \in Nat, NEW header \in Headers,
               Provides(r, builder.sources, i, header)
        PROVE  OnCourse(k, i, header)
    <3>1. i = 1 /\ Canonical(header) /\ hwp = WithCanonicalProof(header)
      BY <2>1, <2>4 DEF Provides, Serves, WithCanonicalProof
    <3> QED
      BY <2>2, <2>4, <3>1, CanonicalJudged
  <2>5. \A d \in Callers \ {c} : window'[d] = window[d]
    BY <2>1 DEF IndInv
  <2> HIDE DEF k
  <2>6. assets = CanonicalAssets => Heard(k, builder.sources, window'[c])
    BY <2>3, <2>4 DEF Heard
  <2> QED
    BY <2>1, <2>5, <2>6, OneCallHeard
<1>3. ASSUME NEW c \in Callers, NEW r \in Requests, r.by # "proof", TrySources(c, r)
      PROVE  AllHeard'
  <2> DEFINE k == IF builder.sources = <<>> THEN Return(NewCall(r), Err("NoDataSource"))
                                            ELSE NewCall(r)
  <2>1. /\ call' = [call EXCEPT ![c] = k]
        /\ window' = [window EXCEPT ![c] = {summaries}]
        /\ UNCHANGED <<builder, assets>>
    BY <1>3 DEF TrySources, Start
  <2>2. k.request = r
    BY DEF Return, NewCall, Call
  <2>3. ASSUME NEW i \in Nat, NEW header \in Headers, Provides(r, builder.sources, i, header)
        PROVE  OnCourse(k, i, header)
    <3>1. i \in 1 .. Len(builder.sources)
      BY <1>3, <2>3 DEF Provides
    <3>2. builder.sources # <<>>
      BY <1>0, <3>1
    <3>3. k.pc = "fetch" /\ k.next = 1
      BY <3>2 DEF NewCall, Call
    <3> HIDE DEF k
    <3> QED
      BY <1>3, <2>2, <3>1, <3>3 DEF OnCourse
  <2>4. \A d \in Callers \ {c} : window'[d] = window[d]
    BY <2>1 DEF IndInv
  <2> HIDE DEF k
  <2>5. Heard(k, builder.sources, window'[c])
    BY <2>2, <2>3 DEF Heard
  <2> QED
    BY <2>1, <2>4, <2>5, OneCallHeard
<1>4. ASSUME NEW c \in Callers, FetchReturns(c) PROVE AllHeard'
  <2> DEFINE k == call[c]
             s == builder.sources[k.next]
             r == k.request
  <2>1. /\ k.pc = "fetch" /\ k.next \in 1 .. Len(builder.sources) /\ k.next \in Nat
        /\ r \in Requests /\ s \in Sources
    BY <1>0, <1>4 DEF FetchReturns, IndInv, GoodCall
  <2>2. PICK answer \in Answers[s][r] : call' = [call EXCEPT ![c] = Consider(k, answer)]
    BY <1>4 DEF FetchReturns, IndInv
  <2>3. UNCHANGED <<builder, assets, window>>
    BY <1>4 DEF FetchReturns
  <2>4. Consider(k, answer).request = r
    BY <2>1, ConsiderOnItsWay DEF OnItsWay
  <2>5. ASSUME assets = CanonicalAssets, NEW i \in Nat, NEW header \in Headers,
               Provides(r, builder.sources, i, header), Covered(header, window[c])
        PROVE  OnCourse(Consider(k, answer), i, header)
    <3>1. OnCourse(k, i, header)
      BY <2>1, <2>5 DEF AllHeard, Heard
    <3>2. r.by # "proof" /\ k.next <= i
      BY <2>1, <3>1 DEF OnCourse
    <3>3. i \in 1 .. Len(builder.sources) /\ Serves(builder.sources[i], r, header)
      BY <2>5, <3>2 DEF Provides
    <3>4. CASE k.next = i
      <4>1. /\ answer = [tag |-> "Bytes", bytes |-> WithCanonicalProof(header)]
            /\ Canonical(header) /\ Matches(r, header)
        BY <3>3, <3>4 DEF Serves
      <4>2. WithCanonicalProof(header).header = header
        BY DEF WithCanonicalProof
      <4>3. Consider(k, answer) = Judge(k, WithCanonicalProof(header))
        BY <4>1, <4>2, CanonicalDecodes DEF Consider
      <4> QED
        BY <2>1, <2>5, <3>4, <4>1, <4>3, CanonicalJudged
    <3>5. CASE k.next # i
      <4>1. k.next < i
        BY <2>1, <3>2, <3>5
      <4> QED
        BY <1>0, <2>1, <2>5, <3>2, <3>3, <4>1, OthersAreHeardOut
    <3> QED
      BY <3>4, <3>5
  <2>6. assets = CanonicalAssets => Heard(Consider(k, answer), builder.sources, window'[c])
    BY <2>3, <2>4, <2>5 DEF Heard
  <2> QED
    BY <2>2, <2>3, <2>6, OneCallHeard
<1>5. ASSUME NEW c \in Callers, ReadSummaries(c) PROVE AllHeard'
  <2> DEFINE k == call[c]
  <2>1. /\ call' = [call EXCEPT ![c] = SummaryVerdict(k, summaries)]
        /\ UNCHANGED <<builder, assets, window>>
    BY <1>5 DEF ReadSummaries, IndInv
  <2>2. /\ k.pc = "summary" /\ k.next \in Nat
        /\ Pending(k.request, k.held) /\ summaries \in window[c]
    BY <1>5 DEF ReadSummaries, IndInv, GoodCall, InFlight
  <2>3. SummaryVerdict(k, summaries).request = k.request
    BY SummaryVerdictOnItsWay DEF OnItsWay
  <2>4. ASSUME assets = CanonicalAssets, NEW i \in Nat, NEW header \in Headers,
               Provides(k.request, builder.sources, i, header), Covered(header, window[c])
        PROVE  OnCourse(SummaryVerdict(k, summaries), i, header)
    <3>1. OnCourse(k, i, header)
      BY <2>2, <2>4 DEF AllHeard, Heard
    <3> HIDE DEF k
    <3> QED
      BY <1>0, <2>2, <2>4, <3>1, SummaryOnCourse
  <2>5. assets = CanonicalAssets =>
          Heard(SummaryVerdict(k, summaries), builder.sources, window'[c])
    BY <2>1, <2>3, <2>4 DEF Heard
  <2> QED
    BY <2>1, <2>5, OneCallHeard
<1>6. ASSUME NEW c \in Callers, Collect(c) PROVE AllHeard'
  <2>1. /\ call' = [call EXCEPT ![c] = IdleCall]
        /\ window' = [window EXCEPT ![c] = {}]
        /\ UNCHANGED <<builder, assets>>
    BY <1>6 DEF Collect
  <2>2. Heard(IdleCall, builder.sources, window'[c])
    BY DEF Heard, IdleCall, Call
  <2>3. \A d \in Callers \ {c} : window'[d] = window[d]
    BY <2>1 DEF IndInv
  <2> QED
    BY <2>1, <2>2, <2>3, OneCallHeard
<1>7. ASSUME NEW b, Configure(b) PROVE AllHeard'
  BY <1>1, <1>7 DEF Configure, IndInv
<1>8. CASE Build
  BY <1>1, <1>8 DEF Build
<1>9. ASSUME NEW snapshot \in Snapshots, SetHistoricalSummaries(snapshot) PROVE AllHeard'
  BY <1>1, <1>9 DEF SetHistoricalSummaries
<1>10. CASE UNCHANGED vars
  BY <1>1, <1>10 DEF vars
<1> QED
  BY <1>2, <1>3, <1>4, <1>5, <1>6, <1>7, <1>8, <1>9, <1>10
     DEF Next, VerifyBlockByNumber, VerifyBlockByHash, DataSource, HistoricalSummaries,
         SkipFingerprintCheck

(* "Tried in order until one returns bytes that pass": a source that serves
   the canonical block, or the caller who passes it to verify, gets Ok for it
   under the canonical assets, as long as each snapshot in force during the
   call has its summary and no source answers with a slot on which the
   validator panics. *)
THEOREM HonestSourceIsEnough ==
  ASSUME SlotsInRange
  PROVE  Spec => []HonestSourceSuffices
<1>1. Init => AllHeard
  BY DEF Init, AllHeard, Heard, IdleCall, Call
<1>2. AllHeard => HonestSourceSuffices
  <2> SUFFICES ASSUME AllHeard, NEW c \in Callers, call[c].pc = "done", assets = CanonicalAssets,
                      NEW header \in Headers, Covered(header, window[c]), NEW i \in Nat,
                      Provides(call[c].request, builder.sources, i, header)
               PROVE  Succeeded(c)
    BY DEF HonestSourceSuffices, Provides
  <2>1. OnCourse(call[c], i, header)
    BY DEF AllHeard, Heard
  <2> QED
    BY <2>1 DEF OnCourse, Succeeded
<1>3. AllHeard /\ IndInv /\ [Next]_vars => AllHeard'
  BY NextHeard
<1> QED
  BY <1>1, <1>2, <1>3, Invariance, PTL DEF Spec

-----------------------------------------------------------------------------
(* Verifier implements Authentication: with sources, proofs and snapshots
   hidden, each caller sees its request answered once and legitimately.  Every
   step of a call maps to Begin, to Settle, to Collect, or to a stutter while
   the loop over the sources goes on. *)

(* The abstract definitions, read through the refinement mapping. *)
LEMMA SameChain ==
  ASSUME NEW path \in AuthPaths, NEW header
  PROVE  Promise!CanonicalIn(path, header) <=> CanonicalIn(path, header)
BY DEF Promise!CanonicalIn, CanonicalIn, Promise!ProposedAt, ProposedAt, Promise!Slots, Slots,
       Promise!BellatrixGindex, BellatrixGindex, Promise!DenebGindex, DenebGindex

(* Both levels mean the same by the block that was asked for. *)
LEMMA SameRequest ==
  ASSUME NEW request, NEW header
  PROVE  Promise!Matches(request, header) <=> Matches(request, header)
BY DEF Promise!Matches, Matches

(* A concrete idle call is an abstract idle call. *)
LEMMA AbstractIdle == AbstractStatus(IdleCall) = Promise!Idle
BY DEF AbstractStatus, HideError, IdleCall, Call, Nothing, Promise!Idle, Promise!Nothing

-----------------------------------------------------------------------------
(* When everything the sources and the callers supply can be relied on, a good
   call that is done has a legitimate abstract outcome. *)

(* An abstractly guarded Verifier rests on trusted data only. *)
LEMMA GuardedIsTrusted ==
  ASSUME IndInv, AbstractMode = "guarded", NEW snapshots \in SUBSET AnySnapshot
  PROVE  Guarded /\ \A snapshot \in snapshots : Finalized(snapshot)
<1>1. Finalized(NoSummaries)
  BY MainnetNumbers, EraType DEF Finalized, NoSummaries, SummariesUpTo
<1>2. phase = "built" /\ ~builder.skip /\ \A snapshot \in Snapshots : Finalized(snapshot)
  <2>1. CASE phase = "building"
    BY <2>1 DEF AbstractMode
  <2>2. CASE phase = "aborted"
    BY <2>2 DEF AbstractMode
  <2>3. CASE phase = "built"
    BY <2>3 DEF AbstractMode
  <2> QED
    BY <2>1, <2>2, <2>3 DEF IndInv
<1> QED
  BY <1>1, <1>2 DEF Guarded, AnySnapshot

(* A good call that is done has a legitimate abstract outcome. *)
LEMMA OutcomeIsLegitimate ==
  ASSUME NEW k, NEW n, NEW trusted, GoodCall(k, n, trusted), k.pc = "done",
         AbstractMode = "guarded" => trusted
  PROVE  /\ HideError(k.result) \in Promise!Outcomes
         /\ Promise!Legitimate(k.request, HideError(k.result))
<1> DEFINE result == k.result
           h == result.header
           p == result.path
<1>1. IsOutcome(result) /\ Justified(k.request, result, trusted)
  BY DEF GoodCall
<1>2. CASE result.tag = "Err"
  BY <1>2 DEF HideError, Promise!Outcomes, Promise!Legitimate
<1>3. CASE result = Panic
  BY <1>3 DEF Panic, HideError, Promise!Outcomes, Promise!Legitimate
<1>4. CASE result = [tag |-> "Ok", header |-> result.header, path |-> result.path]
  <2>1. result.tag = "Ok" /\ HideError(result) = Promise!Ok(h, p)
    <3> HIDE DEF h, p
    <3>1. result = [tag |-> "Ok", header |-> h, path |-> p]
      BY <1>4 DEF h, p
    <3> QED
      BY <3>1 DEF HideError, Promise!Ok
  <2>2. h \in Headers /\ p \in AuthPaths /\ Matches(k.request, h)
    BY <1>1, <2>1 DEF Justified
  <2>3. AbstractMode = "guarded" => CanonicalIn(p, h)
    BY <1>1, <2>1 DEF Justified
  <2>4. HideError(result) \in Promise!Outcomes
    BY <2>1, <2>2 DEF Promise!Outcomes, Promise!AuthPaths, AuthPaths
  <2>5. Promise!Legitimate(k.request, Promise!Ok(h, p))
    BY <2>2, <2>3, SameChain, SameRequest DEF Promise!Legitimate, Promise!Ok
  <2> QED
    BY <2>1, <2>4, <2>5
<1> QED
  BY <1>1, <1>2, <1>3, <1>4 DEF IsOutcome

-----------------------------------------------------------------------------
(* The steps. *)

AbsStatus == [c \in Callers |-> AbstractStatus(call[c])]

(* An unbuilt Verifier is a closed promise. *)
LEMMA InitRefines == Init => Promise!AuthInit
BY AbstractIdle DEF Init, Promise!AuthInit, AbstractMode

(* A step that begins or continues a call begins it, settles it or stutters. *)
LEMMA OneCallRefines ==
  ASSUME IndInv, IndInv', phase = "built", UNCHANGED <<phase, builder>>,
         NEW c \in Callers, NEW r \in Requests, NEW k, OnItsWay(k, r),
         call' = [call EXCEPT ![c] = k],
         call[c].pc = "idle" \/ (InFlight(c) /\ call[c].request = r)
  PROVE  [Promise!AuthNext]_(Promise!authVars)
<1> DEFINE running == [stage |-> "running", request |-> r, outcome |-> Promise!Nothing]
<1>1. AbstractMode' = AbstractMode /\ AbstractMode \in {"guarded", "unguarded"}
  BY DEF AbstractMode
<1>2. call'[c] = k /\ AbsStatus' = [AbsStatus EXCEPT ![c] = AbstractStatus(k)]
  BY DEF IndInv, AbsStatus
<1>3. InFlight(c) => AbsStatus[c] = running
  BY DEF InFlight, AbsStatus, AbstractStatus, HideError, IndInv, GoodCall, Nothing, Promise!Nothing
<1>4. call[c].pc = "idle" => AbsStatus[c] = Promise!Idle
  BY AbstractIdle DEF AbsStatus, IndInv, GoodCall
<1>5. CASE k.pc \in {"fetch", "summary"}
  <2>1. k.result = Nothing
    BY <1>2, <1>5 DEF IndInv, GoodCall
  <2>2. AbstractStatus(k) = running
    BY <1>5, <2>1 DEF OnItsWay, AbstractStatus, HideError, Nothing, Promise!Nothing
  <2>3. CASE call[c].pc = "idle"
    <3>1. Promise!Begin(c, r)
      BY <1>1, <1>2, <1>4, <2>2, <2>3 DEF Promise!Begin, AbsStatus
    <3> QED
      BY <3>1 DEF Promise!AuthNext
  <2>4. CASE InFlight(c)
    <3>1. AbsStatus' = AbsStatus
      BY <1>2, <1>3, <2>2, <2>4 DEF AbsStatus
    <3> QED
      BY <1>1, <3>1 DEF Promise!authVars, AbsStatus
  <2> QED
    BY <2>3, <2>4
<1>6. CASE k.pc = "done"
  <2> DEFINE o == HideError(k.result)
  <2>1. o \in Promise!Outcomes /\ Promise!Legitimate(r, o)
    <3>1. GoodCall(k, Len(builder'.sources), Trusted(c)')
      BY <1>2 DEF IndInv
    <3>2. AbstractMode = "guarded" => Trusted(c)'
      <4>1. window'[c] \in SUBSET AnySnapshot
        BY DEF IndInv
      <4> QED
        BY <4>1, GuardedIsTrusted DEF Trusted, Guarded
    <3> QED
      BY <1>6, <3>1, <3>2, OutcomeIsLegitimate DEF OnItsWay
  <2>2. AbstractStatus(k) = [stage |-> "done", request |-> r, outcome |-> o]
    BY <1>6 DEF OnItsWay, AbstractStatus
  <2>3. Promise!Settle(c, r, o)
    BY <1>1, <1>2, <1>3, <1>4, <2>1, <2>2 DEF Promise!Settle, AbsStatus
  <2> QED
    BY <2>1, <2>3 DEF Promise!AuthNext
<1> QED
  BY <1>5, <1>6 DEF OnItsWay

(* Every step is a step of the promise or a stutter: one case per action. *)
LEMMA StepRefines ==
  ASSUME IndInv, IndInv', [Next]_vars
  PROVE  [Promise!AuthNext]_(Promise!authVars)
<1>1. ASSUME NEW b, Configure(b) PROVE [Promise!AuthNext]_(Promise!authVars)
  <2>1. AbstractMode' = AbstractMode /\ AbsStatus' = AbsStatus
    BY <1>1 DEF Configure, AbstractMode, AbsStatus
  <2> QED
    BY <2>1 DEF Promise!authVars, AbsStatus
<1>2. ASSUME Build PROVE [Promise!AuthNext]_(Promise!authVars)
  <2>1. AbstractMode = "closed" /\ AbsStatus' = AbsStatus
    BY <1>2 DEF Build, AbstractMode, AbsStatus
  <2>2. AbstractMode' \in {"guarded", "unguarded", "aborted"}
    BY <1>2 DEF Build, AbstractMode
  <2>3. Promise!Open(AbstractMode')
    BY <2>1 DEF Promise!Open, AbsStatus
  <2> QED
    BY <2>2, <2>3 DEF Promise!AuthNext
<1>3. ASSUME NEW c \in Callers, NEW r \in Requests, NEW k, Start(c, r, k), OnItsWay(k, r)
      PROVE  [Promise!AuthNext]_(Promise!authVars)
  BY <1>3, OneCallRefines DEF Start
<1>4. ASSUME NEW c \in Callers, NEW r \in Requests, Verify(c, r)
      PROVE  [Promise!AuthNext]_(Promise!authVars)
  <2> DEFINE hwp == [header |-> r.header, proof |-> r.proof]
  <2>1. HasProof(hwp) /\ NewCall(r).request = r
    BY <1>4, InputTypes DEF Verify, HasProof, NewCall, Call
  <2>2. OnItsWay(Judge(NewCall(r), hwp), r)
    BY <2>1, JudgeOnItsWay
  <2> QED
    BY <1>3, <1>4, <2>2 DEF Verify
<1>5. ASSUME NEW c \in Callers, NEW r \in Requests, TrySources(c, r)
      PROVE  [Promise!AuthNext]_(Promise!authVars)
  <2> DEFINE k == IF builder.sources = <<>> THEN Return(NewCall(r), Err("NoDataSource"))
                                            ELSE NewCall(r)
  <2>1. OnItsWay(k, r)
    BY DEF OnItsWay, Return, NewCall, Call
  <2> QED
    BY <1>3, <1>5, <2>1 DEF TrySources
<1>6. ASSUME NEW c \in Callers, FetchReturns(c) PROVE [Promise!AuthNext]_(Promise!authVars)
  <2> DEFINE s == builder.sources[call[c].next]
             r == call[c].request
  <2>1. /\ r \in Requests /\ s \in Sources /\ phase = "built" /\ InFlight(c)
        /\ UNCHANGED <<phase, builder>>
    BY <1>6, SourceCount DEF FetchReturns, IndInv, GoodCall, InFlight
  <2>2. PICK answer \in Answers[s][r] : call' = [call EXCEPT ![c] = Consider(call[c], answer)]
    BY <1>6 DEF FetchReturns, IndInv
  <2>3. OnItsWay(Consider(call[c], answer), r)
    BY <2>1, ConsiderOnItsWay
  <2> QED
    BY <2>1, <2>2, <2>3, OneCallRefines
<1>7. ASSUME NEW c \in Callers, ReadSummaries(c) PROVE [Promise!AuthNext]_(Promise!authVars)
  <2>1. /\ call' = [call EXCEPT ![c] = SummaryVerdict(call[c], summaries)]
        /\ phase = "built" /\ InFlight(c) /\ call[c].request \in Requests
        /\ UNCHANGED <<phase, builder>>
    BY <1>7 DEF ReadSummaries, IndInv, GoodCall, InFlight
  <2>2. OnItsWay(SummaryVerdict(call[c], summaries), call[c].request)
    BY SummaryVerdictOnItsWay
  <2> QED
    BY <2>1, <2>2, OneCallRefines
<1>8. ASSUME NEW c \in Callers, Collect(c) PROVE [Promise!AuthNext]_(Promise!authVars)
  <2>1. AbstractMode' = AbstractMode
    BY <1>8 DEF Collect, AbstractMode
  <2>2. AbsStatus[c].stage = "done"
    BY <1>8 DEF Collect, AbsStatus, AbstractStatus
  <2>3. AbsStatus' = [AbsStatus EXCEPT ![c] = Promise!Idle]
    BY <1>8, AbstractIdle DEF Collect, AbsStatus, IndInv
  <2>4. Promise!Collect(c)
    BY <2>1, <2>2, <2>3 DEF Promise!Collect, AbsStatus
  <2> QED
    BY <2>4 DEF Promise!AuthNext
<1>9. ASSUME NEW snapshot \in Snapshots, SetHistoricalSummaries(snapshot)
      PROVE  [Promise!AuthNext]_(Promise!authVars)
  <2>1. AbstractMode' = AbstractMode /\ AbsStatus' = AbsStatus
    BY <1>9 DEF SetHistoricalSummaries, AbstractMode, AbsStatus
  <2> QED
    BY <2>1 DEF Promise!authVars, AbsStatus
<1>10. CASE UNCHANGED vars
  <2>1. AbstractMode' = AbstractMode /\ AbsStatus' = AbsStatus
    BY <1>10 DEF vars, AbstractMode, AbsStatus
  <2> QED
    BY <2>1 DEF Promise!authVars, AbsStatus
<1> QED
  BY <1>1, <1>2, <1>4, <1>5, <1>6, <1>7, <1>8, <1>9, <1>10
     DEF Next, DataSource, HistoricalSummaries, SkipFingerprintCheck,
         VerifyBlockByNumber, VerifyBlockByHash

(* Whatever its sources answer and however the snapshot is replaced, Verifier
   keeps the promise of Authentication to each of its callers. *)
THEOREM VerifierKeepsPromise == Spec => ImplementsAuthentication
<1>1. Init => Promise!AuthInit
  BY InitRefines
<1>2. IndInv /\ IndInv' /\ [Next]_vars => [Promise!AuthNext]_(Promise!authVars)
  BY StepRefines
<1> QED
  BY <1>1, <1>2, Invariance, PTL DEF Spec, ImplementsAuthentication, Promise!AuthSpec

=============================================================================
