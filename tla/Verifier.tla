------------------------------ MODULE Verifier ------------------------------
(***************************************************************************)
(* src/api.rs: VerifierBuilder, the Verifier shared by its clones, and the *)
(* async calls verify, verify_block_by_number, verify_block_by_hash and    *)
(* set_historical_summaries.                                               *)
(*                                                                         *)
(* A call suspends in two places only: while a source's fetch is awaited   *)
(* and while it waits for the read lock on the snapshot.  Everything       *)
(* between two awaits is one step.  Both critical sections of the RwLock   *)
(* are free of awaits, so taking the lock, using it and dropping it is one *)
(* step too.  last_err is overwritten at each refusal and read only after  *)
(* the last one, so it needs no variable: the error returned is the last   *)
(* source's.                                                               *)
(***************************************************************************)
EXTENDS ProofConstruction, Sequences

CONSTANTS
  Callers,        \* tasks that hold a clone of the Verifier
  Sources,        \* implementations of DataSource
  Timely,         \* those whose fetch ends: it awaits nothing, or a client
                  \* with a timeout
  MaxSources,     \* bound on the number of sources registered
  Requests,       \* what the callers ask for
  Answers,        \* Answers[s][r]: what source s may return for request r
  Snapshots,      \* HistoricalSummaries that callers supply
  AlteredAssets,  \* embedded assets other than the canonical ones
  Headers         \* every header that may reach the Verifier

(* Rust's types: a HeaderWithProof has one of four proofs, and every proof but
   the pre-merge one has a slot.  Bytes may also be of another length. *)
HasProof(hwp) ==
  /\ hwp.header \in Headers
  /\ hwp.proof.variant \in AuthPaths
  /\ hwp.proof.variant # "HistoricalHashes" => hwp.proof.slot \in Nat

ASSUME InputTypes ==
  /\ \A h \in Headers : h.number \in Nat /\ h.timestamp \in Nat
  /\ \A r \in Requests : /\ r.by \in {"number", "hash", "proof"}
                         /\ r.by = "proof" => HasProof(r)
  /\ Timely \subseteq Sources
  /\ \A s \in Sources, r \in Requests : \A answer \in Answers[s][r] :
       /\ answer.tag \in {"Err", "Bytes"}
       /\ answer.tag = "Bytes" => \/ HasProof(answer.bytes)
                                 \/ /\ answer.bytes.header \in Headers
                                    /\ answer.bytes.proof.variant = "Unreadable"
  /\ \A altered \in AlteredAssets : altered = [epochs |-> altered.epochs, roots |-> altered.roots]
  /\ \A snapshot \in Snapshots : \A i \in DOMAIN snapshot : i \in Nat

VARIABLES
  phase,      \* "building", "built", or "aborted" by the fingerprint check
  builder,    \* the VerifierBuilder, whose sources the Verifier keeps
  assets,     \* the accumulators embedded in this binary
  summaries,  \* the snapshot behind the RwLock
  call,       \* the state of each caller's call
  window      \* history: the snapshots in force at some time in that call

vars == <<phase, builder, assets, summaries, call, window>>

Nothing     == [tag |-> "Nothing"]
Err(error)  == [tag |-> "Err", error |-> error]
Panic       == [tag |-> "Panic"]

(* The mutated form labels both kinds of summary alike. *)
Ok_OneSummaryLabel(hwp) ==
  [tag    |-> "Ok",
   header |-> hwp.header,
   path   |-> IF hwp.proof.variant = "HistoricalSummariesDeneb"
              THEN "HistoricalSummariesCapella" ELSE hwp.proof.variant]

(* A VerifiedBlock, labelled by auth_path_for. *)
Ok(hwp) == [tag |-> "Ok", header |-> hwp.header, path |-> hwp.proof.variant]

NoSummaries == SummariesUpTo(0)

Matches(request, header) ==
  IF request.by = "number" THEN header.number = request.number
                           ELSE header = request.header

-----------------------------------------------------------------------------
(* Building. *)

NewBuilder == [sources |-> <<>>, summaries |-> NoSummaries, skip |-> FALSE]

(* A call waits for source number `next`, or at the read lock with the header
   it holds, or has its result. *)
Call(pc, request, next, held, result) ==
  [pc |-> pc, request |-> request, next |-> next, held |-> held, result |-> result]

IdleCall == Call("idle", Nothing, 0, Nothing, Nothing)

Init ==
  /\ phase = "building"
  /\ builder = NewBuilder
  /\ assets \in {CanonicalAssets} \cup AlteredAssets
  /\ summaries = NoSummaries
  /\ call = [c \in Callers |-> IdleCall]
  /\ window = [c \in Callers |-> {}]

Configure(b) ==
  /\ phase = "building"
  /\ builder' = b
  /\ UNCHANGED <<phase, assets, summaries, call, window>>

DataSource(s) ==
  /\ Len(builder.sources) < MaxSources
  /\ Configure([builder EXCEPT !.sources = Append(@, s)])

HistoricalSummaries(snapshot) == Configure([builder EXCEPT !.summaries = snapshot])

SkipFingerprintCheck == Configure([builder EXCEPT !.skip = TRUE])

(* assert_canonized_accumulator_fingerprints: the hash of each file, and the
   tree-hash root of what it decodes to. *)
FingerprintsMatch ==
  /\ assets.epochs = CanonicalAssets.epochs
  /\ assets.roots = CanonicalAssets.roots

Build ==
  /\ phase = "building"
  /\ IF builder.skip \/ FingerprintsMatch
     THEN phase' = "built" /\ summaries' = builder.summaries
     ELSE phase' = "aborted" /\ UNCHANGED summaries
  /\ UNCHANGED <<builder, assets, call, window>>

-----------------------------------------------------------------------------
(* The steps of a call, as functions of its record k. *)

Return(k, result) == Call("done", k.request, k.next, Nothing, result)

(* Mutated forms: one source too many is tried; the same one is, for ever. *)
Refuse_Overrun(k, error) ==
  IF k.request.by # "proof" /\ k.next <= Len(builder.sources)
  THEN Call("fetch", k.request, k.next + 1, Nothing, Nothing)
  ELSE Return(k, Err(error))
Refuse_Again(k, error) ==
  IF k.request.by # "proof" /\ k.next < Len(builder.sources)
  THEN Call("fetch", k.request, k.next, Nothing, Nothing)
  ELSE Return(k, Err(error))

(* A source's answer is refused: the loop continues, or ends. *)
Refuse(k, error) ==
  IF k.request.by # "proof" /\ k.next < Len(builder.sources)
  THEN Call("fetch", k.request, k.next + 1, Nothing, Nothing)
  ELSE Return(k, Err(error))

(* Verifier::verify, up to the read lock or its end. *)
Judge(k, hwp) ==
  LET verdict == ValidateHeaderWithProof(assets, hwp.header, hwp.proof)
  IN  CASE verdict = "ok"      -> Return(k, Ok(hwp))
        [] verdict = "failed"  -> Refuse(k, "VerificationFailed")
        [] verdict = "panic"   -> Return(k, Panic)
        [] verdict = "summary" -> Call("summary", k.request, k.next, hwp, Nothing)

(* Mutated forms: the source is believed about which block this is; an answer
   that does not decode ends the loop. *)
Consider_AnyBlock(k, answer) ==
  IF answer.tag = "Err" THEN Refuse(k, answer.error)
  ELSE IF ~Decodable(answer.bytes) THEN Refuse(k, "SszDecode")
  ELSE Judge(k, FromSszBytes(answer.bytes))

Consider_DecodeEnds(k, answer) ==
  IF answer.tag = "Err" THEN Refuse(k, answer.error)
  ELSE IF ~Decodable(answer.bytes) THEN Return(k, Err("SszDecode"))
  ELSE IF ~Matches(k.request, answer.bytes.header)
       THEN Refuse(k, "BlockNumberMismatch")
  ELSE Judge(k, FromSszBytes(answer.bytes))

(* One turn of the loop over the sources, from the answer on. *)
Consider(k, answer) ==
  IF answer.tag = "Err" THEN Refuse(k, answer.error)
  ELSE IF ~Decodable(answer.bytes) THEN Refuse(k, "SszDecode")
  ELSE IF ~Matches(k.request, answer.bytes.header)
       THEN Refuse(k, IF k.request.by = "number" THEN "BlockNumberMismatch"
                                                 ELSE "VerificationFailed")
  ELSE Judge(k, FromSszBytes(answer.bytes))

NewCall(r) == Call("fetch", r, 1, Nothing, Nothing)

(* A call begins: its first poll runs to the first await. *)
Start(c, r, k) ==
  /\ phase = "built"
  /\ call[c].pc = "idle"
  /\ call' = [call EXCEPT ![c] = k]
  /\ window' = [window EXCEPT ![c] = {summaries}]
  /\ UNCHANGED <<phase, builder, assets, summaries>>

Verify(c, r) ==
  /\ r.by = "proof"
  /\ Start(c, r, Judge(NewCall(r), [header |-> r.header, proof |-> r.proof]))

TrySources(c, r) ==
  Start(c, r, IF builder.sources = <<>> THEN Return(NewCall(r), Err("NoDataSource"))
                                        ELSE NewCall(r))

VerifyBlockByNumber(c, r) == r.by = "number" /\ TrySources(c, r)
VerifyBlockByHash(c, r)   == r.by = "hash" /\ TrySources(c, r)

Awaits(c, s) == call[c].pc = "fetch" /\ builder.sources[call[c].next] = s

(* The awaited fetch of source number `next` completes. *)
FetchReturns(c) ==
  /\ call[c].pc = "fetch"
  /\ \E answer \in Answers[builder.sources[call[c].next]][call[c].request] :
       call' = [call EXCEPT ![c] = Consider(@, answer)]
  /\ UNCHANGED <<phase, builder, assets, summaries, window>>

SummaryVerdict(k, snapshot) ==
  IF VerifyHistoricalSummariesBeaconBlockProof(snapshot, k.held.proof)
  THEN Return(k, Ok(k.held))
  ELSE Refuse(k, "VerificationFailed")

(* The mutated form uses the snapshot the Verifier was built with. *)
ReadSummaries_Built(c) ==
  /\ call[c].pc = "summary"
  /\ call' = [call EXCEPT ![c] = SummaryVerdict(@, builder.summaries)]
  /\ UNCHANGED <<phase, builder, assets, summaries, window>>

(* The read lock is granted and the rest of verify runs. *)
ReadSummaries(c) ==
  /\ call[c].pc = "summary"
  /\ call' = [call EXCEPT ![c] = SummaryVerdict(@, summaries)]
  /\ UNCHANGED <<phase, builder, assets, summaries, window>>

InFlight(c) == call[c].pc \in {"fetch", "summary"}

(* The write lock is granted to some holder of the Verifier. *)
SetHistoricalSummaries(snapshot) ==
  /\ phase = "built"
  /\ summaries' = snapshot
  /\ window' = [c \in Callers |-> IF InFlight(c) THEN window[c] \cup {snapshot} ELSE window[c]]
  /\ UNCHANGED <<phase, builder, assets, call>>

(* The caller takes the result, and may call again. *)
Collect(c) ==
  /\ call[c].pc = "done"
  /\ call' = [call EXCEPT ![c] = IdleCall]
  /\ window' = [window EXCEPT ![c] = {}]
  /\ UNCHANGED <<phase, builder, assets, summaries>>

Next ==
  \/ \E s \in Sources : DataSource(s)
  \/ \E snapshot \in Snapshots : HistoricalSummaries(snapshot)
  \/ SkipFingerprintCheck
  \/ Build
  \/ \E c \in Callers, r \in Requests :
       Verify(c, r) \/ VerifyBlockByNumber(c, r) \/ VerifyBlockByHash(c, r)
  \/ \E c \in Callers : FetchReturns(c) \/ ReadSummaries(c) \/ Collect(c)
  \/ \E snapshot \in Snapshots : SetHistoricalSummaries(snapshot)

(* Nothing in verify_block_by_number or _by_hash bounds the await of a source:
   it ends if the source's own client sees to it, as PortalSidecarSource's does
   after 30 s and ArchiveRpcSource's beacon client does not.  The lock is FIFO
   and never held across an await, so that a pending read is granted.  Nothing
   obliges callers to call, to collect, or to refresh the snapshot. *)
TimelyReturns(c) == (\E s \in Timely : Awaits(c, s)) /\ FetchReturns(c)

Fairness == \A c \in Callers : WF_vars(TimelyReturns(c)) /\ WF_vars(ReadSummaries(c))

Spec == Init /\ [][Next]_vars /\ Fairness

=============================================================================
