------------------------- MODULE VerifierProperties -------------------------
(***************************************************************************)
(* What is asked of Verifier: its type invariant, its safety and liveness  *)
(* properties, and that it implements Authentication.                      *)
(***************************************************************************)
EXTENDS Verifier, FiniteSets

(* A Verifier is guarded when `build` did not skip the fingerprint check. *)
Guarded == phase = "built" /\ ~builder.skip

(* Everything that a verdict of c rests on is what the protocol committed to. *)
Trusted(c) == Guarded /\ \A snapshot \in window[c] : Finalized(snapshot)

Succeeded(c) == call[c].result.tag = "Ok"

(* The history variable and every field of the state have the shape that the
   code's types give them: a call waits for a source that exists, and holds a
   decoded header only while it waits for the snapshot (Verifier, call). *)
TypeOK ==
  /\ phase \in {"building", "built", "aborted"}
  /\ builder \in [sources : Seq(Sources), summaries : Snapshots \cup {NoSummaries}, skip : BOOLEAN]
  /\ assets \in {CanonicalAssets} \cup AlteredAssets
  /\ summaries \in Snapshots \cup {NoSummaries}
  /\ window \in [Callers -> SUBSET (Snapshots \cup {NoSummaries})]
  /\ DOMAIN call = Callers
  /\ \A c \in Callers :
       /\ call[c].pc \in {"idle", "fetch", "summary", "done"}
       /\ call[c].pc # "idle" => phase = "built" /\ call[c].request \in Requests
       /\ call[c].pc = "fetch" => call[c].next \in 1 .. Len(builder.sources)
       /\ call[c].pc = "summary" => call[c].held.header \in Headers
       /\ call[c].result.tag \in {"Nothing", "Ok", "Err", "Panic"}
       /\ Succeeded(c) => call[c].result.header \in Headers

(* verify_block_by_number, verify_block_by_hash and verify return Ok only for
   the block they were asked about, and only if the canonical chain commits to
   it, whatever mixture of answers the sources gave on the way, and even if a
   false snapshot was in force before the call began. *)
OnlyCanonicalBlocks ==
  \A c \in Callers : Succeeded(c) =>
    /\ Matches(call[c].request, call[c].result.header)
    /\ Trusted(c) => Canonical(call[c].result.header)

(* The auth_path of a VerifiedBlock is a trust label that users see: it names
   the commitment that authenticated this header, so that a block of a
   canonized constant is never shown as one that a live summary vouches for,
   nor the reverse (auth_path_for, from the variant that decoding chose). *)
AuthPathIsTheEra ==
  \A c \in Callers : Succeeded(c) /\ Trusted(c) =>
    CanonicalIn(call[c].result.path, call[c].result.header)

SummaryCommits(snapshot, header) ==
  \E i \in DOMAIN snapshot : \E leaf \in snapshot[i].leaves :
    \E gindex \in {BellatrixGindex, DenebGindex} : <<gindex, header>> \in leaf[2].leaves

(* A post-Capella Ok is justified by a snapshot that was in force at some
   moment of that very call: never by one replaced before the call began, and
   never by one installed after it ended (the RwLock read inside verify races
   set_historical_summaries). *)
SnapshotJustifiesVerdict ==
  \A c \in Callers :
    (Succeeded(c) /\ call[c].result.path \in {"HistoricalSummariesCapella", "HistoricalSummariesDeneb"})
      => \E snapshot \in window[c] : SummaryCommits(snapshot, call[c].result.header)

(* The snapshot holds the chain's summary of the era in which the header was
   proposed, whatever it holds for the other eras. *)
HasSummaryOf(snapshot, header) ==
  LET slot == SlotForExecutionTimestamp(header.timestamp)
      i    == HistoricalSummaryIndex(slot)
  IN  i \in DOMAIN snapshot /\ snapshot[i] = SummaryRoot(EraRoots(Era(slot)))

(* No summary is needed for the header, or each of the snapshots has it. *)
Covered(header, snapshots) ==
  \/ CanonicalIn("HistoricalHashes", header)
  \/ CanonicalIn("HistoricalRoots", header)
  \/ \A snapshot \in snapshots : HasSummaryOf(snapshot, header)

WithCanonicalProof(header) == [header |-> header, proof |-> CanonicalProof(header)]

(* Source s serves the canonical block that r asks for, properly proved. *)
Serves(s, r, header) ==
  /\ r.by # "proof"
  /\ Canonical(header)
  /\ Matches(r, header)
  /\ Answers[s][r] = {[tag |-> "Bytes", bytes |-> WithCanonicalProof(header)]}

(* Sources are "tried in order until one returns bytes that pass": if any
   registered source serves the canonical block (or the caller passes it to
   verify), and the snapshot covers it throughout the call, then the call ends
   with Ok, whatever the sources before it answered and whatever races it. *)
HonestSourceSuffices ==
  \A c \in Callers :
    /\ call[c].pc = "done"
    /\ assets = CanonicalAssets
    /\ \E header \in Headers :
         /\ Covered(header, window[c])
         /\ \/ \E i \in 1 .. Len(builder.sources) :
                 Serves(builder.sources[i], call[c].request, header)
            \/ /\ call[c].request.by = "proof"
               /\ Canonical(header)
               /\ call[c].request.header = header
               /\ call[c].request.proof = CanonicalProof(header)
    => Succeeded(c)

(* "Tried in order until one returns bytes that pass" (Verifier, its loops over
   the sources): a call that has begun ends, whatever its sources answer and
   however often the snapshot is replaced under it, unless one source without a
   timeout never answers.  Then the call stays with that source for ever, and
   no later one is tried. *)
OnlyASilentSourceHoldsACall ==
  \A c \in Callers :
    InFlight(c) ~> (call[c].pc = "done" \/ \E s \in Sources \ Timely : []Awaits(c, s))

-----------------------------------------------------------------------------
(* The refinement: sources, proofs and snapshots are hidden. *)

HideError(result) == IF result.tag = "Err" THEN [tag |-> "Err"] ELSE result

AbstractStatus(k) ==
  [stage   |-> IF k.pc \in {"fetch", "summary"} THEN "running" ELSE k.pc,
   request |-> k.request,
   outcome |-> HideError(k.result)]

AbstractMode ==
  CASE phase = "building" -> "closed"
    [] phase = "aborted"  -> "aborted"
    [] phase = "built"    -> IF builder.skip \/ ~(\A snapshot \in Snapshots : Finalized(snapshot))
                             THEN "unguarded" ELSE "guarded"

Promise == INSTANCE Authentication
  WITH mode   <- AbstractMode,
       status <- [c \in Callers |-> AbstractStatus(call[c])]

(* Verifier implements Authentication: step by step, a caller sees nothing but
   its request answered once, legitimately (api.rs, the whole of it). *)
ImplementsAuthentication == Promise!AuthSpec

=============================================================================
