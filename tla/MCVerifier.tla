----------------------------- MODULE MCVerifier -----------------------------
(***************************************************************************)
(* Small sets of sources, requests and answers on which TLC checks         *)
(* Verifier, over the chain of MCChain.                                    *)
(***************************************************************************)
EXTENDS VerifierProperties, PortalSources, MCChain, TLC

CONSTANT AskedNumbers  \* blocks requested by number, by hash or by proof

-----------------------------------------------------------------------------
(* Forgeries: a header that differs in its body, and one that also claims the
   timestamp of another era; the blocks that propose them; a false epoch. *)
Forged(n)   == [CanonicalHeader(n) EXCEPT !.content = "forged"]
Moved(n, t) == Header(n, t, "forged")
ForgedBlock(header, gindex) == BeaconBlock(9, header, gindex)

ForgedHeaders == {Forged(n) : n \in AskedNumbers} \cup {Moved(4, TimeOf(3)), Moved(1, TimeOf(6))}

MCHeaders == {CanonicalHeader(n) : n \in 0 .. 7} \cup ForgedHeaders

(* The batch of slot 2's era, with that block in it. *)
ForgedBatch == [EraBatch(1) EXCEPT !.block_roots = {<<0, ForgedBlock(Forged(3), BellatrixGindex)>>}]

(* An altered merge_macc.bin vouches for a forged block 1, and an altered
   historical_roots.ssz for a forged block at slot 2. *)
MCAlteredAssets ==
  {[CanonicalAssets EXCEPT !.epochs[0] = EpochRoot({<<0, MCPowHeader[0]>>, <<1, Forged(1)>>})],
   [CanonicalAssets EXCEPT !.roots[1] = BatchRoot(ForgedBatch)]}

(* The proof a liar can build for its header: every check on the header and
   the execution proof passes, the rest is taken from the canonical chain. *)
LiarsProof(header, slot) ==
  LET block(g) == ForgedBlock(header, g)
      roots    == EraRoots(Era(slot))
  IN  CASE ProofVariant(header) = "HistoricalHashes" ->
             PreMergeProof(header, EpochRecords(Era(header.number)))
        [] ProofVariant(header) = "HistoricalRoots" ->
             HistoricalRootsProof(slot, EraBatch(Era(slot)), block(BellatrixGindex))
        [] ProofVariant(header) = "HistoricalSummariesCapella" ->
             CapellaProof(slot, roots, block(BellatrixGindex))
        [] ProofVariant(header) = "HistoricalSummariesDeneb" ->
             DenebProof(slot, roots, block(DenebGindex))

Bytes(header, proof) == [tag |-> "Bytes", bytes |-> [header |-> header, proof |-> proof]]
Refusal(error)       == [tag |-> "Err", error |-> error]

Truncated(n) == Bytes(CanonicalHeader(n), [variant |-> "Unreadable"])

Honest(n) == Bytes(CanonicalHeader(n), CanonicalProof(CanonicalHeader(n)))

Slotted(answer, slot) ==
  IF answer.bytes.proof.variant = "HistoricalHashes" THEN answer
  ELSE [answer EXCEPT !.bytes.proof.slot = slot]

RogueAnswers(n) ==
  {Refusal("DataSource"), Truncated(n), Honest(n), Honest((n + 1) % 8)}
    \cup {Slotted(Honest(n), s) : s \in {0, 3, 5}}
    \cup {Bytes(h, CanonicalProof(CanonicalHeader(n))) :
            h \in {g \in ForgedHeaders : g.number = n}}
    \cup {Bytes(h, LiarsProof(h, s)) : h \in {g \in ForgedHeaders : g.number = n},
                                       s \in {2, 4, 6}}
    \cup (IF n = 1 THEN {Bytes(Forged(1), PreMergeProof(Forged(1), {<<0, MCPowHeader[0]>>, <<1, Forged(1)>>}))}
                   ELSE {})
    \cup (IF n = 3 THEN {Bytes(Forged(3), HistoricalRootsProof(2, ForgedBatch,
                            ForgedBlock(Forged(3), BellatrixGindex)))}
                   ELSE {})
    \cup (IF n = 5 THEN {Bytes(Forged(5), DenebProof(6, {<<0, ForgedBlock(Forged(5), DenebGindex)>>},
                                                      ForgedBlock(Forged(5), DenebGindex))),
                         Bytes(PosHeader(5), HistoricalRootsProof(2, EraBatch(1), PosBlock(3)))}
                   ELSE {})

-----------------------------------------------------------------------------
ByNumber(n)      == [by |-> "number", number |-> n]
ByHash(h)        == [by |-> "hash", header |-> h]
ByProof(h, p)    == [by |-> "proof", header |-> h, proof |-> p]

MCRequests ==
  {ByNumber(n) : n \in AskedNumbers}
    \cup {ByHash(CanonicalHeader(n)) : n \in AskedNumbers \cap {4, 5}}
    \cup {ByProof(CanonicalHeader(n), CanonicalProof(CanonicalHeader(n))) : n \in AskedNumbers}
    \cup {ByProof(CanonicalHeader(4), CanonicalProof(CanonicalHeader(n))) : n \in AskedNumbers \ {5}}

NumberOf(r) == IF r.by = "number" THEN r.number ELSE r.header.number

(* A Portal client that means well but fails: it may not answer, have nothing
   or half of the content, another block's, or the block with a proof from
   another slot, of which slot 3 is from before Capella. *)
PortalReplies(n) ==
  {Reply(FALSE, FALSE, {}), Reply(TRUE, FALSE, {}), Reply(TRUE, FALSE, {Hex(FALSE, Nothing)})}
    \cup {Reply(TRUE, FALSE, {Hex(TRUE, answer.bytes)}) :
            answer \in {Truncated(n), Honest(n), Honest(n + 1), Slotted(Honest(n), 3), Slotted(Honest(n), 5)}}

PortalClient ==
  [key \in {BlockHeaderByNumber(n) : n \in AskedNumbers}
             \cup {BlockHeaderByHash(CanonicalHeader(n)) : n \in AskedNumbers} |->
     PortalReplies(IF key.selector = 3 THEN key.number ELSE key.hash.number)]

PortalAnswers(r) ==
  CASE r.by = "number" -> PortalByNumber(PortalClient, r.number)
    [] r.by = "hash"   -> PortalByHash(PortalClient, r.header)
    [] r.by = "proof"  -> {}

(* A source that serves the canonical chain, a Portal sidecar, Era1 files, and
   a source that answers anything. *)
MCAnswers ==
  [s \in Sources |->
    [r \in Requests |->
       CASE s = "honest" -> {Honest(NumberOf(r))}
         [] s = "portal" -> PortalAnswers(r)
         [] s = "era1"   -> Era1Answers
         [] s = "rogue"  -> RogueAnswers(NumberOf(r))]]

(* A snapshot that was not taken from a finalized state. *)
FalseSnapshot ==
  [SummariesUpTo(2) EXCEPT ![1] = SummaryRoot({<<0, ForgedBlock(Forged(5), DenebGindex)>>})]

MCSnapshots == {SummariesUpTo(1), SummariesUpTo(2), FalseSnapshot}
NoneAndTwo  == {SummariesUpTo(n) : n \in {0, 2}}
NoAlteredAssets == {}
CallersAreAlike == Permutations(Callers)

=============================================================================
