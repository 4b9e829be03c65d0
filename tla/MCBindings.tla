----------------------------- MODULE MCBindings -----------------------------
(***************************************************************************)
(* Processes in each language over the chain of MCChain: two threads, of   *)
(* which one also asks about the contents of blocks 1 and 3.  The second   *)
(* index has a key of two bytes.                                           *)
(***************************************************************************)
EXTENDS Bindings, MCChain, TLC

MCTrieKeys == (0 :> <<128>>) @@ (128 :> <<129, 128>>)

Body     == <<"status", "gas", "bloom", "logs">>
Transfer == Wire(2, <<"fields">>, 0)
Legacy   == Wire(ListHeader, Body, 0)
Internal == Wire(106, Body, 0)
Deposit  == Wire(OpDepositTxType, Body \o <<"nonce", "version">>, 0)
Bedrock  == Wire(OpDepositTxType, Body, 0)

MCValues == {Transfer, Legacy, Internal, Deposit, Bedrock}

Forged(n) == [CanonicalHeader(n) EXCEPT !.content = "forged"]

(* Receipts of each kind: legacy, of Arbitrum, and of an Optimism deposit after
   and before Canyon.  A forged header has roots too, of the same values. *)
MCBodies ==
  [h \in {CanonicalHeader(n) : n \in 0 .. 7} \cup {Forged(1)} |->
    [transaction |-> IF h.number % 2 = 1 THEN 0 :> Transfer ELSE << >>,
     receipt     |-> IF h.number = 1 THEN (0 :> Legacy) @@ (128 :> Deposit)
                     ELSE IF h.number = 3 THEN (0 :> Internal) @@ (128 :> Bedrock)
                     ELSE << >>]]

Honest(n) == [header |-> CanonicalHeader(n), proof |-> CanonicalProof(CanonicalHeader(n))]

MCPayloads ==
  {Honest(n) : n \in {1, 3, 4}}
    \cup {[header |-> Forged(1), proof |-> CanonicalProof(CanonicalHeader(1))],
          [header |-> CanonicalHeader(1), proof |-> [variant |-> "Unreadable"]],
          [Honest(3) EXCEPT !.proof.slot = 5]}

MCEmbedded ==
  {CanonicalAssets,
   [CanonicalAssets EXCEPT !.epochs[0] = EpochRoot({<<0, MCPowHeader[0]>>, <<1, Forged(1)>>})]}

(* Bytes of every admitted type and of some others, complete, with a byte too
   many, a byte too few, and with other numbers of items. *)
MCRawReceipts ==
  {Wire(first, items, rest) :
     first \in {ListHeader, 0, 1, 2, 4, 5, 99, 100, 106, 107, OpDepositTxType},
     items \in {Body, Body \o <<"nonce">>, Body \o <<"nonce", "version">>, <<"status">>,
                <<"status", Malformed, "bloom", "logs">>},
     rest \in {-1, 0, 1}} \cup {EmptyBytes}

=============================================================================
