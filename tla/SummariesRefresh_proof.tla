----------------------- MODULE SummariesRefresh_proof -----------------------
(***************************************************************************)
(* For every chain, any number of refreshing tasks, any clock and whatever *)
(* the network answers: a refresh that was given what it asked for leaves  *)
(* the ended eras verifiable, and only one that was overtaken while it     *)
(* waited takes an era away.                                               *)
(*                                                                         *)
(* The argument.  The snapshot in force is always some rollover's, so it   *)
(* covers the eras up to that one; and the rollover that a clock points at *)
(* grows with the clock.                                                   *)
(***************************************************************************)
EXTENDS SummariesRefresh, ProofConstruction_proof

-----------------------------------------------------------------------------
(* The clock. *)

Elapsed(clock) == IF clock < GenesisTime THEN 0 ELSE clock - GenesisTime

(* The era that begins at the rollover to which the clock points. *)
RolloverEra(clock) == Era(CurrentHistoricalSummariesEpoch(clock) * SlotsPerEpoch)

(* It reaches n when n eras have passed since genesis. *)
LEMMA RolloverEraBound ==
  ASSUME NEW clock \in Int
  PROVE  /\ CurrentHistoricalSummariesEpoch(clock) \in Nat
         /\ RolloverEra(clock) \in Nat
         /\ \A n \in Nat : RolloverEra(clock) >= n <=>
              Elapsed(clock) >= (n * SlotsPerHistoricalRoot) * SecondsPerSlot
<1> DEFINE t == Elapsed(clock)
           s == t \div SecondsPerSlot
           e == s \div SlotsPerEpoch
           q == e \div HistoricalRootBoundary
<1>0. /\ SecondsPerSlot \in Nat \ {0} /\ SlotsPerEpoch \in Nat \ {0}
      /\ HistoricalRootBoundary \in Nat \ {0} /\ GenesisTime \in Nat
      /\ SlotsPerHistoricalRoot = SlotsPerEpoch * HistoricalRootBoundary
      /\ SlotsPerHistoricalRoot \in Nat \ {0}
  BY RolloverPeriod, SlotClock, MainnetNumbers
<1>1. t \in Nat
  BY <1>0 DEF Elapsed
<1>2. s \in Nat /\ e \in Nat /\ q \in Nat
  BY <1>0, <1>1, QuotientBound
<1>3. CurrentBeaconEpoch(clock) = e
  BY DEF CurrentBeaconEpoch, Elapsed
<1>4. CurrentHistoricalSummariesEpoch(clock) = q * HistoricalRootBoundary
  BY <1>3 DEF CurrentHistoricalSummariesEpoch
<1> HIDE DEF t, s, e, q
<1>5. CurrentHistoricalSummariesEpoch(clock) * SlotsPerEpoch = q * SlotsPerHistoricalRoot
  BY <1>0, <1>2, <1>4
<1>6. RolloverEra(clock) = q
  BY <1>0, <1>2, <1>5, ExactQuotient DEF RolloverEra, Era
<1>7. ASSUME NEW n \in Nat
      PROVE  q >= n <=> t >= (n * SlotsPerHistoricalRoot) * SecondsPerSlot
  <2> DEFINE n1 == n * HistoricalRootBoundary
             n2 == n1 * SlotsPerEpoch
  <2>1. n1 \in Nat /\ n2 \in Nat
    BY <1>0
  <2>2. q >= n <=> e >= n1
    BY <1>0, <1>2, QuotientBound DEF q
  <2>3. n2 = n * SlotsPerHistoricalRoot
    BY <1>0
  <2> HIDE DEF n1
  <2>4. e >= n1 <=> s >= n2
    BY <1>0, <1>2, <2>1, QuotientBound DEF e
  <2> HIDE DEF n2
  <2>5. s >= n2 <=> t >= n2 * SecondsPerSlot
    BY <1>0, <1>1, <2>1, QuotientBound DEF s
  <2> QED
    BY <2>2, <2>3, <2>4, <2>5
<1> QED
  BY <1>0, <1>2, <1>4, <1>6, <1>7 DEF t

(* A later clock never points at an earlier rollover. *)
LEMMA RolloverEraGrows ==
  ASSUME NEW early \in Int, NEW late \in Int, early <= late
  PROVE  RolloverEra(early) <= RolloverEra(late)
<1> DEFINE n == RolloverEra(early)
           bound == (n * SlotsPerHistoricalRoot) * SecondsPerSlot
<1>1. n \in Nat /\ RolloverEra(late) \in Nat
  BY RolloverEraBound
<1>2. Elapsed(early) >= bound
  BY <1>1, RolloverEraBound
<1>3. Elapsed(late) >= Elapsed(early) /\ Elapsed(early) \in Nat /\ Elapsed(late) \in Nat
  BY SlotClock DEF Elapsed
<1>4. bound \in Nat
  BY <1>1, SlotClock, MainnetNumbers
<1> HIDE DEF bound
<1>5. Elapsed(late) >= bound
  BY <1>2, <1>3, <1>4
<1>6. RolloverEra(late) >= n
  BY <1>1, <1>5, RolloverEraBound DEF bound
<1> QED
  BY <1>1, <1>6

(* An era that has ended by the clock is before the rollover it points at. *)
LEMMA EndedIsBehind ==
  ASSUME NEW clock \in Int, NEW era \in Nat, EndOfEra(era) <= clock
  PROVE  era < RolloverEra(clock)
<1> DEFINE length == ((era + 1) * SlotsPerHistoricalRoot) * SecondsPerSlot
<1>1. length \in Nat /\ GenesisTime \in Nat
  BY SlotClock, MainnetNumbers
<1>2. GenesisTime + length <= clock
  BY DEF EndOfEra
<1>3. Elapsed(clock) >= length
  <2> HIDE DEF length
  <2> QED
    BY <1>1, <1>2 DEF Elapsed
<1>4. RolloverEra(clock) >= era + 1 /\ RolloverEra(clock) \in Nat
  BY <1>3, RolloverEraBound
<1> QED
  BY <1>4

-----------------------------------------------------------------------------
(* What a snapshot covers. *)

(* The first n summaries since Capella cover exactly the first n eras. *)
LEMMA CoversFirstEras ==
  ASSUME NEW n \in Int, NEW era \in ErasOfSummaries
  PROVE  Covers(SummariesUpTo(n), era) <=> era < Era(CapellaSlot) + n
<1> DEFINE snapshot == SummariesUpTo(n)
           cap      == Era(CapellaSlot)
<1>0. /\ CapellaSlot \in Nat /\ cap \in Nat /\ \A s \in Slots : s \in Nat
      /\ DenebSlot \in Nat /\ ElectraSlot \in Nat
      /\ CapellaSlot <= DenebSlot /\ DenebSlot <= ElectraSlot
  BY MainnetNumbers, SlotClock, EraType DEF Slots
<1>1. PICK first \in Slots : first >= CapellaSlot /\ Era(first) = era
  BY DEF ErasOfSummaries
<1>2. era \in Nat /\ era >= cap
  BY <1>0, <1>1, EraType, EraBoundary
<1>3. ASSUME NEW slot \in EraSlots(era)
      PROVE  /\ slot \in Slots /\ slot \in Nat /\ Era(slot) = era
             /\ HistoricalSummaryIndex(slot) = era - cap
             /\ Commits(snapshot, slot) <=> era - cap \in DOMAIN snapshot
  <2>1. slot \in Slots /\ slot \in Nat /\ Era(slot) = era
    BY <1>0 DEF EraSlots
  <2>2. slot >= CapellaSlot
    BY <1>0, <1>2, <2>1, EraBoundary
  <2>3. HistoricalSummaryIndex(slot) = era - cap
    BY <1>0, <1>2, <2>1, <2>2, SummaryIndexOfSlot
  <2>4. era - cap \in DOMAIN snapshot => snapshot[era - cap] = SummaryRoot(EraRoots(era))
    <3>1. cap + (era - cap) = era
      BY <1>0, <1>2
    <3> QED
      BY <3>1 DEF SummariesUpTo
  <2>5. Commits(snapshot, slot) <=> era - cap \in DOMAIN snapshot
    BY <2>1, <2>2, <2>3, <2>4, SummaryProofVerifies DEF Commits
  <2> QED
    BY <2>1, <2>3, <2>5
<1>4. first \in EraSlots(era)
  BY <1>1 DEF EraSlots
<1>5. Covers(snapshot, era) <=> era - cap \in DOMAIN snapshot
  BY <1>3, <1>4 DEF Covers
<1>6. era - cap \in DOMAIN snapshot <=> era < cap + n
  BY <1>0, <1>2 DEF SummariesUpTo
<1> QED
  BY <1>5, <1>6

-----------------------------------------------------------------------------
(* The inductive invariant.  A task's content is some published rollover's,
   not always the one it asked for; and so is the snapshot in force, once it
   has been written. *)

FromRollover(content) ==
  /\ content.epoch \in published
  /\ content.summaries = SummariesWithProof(content.epoch).summaries

(* The epoch that a task asked for is the one its clock pointed at. *)
TaskInd(k) ==
  /\ k = Refresh(k.pc, k.clock, k.epoch, k.content)
  /\ k.pc \in {"idle", "asked", "fetched"}
  /\ k.pc # "idle" => /\ k.clock \in Int
                      /\ k.clock <= Clock
                      /\ k.epoch = CurrentHistoricalSummariesEpoch(k.clock)
  /\ k.pc = "fetched" => FromRollover(k.content)

TimeInd ==
  /\ time \in Int /\ skew \in Skews
  /\ \A epoch \in published : epoch \in Nat /\ IsRollover(epoch)

WrittenInd ==
  \/ written.pc = "never" /\ summaries = SummariesUpTo(0)
  \/ /\ written.pc = "fetched"
     /\ written.clock \in Int
     /\ written.epoch = CurrentHistoricalSummariesEpoch(written.clock)
     /\ summaries = SummariesWithProof(written.content).summaries

RefreshInd ==
  /\ TimeInd
  /\ task = [r \in Refreshers |-> task[r]]
  /\ \A r \in Refreshers : TaskInd(task[r])
  /\ WrittenInd

(* A clock never points at a negative epoch: the subtraction saturates. *)
LEMMA BeaconEpochType ==
  ASSUME NEW clock \in Int
  PROVE  CurrentBeaconEpoch(clock) \in Nat
<1> DEFINE t == Elapsed(clock)
           s == t \div SecondsPerSlot
<1>0. /\ SecondsPerSlot \in Nat \ {0} /\ SlotsPerEpoch \in Nat \ {0} /\ GenesisTime \in Nat
  BY RolloverPeriod, SlotClock
<1>1. t \in Nat
  BY <1>0 DEF Elapsed
<1>2. s \in Nat /\ s \div SlotsPerEpoch \in Nat
  BY <1>0, <1>1, QuotientBound
<1> QED
  BY <1>2 DEF CurrentBeaconEpoch, Elapsed

(* Whatever the Portal client replies, the bytes that decode are the container
   of a rollover that the network holds. *)
LEMMA ContentIsOfARollover ==
  ASSUME NEW key, NEW reply \in Replies(key),
         FetchHistoricalSummariesWithProof(reply).tag = "Bytes"
  PROVE  FromRollover(FetchHistoricalSummariesWithProof(reply).bytes)
<1> DEFINE answer == FetchHistoricalSummariesWithProof(reply)
<1>1. ASSUME NEW epoch \in published, reply = Holding(epoch)
      PROVE  FromRollover(answer.bytes)
  <2>1. (CHOOSE c \in reply.result : TRUE) = Hex(TRUE, SummariesWithProof(epoch))
    BY <1>1 DEF Holding, Reply
  <2>2. GetBeaconContent(reply) = Fetched(SummariesWithProof(epoch))
    BY <1>1, <2>1 DEF GetBeaconContent, GetContent, Holding, Reply, Hex
  <2>3. answer.bytes = SummariesWithProof(epoch)
    BY <2>2 DEF FetchHistoricalSummariesWithProof, Fetched, SummariesWithProof
  <2> QED
    BY <1>1, <2>3 DEF FromRollover, SummariesWithProof
<1>2. CASE reply = Reply(TRUE, FALSE, {Hex(TRUE, Undecodable)})
  <2>1. (CHOOSE c \in reply.result : TRUE) = Hex(TRUE, Undecodable)
    BY <1>2 DEF Reply
  <2>2. GetBeaconContent(reply) = Fetched(Undecodable)
    BY <1>2, <2>1 DEF GetBeaconContent, GetContent, Reply, Hex
  <2>3. answer.tag = "Err"
    BY <2>2 DEF FetchHistoricalSummariesWithProof, Fetched, Undecodable, Failed
  <2> QED
    BY <2>3
<1>3. CASE reply \in {Reply(FALSE, FALSE, {}), Reply(TRUE, TRUE, {}), Reply(TRUE, FALSE, {})}
  <2>1. GetBeaconContent(reply).tag = "Err"
    BY <1>3 DEF GetBeaconContent, GetContent, Reply, Failed
  <2> QED
    BY <2>1 DEF FetchHistoricalSummariesWithProof
<1> QED
  BY <1>1, <1>2, <1>3 DEF Replies

(* A task that does not move keeps its part of the invariant while time passes
   and the network learns. *)
LEMMA TaskIndStable ==
  ASSUME NEW r \in Refreshers, TaskInd(task[r]), task'[r] = task[r],
         Clock \in Int, Clock' \in Int, Clock <= Clock',
         published \subseteq published'
  PROVE  TaskInd(task[r])'
BY DEF TaskInd, FromRollover

(* Every step preserves the invariant. *)
LEMMA NextRefreshInd ==
  ASSUME RefreshInd, [RefreshNext]_refreshVars
  PROVE  RefreshInd'
<1>0. /\ time \in Int /\ skew \in Skews /\ skew \in Int /\ Clock \in Int
      /\ \A epoch \in published : epoch \in Nat /\ IsRollover(epoch)
      /\ task = [r \in Refreshers |-> task[r]]
      /\ \A r \in Refreshers : TaskInd(task[r])
      /\ WrittenInd
  BY RolloverPeriod DEF RefreshInd, TimeInd, Clock
<1>1. ASSUME Tick PROVE RefreshInd'
  <2>1. PICK d \in Ticks : time' = time + d
    BY <1>1 DEF Tick
  <2>2. /\ UNCHANGED <<skew, published, summaries, task, written>>
        /\ time' \in Int /\ time <= time'
    BY <1>0, <1>1, <2>1, RolloverPeriod DEF Tick
  <2>3. TimeInd' /\ Clock' \in Int /\ Clock <= Clock'
    BY <1>0, <2>2 DEF TimeInd, Clock, IsRollover
  <2>4. \A r \in Refreshers : TaskInd(task[r])'
    BY <1>0, <2>2, <2>3, TaskIndStable
  <2>5. WrittenInd'
    BY <1>0, <2>2 DEF WrittenInd
  <2> QED
    BY <1>0, <2>2, <2>3, <2>4, <2>5 DEF RefreshInd
<1>2. ASSUME NEW new \in 0 .. CurrentBeaconEpoch(time), Publish(new) PROVE RefreshInd'
  <2>1. new \in Nat /\ IsRollover(new)
    BY <1>0, <1>2, BeaconEpochType DEF Publish
  <2>2. /\ UNCHANGED <<time, skew, summaries, task, written>>
        /\ published' = published \cup {new}
    BY <1>2 DEF Publish
  <2>3. TimeInd' /\ Clock' = Clock
    BY <1>0, <2>1, <2>2 DEF TimeInd, Clock, IsRollover
  <2>4. \A r \in Refreshers : TaskInd(task[r])'
    BY <1>0, <2>2, <2>3, TaskIndStable
  <2>5. WrittenInd'
    BY <1>0, <2>2 DEF WrittenInd
  <2> QED
    BY <1>0, <2>2, <2>3, <2>4, <2>5 DEF RefreshInd
<1>3. ASSUME NEW r \in Refreshers, NEW k,
             UNCHANGED <<time, skew, published>>,
             task' = [task EXCEPT ![r] = k], TaskInd(k), WrittenInd'
      PROVE  RefreshInd'
  <2>1. TimeInd' /\ Clock' = Clock
    BY <1>0, <1>3 DEF TimeInd, Clock, IsRollover
  <2>2. task' = [i \in Refreshers |-> task'[i]] /\ task'[r] = k
    BY <1>0, <1>3
  <2>3. ASSUME NEW i \in Refreshers PROVE TaskInd(task[i])'
    <3>1. CASE i = r
      BY <1>3, <2>1, <2>2, <3>1 DEF TaskInd, FromRollover
    <3>2. CASE i # r
      <4>1. task'[i] = task[i]
        BY <1>0, <1>3, <3>2
      <4> QED
        BY <1>0, <1>3, <2>1, <4>1, TaskIndStable
    <3> QED
      BY <3>1, <3>2
  <2> QED
    BY <1>3, <2>1, <2>2, <2>3 DEF RefreshInd
<1>4. TaskInd(IdleRefresh)
  BY DEF TaskInd, IdleRefresh, Refresh
<1>5. ASSUME NEW r \in Refreshers, FetchLatest(r) PROVE RefreshInd'
  <2> DEFINE k == Refresh("asked", Clock, CurrentHistoricalSummariesEpoch(Clock), NoContent)
  <2>1. task' = [task EXCEPT ![r] = k] /\ UNCHANGED <<time, skew, published, summaries, written>>
    BY <1>5 DEF FetchLatest
  <2>2. TaskInd(k)
    BY <1>0 DEF TaskInd, Refresh
  <2>3. WrittenInd'
    BY <1>0, <2>1 DEF WrittenInd
  <2> HIDE DEF k
  <2> QED
    BY <1>3, <2>1, <2>2, <2>3
<1>6. ASSUME NEW r \in Refreshers, ContentReturns(r) PROVE RefreshInd'
  <2>1. PICK reply \in Replies(HistoricalSummariesAt(task[r].epoch)) :
          task' = [task EXCEPT ![r] = Received(@, FetchHistoricalSummariesWithProof(reply))]
    BY <1>6 DEF ContentReturns
  <2> DEFINE answer == FetchHistoricalSummariesWithProof(reply)
             k      == Received(task[r], answer)
  <2>2. task' = [task EXCEPT ![r] = k] /\ UNCHANGED <<time, skew, published, summaries, written>>
    BY <1>0, <1>6, <2>1 DEF ContentReturns
  <2>3. TaskInd(k)
    <3>1. CASE answer.tag = "Bytes"
      <4>1. FromRollover(answer.bytes)
        BY <2>1, <3>1, ContentIsOfARollover
      <4>2. task[r].pc = "asked" /\ TaskInd(task[r])
        BY <1>0, <1>6 DEF ContentReturns
      <4>3. k = Refresh("fetched", task[r].clock, task[r].epoch, answer.bytes)
        BY <3>1 DEF Received
      <4> HIDE DEF answer, k
      <4> QED
        BY <4>1, <4>2, <4>3 DEF TaskInd, Refresh
    <3>2. CASE answer.tag # "Bytes"
      BY <1>4, <3>2 DEF Received
    <3> QED
      BY <3>1, <3>2
  <2>4. WrittenInd'
    BY <1>0, <2>2 DEF WrittenInd
  <2> HIDE DEF k
  <2> QED
    BY <1>3, <2>2, <2>3, <2>4
<1>7. ASSUME NEW r \in Refreshers, SetSummaries(r) PROVE RefreshInd'
  <2>1. /\ task' = [task EXCEPT ![r] = IdleRefresh] /\ UNCHANGED <<time, skew, published>>
        /\ task[r].pc = "fetched"
        /\ summaries' = task[r].content.summaries
        /\ written' = [task[r] EXCEPT !.content = @.epoch]
    BY <1>7 DEF SetSummaries
  <2>2. TaskInd(task[r])
    BY <1>0
  <2>3. WrittenInd'
    <3>1. task[r] = Refresh(task[r].pc, task[r].clock, task[r].epoch, task[r].content)
      BY <2>2 DEF TaskInd
    <3>2. written' = Refresh("fetched", task[r].clock, task[r].epoch, task[r].content.epoch)
      BY <2>1, <3>1 DEF Refresh
    <3> QED
      BY <2>1, <2>2, <3>2 DEF WrittenInd, TaskInd, FromRollover, Refresh
  <2> QED
    BY <1>3, <1>4, <2>1, <2>3
<1>8. CASE UNCHANGED refreshVars
  <2>1. UNCHANGED <<time, skew, published, summaries, task, written>> /\ Clock' = Clock
    BY <1>8 DEF refreshVars, Clock
  <2>2. TimeInd' /\ WrittenInd'
    BY <1>0, <2>1 DEF TimeInd, IsRollover, WrittenInd
  <2>3. \A r \in Refreshers : TaskInd(task[r])'
    BY <1>0, <2>1, TaskIndStable
  <2> QED
    BY <1>0, <2>1, <2>2, <2>3 DEF RefreshInd
<1> QED
  BY <1>1, <1>2, <1>5, <1>6, <1>7, <1>8 DEF RefreshNext

(* The inductive invariant holds in every reachable state. *)
LEMMA RefreshInvariance == RefreshSpec => []RefreshInd
<1>1. RefreshInit => RefreshInd
  <2>1. ASSUME RefreshInit PROVE TimeInd /\ WrittenInd
    BY <2>1, RolloverPeriod DEF RefreshInit, TimeInd, WrittenInd, Refresh, NoContent
  <2>2. TaskInd(IdleRefresh)
    BY DEF TaskInd, IdleRefresh, Refresh
  <2> QED
    BY <2>1, <2>2 DEF RefreshInit, RefreshInd
<1> QED
  BY <1>1, NextRefreshInd, PTL DEF RefreshSpec

(* The eras that summaries commit are counted from Capella's. *)
LEMMA ErasAreNatural ==
  ASSUME NEW era \in ErasOfSummaries
  PROVE  era \in Nat /\ Era(CapellaSlot) \in Nat /\ ~(era < Era(CapellaSlot))
<1>1. CapellaSlot \in Nat /\ \A s \in Slots : s \in Nat
  BY MainnetNumbers DEF Slots
<1>2. PICK s \in Slots : s >= CapellaSlot /\ Era(s) = era
  BY DEF ErasOfSummaries
<1> QED
  BY <1>1, <1>2, EraType, EraBoundary

(* The snapshot of the rollover that a clock points at covers the eras before
   it, which are all that had ended. *)
LEMMA RolloverCovers ==
  ASSUME NEW clock \in Int, NEW era \in ErasOfSummaries
  PROVE  LET snapshot == SummariesWithProof(CurrentHistoricalSummariesEpoch(clock)).summaries
         IN  Covers(snapshot, era) <=> era < RolloverEra(clock)
<1> DEFINE cap == Era(CapellaSlot)
           n   == RolloverEra(clock) - cap
<1>1. cap \in Nat /\ RolloverEra(clock) \in Nat /\ era \in Nat
  BY ErasAreNatural, RolloverEraBound
<1>2. SummariesWithProof(CurrentHistoricalSummariesEpoch(clock)).summaries = SummariesUpTo(n)
  BY DEF SummariesWithProof, RolloverEra
<1>3. Covers(SummariesUpTo(n), era) <=> era < cap + n
  BY <1>1, CoversFirstEras
<1>4. cap + n = RolloverEra(clock)
  BY <1>1
<1> QED
  BY <1>2, <1>3, <1>4

-----------------------------------------------------------------------------

(* A refresher asks for a rollover that its clock has passed, and what it is
   given is one that the network has (fetch_latest_historical_summaries). *)
THEOREM RefreshTypeCorrect == RefreshSpec => []RefreshTypeOK
<1>1. ASSUME RefreshInd PROVE RefreshTypeOK
  <2>1. DOMAIN task = Refreshers
    BY <1>1 DEF RefreshInd
  <2>2. ASSUME NEW r \in Refreshers
        PROVE  /\ task[r].pc \in {"idle", "asked", "fetched"}
               /\ task[r].pc # "idle" => task[r].epoch \in Nat /\ task[r].clock <= Clock
               /\ task[r].pc = "fetched" => task[r].content.epoch \in published
    BY <1>1, RolloverEraBound DEF RefreshInd, TaskInd, FromRollover
  <2> QED
    BY <1>1, <2>1, <2>2 DEF RefreshInd, TimeInd, RefreshTypeOK
<1> QED
  BY <1>1, RefreshInvariance, PTL

(* After a refresh that was given what it asked for, the blocks of every era
   that had ended when it read its clock verify. *)
THEOREM RefreshCoversEndedEras == RefreshSpec => []RefreshedErasVerify
<1>1. ASSUME RefreshInd, written.pc = "fetched", SincereInForce,
             NEW era \in ErasOfSummaries, EndOfEra(era) <= written.clock
      PROVE  Covers(summaries, era)
  <2>1. /\ written.clock \in Int
        /\ summaries = SummariesWithProof(CurrentHistoricalSummariesEpoch(written.clock)).summaries
    BY <1>1 DEF RefreshInd, WrittenInd, SincereInForce
  <2>2. era \in Nat
    BY ErasAreNatural
  <2>3. era < RolloverEra(written.clock)
    BY <1>1, <2>1, <2>2, EndedIsBehind
  <2> QED
    BY <2>1, <2>3, RolloverCovers
<1>2. RefreshInd => RefreshedErasVerify
  BY <1>1 DEF RefreshedErasVerify
<1> QED
  BY <1>2, RefreshInvariance, PTL

(* Tasks that refresh in the order in which they read their clocks never make
   a block unverifiable; only a task that was overtaken may (set_summaries). *)
THEOREM OvertakenOnly == RefreshSpec => OnlyTheOvertakenGoBack
<1>1. ASSUME RefreshInd, NEW r \in Refreshers, SetSummaries(r), Sincere(r), SincereInForce,
             NEW era \in ErasOfSummaries, Covers(summaries, era), ~Covers(summaries', era)
      PROVE  task[r].clock < written.clock
  <2>1. /\ task[r].clock \in Int
        /\ summaries' = SummariesWithProof(CurrentHistoricalSummariesEpoch(task[r].clock)).summaries
    BY <1>1 DEF SetSummaries, RefreshInd, TaskInd, FromRollover, Sincere
  <2>2. ~(era < RolloverEra(task[r].clock))
    BY <1>1, <2>1, RolloverCovers
  <2>3. written.pc # "never"
    <3>1. ~Covers(SummariesUpTo(0), era)
      BY ErasAreNatural, CoversFirstEras
    <3> QED
      BY <1>1, <3>1 DEF RefreshInd, WrittenInd
  <2>4. /\ written.clock \in Int
        /\ summaries = SummariesWithProof(CurrentHistoricalSummariesEpoch(written.clock)).summaries
    BY <1>1, <2>3 DEF RefreshInd, WrittenInd, SincereInForce
  <2>5. era < RolloverEra(written.clock)
    BY <1>1, <2>4, RolloverCovers
  <2>6. ASSUME written.clock <= task[r].clock PROVE FALSE
    <3>1. RolloverEra(written.clock) <= RolloverEra(task[r].clock)
      BY <2>1, <2>4, <2>6, RolloverEraGrows
    <3>2. RolloverEra(written.clock) \in Nat /\ RolloverEra(task[r].clock) \in Nat /\ era \in Int
      BY <2>1, <2>4, RolloverEraBound, ErasAreNatural
    <3> QED
      BY <2>2, <2>5, <3>1, <3>2
  <2> QED
    BY <2>1, <2>4, <2>6
<1>2. RefreshInd =>
        [\A r \in Refreshers :
           SetSummaries(r) /\ Sincere(r) /\ SincereInForce
             /\ (\E era \in ErasOfSummaries : Covers(summaries, era) /\ ~Covers(summaries, era)')
           => task[r].clock < written.clock]_refreshVars
  BY <1>1
<1> QED
  BY <1>2, RefreshInvariance, PTL DEF OnlyTheOvertakenGoBack

=============================================================================
