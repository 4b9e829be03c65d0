-------------------------- MODULE SummariesRefresh --------------------------
(***************************************************************************)
(* src/sources/portal_beacon.rs and the tasks that use it as its tests and *)
(* the doc of Verifier::set_historical_summaries show: read the clock, ask *)
(* the Portal client for the content of the last rollover, and write what  *)
(* it returns over the snapshot of a shared Verifier.                      *)
(*                                                                         *)
(* The clock, the Beacon network, which comes to hold the content of a     *)
(* rollover some time after it, and the loop around the two calls are      *)
(* external.                                                               *)
(***************************************************************************)
EXTENDS PortalSources

CONSTANTS
  SlotsPerEpoch,          \* SLOTS_PER_EPOCH: 32 on mainnet
  HistoricalRootBoundary, \* HISTORICAL_ROOT_BOUNDARY: 256 epochs
  Refreshers,             \* tasks that hold a clone of the Verifier
  Skews,                  \* by how much this machine's clock may be off
  StartTime,              \* when the machine is observed first
  MaxTime,                \* bound: time does not pass beyond
  Ticks,                  \* by how much time may pass in one step
  Careless                \* the Portal client may return another rollover's content

ASSUME RolloverPeriod ==
  /\ SlotsPerEpoch \in Nat \ {0}
  /\ HistoricalRootBoundary \in Nat \ {0}
  /\ SlotsPerHistoricalRoot = SlotsPerEpoch * HistoricalRootBoundary
  /\ Skews \subseteq Int
  /\ StartTime \in Int
  /\ Ticks \subseteq Nat

VARIABLES
  time,       \* seconds since the UNIX epoch
  skew,       \* of the machine's clock
  published,  \* the rollover epochs whose content the network holds
  summaries,  \* the snapshot behind the Verifier's RwLock
  task,       \* the state of each refresher
  written     \* history: the refresh that wrote the snapshot in force, with
              \* the epoch of its content

refreshVars == <<time, skew, published, summaries, task, written>>

Clock == time + skew

-----------------------------------------------------------------------------
(* The rollover that the clock points at. *)

(* Mutated form: the subtraction is not saturating, the slot of a clock before
   genesis is negative. *)
CurrentBeaconEpoch_Unsaturated(clock) ==
  ((clock - GenesisTime) \div SecondsPerSlot) \div SlotsPerEpoch

CurrentBeaconEpoch(clock) ==
  LET elapsed == IF clock < GenesisTime THEN 0 ELSE clock - GenesisTime
  IN  (elapsed \div SecondsPerSlot) \div SlotsPerEpoch

(* Mutated form: one rollover too early, as if the last had not ended. *)
CurrentHistoricalSummariesEpoch_Late(clock) ==
  ((CurrentBeaconEpoch(clock) - 1) \div HistoricalRootBoundary) * HistoricalRootBoundary

CurrentHistoricalSummariesEpoch(clock) ==
  (CurrentBeaconEpoch(clock) \div HistoricalRootBoundary) * HistoricalRootBoundary

-----------------------------------------------------------------------------
(* The Portal client. *)

(* The summaries that a state at the start of a rollover epoch holds: one for
   each era from Capella's to the one that ended there. *)
SummariesWithProof(epoch) ==
  [decodes |-> TRUE,
   epoch   |-> epoch,
   summaries |-> SummariesUpTo(Era(epoch * SlotsPerEpoch) - Era(CapellaSlot))]

Undecodable == [decodes |-> FALSE]

IsRollover(epoch) ==
  /\ epoch % HistoricalRootBoundary = 0
  /\ epoch * SlotsPerEpoch >= CapellaSlot

Holding(epoch) == Reply(TRUE, FALSE, {Hex(TRUE, SummariesWithProof(epoch))})

Replies(key) ==
  {Reply(FALSE, FALSE, {}),
   Reply(TRUE, TRUE, {}),
   Reply(TRUE, FALSE, {Hex(TRUE, Undecodable)}),
   IF key.epoch \in published THEN Holding(key.epoch) ELSE Reply(TRUE, FALSE, {})}
    \cup (IF Careless THEN {Holding(epoch) : epoch \in published} ELSE {})

(* fetch_historical_summaries_with_proof: only the SSZ envelope is checked. *)
FetchHistoricalSummariesWithProof(reply) ==
  LET answer == GetBeaconContent(reply)
  IN  IF answer.tag = "Bytes" /\ ~answer.bytes.decodes THEN Failed("SszDecode") ELSE answer

-----------------------------------------------------------------------------
(* A refresher waits for the content of `epoch`, which it computed when the
   clock was at `clock`, or for the write lock with the content, or is idle. *)

Refresh(pc, clock, epoch, content) ==
  [pc |-> pc, clock |-> clock, epoch |-> epoch, content |-> content]

NoContent == [epoch |-> 0, summaries |-> SummariesUpTo(0)]

IdleRefresh == Refresh("idle", 0, 0, NoContent)

(* A Verifier begins with the empty snapshot. *)
RefreshInit ==
  /\ time = StartTime
  /\ skew \in Skews
  /\ published = {}
  /\ summaries = SummariesUpTo(0)
  /\ task = [r \in Refreshers |-> IdleRefresh]
  /\ written = Refresh("never", 0, 0, NoContent.epoch)

Tick ==
  /\ \E d \in Ticks : time + d <= MaxTime /\ time' = time + d
  /\ UNCHANGED <<skew, published, summaries, task, written>>

(* The state at a rollover was finalized, and its summaries were gossiped. *)
Publish(epoch) ==
  /\ IsRollover(epoch)
  /\ GenesisTime + epoch * SlotsPerEpoch * SecondsPerSlot <= time
  /\ published' = published \cup {epoch}
  /\ UNCHANGED <<time, skew, summaries, task, written>>

(* fetch_latest_historical_summaries, up to its await. *)
FetchLatest(r) ==
  /\ task[r].pc = "idle"
  /\ task' = [task EXCEPT ![r] =
       Refresh("asked", Clock, CurrentHistoricalSummariesEpoch(Clock), NoContent)]
  /\ UNCHANGED <<time, skew, published, summaries, written>>

(* Mutated forms: an error is answered by asking again, for ever; or by the
   content of the rollover before. *)
Received_Again(k, answer) ==
  IF answer.tag = "Bytes" THEN Refresh("fetched", k.clock, k.epoch, answer.bytes) ELSE k
Received_Previous(k, answer) ==
  IF answer.tag = "Bytes" THEN Refresh("fetched", k.clock, k.epoch, answer.bytes)
  ELSE LET previous == k.epoch - HistoricalRootBoundary
       IN  IF previous \in published
           THEN Refresh("fetched", k.clock, previous, SummariesWithProof(previous))
           ELSE IdleRefresh

Received(k, answer) ==
  IF answer.tag = "Bytes" THEN Refresh("fetched", k.clock, k.epoch, answer.bytes)
                          ELSE IdleRefresh

(* The reply arrives, or the client's timeout ends the wait. *)
ContentReturns(r) ==
  /\ task[r].pc = "asked"
  /\ \E reply \in Replies(HistoricalSummariesAt(task[r].epoch)) :
       task' = [task EXCEPT ![r] = Received(@, FetchHistoricalSummariesWithProof(reply))]
  /\ UNCHANGED <<time, skew, published, summaries, written>>

(* set_historical_summaries: the write lock is granted.  The epoch of the
   container was dropped by fetch_latest_historical_summaries. *)
SetSummaries(r) ==
  /\ task[r].pc = "fetched"
  /\ summaries' = task[r].content.summaries
  /\ written' = [task[r] EXCEPT !.content = @.epoch]
  /\ task' = [task EXCEPT ![r] = IdleRefresh]
  /\ UNCHANGED <<time, skew, published>>

RefreshNext ==
  \/ Tick
  \/ \E epoch \in 0 .. CurrentBeaconEpoch(time) : Publish(epoch)
  \/ \E r \in Refreshers : FetchLatest(r) \/ ContentReturns(r) \/ SetSummaries(r)

(* The client of this source has a timeout of 60 s, so a wait for content
   ends, and tokio's write lock is granted in turn.  Nothing obliges a task to
   refresh, the network to publish, or the client to answer with content. *)
RefreshFairness ==
  \A r \in Refreshers : WF_refreshVars(ContentReturns(r)) /\ WF_refreshVars(SetSummaries(r))

RefreshSpec == RefreshInit /\ [][RefreshNext]_refreshVars /\ RefreshFairness

-----------------------------------------------------------------------------

Commits(snapshot, slot) ==
  VerifyHistoricalSummariesBeaconBlockProof(snapshot,
    PostMergeProof(ForkForSlot(slot), slot, EraBatch(Era(slot)), BlockRootAt[slot]))

EndOfEra(era) == GenesisTime + (era + 1) * SlotsPerHistoricalRoot * SecondsPerSlot

Covers(snapshot, era) == \A slot \in EraSlots(era) : Commits(snapshot, slot)

ErasOfSummaries == {Era(slot) : slot \in {s \in Slots : s >= CapellaSlot}}

(* The Portal client gave a task what it was asked for; so it did for the
   refresh in force. *)
Sincere(r)     == task[r].content.epoch = task[r].epoch
SincereInForce == written.content = written.epoch

(* A task waits for content or holds a snapshot whose container has the shape
   of the SSZ type; it computed its epoch from the clock it read (portal_beacon.rs,
   fetch_latest_historical_summaries). *)
RefreshTypeOK ==
  /\ time \in Int /\ skew \in Skews
  /\ \A epoch \in published : epoch \in Nat /\ IsRollover(epoch)
  /\ DOMAIN task = Refreshers
  /\ \A r \in Refreshers :
       /\ task[r].pc \in {"idle", "asked", "fetched"}
       /\ task[r].pc # "idle" => task[r].epoch \in Nat /\ task[r].clock <= Clock
       /\ task[r].pc = "fetched" => task[r].content.epoch \in published

(* "asks the sidecar for the latest rollover": once a refresh has been written,
   the blocks of every post-Capella era that had ended when it read its clock
   verify, however long the answer took, whatever the clock's error, and even
   if other tasks wrote in between; provided the Portal client returned the
   content it was asked for, which nothing checks. *)
RefreshedErasVerify ==
  written.pc = "fetched" /\ SincereInForce =>
    \A era \in ErasOfSummaries : EndOfEra(era) <= written.clock => Covers(summaries, era)

(* The last writer wins, and nothing orders the writers.  What that may cost is
   bounded: a write makes a block unverifiable only if the refresh it replaces
   read a later clock, that is if it was overtaken.  Tasks that refresh one
   after the other never lose an era (set_summaries). *)
OnlyTheOvertakenGoBack ==
  [][\A r \in Refreshers :
       SetSummaries(r) /\ Sincere(r) /\ SincereInForce
         /\ (\E era \in ErasOfSummaries : Covers(summaries, era) /\ ~Covers(summaries, era)')
       => task[r].clock < written.clock]_refreshVars

SincereWrite == \E r \in Refreshers : SetSummaries(r) /\ Sincere(r)

(* If refreshes keep succeeding, then each era that ends by this machine's
   clock is in force at some time after, however many attempts fail in
   between because its content is not yet there. *)
EndedErasGetCovered ==
  []<><<SincereWrite>>_refreshVars =>
    \A era \in ErasOfSummaries : EndOfEra(era) <= Clock ~> Covers(summaries, era)

(* A refresh that has begun ends: the content is written or the task gives up
   (portal_beacon.rs has a timeout, and reports every other failure). *)
EveryRefreshEnds ==
  \A r \in Refreshers : task[r].pc # "idle" ~> task[r].pc = "idle"

=============================================================================
