--------------------------- MODULE EventProcessing ---------------------------
(***************************************************************************)
(* packages/endpoints-event-processing: the handlers that a scheduler      *)
(* triggers over HTTP and that read a contract's events since the last     *)
(* block they recorded, act on them, and record the chain's latest block.  *)
(*                                                                         *)
(* The five handlers differ in what they do with the events; task says     *)
(* which is modelled: one of the three logging handlers, the one that pays *)
(* rewards, or the one that books burned coupons.  Each task has a cursor  *)
(* of its own, so the tasks do not meet.  Every block holds one event of   *)
(* the task's contract, named by its block.                                *)
(***************************************************************************)
EXTENDS Integers, FiniteSets

CONSTANTS
  Run,             \* triggers of the handler, one HTTP request each
  Tasks,           \* the kinds of handler considered
  QueryMaxBlocks,  \* QueryMaxBlocks, 500 in the code
  MaxBlock,        \* bound: the chain's last block
  Unregistered,    \* blocks whose event names an organization not in the db
  Quantity,        \* couponBundle.quantity of the purchase that was burned
  MaxInFlight,     \* bound: runs at the same time
  MaxFaults        \* bound: errors, crashes and lagging answers

ASSUME TasksAssumption == Tasks \subseteq {"logging", "rewards", "burns"}
ASSUME QueryMaxBlocksAssumption == QueryMaxBlocks \in Nat \ {0}
ASSUME ChainAssumption == /\ MaxBlock \in Nat
                          /\ Unregistered \subseteq 0 .. MaxBlock
                          /\ Quantity \in Nat
ASSUME BoundsAssumption == MaxInFlight \in Nat /\ MaxFaults \in Nat

Block == 0 .. MaxBlock
NoBlock == -1

\* What the tasks write: log lines, credit transfers, the purchase's used
\* count, the burnedCoupons documents, the burns Fineract booked, and the
\* failed-burn-sync warnings about those it refused.
Sink == {"log", "transfers", "purchases", "burnedCoupons", "fineract", "refused"}

Stage == {"idle", "started", "reading", "pulling", "transfers", "purchases",
          "fineract", "saving", "done", "failed"}
Ended == {"done", "failed"}

\* writeBurnsToDatabase groups the events by burner; the burners the database
\* knows are one group here, the ones it does not know the other.
Burner == {"known", "unknown"}
JobStep == {"find", "update", "insert"}

VARIABLES
  task,         \* the handler: "logging", "rewards" or "burns"
  head,         \* the chain's latest block
  blockNumber,  \* DynamoDB: the task's BlockNumber, NoBlock if no document
  used,         \* the purchase's couponBundle.used
  handled,      \* sink -> block -> how many times its event was written there
  stage,
  currBlock,    \* start of the next range of blocks to query
  latestBlock,  \* getBlockNumber's answer
  events,       \* events read so far
  jobs,         \* writeBurnsToDatabase's promises: <<burner, step>>
  faults

stores == <<blockNumber, used, handled>>
locals == <<currBlock, latestBlock, events>>
vars == <<task, head, stores, stage, locals, jobs, faults>>

Init ==
  /\ task \in Tasks
  /\ head = 0
  /\ blockNumber = NoBlock
  /\ used = 0
  /\ handled = [s \in Sink |-> [b \in Block |-> 0]]
  /\ stage = [r \in Run |-> "idle"]
  /\ currBlock = [r \in Run |-> 0]
  /\ latestBlock = [r \in Run |-> NoBlock]
  /\ events = [r \in Run |-> {}]
  /\ jobs = [r \in Run |-> {}]
  /\ faults = 0

InFlight == {r \in Run : stage[r] \notin Ended \cup {"idle"} \/ jobs[r] # {}}

GoTo(r, s) == stage' = [stage EXCEPT ![r] = s]

Fault == faults < MaxFaults /\ faults' = faults + 1

Add(counts, blocks) ==
  [b \in Block |-> IF b \in blocks THEN counts[b] + 1 ELSE counts[b]]

Write(s, blocks) == handled' = [handled EXCEPT ![s] = Add(@, blocks)]

-----------------------------------------------------------------------------
NewBlock ==
  /\ head < MaxBlock
  /\ head' = head + 1
  /\ UNCHANGED <<task, stores, stage, locals, jobs, faults>>

\* The controller answers 200 and runs the handler from setTimeout: nothing
\* keeps two runs of one task apart.
Trigger(r) ==
  /\ stage[r] = "idle"
  /\ Cardinality(InFlight) < MaxInFlight
  /\ GoTo(r, "started")
  /\ UNCHANGED <<task, head, stores, locals, jobs, faults>>

ReadSameBlockAgain(r) ==   \* mutant: readEventsFromBlock(lastReadBlock)
  /\ stage[r] = "started"
  /\ GoTo(r, "reading")
  /\ currBlock' = [currBlock EXCEPT ![r] = IF blockNumber = NoBlock THEN 0
                                                                    ELSE blockNumber]
  /\ UNCHANGED <<task, head, stores, latestBlock, events, jobs, faults>>

ReadLastSuccessfulBlock(r) ==
  /\ stage[r] = "started"
  /\ GoTo(r, "reading")
  /\ currBlock' = [currBlock EXCEPT ![r] = blockNumber + 1]
  /\ UNCHANGED <<task, head, stores, latestBlock, events, jobs, faults>>

\* pullEvents asks for the latest block; a node that lags answers an old one.
GetBlockNumber(r) ==
  /\ stage[r] = "reading"
  /\ GoTo(r, "pulling")
  /\ \/ latestBlock' = [latestBlock EXCEPT ![r] = head] /\ UNCHANGED faults
     \/ \E b \in 0 .. head - 1 :
          latestBlock' = [latestBlock EXCEPT ![r] = b] /\ Fault
  /\ UNCHANGED <<task, head, stores, currBlock, events, jobs>>

\* rangeStep(QueryMaxBlocks, fromBlock, latestBlock) leaves its end out.
MoreRanges(r) == currBlock[r] < latestBlock[r]

RangeEnd(r) == LET endBlock == currBlock[r] + QueryMaxBlocks - 1 IN
                 IF endBlock < latestBlock[r] THEN endBlock ELSE latestBlock[r]

PullUnbounded(r) ==   \* mutant: the last range is not cut at latestBlock
  LET pulled == Block \cap (currBlock[r] .. currBlock[r] + QueryMaxBlocks - 1) IN
    /\ stage[r] = "pulling"
    /\ MoreRanges(r)
    /\ events' = [events EXCEPT ![r] = @ \cup pulled]
    /\ currBlock' = [currBlock EXCEPT ![r] = @ + QueryMaxBlocks]
    /\ IF task = "logging" THEN Write("log", pulled) ELSE UNCHANGED handled
    /\ UNCHANGED <<task, head, blockNumber, used, stage, latestBlock, jobs, faults>>

PullWithGaps(r) ==   \* mutant: endBlock excluded from its range
  LET pulled == currBlock[r] .. RangeEnd(r) - 1 IN
    /\ stage[r] = "pulling"
    /\ MoreRanges(r)
    /\ events' = [events EXCEPT ![r] = @ \cup pulled]
    /\ currBlock' = [currBlock EXCEPT ![r] = @ + QueryMaxBlocks]
    /\ IF task = "logging" THEN Write("log", pulled) ELSE UNCHANGED handled
    /\ UNCHANGED <<task, head, blockNumber, used, stage, latestBlock, jobs, faults>>

PullForever(r) ==   \* mutant: the cursor does not move on
  LET pulled == currBlock[r] .. RangeEnd(r) IN
    /\ stage[r] = "pulling"
    /\ MoreRanges(r)
    /\ events' = [events EXCEPT ![r] = @ \cup pulled]
    /\ UNCHANGED <<task, head, stores, stage, currBlock, latestBlock, jobs, faults>>

\* One step of the `for await` loop: a queryFilter; the logging handlers
\* write their lines here.
PullEvents(r) ==
  LET pulled == currBlock[r] .. RangeEnd(r) IN
    /\ stage[r] = "pulling"
    /\ MoreRanges(r)
    /\ events' = [events EXCEPT ![r] = @ \cup pulled]
    /\ currBlock' = [currBlock EXCEPT ![r] = @ + QueryMaxBlocks]
    /\ IF task = "logging" THEN Write("log", pulled) ELSE UNCHANGED handled
    /\ UNCHANGED <<task, head, blockNumber, used, stage, latestBlock, jobs, faults>>

BurnerOf(b) == IF b \in Unregistered THEN "unknown" ELSE "known"
BurnedBy(r, g) == {b \in events[r] : BurnerOf(b) = g}

AllPulled(r) ==
  /\ stage[r] = "pulling"
  /\ ~ MoreRanges(r)
  /\ \/ /\ task = "logging"
        /\ GoTo(r, "saving")
        /\ UNCHANGED jobs
     \/ /\ task = "rewards"
        /\ GoTo(r, "transfers")
        /\ UNCHANGED jobs
     \/ /\ task = "burns"
        /\ GoTo(r, "purchases")
        /\ jobs' = [jobs EXCEPT ![r] =
             {<<g, "find">> : g \in {BurnerOf(b) : b \in events[r]}}]
  /\ UNCHANGED <<task, head, stores, locals, faults>>

\* executeTransfers: one batch for all the events, the organizations that
\* were not found left out.  Fineract answers a batch of nothing with an empty
\* list, and batchOperations throws on its first answer.
ExecuteTransfers(r) ==
  LET known == events[r] \ Unregistered IN
    /\ stage[r] = "transfers"
    /\ IF known = {} /\ events[r] # {}
         THEN UNCHANGED handled /\ GoTo(r, "failed")
         ELSE Write("transfers", known) /\ GoTo(r, "saving")
    /\ UNCHANGED <<task, head, blockNumber, used, locals, jobs, faults>>

ExecuteTransfersUnconfirmed(r) ==
  /\ stage[r] = "transfers"
  /\ Fault
  /\ Write("transfers", events[r] \ Unregistered)
  /\ GoTo(r, "failed")
  /\ UNCHANGED <<task, head, blockNumber, used, locals, jobs>>

-----------------------------------------------------------------------------
\* writeBurnsToDatabase, one promise per group: look for the purchase with a
\* balance, add the group's count to it, insert a burnedCoupons document.
Advance(r, g, from, to) ==
  jobs' = [jobs EXCEPT ![r] = (@ \ {<<g, from>>}) \cup to]

FindPurchase(r, g) ==
  /\ <<g, "find">> \in jobs[r]
  /\ Advance(r, g, "find", IF used < Quantity THEN {<<g, "update">>} ELSE {})
  /\ UNCHANGED <<task, head, stores, stage, locals, faults>>

UpdatePurchase(r, g) ==
  /\ <<g, "update">> \in jobs[r]
  /\ used' = used + Cardinality(BurnedBy(r, g))
  /\ Write("purchases", BurnedBy(r, g))
  /\ Advance(r, g, "update", {<<g, "insert">>})
  /\ UNCHANGED <<task, head, blockNumber, stage, locals, faults>>

InsertBurnedCoupons(r, g) ==
  /\ <<g, "insert">> \in jobs[r]
  /\ Write("burnedCoupons", BurnedBy(r, g))
  /\ Advance(r, g, "insert", {})
  /\ UNCHANGED <<task, head, blockNumber, used, stage, locals, faults>>

BurnsWritten(r) ==
  /\ stage[r] = "purchases"
  /\ jobs[r] = {}
  /\ GoTo(r, "fineract")
  /\ UNCHANGED <<task, head, stores, locals, jobs, faults>>

\* syncBurnsWithFineract reads `.ids` of every burner's organization.
SyncBurnsWithFineract(r) ==
  /\ stage[r] = "fineract"
  /\ IF events[r] \cap Unregistered = {}
       THEN Write("fineract", events[r]) /\ GoTo(r, "saving")
       ELSE UNCHANGED handled /\ GoTo(r, "failed")
  /\ UNCHANGED <<task, head, blockNumber, used, locals, jobs, faults>>

\* The batch is not transactional: a burn that Fineract refuses is logged and
\* the run goes on.
SyncBurnsRefused(r) ==
  /\ stage[r] = "fineract"
  /\ Fault
  /\ events[r] \cap Unregistered = {}
  /\ \E b \in events[r] :
       handled' = [handled EXCEPT !["fineract"] = Add(@, events[r] \ {b}),
                                  !["refused"] = Add(@, {b})]
  /\ GoTo(r, "saving")
  /\ UNCHANGED <<task, head, blockNumber, used, locals, jobs>>

SyncBurnsUnconfirmed(r) ==
  /\ stage[r] = "fineract"
  /\ Fault
  /\ events[r] \cap Unregistered = {}
  /\ Write("fineract", events[r])
  /\ GoTo(r, "failed")
  /\ UNCHANGED <<task, head, blockNumber, used, locals, jobs>>

-----------------------------------------------------------------------------
WriteLastSuccessfulBlock(r) ==
  /\ stage[r] = "saving"
  /\ blockNumber' = latestBlock[r]
  /\ GoTo(r, "done")
  /\ UNCHANGED <<task, head, used, handled, locals, jobs, faults>>

\* An await throws: the controller logs the error and that is the run's end.
\* Promises of Promise.all that were started go on.
Throws(r) ==
  /\ stage[r] \notin Ended \cup {"idle"}
  /\ Fault
  /\ GoTo(r, "failed")
  /\ UNCHANGED <<task, head, stores, locals, jobs>>

\* The process stops: its promises stop too.
Crash(r) ==
  /\ r \in InFlight
  /\ Fault
  /\ GoTo(r, IF stage[r] \in Ended THEN stage[r] ELSE "failed")
  /\ jobs' = [jobs EXCEPT ![r] = {}]
  /\ UNCHANGED <<task, head, stores, locals>>

Step(r) == \/ ReadLastSuccessfulBlock(r)
           \/ GetBlockNumber(r)
           \/ PullEvents(r)
           \/ AllPulled(r)
           \/ ExecuteTransfers(r)
           \/ \E g \in Burner : \/ FindPurchase(r, g)
                                \/ UpdatePurchase(r, g)
                                \/ InsertBurnedCoupons(r, g)
           \/ BurnsWritten(r)
           \/ SyncBurnsWithFineract(r)
           \/ WriteLastSuccessfulBlock(r)

Environment(r) == \/ ExecuteTransfersUnconfirmed(r)
                  \/ SyncBurnsRefused(r)
                  \/ SyncBurnsUnconfirmed(r)
                  \/ Throws(r)
                  \/ Crash(r)

\* Every trigger was served and the chain is at its bound.
Finished == /\ InFlight = {}
            /\ \A r \in Run : stage[r] \in Ended
            /\ head = MaxBlock
            /\ UNCHANGED vars

Next == \/ NewBlock
        \/ \E r \in Run : Trigger(r) \/ Step(r) \/ Environment(r)
        \/ Finished

Spec == Init /\ [][Next]_vars

\* The event loop runs what is ready and the services answer or fail; whether
\* a trigger or a block comes is up to the environment.
FairSpec == Spec /\ \A r \in Run : WF_vars(Step(r))

-----------------------------------------------------------------------------
(***************************************************************************)
(* Properties.                                                             *)
(***************************************************************************)

\* The variables keep the shape of the documents and of the handlers' local
\* variables, and a handler holds no event of a block that is not there yet.
TypeOK ==
  /\ task \in Tasks
  /\ head \in Block
  /\ blockNumber \in Block \cup {NoBlock}
  /\ used \in Nat
  /\ handled \in [Sink -> [Block -> Nat]]
  /\ stage \in [Run -> Stage]
  /\ currBlock \in [Run -> Nat]
  /\ latestBlock \in [Run -> Block \cup {NoBlock}]
  /\ events \in [Run -> SUBSET Block]
  /\ \A r \in Run : events[r] \subseteq 0 .. head
  /\ jobs \in [Run -> SUBSET (Burner \X JobStep)]
  /\ faults \in Nat

\* Where a task's work ends: what is written there was dealt with.
FinalSink == CASE task = "logging" -> "log"
               [] task = "rewards" -> "transfers"
               [] task = "burns"   -> "fineract"

DealtWith(b) == \/ handled[FinalSink][b] > 0
                \/ task = "rewards" /\ b \in Unregistered
                \/ task = "burns" /\ handled["refused"][b] > 0

\* A run whose last range would have started at b, its latest block.
SkippedAtEnd(b) == \E r \in Run : latestBlock[r] = b /\ currBlock[r] = b

\* Whatever fails and however runs overlap, the cursor never passes an event
\* that was not dealt with, but for one case: the block is the latest of a run
\* and the exclusive end of its ranges (rangeStep) falls on it.
OnlyRangeEndsAreSkipped ==
  \A b \in 0 .. blockNumber : DealtWith(b) \/ SkippedAtEnd(b)

\* A run that SyncBurnsWithFineract fails: one of its burners is unknown.
Stuck == {r \in Run : /\ task = "burns" /\ stage[r] = "failed"
                     /\ events[r] \cap Unregistered # {}}

\* What is written once per event, run after run: an event is written again
\* only when a run failed between its write and its cursor, or a lagging node
\* took the cursor back, and then once per such fault; or when a burner is
\* unknown, and then once by every later run.
RewritesNeedFaults ==
  \A s \in Sink, b \in Block : handled[s][b] <= 1 + faults + Cardinality(Stuck)

\* The cursor stands for the events up to its block: they were dealt with.
NoEventLost == \A b \in 0 .. blockNumber : DealtWith(b)

\* A run that was triggered ends: reading the ranges terminates.
RunsEnd == \A r \in Run : stage[r] # "idle" ~> stage[r] \in Ended
=============================================================================
