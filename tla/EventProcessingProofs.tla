------------------------ MODULE EventProcessingProofs ------------------------
(***************************************************************************)
(* Theorems about EventProcessing, for every task, any number of runs,     *)
(* blocks and faults, and every size of the ranges.  The last theorem is   *)
(* of the behaviours of MCEventProcessing whose runs did not overlap.      *)
(***************************************************************************)
EXTENDS MCEventProcessing, TLAPS, FiniteSetTheorems

USE DEF stores, locals

-----------------------------------------------------------------------------
(***************************************************************************)
(* Type correctness.                                                       *)
(***************************************************************************)

\* Add counts the given blocks and nothing else, and never down.
LEMMA AddCounts ==
  ASSUME NEW counts \in [Block -> Nat], NEW blocks
  PROVE  /\ Add(counts, blocks) \in [Block -> Nat]
         /\ \A b \in Block : Add(counts, blocks)[b] >= counts[b]
         /\ \A b \in Block \cap blocks : Add(counts, blocks)[b] > 0
  BY DEF Add

LEMMA WriteCounts ==
  ASSUME TypeOK, NEW s \in Sink, NEW blocks, Write(s, blocks)
  PROVE  /\ handled' \in [Sink -> [Block -> Nat]]
         /\ \A t \in Sink, b \in Block : handled'[t][b] >= handled[t][b]
         /\ \A b \in Block \cap blocks : handled'[s][b] > 0
<1> DEFINE counted == Add(handled[s], blocks)
<1>1. handled' = [handled EXCEPT ![s] = counted]
  BY DEF Write
<1>2. /\ counted \in [Block -> Nat]
      /\ \A b \in Block : counted[b] >= handled[s][b]
      /\ \A b \in Block \cap blocks : counted[b] > 0
  <2>1. handled[s] \in [Block -> Nat]
    BY DEF TypeOK
  <2>. QED  BY <2>1, AddCounts
<1>. HIDE DEF counted
<1>3. handled \in [Sink -> [Block -> Nat]]
  BY DEF TypeOK
<1>4. /\ handled'[s] = counted
      /\ \A t \in Sink : t # s => handled'[t] = handled[t]
  BY <1>1, <1>3
<1>5. handled' \in [Sink -> [Block -> Nat]]
  BY <1>1, <1>2, <1>3
<1>6. \A t \in Sink, b \in Block : handled'[t][b] >= handled[t][b]
  <2> SUFFICES ASSUME NEW t \in Sink, NEW b \in Block
               PROVE  handled'[t][b] >= handled[t][b]
    OBVIOUS
  <2>1. handled[t][b] \in Nat
    BY <1>3
  <2>. QED  BY <1>2, <1>4, <2>1
<1>. QED  BY <1>2, <1>4, <1>5, <1>6

\* A batch that Fineract answers with one refusal: two sinks are written.
LEMMA RefusedCounts ==
  ASSUME TypeOK, NEW r \in Run, SyncBurnsRefused(r)
  PROVE  /\ handled' \in [Sink -> [Block -> Nat]]
         /\ \A t \in Sink, b \in Block : handled'[t][b] >= handled[t][b]
         /\ \A b \in events[r] : handled'["fineract"][b] > 0
                                 \/ handled'["refused"][b] > 0
<1>1. PICK c \in events[r] :
        handled' = [handled EXCEPT !["fineract"] = Add(@, events[r] \ {c}),
                                   !["refused"] = Add(@, {c})]
  BY DEF SyncBurnsRefused
<1>. DEFINE booked == Add(handled["fineract"], events[r] \ {c})
            warned == Add(handled["refused"], {c})
<1>2. /\ handled \in [Sink -> [Block -> Nat]]
      /\ "fineract" \in Sink /\ "refused" \in Sink
      /\ events[r] \subseteq Block
  BY DEF TypeOK, Sink
<1>3. handled' = [handled EXCEPT !["fineract"] = booked, !["refused"] = warned]
  BY <1>1, <1>2
<1>4. /\ booked \in [Block -> Nat]
      /\ \A b \in Block : booked[b] >= handled["fineract"][b]
      /\ \A b \in Block \cap (events[r] \ {c}) : booked[b] > 0
  BY <1>2, AddCounts
<1>5. /\ warned \in [Block -> Nat]
      /\ \A b \in Block : warned[b] >= handled["refused"][b]
      /\ \A b \in Block \cap {c} : warned[b] > 0
  BY <1>2, AddCounts
<1>. HIDE DEF booked, warned
<1>6. /\ handled'["fineract"] = booked /\ handled'["refused"] = warned
      /\ \A t \in Sink \ {"fineract", "refused"} : handled'[t] = handled[t]
  BY <1>2, <1>3
<1>7. handled' \in [Sink -> [Block -> Nat]]
  BY <1>2, <1>3, <1>4, <1>5
<1>8. ASSUME NEW t \in Sink, NEW b \in Block PROVE handled'[t][b] >= handled[t][b]
  <2>1. handled[t][b] \in Nat
    BY <1>2
  <2>. QED  BY <1>4, <1>5, <1>6, <2>1
<1>9. ASSUME NEW b \in events[r]
      PROVE  handled'["fineract"][b] > 0 \/ handled'["refused"][b] > 0
  BY <1>2, <1>4, <1>5, <1>6
<1>. QED  BY <1>7, <1>8, <1>9

LEMMA FaultTyped == ASSUME TypeOK, Fault PROVE faults' \in Nat
  BY DEF TypeOK, Fault

\* A handler asks for no block beyond its latest one, which exists.
RangesInv == \A r \in Run : latestBlock[r] <= head

\* One query reads blocks of the chain only.
LEMMA PulledAreMined ==
  ASSUME TypeOK, RangesInv, NEW r \in Run, PullEvents(r)
  PROVE  currBlock[r] .. RangeEnd(r) \subseteq 0 .. head
<1>1. currBlock[r] \in Nat /\ head \in Nat /\ latestBlock[r] \in Int
  BY ChainAssumption DEF TypeOK, Block, NoBlock
<1>2. latestBlock[r] <= head
  BY DEF RangesInv
<1>3. RangeEnd(r) \in Int /\ RangeEnd(r) <= latestBlock[r]
  BY <1>1, QueryMaxBlocksAssumption DEF RangeEnd
<1>. QED  BY <1>1, <1>2, <1>3

LEMMA TypeInit == Init => TypeOK /\ RangesInv
  BY ChainAssumption
  DEF Init, TypeOK, RangesInv, Block, NoBlock, Stage, Ended

LEMMA TypeStep == TypeOK /\ RangesInv /\ [Next]_vars => TypeOK' /\ RangesInv'
<1> SUFFICES ASSUME TypeOK, RangesInv, [Next]_vars PROVE TypeOK' /\ RangesInv'
  OBVIOUS
<1>1. CASE NewBlock
  <2>1. head \in Nat /\ head' = head + 1 /\ head' \in Block
    BY <1>1, ChainAssumption DEF NewBlock, TypeOK, Block
  <2>2. \A r \in Run : latestBlock[r] \in Int
    BY ChainAssumption DEF TypeOK, Block, NoBlock
  <2>3. RangesInv'
    BY <1>1, <2>1, <2>2 DEF NewBlock, RangesInv
  <2>4. \A r \in Run : events'[r] \subseteq 0 .. head'
    BY <1>1, <2>1 DEF NewBlock, TypeOK
  <2>. QED  BY <1>1, <2>1, <2>3, <2>4 DEF NewBlock, TypeOK
<1>2. ASSUME NEW r \in Run, Trigger(r) PROVE TypeOK' /\ RangesInv'
  BY <1>2 DEF Trigger, GoTo, TypeOK, RangesInv, Stage
<1>3. ASSUME NEW r \in Run, ReadLastSuccessfulBlock(r) PROVE TypeOK' /\ RangesInv'
  BY <1>3, ChainAssumption
  DEF ReadLastSuccessfulBlock, GoTo, TypeOK, RangesInv, Stage, Block, NoBlock
<1>4. ASSUME NEW r \in Run, GetBlockNumber(r) PROVE TypeOK' /\ RangesInv'
  <2>1. head \in Nat /\ 0 .. head \subseteq Block
    BY ChainAssumption DEF TypeOK, Block
  <2>2. PICK b \in 0 .. head : latestBlock' = [latestBlock EXCEPT ![r] = b]
    BY <1>4, <2>1 DEF GetBlockNumber
  <2>3. faults' \in Nat
    BY <1>4, FaultTyped DEF GetBlockNumber, TypeOK
  <2>4. RangesInv'
    BY <1>4, <2>1, <2>2 DEF GetBlockNumber, TypeOK, RangesInv
  <2>5. stage' \in [Run -> Stage]
    BY <1>4 DEF GetBlockNumber, GoTo, TypeOK, Stage
  <2>. QED  BY <1>4, <2>1, <2>2, <2>3, <2>4, <2>5 DEF GetBlockNumber, TypeOK
<1>5. ASSUME NEW r \in Run, PullEvents(r) PROVE TypeOK' /\ RangesInv'
  <2> DEFINE pulled == currBlock[r] .. RangeEnd(r)
  <2>0. task = "logging" => Write("log", pulled)
    BY <1>5 DEF PullEvents
  <2>1. pulled \subseteq 0 .. head /\ pulled \subseteq Block
    BY <1>5, PulledAreMined, ChainAssumption DEF TypeOK, Block
  <2>2. handled' \in [Sink -> [Block -> Nat]]
    <3>1. CASE task = "logging"
      <4>1. "log" \in Sink
        BY DEF Sink
      <4>. HIDE DEF pulled
      <4>. QED  BY <2>0, <3>1, <4>1, WriteCounts
    <3>2. CASE task # "logging"
      BY <1>5, <3>2 DEF PullEvents, TypeOK
    <3>. QED  BY <3>1, <3>2
  <2>3. /\ events' = [events EXCEPT ![r] = @ \cup pulled]
        /\ currBlock' = [currBlock EXCEPT ![r] = @ + QueryMaxBlocks]
        /\ UNCHANGED <<task, head, blockNumber, used, stage, latestBlock, jobs, faults>>
    BY <1>5 DEF PullEvents
  <2>. HIDE DEF pulled
  <2>4. /\ events' \in [Run -> SUBSET Block]
        /\ \A q \in Run : events'[q] \subseteq 0 .. head
    BY <2>1, <2>3 DEF TypeOK
  <2>5. currBlock' \in [Run -> Nat]
    BY <2>3, QueryMaxBlocksAssumption DEF TypeOK
  <2>. QED  BY <2>2, <2>3, <2>4, <2>5 DEF TypeOK, RangesInv
<1>6. ASSUME NEW r \in Run, AllPulled(r) PROVE TypeOK' /\ RangesInv'
  BY <1>6 DEF AllPulled, GoTo, BurnerOf, TypeOK, RangesInv, Stage, Burner, JobStep
<1>7. ASSUME NEW r \in Run, ExecuteTransfers(r) \/ ExecuteTransfersUnconfirmed(r)
      PROVE  TypeOK' /\ RangesInv'
  <2>1. handled' \in [Sink -> [Block -> Nat]]
    BY <1>7, WriteCounts DEF ExecuteTransfers, ExecuteTransfersUnconfirmed, Sink, TypeOK
  <2>2. faults' \in Nat
    BY <1>7, FaultTyped DEF ExecuteTransfers, ExecuteTransfersUnconfirmed, TypeOK
  <2>. QED  BY <1>7, <2>1, <2>2
            DEF ExecuteTransfers, ExecuteTransfersUnconfirmed, GoTo, TypeOK,
                RangesInv, Stage, Ended
<1>8. ASSUME NEW r \in Run, NEW g \in Burner, FindPurchase(r, g)
      PROVE  TypeOK' /\ RangesInv'
  BY <1>8 DEF FindPurchase, Advance, TypeOK, RangesInv, JobStep
<1>9. ASSUME NEW r \in Run, NEW g \in Burner, UpdatePurchase(r, g)
      PROVE  TypeOK' /\ RangesInv'
  <2>1. handled' \in [Sink -> [Block -> Nat]]
    BY <1>9, WriteCounts DEF UpdatePurchase, Sink
  <2>2. Cardinality(BurnedBy(r, g)) \in Nat
    <3>1. IsFiniteSet(Block)
      BY FS_Interval, ChainAssumption DEF Block
    <3>2. BurnedBy(r, g) \subseteq Block
      BY DEF TypeOK, BurnedBy
    <3>. QED  BY <3>1, <3>2, FS_Subset, FS_CardinalityType
  <2>3. used' \in Nat
    BY <1>9, <2>2 DEF UpdatePurchase, TypeOK
  <2>. QED  BY <1>9, <2>1, <2>3 DEF UpdatePurchase, Advance, TypeOK, RangesInv, JobStep
<1>10. ASSUME NEW r \in Run, NEW g \in Burner, InsertBurnedCoupons(r, g)
       PROVE  TypeOK' /\ RangesInv'
  <2>1. handled' \in [Sink -> [Block -> Nat]]
    BY <1>10, WriteCounts DEF InsertBurnedCoupons, Sink
  <2>. QED  BY <1>10, <2>1 DEF InsertBurnedCoupons, Advance, TypeOK, RangesInv
<1>11. ASSUME NEW r \in Run, BurnsWritten(r) PROVE TypeOK' /\ RangesInv'
  BY <1>11 DEF BurnsWritten, GoTo, TypeOK, RangesInv, Stage
<1>12. ASSUME NEW r \in Run, SyncBurnsWithFineract(r) \/ SyncBurnsUnconfirmed(r)
       PROVE  TypeOK' /\ RangesInv'
  <2>1. handled' \in [Sink -> [Block -> Nat]]
    BY <1>12, WriteCounts DEF SyncBurnsWithFineract, SyncBurnsUnconfirmed, Sink, TypeOK
  <2>2. faults' \in Nat
    BY <1>12, FaultTyped DEF SyncBurnsWithFineract, SyncBurnsUnconfirmed, TypeOK
  <2>3. stage' \in [Run -> Stage]
    BY <1>12 DEF SyncBurnsWithFineract, SyncBurnsUnconfirmed, GoTo, TypeOK, Stage
  <2>. QED  BY <1>12, <2>1, <2>2, <2>3
            DEF SyncBurnsWithFineract, SyncBurnsUnconfirmed, TypeOK, RangesInv
<1>13. ASSUME NEW r \in Run, WriteLastSuccessfulBlock(r) PROVE TypeOK' /\ RangesInv'
  BY <1>13 DEF WriteLastSuccessfulBlock, GoTo, TypeOK, RangesInv, Stage
<1>14. ASSUME NEW r \in Run, Throws(r) PROVE TypeOK' /\ RangesInv'
  BY <1>14, FaultTyped DEF Throws, GoTo, TypeOK, RangesInv, Stage
<1>15. ASSUME NEW r \in Run, Crash(r) PROVE TypeOK' /\ RangesInv'
  BY <1>15, FaultTyped DEF Crash, GoTo, TypeOK, RangesInv, Stage
<1>16. CASE UNCHANGED vars
  BY <1>16 DEF vars, TypeOK, RangesInv
<1>17. ASSUME NEW r \in Run, SyncBurnsRefused(r) PROVE TypeOK' /\ RangesInv'
  <2>1. handled' \in [Sink -> [Block -> Nat]] /\ faults' \in Nat
    BY <1>17, RefusedCounts, FaultTyped DEF SyncBurnsRefused
  <2>. QED  BY <1>17, <2>1
            DEF SyncBurnsRefused, GoTo, TypeOK, RangesInv, Stage
<1>. QED
  BY <1>1, <1>2, <1>3, <1>4, <1>5, <1>6, <1>7, <1>8, <1>9, <1>10, <1>11, <1>12,
     <1>13, <1>14, <1>15, <1>16, <1>17 DEF Next, Step, Environment, Finished

-----------------------------------------------------------------------------
(***************************************************************************)
(* What a run still owes.  A block below the next range that the run's     *)
(* latest block covers was dealt with, is the end of somebody's ranges, or *)
(* is among the events the run still holds; a run about to move the cursor *)
(* has dealt with its events.                                              *)
(***************************************************************************)
Unread == {"idle", "started", "reading"}
Ranging == {"reading", "pulling"}
AllRead == {"transfers", "purchases", "fineract", "saving"}

Covered(r, b) == \/ DealtWith(b)
                 \/ SkippedAtEnd(b)
                 \/ b \in events[r]

LatestInv(r) ==
  /\ stage[r] \in Unread => latestBlock[r] = NoBlock
  /\ stage[r] \in AllRead \cup {"pulling"} => latestBlock[r] \in Block
  /\ stage[r] \in AllRead => latestBlock[r] <= currBlock[r]
  /\ stage[r] = "transfers" => task = "rewards"
  /\ stage[r] \in {"purchases", "fineract"} => task = "burns"

CoveredInv(r) ==
  stage[r] \in Ranging \cup AllRead =>
    \A b \in Block :
      b < currBlock[r] /\ (latestBlock[r] = NoBlock \/ b <= latestBlock[r])
        => Covered(r, b)

DoneInv(r) ==
  stage[r] = "saving" \/ task = "logging" => \A b \in events[r] : DealtWith(b)

CoverInv == /\ TypeOK
            /\ RangesInv
            /\ \A r \in Run : LatestInv(r) /\ CoveredInv(r) /\ DoneInv(r)
            /\ OnlyRangeEndsAreSkipped

LEMMA FinalSinkIsSink == ASSUME TypeOK PROVE FinalSink \in Sink
  BY TasksAssumption DEF TypeOK, FinalSink, Sink

\* A behavior is of one task.
LEMMA TaskStays == ASSUME [Next]_vars PROVE task' = task
  BY DEF Next, Step, Environment, Finished, vars, NewBlock, Trigger,
         ReadLastSuccessfulBlock, GetBlockNumber, PullEvents, AllPulled,
         ExecuteTransfers, ExecuteTransfersUnconfirmed, FindPurchase,
         UpdatePurchase, InsertBurnedCoupons, BurnsWritten,
         SyncBurnsWithFineract, SyncBurnsRefused, SyncBurnsUnconfirmed,
         WriteLastSuccessfulBlock, Throws, Crash

\* No step takes back what was written.
LEMMA HandledGrows ==
  ASSUME TypeOK, [Next]_vars
  PROVE  \A t \in Sink, b \in Block : handled'[t][b] >= handled[t][b]
<1>1. ASSUME NEW s \in Sink, NEW blocks, Write(s, blocks)
      PROVE  \A t \in Sink, b \in Block : handled'[t][b] >= handled[t][b]
  BY <1>1, WriteCounts
<1>2. ASSUME handled' = handled
      PROVE  \A t \in Sink, b \in Block : handled'[t][b] >= handled[t][b]
  BY <1>2 DEF TypeOK
<1>3. ASSUME NEW r \in Run, PullEvents(r)
      PROVE  handled' = handled \/ \E blocks : Write("log", blocks)
  BY <1>3 DEF PullEvents
<1>4. /\ "log" \in Sink /\ "transfers" \in Sink /\ "purchases" \in Sink
      /\ "burnedCoupons" \in Sink /\ "fineract" \in Sink
  BY DEF Sink
<1>5. \/ handled' = handled
      \/ \E s \in Sink : \E blocks : Write(s, blocks)
      \/ \E r \in Run : SyncBurnsRefused(r)
  <2>. SUFFICES ASSUME handled' # handled, ~ \E r \in Run : SyncBurnsRefused(r)
                PROVE  \E s \in Sink : \E blocks : Write(s, blocks)
    OBVIOUS
  <2>1. \/ \E r \in Run : \/ PullEvents(r)
                          \/ ExecuteTransfers(r)
                          \/ ExecuteTransfersUnconfirmed(r)
                          \/ \E g \in Burner : UpdatePurchase(r, g)
                          \/ \E g \in Burner : InsertBurnedCoupons(r, g)
                          \/ SyncBurnsWithFineract(r)
                          \/ SyncBurnsUnconfirmed(r)
    BY DEF Next, Step, Environment, Finished, vars, NewBlock, Trigger,
           ReadLastSuccessfulBlock, GetBlockNumber, AllPulled, FindPurchase,
           BurnsWritten, WriteLastSuccessfulBlock, Throws, Crash
  <2>2. CASE \E r \in Run : PullEvents(r)
    BY <1>3, <1>4, <2>2
  <2>3. CASE \E r \in Run : ExecuteTransfers(r) \/ ExecuteTransfersUnconfirmed(r)
    BY <1>4, <2>3 DEF ExecuteTransfers, ExecuteTransfersUnconfirmed
  <2>4. CASE \E r \in Run, g \in Burner : UpdatePurchase(r, g)
    BY <1>4, <2>4 DEF UpdatePurchase
  <2>5. CASE \E r \in Run, g \in Burner : InsertBurnedCoupons(r, g)
    BY <1>4, <2>5 DEF InsertBurnedCoupons
  <2>6. CASE \E r \in Run : SyncBurnsWithFineract(r) \/ SyncBurnsUnconfirmed(r)
    BY <1>4, <2>6 DEF SyncBurnsWithFineract, SyncBurnsUnconfirmed
  <2>. QED  BY <2>1, <2>2, <2>3, <2>4, <2>5, <2>6
<1>. QED  BY <1>1, <1>2, <1>5, RefusedCounts

\* What was dealt with stays so.
LEMMA DealtWithStays ==
  ASSUME TypeOK, TypeOK', [Next]_vars, NEW b \in Block, DealtWith(b)
  PROVE  DealtWith(b)'
<1>1. /\ handled'[FinalSink][b] >= handled[FinalSink][b]
      /\ handled'["refused"][b] >= handled["refused"][b]
  BY FinalSinkIsSink, HandledGrows DEF Sink
<1>2. /\ handled[FinalSink][b] \in Nat /\ handled'[FinalSink][b] \in Nat
      /\ handled["refused"][b] \in Nat /\ handled'["refused"][b] \in Nat
  BY FinalSinkIsSink DEF TypeOK, Sink
<1>3. DealtWith(b)' <=> \/ handled'[FinalSink][b] > 0
                        \/ task = "rewards" /\ b \in Unregistered
                        \/ task = "burns" /\ handled'["refused"][b] > 0
  BY TaskStays DEF DealtWith, FinalSink
<1>. QED  BY <1>1, <1>2, <1>3 DEF DealtWith

\* A run whose next range would begin at its latest block is past its ranges.
LEMMA SkippedStays ==
  ASSUME TypeOK, \A r \in Run : LatestInv(r), [Next]_vars,
         NEW b \in Block, SkippedAtEnd(b)
  PROVE  SkippedAtEnd(b)'
<1>1. PICK r \in Run : latestBlock[r] = b /\ currBlock[r] = b
  BY DEF SkippedAtEnd
<1>2. b \in Nat /\ b # NoBlock
  BY DEF Block, NoBlock
<1>3. stage[r] \notin Unread
  BY <1>1, <1>2 DEF LatestInv
<1>4. latestBlock'[r] = b /\ currBlock'[r] = b
  <2>1. ASSUME NEW q \in Run, ReadLastSuccessfulBlock(q) \/ GetBlockNumber(q)
        PROVE  latestBlock'[r] = b /\ currBlock'[r] = b
    <3>1. q # r
      BY <1>3, <2>1 DEF ReadLastSuccessfulBlock, GetBlockNumber, Unread
    <3>. QED  BY <1>1, <2>1, <3>1 DEF ReadLastSuccessfulBlock, GetBlockNumber, TypeOK
  <2>2. ASSUME NEW q \in Run, PullEvents(q)
        PROVE  latestBlock'[r] = b /\ currBlock'[r] = b
    <3>1. q # r
      BY <1>1, <1>2, <2>2 DEF PullEvents, MoreRanges
    <3>. QED  BY <1>1, <2>2, <3>1 DEF PullEvents, TypeOK
  <2>3. CASE UNCHANGED <<currBlock, latestBlock>>
    BY <1>1, <2>3
  <2>4. \/ \E q \in Run : ReadLastSuccessfulBlock(q) \/ GetBlockNumber(q)
        \/ \E q \in Run : PullEvents(q)
        \/ UNCHANGED <<currBlock, latestBlock>>
    BY DEF Next, Step, Environment, Finished, vars, NewBlock, Trigger, AllPulled,
           ExecuteTransfers, ExecuteTransfersUnconfirmed, FindPurchase,
           UpdatePurchase, InsertBurnedCoupons, BurnsWritten,
           SyncBurnsWithFineract, SyncBurnsRefused, SyncBurnsUnconfirmed,
           WriteLastSuccessfulBlock, Throws, Crash
  <2>. QED  BY <2>1, <2>2, <2>3, <2>4
<1>. QED  BY <1>4 DEF SkippedAtEnd

\* The per-run parts of the invariant where a step left the run alone.
LEMMA OthersKeep ==
  ASSUME TypeOK, TypeOK', [Next]_vars, \A q \in Run : LatestInv(q),
         NEW r \in Run, LatestInv(r), CoveredInv(r), DoneInv(r),
         UNCHANGED <<stage[r], currBlock[r], latestBlock[r], events[r]>>
  PROVE  LatestInv(r)' /\ CoveredInv(r)' /\ DoneInv(r)'
<1>. USE TaskStays
<1>1. LatestInv(r)'
  BY DEF LatestInv
<1>2. ASSUME NEW b \in Block, stage[r] \in Ranging \cup AllRead, b < currBlock[r],
             latestBlock[r] = NoBlock \/ b <= latestBlock[r]
      PROVE  Covered(r, b)'
  <2>1. Covered(r, b)
    BY <1>2 DEF CoveredInv
  <2>2. CASE DealtWith(b)
    BY <2>2, DealtWithStays DEF Covered
  <2>3. CASE SkippedAtEnd(b)
    BY <2>3, SkippedStays DEF Covered
  <2>4. CASE b \in events[r]
    BY <2>4 DEF Covered
  <2>. QED  BY <2>1, <2>2, <2>3, <2>4 DEF Covered
<1>3. CoveredInv(r)'
  BY <1>2 DEF CoveredInv
<1>4. ASSUME stage[r] = "saving" \/ task = "logging", NEW b \in events[r]
      PROVE  DealtWith(b)'
  BY <1>4, DealtWithStays DEF DoneInv, TypeOK
<1>5. DoneInv(r)'
  BY <1>4 DEF DoneInv
<1>. QED  BY <1>1, <1>3, <1>5

LEMMA CoverInit == Init => CoverInv
<1>. SUFFICES ASSUME Init PROVE CoverInv
  OBVIOUS
<1>1. TypeOK /\ RangesInv
  BY TypeInit
<1>. QED  BY <1>1 DEF Init, CoverInv, LatestInv, CoveredInv, DoneInv, Unread,
                      Ranging, AllRead, OnlyRangeEndsAreSkipped, NoBlock

\* A step of run r re-establishes the parts about r; these lemmas have what
\* happens to a single block in it.
LEMMA CoveredStays ==
  ASSUME TypeOK, TypeOK', [Next]_vars, \A q \in Run : LatestInv(q),
         NEW r \in Run, NEW b \in Block, Covered(r, b), b \in events[r] => b \in events'[r]
  PROVE  Covered(r, b)'
  BY DealtWithStays, SkippedStays DEF Covered

\* A step that leaves the cursor alone leaves what it stands for.
LEMMA CursorKeeps ==
  ASSUME TypeOK, TypeOK', [Next]_vars, \A q \in Run : LatestInv(q),
         OnlyRangeEndsAreSkipped, UNCHANGED blockNumber
  PROVE  OnlyRangeEndsAreSkipped'
<1>. SUFFICES ASSUME NEW b \in 0 .. blockNumber
              PROVE  DealtWith(b)' \/ SkippedAtEnd(b)'
  BY DEF OnlyRangeEndsAreSkipped
<1>1. b \in Block
  BY ChainAssumption DEF TypeOK, Block, NoBlock
<1>. QED  BY <1>1, DealtWithStays, SkippedStays DEF OnlyRangeEndsAreSkipped

LEMMA CoverStep == CoverInv /\ [Next]_vars => CoverInv'
<1>. SUFFICES ASSUME CoverInv, [Next]_vars PROVE CoverInv'
  OBVIOUS
<1>. USE DEF CoverInv
<1>0. task' = task
  BY TaskStays
<1>. USE <1>0
<1>1. TypeOK' /\ RangesInv'
  BY TypeStep
<1>2. ASSUME NEW r \in Run,
             \A q \in Run : q # r => UNCHANGED <<stage[q], currBlock[q],
                                               latestBlock[q], events[q]>>,
             LatestInv(r)' /\ CoveredInv(r)' /\ DoneInv(r)'
      PROVE  \A q \in Run : LatestInv(q)' /\ CoveredInv(q)' /\ DoneInv(q)'
  <2>. SUFFICES ASSUME NEW q \in Run, q # r
                PROVE  LatestInv(q)' /\ CoveredInv(q)' /\ DoneInv(q)'
    BY <1>2
  <2>. QED  BY <1>1, <1>2, OthersKeep
<1>3. ASSUME UNCHANGED <<stage, currBlock, latestBlock, events, blockNumber>>
      PROVE  CoverInv'
  BY <1>1, <1>3, OthersKeep, CursorKeeps
\* Stages that owe nothing: the run has not read the cursor, or it failed.
<1>4. ASSUME NEW r \in Run, NEW s \in {"started", "failed"}, GoTo(r, s),
             s = "started" => stage[r] = "idle",
             UNCHANGED <<currBlock, latestBlock, events, blockNumber>>
      PROVE  CoverInv'
  <2>1. /\ stage'[r] = s
        /\ \A q \in Run : q # r => stage'[q] = stage[q]
    BY <1>4 DEF GoTo, TypeOK
  <2>2. LatestInv(r)' /\ CoveredInv(r)'
    BY <1>4, <2>1 DEF LatestInv, CoveredInv, Unread, Ranging, AllRead
  <2>3. ASSUME task = "logging", NEW b \in events[r] PROVE DealtWith(b)'
    BY <1>1, <2>3, DealtWithStays DEF DoneInv, TypeOK
  <2>4. DoneInv(r)'
    BY <1>4, <2>1, <2>3 DEF DoneInv
  <2>. QED  BY <1>1, <1>2, <1>4, <2>1, <2>2, <2>4, CursorKeeps
\* The run moves on after its last range, holding the same events.
<1>5. ASSUME NEW r \in Run, NEW s \in AllRead, GoTo(r, s),
             stage[r] \in AllRead \cup {"pulling"},
             stage[r] = "pulling" => ~ MoreRanges(r),
             s = "transfers" => task = "rewards",
             s \in {"purchases", "fineract"} => task = "burns",
             s = "saving" => \A b \in events[r] : DealtWith(b)',
             UNCHANGED <<currBlock, latestBlock, events, blockNumber>>
      PROVE  CoverInv'
  <2>1. /\ stage'[r] = s
        /\ \A q \in Run : q # r => stage'[q] = stage[q]
    BY <1>5 DEF GoTo, TypeOK
  <2>2. latestBlock[r] \in Block /\ latestBlock[r] <= currBlock[r]
    BY <1>5, ChainAssumption DEF LatestInv, MoreRanges, TypeOK, AllRead, Block
  <2>3. LatestInv(r)'
    BY <1>5, <2>1, <2>2 DEF LatestInv, Unread, AllRead
  <2>4. ASSUME NEW b \in Block, b < currBlock[r],
               latestBlock[r] = NoBlock \/ b <= latestBlock[r]
        PROVE  Covered(r, b)'
    <3>1. Covered(r, b)
      BY <1>5, <2>4 DEF CoveredInv, Ranging
    <3>. QED  BY <1>1, <1>5, <3>1, CoveredStays
  <2>5. CoveredInv(r)'
    BY <1>5, <2>4 DEF CoveredInv
  <2>6. ASSUME task = "logging", NEW b \in events[r] PROVE DealtWith(b)'
    BY <1>1, <2>6, DealtWithStays DEF DoneInv, TypeOK
  <2>7. DoneInv(r)'
    BY <1>5, <2>1, <2>6 DEF DoneInv
  <2>. QED  BY <1>1, <1>2, <1>5, <2>1, <2>3, <2>5, <2>7, CursorKeeps
<1>6. ASSUME NEW r \in Run, ReadLastSuccessfulBlock(r) PROVE CoverInv'
  <2>1. /\ stage[r] = "started" /\ stage'[r] = "reading"
        /\ currBlock'[r] = blockNumber + 1
        /\ UNCHANGED <<latestBlock, events, blockNumber>>
        /\ \A q \in Run : q # r => UNCHANGED <<stage[q], currBlock[q]>>
    BY <1>6 DEF ReadLastSuccessfulBlock, GoTo, TypeOK
  <2>2. latestBlock[r] = NoBlock
    BY <2>1 DEF LatestInv, Unread
  <2>3. LatestInv(r)'
    BY <2>1, <2>2 DEF LatestInv, Unread, AllRead
  <2>4. ASSUME NEW b \in Block, b < blockNumber + 1 PROVE Covered(r, b)'
    <3>1. b \in 0 .. blockNumber
      BY <2>4, ChainAssumption DEF TypeOK, Block, NoBlock
    <3>2. DealtWith(b) \/ SkippedAtEnd(b)
      BY <3>1 DEF OnlyRangeEndsAreSkipped
    <3>. QED  BY <1>1, <2>1, <3>2, CoveredStays DEF Covered
  <2>5. CoveredInv(r)'
    BY <2>1, <2>4 DEF CoveredInv
  <2>6. ASSUME task = "logging", NEW b \in events[r] PROVE DealtWith(b)'
    BY <1>1, <2>6, DealtWithStays DEF DoneInv, TypeOK
  <2>7. DoneInv(r)'
    BY <2>1, <2>6 DEF DoneInv
  <2>. QED  BY <1>1, <1>2, <2>1, <2>3, <2>5, <2>7, CursorKeeps
<1>7. ASSUME NEW r \in Run, GetBlockNumber(r) PROVE CoverInv'
  <2>1. /\ stage[r] = "reading" /\ stage'[r] = "pulling"
        /\ UNCHANGED <<currBlock, events, blockNumber>>
        /\ \A q \in Run : q # r => UNCHANGED <<stage[q], latestBlock[q]>>
    BY <1>7 DEF GetBlockNumber, GoTo, TypeOK
  <2>2. latestBlock[r] = NoBlock
    BY <2>1 DEF LatestInv, Unread
  <2>3. latestBlock'[r] \in Block
    <3>1. head \in Nat /\ 0 .. head \subseteq Block
      BY ChainAssumption DEF TypeOK, Block
    <3>. QED  BY <1>7, <3>1 DEF GetBlockNumber, TypeOK
  <2>4. LatestInv(r)'
    BY <2>1, <2>3 DEF LatestInv, Unread, AllRead
  <2>5. ASSUME NEW b \in Block, b < currBlock[r] PROVE Covered(r, b)'
    <3>1. Covered(r, b)
      BY <2>1, <2>2, <2>5 DEF CoveredInv, Ranging
    <3>. QED  BY <1>1, <2>1, <3>1, CoveredStays
  <2>6. CoveredInv(r)'
    BY <2>1, <2>5 DEF CoveredInv
  <2>7. ASSUME task = "logging", NEW b \in events[r] PROVE DealtWith(b)'
    BY <1>1, <2>7, DealtWithStays DEF DoneInv, TypeOK
  <2>8. DoneInv(r)'
    BY <2>1, <2>7 DEF DoneInv
  <2>. QED  BY <1>1, <1>2, <2>1, <2>4, <2>6, <2>8, CursorKeeps
<1>8. ASSUME NEW r \in Run, PullEvents(r) PROVE CoverInv'
  <2>. DEFINE pulled == currBlock[r] .. RangeEnd(r)
  <2>1. /\ stage[r] = "pulling" /\ MoreRanges(r)
        /\ UNCHANGED <<stage, latestBlock, blockNumber>>
        /\ currBlock'[r] = currBlock[r] + QueryMaxBlocks
        /\ events'[r] = events[r] \cup pulled
        /\ \A q \in Run : q # r => UNCHANGED <<currBlock[q], events[q]>>
        /\ task = "logging" => Write("log", pulled)
    BY <1>8 DEF PullEvents, TypeOK
  <2>2. /\ latestBlock[r] \in Nat /\ currBlock[r] \in Nat
        /\ latestBlock[r] # NoBlock
    BY <2>1, ChainAssumption DEF LatestInv, TypeOK, Block, NoBlock
  <2>3. ASSUME NEW b \in Block, b >= currBlock[r],
               b < currBlock[r] + QueryMaxBlocks, b <= latestBlock[r]
        PROVE  b \in pulled
    BY <2>2, <2>3, QueryMaxBlocksAssumption DEF RangeEnd, Block
  <2>4. ASSUME task = "logging", NEW b \in pulled, b \in Block PROVE DealtWith(b)'
    <3>. HIDE DEF pulled
    <3>1. FinalSink = "log" /\ "log" \in Sink
      BY <2>4 DEF FinalSink, Sink
    <3>2. handled'["log"][b] > 0
      BY <2>1, <2>4, <3>1, WriteCounts
    <3>. QED  BY <2>4, <3>2 DEF DealtWith, FinalSink
  <2>. HIDE DEF pulled
  <2>5. LatestInv(r)'
    BY <2>1 DEF LatestInv, Unread, AllRead
  <2>6. ASSUME NEW b \in Block, b < currBlock[r] + QueryMaxBlocks,
               b <= latestBlock[r]
        PROVE  Covered(r, b)'
    <3>1. CASE b < currBlock[r]
      <4>1. Covered(r, b)
        BY <2>1, <2>6, <3>1 DEF CoveredInv, Ranging
      <4>. QED  BY <1>1, <2>1, <4>1, CoveredStays
    <3>2. CASE b >= currBlock[r]
      BY <2>1, <2>3, <2>6, <3>2 DEF Covered
    <3>3. b \in Int
      BY DEF Block
    <3>. QED  BY <2>2, <3>1, <3>2, <3>3
  <2>7. CoveredInv(r)'
    BY <2>1, <2>2, <2>6 DEF CoveredInv
  <2>8. ASSUME task = "logging", NEW b \in events'[r] PROVE DealtWith(b)'
    <3>1. b \in Block
      BY <1>1 DEF TypeOK
    <3>2. CASE b \in events[r]
      BY <1>1, <2>8, <3>1, <3>2, DealtWithStays DEF DoneInv
    <3>3. CASE b \in pulled
      BY <2>4, <2>8, <3>1, <3>3
    <3>. QED  BY <2>1, <3>2, <3>3
  <2>9. DoneInv(r)'
    BY <2>1, <2>8 DEF DoneInv
  <2>. QED  BY <1>1, <1>2, <2>1, <2>5, <2>7, <2>9, CursorKeeps
<1>9. ASSUME NEW r \in Run, AllPulled(r) PROVE CoverInv'
  <2>1. /\ stage[r] = "pulling" /\ ~ MoreRanges(r)
        /\ UNCHANGED <<handled, currBlock, latestBlock, events, blockNumber>>
    BY <1>9 DEF AllPulled
  <2>2. PICK s \in AllRead :
          /\ GoTo(r, s)
          /\ s = "saving" => task = "logging"
          /\ s = "transfers" => task = "rewards"
          /\ s \in {"purchases", "fineract"} => task = "burns"
    BY <1>9 DEF AllPulled, AllRead
  <2>3. ASSUME s = "saving", NEW b \in events[r] PROVE DealtWith(b)'
    BY <1>1, <2>2, <2>3, DealtWithStays DEF DoneInv, TypeOK
  <2>. QED  BY <1>5, <2>1, <2>2, <2>3
<1>10. ASSUME NEW r \in Run, ExecuteTransfers(r) PROVE CoverInv'
  <2>1. CASE events[r] \ Unregistered = {} /\ events[r] # {}
    BY <1>4, <1>10, <2>1 DEF ExecuteTransfers
  <2>2. CASE ~ (events[r] \ Unregistered = {} /\ events[r] # {})
    <3>1. /\ stage[r] = "transfers" /\ GoTo(r, "saving")
          /\ Write("transfers", events[r] \ Unregistered)
          /\ UNCHANGED <<currBlock, latestBlock, events, blockNumber>>
      BY <1>10, <2>2 DEF ExecuteTransfers
    <3>2. task = "rewards"
      BY <3>1 DEF LatestInv
    <3>3. ASSUME NEW b \in events[r] PROVE DealtWith(b)'
      <4>1. b \in Block /\ "transfers" \in Sink
        BY DEF TypeOK, Sink
      <4>2. b \in Unregistered \/ handled'["transfers"][b] > 0
        BY <3>1, <4>1, WriteCounts
      <4>. QED  BY <3>2, <4>2 DEF DealtWith, FinalSink
    <3>. QED  BY <1>5, <3>1, <3>3 DEF AllRead
  <2>. QED  BY <2>1, <2>2
<1>11. ASSUME NEW r \in Run, SyncBurnsWithFineract(r) PROVE CoverInv'
  <2>1. CASE events[r] \cap Unregistered = {}
    <3>1. /\ stage[r] = "fineract" /\ GoTo(r, "saving")
          /\ Write("fineract", events[r])
          /\ UNCHANGED <<currBlock, latestBlock, events, blockNumber>>
      BY <1>11, <2>1 DEF SyncBurnsWithFineract
    <3>2. task = "burns"
      BY <3>1 DEF LatestInv
    <3>3. ASSUME NEW b \in events[r] PROVE DealtWith(b)'
      <4>1. b \in Block /\ "fineract" \in Sink
        BY DEF TypeOK, Sink
      <4>2. handled'["fineract"][b] > 0
        BY <3>1, <4>1, WriteCounts
      <4>. QED  BY <3>2, <4>2 DEF DealtWith, FinalSink
    <3>. QED  BY <1>5, <3>1, <3>3 DEF AllRead
  <2>2. CASE events[r] \cap Unregistered # {}
    BY <1>4, <1>11, <2>2 DEF SyncBurnsWithFineract
  <2>. QED  BY <2>1, <2>2
<1>12. ASSUME NEW r \in Run, BurnsWritten(r) PROVE CoverInv'
  <2>1. /\ stage[r] = "purchases" /\ GoTo(r, "fineract")
        /\ UNCHANGED <<currBlock, latestBlock, events, blockNumber>>
    BY <1>12 DEF BurnsWritten
  <2>2. task = "burns"
    BY <2>1 DEF LatestInv
  <2>. QED  BY <1>5, <2>1, <2>2 DEF AllRead
\* The step the theorem is about: the cursor moves to the run's latest block.
<1>13. ASSUME NEW r \in Run, WriteLastSuccessfulBlock(r) PROVE CoverInv'
  <2>1. /\ stage[r] = "saving" /\ stage'[r] = "done"
        /\ blockNumber' = latestBlock[r]
        /\ UNCHANGED <<handled, currBlock, latestBlock, events>>
        /\ \A q \in Run : q # r => stage'[q] = stage[q]
    BY <1>13 DEF WriteLastSuccessfulBlock, GoTo, TypeOK
  <2>2. LatestInv(r)' /\ CoveredInv(r)'
    BY <2>1 DEF LatestInv, CoveredInv, Unread, Ranging, AllRead
  <2>3. ASSUME NEW b \in events[r] PROVE DealtWith(b)'
    BY <1>1, <2>1, <2>3, DealtWithStays DEF DoneInv, TypeOK
  <2>4. DoneInv(r)'
    BY <2>1, <2>3 DEF DoneInv
  <2>5. /\ latestBlock[r] \in Block /\ currBlock[r] \in Nat
        /\ latestBlock[r] <= currBlock[r]
    BY <2>1 DEF LatestInv, AllRead, TypeOK
  <2>6. ASSUME NEW b \in 0 .. latestBlock[r] PROVE DealtWith(b)' \/ SkippedAtEnd(b)'
    <3>1. b \in Block /\ latestBlock[r] \in Nat
      BY <2>5, ChainAssumption DEF Block
    <3>2. CASE b < currBlock[r]
      <4>1. Covered(r, b)
        BY <2>1, <2>5, <2>6, <3>1, <3>2 DEF CoveredInv, AllRead
      <4>2. CASE DealtWith(b)
        BY <1>1, <3>1, <4>2, DealtWithStays
      <4>3. CASE SkippedAtEnd(b)
        BY <3>1, <4>3, SkippedStays
      <4>4. CASE b \in events[r]
        BY <2>3, <4>4
      <4>. QED  BY <4>1, <4>2, <4>3, <4>4 DEF Covered
    <3>3. CASE b = currBlock[r]
      BY <2>1, <2>5, <3>1, <3>3 DEF SkippedAtEnd
    <3>. QED  BY <2>5, <3>1, <3>2, <3>3
  <2>7. OnlyRangeEndsAreSkipped'
    BY <2>1, <2>6 DEF OnlyRangeEndsAreSkipped
  <2>. QED  BY <1>1, <1>2, <2>1, <2>2, <2>4, <2>7
<1>14. ASSUME NEW r \in Run, Trigger(r) PROVE CoverInv'
  BY <1>4, <1>14 DEF Trigger
<1>15. ASSUME NEW r \in Run, ExecuteTransfersUnconfirmed(r) \/ SyncBurnsUnconfirmed(r)
       PROVE  CoverInv'
  BY <1>4, <1>15 DEF ExecuteTransfersUnconfirmed, SyncBurnsUnconfirmed
<1>16. ASSUME NEW r \in Run, Throws(r) PROVE CoverInv'
  BY <1>4, <1>16 DEF Throws
<1>17. ASSUME NEW r \in Run, Crash(r) PROVE CoverInv'
  <2>1. CASE stage[r] \in Ended
    BY <1>3, <1>17, <2>1 DEF Crash, GoTo, TypeOK
  <2>2. CASE stage[r] \notin Ended
    BY <1>4, <1>17, <2>2 DEF Crash
  <2>. QED  BY <2>1, <2>2
<1>18. ASSUME NEW r \in Run, NEW g \in Burner,
              FindPurchase(r, g) \/ UpdatePurchase(r, g) \/ InsertBurnedCoupons(r, g)
       PROVE  CoverInv'
  BY <1>3, <1>18 DEF FindPurchase, UpdatePurchase, InsertBurnedCoupons
<1>19. CASE NewBlock
  BY <1>3, <1>19 DEF NewBlock
<1>20. CASE UNCHANGED vars
  BY <1>3, <1>20 DEF vars
<1>21. ASSUME NEW r \in Run, SyncBurnsRefused(r) PROVE CoverInv'
  <2>1. /\ stage[r] = "fineract" /\ GoTo(r, "saving")
        /\ UNCHANGED <<currBlock, latestBlock, events, blockNumber>>
    BY <1>21 DEF SyncBurnsRefused
  <2>2. task = "burns"
    BY <2>1 DEF LatestInv
  <2>3. ASSUME NEW b \in events[r] PROVE DealtWith(b)'
    <3>1. handled'["fineract"][b] > 0 \/ handled'["refused"][b] > 0
      BY <1>21, RefusedCounts
    <3>. QED  BY <2>2, <3>1 DEF DealtWith, FinalSink
  <2>. QED  BY <1>5, <2>1, <2>3 DEF AllRead
<1>. HIDE DEF CoverInv
<1>. QED
  BY <1>6, <1>7, <1>8, <1>9, <1>10, <1>11, <1>12, <1>13, <1>14, <1>15, <1>16,
     <1>17, <1>18, <1>19, <1>20, <1>21 DEF Next, Step, Environment, Finished

\* The documents and local variables keep their shape, and a handler holds
\* no event of a block that is not there yet.
THEOREM TypeCorrect == Spec => []TypeOK
<1>. QED  BY TypeInit, TypeStep, PTL DEF Spec

\* For every task, any overlap of runs, any faults and lagging nodes, and every
\* size of the ranges: the cursor passes an event that was not dealt with only
\* where the exclusive end of some run's ranges fell on its block.
THEOREM CursorCoversEvents == Spec => []OnlyRangeEndsAreSkipped
<1>1. CoverInv => OnlyRangeEndsAreSkipped
  BY DEF CoverInv
<1>. QED  BY <1>1, CoverInit, CoverStep, PTL DEF Spec

-----------------------------------------------------------------------------
(***************************************************************************)
(* Runs one at a time.                                                     *)
(***************************************************************************)
\* How often an event may have been written for nothing.
Allowance == faults + Cardinality(Stuck)

OneInFlight == \A r, x \in InFlight : r = x

Working == {r \in Run : stage[r] \notin Ended \cup {"idle"}}

\* The blocks whose events a run may still write to a sink, or more of them.
ToWrite(r, s) ==
  {b \in Block :
     /\ b > blockNumber
     /\ \/ stage[r] = "started"
        \/ stage[r] \in Ranging /\ (task = "logging" /\ s = "log" => b >= currBlock[r])
        \/ stage[r] = "transfers"
        \/ stage[r] \in {"purchases", "fineract"} /\ s \in {"fineract", "refused"}
        \/ /\ s = "purchases" /\ b \in events[r]
           /\ <<BurnerOf(b), "find">> \in jobs[r] \/ <<BurnerOf(b), "update">> \in jobs[r]
        \/ /\ s = "burnedCoupons" /\ b \in events[r]
           /\ \E step \in JobStep : <<BurnerOf(b), step>> \in jobs[r]}

\* What is still to be written was written no more often than allowed; when
\* the run that was to write it failed, once less.
WithinAllowance(s, b) ==
  /\ handled[s][b] <= 1 + Allowance
  /\ \A r \in Run : b \in ToWrite(r, s) =>
       /\ handled[s][b] <= Allowance
       /\ stage[r] = "failed" => handled[s][b] + 1 <= Allowance
  /\ \A r \in Run : stage[r] \in AllRead \cup {"pulling"} /\ b > latestBlock[r] =>
       handled[s][b] <= Allowance
  /\ Working = {} /\ b > blockNumber => handled[s][b] <= Allowance

\* What a run has read lies past the cursor.
HandIsNew(r) ==
  /\ stage[r] = "reading" => currBlock[r] = blockNumber + 1
  /\ stage[r] = "pulling" => currBlock[r] > blockNumber
                             /\ \A b \in events[r] : b < currBlock[r]
  /\ \A b \in events[r] : b > blockNumber /\ b <= latestBlock[r]

\* A burner's promise is at one step, and what was not read is not in hand.
JobsInv ==
  \A r \in Run :
    /\ stage[r] \in Unread => events[r] = {}
    /\ jobs[r] # {} => stage[r] \in {"purchases", "failed"}
    /\ \A g \in Burner, i, j \in JobStep :
         <<g, i>> \in jobs[r] /\ <<g, j>> \in jobs[r] => i = j

SerialState == /\ OneInFlight
               /\ \A s \in Sink, b \in Block : WithinAllowance(s, b)
               /\ \A r \in InFlight : HandIsNew(r)

SerialInv == /\ CoverInv /\ JobsInv /\ blockNumber <= head /\ IsFiniteSet(Stuck)
             /\ ~ overlapped => SerialState

Alone(r) ==
  \A x \in Run : x # r => stage[x] \in Ended \cup {"idle"} /\ jobs[x] = {}

\* Nothing of the other runs changes.
OthersStay(r) ==
  \A x \in Run : x # r => UNCHANGED <<stage[x], currBlock[x], latestBlock[x], events[x], jobs[x]>>

LEMMA OnlyOneActs ==
  ASSUME TypeOK, NEW r \in Run, Trigger(r) \/ Step(r) \/ Environment(r)
  PROVE  OthersStay(r)
BY DEF TypeOK, OthersStay, GoTo, Step, Environment, Trigger, ReadLastSuccessfulBlock,
   GetBlockNumber, PullEvents, AllPulled, ExecuteTransfers, ExecuteTransfersUnconfirmed,
   FindPurchase, UpdatePurchase, InsertBurnedCoupons, Advance, BurnsWritten,
   SyncBurnsWithFineract, SyncBurnsRefused, SyncBurnsUnconfirmed,
   WriteLastSuccessfulBlock, Throws, Crash

\* A run that fails keeps what it read and stays failed.
LEMMA StuckStays ==
  ASSUME TypeOK, [Next]_vars
  PROVE  Stuck \subseteq Stuck'
<1> SUFFICES ASSUME NEW x \in Stuck PROVE x \in Stuck'
  OBVIOUS
<1>1. x \in Run /\ task' = task /\ task = "burns" /\ stage[x] = "failed"
      /\ events[x] \cap Unregistered # {}
  BY TaskStays DEF Stuck
<1>2. stage'[x] = "failed" /\ events'[x] = events[x]
  <2>1. ASSUME NEW r \in Run, Trigger(r) \/ Step(r) \/ Environment(r)
        PROVE  stage'[x] = "failed" /\ events'[x] = events[x]
    <3>1. CASE x # r
      BY <1>1, <2>1, <3>1, OnlyOneActs DEF OthersStay
    <3>2. CASE x = r
      BY <1>1, <2>1, <3>2 DEF TypeOK, GoTo, Step, Environment, Trigger,
         ReadLastSuccessfulBlock, GetBlockNumber, PullEvents, AllPulled, ExecuteTransfers,
         ExecuteTransfersUnconfirmed, FindPurchase, UpdatePurchase, InsertBurnedCoupons,
         Advance, BurnsWritten, SyncBurnsWithFineract, SyncBurnsRefused,
         SyncBurnsUnconfirmed, WriteLastSuccessfulBlock, Throws, Crash, Ended
    <3>3. QED
      BY <3>1, <3>2
  <2>2. CASE NewBlock \/ Finished \/ UNCHANGED vars
    BY <1>1, <2>2 DEF NewBlock, Finished, vars
  <2>3. QED
    BY <2>1, <2>2 DEF Next
<1>3. QED
  BY <1>1, <1>2 DEF Stuck

LEMMA StuckGrowsByOne ==
  ASSUME TypeOK, [Next]_vars
  PROVE  \E r : Stuck' \subseteq Stuck \cup {r}
<1>1. ASSUME NEW r \in Run, Trigger(r) \/ Step(r) \/ Environment(r)
      PROVE  Stuck' \subseteq Stuck \cup {r}
  <2>1. \A x \in Run : x # r => stage'[x] = stage[x] /\ events'[x] = events[x]
    BY <1>1, OnlyOneActs DEF OthersStay
  <2>2. QED
    BY <2>1, TaskStays DEF Stuck
<1>2. CASE NewBlock \/ Finished \/ UNCHANGED vars
  BY <1>2 DEF NewBlock, Finished, vars, Stuck
<1>3. QED
  BY <1>1, <1>2 DEF Next

LEMMA SumGrows ==
  ASSUME NEW f \in Nat, NEW g \in Nat, NEW n \in Nat, NEW m \in Nat, n <= m,
         g = f \/ g = f + 1
  PROVE  /\ f + n \in Nat /\ g + m \in Nat /\ g + m >= f + n
         /\ g = f + 1 => g + m >= f + n + 1
         /\ m >= n + 1 => g + m >= f + n + 1
  OBVIOUS

\* The allowance never shrinks; a fault adds to it, and so does a run that
\* fails on an unknown burner.
LEMMA AllowanceGrows ==
  ASSUME TypeOK, TypeOK', IsFiniteSet(Stuck), [Next]_vars
  PROVE  /\ IsFiniteSet(Stuck')
         /\ Allowance \in Nat /\ Allowance' \in Nat
         /\ Allowance' >= Allowance
         /\ faults' = faults + 1 => Allowance' >= Allowance + 1
         /\ \A r \in Run : r \in Stuck' /\ r \notin Stuck => Allowance' >= Allowance + 1
<1>1. Stuck \subseteq Stuck'
  BY StuckStays
<1>2. IsFiniteSet(Stuck')
  <2>1. PICK r : Stuck' \subseteq Stuck \cup {r}
    BY StuckGrowsByOne
  <2>2. IsFiniteSet(Stuck \cup {r})
    BY FS_AddElement
  <2>3. QED
    BY <2>1, <2>2, FS_Subset
<1>a. PICK n, m : n = Cardinality(Stuck) /\ m = Cardinality(Stuck')
  OBVIOUS
<1>3. n \in Nat /\ m \in Nat /\ n <= m
  BY <1>a, <1>1, <1>2, FS_CardinalityType, FS_Subset
<1>4. ASSUME NEW r \in Stuck', r \notin Stuck PROVE m >= n + 1
  <2>1. Stuck \cup {r} \subseteq Stuck'
    BY <1>1, <1>4
  <2>2. Cardinality(Stuck \cup {r}) = n + 1
    BY <1>a, <1>4, FS_AddElement
  <2>3. IsFiniteSet(Stuck \cup {r})
    BY FS_AddElement
  <2>4. QED
    BY <1>a, <1>2, <2>1, <2>2, FS_Subset
<1>5. faults' = faults \/ faults' = faults + 1
  BY DEF Next, Step, Environment, Finished, vars, NewBlock, Trigger,
     ReadLastSuccessfulBlock, GetBlockNumber, PullEvents, AllPulled,
     ExecuteTransfers, ExecuteTransfersUnconfirmed, FindPurchase,
     UpdatePurchase, InsertBurnedCoupons, BurnsWritten,
     SyncBurnsWithFineract, SyncBurnsRefused, SyncBurnsUnconfirmed,
     WriteLastSuccessfulBlock, Throws, Crash, Fault
<1>6. faults \in Nat /\ faults' \in Nat
  BY DEF TypeOK
<1>7. Allowance = faults + n /\ Allowance' = faults' + m
  BY <1>a DEF Allowance
<1>8. ASSUME NEW r \in Run, r \in Stuck', r \notin Stuck PROVE m >= n + 1
  BY <1>4, <1>8
<1>9. /\ Allowance \in Nat /\ Allowance' \in Nat
      /\ Allowance' >= Allowance
      /\ faults' = faults + 1 => Allowance' >= Allowance + 1
  BY <1>3, <1>5, <1>6, <1>7, SumGrows
<1>10. ASSUME NEW r \in Run, r \in Stuck', r \notin Stuck
       PROVE  Allowance' >= Allowance + 1
  <2>1. m >= n + 1
    BY <1>8, <1>10
  <2>2. QED
    BY <1>3, <1>5, <1>6, <1>7, <2>1, SumGrows
<1>11. QED
  BY <1>2, <1>9, <1>10

-----------------------------------------------------------------------------
\* Write counts each of its blocks once, in its sink.
LEMMA WriteExact ==
  ASSUME TypeOK, NEW s \in Sink, NEW blocks, Write(s, blocks),
         NEW t \in Sink, NEW b \in Block
  PROVE  /\ t = s /\ b \in blocks => handled'[t][b] = handled[t][b] + 1
         /\ t # s \/ b \notin blocks => handled'[t][b] = handled[t][b]
  BY DEF Write, Add, TypeOK

\* A step of r writes an event only if it has still to, and not again.
Spends(r, s, b) ==
  /\ \/ handled'[s][b] = handled[s][b]
     \/ /\ handled'[s][b] = handled[s][b] + 1
        /\ b \in ToWrite(r, s) /\ b <= latestBlock[r]
  /\ b \in ToWrite(r, s)' => b \in ToWrite(r, s) /\ handled'[s][b] = handled[s][b]

\* A run of rewards of which no organization is known: it fails before it
\* wrote anything.
GivesUp(r) == /\ stage[r] = "transfers" /\ stage'[r] = "failed" /\ jobs'[r] = {}
              /\ UNCHANGED handled

Progress(r) ==
  /\ UNCHANGED <<blockNumber, latestBlock>>
  /\ stage'[r] \in AllRead \cup {"pulling"} => stage[r] \in AllRead \cup {"pulling"}
  /\ stage[r] = "failed" => stage'[r] = "failed"
  /\ stage[r] # "failed" /\ stage'[r] \in Ended \cup {"idle"} =>
       stage'[r] = "failed" /\ (Allowance' >= Allowance + 1 \/ GivesUp(r))

LEMMA NothingToWrite ==
  ASSUME TypeOK, NEW x \in Run, stage[x] \in Ended \cup {"idle"}, jobs[x] = {}, NEW s
  PROVE  ToWrite(x, s) = {}
  BY DEF ToWrite, Ended, Ranging

LEMMA ProgressIsWithin ==
  ASSUME TypeOK, TypeOK', NEW s \in Sink, NEW b \in Block, NEW r \in Run,
         Alone(r), OthersStay(r), Progress(r), Spends(r, s, b), WithinAllowance(s, b),
         stage[r] \notin {"idle", "done"},
         Allowance \in Nat, Allowance' \in Nat, Allowance' >= Allowance
  PROVE  WithinAllowance(s, b)'
<1>1. PICK h, n, a, c : h = handled[s][b] /\ n = handled'[s][b]
                        /\ a = Allowance /\ c = Allowance'
  OBVIOUS
<1>2. h \in Nat /\ n \in Nat /\ a \in Nat /\ c \in Nat /\ c >= a /\ h <= 1 + a
  BY <1>1 DEF TypeOK, WithinAllowance
<1>3. \A x \in Run : x # r => stage'[x] \in Ended \cup {"idle"} /\ jobs'[x] = {}
  BY DEF Alone, OthersStay
<1>4. \A x \in Run : x # r => b \notin ToWrite(x, s)'
  BY <1>3 DEF ToWrite, Ended, Ranging
<1>5. stage[r] # "failed" => r \in Working
  BY DEF Working, Ended
<1>6. CASE n = h
  <2>1. n <= 1 + c
    BY <1>2, <1>6
  <2>2. ASSUME b \in ToWrite(r, s)' PROVE n <= c /\ (stage'[r] = "failed" => n + 1 <= c)
    <3>1. b \in ToWrite(r, s)
      BY <2>2 DEF Spends
    <3>2. h <= a /\ (stage[r] = "failed" => h + 1 <= a)
      BY <1>1, <3>1 DEF WithinAllowance
    <3>3. ~ GivesUp(r)
      BY <2>2 DEF GivesUp, ToWrite, Ranging
    <3>4. stage'[r] = "failed" => stage[r] = "failed" \/ c >= a + 1
      BY <1>1, <3>3 DEF Progress, Ended
    <3>5. QED
      BY <1>2, <1>6, <3>2, <3>4
  <2>3. ASSUME stage'[r] \in AllRead \cup {"pulling"}, b > latestBlock'[r] PROVE n <= c
    <3>1. stage[r] \in AllRead \cup {"pulling"} /\ b > latestBlock[r]
      BY <2>3 DEF Progress
    <3>2. h <= a
      BY <1>1, <3>1 DEF WithinAllowance
    <3>3. QED
      BY <1>2, <1>6, <3>2
  <2>4. ASSUME Working' = {}, b > blockNumber' PROVE n <= c
    <3>1. stage'[r] \in Ended \cup {"idle"} /\ b > blockNumber
      BY <2>4 DEF Working, Progress
    <3>2. CASE stage[r] = "failed"
      <4>1. Working = {}
        BY <1>3, <3>2 DEF Working, Alone, Ended
      <4>2. h <= a
        BY <1>1, <3>1, <4>1 DEF WithinAllowance
      <4>3. QED
        BY <1>2, <1>6, <4>2
    <3>3. CASE GivesUp(r)
      <4>1. b \in ToWrite(r, s)
        BY <3>1, <3>3 DEF GivesUp, ToWrite
      <4>2. h <= a
        BY <1>1, <4>1 DEF WithinAllowance
      <4>3. QED
        BY <1>2, <1>6, <4>2
    <3>4. CASE stage[r] # "failed" /\ ~ GivesUp(r)
      <4>1. c >= a + 1
        BY <1>1, <3>1, <3>4 DEF Progress
      <4>2. QED
        BY <1>2, <1>6, <4>1
    <3>5. QED
      BY <3>2, <3>3, <3>4
  <2>5. QED
    BY <1>1, <1>3, <1>4, <2>1, <2>2, <2>3, <2>4 DEF WithinAllowance, AllRead, Ended
<1>7. CASE n # h
  <2>1. n = h + 1 /\ b \in ToWrite(r, s) /\ b <= latestBlock[r] /\ b \notin ToWrite(r, s)'
    BY <1>1, <1>7 DEF Spends
  <2>2. h <= a /\ (stage[r] = "failed" => h + 1 <= a)
    BY <1>1, <2>1 DEF WithinAllowance
  <2>3. n <= 1 + c
    BY <1>2, <2>1, <2>2
  <2>4. latestBlock[r] \in Int /\ b \in Int
    BY DEF TypeOK, Block, NoBlock
  <2>5. ~ (b > latestBlock'[r])
    BY <2>1, <2>4 DEF Progress
  <2>6. ASSUME Working' = {} PROVE n <= c
    <3>1. stage'[r] \in Ended \cup {"idle"}
      BY <2>6 DEF Working
    <3>2. ~ GivesUp(r)
      BY <1>1, <1>7 DEF GivesUp
    <3>3. stage[r] = "failed" \/ c >= a + 1
      BY <1>1, <3>1, <3>2 DEF Progress
    <3>4. QED
      BY <1>2, <2>1, <2>2, <3>3
  <2>7. QED
    BY <1>1, <1>3, <1>4, <2>1, <2>3, <2>5, <2>6 DEF WithinAllowance, AllRead, Ended
<1>8. QED
  BY <1>6, <1>7

\* Where a run is decides whether it has promises.
LEMMA NoJobs ==
  ASSUME JobsInv, NEW r \in Run, stage[r] \notin {"purchases", "failed"}
  PROVE  jobs[r] = {}
  BY DEF JobsInv

\* A step that writes nothing and leaves no more to write.
LEMMA WritesNothing ==
  ASSUME NEW r \in Run, UNCHANGED handled,
         \A s \in Sink : ToWrite(r, s)' \subseteq ToWrite(r, s),
         NEW s \in Sink, NEW b \in Block
  PROVE  Spends(r, s, b)
  BY DEF Spends

\* A step that writes new events to a sink, none of them for a second time.
LEMMA WritesOnce ==
  ASSUME TypeOK, NEW r \in Run, NEW t \in Sink, NEW blocks, Write(t, blocks),
         blocks \subseteq ToWrite(r, t), \A c \in blocks : c <= latestBlock[r],
         blocks \cap ToWrite(r, t)' = {},
         \A s \in Sink : ToWrite(r, s)' \subseteq ToWrite(r, s),
         NEW s \in Sink, NEW b \in Block
  PROVE  Spends(r, s, b)
<1>1. CASE s = t /\ b \in blocks
  BY <1>1, WriteExact DEF Spends
<1>2. CASE ~ (s = t /\ b \in blocks)
  BY <1>2, WriteExact DEF Spends
<1>3. QED
  BY <1>1, <1>2

SpendsAll(r) == \A s \in Sink, b \in Block : Spends(r, s, b)

LEMMA SpendsBeforeReading ==
  ASSUME TypeOK, JobsInv, NEW r \in Run, HandIsNew(r), ReadLastSuccessfulBlock(r)
  PROVE  SpendsAll(r)
<1>1. jobs[r] = {} /\ stage'[r] = "reading" /\ jobs' = jobs /\ stage[r] = "started"
  BY NoJobs DEF ReadLastSuccessfulBlock, GoTo, TypeOK
<1>2. \A s \in Sink : ToWrite(r, s)' \subseteq ToWrite(r, s)
  BY <1>1 DEF ToWrite, ReadLastSuccessfulBlock, Ranging
<1>3. QED
  BY <1>2, WritesNothing DEF SpendsAll, ReadLastSuccessfulBlock

LEMMA SpendsInPull ==
  ASSUME TypeOK, JobsInv, NEW r \in Run, HandIsNew(r), LatestInv(r), PullEvents(r)
  PROVE  SpendsAll(r)
<1>1. /\ jobs[r] = {} /\ jobs' = jobs /\ stage[r] = "pulling"
      /\ UNCHANGED <<stage, blockNumber, task>>
  BY NoJobs DEF PullEvents
<1>2. /\ currBlock[r] \in Nat /\ latestBlock[r] \in Block /\ QueryMaxBlocks \in Nat \ {0}
      /\ blockNumber \in Int /\ Block \subseteq Nat
  BY <1>1, QueryMaxBlocksAssumption, ChainAssumption DEF TypeOK, LatestInv, Block, NoBlock
<1>a. PICK from, next, latest : /\ from = currBlock[r] /\ next = currBlock'[r]
                                /\ latest = latestBlock[r]
  OBVIOUS
<1>3. from \in Nat /\ latest \in Nat /\ next = from + QueryMaxBlocks
  BY <1>2, <1>a DEF PullEvents, TypeOK
<1>4. RangeEnd(r) \in Int /\ RangeEnd(r) <= latest /\ RangeEnd(r) < next
  BY <1>2, <1>a, <1>3 DEF RangeEnd
<1>5. currBlock[r] > blockNumber
  BY <1>1 DEF HandIsNew
<1>6. \A s \in Sink : ToWrite(r, s)' \subseteq ToWrite(r, s)
  <2> SUFFICES ASSUME NEW s \in Sink, NEW b \in ToWrite(r, s)' PROVE b \in ToWrite(r, s)
    OBVIOUS
  <2>1. b \in Block /\ b > blockNumber /\ (task = "logging" /\ s = "log" => b >= currBlock'[r])
    BY <1>1 DEF ToWrite, Ranging
  <2>2. task = "logging" /\ s = "log" => b >= currBlock[r]
    <3>1. b \in Nat /\ (task = "logging" /\ s = "log" => b >= next)
      BY <1>2, <1>a, <2>1
    <3>2. task = "logging" /\ s = "log" => b >= from
      BY <1>2, <1>3, <3>1
    <3>3. QED
      BY <1>a, <3>2
  <2>3. QED
    BY <1>1, <2>1, <2>2 DEF ToWrite, Ranging
<1>7. CASE task = "logging"
  <2> DEFINE pulled == currBlock[r] .. RangeEnd(r)
  <2>1. Write("log", pulled) /\ "log" \in Sink
    BY <1>7 DEF PullEvents, Sink
  <2>2. ASSUME NEW b \in pulled
        PROVE  b \in ToWrite(r, "log") /\ b <= latestBlock[r] /\ b \notin ToWrite(r, "log")'
    <3>1. b \in Int /\ b >= from /\ b <= RangeEnd(r)
      BY <1>2, <1>a, <1>3, <1>4
    <3>2. b \in Nat /\ b > blockNumber /\ b <= latest /\ ~ (b >= next)
      BY <1>2, <1>a, <1>3, <1>4, <1>5, <3>1
    <3>a. b \in Block
      BY <1>2, <1>a, <3>2, ChainAssumption DEF Block
    <3>3. b \in ToWrite(r, "log")
      BY <1>1, <1>a, <3>1, <3>2, <3>a DEF ToWrite, Ranging
    <3>4. b \notin ToWrite(r, "log")'
      BY <1>1, <1>7, <1>a, <3>2 DEF ToWrite, Ranging
    <3>5. QED
      BY <1>a, <3>2, <3>3, <3>4
  <2> HIDE DEF pulled
  <2>3. QED
    BY <1>6, <2>1, <2>2, WritesOnce DEF SpendsAll
<1>8. CASE task # "logging"
  <2>1. handled' = handled
    BY <1>8 DEF PullEvents
  <2>2. QED
    BY <1>6, <2>1, WritesNothing DEF SpendsAll
<1>9. QED
  BY <1>7, <1>8

LEMMA SpendsAllPulled ==
  ASSUME TypeOK, JobsInv, NEW r \in Run, HandIsNew(r), AllPulled(r)
  PROVE  SpendsAll(r)
<1>1. jobs[r] = {} /\ stage[r] = "pulling" /\ UNCHANGED <<handled, blockNumber, events, currBlock>>
  BY NoJobs DEF AllPulled
<1>2. \/ stage'[r] = "saving" /\ jobs'[r] = {}
      \/ stage'[r] = "transfers" /\ jobs'[r] = {} /\ task = "rewards"
      \/ stage'[r] = "purchases" /\ task = "burns"
  BY <1>1 DEF AllPulled, GoTo, TypeOK
<1>3. \A s \in Sink : ToWrite(r, s)' \subseteq ToWrite(r, s)
  <2> SUFFICES ASSUME NEW s \in Sink, NEW b \in ToWrite(r, s)' PROVE b \in ToWrite(r, s)
    OBVIOUS
  <2>1. b \in Block /\ b > blockNumber /\ task # "logging"
    BY <1>1, <1>2 DEF ToWrite, Ranging
  <2>2. QED
    BY <1>1, <2>1 DEF ToWrite, Ranging
<1>4. QED
  BY <1>1, <1>3, WritesNothing DEF SpendsAll

LEMMA SpendsTransfers ==
  ASSUME TypeOK, JobsInv, NEW r \in Run, HandIsNew(r),
         ExecuteTransfers(r) \/ ExecuteTransfersUnconfirmed(r)
  PROVE  SpendsAll(r)
<1>1. /\ jobs[r] = {} /\ jobs' = jobs /\ stage[r] = "transfers" /\ UNCHANGED blockNumber
      /\ stage'[r] \in {"saving", "failed"}
      /\ Write("transfers", events[r] \ Unregistered) \/ handled' = handled
      /\ "transfers" \in Sink
  BY NoJobs DEF ExecuteTransfers, ExecuteTransfersUnconfirmed, GoTo, TypeOK, Sink
<1>2. \A s \in Sink : ToWrite(r, s)' = {}
  BY <1>1 DEF ToWrite, Ranging
<1>3. events[r] \ Unregistered \subseteq ToWrite(r, "transfers")
  BY <1>1 DEF ToWrite, HandIsNew, TypeOK
<1>4. \A b \in events[r] \ Unregistered : b <= latestBlock[r]
  BY DEF HandIsNew
<1>5. CASE handled' = handled
  BY <1>2, <1>5, WritesNothing DEF SpendsAll
<1>6. CASE Write("transfers", events[r] \ Unregistered)
  BY <1>1, <1>2, <1>3, <1>4, <1>6, WritesOnce DEF SpendsAll
<1>7. QED
  BY <1>1, <1>5, <1>6

LEMMA SpendsPromises ==
  ASSUME TypeOK, JobsInv, NEW r \in Run, HandIsNew(r), NEW g \in Burner,
         FindPurchase(r, g) \/ UpdatePurchase(r, g) \/ InsertBurnedCoupons(r, g)
  PROVE  SpendsAll(r)
<1>1. UNCHANGED <<blockNumber, stage, events, currBlock, task>>
  BY DEF FindPurchase, UpdatePurchase, InsertBurnedCoupons
<1>2. jobs[r] # {}
  BY DEF FindPurchase, UpdatePurchase, InsertBurnedCoupons
<1>3. stage[r] \in {"purchases", "failed"}
  BY <1>2 DEF JobsInv
<1>4. CASE FindPurchase(r, g)
  <2>1. /\ <<g, "find">> \in jobs[r] /\ handled' = handled
        /\ jobs'[r] \subseteq jobs[r] \cup {<<g, "update">>}
    BY <1>4 DEF FindPurchase, Advance, TypeOK
  <2>2. \A s \in Sink : ToWrite(r, s)' \subseteq ToWrite(r, s)
    <3> SUFFICES ASSUME NEW s \in Sink, NEW b \in ToWrite(r, s)' PROVE b \in ToWrite(r, s)
      OBVIOUS
    <3>1. BurnerOf(b)' = BurnerOf(b)
      BY DEF BurnerOf
    <3>2. "find" \in JobStep /\ g # "find"
      BY DEF JobStep, Burner
    <3>3. CASE s = "purchases"
      BY <1>1, <2>1, <3>1, <3>3 DEF ToWrite
    <3>4. CASE s = "burnedCoupons"
      BY <1>1, <2>1, <3>1, <3>2, <3>4 DEF ToWrite
    <3>5. CASE s \notin {"purchases", "burnedCoupons"}
      BY <1>1, <3>5 DEF ToWrite
    <3>6. QED
      BY <3>3, <3>4, <3>5
  <2>3. QED
    BY <2>1, <2>2, WritesNothing DEF SpendsAll
<1>5. CASE UpdatePurchase(r, g)
  <2>1. /\ <<g, "update">> \in jobs[r]
        /\ jobs'[r] = (jobs[r] \ {<<g, "update">>}) \cup {<<g, "insert">>}
        /\ Write("purchases", BurnedBy(r, g)) /\ "purchases" \in Sink
    BY <1>5 DEF UpdatePurchase, Advance, TypeOK, Sink
  <2>2. \A b \in BurnedBy(r, g) : /\ b \in Block /\ b \in events[r] /\ BurnerOf(b) = g
                                 /\ b > blockNumber /\ b <= latestBlock[r]
    BY DEF BurnedBy, HandIsNew, TypeOK
  <2>3. BurnedBy(r, g) \subseteq ToWrite(r, "purchases")
    BY <1>3, <2>1, <2>2 DEF ToWrite
  <2>4. <<g, "find">> \notin jobs'[r] /\ <<g, "update">> \notin jobs'[r]
    <3>1. "find" \in JobStep /\ "update" \in JobStep
      BY DEF JobStep
    <3>2. <<g, "find">> \notin jobs[r]
      BY <2>1, <3>1 DEF JobsInv
    <3>3. QED
      BY <2>1, <3>2
  <2>5. BurnedBy(r, g) \cap ToWrite(r, "purchases")' = {}
    <3> SUFFICES ASSUME NEW b \in BurnedBy(r, g), b \in ToWrite(r, "purchases")' PROVE FALSE
      OBVIOUS
    <3>1. BurnerOf(b)' = g
      BY <2>2 DEF BurnerOf
    <3>2. QED
      BY <1>1, <1>3, <2>4, <3>1 DEF ToWrite, Ranging
  <2>6. \A s \in Sink : ToWrite(r, s)' \subseteq ToWrite(r, s)
    <3> SUFFICES ASSUME NEW s \in Sink, NEW b \in ToWrite(r, s)' PROVE b \in ToWrite(r, s)
      OBVIOUS
    <3>1. BurnerOf(b)' = BurnerOf(b)
      BY DEF BurnerOf
    <3>2. "update" \in JobStep
      BY DEF JobStep
    <3>3. CASE s = "purchases"
      BY <1>1, <2>1, <3>1, <3>3 DEF ToWrite
    <3>4. CASE s = "burnedCoupons"
      BY <1>1, <2>1, <3>1, <3>2, <3>4 DEF ToWrite
    <3>5. CASE s \notin {"purchases", "burnedCoupons"}
      BY <1>1, <3>5 DEF ToWrite
    <3>6. QED
      BY <3>3, <3>4, <3>5
  <2>7. \A b \in BurnedBy(r, g) : b <= latestBlock[r]
    BY <2>2
  <2>8. QED
    BY <2>1, <2>3, <2>5, <2>6, <2>7, WritesOnce DEF SpendsAll
<1>6. CASE InsertBurnedCoupons(r, g)
  <2>1. /\ <<g, "insert">> \in jobs[r]
        /\ jobs'[r] = jobs[r] \ {<<g, "insert">>}
        /\ Write("burnedCoupons", BurnedBy(r, g)) /\ "burnedCoupons" \in Sink
    BY <1>6 DEF InsertBurnedCoupons, Advance, TypeOK, Sink
  <2>2. \A b \in BurnedBy(r, g) : /\ b \in Block /\ b \in events[r] /\ BurnerOf(b) = g
                                 /\ b > blockNumber /\ b <= latestBlock[r]
    BY DEF BurnedBy, HandIsNew, TypeOK
  <2>a. "insert" \in JobStep
    BY DEF JobStep
  <2>3. BurnedBy(r, g) \subseteq ToWrite(r, "burnedCoupons")
    BY <1>3, <2>1, <2>2, <2>a DEF ToWrite
  <2>4. \A step \in JobStep : <<g, step>> \notin jobs'[r]
    BY <2>1, <2>a DEF JobsInv
  <2>5. BurnedBy(r, g) \cap ToWrite(r, "burnedCoupons")' = {}
    <3> SUFFICES ASSUME NEW b \in BurnedBy(r, g), b \in ToWrite(r, "burnedCoupons")' PROVE FALSE
      OBVIOUS
    <3>1. BurnerOf(b)' = g
      BY <2>2 DEF BurnerOf
    <3>2. QED
      BY <1>1, <1>3, <2>4, <3>1 DEF ToWrite, Ranging
  <2>6. \A s \in Sink : ToWrite(r, s)' \subseteq ToWrite(r, s)
    <3> SUFFICES ASSUME NEW s \in Sink, NEW b \in ToWrite(r, s)' PROVE b \in ToWrite(r, s)
      OBVIOUS
    <3>1. BurnerOf(b)' = BurnerOf(b)
      BY DEF BurnerOf
    <3>2. QED
      BY <1>1, <2>1, <3>1 DEF ToWrite
  <2>7. \A b \in BurnedBy(r, g) : b <= latestBlock[r]
    BY <2>2
  <2>8. QED
    BY <2>1, <2>3, <2>5, <2>6, <2>7, WritesOnce DEF SpendsAll
<1>7. QED
  BY <1>4, <1>5, <1>6

LEMMA SpendsBurnsWritten ==
  ASSUME TypeOK, JobsInv, NEW r \in Run, BurnsWritten(r)
  PROVE  SpendsAll(r)
<1>1. /\ jobs[r] = {} /\ jobs' = jobs /\ stage[r] = "purchases" /\ stage'[r] = "fineract"
      /\ UNCHANGED <<handled, blockNumber>>
  BY DEF BurnsWritten, GoTo, TypeOK
<1>2. \A s \in Sink : ToWrite(r, s)' \subseteq ToWrite(r, s)
  BY <1>1 DEF ToWrite, Ranging
<1>3. QED
  BY <1>1, <1>2, WritesNothing DEF SpendsAll

LEMMA SpendsInSync ==
  ASSUME TypeOK, JobsInv, NEW r \in Run, HandIsNew(r),
         SyncBurnsWithFineract(r) \/ SyncBurnsRefused(r) \/ SyncBurnsUnconfirmed(r)
  PROVE  SpendsAll(r)
<1>1. /\ jobs[r] = {} /\ jobs' = jobs /\ stage[r] = "fineract" /\ UNCHANGED blockNumber
      /\ stage'[r] \in {"saving", "failed"}
  BY NoJobs DEF SyncBurnsWithFineract, SyncBurnsRefused, SyncBurnsUnconfirmed, GoTo, TypeOK
<1>2. \A s \in Sink : ToWrite(r, s)' = {}
  BY <1>1 DEF ToWrite, Ranging
<1>3. /\ events[r] \subseteq ToWrite(r, "fineract") /\ events[r] \subseteq ToWrite(r, "refused")
      /\ \A b \in events[r] : b <= latestBlock[r]
  BY <1>1 DEF ToWrite, HandIsNew, TypeOK
<1>4. "fineract" \in Sink /\ "refused" \in Sink
  BY DEF Sink
<1>5. CASE handled' = handled
  BY <1>2, <1>5, WritesNothing DEF SpendsAll
<1>6. CASE Write("fineract", events[r])
  BY <1>2, <1>3, <1>4, <1>6, WritesOnce DEF SpendsAll
<1>7. CASE SyncBurnsRefused(r)
  <2>1. PICK c \in events[r] :
          handled' = [handled EXCEPT !["fineract"] = Add(@, events[r] \ {c}),
                                     !["refused"] = Add(@, {c})]
    BY <1>7 DEF SyncBurnsRefused
  <2>2. ASSUME NEW s \in Sink, NEW b \in Block
        PROVE  \/ handled'[s][b] = handled[s][b]
               \/ handled'[s][b] = handled[s][b] + 1 /\ s \in {"fineract", "refused"}
                  /\ b \in events[r]
    BY <1>4, <2>1 DEF Add, TypeOK
  <2>3. QED
    BY <1>2, <1>3, <2>2 DEF SpendsAll, Spends
<1>8. QED
  BY <1>5, <1>6, <1>7 DEF SyncBurnsWithFineract, SyncBurnsUnconfirmed

LEMMA SpendsFailing ==
  ASSUME TypeOK, JobsInv, NEW r \in Run, Throws(r) \/ Crash(r)
  PROVE  SpendsAll(r)
<1>1. /\ UNCHANGED <<handled, blockNumber, events, currBlock>>
      /\ stage'[r] \in Ended /\ jobs'[r] \subseteq jobs[r]
  BY DEF Throws, Crash, GoTo, TypeOK, Ended
<1>2. \A s \in Sink : ToWrite(r, s)' \subseteq ToWrite(r, s)
  <2> SUFFICES ASSUME NEW s \in Sink, NEW b \in ToWrite(r, s)' PROVE b \in ToWrite(r, s)
    OBVIOUS
  <2>1. BurnerOf(b)' = BurnerOf(b)
    BY DEF BurnerOf
  <2>2. QED
    BY <1>1, <2>1 DEF ToWrite, Ranging, Ended
<1>3. QED
  BY <1>1, <1>2, WritesNothing DEF SpendsAll

-----------------------------------------------------------------------------
LEMMA JobsInvStep == TypeOK /\ JobsInv /\ [Next]_vars => JobsInv'
<1> SUFFICES ASSUME TypeOK, JobsInv, [Next]_vars PROVE JobsInv'
  OBVIOUS
<1>1. ASSUME NEW r \in Run, Trigger(r) \/ Step(r) \/ Environment(r)
      PROVE  JobsInv'
  <2>1. OthersStay(r)
    BY <1>1, OnlyOneActs
  <2> DEFINE Holds(x) ==
               /\ stage'[x] \in Unread => events'[x] = {}
               /\ jobs'[x] # {} => stage'[x] \in {"purchases", "failed"}
               /\ \A g \in Burner, i, j \in JobStep :
                    <<g, i>> \in jobs'[x] /\ <<g, j>> \in jobs'[x] => i = j
  <2>2. ASSUME NEW x \in Run, x # r PROVE Holds(x)
    BY <2>1, <2>2 DEF OthersStay, JobsInv
  <2>3. Holds(r)
    <3>1. CASE Trigger(r) \/ ReadLastSuccessfulBlock(r) \/ GetBlockNumber(r) \/ PullEvents(r)
               \/ WriteLastSuccessfulBlock(r) \/ BurnsWritten(r)
      BY <3>1 DEF TypeOK, JobsInv, GoTo, Trigger, ReadLastSuccessfulBlock, GetBlockNumber,
         PullEvents, WriteLastSuccessfulBlock, BurnsWritten, Unread
    <3>2. CASE AllPulled(r)
      <4>1. jobs[r] = {} /\ stage'[r] \in {"saving", "transfers", "purchases"}
        BY <3>2 DEF AllPulled, GoTo, TypeOK, JobsInv
      <4>2. \/ jobs'[r] = {}
            \/ /\ stage'[r] = "purchases"
               /\ jobs'[r] = {<<g, "find">> : g \in {BurnerOf(b) : b \in events[r]}}
        BY <3>2, <4>1 DEF AllPulled, GoTo, TypeOK
      <4>3. QED
        BY <4>1, <4>2 DEF Unread
    <3>3. CASE ExecuteTransfers(r) \/ ExecuteTransfersUnconfirmed(r)
               \/ SyncBurnsWithFineract(r) \/ SyncBurnsRefused(r) \/ SyncBurnsUnconfirmed(r)
      <4>1. jobs[r] = {} /\ jobs' = jobs /\ stage'[r] \in {"saving", "failed"}
        BY <3>3, NoJobs DEF TypeOK, GoTo, ExecuteTransfers,
           ExecuteTransfersUnconfirmed, SyncBurnsWithFineract, SyncBurnsRefused,
           SyncBurnsUnconfirmed
      <4>2. QED
        BY <4>1 DEF Unread
    <3>4. CASE Throws(r) \/ Crash(r)
      <4>1. jobs'[r] \subseteq jobs[r] /\ stage'[r] \in Ended
            /\ (stage'[r] = "failed" \/ jobs'[r] = {})
        BY <3>4 DEF TypeOK, GoTo, Throws, Crash, Ended
      <4>2. QED
        BY <4>1 DEF JobsInv, Unread, Ended
    <3>5. ASSUME NEW g \in Burner,
                 FindPurchase(r, g) \/ UpdatePurchase(r, g) \/ InsertBurnedCoupons(r, g)
          PROVE  Holds(r)
      <4>1. stage' = stage /\ events' = events /\ jobs[r] # {}
        BY <3>5 DEF FindPurchase, UpdatePurchase, InsertBurnedCoupons
      <4>2. stage[r] \in {"purchases", "failed"}
        BY <4>1 DEF JobsInv
      <4>3. PICK from \in JobStep, next \in JobStep :
              /\ <<g, from>> \in jobs[r]
              /\ jobs'[r] \subseteq (jobs[r] \ {<<g, from>>}) \cup {<<g, next>>}
        <5>1. {"find", "update", "insert"} = JobStep
          BY DEF JobStep
        <5>2. CASE FindPurchase(r, g)
          <6>1. /\ <<g, "find">> \in jobs[r]
                /\ jobs'[r] \subseteq (jobs[r] \ {<<g, "find">>}) \cup {<<g, "update">>}
            BY <5>2 DEF FindPurchase, Advance, TypeOK
          <6>2. QED
            BY <5>1, <6>1
        <5>3. CASE UpdatePurchase(r, g)
          <6>1. /\ <<g, "update">> \in jobs[r]
                /\ jobs'[r] \subseteq (jobs[r] \ {<<g, "update">>}) \cup {<<g, "insert">>}
            BY <5>3 DEF UpdatePurchase, Advance, TypeOK
          <6>2. QED
            BY <5>1, <6>1
        <5>4. CASE InsertBurnedCoupons(r, g)
          <6>1. /\ <<g, "insert">> \in jobs[r]
                /\ jobs'[r] \subseteq (jobs[r] \ {<<g, "insert">>}) \cup {<<g, "insert">>}
            BY <5>4 DEF InsertBurnedCoupons, Advance, TypeOK
          <6>2. QED
            BY <5>1, <6>1
        <5>5. QED
          BY <3>5, <5>2, <5>3, <5>4
      <4>4. ASSUME NEW f \in Burner, NEW i \in JobStep, NEW j \in JobStep,
                   <<f, i>> \in jobs'[r], <<f, j>> \in jobs'[r]
            PROVE  i = j
        <5>1. CASE f # g
          <6>1. <<f, i>> \in jobs[r] /\ <<f, j>> \in jobs[r]
            BY <4>3, <4>4, <5>1
          <6>2. QED
            BY <6>1 DEF JobsInv
        <5>2. CASE f = g
          <6>1. ASSUME NEW k \in JobStep, <<g, k>> \in jobs'[r] PROVE k = next
            <7>1. <<g, k>> \in jobs[r] => k = from
              BY <4>3 DEF JobsInv
            <7>2. QED
              BY <4>3, <6>1, <7>1
          <6>2. QED
            BY <4>4, <5>2, <6>1
        <5>3. QED
          BY <5>1, <5>2
      <4>5. QED
        BY <4>1, <4>2, <4>4 DEF Unread
    <3>6. QED
      BY <1>1, <3>1, <3>2, <3>3, <3>4, <3>5 DEF Step, Environment
  <2>4. QED
    BY <2>2, <2>3 DEF JobsInv
<1>2. CASE NewBlock \/ Finished \/ UNCHANGED vars
  BY <1>2 DEF JobsInv, NewBlock, Finished, vars
<1>3. QED
  BY <1>1, <1>2 DEF Next

\* The cursor is never past the chain.
LEMMA CursorInvStep ==
  ASSUME TypeOK, RangesInv, blockNumber <= head, [Next]_vars
  PROVE  blockNumber' <= head'
<1>1. blockNumber \in Int /\ head \in Int
  BY ChainAssumption DEF TypeOK, Block, NoBlock
<1>2. CASE NewBlock
  BY <1>1, <1>2 DEF NewBlock
<1>3. CASE \E r \in Run : WriteLastSuccessfulBlock(r)
  BY <1>3 DEF WriteLastSuccessfulBlock, RangesInv
<1>4. CASE UNCHANGED <<blockNumber, head>>
  BY <1>4
<1>5. QED
  BY <1>2, <1>3, <1>4 DEF Next, Step, Environment, Finished, vars, Trigger,
     ReadLastSuccessfulBlock, GetBlockNumber, PullEvents, AllPulled,
     ExecuteTransfers, ExecuteTransfersUnconfirmed, FindPurchase,
     UpdatePurchase, InsertBurnedCoupons, BurnsWritten,
     SyncBurnsWithFineract, SyncBurnsRefused, SyncBurnsUnconfirmed, Throws, Crash

\* A run that acts was under way, or is afterwards.
LEMMA ActorIsInFlight ==
  ASSUME TypeOK, NEW r \in Run, Trigger(r) \/ Step(r) \/ Environment(r)
  PROVE  r \in InFlight \/ r \in InFlight'
<1>1. CASE Trigger(r)
  <2>1. stage'[r] = "started"
    BY <1>1 DEF Trigger, GoTo, TypeOK
  <2>2. QED
    BY <2>1 DEF InFlight, Ended
<1>2. CASE Step(r) \/ Environment(r)
  BY <1>2 DEF Step, Environment, ReadLastSuccessfulBlock,
     GetBlockNumber, PullEvents, AllPulled, ExecuteTransfers, ExecuteTransfersUnconfirmed,
     FindPurchase, UpdatePurchase, InsertBurnedCoupons, BurnsWritten,
     SyncBurnsWithFineract, SyncBurnsRefused, SyncBurnsUnconfirmed,
     WriteLastSuccessfulBlock, Throws, Crash, InFlight, Ended
<1>3. QED
  BY <1>1, <1>2

LEMMA OneInFlightKept ==
  ASSUME TypeOK, OneInFlight, ~ (Cardinality(InFlight') > 1),
         NEW r \in Run, Trigger(r) \/ Step(r) \/ Environment(r)
  PROVE  OneInFlight' /\ Alone(r)
<1>1. (r \in InFlight \/ r \in InFlight') /\ OthersStay(r)
  BY ActorIsInFlight, OnlyOneActs
<1>2. \A x \in Run : x # r => (x \in InFlight' <=> x \in InFlight)
  BY <1>1 DEF InFlight, OthersStay
<1>3. IsFiniteSet(InFlight')
  <2>1. PICK x : InFlight \subseteq {x}
    BY DEF OneInFlight
  <2>2. InFlight' \subseteq {x} \cup {r}
    BY <1>2, <2>1 DEF InFlight
  <2>3. IsFiniteSet({x} \cup {r})
    BY FS_Singleton, FS_AddElement
  <2>4. QED
    BY <2>2, <2>3, FS_Subset
<1>4. OneInFlight'
  <2>1. SUFFICES ASSUME NEW a \in InFlight', NEW b \in InFlight', a # b PROVE FALSE
    BY DEF OneInFlight
  <2>2. IsFiniteSet({a}) /\ Cardinality({a}) = 1
    BY FS_Singleton
  <2>3. Cardinality({a} \cup {b}) = 2
    BY <2>1, <2>2, FS_AddElement
  <2>4. Cardinality({a} \cup {b}) =< Cardinality(InFlight')
    BY <1>3, FS_Subset
  <2>5. Cardinality(InFlight') \in Nat
    BY <1>3, FS_CardinalityType
  <2>6. 2 =< Cardinality(InFlight')
    BY <2>3, <2>4
  <2>7. QED
    BY <2>5, <2>6
<1>5. \A x \in Run : x # r => x \notin InFlight
  BY <1>1, <1>2, <1>4 DEF OneInFlight
<1>6. QED
  BY <1>4, <1>5 DEF Alone, InFlight

-----------------------------------------------------------------------------
\* Steps after which a run has no less to write: it begins, and it is told the
\* latest block; and the one that moves the cursor.
LEMMA WithinTrigger ==
  ASSUME TypeOK, TypeOK', NEW r \in Run, Alone(r), OthersStay(r), Trigger(r),
         Allowance \in Nat, Allowance' \in Nat, Allowance' >= Allowance,
         NEW s \in Sink, NEW b \in Block, WithinAllowance(s, b)
  PROVE  WithinAllowance(s, b)'
<1>1. PICK h, a, c : h = handled[s][b] /\ a = Allowance /\ c = Allowance'
  OBVIOUS
<1>2. h \in Nat /\ a \in Nat /\ c \in Nat /\ c >= a /\ h <= 1 + a
  BY <1>1 DEF TypeOK, WithinAllowance
<1>3. /\ stage[r] = "idle" /\ stage'[r] = "started"
      /\ UNCHANGED <<handled, blockNumber, latestBlock>>
  BY DEF Trigger, GoTo, TypeOK
<1>4. \A x \in Run : x # r => stage'[x] \in Ended \cup {"idle"} /\ jobs'[x] = {}
  BY DEF Alone, OthersStay
<1>5. \A x \in Run : x # r => b \notin ToWrite(x, s)'
  BY <1>4 DEF ToWrite, Ended, Ranging
<1>6. Working = {} /\ r \in Working'
  BY <1>3 DEF Working, Alone, Ended
<1>7. h <= 1 + c
  BY <1>2
<1>8. ASSUME b \in ToWrite(r, s)' PROVE h <= c
  <2>1. b > blockNumber
    BY <1>3, <1>8 DEF ToWrite
  <2>2. h <= a
    BY <1>1, <1>6, <2>1 DEF WithinAllowance
  <2>3. QED
    BY <1>2, <2>2
<1>9. QED
  BY <1>1, <1>3, <1>4, <1>5, <1>6, <1>7, <1>8 DEF WithinAllowance, AllRead, Ended

LEMMA WithinGetBlockNumber ==
  ASSUME TypeOK, TypeOK', JobsInv, blockNumber <= head, NEW r \in Run, Alone(r),
         OthersStay(r), HandIsNew(r), GetBlockNumber(r),
         Allowance \in Nat, Allowance' \in Nat, Allowance' >= Allowance,
         faults' = faults + 1 => Allowance' >= Allowance + 1,
         NEW s \in Sink, NEW b \in Block, WithinAllowance(s, b)
  PROVE  WithinAllowance(s, b)'
<1>1. PICK h, a, c : h = handled[s][b] /\ a = Allowance /\ c = Allowance'
  OBVIOUS
<1>2. h \in Nat /\ a \in Nat /\ c \in Nat /\ c >= a /\ h <= 1 + a
  BY <1>1 DEF TypeOK, WithinAllowance
<1>3. /\ stage[r] = "reading" /\ stage'[r] = "pulling"
      /\ UNCHANGED <<handled, blockNumber, currBlock, events, jobs, task>>
  BY DEF GetBlockNumber, GoTo, TypeOK
<1>4. \A x \in Run : x # r => stage'[x] \in Ended \cup {"idle"} /\ jobs'[x] = {}
  BY DEF Alone, OthersStay
<1>5. \A x \in Run : x # r => b \notin ToWrite(x, s)'
  BY <1>4 DEF ToWrite, Ended, Ranging
<1>6. r \in Working'
  BY <1>3 DEF Working, Ended
<1>7. h <= 1 + c
  BY <1>2
<1>8. ASSUME b \in ToWrite(r, s)' PROVE h <= c
  <2>1. jobs[r] = {}
    BY <1>3, NoJobs
  <2>2. b \in ToWrite(r, s)
    BY <1>3, <1>8, <2>1 DEF ToWrite, Ranging
  <2>3. h <= a
    BY <1>1, <2>2 DEF WithinAllowance
  <2>4. QED
    BY <1>2, <2>3
<1>9. ASSUME b > latestBlock'[r] PROVE h <= c
  <2>1. CASE latestBlock'[r] = head
    <3>1. b \in Int /\ blockNumber \in Int /\ head \in Int
      BY ChainAssumption DEF TypeOK, Block, NoBlock
    <3>2. b > blockNumber /\ b >= blockNumber + 1
      BY <1>9, <2>1, <3>1
    <3>3. currBlock[r] = blockNumber + 1
      BY <1>3 DEF HandIsNew
    <3>4. b \in ToWrite(r, s)
      BY <1>3, <3>2, <3>3 DEF ToWrite, Ranging
    <3>5. h <= a
      BY <1>1, <3>4 DEF WithinAllowance
    <3>6. QED
      BY <1>2, <3>5
  <2>2. CASE Fault
    <3>1. c >= a + 1
      BY <1>1, <2>2 DEF Fault
    <3>2. QED
      BY <1>2, <3>1
  <2>3. QED
    BY <2>1, <2>2 DEF GetBlockNumber, TypeOK
<1>10. QED
  BY <1>1, <1>3, <1>4, <1>5, <1>6, <1>7, <1>8, <1>9 DEF WithinAllowance, AllRead, Ended

LEMMA WithinWriteLast ==
  ASSUME TypeOK, TypeOK', JobsInv, NEW r \in Run, Alone(r), OthersStay(r),
         WriteLastSuccessfulBlock(r),
         Allowance \in Nat, Allowance' \in Nat, Allowance' >= Allowance,
         NEW s \in Sink, NEW b \in Block, WithinAllowance(s, b)
  PROVE  WithinAllowance(s, b)'
<1>1. PICK h, a, c : h = handled[s][b] /\ a = Allowance /\ c = Allowance'
  OBVIOUS
<1>2. h \in Nat /\ a \in Nat /\ c \in Nat /\ c >= a /\ h <= 1 + a
  BY <1>1 DEF TypeOK, WithinAllowance
<1>3. /\ stage[r] = "saving" /\ stage'[r] = "done" /\ blockNumber' = latestBlock[r]
      /\ handled' = handled /\ jobs'[r] = {}
  BY NoJobs DEF WriteLastSuccessfulBlock, GoTo, TypeOK
<1>4. \A x \in Run : stage'[x] \in Ended \cup {"idle"} /\ jobs'[x] = {}
  BY <1>3 DEF Alone, OthersStay, Ended
<1>5. \A x \in Run : b \notin ToWrite(x, s)'
  BY <1>4 DEF ToWrite, Ended, Ranging
<1>6. h <= 1 + c
  BY <1>2
<1>7. ASSUME b > blockNumber' PROVE h <= c
  <2>1. h <= a
    BY <1>1, <1>3, <1>7 DEF WithinAllowance, AllRead
  <2>2. QED
    BY <1>2, <2>1
<1>8. QED
  BY <1>1, <1>3, <1>4, <1>5, <1>6, <1>7 DEF WithinAllowance, AllRead, Ended

\* The other steps of a run.
LEMMA OtherSteps ==
  ASSUME TypeOK, TypeOK', JobsInv, NEW r \in Run, LatestInv(r), HandIsNew(r),
         Step(r) \/ Environment(r), ~ GetBlockNumber(r), ~ WriteLastSuccessfulBlock(r),
         task' = task,
         faults' = faults + 1 => Allowance' >= Allowance + 1,
         r \in Stuck' /\ r \notin Stuck => Allowance' >= Allowance + 1,
         r \in InFlight
  PROVE  SpendsAll(r) /\ Progress(r) /\ stage[r] \notin {"idle", "done"}
<1>1. stage[r] \notin {"idle", "done"}
  BY DEF InFlight, JobsInv, Ended
<1>2. SpendsAll(r)
  BY SpendsBeforeReading, SpendsInPull, SpendsAllPulled, SpendsTransfers, SpendsPromises,
     SpendsBurnsWritten, SpendsInSync, SpendsFailing DEF Step, Environment
<1> SUFFICES Progress(r)
  BY <1>1, <1>2
<1>a. ASSUME UNCHANGED <<blockNumber, latestBlock>>, stage[r] # "failed",
             stage'[r] \notin Ended \cup {"idle"},
             stage'[r] \in AllRead \cup {"pulling"} => stage[r] \in AllRead \cup {"pulling"}
      PROVE  Progress(r)
  BY <1>a DEF Progress
<1>3. CASE ReadLastSuccessfulBlock(r) \/ PullEvents(r) \/ AllPulled(r)
           \/ BurnsWritten(r) \/ SyncBurnsRefused(r)
  <2>1. /\ UNCHANGED <<blockNumber, latestBlock>>
        /\ stage[r] # "failed" /\ stage'[r] \notin Ended \cup {"idle"}
        /\ stage'[r] \in AllRead \cup {"pulling"} => stage[r] \in AllRead \cup {"pulling"}
    BY <1>3 DEF ReadLastSuccessfulBlock, PullEvents, AllPulled, BurnsWritten,
       SyncBurnsRefused, GoTo, TypeOK, Ended, AllRead
  <2>2. QED
    BY <1>a, <2>1
<1>4. CASE \E g \in Burner :
             FindPurchase(r, g) \/ UpdatePurchase(r, g) \/ InsertBurnedCoupons(r, g)
  <2>1. UNCHANGED <<blockNumber, latestBlock, stage>> /\ jobs[r] # {}
    BY <1>4 DEF FindPurchase, UpdatePurchase, InsertBurnedCoupons
  <2>2. stage[r] \in {"purchases", "failed"} /\ stage'[r] = stage[r]
    BY <2>1 DEF JobsInv
  <2>3. CASE stage[r] = "failed"
    BY <2>1, <2>2, <2>3 DEF Progress, AllRead
  <2>4. CASE stage[r] # "failed"
    BY <1>a, <2>1, <2>2, <2>4 DEF Ended, AllRead
  <2>5. QED
    BY <2>3, <2>4
<1>5. CASE SyncBurnsWithFineract(r)
  <2>1. UNCHANGED <<blockNumber, latestBlock, events>> /\ stage[r] = "fineract"
        /\ task = "burns"
    BY <1>5 DEF SyncBurnsWithFineract, LatestInv
  <2>2. CASE events[r] \cap Unregistered = {}
    <3>1. stage'[r] = "saving"
      BY <1>5, <2>2 DEF SyncBurnsWithFineract, GoTo, TypeOK
    <3>2. QED
      BY <1>a, <2>1, <3>1 DEF AllRead, Ended
  <2>3. CASE events[r] \cap Unregistered # {}
    <3>1. stage'[r] = "failed"
      BY <1>5, <2>3 DEF SyncBurnsWithFineract, GoTo, TypeOK
    <3>2. r \in Stuck' /\ r \notin Stuck
      BY <2>1, <2>3, <3>1 DEF Stuck
    <3>3. QED
      BY <2>1, <3>1, <3>2 DEF Progress, AllRead, Ended
  <2>4. QED
    BY <2>2, <2>3
<1>6. CASE ExecuteTransfersUnconfirmed(r) \/ SyncBurnsUnconfirmed(r) \/ Throws(r) \/ Crash(r)
  <2>1. /\ UNCHANGED <<blockNumber, latestBlock>> /\ stage'[r] = "failed"
        /\ faults' = faults + 1
    BY <1>1, <1>6 DEF ExecuteTransfersUnconfirmed, SyncBurnsUnconfirmed, Throws, Crash,
       GoTo, TypeOK, Fault, Ended
  <2>2. QED
    BY <2>1 DEF Progress, AllRead
<1>7. CASE ExecuteTransfers(r)
  <2>1. /\ UNCHANGED <<blockNumber, latestBlock, jobs>> /\ stage[r] = "transfers"
        /\ stage'[r] = "saving" \/ (stage'[r] = "failed" /\ handled' = handled)
    BY <1>7 DEF ExecuteTransfers, GoTo, TypeOK
  <2>2. CASE stage'[r] = "saving"
    BY <1>a, <2>1, <2>2 DEF AllRead, Ended
  <2>3. CASE stage'[r] = "failed"
    <3>1. jobs'[r] = {}
      BY <2>1, NoJobs
    <3>2. GivesUp(r)
      BY <2>1, <2>3, <3>1 DEF GivesUp
    <3>3. QED
      BY <2>1, <2>3, <3>2 DEF Progress, AllRead
  <2>4. QED
    BY <2>1, <2>2, <2>3
<1>8. QED
  BY <1>3, <1>4, <1>5, <1>6, <1>7 DEF Step, Environment

\* What the run that acts has read lies past the cursor.
LEMMA HandStaysNew ==
  ASSUME TypeOK, TypeOK', JobsInv, JobsInv', NEW r \in Run, LatestInv(r),
         r \in InFlight => HandIsNew(r),
         Trigger(r) \/ Step(r) \/ Environment(r), r \in InFlight'
  PROVE  HandIsNew(r)'
<1>1. CASE Trigger(r)
  <2>1. stage'[r] = "started" /\ events'[r] = {}
    BY <1>1 DEF Trigger, GoTo, TypeOK, JobsInv, Unread
  <2>2. QED
    BY <2>1 DEF HandIsNew
<1>2. CASE ReadLastSuccessfulBlock(r)
  <2>1. /\ stage'[r] = "reading" /\ events'[r] = {} /\ blockNumber' = blockNumber
        /\ currBlock'[r] = blockNumber + 1
    BY <1>2, ChainAssumption
    DEF ReadLastSuccessfulBlock, GoTo, TypeOK, JobsInv, Unread, Block, NoBlock
  <2>2. QED
    BY <2>1 DEF HandIsNew
<1>3. CASE GetBlockNumber(r)
  <2>1. /\ stage[r] = "reading" /\ stage'[r] = "pulling" /\ events'[r] = {}
        /\ UNCHANGED <<blockNumber, currBlock>>
    BY <1>3 DEF GetBlockNumber, GoTo, TypeOK, JobsInv, Unread
  <2>2. r \in InFlight
    BY <2>1 DEF InFlight, Ended
  <2>3. currBlock[r] = blockNumber + 1 /\ blockNumber \in Int
    BY <2>1, <2>2, ChainAssumption DEF HandIsNew, TypeOK, Block, NoBlock
  <2>4. currBlock'[r] > blockNumber'
    BY <2>1, <2>3
  <2>5. QED
    BY <2>1, <2>4 DEF HandIsNew
<1>4. CASE PullEvents(r)
  <2>1. /\ stage[r] = "pulling" /\ stage'[r] = "pulling" /\ r \in InFlight
        /\ UNCHANGED <<blockNumber, latestBlock>>
    BY <1>4 DEF PullEvents, InFlight, Ended
  <2>2. HandIsNew(r)
    BY <2>1
  <2>3. PICK from, next, latest, cursor :
          /\ from = currBlock[r] /\ next = currBlock'[r] /\ latest = latestBlock[r]
          /\ cursor = blockNumber
    OBVIOUS
  <2>4. /\ from \in Nat /\ latest \in Nat /\ cursor \in Int
        /\ QueryMaxBlocks \in Nat \ {0} /\ next = from + QueryMaxBlocks
    BY <1>4, <2>1, <2>3, QueryMaxBlocksAssumption, ChainAssumption
    DEF PullEvents, TypeOK, LatestInv, Block, NoBlock
  <2>5. RangeEnd(r) \in Int /\ RangeEnd(r) <= latest /\ RangeEnd(r) < next
    BY <2>3, <2>4 DEF RangeEnd
  <2>6. from > cursor /\ next > cursor
    <3>1. from > cursor
      BY <2>1, <2>2, <2>3 DEF HandIsNew
    <3>2. QED
      BY <2>4, <3>1
  <2>7. ASSUME NEW b \in events'[r] PROVE b < next /\ b > cursor /\ b <= latest
    <3>1. b \in events[r] \/ b \in from .. RangeEnd(r)
      BY <1>4, <2>3 DEF PullEvents, TypeOK
    <3>2. CASE b \in events[r]
      <4>1. b < from /\ b > cursor /\ b <= latest
        BY <2>1, <2>2, <2>3, <3>2 DEF HandIsNew
      <4>2. b \in Int
        BY <3>2, ChainAssumption DEF TypeOK, Block
      <4>3. QED
        BY <2>4, <4>1, <4>2
    <3>3. CASE b \in from .. RangeEnd(r)
      BY <2>4, <2>5, <2>6, <3>3
    <3>4. QED
      BY <3>1, <3>2, <3>3
  <2>8. QED
    BY <2>1, <2>3, <2>6, <2>7 DEF HandIsNew
<1>5. CASE WriteLastSuccessfulBlock(r)
  <2>1. stage'[r] = "done"
    BY <1>5 DEF WriteLastSuccessfulBlock, GoTo, TypeOK
  <2>2. jobs'[r] = {}
    BY <2>1 DEF JobsInv
  <2>3. QED
    BY <2>1, <2>2 DEF InFlight, Ended
<1>6. ASSUME UNCHANGED <<blockNumber, latestBlock, events>>,
             stage'[r] \notin {"reading", "pulling"}, r \in InFlight
      PROVE  HandIsNew(r)'
  BY <1>6 DEF HandIsNew
<1>7. CASE AllPulled(r) \/ ExecuteTransfers(r) \/ ExecuteTransfersUnconfirmed(r)
           \/ BurnsWritten(r) \/ SyncBurnsWithFineract(r) \/ SyncBurnsRefused(r)
           \/ SyncBurnsUnconfirmed(r) \/ Throws(r) \/ Crash(r)
  <2>1. r \in InFlight
    BY <1>7 DEF AllPulled, ExecuteTransfers, ExecuteTransfersUnconfirmed, BurnsWritten,
       SyncBurnsWithFineract, SyncBurnsRefused, SyncBurnsUnconfirmed, Throws, Crash,
       InFlight, Ended
  <2>2. stage'[r] \notin {"reading", "pulling"} /\ UNCHANGED <<blockNumber, latestBlock, events>>
    BY <1>7 DEF AllPulled, ExecuteTransfers, ExecuteTransfersUnconfirmed, BurnsWritten,
       SyncBurnsWithFineract, SyncBurnsRefused, SyncBurnsUnconfirmed, Throws, Crash,
       GoTo, TypeOK, Ended
  <2>3. QED
    BY <1>6, <2>1, <2>2
<1>8. CASE \E g \in Burner :
             FindPurchase(r, g) \/ UpdatePurchase(r, g) \/ InsertBurnedCoupons(r, g)
  <2>1. /\ jobs[r] # {} /\ UNCHANGED <<blockNumber, latestBlock, events, stage>>
    BY <1>8 DEF FindPurchase, UpdatePurchase, InsertBurnedCoupons
  <2>2. r \in InFlight /\ stage'[r] \notin {"reading", "pulling"}
    BY <2>1 DEF InFlight, JobsInv
  <2>3. QED
    BY <1>6, <2>1, <2>2
<1>9. QED
  BY <1>1, <1>2, <1>3, <1>4, <1>5, <1>7, <1>8 DEF Step, Environment

-----------------------------------------------------------------------------
\* A step of one run, none other being under way.
LEMMA SerialStateKept ==
  ASSUME TypeOK, TypeOK', JobsInv, JobsInv', blockNumber <= head, SerialState,
         IsFiniteSet(Stuck), [Next]_vars, ~ (Cardinality(InFlight') > 1),
         NEW r \in Run, Trigger(r) \/ Step(r) \/ Environment(r), LatestInv(r)
  PROVE  SerialState'
<1>1. OneInFlight' /\ Alone(r) /\ OthersStay(r)
  BY OneInFlightKept, OnlyOneActs DEF SerialState
<1>2. /\ Allowance \in Nat /\ Allowance' \in Nat /\ Allowance' >= Allowance
      /\ faults' = faults + 1 => Allowance' >= Allowance + 1
      /\ r \in Stuck' /\ r \notin Stuck => Allowance' >= Allowance + 1
  BY AllowanceGrows
<1>3. r \in InFlight => HandIsNew(r)
  BY DEF SerialState
<1>4. ASSUME NEW s \in Sink, NEW b \in Block PROVE WithinAllowance(s, b)'
  <2>1. WithinAllowance(s, b)
    BY DEF SerialState
  <2>2. CASE Trigger(r)
    BY <1>1, <1>2, <2>1, <2>2, WithinTrigger
  <2>3. CASE GetBlockNumber(r)
    <3>1. r \in InFlight
      BY <2>3 DEF GetBlockNumber, InFlight, Ended
    <3>2. QED
      BY <1>1, <1>2, <1>3, <2>1, <2>3, <3>1, WithinGetBlockNumber
  <2>4. CASE WriteLastSuccessfulBlock(r)
    BY <1>1, <1>2, <2>1, <2>4, WithinWriteLast
  <2>5. CASE ~ Trigger(r) /\ ~ GetBlockNumber(r) /\ ~ WriteLastSuccessfulBlock(r)
    <3>1. Step(r) \/ Environment(r)
      BY <2>5
    <3>2. r \in InFlight
      BY <2>5, <3>1 DEF Step, Environment, ReadLastSuccessfulBlock,
         PullEvents, AllPulled, ExecuteTransfers, ExecuteTransfersUnconfirmed,
         FindPurchase, UpdatePurchase, InsertBurnedCoupons, BurnsWritten,
         SyncBurnsWithFineract, SyncBurnsRefused, SyncBurnsUnconfirmed, Throws, Crash,
         InFlight, Ended
    <3>3. task' = task
      BY TaskStays
    <3>4. SpendsAll(r) /\ Progress(r) /\ stage[r] \notin {"idle", "done"}
      BY <1>2, <1>3, <2>5, <3>1, <3>2, <3>3, OtherSteps
    <3>5. Spends(r, s, b)
      BY <3>4 DEF SpendsAll
    <3>6. QED
      BY <1>1, <1>2, <2>1, <3>4, <3>5, ProgressIsWithin
  <2>6. QED
    BY <2>2, <2>3, <2>4, <2>5
<1>5. ASSUME NEW x \in InFlight' PROVE HandIsNew(x)'
  <2>1. x = r
    BY <1>1, <1>5 DEF Alone, OthersStay, InFlight
  <2>2. QED
    BY <1>3, <1>5, <2>1, HandStaysNew
<1>6. QED
  BY <1>1, <1>4, <1>5 DEF SerialState

\* The chain's steps, and those of nobody, change nothing that matters.
LEMMA SerialStateIdle ==
  ASSUME SerialState,
         UNCHANGED <<task, blockNumber, handled, stage, currBlock, latestBlock, events,
                     jobs, faults>>
  PROVE  SerialState'
<1>1. Stuck' = Stuck /\ Working' = Working /\ InFlight' = InFlight
  BY DEF Stuck, Working, InFlight
<1>2. Allowance' = Allowance
  BY <1>1 DEF Allowance
<1>3. ASSUME NEW x, NEW s PROVE ToWrite(x, s)' = ToWrite(x, s)
  BY DEF ToWrite, BurnerOf
<1>4. ASSUME NEW s \in Sink, NEW b \in Block PROVE WithinAllowance(s, b)'
  <2>1. WithinAllowance(s, b)
    BY DEF SerialState
  <2>2. QED
    BY <1>1, <1>2, <1>3, <2>1 DEF WithinAllowance
<1>5. ASSUME NEW x \in InFlight' PROVE HandIsNew(x)'
  BY <1>1, <1>5 DEF SerialState, HandIsNew
<1>6. OneInFlight'
  BY <1>1 DEF SerialState, OneInFlight
<1>7. QED
  BY <1>4, <1>5, <1>6 DEF SerialState

LEMMA SerialStep == SerialInv /\ [MCNext]_<<vars, overlapped>> => SerialInv'
<1> SUFFICES ASSUME SerialInv, [MCNext]_<<vars, overlapped>> PROVE SerialInv'
  OBVIOUS
<1> USE DEF SerialInv
<1>1. [Next]_vars
  BY DEF MCNext, vars
<1>2. TypeOK /\ RangesInv /\ \A r \in Run : LatestInv(r)
  BY DEF CoverInv
<1>3. CoverInv' /\ JobsInv' /\ blockNumber' <= head' /\ IsFiniteSet(Stuck')
  <2>1. CoverInv' /\ JobsInv' /\ blockNumber' <= head'
    BY <1>1, <1>2, CoverStep, JobsInvStep, CursorInvStep
  <2>2. TypeOK'
    BY <2>1 DEF CoverInv
  <2>3. QED
    BY <1>1, <1>2, <2>1, <2>2, AllowanceGrows
<1>4. ASSUME ~ overlapped' PROVE SerialState'
  <2>1. ~ overlapped
    BY <1>4 DEF MCNext
  <2>2. SerialState
    BY <2>1
  <2>3. CASE NewBlock \/ Finished \/ UNCHANGED <<vars, overlapped>>
    BY <2>2, <2>3, SerialStateIdle DEF NewBlock, Finished, vars
  <2>4. CASE MCNext /\ \E r \in Run : Trigger(r) \/ Step(r) \/ Environment(r)
    <3>1. PICK r \in Run : Trigger(r) \/ Step(r) \/ Environment(r)
      BY <2>4
    <3>2. ~ (Cardinality(InFlight') > 1)
      BY <1>4, <2>4 DEF MCNext
    <3>3. TypeOK' /\ LatestInv(r)
      BY <1>2, <1>3 DEF CoverInv
    <3>4. QED
      BY <1>1, <1>2, <1>3, <2>2, <3>1, <3>2, <3>3, SerialStateKept
  <2>5. QED
    BY <2>3, <2>4 DEF MCNext, Next
<1>5. QED
  BY <1>3, <1>4

LEMMA SerialInit == MCInit => SerialInv
<1> SUFFICES ASSUME MCInit PROVE SerialInv
  OBVIOUS
<1>1. Init
  BY DEF MCInit
<1>2. CoverInv
  BY <1>1, CoverInit
<1>3. JobsInv /\ blockNumber <= head
  BY <1>1 DEF Init, JobsInv, Unread, NoBlock
<1>4. Stuck = {} /\ InFlight = {}
  BY <1>1 DEF Init, Stuck, InFlight
<1>5. Cardinality(Stuck) = 0 /\ IsFiniteSet(Stuck)
  BY <1>4, FS_EmptySet
<1>6. Allowance = 0
  BY <1>1, <1>5 DEF Init, Allowance
<1>7. ASSUME NEW s \in Sink, NEW b \in Block PROVE WithinAllowance(s, b)
  <2>1. handled[s][b] = 0
    BY <1>1 DEF Init
  <2>2. QED
    BY <1>1, <1>6, <2>1 DEF Init, WithinAllowance, AllRead
<1>8. SerialState
  BY <1>4, <1>7 DEF SerialState, OneInFlight
<1>9. QED
  BY <1>2, <1>3, <1>5, <1>8 DEF SerialInv

\* Of runs that came one at a time: an event is written again only when a run
\* failed between its write and its cursor, or a lagging node took the cursor
\* back, and then once per such fault; or when a burner is unknown, and then
\* once by every later run.
THEOREM OneAtATimeRewritesNeedFaults == MCSpec => []SerialRewritesNeedFaults
<1>1. SerialInv => SerialRewritesNeedFaults
  <2> SUFFICES ASSUME SerialInv, ~ overlapped, NEW s \in Sink, NEW b \in Block
               PROVE  handled[s][b] <= 1 + faults + Cardinality(Stuck)
    BY DEF SerialRewritesNeedFaults, RewritesNeedFaults
  <2>1. handled[s][b] <= 1 + Allowance /\ TypeOK /\ IsFiniteSet(Stuck)
    BY DEF SerialInv, SerialState, WithinAllowance, CoverInv
  <2>2. faults \in Nat /\ Cardinality(Stuck) \in Nat
    BY <2>1, FS_CardinalityType DEF TypeOK
  <2>3. 1 + Allowance = 1 + faults + Cardinality(Stuck)
    BY <2>2 DEF Allowance
  <2>4. QED
    BY <2>1, <2>3
<1>2. QED
  BY <1>1, SerialInit, SerialStep, PTL DEF MCSpec
=============================================================================
