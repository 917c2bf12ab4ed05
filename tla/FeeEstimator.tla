---------------------------- MODULE FeeEstimator ----------------------------
(***************************************************************************)
(* The fee estimator of a shard (mempool/estimatefee.go): transactions are *)
(* observed when they enter the pool and, when a block takes them, put     *)
(* into the bin of the number of blocks they waited for.  The bins are     *)
(* bounded: a block replaces random entries and remembers which, so that   *)
(* the last blocks can be rolled back.  The state is saved when the node   *)
(* stops and restored when it starts.                                      *)
(*                                                                         *)
(* The program never calls RegisterBlock and Rollback: the caller modelled *)
(* here is the one the comments describe, which registers the blocks of a  *)
(* chain and rolls orphaned ones back.                                     *)
(***************************************************************************)
EXTENDS Integers, FiniteSets, SequencesExt, FiniteSetsExt, Functions

CONSTANTS
    FeeTxs,           \* hashes of transactions, numbers
    FeeRate,          \* [FeeTxs -> Nat]: fee per kilobyte
    FeeDepth,         \* estimateFeeDepth
    FeeBinSize,       \* estimateFeeBinSize
    MaxReplacements,  \* estimateFeeMaxReplacements
    MaxRollback,      \* DefaultEstimateFeeMaxRollback
    FirstHeight,      \* height of the first block registered
    LastHeight,       \* bound: height of the last block
    MaxTxsPerBlock,   \* bound: transactions of a block
    MaxOrphans        \* bound: blocks rolled back

VARIABLES
    estimator,  \* what Save writes: see NewFeeEstimator
    minedTxs,   \* transactions of the chain, block by block from the first one registered
    binsBefore, \* history: the bins, as sets, before each block of the chain
    orphans     \* how many blocks have been rolled back

feeVars == <<estimator, minedTxs, binsBefore, orphans>>

ASSUME FeeAssumption == MaxReplacements < FeeBinSize /\ FirstHeight > FeeDepth

UnminedHeight == 0
Bins == 0 .. FeeDepth - 1

NewFeeEstimator ==
    [lastKnownHeight |-> UnminedHeight,
     numBlocksRegistered |-> 0,
     observed |-> <<>>,                    \* hash -> the observed transaction
     bin |-> [i \in Bins |-> <<>>],
     dropped |-> <<>>,                     \* what each of the last blocks replaced
     failed |-> FALSE]                     \* RegisterBlock has met a transaction mined before

\* The difference of two heights, unsigned.
Minus(a, b) == IF a >= b THEN a - b ELSE 2 ^ 30

-----------------------------------------------------------------------------
\* ObserveTransaction.  The height is the pool's, which may be ahead of the
\* last block registered.
ObserveTransaction(t, height) ==
    /\ estimator.lastKnownHeight # UnminedHeight
    /\ t \notin DOMAIN estimator.observed
    /\ height \in estimator.lastKnownHeight .. estimator.lastKnownHeight + 1
    /\ estimator' = [estimator EXCEPT !.observed =
                        (t :> [feeRate |-> FeeRate[t], observed |-> height, mined |-> UnminedHeight]) @@ @]
    /\ UNCHANGED <<minedTxs, binsBefore, orphans>>

\* How many entries of a full bin may be replaced by an entry that is the
\* count-th of its block: those of the block itself are at the end.
Replaceable(count) == FeeBinSize - count

\* One transaction of the block: it goes into the bin of the blocks it waited
\* for; when that is full it takes the place of an entry of an older block.
PutInBin(acc, t, height, random) ==
    LET o == acc.observed[t]
        blocksToConfirm == Minus(height, o.observed + 1)
        b == blocksToConfirm
        full == Len(acc.bin[b]) = FeeBinSize
        l == Replaceable(acc.replacementCounts[b] + 1)
        drop == (random % l) + 1
    IN  CASE acc.failed \/ t \notin DOMAIN acc.observed -> acc
          [] o.mined # UnminedHeight -> [acc EXCEPT !.failed = TRUE]
          [] blocksToConfirm >= FeeDepth \/ acc.replacementCounts[b] = MaxReplacements -> acc
          [] OTHER -> [acc EXCEPT !.observed[t].mined = height,
                                  !.replacementCounts[b] = @ + 1,
                                  !.dropped = IF full THEN Append(@, acc.bin[b][drop]) ELSE @,
                                  !.bin[b] = IF full THEN [@ EXCEPT ![drop] = acc.bin[b][l], ![l] = t] ELSE Append(@, t)]

\* Transactions that have waited too long are forgotten.
Recent(observed, height) ==
    Restrict(observed, {t \in DOMAIN observed : observed[t].mined # UnminedHeight \/ Minus(height, observed[t].observed) < FeeDepth})

Keep(dropped, entry) ==
    Append(IF Len(dropped) = MaxRollback THEN Tail(dropped) ELSE dropped, entry)

Contents(bin) == [i \in Bins |-> ToSet(bin[i])]

\* RegisterBlock, with the transactions in the order of a Go map.
RegisterBlock(height, txs, random) ==
    LET acc == FoldLeft(LAMBDA a, k : PutInBin(a, txs[k], height, random[k]),
                        [observed |-> estimator.observed, bin |-> estimator.bin, dropped |-> <<>>, failed |-> FALSE,
                         replacementCounts |-> [i \in Bins |-> 0]],
                        [k \in DOMAIN txs |-> k])
    IN  /\ \/ estimator.lastKnownHeight = UnminedHeight
           \/ height = estimator.lastKnownHeight + 1
        /\ estimator' = [estimator EXCEPT
               !.lastKnownHeight = height,
               !.numBlocksRegistered = @ + 1,
               !.observed = IF acc.failed THEN acc.observed ELSE Recent(acc.observed, height),
               !.bin = acc.bin,
               !.dropped = IF acc.failed THEN @ ELSE Keep(@, [height |-> height, transactions |-> acc.dropped]),
               !.failed = acc.failed]
        /\ minedTxs' = Append(minedTxs, ToSet(txs))
        /\ binsBefore' = Append(binsBefore, Contents(estimator.bin))
        /\ UNCHANGED orphans

-----------------------------------------------------------------------------
\* The places of a bin whose entries the last block has put there.
Of(ef, i) == {k \in DOMAIN ef.bin[i] : ef.observed[ef.bin[i][k]].mined = ef.lastKnownHeight}

BinOf(ef, t) == Minus(Minus(ef.observed[t].mined, ef.observed[t].observed), 1)

\* Mutant: only entries that replaced another are taken back.
TakenIfReplaced(ef) == UNION {{ef.bin[i][k] : k \in Of(ef, i)} : i \in {j \in Bins : Len(ef.bin[j]) = FeeBinSize}}

\* The entries of the last block.
Taken(ef) == UNION {{ef.bin[i][k] : k \in Of(ef, i)} : i \in Bins}

\* rollback: what the last block replaced returns to the first of its places,
\* the other entries of the block are taken out of their bins.
rollback(ef) ==
    LET dropped == Last(ef.dropped).transactions
        restored(i) == SelectSeq(dropped, LAMBDA t : BinOf(ef, t) = i)
        places(i) == SetToSortSeq(Of(ef, i), LAMBDA a, b : a < b)
        back(i) == [k \in DOMAIN ef.bin[i] |->
                       IF \E j \in DOMAIN restored(i) : places(i)[j] = k
                       THEN restored(i)[CHOOSE j \in DOMAIN restored(i) : places(i)[j] = k] ELSE ef.bin[i][k]]
    IN  [ef EXCEPT !.bin = [i \in Bins |-> SelectSeq(back(i), LAMBDA t : t \notin Taken(ef))],
                   !.observed = [t \in DOMAIN @ |-> IF t \in Taken(ef) THEN [@[t] EXCEPT !.mined = UnminedHeight] ELSE @[t]],
                   !.dropped = Front(@),
                   !.numBlocksRegistered = @ - 1,
                   !.lastKnownHeight = @ - 1]

\* Rollback of the last n blocks.
Rollback(n) ==
    /\ n \in 1 .. Len(estimator.dropped)
    /\ estimator' = FoldLeft(LAMBDA ef, k : rollback(ef), estimator, [k \in 1 .. n |-> k])
    /\ minedTxs' = SubSeq(minedTxs, 1, Len(minedTxs) - n)
    /\ binsBefore' = SubSeq(binsBefore, 1, Len(binsBefore) - n)
    /\ orphans' = orphans + n

-----------------------------------------------------------------------------
\* The estimates: the fee rates from high to low, and for n blocks the middle
\* of the places that the bin of n would take up among them.
newEstimateFeeSet(ef) ==
    SortSeq(FlattenSeq([i \in 1 .. FeeDepth |-> [k \in DOMAIN ef.bin[i - 1] |-> ef.observed[ef.bin[i - 1][k]].feeRate]]),
            LAMBDA a, b : a > b)

estimateFee(ef, confirmations) ==
    LET rates == newEstimateFeeSet(ef)
        min == MapThenSumSet(LAMBDA i : Len(ef.bin[i]), 0 .. confirmations - 2)
        max == min + Len(ef.bin[confirmations - 1]) - 1
        feeIndex == (min + IF max < min THEN min ELSE max) \div 2
    IN  IF rates = <<>> THEN 0
        ELSE rates[1 + IF feeIndex >= Len(rates) THEN Len(rates) - 1 ELSE feeIndex]

-----------------------------------------------------------------------------
\* Save: the observed transactions by their hashes, then places in that list;
\* a transaction that is not in it has the place 0, the default of a Go map.
Save(ef) ==
    LET hashes == SetToSortSeq(DOMAIN ef.observed, LAMBDA a, b : a < b)
        place(t) == IF t \in ToSet(hashes) THEN (CHOOSE k \in DOMAIN hashes : hashes[k] = t) - 1 ELSE 0
        places(ts) == [k \in DOMAIN ts |-> place(ts[k])]
    IN  [heights |-> <<ef.lastKnownHeight, ef.numBlocksRegistered>>,
         observed |-> [k \in DOMAIN hashes |-> <<hashes[k], ef.observed[hashes[k]]>>],
         bin |-> [i \in Bins |-> places(ef.bin[i])],
         dropped |-> [k \in DOMAIN ef.dropped |-> <<ef.dropped[k].height, places(ef.dropped[k].transactions)>>]]

\* RestoreFeeEstimator.
RestoreFeeEstimator(data) ==
    LET hash(place) == data.observed[place + 1][1]
        hashes(places) == [k \in DOMAIN places |-> hash(places[k])]
    IN  [failed |-> FALSE,
         lastKnownHeight |-> data.heights[1],
         numBlocksRegistered |-> data.heights[2],
         observed |-> [t \in {data.observed[k][1] : k \in DOMAIN data.observed} |->
                          data.observed[CHOOSE k \in DOMAIN data.observed : data.observed[k][1] = t][2]],
         bin |-> [i \in Bins |-> hashes(data.bin[i])],
         dropped |-> [k \in DOMAIN data.dropped |->
                         [height |-> data.dropped[k][1], transactions |-> hashes(data.dropped[k][2])]]]

\* Server.Stop and the start after it.
StopAndStart ==
    /\ estimator' = RestoreFeeEstimator(Save(estimator))
    /\ UNCHANGED <<minedTxs, binsBefore, orphans>>

-----------------------------------------------------------------------------
FeeInit ==
    /\ estimator = NewFeeEstimator
    /\ minedTxs = <<>>
    /\ binsBefore = <<>>
    /\ orphans = 0

NextHeight == IF estimator.lastKnownHeight = UnminedHeight THEN FirstHeight ELSE estimator.lastKnownHeight + 1

FeeNext ==
    \/ \E t \in FeeTxs, height \in FirstHeight .. LastHeight : ObserveTransaction(t, height)
    \/ /\ NextHeight <= LastHeight
       /\ \E txs \in UNION {SetToSeqs(ts) : ts \in {s \in SUBSET (FeeTxs \ UNION ToSet(minedTxs)) : Cardinality(s) <= MaxTxsPerBlock}} :
             \E random \in [DOMAIN txs -> 0 .. FeeBinSize - 2] : RegisterBlock(NextHeight, txs, random)
    \/ \E n \in 1 .. MaxOrphans - orphans : Rollback(n)
    \/ StopAndStart

-----------------------------------------------------------------------------

\* Rolling blocks back leaves in the bins what was there before the first of
\* them was registered (estimatefee.go:343 "rolls back the effect of the last
\* block"), and a transaction mined by them counts as not mined; stopping and
\* starting in between changes nothing.
RollbackIsExact ==
    [][/\ StopAndStart => UNCHANGED feeVars
       /\ orphans' > orphans =>
              /\ Contents(estimator'.bin) = binsBefore[Len(minedTxs') + 1]
              /\ \A t \in DOMAIN estimator'.observed :
                    estimator'.observed[t].mined # UnminedHeight => t \in UNION ToSet(minedTxs')]_feeVars
=============================================================================
