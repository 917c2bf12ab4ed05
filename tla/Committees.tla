----------------------------- MODULE Committees -----------------------------
(***************************************************************************)
(* Who signs which chain: the lists of candidates, pending validators and  *)
(* committees that BestStateBeacon keeps for the beacon and for every      *)
(* shard, the lists BestStateShard keeps for its own shard, and the        *)
(* instructions by which the chains tell each other of changes.            *)
(*                                                                         *)
(* A validator stakes in a transaction of its shard.  The shard block's    *)
(* stake instruction reaches the beacon (GetShardStateFromBlock), which    *)
(* queues the candidate; at RANDOM_TIME of an epoch the queue is frozen,   *)
(* and the first beacon block after it carries the random number and       *)
(* assigns the frozen candidates to shards.  A shard appends the validators*)
(* assigned to it when one of its blocks refers to that beacon block, and  *)
(* swaps one of them into its committee in a block that refers to the last *)
(* beacon block of an epoch; the swap instruction travels back to the      *)
(* beacon, which changes its own view of that committee, and from there to *)
(* every shard, one of which gives the stake back.                         *)
(*                                                                         *)
(* Both chains are the committed ones: a block is produced, signed and     *)
(* inserted in one step.  What interleaves are the chains: a shard may     *)
(* refer to any beacon block that exists, and the beacon may take any      *)
(* number of the shard blocks that exist.                                  *)
(***************************************************************************)
EXTENDS Naturals, Sequences, SequencesExt, FiniteSetsExt

CONSTANTS
    ActiveShards,      \* ActiveShards of the best state, how many shards there are
    EPOCH,             \* common.EPOCH, beacon blocks of an epoch
    RANDOM_TIME,       \* common.RANDOM_TIME, when the candidates are frozen
    OFFSET,            \* common.OFFSET, validators swapped at a time
    BeaconGenesis,     \* the beacon committee of the genesis block
    ShardGenesis,      \* [Shard -> the shard's committee of the genesis block]
    Staker,            \* keys that may stake
    Home,              \* [Staker -> Shard]: the shard of a staker's key and address
    RandomShard,       \* [Staker -> Shard]: hash of key and random number, modulo shards
    Impatient,         \* TRUE: a key may stake again before the beacon has seen its stake
    PayTo,             \* [beacon height -> Shard]: the shard of the producer's address
    Kind,              \* [Staker -> what a key may stake for: "shard", "beacon" or both]
    MaxBeaconHeight,   \* bounds of the model: beacon blocks,
    MaxShardHeight,    \* [Shard -> blocks after the genesis block],
    MaxStakes          \* and stakes of a key

Shard == 0 .. ActiveShards - 1

ASSUME ShardAssumption == ActiveShards \in Nat
ASSUME GenesisAssumption ==
    /\ DOMAIN ShardGenesis = Shard
    /\ \A l \in {BeaconGenesis} \cup {ShardGenesis[s] : s \in Shard} : l \in Seq(Range(l)) /\ l # <<>>
ASSUME EpochAssumption == /\ EPOCH \in Nat /\ RANDOM_TIME \in Nat /\ OFFSET \in Nat
                          /\ 1 < RANDOM_TIME /\ RANDOM_TIME + 1 < EPOCH /\ 0 < OFFSET

VARIABLES
    beacon,        \* BestStateBeacon
    beaconBlocks,  \* [1 .. height -> Seq of instructions]
    shard,         \* [Shard -> BestStateShard]
    shardBlocks,   \* [Shard -> Seq of blocks]
    stakes,        \* [Staker -> stake transactions in shard blocks]
    returned,      \* the stakes given back, with the shard that did it
    paid           \* [Shard -> Seq of beacon heights whose reward it has paid]

committeeVars == <<beacon, beaconBlocks, shard, shardBlocks, stakes, returned, paid>>

\* Instructions.
Swap(in, out, kind, s)  == [act |-> "swap", in |-> in, out |-> out, kind |-> kind, shard |-> s]
Stake(keys, kind, txs)  == [act |-> "stake", keys |-> keys, kind |-> kind, txs |-> txs]
Assign(keys, s)         == [act |-> "assign", keys |-> keys, shard |-> s]
Random                  == [act |-> "random"]
Salary(h)               == [act |-> "salary", height |-> h, shard |-> PayTo[h]]

Take(s, n) == SubSeq(s, 1, n)
Drop(s, n) == SubSeq(s, n + 1, Len(s))
Only(s, S) == FlattenSeq([i \in DOMAIN s |-> IF s[i] \in S THEN <<s[i]>> ELSE <<>>])
Instructions(act, insts) == SelectSeq(insts, LAMBDA l : l.act = act)
EpochOf(h) == ((h - 1) \div EPOCH) + 1

-----------------------------------------------------------------------------
\* Swapping and removing.

\* Mutant: the validators swapped in stay pending.
SwapValidatorKeepsPending(pending, current, size) ==
    IF pending = <<>>
    THEN [ok |-> FALSE, pending |-> pending, current |-> current, out |-> <<>>, in |-> <<>>]
    ELSE [ok |-> TRUE, pending |-> pending, current |-> Drop(current, 1) \o Take(pending, 1),
          out |-> Take(current, 1), in |-> Take(pending, 1)]

\* SwapValidator: fill the committee up to its size, then swap the rest of
\* the offset; of the validators that filled it only those of a swap that
\* fills and no more are in the list of new validators.
SwapValidator(pending, current, size) ==
    LET offset == IF OFFSET < Len(pending) THEN OFFSET ELSE Len(pending)
        diff == IF Len(current) < size THEN size - Len(current) ELSE 0
        fill == IF diff < offset THEN diff ELSE offset
        n == offset - fill
        full == current \o Take(pending, fill)
        new == SubSeq(pending, fill + 1, offset)
    IN  IF offset = 0 \/ offset > size
        THEN [ok |-> FALSE, pending |-> pending, current |-> current, out |-> <<>>, in |-> <<>>]
        ELSE [ok |-> TRUE, pending |-> Drop(pending, offset),
              current |-> Drop(full, n) \o new, out |-> Take(full, n),
              in |-> IF n = 0 THEN Take(pending, fill) ELSE new]

\* RemoveValidator: the i-th removed validator is compared with the i-th of a
\* list that has already lost i - 1 validators.
RemoveValidator(validators, removed) ==
    [ok |-> \A i \in DOMAIN removed : /\ 2 * i - 1 <= Len(validators)
                                      /\ validators[2 * i - 1] = removed[i],
     list |-> Drop(validators, Len(removed))]

-----------------------------------------------------------------------------
\* The beacon best state.

\* Every list of the best state, as GetValidStakers goes through them.
ListsOf(b) == {b.BeaconCommittee, b.BeaconPending, b.beaconCurrent, b.beaconNext,
               b.shardCurrent, b.shardNext}
              \cup {b.ShardCommittee[s] : s \in Shard} \cup {b.ShardPending[s] : s \in Shard}
Known(b) == UNION {Range(l) : l \in ListsOf(b)}
GetValidStakers(b, keys) == Only(keys, Range(keys) \ Known(b))

\* One instruction of a block: a failing RemoveValidator ends Update there.
ApplySwap(b, l) ==
    LET pending == IF l.kind = "beacon" THEN b.BeaconPending ELSE b.ShardPending[l.shard]
        current == IF l.kind = "beacon" THEN b.BeaconCommittee ELSE b.ShardCommittee[l.shard]
        p == RemoveValidator(pending, l.in)
        c == RemoveValidator(current \o l.in, l.out)
    IN  IF ~(p.ok /\ c.ok) THEN [b EXCEPT !.ok = FALSE]
        ELSE IF l.kind = "beacon" THEN [b EXCEPT !.BeaconPending = p.list, !.BeaconCommittee = c.list]
        ELSE [b EXCEPT !.ShardPending[l.shard] = p.list, !.ShardCommittee[l.shard] = c.list]

ApplyInstruction(b, l) ==
    CASE ~b.ok -> b
      [] b.ok /\ l.act = "swap" -> ApplySwap(b, l)
      [] b.ok /\ l.act = "stake" ->
            IF l.kind = "shard" THEN [b EXCEPT !.shardNext = @ \o l.keys]
                                ELSE [b EXCEPT !.beaconNext = @ \o l.keys]
      [] OTHER -> b

\* The instructions of a block are applied one after the other.
ApplyInstructions(b, insts) ==
    LET upTo[i \in 0 .. Len(insts)] ==
            IF i = 0 THEN b ELSE ApplyInstruction(upTo[i - 1], insts[i])
    IN  upTo[Len(insts)]

\* Mutant: the queues are not emptied.
SnapshotKeepsQueues(b) ==
    IF b.height % EPOCH = RANDOM_TIME
    THEN [b EXCEPT !.shardCurrent = b.shardNext, !.beaconCurrent = b.beaconNext]
    ELSE b

\* At RANDOM_TIME the queues become the frozen lists, and start anew.
Snapshot(b) ==
    IF b.height % EPOCH = RANDOM_TIME
    THEN [b EXCEPT !.shardCurrent = b.shardNext, !.beaconCurrent = b.beaconNext,
                   !.shardNext = <<>>, !.beaconNext = <<>>]
    ELSE b

\* calculateCandidateShardID decides the shard of each frozen candidate.
AssignedTo(candidates, s) == Only(candidates, {k \in Staker : RandomShard[k] = s})

\* The random number assigns the frozen shard candidates; ShuffleCandidate
\* appends the beacon's in the order in which a Go map is walked.
AssignValidatorShard(b, shuffled) ==
    [b EXCEPT !.gotRandom = TRUE,
              !.ShardPending = [s \in Shard |-> @[s] \o AssignedTo(b.shardCurrent, s)],
              !.shardCurrent = <<>>,
              !.BeaconPending = @ \o shuffled,
              !.beaconCurrent = <<>>]

ShuffleCandidate(candidates) == {p \in [DOMAIN candidates -> Range(candidates)] :
                                    Range(p) = Range(candidates)}

\* BestStateBeacon.Update: the swap of its last branch is never reached, as
\* the last height of an epoch is 0 modulo EPOCH and less than RANDOM_TIME.
Update(b, heights, insts, shuffled) ==
    LET taken == [b EXCEPT !.height = @ + 1, !.bestShard = heights]
        applied == ApplyInstructions(taken, insts)
        h == applied.height % EPOCH
    IN  CASE ~applied.ok -> applied
          [] applied.ok /\ h = 1 -> [applied EXCEPT !.gotRandom = FALSE]
          [] applied.ok /\ h # 1 /\ h < RANDOM_TIME -> applied
          [] applied.ok /\ h >= RANDOM_TIME ->
                IF Random \in Range(insts) THEN AssignValidatorShard(Snapshot(applied), shuffled)
                                           ELSE Snapshot(applied)

-----------------------------------------------------------------------------
\* Beacon blocks.

\* The shard blocks that a beacon block with these shard heights takes.
Taken(s, heights) == SubSeq(shardBlocks[s], beacon.bestShard[s] + 1, heights[s])

\* GetShardState panics on a block whose signatures are not those of the
\* committee the beacon knows for the shard.
Accepted(s, heights) == \A i \in DOMAIN Taken(s, heights) :
                            Taken(s, heights)[i].signers = beacon.ShardCommittee[s]

\* GetShardStateFromBlock keeps the stakers that no list of the best state
\* holds, and of them only the first of those named twice in the block.
ValidStakes(b, blk) ==
    LET valid(kind) == GetValidStakers(b, blk.stakes[kind])
        inst(kind, keys) == IF keys = <<>> THEN <<>>
                            ELSE <<Stake(keys, kind, [i \in DOMAIN keys |-> blk.txs[keys[i]]])>>
    IN  inst("shard", valid("shard"))
        \o inst("beacon", Only(valid("beacon"), Range(valid("beacon")) \ Range(valid("shard"))))

\* The shards in the order of their numbers, as the keys are sorted.
ShardSeq == [i \in 1 .. ActiveShards |-> i - 1]

\* GenerateInstruction.
GenerateInstruction(b, h, blocks) ==
    LET swaps == FlattenSeq([i \in DOMAIN blocks |-> blocks[i].swap])
        stakers == FlattenSeq([i \in DOMAIN blocks |-> ValidStakes(b, blocks[i])])
        own == SwapValidator(b.BeaconPending, b.BeaconCommittee, Len(BeaconGenesis))
        beaconSwap == IF h % EPOCH = 0 /\ (own.in # <<>> \/ own.out # <<>>)
                      THEN <<Swap(own.in, own.out, "beacon", 0)>> ELSE <<>>
        assign(s) == IF AssignedTo(b.shardCurrent, s) = <<>> THEN <<>>
                     ELSE <<Assign(AssignedTo(b.shardCurrent, s), s)>>
        assigns == FlattenSeq([i \in DOMAIN ShardSeq |-> assign(ShardSeq[i])])
        random == IF h % EPOCH > RANDOM_TIME /\ ~b.gotRandom THEN <<Random>> \o assigns ELSE <<>>
    IN  swaps \o beaconSwap \o stakers \o random

\* NewBlockBeacon and InsertBeaconBlock: the block takes the shard blocks up
\* to the heights that the committee's pools agree on.
NewBlockBeacon(heights) ==
    LET h == beacon.height + 1
        blocks == FlattenSeq([i \in DOMAIN ShardSeq |-> Taken(ShardSeq[i], heights)])
        insts == Append(GenerateInstruction(beacon, h, blocks), Salary(h))
    IN  /\ beacon.ok
        /\ h <= MaxBeaconHeight
        /\ \A s \in Shard : Accepted(s, heights)
        /\ \E shuffled \in ShuffleCandidate(beacon.beaconCurrent) :
              beacon' = Update(beacon, heights, insts, shuffled)
        /\ beaconBlocks' = Append(beaconBlocks, insts)
        /\ UNCHANGED <<shard, shardBlocks, stakes, returned, paid>>

-----------------------------------------------------------------------------
\* Shard blocks.

\* The beacon height that a shard block refers to, and its epoch: a shard
\* that is more than one epoch behind stops at the last block of its epoch.
HeightAndEpoch(s, h) ==
    IF EpochOf(h) > shard[s].epoch + 1
    THEN [height |-> shard[s].epoch * EPOCH, epoch |-> shard[s].epoch + 1]
    ELSE [height |-> h, epoch |-> EpochOf(h)]

\* Mutant: the block the shard's last block refers to is read again.
NewInstructionsFromLast(s, h) == FlattenSeq(SubSeq(beaconBlocks, shard[s].beaconHeight, h))

\* The instructions of the beacon blocks that the shard has not seen yet.
NewInstructions(s, h) == FlattenSeq(SubSeq(beaconBlocks, shard[s].beaconHeight + 1, h))

\* GetAssignInstructionFromBeaconBlock.
AssignedIn(s, insts) ==
    FlattenSeq([i \in DOMAIN insts |->
        IF insts[i].act = "assign" /\ insts[i].shard = s THEN insts[i].keys ELSE <<>>])

\* The stake transactions that Update of the shard remembers: the i-th of an
\* instruction is put down for the i-th candidate of all the instructions of
\* its kind so far, and not of that instruction.
RememberStakes(stakingTx, insts) ==
    LET of == Instructions("stake", insts)
        upTo(n) == FlattenSeq([i \in 1 .. n |-> IF of[i].kind = of[n].kind THEN of[i].keys ELSE <<>>])
        at(n, k) == {i \in DOMAIN of[n].txs : upTo(n)[i] = k}
        put(m, n) == [k \in DOMAIN m \cup Range(Take(upTo(n), Len(of[n].txs))) |->
                        IF at(n, k) # {} THEN of[n].txs[Max(at(n, k))] ELSE m[k]]
    IN  FoldLeft(put, stakingTx, [n \in DOMAIN of |-> n])

\* buildReturnStakingAmountTx: the stake of a validator swapped out, if the
\* shard remembers it and its owner's address is in the shard.
ReturnOf(s, key) ==
    IF key \in DOMAIN shard[s].stakingTx /\ Home[shard[s].stakingTx[key].key] = s
    THEN {shard[s].stakingTx[key]} ELSE {}
SwappedOut(insts) == UNION {Range(l.out) : l \in Range(Instructions("swap", insts))}
Returns(s, insts) == UNION {ReturnOf(s, k) : k \in SwappedOut(insts)}

\* VerifyMinerCreatedTxBeforeGettingInBlock refuses a block that returns a
\* stake to a key that no swap names, of the beacon blocks or of its own.
ReturnsAreValid(s, insts, own) ==
    \A tx \in Returns(s, insts) : tx.key \in SwappedOut(insts \o own)

\* buildBeaconSalaryRes, for the rewards that are to be paid in the shard.
Salaries(s, insts) ==
    FlattenSeq([i \in DOMAIN insts |->
        IF insts[i].act = "salary" /\ insts[i].shard = s THEN <<insts[i].height>> ELSE <<>>])

\* ValidateTxWithBlockChain of a stake: no list of the beacon holds the key.
\* A transaction is named by its key and its number.
Unconfirmed(k) == \E s \in Shard : \E i \in DOMAIN shardBlocks[s] :
                    /\ i > beacon.bestShard[s]
                    /\ k \in DOMAIN shardBlocks[s][i].txs
MayStake(k) == /\ k \notin Known(beacon)
               /\ stakes[k] < MaxStakes
               /\ Impatient \/ ~Unconfirmed(k)

\* CreateSwapAction: a block that refers to the last beacon block of an epoch
\* swaps, if a validator is pending.
SwapAction(s, at, insts) ==
    LET pending == shard[s].pending \o AssignedIn(s, insts)
        swap == SwapValidator(pending, shard[s].committee, Len(ShardGenesis[s]))
    IN  IF at.height % EPOCH = 0 /\ pending # <<>>
        THEN <<Swap(swap.in, swap.out, "shard", s)>> ELSE <<>>

\* BestStateShard.Update: the swap is made anew, and must be the block's.
UpdateShard(s, at, insts, own) ==
    LET pending == shard[s].pending \o AssignedIn(s, insts)
        swap == SwapValidator(pending, shard[s].committee, Len(ShardGenesis[s]))
        known == RememberStakes(shard[s].stakingTx, insts)
        seen == [beaconHeight |-> at.height, epoch |-> at.epoch, committee |-> shard[s].committee,
                 pending |-> pending, stakingTx |-> known]
    IN  IF own = <<>> THEN seen
        ELSE [seen EXCEPT !.committee = swap.current, !.pending = swap.pending,
                          !.stakingTx = [k \in DOMAIN known \ Range(own[1].out) |-> known[k]]]

\* NewBlockShard and InsertShardBlock, with the beacon height that the
\* committee agrees on and the stakes that are among its transactions.
NewBlockShard(s, h, stakeShard, stakeBeacon) ==
    LET at == HeightAndEpoch(s, h)
        insts == NewInstructions(s, at.height)
        own == SwapAction(s, at, insts)
        stakers == Range(stakeShard) \cup Range(stakeBeacon)
    IN  /\ Len(shardBlocks[s]) < MaxShardHeight[s]
        /\ at.height >= shard[s].beaconHeight
        /\ \A k \in stakers : Home[k] = s /\ MayStake(k)
        /\ ReturnsAreValid(s, insts, own)
        /\ shardBlocks' = [shardBlocks EXCEPT ![s] = Append(@,
              [signers |-> shard[s].committee, swap |-> own,
               stakes |-> [kind \in {"shard", "beacon"} |->
                             IF kind = "shard" THEN stakeShard ELSE stakeBeacon],
               txs |-> [k \in stakers |-> [key |-> k, n |-> stakes[k] + 1]]])]
        /\ shard' = [shard EXCEPT ![s] = UpdateShard(s, at, insts, own)]
        /\ stakes' = [k \in Staker |-> stakes[k] + IF k \in stakers THEN 1 ELSE 0]
        /\ returned' = returned \cup {[shard |-> s, tx |-> tx] : tx \in Returns(s, insts)}
        /\ paid' = [paid EXCEPT ![s] = @ \o Salaries(s, insts)]
        /\ UNCHANGED <<beacon, beaconBlocks>>

-----------------------------------------------------------------------------
\* The genesis block of the beacon names every committee.
GenesisBeacon ==
    [ok |-> TRUE, height |-> 1, bestShard |-> [s \in Shard |-> 0], gotRandom |-> FALSE,
     BeaconCommittee |-> BeaconGenesis, BeaconPending |-> <<>>,
     ShardCommittee |-> ShardGenesis, ShardPending |-> [s \in Shard |-> <<>>],
     beaconCurrent |-> <<>>, beaconNext |-> <<>>, shardCurrent |-> <<>>, shardNext |-> <<>>]

GenesisShard(s) == [beaconHeight |-> 1, epoch |-> 1, committee |-> ShardGenesis[s],
                    pending |-> <<>>, stakingTx |-> <<>>]

CommitteesInit == /\ beacon = GenesisBeacon
                  /\ beaconBlocks = << <<>> >>
                  /\ shard = [s \in Shard |-> GenesisShard(s)]
                  /\ shardBlocks = [s \in Shard |-> <<>>]
                  /\ stakes = [k \in Staker |-> 0]
                  /\ returned = {}
                  /\ paid = [s \in Shard |-> <<>>]

\* A block holds at most one stake of each kind in the model.
AtMostOne(kind) == {<<>>} \cup {<<k>> : k \in {j \in Staker : kind \in Kind[j] /\ MayStake(j)}}

CommitteesNext == \/ \E heights \in [Shard -> 0 .. Max(Range(MaxShardHeight))] :
                        /\ \A s \in Shard : heights[s] \in beacon.bestShard[s] .. Len(shardBlocks[s])
                        /\ NewBlockBeacon(heights)
                  \/ \E s \in Shard, h \in 1 .. MaxBeaconHeight :
                        /\ h \in shard[s].beaconHeight .. beacon.height
                        /\ \E sh \in AtMostOne("shard"), be \in AtMostOne("beacon") :
                              /\ sh # be \/ sh = <<>>
                              /\ NewBlockShard(s, h, sh, be)

CommitteesSpec == CommitteesInit /\ [][CommitteesNext]_committeeVars

-----------------------------------------------------------------------------
\* Properties.

\* A shard and the beacon never disagree about the shard's validators: the
\* swaps of the blocks that the beacon has not taken yet, applied to what the
\* beacon knows, give the committee that signs the shard's next block and
\* the validators waiting there, with those assigned in beacon blocks that
\* the shard has not referred to yet.  It is why RemoveValidator of
\* BestStateBeacon.Update finds every validator at the head of its list.
ViewsAgree ==
    \A s \in Shard :
        LET waiting == SubSeq(shardBlocks[s], beacon.bestShard[s] + 1, Len(shardBlocks[s]))
            seen == ApplyInstructions(beacon,
                             FlattenSeq([i \in DOMAIN waiting |-> waiting[i].swap]))
        IN  /\ seen.ok
            /\ seen.ShardCommittee[s] = shard[s].committee
            /\ seen.ShardPending[s] = shard[s].pending
                                      \o AssignedIn(s, NewInstructions(s, beacon.height))

\* Every stake that the beacon has taken counts exactly once: a key stands in
\* the lists of the best state as often as it has staked and has not been
\* swapped out since.  Nobody is lost when the queues are frozen, assigned,
\* shuffled and swapped, and nobody gets a second seat.
EveryStakeCounts ==
    \A k \in Staker :
        LET seats(l) == Cardinality({i \in DOMAIN l : l[i] = k})
            all == <<beacon.BeaconCommittee, beacon.BeaconPending, beacon.beaconCurrent,
                     beacon.beaconNext, beacon.shardCurrent, beacon.shardNext>>
                   \o [i \in DOMAIN ShardSeq |-> beacon.ShardCommittee[ShardSeq[i]]]
                   \o [i \in DOMAIN ShardSeq |-> beacon.ShardPending[ShardSeq[i]]]
            confirmed(s) == {i \in 1 .. beacon.bestShard[s] : k \in DOMAIN shardBlocks[s][i].txs}
            out == {h \in DOMAIN beaconBlocks : k \in SwappedOut(beaconBlocks[h])}
        IN  MapThenSumSet(LAMBDA s : Cardinality(confirmed(s)), Shard) =
                Cardinality(out) + MapThenSumSet(LAMBDA i : seats(all[i]), DOMAIN all)

\* What shard s has to pay for the beacon block of height h.
RewardDue(s, h) == IF PayTo[h] = s THEN <<h>> ELSE <<>>

\* The reward of a beacon block is paid exactly once, in the shard of its
\* producer and by the first block of it that refers that far: the beacon
\* blocks that a shard's blocks read one after the other overlap nowhere and
\* leave nothing out, also where a shard lags by more than an epoch.
RewardsArePaidOnce ==
    \A s \in Shard :
        paid[s] = FlattenSeq([i \in 1 .. shard[s].beaconHeight - 1 |-> RewardDue(s, i + 1)])
=============================================================================
