# Verification of constant-chain

TLA+ models of constant-chain, a sharded blockchain node in Go: the pools that
blocks wait in, the chains they are inserted into, the consensus of a committee
and how committees change, the way of a transaction from a wallet through pool,
block and store, the tokens of the bridge, the messages and connections between
nodes, and the proofs and encodings a payment is made of. TLC checks the models
on small instances; TLAPS proves central invariants for every value of the
constants. `PROJECT.json` maps every definition to the lines it models and lists
runs, mutants, findings, hazards and theorems. Paths below are relative to
`src/`.

## The system

One *beacon* chain coordinates several *shard* chains. Each chain has a committee
that agrees on the next block with a BFT protocol.

1. A shard committee makes a shard block. It is cut into a *shard-to-beacon*
   block, sent to the beacon committee, and *cross-shard* blocks, sent to the
   shards that receive coins.
2. Beacon validators keep shard-to-beacon blocks in a pool. A beacon proposer
   puts a run of them into the next beacon block as *shard states*; the others
   compare these with their own pools before they sign.
3. Every node that inserts a beacon block stores which heights of a shard send
   something to which other shard, as a linked list in the database.
4. A shard proposer takes cross-shard blocks along these links, so that each one
   is processed once and in order.
5. Nodes receive blocks from peers, keep them in a beacon pool and one shard pool
   per shard, and insert what is ready.
6. Clients send transactions to a node; they wait in its pool, spread to other
   nodes, and a shard proposer puts them into a block, which every validator
   checks again and every node of the shard stores.
7. At the end of an epoch, committees swap members with validators who have
   staked; instructions in blocks carry this between the chains.

### Components, their state and operations

| component | state | operations | modules |
|---|---|---|---|
| shard-to-beacon pool (`mempool/shard_to_beacon_pool_v2.go`) | per shard: sorted slice of blocks, `latestValidHeight` | `AddShardToBeaconBlock`, `SetShardState`, `GetValidPendingBlock` | `ShardToBeaconPool` |
| verification of shard states (`blockchain/beaconprocess.go`) | reads the pool and the best state | `VerifyPreProcessingBeaconBlock` with `isCommittee` | `ShardStateVerification` |
| beacon pool (`mempool/beacon_pool.go`) | valid slice, pending map, conflicting map, LRU cache, `latestValidHeight` | `AddBeaconBlock`, `RemoveBlock`, `CleanOldBlock`, `PromotePendingPool`, `SetBeaconState`, a ticker | `BeaconPool` |
| shard pool (`mempool/shard_pool.go`) | the same, per shard | `AddShardBlock`, `RemoveBlock`, `PromotePendingPool`, `SetShardState`, a ticker | `ShardPool` |
| insertion from the pools (`blockchain/messages.go`, `syncblock.go`) | both pools, both best states | `OnBlock...Received`, `InsertBlockFromPool` | `NodeSync`, `ChainSync` |
| sync loop (`blockchain/syncblock.go`) | states of peers, requests, `IsReady` | `StartSyncBlk`, `OnPeerStateReceived`, answers of peers | `BlockSync` |
| cross-shard transfer (`mempool/cross_shard_pool_v2.go`, `blockchain/beaconprocess.go`, `shardproducer.go`, `database/lvdb/beacon.go`) | valid and pending slices per origin, links of heights, `LastCrossShardState`, `BestCrossShard` | `AddCrossShardBlock`, `UpdatePool`, the goroutine of `InsertBeaconBlock`, `getCrossShardData`, `InsertShardBlock` | `CrossShard`, `CrossShardDelivery` |
| consensus (`consensus/constantbft`) | round, phase, random, block and collected messages of each validator | the four phases, early messages, the engine's loop | `ConstantBFT` |
| committees and epochs (`blockchain/beaconprocess.go`, `shardprocess.go`, best states) | candidates, pending validators and committees of each chain, in the beacon's and in the shards' best states | `Update` of both best states, `SwapValidator`, `AssignValidator`, stakes, salaries | `Committees` |
| transaction pool (`mempool/mempool.go`) | maps of transactions, serial numbers, candidates, tokens | admission, removal, expiry, reload | `TxPool` |
| block production, verification and store (`blockchain/blockgen.go`, `shardproducer.go`, `shardprocess.go`) | `TempTxPool`, the generator's list, the chain's database | the steps of production, verification and store | `Transactions` |
| chain store (`blockchain/blockchain.go`, `database/lvdb`) | keys of the database, best states on disk and in memory | insertions and the start of a node, write by write | `ChainStore` |
| coins and tokens (`blockchain/txviewpoint.go`, `shardblock.go`, `transaction/txcustomtoken*.go`) | commitments, serial numbers, outputs of tokens, per shard | transactions of a block, cross-shard blocks, transactions a receiver makes | `Ledger` |
| bridge (`blockchain/bridge*.go`, `stability*.go`) | amounts of tokens of other chains | issuing and contracting requests, responses, instructions | `Bridge` |
| fee estimator (`mempool/estimatefee.go`) | observed transactions, bins, dropped entries | `ObserveTransaction`, `RegisterBlock`, `Rollback`, `Save`, `Restore` | `FeeEstimator` |
| dispatch and gossip (`netsync`, `peer/peerconn.go`, `server.go`, `wire`) | caches of what was seen | `Handle...`, `PushMessage...`, relaying | `Gossip` |
| connections (`connmanager`, `peer`, `server.go`) | table of connections, goroutines and channels of each | discovery, dialling, accepting, handshake, closing, retry | `Connections` |
| keys and proofs (`privacy`, `privacy/zeroknowledge`) | none | proving, verifying, sanity, bytes | `Curve`, `ZeroKnowledge`, `RangeProof`, `Proofs` |
| payments (`transaction/txprivacy.go`, `rpcserver/common.go`) | none | choice of coins and ring members, `Init`, defragmentation | `Payment` |
| texts of keys (`common/base58`, `wallet/hdwallet.go`, `wallet/mnemonic.go`) | none | encode, decode, derive | `Encodings` |
| wallet (`wallet/wallet.go`, `rpcserver/rpcfunctionwallet.go`) | accounts in memory, file | create, import, remove, save, load | `Wallet` |

### How components interact

* *Calls under locks.* `InsertBeaconBlock` and `InsertShardBlock` hold
  `chainLock` and call each pool, which has a lock of its own. `SetBeaconState`
  takes none. Nothing locks the wallet, nor block production.
* *Goroutines.* `InsertBeaconBlock` starts one goroutine per shard that writes
  the links and updates a cross-shard pool; `InsertShardBlock` starts one that
  refreshes a cross-shard pool, and others that forget transactions. Nobody waits
  for them. Three goroutines serve a connection and end one another by closing
  channels.
* *Tickers.* Both block pools are cleaned and promoted by tickers that read the
  best height before they wait for the lock. The sync loop inserts from the
  pools on another ticker.
* *Shared state.* Pools read the best state in memory, which an insert changes
  before anything is stored. A shard pool also reads the height of its shard
  that the beacon best state has confirmed. Transactions live in the pool, in
  `TempTxPool`, in the generator's list and in two databases.
* *Messages.* All blocks, transactions and consensus messages come over a network
  that loses, repeats and reorders them. The sync loop asks again for what is
  missing.
* *Instructions.* Stakes, swaps, salaries and bridge requests travel as strings in
  shard and beacon blocks; each chain applies them when it sees the block.

### What is hard here

The list of hazards in `PROJECT.json` gives each with its line. In short: an
insert that fails or a process that dies between two writes; pools that are full
when the one useful block arrives; forks that reach a pool before the chain has
decided; `uint64` subtraction at the start of a chain; goroutines of two beacon
blocks in the wrong order; a lock taken twice; a value tested and written
without its lock; proposals and commits that outlive the round they were made
in; a random that must sign only once; lists of validators kept in two places
and changed at different heights; transactions that one index has forgotten and
another has not; channels closed by several goroutines; calls of the wallet that
overtake one another; amounts that are cut into bytes, limbs and bits.

### What makes each component correct

* *Shard-to-beacon pool*: what it hands to the producer is a gapless run that
  starts just above the confirmed height, as long as possible, one block per
  height; it is bounded; every block is confirmed in the end.
* *Verification*: a validator signs only shard states that continue that run
  with its own blocks.
* *Block pools*: valid blocks can be inserted one after the other, no height is
  passed over, sizes hold; a node that only listens inserts both chains.
* *Sync loop*: a node gets every block that its peers have, and becomes ready.
* *Cross-shard transfer*: each confirmed block is processed once and in order.
* *Consensus*: a block in a chain carries a sound certificate of two thirds of
  its committee; a random signs once; no single round can fork; in a timely
  network all commit.
* *Committees*: beacon and shards agree on who signs; no stake, validator or
  reward is lost or counted twice.
* *Transactions*: nothing that is pooled, produced or signed spends a coin twice;
  disk and best state agree; a crash costs only what it cuts in two.
* *Coins, tokens, bridge*: what is sent arrives once; no value appears or
  vanishes; honest blocks are accepted.
* *Network*: a message reaches those it is for; a request is answered; the table
  of connections is that of the connections served.
* *Wallet, proofs, encodings*: answered accounts survive; true statements are
  proved, false ones are not; a text is read as what was written or refused.

## Modules

`ShardStateVerification` extends `ShardToBeaconPool`; `BeaconPool` and
`ShardPool` extend `BlockTree` and `LruCache`; `NodeSync` instantiates both pools
and implements `ChainSync`, over which `BlockSync` models the sync loop;
`CrossShard` implements `CrossShardDelivery`; `Transactions` uses two instances
of the operators of `TxPool`; `Curve`, `ZeroKnowledge`, `RangeProof`, `Payment`
and `Proofs` build on one another.

`MC*` modules hold the instances for TLC. Several of them put systems that share
no state *side by side*: one variable, chosen in the initial state, says which of
them runs, the others rest. One TLC process then answers several questions
without multiplying their states, and each property speaks of its own system.

| module | what runs in it |
|---|---|
| `MCBlockPools` | one of `BeaconPool`, `ShardPool` on a tree with forks |
| `MCNodeSync` | `NodeSync`, or the cross-shard transfer in order |
| `MCBlockSync` | `BlockSync` |
| `MCCrossShard` | `CrossShard` with goroutines in any order |
| `MCTransactions` | `Transactions`, or `ChainStore` |
| `MCGossip` | `Gossip`, or a timely committee of `ConstantBFT` |
| `MCConnections` | `Connections` |
| `MCConstantBFT` | `ConstantBFT` on one height, or `Committees` over two epochs |
| `MCLedger` | `Ledger`, or `Bridge` |
| `MCParts` | one of both block pools, `CrossShard`, `Wallet`, `Encodings`, `Proofs` with `Payment`, `FeeEstimator` |

### ShardToBeaconPool

`pool[s]` is the slice of shard `s` as a set of blocks: every operation of the
code leaves the slice sorted. `latestValidHeight[s] = 0` is a missing entry of
the Go map. `best`, `stored` and `applied` are the confirmed heights in memory,
on disk, and as last told to the pool; `insert` is how far an insert has got.

* `AddShardToBeaconBlock` is `AcceptBlock \/ RejectBlock`; the early returns are
  `IsOld`, `IsDuplicate`, `ExceedsValid` and `ExceedsInvalid`, the last of which
  evicts the highest block for a better one. Both counts use the wrapping
  subtraction of the code. The trailing `updateLatestShardState` and the request
  range are part of the action.
* `UpdateBestState`, `StoreBestState`, `InsertSetShardState` are the three points
  of `InsertBeaconBlock` at which the pool or a restart could tell the
  difference; `InsertAborts` is any early return between them.
* `InsertOwnBlock` is the beacon block built from this pool. It is a special case
  of `UpdateBestState` and is named for fairness.

A beacon block that comes from another committee may move the heights of any
shards forward: `UpdateBestState` takes any heights that do not recede.

### ShardStateVerification

`InsertSignedBlock(block)` takes any proposal `block` of at most `MaxStates`
states per shard, applies `FormatIsRight` (the loop up to `len-2`) and
`MatchesPool` (the comparison by position, only for shards of which the pool has
blocks) and then inserts it. Instructions are empty and signatures of shard
blocks verify, so that the checks of instructions and signatures hold.

### BlockTree, LruCache, BeaconPool, ShardPool

Blocks are `[height, hash]` with a parent function, forks included. `LruCache` is
the third-party cache as far as the pools use it. The state of the beacon pool
has names that begin with `beacon`, that of the shard pool with `shard`, so that
one module can extend both.

`PromotePending` (`PromotePendingShard`) is the loop of `promotePendingPool` in
closed form: `PromotedTo` is the height it ends at, and the block at which it
stops is treated as the code treats it (remembered in the cache by the beacon
pool, pushing out the last valid block in the shard pool). The ticker's calls are
separate actions whose height is any that the best state had until now, since it
is read before the call waits for the lock. In `BeaconPool`, `SetBeaconState` is
two steps, a test and a write. In `ShardPool`, `shardLocked` says that a thread
waits for a lock it holds; from then on no call of the pool is enabled.
`shardKnown` is the height that the beacon best state has confirmed.

### ChainSync, NodeSync, BlockSync

`ChainSync` is what the two pools and the threads that insert from them promise
the sync loop as long as no chain forks: a block above the best one is held
until it is inserted, unless there is no room; a beacon block is inserted when
its successor is held, a shard block when the beacon has confirmed it.

`NodeSync` composes both pools. `ShardPool` is instantiated with
`shardKnown <- Confirms[beaconBest.height]`. `InsertBlockFromPool` tries the
first valid block; an error ends its loop. The refinement mapping takes the
heights above the best block of all blocks in valid and pending pools as held
(`HeldHeights`). `Safety` of `ChainSync` is its specification without fairness.

`BlockSync` adds peers that report their heights, lag and lie idle, requests that
may be lost, answers, and the two caches that drop what came shortly before. A
round of `StartSyncBlk` takes the peers in any order, as a Go map gives them.

### CrossShard and CrossShardDelivery

`tasks` are the goroutines of `InsertBeaconBlock` that have yet to run;
`nextHeight` the links in the database; `refresh` the goroutines of
`InsertShardBlock`. `WalkPending` and `UpdatedPair` keep the slice expression
`pending[removeIndex:index]` as it stands. `RunTask` updates the pool of the
*sending* shard, as the code does. `processed` is a history variable.

`CrossShardDelivery` is the abstract specification: per pair of shards a reliable
ordered channel from confirmed to processed heights. The refinement mapping gives
it the heights that the beacon chain has confirmed.

### ConstantBFT

One height of one committee. Every message that was ever sent stays in a set, and
a phase ends with any part of it, which covers delay, loss, repetition and
reordering, `earlyMsgHandler` and `forwardMsg`. A random is the number of the
draw; a combined `R` is a function from validators to draws; a signature is who
signed which block under which `R`. `InsertPushedBlock` is a block that comes
from another validator, with the weaker threshold of
`VerifyBestStateWithBeaconBlock`. A restart forgets everything but the chain;
`draw` goes on counting, since random numbers do not repeat.

### Committees

`beacon` and `shard[s]` are the two kinds of best state with their lists. A shard
block may refer to any beacon block that exists, and a beacon block may take any
number of the shard blocks that exist, so that the two views of a committee
change at different times; `SwapValidator` and `AssignValidator` are those of the
code, with `OFFSET` and the sizes as constants. `stakes`, `returned` and `paid`
are histories that the properties compare with the lists.

### TxPool, Transactions, ChainStore

A map of the pool whose value follows from its key is the set of its keys.
`Transactions` has the node's pool, `TempTxPool`, the generator's list with the
goroutines that send to it, the producer and the verifier as loops of one step
per transaction, and the store of a block as the sequence of its writes
(`stage`), each of which a crash may be the last of. The chain is what the
committee has certified; blocks that are offered for a signature are arbitrary.

`ChainStore` has the same from the side of the database: `writing[c]` is the list
of puts an insertion still has to do, and `Start` is the start of a node that
finds any subset of them. `damage` notes what a crash has cut in two, which is
what the code cannot mend.

### Ledger, Bridge

`Ledger` has two shards with the tables of a node of each. A block's transactions
are drawn from a menu of native payments, custom and private tokens; what leaves
a shard is committed to by `ShardTxRoot` and comes back as a cross-shard block. A
hash is the record of what is hashed. `Bridge` is one shard and the beacon, with
requests that pass the pool, a block, an instruction and the database;
`faults` counts the blocks of a producer that makes up responses and the crashes
between a block and its amounts.

### Gossip, Connections

In `Gossip` a message is a copy on its way; `work` are the goroutines that handle
one, and the tables of types, sizes and cache keys are those of `wire`,
`peerconn.go` and `netsync.go`. In `Connections` a connection has three
goroutines and three channels; a channel closed twice is a panic of the node.
Both end in environments that the code does not control: peers, streams and the
boot node may do anything.

### Wallet, Encodings, Proofs

A call of the wallet is the sequence *list, assign, marshal, open, write*, since
nothing locks it. `due` are the keys that answers have promised to keep, `blame`
what has happened that the wallet does not withstand. Callers give any name, the
default name "AccountWallet i" of an account to come included: `blame` has then
"ahead", and `BalancesAgree` asks that no coin is counted twice, but no longer that
none is left out of the balances by name.

`Encodings` scales sizes down together (bytes of `ByteBits` bits, base `Radix`,
limbs of `LimbBytes` bytes) and changes at most one place of a text on its way:
to another character, one outside the alphabet, another or an unknown word, or by
a space too many. `IsMnemonicValid` and the readers of the seed split at any
space, `MnemonicToByteArray` at each single one.
In `Curve` a point is the function of its exponents over independent generators,
modulo a small prime; the hash is an arbitrary function with a salt that takes
every value, so that every challenge occurs. `Proofs` runs prover, bytes, sanity
and verifier; jobs that end in `Claim` try a false statement under every
challenge. A payment has any list of payees, and goes through `Init` in the order
of its checks (`InitOutcome`): it becomes a transaction, an error, a loop without
end in the choice of a ring, or a panic. What the property says of accepted
payments is what the code makes true: sums of `uint64` are not checked, so that
without privacy amounts that do not fit `int64` are exact modulo 2^64 only, and
`PaymentsAreExact` and `ProofsAreComplete` name the refusals, loops and panics
there are.

## Runs

| run | what runs, with which bounds | shows |
|---|---|---|
| `shard_to_beacon_pool` | `LiveSpec` of `ShardStateVerification`; one shard, heights to 7, two hashes, capacities 2 and 1, two blocks per beacon block | `ValidRun`, `RunIsMaximal`; `SignedStatesContinueRun`; `AllConfirmed` |
| `node_sync` | beacon heights to 4 that confirm shard heights 1, 1, 3, 3; valid pools of one block, three pending, a cache of three. Side by side: two shards, heights to 5, blocks sent from 2, 4 and 5, a fork at 3, no room for a second pending block | the refinements `ImplementsChainSync` and `IsDelivery`; `AllProcessed` |
| `block_sync` | two peers, one of which lags; heights 4 and 3; any role of the node, two requests to a peer and three at a time | `NodeCatchesUp` |
| `transactions` | three transactions: `t1` issues a token, `t2` spends it and stakes, `t3` spends a coin of each; two blocks; budgets of clients, expiry, crashes, producers and verifiers. Side by side: three blocks of each chain, two crashes | `ApprovedSpendsOnce`, `DiskMatchesBestState`, `ReservationsAreExact`, `CertifiedIsInserted`; `StoreRecovers` |
| `gossip` | four nodes, seven plans of up to four messages, a cache of one transaction. Side by side: four validators in three rounds, the first proposer down, the second without a block | `TxSpreads`, `RequestsAreAnswered`; `TimelyCommitteeCommits` |
| `connections` | two peers, two slots, one outbound and two inbound connections | `TableIsExact`, `LostConnectionsEnd` |
| `validators` | four validators, two of them in two rounds, one restart, one missing Ri. Side by side: two epochs of four beacon blocks, two shards, two keys that stake | `RandomSignsOnce`, `CertificateIsSound`, `ForkNeedsTwoRounds`; `ViewsAgree`, `EveryStakeCounts`, `RewardsArePaidOnce` |
| `ledger` | two shards with three and two blocks of at most two transactions, six menus. Side by side: three issues and a burn of two tokens, one fault | `CoinsArrive`, `TokenValueIsConserved`, `HonestBlocksAreStored`; `MintsAreBacked`, `AmountsAreExact`, `OnlyTwinIssuesAreRefused` |
| `parts` | block pools on heights to 5 with a fork at 2 and 3, pools of 3 and 2, a cache of one; cross-shard heights to 4 in any order, with restarts and a fork; a wallet with two clients, two calls, a crash and names that include those of accounts 1 and 2; texts of bytes of two bits; proofs in a group of order 17, numbers of four bits, payments of at most four of five coins to at most four payees, with and without a commitment of somebody else; three transactions for the fee estimator | `BeaconPoolIsSound`, `ShardPoolIsSound`, `CrossShardProcessedOnce`, `AccountsSurvive`, `BalancesAgree`, `TextsAreFaithful`, `ProofsAreComplete`, `ProofsAreSound`, `PaymentsAreExact`, `RollbackIsExact` |
| `beacon_pool_ready` (violation) | `BeaconAlone`: heights to 6, no forks, large pools | see findings |
| `shard_pool_conflict` (violation) | `ShardAlone`: heights to 6, two forks from genesis | see findings |
| `cross_shard_next_heights` (violation) | heights to 4, goroutines in any order, no restarts | see findings |

### Why the bounds are enough

Capacities are smaller than the number of heights, so that every pool overflows,
evicts and refuses. `shard_to_beacon_pool` has seven heights for capacities
2 + 1: a run, a gap, blocks behind the gap and one more that finds no room exist
together. Its limit of two blocks per beacon block (50 in the code) is below the
longest run. One shard is enough there because the only operation that touches
several shards updates them independently; the proofs are for any set of shards.
The forks of the pool runs are longer than the distance over which a pool
compares hashes.

The BFT run has two rounds for two of four validators, which is the least with
which two blocks of one height can both get three signatures; the proof covers
every committee. `MaxMissing` bounds how many Ri a signer may lack and thereby
how many different `R` there are. Two epochs are the least in which a staker is
queued, assigned, swapped in and out again. Two crashes are the least with which
a start can be cut short that mends what a crash has left.

Three transactions, each in conflict with another by a coin, a token and a
candidate, exercise each index of the pool; a budget limits what happens in one
behaviour, and the proofs lift it. A cache of one transaction makes every second
one evict the first. Bytes of two bits and limbs of two bytes have all carries
and all lengths modulo a limb; a group of order 17 has more elements than any
range or ring used, and `ProofsAreSound` asks whether a false statement has
answers to two challenges, which does not depend on their number.
Five coins and four payees are one more than a side of a payment takes when
`MaxCoins` is 4, and two payments of 7 wrap a sum of four bits. A wallet starts
with one account, so that two calls give a name ahead and then make it up.
Each mutant of `PROJECT.json` is found within these bounds.

### Deadlock

Deadlock is checked in `shard_to_beacon_pool`, `block_sync` and the violation
runs. The other systems may stop: chains are complete (`node_sync`, `ledger`,
`Committees`), budgets, calls and plans are used up (`transactions`, `gossip`,
`parts`), every connection has ended (`connections`), or every engine has used its
rounds or has the block (`validators`).

### Fairness

* `shard_to_beacon_pool`: strong fairness of the arrival of each height, since
  the sync loop asks peers every few seconds for what their pools hold and this
  one lacks; strong fairness of `InsertOwnBlock`, since `BeaconProposerIdx`
  rotates and the turn comes again to each validator; weak fairness of the steps
  of an insert. `AllConfirmed` is stated for behaviours in which failures and
  restarts stop at some point and in which the pool is told of every insert
  again: while an aborted insert has left the pool behind the best state, the
  proposer offers blocks that the chain has already.
* `node_sync`: strong fairness of the arrival of each block, weak fairness of the
  tickers and inserts. A ticker's height may be stale, so that fairness asks for
  a call with the current one. The abstract `ChainSync` has weak fairness of
  `Insert`, which the refinement therefore shows too. For the transfer, strong
  fairness of the arrival of each sent block, which `updatePool` requests by the
  height it waits for; weak fairness of goroutines, in order, and of shard blocks
  without a limit. `AllProcessed` is stated for behaviours in which no block of a
  fork is pooled, because one that is can keep its place for ever (see hazards,
  `cross_shard_pool_v2.go:115`).
* `block_sync`: weak fairness of the peers' progress and reports, which come from
  a ticker of each peer; strong fairness of rounds that find the caches empty,
  whose entries expire, for each order of peers, and of each peer's answer to
  requests for the next block of a chain; weak fairness of the handlers and of `ChainSync`.
* `transactions`: weak fairness of the steps of a store, and of a verification
  that has begun: both are plain code that runs to its end. For `ChainStore`, of
  starting the node, of its writes and of inserting the next block.
* `gossip`: weak fairness of a step: goroutines are scheduled and connections
  deliver. The timely committee has weak fairness of its running validators
  together; its next-state relation leaves out time-outs that fire although the
  awaited message was sent: the phases last seconds, messages milliseconds.
* `connections`: weak fairness of the three goroutines of each connection, none
  of the peers.

## Findings

1. `beacon_pool_ready`. `SetBeaconState` (`mempool/beacon_pool.go:73`) tests and
   writes `latestValidHeight` without the lock of the pool. Between the two a
   received block promotes others; the write takes the height back below them,
   and the next block of that height is appended again. The valid pool then has
   the same height twice, although its comment calls it "ready to insert into
   blockchain". What `BeaconPoolIsSound` says survives, and is proved: no height
   is skipped, the tip stays certified, sizes hold.
2. `shard_pool_conflict`. `insertNewShardBlockToPoolV2`
   (`mempool/shard_pool.go:230`) calls `AddShardBlock` while the lock is held. The
   thread waits for itself; the pool never answers again.
3. `cross_shard_next_heights`. The goroutines of two beacon blocks
   (`blockchain/beaconprocess.go:158`) may run in the other order; the links then
   do not visit the confirmed heights in order, against the comment at line 173.
   `CrossShardProcessedOnce` survives, delivery of every block does not.

Other disagreements of code and comments met on the way, not stated as
properties: the loop over shard states ends at `len-2` while the comment above it
asks for every pair (`beaconprocess.go:290`); the Ri threshold and the signature
threshold of received blocks are "at least half, rounded down" where their
comments say more than half (`bftphases.go:219`, `beaconprocess.go:417`).

## Proofs

Eight modules are checked by TLAPS. They hold for every value of the constants
that the named assumptions allow: any number of shards, validators, peers,
clients, transactions and blocks, any tree of blocks, any sizes.

| module | theorems that state properties of the runs | inductive invariant |
|---|---|---|
| `ShardToBeaconPoolProofs` | `PoolRunIsGapless`, `PoolRunIsMaximal`, `SignedStatesContinue` | `IInv` |
| `BlockPoolProofs` | `ValidBlocksAreCertified`, `ValidBlocksAreOneBranch` | `PoolInv`, `ShardPoolInv` |
| `NodeSyncProofs` | `HeldBlocksAreInserted`, the safety half of `ImplementsChainSync` | `NodeInv` |
| `PeersProofs` | `NoRandomSignsTwice`, `BlocksAreCertified`, `ForksNeedTwoRounds`; `TableListsServedConnections`; `RewardsPaidOnce`, `ViewsOfShardsAgree` | `IInv`; `TableInv`; `RewardsInv`, `ViewsInv` |
| `TransactionsProofs` | `CoinsAreReservedExactly`, `DiskIsThatOfItsBestState`, `ApprovedBlocksSpendOnce` | `PoolInv`, `DiskInv`, `BlocksInv` |
| `WalletProofs` | `AnsweredAccountsSurvive`, `BalancesOfAccountsAgree` | `WalletInv`, `NumberedInv` |
| `TransferProofs` | `HeightsAreProcessedOnce`, `TransferIsDelivery`; `BridgeMintsAreBacked`, `BridgeAmountsAreExact`, `BridgeRefusesOnlyTwins` | `OnceInv`, `DeliveryInv`; `BridgeInv`, `AmountsInv` |

`Sums` holds the lemmas about sums, recursive functions and joined sequences that
the last two and `PeersProofs` use.
Type correctness is part of each, stated on its own for the shard-to-beacon pool
and the consensus.

### The shard-to-beacon pool

Assumptions: `HeightAssumption`, `CapacityAssumption`, `MaxStatesAssumption`.

The invariant is
`IInv = TypeOK /\ OneBlockPerHeight /\ ValidRun /\ RunIsMaximal /\ AppliedBehindBest`.
`ValidRun` alone is not inductive: `SetShardState` cuts the pool at a greater
height and looks for the run again from the first block left, and only
maximality and one-block-per-height say that this finds the old run or a longer
one. `AppliedBehindBest` (the pool is never told less than before) is what makes
the cut go forward. The lemmas about `RunEnd` and `UpdatedHeight` state what the
loop of `updateLatestShardState` returns; the maximum of a finite set of heights
replaces induction. `PoolIsBounded` needs `ValidRun`: the code counts the valid
blocks from heights, which is right only if the run has no gap.

`SignedStatesContinue` is an action property: `HandedOutRun` says that the
sequence handed out by `GetValidPendingBlock` is the run by increasing height,
`PendingBlocksContinue` that its i-th block is i above the confirmed height; the
comparison by position then leaves a proposer no gap and no repetition, although
the loop over the format stops one short.

### The pools of blocks

Assumptions: `BlockAssumption`, `SignedAssumption`, `SizesAssumption`.

Both proofs reason about one pool `p` and the height `top` of the best block,
because a step of the pool and a step of the chain change one of them each.
For the beacon pool `Sound(p, top)` has, besides types and bounds, that the block
that certified the last valid one is pending (`Certified`), that every height from
`top` to `latestValidHeight` is valid (`Covered`), and that the same holds up to
the last valid block (`CoveredToTip`). The last is the strengthening: it is what
`removeBlock` falls back on after `SetBeaconState`, which writes without the lock,
has taken `latestValidHeight` below the last valid block. So the invariant shows
why the race of finding 1 repeats heights and yet skips none.

For the shard pool `ShardSound(p, top, known)` has that valid blocks are one
branch, confirmed, and cover the heights, and that `latestValidHeight` is the
height of the last valid block when there is one (`LatestIsTip`). Without it,
pushing the last block out, which lowers `latestValidHeight` by one, could skip a
height. `removeBlock` gives blocks to the cache one by one; that the recursive
function `CacheAddAll` exists and keeps the bound is proved with a least
counterexample, since no backend applies the induction theorems.

### The refinement of ChainSync

Assumption: `ChainsAssumption` of `NodeSync`: the assumptions about both chains
and the sizes; no forks; what a beacon block confirms never shrinks. TLC evaluates
it in the run `node_sync`.

`HeldBlocksAreInserted` states `Spec => Abstract!Safety`: initial states map to
initial states, and each step of `NodeSync` to a `Receive`, an `Insert` or a
stutter of `ChainSync`. A block that is refused or dropped is a stutter. What the
theorem says is that no thread takes a height out of what is held but the
insertion of the block with that height, and that nothing is inserted without its
certificate; that certified blocks are inserted in the end is the fair half of
`ImplementsChainSync` and stays with TLC.

The invariant is `NodeInv`: both pools are sound (`PoolInv`, `ShardPoolInv`) and
*lead* (`FollowsPool`, `ShardFollowsPool`). A pool leads when its valid blocks have
the heights that end with `latestValidHeight`, one after the other, and the chain
has not gone beyond. It is an invariant only while the chain grows from the pool,
as it does outside the committees: then `SetBeaconState` never finds the pool behind,
and the race of finding 1 does not happen. It is what makes a promotion
move heights from pending to valid without repeating or losing one
(`MovedKeepsHeld`), a removal drop none above the chain (`DroppedKeepsHeld`) and
the first valid block above the chain the next one (`HeadIsHeld`); `Certified`
adds that its successor is held (`HeadIsCertified`). Without forks no block
pushes another one out (`NextContinues`) or is put aside for its hash. These
lemmas are about one pool and close `BlockPoolProofs`.

`NodeSyncProofs` brings the pools together. A beacon block that is inserted is, for
the shard pool, `ConfirmShardHeight` or nothing (`BeaconStepKeepsShard`). `NodeSync`
and its proofs hold two instances of each pool; the lemmas `Same...` say that their
actions are the same.

### Cross-shard transfer

Assumption: `CrossShardAssumption`, a hypothesis of the theorems, since modules
that instantiate `CrossShard` give it values; TLC evaluates it for both instances.

`Ascending`, `CrossShardData` and `WalkPending` are recursive functions over
heights. That such a function exists is proved once, for any step on a set
(`RecursionExists` of `Sums`), and what it computes by the least height that would
violate it (`AllUpTo`): sets take the place of the induction theorems.

`HeightsAreProcessedOnce` is about `Spec`, with goroutines in any order, restarts
and forks. `OnceInv` says that what was processed ascends and that
`BestCrossShard` is its last height; what `getCrossShardData` takes ascends from
there, whatever pool and links are like (`DataAscends`): the theorem rests on the
stale heights that stop its loop and on nothing else.

`TransferIsDelivery` states `OrderedSpec => IsDelivery`: goroutines in the order in
which they were started, no restart. Without either, blocks are left out (finding 3). A
beacon block maps to `Confirm`, a shard block to `Process`, every other step to a
stutter. `DeliveryInv` says that there is a height of each shard (`linked`) where
the links end: from 0 and from each height sent below it the link leads to the
next height sent (`LinkedUpTo`), the goroutines to run continue from there without
a gap up to the best height (`Waiting`), and what was processed is what was sent up
to `BestCrossShard`, which is no greater (`InOrder`). Links then carry the argument
(`LinkedFurther`, `DataFollows`) and the pools drop out of it: forks, evictions and
blocks that come twice change when a height is processed, never whether the one
before it was.

### The bridge

Assumption: `BridgeAssumption`: issuing and contracting requests are disjoint and
amounts are positive. That chains and blocks are finite is proved, not assumed.

The sums of the model are those of `MapThenSumSet`, as the module `Sums` defines
them for `Bridge` and `Wallet`. Its lemmas show that sums exist and are additive
over any finite set, by the smallest set that would violate it (`AllSubsets`), so
that the order in which a sum is taken does not matter.

* `BridgeMintsAreBacked`. That more was minted than burned is not inductive by
  itself: it holds of the whole chain because each block was `SoundBlock` towards
  the blocks *before* it: its requests are new, its burns are held, and each mint
  has a request of its own in the same block. `BridgeInv` keeps this for every
  block (`SoundChain`), which gives it for every prefix (`SoundIsBacked`). The
  mints of a block are no more than its issuing requests because no two of them
  have the same token (`BackedAppend`); nothing is assumed of who made them.
* `BridgeRefusesOnlyTwins`. `ResponsesAnswer` says what the loop of
  `buildStabilityResponseTxsAtShardOnly` returns: a mint for each issuing request,
  in order. Whatever is refused then fails on two mints of one token
  (`RefusedHasTwins`).
* `BridgeAmountsAreExact`. `AmountsInv` adds that the beacon chain has confirmed
  the requests of the first `toConfirm` blocks (`FlattenJoins`). The first
  instruction of a beacon block is the first request of a block whose prefix is
  backed (`HeadIsBacked`), so `DeductAmtByTokenID` never cuts off at 0
  (`DeductedBurn`); the others are not counted, which is what `Uncounted` excludes.

### The consensus

Assumptions: `SizeAssumption`, `UpAssumption`.

The invariant is
`IInv = TypeOK /\ InRound /\ SignedWithOwnDraw /\ RandomSignsOnce /\ CertificateIsSound`.
`InRound` relates a phase to what its validator holds and has signed: before the
commit phase the current draw has signed nothing, which is what makes the next
signature the first. `SignedWithOwnDraw` says that an `R` a validator signed
contains its own draw. `ForkNeedsTwoRounds` then follows without induction: two
sets of more than two thirds meet (`QuorumsMeet`), and a validator in both that
had used one random would contradict `RandomSignsOnce`. Note what the theorem does
not say: the code has no lock on a block that was signed, so a validator that
fails a round after it signed may sign another block, and two such blocks can
both be certified. The run `validators` reaches such states.

### Transactions

Assumption: `TxAssumption`.

* `PoolInv = PoolTypeOK /\ PoolSpendsOnce /\ ReservationsAreExact` is about the
  pool alone. `PoolSpendsOnce` compares all transactions whose serial numbers are
  kept, not only those in the pool: a transaction may leave its serial numbers
  behind when it is taken out, and they still keep others from the pool.
* `DiskInv` relates chain, best state and database at every stage of a store: it
  says which keys of the block in work are written at each `stage`, so that what a
  crash leaves is known, and that only cut blocks (`cut`) lack anything.
* `BlocksInv` is about the loops of producer and verifier: what has been put
  together so far spends nothing twice as long as `TempTxPool` was not touched by
  another loop (`clean`), and the verifier has compared a prefix of its block.
  `ApprovedBlocksSpendOnce` follows from it and from `DiskInv`, which makes
  the serial numbers on disk those of the chain.

### Connections

Assumptions: `ConnectionsAssumption`, `NoConnAssumption`.

`TableInv = TableTypeOK /\ OwnSlot /\ TableIsExact`. `OwnSlot` says that the entry
of a peer is the slot of a connection with that very peer, so that closing one
connection never removes the entry of another. The limits are statements about
cardinalities: a connection that is added was counted before, under the same lock.

### Rewards of beacon blocks

Assumptions: `ShardAssumption`, `EpochAssumption`.

`RewardsInv = BeaconInv /\ SwapsInv /\ PaidInv`. `RewardBlock` says what a beacon
block carries: instructions that pay nothing, then the reward of its own height.
`SwapsInv` is needed for the first half, since a beacon block copies the swaps of
shard blocks. `BeaconInv` keeps height and blocks together across the loop over a
block's instructions (`ApplyInstructionsKeeps`), also when that loop ends with an
error. `PaidInv` is `RewardsArePaidOnce`, with a height of each shard that never
exceeds the beacon's: where a shard is more than an epoch behind, that the last
height of its epoch exists is an argument about quotients (`HeightAndEpochBound`).
The step of a shard block joins the rewards up to its last height with those of the
blocks it reads (`DuesConcat`, `SalariesOfBlocks`).

### Committees that agree

Assumptions: `ShardAssumption`, `EpochAssumption`, `GenesisAssumption`, and in the
theorem `OFFSET = 1`, the constant of `common/constants.go:66`: with a greater one
`RemoveValidator` does not find the second validator of a swap. Nothing is assumed
of who stakes, how often, or where the random number sends a candidate.

The argument is that all validators of a shard stand in one queue (`QueueIn`): those
of its genesis block, then those assigned to it, in the order of the beacon blocks.
After m swaps the committee is elements m + 1 to m + n of the queue and the pending
validators are the rest (`ViewAt`, n the size of the genesis committee). A longer
queue therefore changes only the end of the pending list, and it does not matter
when either chain appends to it. `ViewsInv` says

* the swaps in a shard's blocks are those of its queue, in order (`SwapsView`);
* the shard has made all of them, with the queue of the beacon blocks it has read
  (`ShardView`);
* the beacon has made those of the shard blocks it has taken, with the queue of all
  its blocks (`BeaconView`), and none of its updates has failed (`Sound`): a swap
  that it takes names the validators that stand at both ends of its own view;
* with `RewardsInv`, `KnownInsts` and `StakesInv`: instructions and stakes have the
  forms on which the loops over them can be computed.

`ViewsAgree` follows, since the two views then are one position of queues that
differ by what the shard has not yet read. The lemmas on `SwapValidator`,
`RemoveValidator` and the loop over swap instructions say what each does to a view
(`ViewAt`), the loops themselves being folds over one instruction at a time.

### The wallet

Assumption: `WalletAssumption`.

`WalletInv = WalletTypeOK /\ CallsAreServed /\ OneCall /\ FileHolds /\ MemoryHolds`.
As long as nothing has happened that the wallet does not withstand (`Clean`), calls
do not overlap (`OneCall`), the file holds what was answered except between
opening and writing (`FileHolds`), and each step of a call has in memory, in its
list and in its marshalled data what it is to write (`MemoryHolds`).
`AccountsSurvive` is the part of it that a client sees.

`BalancesOfAccountsAgree` needs that no two accounts have a key in common, and none
a name as long as nobody gave one ahead. `NumberedInv` says so of every list
(`Numbered`, `Named`), in memory, in a call's list and data and on disk, and that
indexes are less than the number of accounts, so that the next one is free, and
numbers in names too unless one was given ahead (`NewAccountFits`, `NameFits`),
although only the name is looked up. A caller's own key cannot be imported again
because it is in the list, which is what `WalletInv` knows. The sums are those of
different index sets (`SumOverImage`): those by name take one account of each name
(`OneOfEachName`), whatever names there are.

### Only model-checked

* Liveness (`AllConfirmed`, `AllProcessed`, `NodeCatchesUp`, `CertifiedIsInserted`,
  `StoreRecovers`, `TxSpreads`, `RequestsAreAnswered`, `TimelyCommitteeCommits`,
  `LostConnectionsEnd`) and the fair half of the refinement of `ChainSync` are out
  of the prover's reach.
* Statements about recursive functions over data of any size stay with TLC: the
  candidates of an epoch, counted over all lists (`EveryStakeCounts`), sums over
  coins and tokens of transactions (`CoinsArrive`, `TokenValueIsConserved`,
  `HonestBlocksAreStored`), digits and bits (`TextsAreFaithful`), proofs and payments
  (`ProofsAreComplete`, `ProofsAreSound`, `PaymentsAreExact`), and the bins of the
  fee estimator (`RollbackIsExact`).

## Not modelled, and why

* Chain parameters, prepared keys and benchmark transactions, word lists: data.
* Logging, command-line tools, the boot node, the address book, the Bitcoin client:
  input and output, or programs outside the node.
* Dispatch, authentication and read-only commands of the RPC server.
* Formulas of the curve, AES, hashes: taken as a group, as reversible and as
  functions that do not collide.
* The fee estimate: a statistic over floating-point rates.
* Wall-clock time: time-outs are nondeterministic, or excluded in the timely
  run. `MinBeaconBlkInterval` and the delays of the phases have no counterpart.

## Plan

All parts of the plan for the model are done. What is left is to prove more of
it, in this order:

1. `EveryStakeCounts` of `Committees`: the lemmas on the loops over instructions are
   there, what is missing is how often a candidate stands in all lists together.
2. `TokenValueIsConserved` of `Ledger`, with the sums of the bridge.
