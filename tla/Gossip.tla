------------------------------- MODULE Gossip -------------------------------
(***************************************************************************)
(* What becomes of a message between the nodes: the server's Push          *)
(* operations, the reader of a connection (peerconn), which forgets what   *)
(* it has seen for MsgLiveTime and passes on what is addressed to another  *)
(* committee, and the handlers of the sync manager (netsync), which keep   *)
(* what they have handled in a cache and spread transactions further.      *)
(*                                                                         *)
(* Connections do not change here (see Connections), and a copy of a       *)
(* message spends less than MsgLiveTime on its way: what a node has seen   *)
(* expires once no copy is left.                                           *)
(***************************************************************************)
EXTENDS Integers, FiniteSets, LruCache

CONSTANTS
    Node, Links,     \* the nodes, and the pairs of them that are connected
    ShardOf,         \* the shard a node's key is in the committee of, or NoShard
    Beacon,          \* the nodes in the beacon committee
    RelayShard,      \* the shards each node relays transactions of
    Stored,          \* the blocks each node can send
    Plans,           \* bound: the sequences of letters that may be sent, each a message type,
                     \* its content, where from and where to
    TxCacheSize,     \* txCache
    NoShard, NoNode  \* no shard, no node

-----------------------------------------------------------------------------
\* The types of message of the peer-to-peer network (wire).  A type is what the
\* network tells apart: its command, the most bytes a receiver accepts (in units
\* of a thousand), whether SetSenderID writes the sender into it, whether it
\* carries the time of sending, so that sending it again gives another hash, and
\* whether VerifyMsgSanity checks the signature SignMsg made.  Hash is the hash
\* of the whole content for every type.

Type(cmd, max, sender, stamped, signed) ==
    [cmd |-> cmd, max |-> max, sender |-> sender, stamped |-> stamped, signed |-> signed]

MessageTx == Type("tx", 4000, FALSE, FALSE, FALSE)
MessageTxToken == Type("txtoken", 4000, FALSE, FALSE, FALSE)
MessageTxPrivacyToken == Type("txprivacytok", 4000, FALSE, FALSE, FALSE)
MessageBlockBeacon == Type("blockbeacon", 2000, FALSE, FALSE, FALSE)
MessageBlockShard == Type("blockshard", 2000, FALSE, FALSE, FALSE)
MessageCrossShard == Type("crossshard", 2000, FALSE, FALSE, FALSE)
MessageShardToBeacon == Type("blkshdtobcn", 2000, FALSE, FALSE, FALSE)
MessageGetBlockBeacon == Type("getblkbeacon", 1, TRUE, TRUE, FALSE)
MessageGetBlockShard == Type("getblkshard", 2000, TRUE, FALSE, FALSE)
MessageGetCrossShard == Type("getcrossshd", 2000, TRUE, TRUE, FALSE)
MessageGetShardToBeacon == Type("getshdtobcn", 2000, TRUE, TRUE, FALSE)
MessagePeerState == Type("peerstate", 4000, TRUE, TRUE, FALSE)
MessageBFTPropose == Type("bftpropose", 2000, FALSE, TRUE, TRUE)
MessageBFTPrepare == Type("bftprepare", 1, FALSE, TRUE, TRUE)
MessageBFTCommit == Type("bftcommit", 1, FALSE, TRUE, TRUE)
MessageBFTReady == Type("bftready", 1, FALSE, TRUE, TRUE)
MessageBFTReq == Type("bftreq", 1, FALSE, TRUE, TRUE)
MessageVersion == Type("version", 1, FALSE, TRUE, FALSE)
MessageVerAck == Type("verack", 2000, FALSE, TRUE, FALSE)
MessageGetAddr == Type("getaddr", 1, FALSE, TRUE, FALSE)
MessageAddr == Type("addr", 100, FALSE, TRUE, FALSE)
MessagePing == Type("ping", 1, FALSE, FALSE, FALSE)

TxTypes == {MessageTx, MessageTxToken, MessageTxPrivacyToken}
BlockTypes == {MessageBlockBeacon, MessageBlockShard, MessageCrossShard, MessageShardToBeacon}
GetTypes == {MessageGetBlockBeacon, MessageGetBlockShard, MessageGetCrossShard, MessageGetShardToBeacon}
BFTTypes == {MessageBFTPropose, MessageBFTPrepare, MessageBFTCommit, MessageBFTReady, MessageBFTReq}
Types == TxTypes \cup BlockTypes \cup GetTypes \cup BFTTypes
         \cup {MessagePeerState, MessageVersion, MessageVerAck, MessageGetAddr, MessageAddr, MessagePing}

\* The type of a command in a header, as MakeEmptyMessage finds it.
MakeEmptyMessage(cmd) == CHOOSE t \in Types : t.cmd = cmd

\* The commands of a set of types, as GetCmdType gives them.
Cmds(S) == {t.cmd : t \in S}

-----------------------------------------------------------------------------
Letter == UNION {Range(plan) : plan \in Plans}

ASSUME GossipAssumption ==
    /\ \A l \in Links : <<l[2], l[1]>> \in Links /\ l[1] # l[2]
    /\ \A l \in Letter : /\ l.cmd \in Cmds(Types) /\ l.from \in Node
                         /\ l.to \in Node => <<l.from, l.to>> \in Links
    /\ TxCacheSize \in Nat \ {0}

VARIABLES
    sent,        \* the letters sent so far
    network,     \* the messages on their way
    seen,        \* messagePoolNew of each node: hashes of bytes and of messages
    work,        \* the goroutines of each node that handle a message
    txCache, blockCache,
    pool,        \* the transactions in the pool of each node
    handled      \* the blocks, states and votes that reached chain or consensus

gossipVars == <<sent, network, seen, work, txCache, blockCache, pool, handled>>

GossipInit ==
    /\ sent = <<>> /\ network = {}
    /\ seen = [n \in Node |-> {}] /\ work = [n \in Node |-> {}]
    /\ txCache = [n \in Node |-> <<>>] /\ blockCache = [n \in Node |-> {}]
    /\ pool = [n \in Node |-> {}] /\ handled = [n \in Node |-> {}]

-----------------------------------------------------------------------------
\* Sending.

Peers(n) == {p \in Node : <<n, p>> \in Links}
GetPeerConnOfShard(n, s) == {p \in Peers(n) : ShardOf[p] = s}
GetPeerConnOfBeacon(n) == Peers(n) \cap Beacon

\* Mutant: the sender is not written.
SetSenderIDNowhere(m, n) == m

SetSenderID(m, n) == IF MakeEmptyMessage(m.cmd).sender THEN [m EXCEPT !.sender = n] ELSE m

\* The message m as node n writes it to its connections with ps; way and
\* value are forwardType and forwardValue of the header.
Written(n, ps, m, way, value) ==
    {[from |-> n, to |-> p, msg |-> m, way |-> way, value |-> value] : p \in ps}

PushMessageToAll(n, m) == Written(n, Peers(n), SetSenderID(m, n), "all", NoShard)

PushMessageToPeer(n, m, p) == Written(n, Peers(n) \cap {p}, SetSenderID(m, n), "peer", NoShard)

\* Without a peer of the shard all peers get the message, as it is.
PushMessageToShard(n, m, s) ==
    LET ps == GetPeerConnOfShard(n, s)
    IN  IF ps # {} THEN Written(n, ps, SetSenderID(m, n), "shard", s)
        ELSE Written(n, Peers(n), m, "shard", s)

PushMessageToBeacon(n, m) ==
    LET ps == GetPeerConnOfBeacon(n)
    IN  IF ps # {} THEN Written(n, ps, SetSenderID(m, n), "beacon", NoShard)
        ELSE Written(n, Peers(n), m, "beacon", NoShard)

\* The bytes q that node n received, passed on unchanged.
Passed(n, q, ps) == {[q EXCEPT !.from = n, !.to = p] : p \in (IF ps # {} THEN ps ELSE Peers(n)) \ {q.from}}
PushRawBytesToShard(n, q, s) == Passed(n, q, GetPeerConnOfShard(n, s))
PushRawBytesToBeacon(n, q) == Passed(n, q, GetPeerConnOfBeacon(n))

\* The message of letter l, the k-th one sent.
MessageOf(l, k) ==
    [cmd |-> l.cmd, about |-> l.about, shard |-> l.shard, size |-> l.size,
     sender |-> IF l.cmd \in Cmds({MessageGetCrossShard, MessageGetShardToBeacon}) THEN l.from ELSE NoNode,
     stamp |-> IF MakeEmptyMessage(l.cmd).stamped THEN k ELSE 0]

Addressed(l, m) ==
    CASE l.to # NoNode -> PushMessageToPeer(l.from, m, l.to)
      [] l.cmd \in Cmds(TxTypes \cup {MessageBlockBeacon, MessagePeerState, MessageGetBlockBeacon}) ->
             PushMessageToAll(l.from, m)
      [] l.cmd = MessageShardToBeacon.cmd \/ (l.cmd \in Cmds(BFTTypes) /\ l.shard = NoShard) ->
             PushMessageToBeacon(l.from, m)
      [] OTHER -> PushMessageToShard(l.from, m, l.shard)

\* A node sends: consensus its votes and blocks, the sync loop its requests
\* and state, the handshake its messages, and the RPC server a transaction
\* the node's own pool has accepted.
Send(l) ==
    /\ sent' = Append(sent, l) /\ \E plan \in Plans : IsPrefix(sent', plan)
    /\ \/ /\ l.cmd \notin Cmds(TxTypes) /\ UNCHANGED pool
       \/ /\ l.cmd \in Cmds(TxTypes) /\ l.about \notin pool[l.from]
          /\ pool' = [pool EXCEPT ![l.from] = @ \cup {l.about}]
    /\ network' = network \cup Addressed(l, MessageOf(l, Len(sent) + 1))
    /\ UNCHANGED <<seen, work, txCache, blockCache, handled>>

-----------------------------------------------------------------------------
\* Receiving.

RawHash(q) == [msg |-> q.msg, way |-> q.way, value |-> q.value]

\* HashToPool fails for what the pool holds.
HashToPool(n, h) == h \notin seen[n]

\* check forward: a node in a committee passes on what is not for it, to the
\* peers of its own shard or to those of the beacon committee.
Forwards(n, q) ==
    CASE q.way = "shard" /\ ShardOf[n] # NoShard /\ ShardOf[n] # q.value ->
             PushRawBytesToShard(n, q, ShardOf[n])
      [] q.way = "beacon" /\ ShardOf[n] # NoShard -> PushRawBytesToBeacon(n, q)
      [] OTHER -> {}

IsForwarded(n, q) == ShardOf[n] # NoShard /\ (q.way = "beacon" \/ (q.way = "shard" /\ ShardOf[n] # q.value))

\* OnBlockShard and its like queue the message for the sync manager, which
\* starts a goroutine for it.
Queued(q) == [msg |-> q.msg, from |-> q.from, way |-> q.way, missed |-> FALSE]

InMessage(q) ==
    LET n == q.to
        fresh == HashToPool(n, RawHash(q))
        fits == q.msg.size <= MakeEmptyMessage(q.msg.cmd).max
        mine == fresh /\ fits /\ ~IsForwarded(n, q)
        new == mine /\ HashToPool(n, q.msg)
    IN  /\ q \in network
        /\ network' = (network \ {q}) \cup (IF fresh /\ fits THEN Forwards(n, q) ELSE {})
        /\ seen' = [seen EXCEPT ![n] = @ \cup (IF fresh THEN {RawHash(q)} ELSE {})
                                         \cup (IF mine THEN {q.msg} ELSE {})]
        /\ work' = [work EXCEPT ![n] = @ \cup (IF new THEN {Queued(q)} ELSE {})]
        /\ UNCHANGED <<sent, txCache, blockCache, pool, handled>>

-----------------------------------------------------------------------------
\* Handling.

\* Mutant: only the node's own shard counts.
HandleTxWithRoleOnly(n, m) == ShardOf[n] = m.shard

HandleTxWithRole(n, m) == m.shard \in RelayShard[n] \/ (ShardOf[n] = m.shard /\ m.shard # NoShard)

IsTx(w) == w.msg.cmd \in Cmds(TxTypes)
IsBlock(w) == w.msg.cmd \in Cmds(BlockTypes)
Left(n, w) == work' = [work EXCEPT ![n] = @ \ {w}]

\* HandleCacheTx and HandleCacheBlock look the message up; what they miss
\* they add in a step of its own.
LookUp(n, w) ==
    /\ w \in work[n] /\ ~w.missed /\ (IsTx(w) \/ IsBlock(w))
    /\ \/ /\ IsTx(w) /\ ~HandleTxWithRole(n, w.msg)
          /\ Left(n, w) /\ UNCHANGED txCache
       \/ /\ IsTx(w) /\ HandleTxWithRole(n, w.msg) /\ IsCached(txCache[n], w.msg.about)
          /\ txCache' = [txCache EXCEPT ![n] = CacheGet(@, w.msg.about)]
          /\ Left(n, w)
       \/ /\ IsBlock(w) /\ w.msg.about \in blockCache[n]
          /\ Left(n, w) /\ UNCHANGED txCache
       \/ /\ \/ IsTx(w) /\ HandleTxWithRole(n, w.msg) /\ ~IsCached(txCache[n], w.msg.about)
             \/ IsBlock(w) /\ w.msg.about \notin blockCache[n]
          /\ work' = [work EXCEPT ![n] = (@ \ {w}) \cup {[w EXCEPT !.missed = TRUE]}]
          /\ UNCHANGED txCache
    /\ UNCHANGED <<sent, network, seen, blockCache, pool, handled>>

\* HandleMessageTx and its like: the pool accepts a transaction it does not
\* hold (MaybeAcceptTransaction), and it goes to all peers.
HandleMessageTx(n, w) ==
    /\ w \in work[n] /\ w.missed /\ IsTx(w)
    /\ txCache' = [txCache EXCEPT ![n] = CacheAdd(@, w.msg.about, TxCacheSize)]
    /\ pool' = [pool EXCEPT ![n] = @ \cup {w.msg.about}]
    /\ network' = network \cup (IF w.msg.about \in pool[n] THEN {} ELSE PushMessageToAll(n, w.msg))
    /\ Left(n, w)
    /\ UNCHANGED <<sent, seen, blockCache, handled>>

\* HandleMessageBeaconBlock and its like give the block to the chain.
HandleMessageBlock(n, w) ==
    /\ w \in work[n] /\ w.missed /\ IsBlock(w)
    /\ blockCache' = [blockCache EXCEPT ![n] = @ \cup {w.msg.about}]
    /\ handled' = [handled EXCEPT ![n] = @ \cup {w.msg.about}]
    /\ Left(n, w)
    /\ UNCHANGED <<sent, network, seen, txCache, pool>>

\* The type of the block a request asks for (CreateBlkShardMsgByType).
Asked(cmd) == CASE cmd = MessageGetBlockBeacon.cmd -> MessageBlockBeacon.cmd
                [] cmd = MessageGetBlockShard.cmd -> MessageBlockShard.cmd
                [] cmd = MessageGetCrossShard.cmd -> MessageCrossShard.cmd
                [] cmd = MessageGetShardToBeacon.cmd -> MessageShardToBeacon.cmd

Reply(n, m, cmd) == [m EXCEPT !.cmd = cmd, !.sender = NoNode, !.stamp = Len(sent) + 1]

\* HandleMessageGetBlockShard and its like: a request without a sender, for
\* a block the node has not or from a node it is not connected with gets no
\* answer.
HandleMessageGetBlock(n, w) ==
    /\ w \in work[n] /\ w.msg.cmd \in Cmds(GetTypes)
    /\ network' = network \cup
         (IF w.msg.sender = NoNode \/ w.msg.about \notin Stored[n] THEN {}
          ELSE PushMessageToPeer(n, [w.msg EXCEPT !.cmd = Asked(w.msg.cmd), !.sender = NoNode, !.stamp = 0],
                                 w.msg.sender))
    /\ Left(n, w)
    /\ UNCHANGED <<sent, seen, txCache, blockCache, pool, handled>>

\* OnVerAck asks the peer for addresses and sends its own to all; OnGetAddr
\* answers.  OnVersion acknowledges (see Connections); OnAddr does nothing.
HandleHandshake(n, w) ==
    /\ w \in work[n] /\ w.msg.cmd \in Cmds({MessageVersion, MessageVerAck, MessageGetAddr, MessageAddr})
    /\ network' = network \cup
         (CASE w.msg.cmd = MessageVersion.cmd -> Written(n, {w.from}, Reply(n, w.msg, MessageVerAck.cmd), "peer", NoShard)
            [] w.msg.cmd = MessageVerAck.cmd ->
                  Written(n, {w.from}, Reply(n, w.msg, MessageGetAddr.cmd), "peer", NoShard)
                  \cup Written(n, Peers(n), Reply(n, w.msg, MessageAddr.cmd), "peer", NoShard)
            [] w.msg.cmd = MessageGetAddr.cmd -> Written(n, {w.from}, Reply(n, w.msg, MessageAddr.cmd), "peer", NoShard)
            [] OTHER -> {})
    /\ Left(n, w)
    /\ UNCHANGED <<sent, seen, txCache, blockCache, pool, handled>>

\* HandleMessageBFTMsg, whose check of the signature an honest sender's
\* message passes, and HandleMessagePeerState.
HandleMessage(n, w) ==
    /\ w \in work[n] /\ w.msg.cmd \in Cmds(BFTTypes \cup {MessagePeerState})
    /\ handled' = [handled EXCEPT ![n] = @ \cup {w.msg.about}]
    /\ Left(n, w)
    /\ UNCHANGED <<sent, network, seen, txCache, blockCache, pool>>

\* MsgLiveTime has passed since the last copy of a message was on its way.
Expire(n) ==
    /\ network = {} /\ \A m \in Node : work[m] = {}
    /\ seen[n] # {} \/ blockCache[n] # {}
    /\ seen' = [seen EXCEPT ![n] = {}] /\ blockCache' = [blockCache EXCEPT ![n] = {}]
    /\ UNCHANGED <<sent, network, work, txCache, pool, handled>>

GossipStep ==
    \/ \E q \in network : InMessage(q)
    \/ \E n \in Node : \E w \in work[n] :
          \/ LookUp(n, w) \/ HandleMessageTx(n, w) \/ HandleMessageBlock(n, w)
          \/ HandleMessageGetBlock(n, w) \/ HandleHandshake(n, w) \/ HandleMessage(n, w)

GossipNext == GossipStep \/ (\E l \in Letter : Send(l)) \/ \E n \in Node : Expire(n)

\* Readers and handlers are goroutines that are scheduled, and a connection
\* delivers what was written to it.
GossipFairness == WF_gossipVars(GossipStep)

-----------------------------------------------------------------------------
\* Properties.

\* A transaction in the pool of a node reaches the pool of every peer that
\* is in the committee of the transaction's shard or relays it.
TxSpreads ==
    \A l \in Letter : \A n, p \in Node :
        (l.cmd \in Cmds(TxTypes) /\ <<n, p>> \in Links /\ l.shard \in RelayShard[p] \cup {ShardOf[p]}
           /\ l.size <= MakeEmptyMessage(l.cmd).max)
        => ((l.about \in pool[n]) ~> (l.about \in pool[p]))

\* A request gets its block to the chain of the node that sent it, if one of
\* the peers it was addressed to has the block, whatever other copies of the
\* block and of the request are about.
RequestsAreAnswered ==
    \A l \in Letter :
        (l.cmd \in Cmds(GetTypes) /\ \E p \in Peers(l.from) :
              /\ l.about \in Stored[p] /\ (l.to = p \/ (l.to = NoNode /\ ShardOf[p] = l.shard)))
        => ((\E k \in DOMAIN sent : sent[k] = l) ~> (l.about \in handled[l.from]))
=============================================================================
