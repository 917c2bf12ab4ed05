----------------------------- MODULE BlockSync -----------------------------
(***************************************************************************)
(* How the blocks of ChainSync come to a node: peers report their          *)
(* heights, every round of the sync loop asks them for the blocks up to    *)
(* the closest height reported, peers answer with what they have, and a    *)
(* block that comes is first looked up among the messages and blocks of    *)
(* the last seconds.  A round also decides whether the node is ready to    *)
(* take part in consensus.                                                 *)
(*                                                                         *)
(* The node is outside the committees, a validator of the beacon chain or  *)
(* a validator of the shard.  Messages may be lost before a peer answers   *)
(* them; they are asked for again in a later round.  The requests of       *)
(* validators for blocks of the other two pools are in ShardToBeaconPool   *)
(* and CrossShard.                                                         *)
(***************************************************************************)
EXTENDS ChainSync, FiniteSetsExt, SequencesExt

CONSTANTS
  Peer,
  PeerStates,         \* [Peer -> the heights the peer goes through, a sequence]
  MaxBlkReqPerPeer,   \* defaultMaxBlkReqPerPeer
  MaxBlkReqPerTime    \* defaultMaxBlkReqPerTime

ASSUME SyncAssumption ==
  /\ MaxBlkReqPerPeer \in Nat \ {0, 1} /\ MaxBlkReqPerTime \in Nat \ {0}
  /\ DOMAIN PeerStates = Peer
  /\ \A p \in Peer : PeerStates[p] # <<>>

VARIABLES
  role,        \* GetPubkeyRole: "none", "beacon" or "shard" for a validator of that chain
  at,          \* where in its sequence of heights each peer is
  peersState,  \* PeersState: the heights a peer reported since the last round
  requests,    \* requests for blocks that are under way
  transit,     \* blocks that are under way
  seen,        \* messagePoolNew and blockCache, whose entries live equally long
  ready,       \* IsReady
  ongoing      \* ConsensusOngoing

netVars == <<at, peersState, requests, transit, seen>>
nodeVars == <<role, ready, ongoing>>
allVars == <<chainVars, netVars, nodeVars>>

NoState == [beacon |-> 0, shard |-> 0]
BlockMsg == UNION {[chain : {c}, height : 2..Top(c)] : c \in Chain}

\* The heights a peer has reached.
HeightOf(p) == PeerStates[p][at[p]]

\* GetBestHeightOfShard of the beacon best state.
GetBestHeightOfShard == Confirms[height.beacon]

SyncInit ==
  /\ Init
  /\ role \in {"none", "beacon", "shard"}
  /\ at = [p \in Peer |-> 1]
  /\ peersState = [p \in Peer |-> NoState]
  /\ requests = {} /\ transit = {} /\ seen = {}
  /\ ready = [beacon |-> FALSE, shard |-> FALSE] /\ ongoing = FALSE

-----------------------------------------------------------------------------
\* Reports.

\* A peer that syncs itself.
PeerAdvances(p) ==
  /\ at[p] < Len(PeerStates[p]) /\ at' = [at EXCEPT ![p] = @ + 1]
  /\ UNCHANGED <<chainVars, nodeVars, peersState, requests, transit, seen>>

\* BoardcastNodeState of the peer and OnPeerStateReceived: the height of the
\* shard is kept when it is above the node's, or equal for a validator of it.
OnPeerStateReceived(p) ==
  LET s == HeightOf(p).shard
      kept == s > height.shard \/ (role = "shard" /\ s = height.shard)
  IN /\ requests = {} /\ transit = {}
     /\ peersState' = [peersState EXCEPT ![p] = [beacon |-> HeightOf(p).beacon,
                                                 shard |-> IF kept THEN s ELSE 0]]
     /\ peersState' # peersState
     /\ UNCHANGED <<chainVars, nodeVars, at, requests, transit, seen>>

-----------------------------------------------------------------------------
\* A round of the sync loop.

Reporting == {p \in Peer : peersState[p] # NoState}

\* RCS: of the heights above the node's the smallest, or the node's.  A shard
\* counts from what the beacon chain has confirmed of it.
Closest(chain) ==
  LET above == {peersState[p][chain] : p \in Reporting}
      fit == {h \in above : /\ h > height[chain]
                            /\ chain = "shard" => h >= GetBestHeightOfShard}
  IN IF fit = {} THEN height[chain] ELSE Min(fit)

\* SetReadyState.  A validator of the shard keeps its old state of the shard
\* when the beacon chain is more than one block behind.
Readiness ==
  LET caughtUp == /\ Closest("shard") = height.shard
                  /\ Closest("shard") >= GetBestHeightOfShard
  IN CASE role # "shard" -> [ready EXCEPT !.beacon = Closest("beacon") = height.beacon]
       [] role = "shard" /\ Closest("beacon") - 1 <= height.beacon ->
            [beacon |-> caughtUp, shard |-> caughtUp]
       [] OTHER -> [ready EXCEPT !.beacon = FALSE]

\* Mutant: the range ends one block early.
RequestsShort(chain, order) ==
  {[chain |-> chain, from |-> height[chain] + 1, to |-> Closest(chain) - 1, peer |-> order[1]] :
     i \in {j \in DOMAIN order : height[chain] + 1 <= Closest(chain) - 1}}

\* The requests of SyncBlkBeacon and SyncBlkShard, with the peers in the order
\* in which the loop meets them: a peer is asked for MaxBlkReqPerPeer blocks,
\* the next one from the last of these on, until the closest height is reached.
\* For the beacon chain every peer is asked, for the shard those that have more.
Requests(chain, order) ==
  LET first == height[chain] + 1
      to == Min({Closest(chain), height[chain] + MaxBlkReqPerTime})
      From(i) == first + (i - 1) * (MaxBlkReqPerPeer - 1)
      asked == IF chain = "beacon" THEN order
               ELSE SelectSeq(order, LAMBDA p : peersState[p].shard >= first)
      Covered(i) == From(i) + MaxBlkReqPerPeer - 1 >= to
  IN {[chain |-> chain, from |-> From(i), to |-> Min({From(i) + MaxBlkReqPerPeer - 1, to}),
       peer |-> asked[i]] :
        i \in {j \in DOMAIN asked : From(j) <= to /\ \A k \in 1..(j - 1) : ~Covered(k)}}

\* An entry for a block that is not above the best one makes no difference.
Above(ms) == {m \in ms : m.height > height[m.chain]}

\* The states reported are used once.  A round comes three seconds after the
\* last one: its requests have been answered or lost and its blocks have come
\* (a bound on what is under way), and it may have been forgotten which.
SyncRound(order) ==
  /\ requests = {} /\ transit = {}
  /\ Reporting # {} /\ Range(order) = Reporting /\ Len(order) = Cardinality(Reporting)
  /\ requests' = requests \cup Requests("beacon", order) \cup Requests("shard", order)
  /\ ready' = Readiness
  /\ peersState' = [p \in Peer |-> NoState]
  /\ seen' \in {Above(seen), {}}
  /\ UNCHANGED <<chainVars, role, ongoing, at, transit>>

Orders == {o \in UNION {[1..n -> Peer] : n \in 1..Cardinality(Peer)} : IsInjective(o)}

-----------------------------------------------------------------------------
\* The answers.

\* GetBlkBeaconByHeightAndSend and GetBlkShardByHeightAndSend of the peer:
\* heights it has no block for are passed over.
GetBlkByHeightAndSend(r) ==
  /\ r \in requests
  /\ requests' = requests \ {r}
  /\ transit' = transit \cup {m \in BlockMsg : /\ m.chain = r.chain
                                               /\ m.height \in r.from..r.to
                                               /\ m.height <= HeightOf(r.peer)[r.chain]}
  /\ UNCHANGED <<chainVars, nodeVars, at, peersState, seen>>

\* PushMessageToPeer finds no connection.
RequestIsLost(r) ==
  /\ r \in requests /\ requests' = requests \ {r}
  /\ UNCHANGED <<chainVars, nodeVars, at, peersState, transit, seen>>

\* InsertBeaconBlock or InsertShardBlock of a block that is not in a pool.
InsertNext(c) ==
  /\ height' = [height EXCEPT ![c] = @ + 1]
  /\ held' = [held EXCEPT ![c] = @ \ {height[c] + 1}]

\* What the handler of a block message does with a block that is new.  A
\* validator of the chain inserts the next block itself, unless consensus is
\* on; one that is not ready for its shard leaves it to the pool.
HandleBlock(m) ==
  LET validates == role = m.chain /\ m.height = height[m.chain] + 1
      inserts == validates /\ ~ongoing /\ (m.chain = "shard" => ready.shard)
      dropped == \/ m.height <= height[m.chain]
                 \/ m.chain = "shard" /\ validates /\ ready.shard /\ ongoing
  IN \/ dropped /\ UNCHANGED chainVars
     \/ ~dropped /\ inserts /\ InsertNext(m.chain)
     \/ ~dropped /\ ~inserts /\ Receive(m.chain, m.height)

\* InMessageHandler, HandleMessageBeaconBlock and HandleMessageShardBlock:
\* nothing is done with a message that came within the last seconds.
HandleMessage(m) ==
  /\ m \in transit
  /\ transit' = transit \ {m}
  /\ IF m \in seen THEN UNCHANGED <<chainVars, seen>> ELSE HandleBlock(m) /\ seen' = Above(seen \cup {m})
  /\ UNCHANGED <<nodeVars, at, peersState, requests>>

-----------------------------------------------------------------------------
\* The engine starts a round of consensus only when the node is ready.
Consensus ==
  /\ role # "none" /\ ongoing' = (~ongoing /\ ready[role]) /\ ongoing' # ongoing
  /\ UNCHANGED <<chainVars, role, ready, netVars>>

\* InsertBlockFromPool.
InsertBlockFromPool(c) == Insert(c) /\ UNCHANGED <<netVars, nodeVars>>

SyncNext ==
  \/ \E p \in Peer : PeerAdvances(p) \/ OnPeerStateReceived(p)
  \/ \E o \in Orders : SyncRound(o)
  \/ \E r \in requests : GetBlkByHeightAndSend(r) \/ RequestIsLost(r)
  \/ \E m \in transit : HandleMessage(m)
  \/ \E c \in Chain : InsertBlockFromPool(c)
  \/ Consensus

\* Peers go on, report and answer; of the requests to a peer for the next block
\* of a chain not all are lost for ever, and none stays under way; the loop meets the peers, which are the keys of a
\* map, in every order, and again and again so late that the caches are empty;
\* what is on the wire comes; a round of consensus ends; blocks are inserted.
SyncFairness ==
  /\ \A p \in Peer : /\ WF_allVars(PeerAdvances(p))
                     /\ WF_allVars(OnPeerStateReceived(p))
                     /\ \A c \in Chain :
                          SF_allVars(\E r \in requests :
                                       /\ r.peer = p /\ r.chain = c /\ r.from = height[c] + 1
                                       /\ GetBlkByHeightAndSend(r))
  /\ \A o \in Orders : SF_allVars(seen' = {} /\ ~ongoing /\ SyncRound(o))
  /\ WF_allVars(\E r \in requests : GetBlkByHeightAndSend(r) \/ RequestIsLost(r))
  /\ WF_allVars(\E m \in transit : HandleMessage(m))
  /\ WF_allVars(ongoing /\ Consensus)
  /\ \A c \in Chain : WF_allVars(InsertBlockFromPool(c))

SyncSpec == SyncInit /\ [][SyncNext]_allVars /\ SyncFairness

-----------------------------------------------------------------------------
\* A node that follows its peers inserts every block that the pools can
\* certify, although each round asks only up to the closest height reported,
\* peers lag behind, requests are lost and blocks that come twice are dropped;
\* a validator gets ready for consensus and stays so while the chains rest.
NodeCatchesUp ==
  /\ <>(height.beacon >= BeaconTop - 1 /\ height.shard >= Confirms[BeaconTop - 1])
  /\ \A c \in Chain : role = c => <>[]ready[c]
=============================================================================
