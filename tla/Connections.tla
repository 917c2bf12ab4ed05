---------------------------- MODULE Connections ----------------------------
(***************************************************************************)
(* The connections of one node: discovery of peers and the limits per      *)
(* shard (connmanager), the dialling and accepting of streams and the      *)
(* goroutines that serve one (peer) and the handshake (server).            *)
(*                                                                         *)
(* A connection is served by three goroutines: the reader                  *)
(* (InMessageHandler), the writer (OutMessageHandler) and the handler      *)
(* (handleConn or handleStream), which end one another by closing the      *)
(* channels cWrite, cDisconnect and cClose.  Closing a channel twice       *)
(* panics, and a panic ends the node.  The remote peers, the bootnode and  *)
(* the network are the environment.                                        *)
(***************************************************************************)
EXTENDS Integers, FiniteSets, FiniteSetsExt, SequencesExt

CONSTANTS
    Peer,                \* the peers that may be met, by peer id
    Self,                \* the id of the node itself
    Committees,          \* the committees the chains may elect
    RandShards,          \* randShards, drawn once when discovery starts
    MaxConns,            \* bound: connections that exist at a time
    MaxDials,            \* bound: requests and retries that wait at a time
    MaxOutPeers, MaxInPeers,
    MaxPeersSameShard, MaxPeersOtherShard, MaxPeersOther, MaxPeersNoShard, MaxPeersBeacon,
    MaxRetryConn,
    NoConn               \* no connection

Slot == 1..MaxConns

ASSUME ConnectionsAssumption ==
    /\ Self \notin Peer /\ MaxConns \in Nat \ {0} /\ MaxDials \in Nat
    /\ {MaxOutPeers, MaxInPeers, MaxPeersSameShard, MaxPeersOtherShard, MaxPeersOther,
        MaxPeersNoShard, MaxPeersBeacon, MaxRetryConn} \subseteq Nat
    /\ \A c \in Committees : DOMAIN c = {"current", "beacon", "shardOf"}
    /\ NoConn \notin Slot

VARIABLES
    node,       \* "up"; "down" or "panicked" until it is started again
    committee,  \* ConsensusState: the node's shard, the beacon committee and the map Committee
    conns,      \* the connections that have a goroutine, by slot
    peerConns,  \* PeerConns, the slot of a peer's connection or NoConn
    dials,      \* what waits to be sent to cNewConn
    timers      \* retries that wait for RetryConnDuration

connVars == <<node, committee, conns, peerConns, dials, timers>>

Shards == {RandShards[i] : i \in DOMAIN RandShards}
Direct == -1   \* a request of Connect, which waits for no answer
Dial == [peer : Peer \cup {Self}, retry : Direct..MaxRetryConn]
Timer == [peer : Peer, retry : 0..MaxRetryConn + 1]
Conn == [peer : Peer, outbound : BOOLEAN, pbk : BOOLEAN, reader : {"starting", "reading", "quit"},
         writer : BOOLEAN, handler : BOOLEAN, cClose : BOOLEAN, forced : BOOLEAN, gone : BOOLEAN]

ASSUME NoConnAssumption == NoConn \notin Conn

ConnInit ==
        /\ node = "up" /\ committee \in Committees
        /\ conns = [k \in Slot |-> NoConn] /\ peerConns = [p \in Peer |-> NoConn]
        /\ dials = {} /\ timers = {}

-----------------------------------------------------------------------------
\* The table of connections.

Used == {k \in Slot : conns[k] # NoConn}
Registered == {peerConns[p] : p \in Peer} \ {NoConn}   \* GetPeerConnOfAll

CountOfOutboundConn == Cardinality({k \in Registered : conns[k].outbound})
CountOfInboundConn == Cardinality({k \in Registered : ~conns[k].outbound})

\* GetIsConnected: the reader sets it, and both goroutines that end clear it.
IsConnected(c) == c.reader = "reading" /\ c.writer

\* A connection without a goroutine is garbage.
Collected(c) == IF c.reader = "quit" /\ ~c.writer /\ ~c.handler THEN NoConn ELSE c

\* What SetPeerConn finds under the peer's id is closed when it is connected.
Displaced(p) == {k \in {peerConns[p]} \ {NoConn} : IsConnected(conns[k])}

\* getShardOfPbk of a connection, for the committee and what is known of the peer.
InShard(c, s) == c.pbk /\ c.peer \in DOMAIN committee.shardOf /\ committee.shardOf[c.peer] = s
InNoShard(c) == ~(c.pbk /\ c.peer \in DOMAIN committee.shardOf)

getPeerConnOfShard(s) == {k \in Registered : InShard(conns[k], s)}
countPeerConnOfShard(s) == Cardinality(getPeerConnOfShard(s))

checkPeerConnOfPbk(p) == \E k \in Registered : conns[k].pbk /\ conns[k].peer = p

\* A new PeerConn and its registration.
NewConn(p, outbound) ==
    [peer |-> p, outbound |-> outbound, pbk |-> outbound, reader |-> "starting", writer |-> TRUE,
     handler |-> TRUE, cClose |-> FALSE, forced |-> FALSE, gone |-> FALSE]

SetPeerConn(p, outbound) ==
    \E k \in Slot \ Used :
        /\ k = Min(Slot \ Used)
        /\ \A j \in Displaced(p) : ~conns[j].cClose
        /\ conns' = [j \in Slot |-> IF j = k THEN NewConn(p, outbound)
                                    ELSE IF j \in Displaced(p) THEN [conns[j] EXCEPT !.cClose = TRUE]
                                    ELSE conns[j]]
        /\ peerConns' = [peerConns EXCEPT ![p] = k]

-----------------------------------------------------------------------------
\* Closing.

\* A panic, or a kill, takes all that is in memory with it.
End(how) ==
    /\ node' = how
    /\ conns' = [k \in Slot |-> NoConn] /\ peerConns' = [p \in Peer |-> NoConn]
    /\ dials' = {} /\ timers' = {}
    /\ UNCHANGED committee

\* ForceClose of the connections ks, with what else changes in connections cs.
ForceClose(ks, cs) == [k \in Slot |-> IF k \in ks \cap Used
                                      THEN [cs[k] EXCEPT !.forced = TRUE, !.cClose = TRUE] ELSE cs[k]]
ClosedTwice(ks) == \E k \in ks : conns[k].cClose

-----------------------------------------------------------------------------
\* Discovery.  A round collects the connections it closes and the peers it
\* dials; n is what the code's function returns.

Nothing == [closes |-> {}, dials |-> {}, n |-> 0]

\* The subsets of S of size n, or S when it is smaller.
Some(n, S) == kSubset(IF Cardinality(S) < n THEN Cardinality(S) ELSE n, S)

handleRandPeersOfBeacon(maxPeers, listed) ==
    {[Nothing EXCEPT !.dials = {p \in S : ~checkPeerConnOfPbk(p)}] :
        S \in Some(IF maxPeers = 0 THEN 1 ELSE maxPeers, committee.beacon \cap listed)}

handleRandPeersOfShard(shard, maxPeers, listed) ==
    LET count == countPeerConnOfShard(shard)
        members == {p \in DOMAIN committee.shardOf : committee.shardOf[p] = shard}
        fresh == {p \in members \cap listed : ~checkPeerConnOfPbk(p)}
    IN  IF count >= maxPeers
        THEN {[Nothing EXCEPT !.closes = S, !.n = maxPeers] :
                 S \in kSubset(count - maxPeers, getPeerConnOfShard(shard))}
        ELSE {[Nothing EXCEPT !.dials = S, !.n = count + Cardinality(S)] :
                 S \in Some(maxPeers - count, fresh)}


\* One round after another.
Then(r, s) == [closes |-> r.closes \cup s.closes, dials |-> r.dials \cup s.dials, n |-> r.n + s.n]

handleRandPeersOfOtherShard(listed) ==
    LET Others == SelectSeq(RandShards, LAMBDA s : s # committee.current)
        Visit(rounds, s) ==
            UNION {IF r.n < MaxPeersOther
                   THEN {Then(r, q) : q \in handleRandPeersOfShard(s,
                            Min({MaxPeersOtherShard, MaxPeersOther - r.n}), listed)}
                   ELSE {[r EXCEPT !.closes = @ \cup getPeerConnOfShard(s)]} : r \in rounds}
    IN  FoldLeft(Visit, {Nothing}, Others)

handleRandPeersOfNoShard(maxPeers, listed) ==
    LET fresh == {p \in listed \cup {Self} : /\ ~checkPeerConnOfPbk(p)
                                             /\ p \notin committee.beacon \cup DOMAIN committee.shardOf}
    IN  {[Nothing EXCEPT !.dials = S] : S \in Some(IF maxPeers = 0 THEN 1 ELSE maxPeers, fresh)}

\* processDiscoverPeers, with the answer of the bootnode to Ping.
processDiscoverPeers(listed) ==
    {Then(Then(b, s), Then(o, n)) :
        b \in handleRandPeersOfBeacon(MaxPeersBeacon, listed),
        s \in IF committee.current \in Shards
              THEN handleRandPeersOfShard(committee.current, MaxPeersSameShard, listed) ELSE {Nothing},
        o \in handleRandPeersOfOtherShard(listed),
        n \in handleRandPeersOfNoShard(MaxPeersNoShard, listed)}

\* DiscoverPeers, every minute and whenever the committees change.
DiscoverPeers ==
    /\ node = "up"
    /\ \E listed \in SUBSET Peer : \E r \in processDiscoverPeers(listed) :
          IF ClosedTwice(r.closes) THEN End("panicked")
          ELSE /\ conns' = ForceClose(r.closes, conns)
               /\ dials' = dials \cup {[peer |-> p, retry |-> Direct] : p \in r.dials \cap (listed \cup {Self})}
               /\ Cardinality(dials' \cup timers) <= MaxDials
               /\ UNCHANGED <<node, committee, peerConns, timers>>

UpdateConsensusState(c) ==
    /\ node = "up" /\ c # committee
    /\ committee' = c
    /\ UNCHANGED <<node, conns, peerConns, dials, timers>>

-----------------------------------------------------------------------------
\* processConn: one request at a time, from a dial or from a stream that
\* arrived, up to the answer on its channel.

\* handleConn refuses what is connected already, itself, and too many.
MayDial(p) == p # Self /\ peerConns[p] = NoConn /\ ~(CountOfOutboundConn >= MaxOutPeers /\ MaxOutPeers > 0)

\* A retry that gets no connection counts again and waits again.
Unanswered(d) == {[peer |-> q, retry |-> d.retry + 1] : q \in {r \in {d.peer} : d.retry # Direct}}

handleConn(d) ==
    /\ node = "up" /\ d \in dials /\ dials' = dials \ {d}
    /\ \/ /\ MayDial(d.peer) /\ SetPeerConn(d.peer, TRUE)
          /\ UNCHANGED timers
       \/ /\ timers' = timers \cup Unanswered(d)   \* refused, or NewStream fails
          /\ UNCHANGED <<conns, peerConns>>
    /\ UNCHANGED <<node, committee>>

\* Mutant: a peer that is connected is not refused.
MayAcceptAgain(p) == ~(CountOfInboundConn >= MaxInPeers /\ MaxInPeers > 0)

\* handleStream closes a stream it refuses.
MayAccept(p) == peerConns[p] = NoConn /\ ~(CountOfInboundConn >= MaxInPeers /\ MaxInPeers > 0)

handleStream(p) ==
    /\ node = "up" /\ MayAccept(p) /\ SetPeerConn(p, FALSE)
    /\ UNCHANGED <<node, committee, dials, timers>>

\* retryPeerConnection, when its timer fires.
retryPeerConnection(t) ==
    /\ node = "up" /\ t \in timers /\ timers' = timers \ {t}
    /\ dials' = dials \cup {[peer |-> q, retry |-> t.retry + 1] : q \in
                               {r \in {t.peer} : t.retry + 1 < MaxRetryConn}}
    /\ UNCHANGED <<node, committee, conns, peerConns>>

-----------------------------------------------------------------------------
\* The goroutines of a connection.

\* InMessageHandler starts, and ends when the remote side is gone.
InMessageHandler(k) ==
    /\ k \in Used
    /\ \/ /\ conns[k].reader = "starting"
          /\ conns' = [conns EXCEPT ![k].reader = "reading"]
       \/ /\ conns[k].reader = "reading" /\ conns[k].gone
          /\ conns' = [conns EXCEPT ![k].reader = "quit"]
    /\ UNCHANGED <<node, committee, peerConns, dials, timers>>

\* Mutant: the writer waits for cClose as well.
OutMessageHandlerKeepsOpen(k) ==
    /\ k \in Used /\ conns[k].writer /\ conns[k].reader = "quit" /\ conns[k].cClose
    /\ conns' = [conns EXCEPT ![k] = Collected([@ EXCEPT !.writer = FALSE])]
    /\ UNCHANGED <<node, committee, peerConns, dials, timers>>

\* OutMessageHandler ends once cWrite is closed, closes cDisconnect and
\* starts handleDisconnected.
OutMessageHandler(k) ==
    /\ k \in Used /\ conns[k].writer /\ conns[k].reader = "quit"
    /\ conns' = [conns EXCEPT ![k] = Collected([@ EXCEPT !.writer = FALSE])]
    /\ timers' = timers \cup {[peer |-> c.peer, retry |-> 0] : c \in
                                 {d \in {conns[k]} : d.outbound /\ ~d.forced}}
    /\ UNCHANGED <<node, committee, peerConns, dials>>

\* The handler ends on cDisconnect or cClose: RemovePeerConn closes the
\* peer's connection if it is connected and forgets it.
RemovePeerConn(k) ==
    LET p == conns[k].peer
        found == {peerConns[p]} \ {NoConn}
        closes == {j \in found : IsConnected(conns[j])}
        left == [conns EXCEPT ![k] = Collected([@ EXCEPT !.handler = FALSE])]
    IN  /\ k \in Used /\ conns[k].handler
        /\ conns[k].cClose \/ ~conns[k].writer
        /\ IF ClosedTwice(closes) THEN End("panicked")
           ELSE /\ conns' = [j \in Slot |-> IF j \in closes THEN [left[j] EXCEPT !.cClose = TRUE]
                                            ELSE left[j]]
                /\ peerConns' = [peerConns EXCEPT ![p] = NoConn]
                /\ UNCHANGED <<node, committee, dials, timers>>

\* The remote side closes the stream or disappears.
RemoteGone(k) ==
    /\ k \in Used /\ ~conns[k].gone
    /\ conns' = [conns EXCEPT ![k].gone = TRUE]
    /\ UNCHANGED <<node, committee, peerConns, dials, timers>>

-----------------------------------------------------------------------------
\* The handshake.

\* CheckForAcceptConn, for connections cs in which the key of k is known.
CheckForAcceptConn(cs, k) ==
    LET OfShard(s) == Cardinality({j \in Registered : InShard(cs[j], s)})
        None == Cardinality({j \in Registered : InNoShard(cs[j])})
    IN  /\ \A s \in Shards : InShard(cs[k], s) =>
              OfShard(s) <= IF s = committee.current THEN MaxPeersSameShard ELSE MaxPeersOtherShard
        /\ InNoShard(cs[k]) => None <= MaxPeersNoShard

\* OnVersion, for a message with a signed key, without one, or with a key
\* whose signature does not verify.
OnVersion(k, key) ==
    LET named == [conns EXCEPT ![k].pbk = (key = "signed")]
        refused == key = "unverified" \/ ~CheckForAcceptConn(named, k)
    IN  /\ k \in Used /\ conns[k].reader = "reading" /\ ~conns[k].gone
        /\ IF refused /\ conns[k].cClose THEN End("panicked")
           ELSE /\ conns' = IF ~refused THEN named
                            ELSE ForceClose({k}, IF key = "unverified" THEN conns ELSE named)
                /\ UNCHANGED <<node, committee, peerConns, dials, timers>>

-----------------------------------------------------------------------------
\* The process is killed.
Crash == node = "up" /\ End("down")

\* peerHandler dials what the book of addresses holds.
Start ==
    /\ node # "up" /\ node' = "up"
    /\ \E loaded \in SUBSET Peer :
          /\ dials' = {[peer |-> p, retry |-> Direct] : p \in loaded}
          /\ Cardinality(dials') <= MaxDials
    /\ UNCHANGED <<committee, conns, peerConns, timers>>

ConnNext ==
    \/ DiscoverPeers \/ Crash \/ Start
    \/ \E c \in Committees : UpdateConsensusState(c)
    \/ \E d \in dials : handleConn(d)
    \/ \E t \in timers : retryPeerConnection(t)
    \/ \E p \in Peer : handleStream(p)
    \/ \E k \in Slot : \/ InMessageHandler(k) \/ OutMessageHandler(k) \/ RemovePeerConn(k)
                       \/ RemoteGone(k)
                       \/ \E key \in {"signed", "unsigned", "unverified"} : OnVersion(k, key)

\* The goroutines of the node are scheduled; nothing is assumed of the peers,
\* of the bootnode or of timers.
ConnFairness ==
    \A k \in Slot : /\ WF_connVars(InMessageHandler(k))
                    /\ WF_connVars(OutMessageHandler(k))
                    /\ WF_connVars(RemovePeerConn(k))

ConnSpec == ConnInit /\ [][ConnNext]_connVars /\ ConnFairness

-----------------------------------------------------------------------------
\* Properties.

\* A connection is in the table of the listener exactly as long as its
\* handler serves it, and no limit on inbound or outbound connections is
\* exceeded, whatever dials, streams, retries and closes overlap.
TableIsExact ==
    /\ \A k \in Used : conns[k].handler <=> peerConns[conns[k].peer] = k
    /\ \A p \in Peer : peerConns[p] # NoConn => peerConns[p] \in Used
    /\ MaxOutPeers > 0 => CountOfOutboundConn <= MaxOutPeers
    /\ MaxInPeers > 0 => CountOfInboundConn <= MaxInPeers

\* A connection whose remote side is gone is taken out of the table and all
\* its goroutines end, so that the peer can be connected again.
LostConnectionsEnd ==
    \A k \in Slot : (k \in Used /\ conns[k].gone) ~> (k \notin Used \/ ~conns[k].gone)
=============================================================================
