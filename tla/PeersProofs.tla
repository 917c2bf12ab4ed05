---------------------------- MODULE PeersProofs ----------------------------
(***************************************************************************)
(* Proofs about peers.  ConstantBFT, for every committee, every number of  *)
(* rounds and restarts, and every loss, delay and repetition of messages:  *)
(* what the committee signs.  Connections, for any peers, committees and   *)
(* limits: the table of connections lists exactly those that a handler     *)
(* serves, and keeps to the limits.  Committees, for any number of shards, *)
(* any stakes and swaps, and any way in which the chains lag behind each   *)
(* other: the rewards of beacon blocks.                                    *)
(***************************************************************************)
EXTENDS ConstantBFT, Connections, Committees, Sums, TLAPS

-----------------------------------------------------------------------------
\* The consensus.

\* A validator in a round has drawn its random, and in the last two phases it
\* has a block.
InRound ==
  \A v \in Validator :
    /\ phase[v] # "idle" => draw[v] # 0
    /\ phase[v] \in {"prepare", "commit"} => pendingBlock[v] # NoBlock

\* A signature is made with a random of its signer, and the last random has
\* signed only if the signer is past phasePrepare.
SignedWithOwnDraw ==
  \A m \in commitMsgs :
    /\ m.R[m.from] # 0
    /\ m.R[m.from] <= draw[m.from]
    /\ m.R[m.from] = draw[m.from] => phase[m.from] \in {"idle", "commit"}

IInv ==
  /\ TypeOK
  /\ InRound
  /\ SignedWithOwnDraw
  /\ RandomSignsOnce
  /\ CertificateIsSound

-----------------------------------------------------------------------------
\* The committee is finite and has N members.
LEMMA ValidatorFinite ==
  IsFiniteSet(Validator) /\ Cardinality(Validator) = N
BY SizeAssumption, FS_Interval DEF Validator

\* The threshold of phaseCommit is more than two thirds.
LEMMA QuorumIsTwoThirds ==
  ASSUME NEW S \in SUBSET Validator, IsQuorum(S)
  PROVE  3 * Cardinality(S) > 2 * N
<1>1. Cardinality(S) \in Nat
  BY ValidatorFinite, FS_Subset, FS_CardinalityType
<1> QED BY <1>1, SizeAssumption DEF IsQuorum

\* Two sets of more than two thirds have a common member.
LEMMA QuorumsMeet ==
  ASSUME NEW S \in SUBSET Validator, 3 * Cardinality(S) > 2 * N,
         NEW T \in SUBSET Validator, 3 * Cardinality(T) > 2 * N
  PROVE  S \cap T # {}
<1>1. IsFiniteSet(S) /\ IsFiniteSet(T)
  BY ValidatorFinite, FS_Subset
<1>2. Cardinality(S \union T) <= N
  <2>1. S \union T \in SUBSET Validator
    OBVIOUS
  <2> QED BY <2>1, ValidatorFinite, FS_Subset
<1>3. Cardinality(S \union T) = Cardinality(S) + Cardinality(T) - Cardinality(S \cap T)
  BY <1>1, FS_Union
<1>4. /\ Cardinality(S) \in Nat
      /\ Cardinality(T) \in Nat
      /\ Cardinality(S \cap T) \in Nat
  BY <1>1, FS_CardinalityType, FS_Intersection
<1>5. Cardinality(S \cap T) # 0
  BY <1>2, <1>3, <1>4, SizeAssumption
<1> QED BY <1>5, FS_EmptySet

\* NoBlock is not a block, and NoCert not a certificate.
LEMMA NothingIsNotSomething ==
  NoBlock \notin Block /\ NoCert \notin Certificate
BY DEF NoBlock, Block, Draw, Round, NoCert, Certificate

-----------------------------------------------------------------------------
\* The initial state satisfies the invariant.
LEMMA InitIInv == Init => IInv
BY SizeAssumption
   DEF Init, IInv, TypeOK, InRound, SignedWithOwnDraw, RandomSignsOnce,
       CertificateIsSound, Round, Draw

\* A step that sends no signature and inserts no block keeps what is said of
\* signatures and of certificates.
LEMMA Frame ==
  ASSUME UNCHANGED <<commitMsgs, best>>
  PROVE  /\ RandomSignsOnce => RandomSignsOnce'
         /\ CertificateIsSound => CertificateIsSound'
BY DEF RandomSignsOnce, CertificateIsSound, Signers

\* StartRound draws a random that nothing is signed with yet.
LEMMA StartRoundStep ==
  ASSUME IInv, NEW v \in Validator, StartRound(v)
  PROVE  IInv'
<1> USE DEF IInv
<1>1. TypeOK'
  BY DEF StartRound, FreshDraw, TypeOK, Draw
<1>2. InRound'
  BY DEF StartRound, FreshDraw, TypeOK, InRound, Draw
<1>3. SignedWithOwnDraw'
  <2> SUFFICES ASSUME NEW m \in commitMsgs
      PROVE /\ m.R[m.from] # 0
            /\ m.R[m.from] <= draw'[m.from]
            /\ m.R[m.from] = draw'[m.from] => phase'[m.from] \in {"idle", "commit"}
    BY DEF SignedWithOwnDraw, StartRound
  <2>1. m.from \in Validator /\ m.R[m.from] \in Nat
    BY DEF TypeOK, Combined
  <2> QED BY <2>1 DEF StartRound, FreshDraw, TypeOK, SignedWithOwnDraw, Draw
<1>4. RandomSignsOnce' /\ CertificateIsSound'
  BY Frame DEF StartRound
<1> QED BY <1>1, <1>2, <1>3, <1>4

\* The end of a round, with the message sets and the chain as they are.
LEMMA EndRoundStep ==
  ASSUME IInv, NEW v \in Validator, EndRound(v),
         round' \in [Validator -> Round], UNCHANGED <<draw, best, msgs>>
  PROVE  IInv'
<1> USE DEF IInv
<1>1. TypeOK'
  BY DEF EndRound, TypeOK, msgs
<1>2. InRound'
  BY DEF EndRound, TypeOK, InRound
<1>3. SignedWithOwnDraw'
  BY DEF EndRound, TypeOK, SignedWithOwnDraw, msgs
<1>4. RandomSignsOnce' /\ CertificateIsSound'
  BY Frame DEF msgs
<1> QED BY <1>1, <1>2, <1>3, <1>4

\* A failed round.
LEMMA FailRoundStep ==
  ASSUME IInv, NEW v \in Validator, FailRound(v)
  PROVE  IInv'
<1>1. round' \in [Validator -> Round]
  BY DEF FailRound, IInv, TypeOK, Round
<1> QED BY <1>1, EndRoundStep DEF FailRound

\* A restart.
LEMMA RestartStep ==
  ASSUME IInv, NEW v \in Validator, Restart(v)
  PROVE  IInv'
<1>1. round' \in [Validator -> Round]
  BY DEF Restart, IInv, TypeOK, Round
<1> QED BY <1>1, EndRoundStep DEF Restart

\* Entering phasePrepare with a block: the random of this round has signed
\* nothing.
LEMMA EnterPrepareStep ==
  ASSUME IInv, NEW v \in Validator, NEW b \in Block, EnterPrepare(v, b),
         phase[v] \in {"propose", "listen"},
         proposeMsgs' \in SUBSET Block,
         UNCHANGED <<round, draw, best, readyMsgs, commitMsgs>>
  PROVE  IInv'
<1> USE DEF IInv
<1>1. TypeOK'
  BY DEF EnterPrepare, TypeOK, InRound, Draw
<1>2. InRound'
  BY NothingIsNotSomething DEF EnterPrepare, TypeOK, InRound
<1>3. SignedWithOwnDraw'
  BY DEF EnterPrepare, TypeOK, SignedWithOwnDraw
<1>4. RandomSignsOnce' /\ CertificateIsSound'
  BY Frame
<1> QED BY <1>1, <1>2, <1>3, <1>4

\* phasePropose.
LEMMA PhaseProposeStep ==
  ASSUME IInv, NEW v \in Validator, PhasePropose(v)
  PROVE  IInv'
<1> DEFINE b == [round |-> round[v], draw |-> draw[v]]
<1>1. b \in Block
  BY DEF PhasePropose, IInv, TypeOK, InRound, Block, Draw
<1>2. EnterPrepare(v, b) /\ phase[v] = "propose"
  BY DEF PhasePropose
<1>3. proposeMsgs' \in SUBSET Block
  BY <1>1 DEF PhasePropose, IInv, TypeOK
<1> HIDE DEF b
<1> QED BY <1>1, <1>2, <1>3, EnterPrepareStep DEF PhasePropose

\* phaseListen.
LEMMA PhaseListenStep ==
  ASSUME IInv, NEW v \in Validator, NEW b \in proposeMsgs, PhaseListen(v, b)
  PROVE  IInv'
<1>1. b \in Block /\ proposeMsgs' \in SUBSET Block
  BY DEF PhaseListen, IInv, TypeOK
<1> QED BY <1>1, EnterPrepareStep DEF PhaseListen

\* phasePrepare signs once with the random of the round.
LEMMA PhasePrepareStep ==
  ASSUME IInv, NEW v \in Validator, NEW R \in Collections(v), PhasePrepare(v, R)
  PROVE  IInv'
<1> USE DEF IInv
<1> DEFINE c == [from |-> v, block |-> pendingBlock[v], R |-> R]
<1>1. R \in Combined /\ R[v] = draw[v]
  <2>1. \A w \in Validator : Collectable(v, w) \subseteq Nat
    BY DEF Collectable, TypeOK, Draw
  <2> QED BY <2>1 DEF Collections, Combined
<1>2. pendingBlock[v] \in Block /\ draw[v] \in Nat /\ draw[v] # 0
  BY DEF PhasePrepare, TypeOK, InRound, Draw
<1>3. /\ phase[v] = "prepare"
      /\ phase' = [phase EXCEPT ![v] = "commit"]
      /\ commitMsgs' = commitMsgs \union {c}
      /\ UNCHANGED <<round, draw, pendingBlock, best,
                     readyMsgs, proposeMsgs, prepareMsgs>>
  BY DEF PhasePrepare
<1>4. c \in [from : Validator, block : Block, R : Combined]
  BY <1>1, <1>2
<1>5. TypeOK'
  BY <1>3, <1>4 DEF TypeOK
<1>6. InRound'
  BY <1>3 DEF TypeOK, InRound
<1>7. SignedWithOwnDraw'
  BY <1>1, <1>2, <1>3 DEF TypeOK, SignedWithOwnDraw
<1>8. RandomSignsOnce'
  <2>1. ASSUME NEW m \in commitMsgs, m.from = v
        PROVE  m.R[m.from] # draw[v]
    BY <2>1, <1>3 DEF SignedWithOwnDraw
  <2> QED BY <2>1, <1>1, <1>3 DEF RandomSignsOnce
<1>9. CertificateIsSound'
  BY <1>3 DEF CertificateIsSound, Signers
<1> QED BY <1>5, <1>6, <1>7, <1>8, <1>9

\* phaseCommit inserts only what a quorum has signed.
LEMMA PhaseCommitStep ==
  ASSUME IInv, NEW v \in Validator, NEW R \in {m.R : m \in commitMsgs},
         NEW S \in SUBSET VerifiedSigners(v, R), PhaseCommit(v, R, S)
  PROVE  IInv'
<1> USE DEF IInv
<1> DEFINE c == [block |-> pendingBlock[v], R |-> R, signers |-> S]
<1>1. R \in Combined /\ S \in SUBSET Validator
  BY DEF VerifiedSigners, Signers, TypeOK
<1>2. pendingBlock[v] \in Block
  BY DEF PhaseCommit, TypeOK, InRound
<1>3. c \in Certificate
  BY <1>1, <1>2 DEF Certificate
<1>4. /\ EndRound(v)
      /\ best' = [best EXCEPT ![v] = IF @ = NoCert THEN c ELSE @]
      /\ UNCHANGED <<round, draw, msgs>>
  BY DEF PhaseCommit, InsertCommitted
<1>5. TypeOK'
  BY <1>3, <1>4 DEF TypeOK, EndRound, msgs
<1>6. InRound' /\ SignedWithOwnDraw' /\ RandomSignsOnce'
  BY <1>4 DEF TypeOK, EndRound, InRound, SignedWithOwnDraw, RandomSignsOnce, msgs
<1>7. CertificateIsSound'
  <2>1. 3 * Cardinality(S) > 2 * N
    BY <1>1, QuorumIsTwoThirds DEF PhaseCommit
  <2>2. S \subseteq Signers(pendingBlock[v], R)
    BY DEF VerifiedSigners
  <2>3. \A b, Q : Signers(b, Q)' = Signers(b, Q)
    BY <1>4 DEF Signers, msgs
  <2>4. ASSUME NEW w \in Validator, best'[w] # NoCert
        PROVE  \/ best'[w] = c
               \/ best'[w] = best[w]
    BY <1>4, <2>4 DEF TypeOK
  <2> QED BY <2>1, <2>2, <2>3, <2>4 DEF CertificateIsSound
<1> QED BY <1>5, <1>6, <1>7

\* A pushed block comes with its certificate.
LEMMA InsertPushedBlockStep ==
  ASSUME IInv, NEW v \in Validator, NEW w \in Validator, InsertPushedBlock(v, w)
  PROVE  IInv'
<1> USE DEF IInv
<1>1. TypeOK'
  BY DEF InsertPushedBlock, TypeOK, msgs
<1>2. InRound' /\ SignedWithOwnDraw' /\ RandomSignsOnce'
  BY DEF InsertPushedBlock, InRound, SignedWithOwnDraw, RandomSignsOnce, msgs
<1>3. CertificateIsSound'
  BY DEF InsertPushedBlock, TypeOK, CertificateIsSound, Signers, msgs
<1> QED BY <1>1, <1>2, <1>3

\* Every step keeps the invariant.
LEMMA NextIInv == IInv /\ [Next]_vars => IInv'
<1> SUFFICES ASSUME IInv, [Next]_vars PROVE IInv'
  OBVIOUS
<1>1. CASE UNCHANGED vars
  BY <1>1 DEF vars, msgs, IInv, TypeOK, InRound, SignedWithOwnDraw,
              RandomSignsOnce, CertificateIsSound, Signers
<1>2. CASE Next
  <2> PICK v \in Validator :
        \/ StartRound(v)
        \/ PhasePropose(v)
        \/ PhaseProposeFails(v)
        \/ \E b \in proposeMsgs : PhaseListen(v, b)
        \/ PhaseListenFails(v)
        \/ \E R \in Collections(v) : PhasePrepare(v, R)
        \/ PhasePrepareFails(v)
        \/ \E R \in {m.R : m \in commitMsgs} :
             \E S \in SUBSET VerifiedSigners(v, R) : PhaseCommit(v, R, S)
        \/ PhaseCommitFails(v)
        \/ \E w \in Validator : InsertPushedBlock(v, w)
        \/ Restart(v)
    BY <1>2 DEF Next
  <2>1. CASE StartRound(v)
    BY <2>1, StartRoundStep
  <2>2. CASE PhasePropose(v)
    BY <2>2, PhaseProposeStep
  <2>3. CASE \E b \in proposeMsgs : PhaseListen(v, b)
    BY <2>3, PhaseListenStep
  <2>4. CASE \E R \in Collections(v) : PhasePrepare(v, R)
    BY <2>4, PhasePrepareStep
  <2>5. CASE \E R \in {m.R : m \in commitMsgs} :
               \E S \in SUBSET VerifiedSigners(v, R) : PhaseCommit(v, R, S)
    <3>1. PICK R \in {m.R : m \in commitMsgs} :
                 \E S \in SUBSET VerifiedSigners(v, R) : PhaseCommit(v, R, S)
      BY <2>5
    <3> QED BY <3>1, PhaseCommitStep
  <2>6. CASE \/ PhaseProposeFails(v) \/ PhaseListenFails(v)
             \/ PhasePrepareFails(v) \/ PhaseCommitFails(v)
    BY <2>6, FailRoundStep
       DEF PhaseProposeFails, PhaseListenFails, PhasePrepareFails, PhaseCommitFails
  <2>7. CASE \E w \in Validator : InsertPushedBlock(v, w)
    BY <2>7, InsertPushedBlockStep
  <2>8. CASE Restart(v)
    BY <2>8, RestartStep
  <2> QED BY <2>1, <2>2, <2>3, <2>4, <2>5, <2>6, <2>7, <2>8
<1> QED BY <1>1, <1>2

\* The invariant holds in every reachable state.
THEOREM Inductive == Spec => []IInv
BY InitIInv, NextIInv, PTL DEF Spec

\* Type correctness of ConstantBFT.
THEOREM TypeCorrect == Spec => []TypeOK
BY Inductive, PTL DEF IInv

\* No random signs twice, across rounds, late messages and restarts: what
\* multiSigScheme.Prepare and SignData have to ensure for the private keys.
THEOREM NoRandomSignsTwice == Spec => []RandomSignsOnce
BY Inductive, PTL DEF IInv

\* No block is in a chain without the signatures of more than two thirds of
\* the committee (phaseCommit, InsertBeaconBlock).
THEOREM BlocksAreCertified == Spec => []CertificateIsSound
BY Inductive, PTL DEF IInv

\* Two certificates of different blocks share a signer, which used two draws.
LEMMA CertificatesMeet == IInv => ForkNeedsTwoRounds
<1> SUFFICES ASSUME IInv, NEW v \in Validator, NEW w \in Validator,
                    best[v] # NoCert, best[w] # NoCert,
                    best[v].block # best[w].block
             PROVE  \E x \in best[v].signers \cap best[w].signers :
                      best[v].R[x] # best[w].R[x]
  BY DEF ForkNeedsTwoRounds
<1> USE DEF IInv
<1>1. /\ best[v].signers \in SUBSET Validator
      /\ best[w].signers \in SUBSET Validator
  BY DEF TypeOK, Certificate
<1>2. PICK x \in best[v].signers \cap best[w].signers : TRUE
  BY <1>1, QuorumsMeet DEF CertificateIsSound
<1>3. PICK m1 \in commitMsgs : /\ m1.from = x
                              /\ m1.block = best[v].block
                              /\ m1.R = best[v].R
  BY <1>2 DEF CertificateIsSound, Signers
<1>4. PICK m2 \in commitMsgs : /\ m2.from = x
                              /\ m2.block = best[w].block
                              /\ m2.R = best[w].R
  BY <1>2 DEF CertificateIsSound, Signers
<1>5. best[v].R[x] # best[w].R[x]
  BY <1>3, <1>4 DEF RandomSignsOnce
<1> QED BY <1>2, <1>5

\* A fork at one height takes a validator that signed both blocks, in two of
\* the rounds it started: within a round two quorums cannot disagree.
THEOREM ForksNeedTwoRounds == Spec => []ForkNeedsTwoRounds
BY Inductive, CertificatesMeet, PTL

-----------------------------------------------------------------------------
\* Connections.

USE ConnectionsAssumption, NoConnAssumption

\* The type of the table, of the connections and of what waits to be dialled.
TableTypeOK ==
    /\ conns \in [Slot -> Conn \cup {NoConn}]
    /\ peerConns \in [Peer -> Slot \cup {NoConn}]
    /\ \A d \in dials : d.peer \in Peer \cup {Self} /\ (d.peer = Self => d.retry = Direct)
    /\ \A t \in timers : t.peer \in Peer

\* A slot stands in the table under the peer of its connection and no other.
\* TableIsExact alone does not say so, and RemovePeerConn, which forgets what it
\* finds under the peer's id, could then leave the entry of another peer without
\* a handler.
OwnSlot == \A p \in Peer : peerConns[p] # NoConn => peerConns[p] \in Used /\ conns[peerConns[p]].peer = p

TableInv == TableTypeOK /\ OwnSlot /\ TableIsExact

-----------------------------------------------------------------------------
\* The connections in the table can be counted.
LEMMA TableIsFinite ==
    ASSUME TableTypeOK
    PROVE  /\ Registered \subseteq Slot
           /\ IsFiniteSet(Registered)
           /\ CountOfOutboundConn \in Nat /\ CountOfInboundConn \in Nat
<1>1. Registered \subseteq Slot
  BY DEF Registered, TableTypeOK
<1>2. IsFiniteSet(Slot)
  BY FS_Interval DEF Slot
<1>3. \A S \in SUBSET Registered : IsFiniteSet(S) /\ Cardinality(S) \in Nat
  BY <1>1, <1>2, FS_Subset, FS_CardinalityType
<1> QED BY <1>1, <1>3 DEF CountOfOutboundConn, CountOfInboundConn

\* What only takes connections out of the table makes neither count grow.
LEMMA FewerConnections ==
    ASSUME TableTypeOK, TableTypeOK', Registered' \subseteq Registered,
           \A k \in Registered' : conns'[k].outbound = conns[k].outbound
    PROVE  CountOfOutboundConn' <= CountOfOutboundConn /\ CountOfInboundConn' <= CountOfInboundConn
<1> DEFINE Out == {k \in Registered : conns[k].outbound}
           In == {k \in Registered : ~conns[k].outbound}
<1>1. Out' \subseteq Out /\ In' \subseteq In
  OBVIOUS
<1>2. IsFiniteSet(Out) /\ IsFiniteSet(In)
  BY TableIsFinite, FS_Subset
<1>3. Cardinality(Out') <= Cardinality(Out) /\ Cardinality(In') <= Cardinality(In)
  BY <1>1, <1>2, FS_Subset
<1> QED BY <1>3 DEF CountOfOutboundConn, CountOfInboundConn

\* A step that leaves the table alone, opens no connection, moves no handler
\* and frees only slots that no handler serves.
LEMMA TableUntouched ==
    ASSUME TableInv, TableTypeOK', peerConns' = peerConns,
           \A k \in Slot :
               IF conns'[k] = NoConn
               THEN conns[k] = NoConn \/ ~conns[k].handler
               ELSE /\ conns[k] # NoConn
                    /\ conns'[k].peer = conns[k].peer
                    /\ conns'[k].outbound = conns[k].outbound
                    /\ conns'[k].handler = conns[k].handler
    PROVE  TableInv'
<1> USE DEF TableInv
<1>1. Registered' = Registered /\ Registered \subseteq Slot
  BY TableIsFinite DEF Registered
<1>2. \A k \in Used : conns[k].peer \in Peer
  BY DEF Used, TableTypeOK, Conn
<1>3. ASSUME NEW p \in Peer, peerConns[p] # NoConn
      PROVE  /\ peerConns[p] \in Slot /\ conns'[peerConns[p]] # NoConn
             /\ conns'[peerConns[p]].peer = p
  <2>1. peerConns[p] \in Used /\ conns[peerConns[p]].peer = p
    BY <1>3 DEF OwnSlot
  <2>2. conns[peerConns[p]].handler
    BY <2>1, <1>3 DEF TableIsExact
  <2> QED BY <2>1, <2>2 DEF Used
<1>4. OwnSlot'
  BY <1>3 DEF OwnSlot, Used
<1>5. \A k \in Used' : conns'[k].handler <=> peerConns'[conns'[k].peer] = k
  BY DEF TableIsExact, Used
<1>6. CountOfOutboundConn' <= CountOfOutboundConn /\ CountOfInboundConn' <= CountOfInboundConn
  <2>1. \A k \in Registered' : conns'[k].outbound = conns[k].outbound
    BY <1>1, <1>3 DEF Registered
  <2> QED BY <1>1, <2>1, FewerConnections
<1>7. /\ CountOfOutboundConn \in Nat /\ CountOfInboundConn \in Nat
      /\ CountOfOutboundConn' \in Nat /\ CountOfInboundConn' \in Nat
  <2>1. CountOfOutboundConn \in Nat /\ CountOfInboundConn \in Nat
    BY TableIsFinite
  <2>2. (TableTypeOK => CountOfOutboundConn \in Nat /\ CountOfInboundConn \in Nat)'
    BY TableIsFinite, PTL
  <2> QED BY <2>1, <2>2
<1>8. TableIsExact'
  BY <1>4, <1>5, <1>6, <1>7 DEF TableIsExact, OwnSlot
<1> QED BY <1>4, <1>8

\* Nothing that a node which is not running left behind stands in the table.
LEMMA EmptyTable ==
    ASSUME TableTypeOK, conns = [k \in Slot |-> NoConn], peerConns = [p \in Peer |-> NoConn]
    PROVE  TableInv
<1>1. Registered = {} /\ Used = {}
  BY DEF Registered, Used
<1>2. CountOfOutboundConn = 0 /\ CountOfInboundConn = 0
  BY <1>1, FS_EmptySet DEF CountOfOutboundConn, CountOfInboundConn
<1> QED BY <1>1, <1>2 DEF TableInv, OwnSlot, TableIsExact

LEMMA InitTableInv == ConnInit => TableInv
  BY EmptyTable DEF ConnInit, TableTypeOK

\* A panic or a kill.
LEMMA EndKeepsTable ==
    ASSUME NEW how, End(how)
    PROVE  TableInv'
<1>1. TableTypeOK' /\ conns' = [k \in Slot |-> NoConn] /\ peerConns' = [p \in Peer |-> NoConn]
  BY DEF End, TableTypeOK
<1>2. (TableTypeOK /\ conns = [k \in Slot |-> NoConn] /\ peerConns = [p \in Peer |-> NoConn] => TableInv)'
  BY EmptyTable, PTL
<1> QED BY <1>1, <1>2

-----------------------------------------------------------------------------
\* The steps that leave the table alone.

\* Closing channels, whichever connections are found to close.
LEMMA CloseKeepsConns ==
    ASSUME TableTypeOK, NEW ks, NEW cs \in [Slot -> Conn \cup {NoConn}],
           \A k \in Slot : cs[k] = NoConn <=> conns[k] = NoConn
    PROVE  /\ ForceClose(ks, cs) \in [Slot -> Conn \cup {NoConn}]
           /\ \A k \in Slot :
                /\ ForceClose(ks, cs)[k] = NoConn <=> cs[k] = NoConn
                /\ cs[k] # NoConn => /\ ForceClose(ks, cs)[k].peer = cs[k].peer
                                     /\ ForceClose(ks, cs)[k].outbound = cs[k].outbound
                                     /\ ForceClose(ks, cs)[k].handler = cs[k].handler
<1> DEFINE F(k) == [cs[k] EXCEPT !.forced = TRUE, !.cClose = TRUE]
<1>1. ASSUME NEW k \in Slot, cs[k] # NoConn
      PROVE  /\ F(k) \in Conn /\ F(k) # NoConn
             /\ F(k).peer = cs[k].peer /\ F(k).outbound = cs[k].outbound /\ F(k).handler = cs[k].handler
  <2>1. cs[k] \in Conn
    BY <1>1
  <2>2. F(k) \in Conn /\ F(k).peer = cs[k].peer /\ F(k).outbound = cs[k].outbound
        /\ F(k).handler = cs[k].handler
    BY <2>1 DEF Conn
  <2> QED BY <2>2
<1>2. \A k \in Slot : k \in Used => cs[k] # NoConn
  BY DEF Used
<1>3. \A k \in Slot : ForceClose(ks, cs)[k] = IF k \in ks \cap Used THEN F(k) ELSE cs[k]
  BY DEF ForceClose
<1> HIDE DEF F
<1>4. \A k \in Slot : ForceClose(ks, cs)[k] \in Conn \cup {NoConn}
  BY <1>1, <1>2, <1>3
<1>5. ForceClose(ks, cs) \in [Slot -> Conn \cup {NoConn}]
  BY <1>4 DEF ForceClose
<1> QED BY <1>1, <1>2, <1>3, <1>5

\* A round of discovery closes connections and dials peers.
LEMMA DiscoveryKeepsTable ==
    ASSUME TableInv, DiscoverPeers
    PROVE  TableInv'
<1>0. PICK listed \in SUBSET Peer :
         \E r \in processDiscoverPeers(listed) :
            IF ClosedTwice(r.closes) THEN End("panicked")
            ELSE /\ conns' = ForceClose(r.closes, conns)
                 /\ dials' = dials \cup {[peer |-> p, retry |-> Direct] : p \in r.dials \cap (listed \cup {Self})}
                 /\ UNCHANGED <<node, committee, peerConns, timers>>
  BY DEF DiscoverPeers
<1>1. PICK r \in processDiscoverPeers(listed) :
         \/ End("panicked")
         \/ /\ conns' = ForceClose(r.closes, conns)
            /\ dials' = dials \cup {[peer |-> p, retry |-> Direct] : p \in r.dials \cap (listed \cup {Self})}
            /\ UNCHANGED <<peerConns, timers>>
  BY <1>0
<1>2. CASE End("panicked")
  BY <1>2, EndKeepsTable
<1>3. CASE ~End("panicked")
  <2>1. /\ conns' = ForceClose(r.closes, conns)
        /\ dials' = dials \cup {[peer |-> p, retry |-> Direct] : p \in r.dials \cap (listed \cup {Self})}
        /\ UNCHANGED <<peerConns, timers>>
    BY <1>1, <1>3
  <2>2. TableTypeOK
    BY DEF TableInv
  <2>3. conns \in [Slot -> Conn \cup {NoConn}]
    BY <2>2 DEF TableTypeOK
  <2>4. /\ conns' \in [Slot -> Conn \cup {NoConn}]
        /\ \A k \in Slot :
             /\ conns'[k] = NoConn <=> conns[k] = NoConn
             /\ conns[k] # NoConn => /\ conns'[k].peer = conns[k].peer
                                     /\ conns'[k].outbound = conns[k].outbound
                                     /\ conns'[k].handler = conns[k].handler
    BY <2>1, <2>2, <2>3, CloseKeepsConns
  <2>5. TableTypeOK'
    BY <2>1, <2>2, <2>4 DEF TableTypeOK
  <2> QED BY <2>1, <2>4, <2>5, TableUntouched
<1> QED BY <1>2, <1>3

\* The handshake closes the connection it refuses.
LEMMA VersionKeepsTable ==
    ASSUME TableInv, NEW k \in Slot, NEW key, OnVersion(k, key)
    PROVE  TableInv'
<1> DEFINE named == [conns EXCEPT ![k].pbk = (key = "signed")]
<1>1. /\ TableTypeOK
      /\ conns \in [Slot -> Conn \cup {NoConn}]
      /\ conns[k] \in Conn /\ conns[k] # NoConn
  BY DEF TableInv, TableTypeOK, OnVersion, Used
<1>2. [conns[k] EXCEPT !.pbk = (key = "signed")] \in Conn
      /\ [conns[k] EXCEPT !.pbk = (key = "signed")].peer = conns[k].peer
      /\ [conns[k] EXCEPT !.pbk = (key = "signed")].outbound = conns[k].outbound
      /\ [conns[k] EXCEPT !.pbk = (key = "signed")].handler = conns[k].handler
  BY <1>1 DEF Conn
<1>3. /\ named \in [Slot -> Conn \cup {NoConn}]
      /\ \A j \in Slot :
           /\ named[j] = NoConn <=> conns[j] = NoConn
           /\ conns[j] # NoConn => /\ named[j].peer = conns[j].peer
                                   /\ named[j].outbound = conns[j].outbound
                                   /\ named[j].handler = conns[j].handler
  BY <1>1, <1>2
<1>4. \/ End("panicked")
      \/ /\ conns' \in {named, ForceClose({k}, conns), ForceClose({k}, named)}
         /\ UNCHANGED <<node, committee, peerConns, dials, timers>>
  BY DEF OnVersion
<1> HIDE DEF named
<1>5. CASE End("panicked")
  BY <1>5, EndKeepsTable
<1>6. CASE ~End("panicked")
  <2>1. /\ conns' \in [Slot -> Conn \cup {NoConn}]
        /\ \A j \in Slot :
             /\ conns'[j] = NoConn <=> conns[j] = NoConn
             /\ conns[j] # NoConn => /\ conns'[j].peer = conns[j].peer
                                     /\ conns'[j].outbound = conns[j].outbound
                                     /\ conns'[j].handler = conns[j].handler
    <3>1. CASE conns' = named
      BY <3>1, <1>3
    <3>2. CASE conns' = ForceClose({k}, conns)
      BY <3>2, <1>1, CloseKeepsConns
    <3>3. CASE conns' = ForceClose({k}, named)
      <4>1. /\ conns' \in [Slot -> Conn \cup {NoConn}]
            /\ \A j \in Slot :
                 /\ conns'[j] = NoConn <=> named[j] = NoConn
                 /\ named[j] # NoConn => /\ conns'[j].peer = named[j].peer
                                         /\ conns'[j].outbound = named[j].outbound
                                         /\ conns'[j].handler = named[j].handler
        BY <3>3, <1>1, <1>3, CloseKeepsConns
      <4> QED BY <4>1, <1>3
    <3> QED BY <1>4, <1>6, <3>1, <3>2, <3>3
  <2>2. TableTypeOK' /\ peerConns' = peerConns
    BY <1>1, <1>4, <1>6, <2>1 DEF TableTypeOK
  <2> QED BY <2>1, <2>2, TableUntouched
<1> QED BY <1>5, <1>6

\* The goroutines of a connection and the remote side, but for the handler.
LEMMA GoroutinesKeepTable ==
    ASSUME TableInv, NEW k \in Slot,
           InMessageHandler(k) \/ OutMessageHandler(k) \/ RemoteGone(k)
    PROVE  TableInv'
<1>1. /\ TableTypeOK
      /\ conns \in [Slot -> Conn \cup {NoConn}]
      /\ conns[k] \in Conn /\ conns[k] # NoConn
  BY DEF TableInv, TableTypeOK, InMessageHandler, OutMessageHandler, RemoteGone, Used
<1>2. PICK c :
        /\ c \in {[conns[k] EXCEPT !.reader = "reading"], [conns[k] EXCEPT !.reader = "quit"],
                  [conns[k] EXCEPT !.writer = FALSE], [conns[k] EXCEPT !.gone = TRUE]}
        /\ conns' = [conns EXCEPT ![k] = c] \/ conns' = [conns EXCEPT ![k] = Collected(c)]
  BY <1>1 DEF InMessageHandler, OutMessageHandler, RemoteGone
<1>3. c \in Conn /\ c.peer = conns[k].peer /\ c.outbound = conns[k].outbound /\ c.handler = conns[k].handler
  BY <1>1, <1>2 DEF Conn
<1>4. conns'[k] \in {c, Collected(c)} /\ (\A j \in Slot : j # k => conns'[j] = conns[j])
      /\ conns' = [j \in Slot |-> conns'[j]]
  BY <1>1, <1>2
<1>5. Collected(c) = c \/ (Collected(c) = NoConn /\ ~c.handler)
  BY DEF Collected
<1>6. /\ peerConns' = peerConns /\ dials' = dials
      /\ timers' = timers \/ timers' = timers \cup {[peer |-> d.peer, retry |-> 0] : d \in
                                 {e \in {conns[k]} : e.outbound /\ ~e.forced}}
  BY DEF InMessageHandler, OutMessageHandler, RemoteGone
<1>7. \A t \in timers' : t.peer \in Peer
  BY <1>1, <1>6 DEF TableTypeOK, Conn
<1>8. conns' \in [Slot -> Conn \cup {NoConn}]
  BY <1>1, <1>3, <1>4, <1>5
<1>9. TableTypeOK'
  BY <1>1, <1>6, <1>7, <1>8 DEF TableTypeOK
<1> QED BY <1>1, <1>3, <1>4, <1>5, <1>6, <1>9, TableUntouched

-----------------------------------------------------------------------------
\* The steps that change the table.

\* RemovePeerConn: the entry it forgets is that of the handler's connection, so
\* that no other connection loses its place.
LEMMA RemoveKeepsTable ==
    ASSUME TableInv, NEW k \in Slot, RemovePeerConn(k)
    PROVE  TableInv'
<1> DEFINE p == conns[k].peer
           c == [conns[k] EXCEPT !.handler = FALSE]
<1>1. /\ TableTypeOK
      /\ conns \in [Slot -> Conn \cup {NoConn}] /\ peerConns \in [Peer -> Slot \cup {NoConn}]
      /\ k \in Used /\ conns[k] \in Conn /\ conns[k] # NoConn /\ conns[k].handler /\ p \in Peer
  BY DEF TableInv, TableTypeOK, RemovePeerConn, Used, Conn
<1>2. peerConns[p] = k
  BY <1>1 DEF TableInv, TableIsExact
<1>3. CASE End("panicked")
  BY <1>3, EndKeepsTable
<1>4. CASE ~End("panicked")
  <2>1. /\ \A j \in Slot : conns'[j] =
              IF j \in {i \in {k} : IsConnected(conns[i])}
              THEN [[conns EXCEPT ![k] = Collected(c)][j] EXCEPT !.cClose = TRUE]
              ELSE [conns EXCEPT ![k] = Collected(c)][j]
        /\ conns' = [j \in Slot |-> conns'[j]]
        /\ peerConns' = [peerConns EXCEPT ![p] = NoConn]
        /\ UNCHANGED <<node, committee, dials, timers>>
    <3> DEFINE closes == {i \in {peerConns[p]} \ {NoConn} : IsConnected(conns[i])}
               left == [conns EXCEPT ![k] = Collected(c)]
    <3>1. /\ conns' = [j \in Slot |-> IF j \in closes THEN [left[j] EXCEPT !.cClose = TRUE] ELSE left[j]]
          /\ peerConns' = [peerConns EXCEPT ![p] = NoConn]
          /\ UNCHANGED <<node, committee, dials, timers>>
      BY <1>4 DEF RemovePeerConn
    <3>2. closes = {i \in {k} : IsConnected(conns[i])}
      BY <1>1, <1>2 DEF Used
    <3>3. \A j \in Slot : conns'[j] = IF j \in {i \in {k} : IsConnected(conns[i])}
                                    THEN [left[j] EXCEPT !.cClose = TRUE] ELSE left[j]
      <4> HIDE DEF c, left, closes
      <4> QED BY <3>1, <3>2
    <3>4. conns' = [j \in Slot |-> conns'[j]]
      <4> HIDE DEF c, left, closes
      <4> QED BY <3>1
    <3> QED BY <3>1, <3>3, <3>4
  <2>2. \A j \in Slot : j # k => conns'[j] = conns[j]
    BY <1>1, <2>1
  <2>3. conns'[k] = IF IsConnected(conns[k]) THEN [Collected(c) EXCEPT !.cClose = TRUE] ELSE Collected(c)
    BY <1>1, <2>1
  <2>4. c \in Conn /\ c.peer = p /\ ~c.handler /\ c.reader = conns[k].reader /\ c.writer = conns[k].writer
    BY <1>1 DEF Conn
  <2>5. conns'[k] \in {NoConn, c, [c EXCEPT !.cClose = TRUE]}
    <3>1. IsConnected(conns[k]) => Collected(c) = c
      BY <2>4 DEF IsConnected, Collected
    <3> QED BY <2>3, <3>1 DEF Collected
  <2>6. conns'[k] = NoConn \/ (conns'[k] \in Conn /\ conns'[k].peer = p /\ ~conns'[k].handler)
    BY <2>4, <2>5 DEF Conn
  <2> HIDE DEF p, c
  <2>7. TableTypeOK'
    BY <1>1, <2>1, <2>2, <2>6 DEF TableTypeOK
  <2>8. \A q \in Peer : q # p => peerConns'[q] = peerConns[q] /\ peerConns[q] # k
    BY <1>1, <2>1 DEF TableInv, OwnSlot, p
  <2>9. peerConns'[p] = NoConn
    BY <1>1, <2>1
  <2>10. OwnSlot'
    BY <1>1, <2>2, <2>8, <2>9 DEF TableInv, OwnSlot, Used
  <2>11. \A j \in Used' : conns'[j].handler <=> peerConns'[conns'[j].peer] = j
    <3>1. ASSUME NEW j \in Used' PROVE conns'[j].handler <=> peerConns'[conns'[j].peer] = j
      <4>1. j \in Slot /\ conns'[j] # NoConn /\ NoConn # j
        BY <3>1 DEF Used
      <4>2. CASE j = k
        BY <2>6, <2>9, <4>1, <4>2
      <4>3. CASE j # k
        <5>1. conns'[j] = conns[j] /\ j \in Used /\ conns[j].peer \in Peer
          BY <1>1, <2>2, <4>1, <4>3 DEF Used, Conn
        <5>2. conns[j].handler <=> peerConns[conns[j].peer] = j
          BY <5>1 DEF TableInv, TableIsExact
        <5>3. CASE conns[j].peer = p
          BY <1>2, <2>9, <4>1, <4>3, <5>1, <5>2, <5>3 DEF p
        <5>4. CASE conns[j].peer # p
          BY <2>8, <5>1, <5>2, <5>4
        <5> QED BY <5>3, <5>4
      <4> QED BY <4>2, <4>3
    <3> QED BY <3>1
  <2>12. Registered' \subseteq Registered /\ \A j \in Registered' : conns'[j].outbound = conns[j].outbound
    <3>1. ASSUME NEW j \in Registered' PROVE j \in Registered /\ conns'[j].outbound = conns[j].outbound
      <4>1. PICK q \in Peer : j = peerConns'[q] /\ j # NoConn
        BY <3>1 DEF Registered
      <4>2. q # p /\ j = peerConns[q] /\ j # k /\ j \in Slot
        BY <1>1, <2>8, <2>9, <4>1
      <4> QED BY <2>2, <4>1, <4>2 DEF Registered
    <3> QED BY <3>1
  <2>13. CountOfOutboundConn' <= CountOfOutboundConn /\ CountOfInboundConn' <= CountOfInboundConn
    BY <1>1, <2>7, <2>12, FewerConnections
  <2>14. /\ CountOfOutboundConn \in Nat /\ CountOfInboundConn \in Nat
         /\ CountOfOutboundConn' \in Nat /\ CountOfInboundConn' \in Nat
    <3>1. (TableTypeOK => CountOfOutboundConn \in Nat /\ CountOfInboundConn \in Nat)'
      BY TableIsFinite, PTL
    <3> QED BY <1>1, <2>7, <3>1, TableIsFinite
  <2>15. TableIsExact'
    BY <2>10, <2>11, <2>13, <2>14 DEF TableInv, TableIsExact, OwnSlot
  <2> QED BY <2>7, <2>10, <2>15 DEF TableInv
<1> QED BY <1>3, <1>4

\* SetPeerConn, for a peer that has no connection in the table and when the
\* limit of its kind is not reached: the new connection takes a free slot, and
\* one of the peer's that is still closing keeps out of the table.
LEMMA RegisterKeepsTable ==
    ASSUME TableInv, NEW p \in Peer, NEW outbound \in BOOLEAN, peerConns[p] = NoConn,
           SetPeerConn(p, outbound),
           outbound => ~(CountOfOutboundConn >= MaxOutPeers /\ MaxOutPeers > 0),
           ~outbound => ~(CountOfInboundConn >= MaxInPeers /\ MaxInPeers > 0),
           \A d \in dials' : d.peer \in Peer \cup {Self} /\ (d.peer = Self => d.retry = Direct),
           \A t \in timers' : t.peer \in Peer
    PROVE  TableInv'
<1>1. /\ TableTypeOK
      /\ conns \in [Slot -> Conn \cup {NoConn}] /\ peerConns \in [Peer -> Slot \cup {NoConn}]
  BY DEF TableInv, TableTypeOK
<1>2. Displaced(p) = {}
  BY DEF Displaced
<1>3. PICK k \in Slot \ Used :
        /\ conns' = [j \in Slot |-> IF j = k THEN NewConn(p, outbound)
                                    ELSE IF j \in Displaced(p) THEN [conns[j] EXCEPT !.cClose = TRUE]
                                    ELSE conns[j]]
        /\ peerConns' = [peerConns EXCEPT ![p] = k]
  BY DEF SetPeerConn
<1>4. /\ NewConn(p, outbound) \in Conn /\ NewConn(p, outbound) # NoConn
      /\ NewConn(p, outbound).peer = p /\ NewConn(p, outbound).handler
      /\ NewConn(p, outbound).outbound = outbound
  <2>1. NewConn(p, outbound) \in Conn
    BY DEF NewConn, Conn
  <2> QED BY <2>1 DEF NewConn
<1>5. conns'[k] = NewConn(p, outbound) /\ conns[k] = NoConn /\ k \in Slot
      /\ \A j \in Slot : j # k => conns'[j] = conns[j]
  BY <1>2, <1>3 DEF Used
<1>6. conns' \in [Slot -> Conn \cup {NoConn}]
  BY <1>1, <1>3, <1>4, <1>5
<1>7. peerConns'[p] = k /\ \A q \in Peer : q # p => peerConns'[q] = peerConns[q]
  BY <1>1, <1>3
<1>8. TableTypeOK'
  BY <1>1, <1>3, <1>5, <1>6 DEF TableTypeOK
<1>9. \A q \in Peer : peerConns[q] # k
  BY <1>5 DEF TableInv, OwnSlot, Used
<1>10. OwnSlot'
  BY <1>1, <1>4, <1>5, <1>7, <1>9 DEF TableInv, OwnSlot, Used
<1>11. \A j \in Used' : conns'[j].handler <=> peerConns'[conns'[j].peer] = j
  <2>1. ASSUME NEW j \in Used', j # k PROVE conns'[j].handler <=> peerConns'[conns'[j].peer] = j
    <3>1. j \in Used /\ j \in Slot /\ conns'[j] = conns[j] /\ conns[j].peer \in Peer /\ j # NoConn
      BY <1>1, <1>5, <2>1 DEF Used, Conn
    <3>2. conns[j].handler <=> peerConns[conns[j].peer] = j
      BY <3>1 DEF TableInv, TableIsExact
    <3>3. CASE conns[j].peer = p
      BY <1>7, <2>1, <3>1, <3>2, <3>3
    <3>4. CASE conns[j].peer # p
      BY <1>7, <3>1, <3>2, <3>4
    <3> QED BY <3>3, <3>4
  <2> QED BY <2>1, <1>4, <1>5, <1>7
<1>12. Registered' = Registered \cup {k} /\ k \notin Registered
       /\ \A j \in Registered : conns'[j] = conns[j]
  <2>1. k # NoConn
    BY <1>5
  <2>2. \A q \in Peer : peerConns'[q] = IF q = p THEN k ELSE peerConns[q]
    BY <1>7
  <2>3. \A j \in Registered : j \in Slot /\ j # k
    BY <1>1, <1>9 DEF Registered
  <2>4. Registered' = Registered \cup {k}
    BY <2>1, <2>2 DEF Registered
  <2> QED BY <1>5, <2>3, <2>4
<1>13. /\ CountOfOutboundConn' = IF outbound THEN CountOfOutboundConn + 1 ELSE CountOfOutboundConn
       /\ CountOfInboundConn' = IF outbound THEN CountOfInboundConn ELSE CountOfInboundConn + 1
  <2> DEFINE Out == {j \in Registered : conns[j].outbound}
             In == {j \in Registered : ~conns[j].outbound}
  <2>1. /\ Out' = IF outbound THEN Out \cup {k} ELSE Out
        /\ In' = IF outbound THEN In ELSE In \cup {k}
        /\ k \notin Out /\ k \notin In
    BY <1>4, <1>5, <1>12
  <2>2. IsFiniteSet(Out) /\ IsFiniteSet(In)
    BY <1>1, TableIsFinite, FS_Subset
  <2> HIDE DEF Out, In
  <2>3. Cardinality(Out \cup {k}) = Cardinality(Out) + 1 /\ Cardinality(In \cup {k}) = Cardinality(In) + 1
    BY <2>1, <2>2, FS_AddElement
  <2>4. Cardinality(Out') = (IF outbound THEN Cardinality(Out) + 1 ELSE Cardinality(Out))
        /\ Cardinality(In') = (IF outbound THEN Cardinality(In) ELSE Cardinality(In) + 1)
    BY <2>1, <2>3
  <2> QED BY <2>4 DEF CountOfOutboundConn, CountOfInboundConn, Out, In
<1>14. CountOfOutboundConn \in Nat /\ CountOfInboundConn \in Nat /\ MaxOutPeers \in Nat /\ MaxInPeers \in Nat
  BY <1>1, TableIsFinite
<1>15. TableIsExact'
  BY <1>10, <1>11, <1>13, <1>14 DEF TableInv, TableIsExact, OwnSlot
<1> QED BY <1>8, <1>10, <1>15 DEF TableInv

\* processConn, for a dial and for a stream that arrived.
LEMMA ProcessConnKeepsTable ==
    ASSUME TableInv, (\E d \in dials : handleConn(d)) \/ (\E p \in Peer : handleStream(p))
    PROVE  TableInv'
<1>1. TableTypeOK /\ \A k \in Slot : conns[k] # NoConn => conns[k] \in Conn
  BY DEF TableInv, TableTypeOK
<1>2. ASSUME NEW d \in dials, handleConn(d) PROVE TableInv'
  <2>1. d.peer \in Peer \cup {Self} /\ (d.peer = Self => d.retry = Direct) /\ dials' = dials \ {d}
    BY <1>1, <1>2 DEF TableTypeOK, handleConn
  <2>2. \A e \in dials' : e.peer \in Peer \cup {Self} /\ (e.peer = Self => e.retry = Direct)
    BY <1>1, <2>1 DEF TableTypeOK
  <2>3. CASE MayDial(d.peer) /\ SetPeerConn(d.peer, TRUE) /\ UNCHANGED timers
    <3>1. d.peer \in Peer /\ peerConns[d.peer] = NoConn
          /\ ~(CountOfOutboundConn >= MaxOutPeers /\ MaxOutPeers > 0)
      BY <2>1, <2>3 DEF MayDial
    <3>2. \A t \in timers' : t.peer \in Peer
      BY <1>1, <2>3 DEF TableTypeOK
    <3> QED BY <2>2, <2>3, <3>1, <3>2, RegisterKeepsTable
  <2>4. CASE timers' = timers \cup Unanswered(d) /\ UNCHANGED <<conns, peerConns>>
    <3>1. \A t \in Unanswered(d) : t.peer \in Peer
      BY <2>1 DEF Unanswered
    <3>2. TableTypeOK'
      BY <1>1, <2>2, <2>4, <3>1 DEF TableTypeOK
    <3> QED BY <2>4, <3>2, TableUntouched
  <2> QED BY <1>2, <2>3, <2>4 DEF handleConn
<1>3. ASSUME NEW p \in Peer, handleStream(p) PROVE TableInv'
  <2>1. /\ peerConns[p] = NoConn /\ ~(CountOfInboundConn >= MaxInPeers /\ MaxInPeers > 0)
        /\ SetPeerConn(p, FALSE) /\ UNCHANGED <<dials, timers>>
    BY <1>3 DEF handleStream, MayAccept
  <2> QED BY <1>1, <2>1, RegisterKeepsTable DEF TableTypeOK
<1> QED BY <1>2, <1>3

\* The timers of retries, the chains that elect committees, and the start.
LEMMA OthersKeepTable ==
    ASSUME TableInv,
           \/ \E t \in timers : retryPeerConnection(t)
           \/ \E c \in Committees : UpdateConsensusState(c)
           \/ Start
           \/ UNCHANGED connVars
    PROVE  TableInv'
<1>1. TableTypeOK /\ UNCHANGED <<conns, peerConns>>
  BY DEF TableInv, retryPeerConnection, UpdateConsensusState, Start, connVars
<1>2. Self \notin Peer /\ (\A t \in timers' : t \in timers)
  BY DEF retryPeerConnection, UpdateConsensusState, Start, connVars
<1>3. \A d \in dials' : d.peer \in Peer \cup {Self} /\ (d.peer = Self => d.retry = Direct)
  BY <1>1 DEF TableTypeOK, retryPeerConnection, UpdateConsensusState, Start, connVars
<1>4. TableTypeOK'
  BY <1>1, <1>2, <1>3 DEF TableTypeOK
<1> QED BY <1>1, <1>4, TableUntouched

-----------------------------------------------------------------------------
\* Every step of the node, its goroutines and its environment keeps the table.
LEMMA NextTableInv == TableInv /\ [ConnNext]_connVars => TableInv'
<1> SUFFICES ASSUME TableInv, [ConnNext]_connVars PROVE TableInv'
  OBVIOUS
<1>1. CASE DiscoverPeers
  BY <1>1, DiscoveryKeepsTable
<1>2. CASE Crash
  BY <1>2, EndKeepsTable DEF Crash
<1>3. CASE (\E d \in dials : handleConn(d)) \/ (\E p \in Peer : handleStream(p))
  BY <1>3, ProcessConnKeepsTable
<1>4. CASE \/ \E t \in timers : retryPeerConnection(t)
           \/ \E c \in Committees : UpdateConsensusState(c)
           \/ Start
           \/ UNCHANGED connVars
  BY <1>4, OthersKeepTable
<1>5. ASSUME NEW k \in Slot, InMessageHandler(k) \/ OutMessageHandler(k) \/ RemoteGone(k)
      PROVE  TableInv'
  BY <1>5, GoroutinesKeepTable
<1>6. ASSUME NEW k \in Slot, RemovePeerConn(k) PROVE TableInv'
  BY <1>6, RemoveKeepsTable
<1>7. ASSUME NEW k \in Slot, NEW key \in {"signed", "unsigned", "unverified"}, OnVersion(k, key)
      PROVE  TableInv'
  BY <1>7, VersionKeepsTable
<1> QED BY <1>1, <1>2, <1>3, <1>4, <1>5, <1>6, <1>7 DEF ConnNext

\* A connection is in the table of the listener exactly as long as its handler
\* serves it, and neither limit is exceeded, whatever dials, streams, retries,
\* rounds of discovery, handshakes, closes and crashes overlap, for any peers,
\* committees, limits and number of connections.
THEOREM TableListsServedConnections == ConnSpec => []TableIsExact
<1>1. TableInv => TableIsExact
  BY DEF TableInv
<1> QED BY <1>1, InitTableInv, NextTableInv, PTL DEF ConnSpec

-----------------------------------------------------------------------------
\* Rewards of beacon blocks.

\* Instructions that pay nothing.
Silent(q) == q \in Seq(ToSet(q)) /\ \A i \in DOMAIN q : q[i].act # "salary"

\* The instructions of the beacon block of height h end with its reward, and
\* pay nothing else.
RewardBlock(b, h) ==
  LET p == SubSeq(b, 1, Len(b) - 1) IN b = Append(p, Salary(h)) /\ Silent(p)

\* A sequence is one of its own elements.
LEMMA SequenceOfItsElements ==
  ASSUME NEW X, NEW q \in Seq(X)
  PROVE  q \in Seq(ToSet(q)) /\ ToSet(q) \subseteq X
<1>1. q \in [1..Len(q) -> X] /\ Len(q) \in Nat /\ DOMAIN q = 1..Len(q)
  OBVIOUS
<1>2. ToSet(q) = {q[i] : i \in 1..Len(q)}
  BY <1>1 DEF ToSet
<1>3. q \in [1..Len(q) -> ToSet(q)]
  BY <1>1, <1>2
<1>4. ToSet(q) \subseteq X
  BY <1>1, <1>2
<1> HIDE DEF ToSet
<1>5. q \in Seq(ToSet(q))
  BY <1>1, <1>3
<1> QED BY <1>4, <1>5

\* They are instructions that pay nothing if no element of theirs does.
LEMMA SilentIntro ==
  ASSUME NEW X, NEW q \in Seq(X), \A x \in X : x.act # "salary"
  PROVE  Silent(q)
<1>1. q \in Seq(ToSet(q))
  BY SequenceOfItsElements
<1>2. \A i \in DOMAIN q : q[i] \in X
  OBVIOUS
<1> QED BY <1>1, <1>2 DEF Silent

\* Their elements pay nothing.
LEMMA SilentElements ==
  ASSUME NEW q, Silent(q)
  PROVE  q \in Seq(ToSet(q)) /\ \A x \in ToSet(q) : x.act # "salary"
  BY DEF Silent, ToSet

\* No instruction pays nothing.
LEMMA SilentNothing == Silent(<<>>)
<1>1. <<>> \in Seq(ToSet(<<>>))
  OBVIOUS
<1>2. \A i \in DOMAIN <<>> : <<>>[i].act # "salary"
  OBVIOUS
<1> QED BY <1>1, <1>2 DEF Silent

\* Two such sequences one after the other pay nothing.
LEMMA SilentConcat ==
  ASSUME NEW a, Silent(a), NEW b, Silent(b)
  PROVE  Silent(a \o b)
<1> DEFINE X == ToSet(a) \cup ToSet(b)
<1>1. a \in Seq(ToSet(a)) /\ b \in Seq(ToSet(b))
  BY SilentElements
<1>2. \A x \in X : x.act # "salary"
  BY SilentElements
<1>3. a \in Seq(X) /\ b \in Seq(X)
  BY <1>1, SeqMonotonic
<1> HIDE DEF X
<1>4. a \o b \in Seq(X)
  BY <1>3
<1> QED BY <1>2, <1>4, SilentIntro

\* Nor do many.
LEMMA SilentFlatten ==
  ASSUME NEW n \in Nat, NEW ss, ss = [i \in 1..n |-> ss[i]], \A i \in 1..n : Silent(ss[i])
  PROVE  Silent(FlattenSeq(ss))
<1> DEFINE X == UNION {ToSet(ss[i]) : i \in 1..n}
<1>1. \A x \in X : x.act # "salary"
  BY SilentElements
<1>2. ASSUME NEW i \in 1..n PROVE ss[i] \in Seq(X)
  <2>1. ToSet(ss[i]) \subseteq X
    OBVIOUS
  <2>2. ss[i] \in Seq(ToSet(ss[i]))
    BY SilentElements
  <2> HIDE DEF X
  <2> QED BY <2>1, <2>2, SeqMonotonic
<1> HIDE DEF X
<1>3. ss \in Seq(Seq(X))
  <2>1. ss \in [1..n -> Seq(X)]
    BY <1>2
  <2> QED BY <2>1
<1>4. FlattenSeq(ss) \in Seq(X)
  BY <1>3, FlattenType
<1> QED BY <1>1, <1>4, SilentIntro

-----------------------------------------------------------------------------
\* The rewards that a sequence of instructions names, one by one.
SalaryMap(s, q) ==
  [i \in DOMAIN q |-> IF q[i].act = "salary" /\ q[i].shard = s THEN <<q[i].height>> ELSE <<>>]

\* The rewards of two sequences of instructions are paid one after the other.
LEMMA SalariesConcat ==
  ASSUME NEW s, NEW X, NEW a \in Seq(X), NEW b \in Seq(X)
  PROVE  Salaries(s, a \o b) = Salaries(s, a) \o Salaries(s, b)
<1> DEFINE Y == {x.height : x \in X}
           F == [x \in X |-> IF x.act = "salary" /\ x.shard = s THEN <<x.height>> ELSE <<>>]
<1>1. F \in [X -> Seq(Y)]
  <2>1. ASSUME NEW x \in X PROVE <<x.height>> \in Seq(Y) /\ <<>> \in Seq(Y)
    <3>1. x.height \in Y
      OBVIOUS
    <3> HIDE DEF Y
    <3> QED BY <3>1
  <2> HIDE DEF Y
  <2> QED BY <2>1
<1>2. ASSUME NEW q \in Seq(X) PROVE Salaries(s, q) = FlattenSeq(Mapped(F, q))
  <2>1. \A i \in DOMAIN q : q[i] \in X
    OBVIOUS
  <2>2. Mapped(F, q) = [i \in DOMAIN q |-> IF q[i].act = "salary" /\ q[i].shard = s THEN <<q[i].height>> ELSE <<>>]
    BY <2>1 DEF Mapped
  <2> QED BY <2>2 DEF Salaries
<1> HIDE DEF F, Y
<1>3. FlattenSeq(Mapped(F, a \o b)) = FlattenSeq(Mapped(F, a)) \o FlattenSeq(Mapped(F, b))
  <2>1. OneAfterTheOther(F, a, b)
    BY <1>1, MappedConcat, Zenon
  <2> QED BY <2>1, Zenon DEF OneAfterTheOther
<1>4. a \o b \in Seq(X)
  OBVIOUS
<1> QED BY <1>2, <1>3, <1>4

\* Instructions that pay nothing pay no reward.
LEMMA SalariesSilent ==
  ASSUME NEW s, NEW q, Silent(q)
  PROVE  Salaries(s, q) = <<>>
<1>1. q \in Seq(ToSet(q)) /\ \A i \in DOMAIN q : q[i].act # "salary"
  BY DEF Silent
<1>2. DOMAIN q = 1..Len(q) /\ Len(q) \in Nat
  BY <1>1
<1>3. SalaryMap(s, q) = [i \in 1..Len(q) |-> <<>>]
  BY <1>1, <1>2 DEF SalaryMap
<1>4. [i \in 1..Len(q) |-> <<>>] \in Seq(Seq({}))
  <2>1. <<>> \in Seq({})
    OBVIOUS
  <2>2. [i \in 1..Len(q) |-> <<>>] \in [1..Len(q) -> Seq({})]
    BY <2>1
  <2> QED BY <1>2, <2>2
<1>5. FlattenSeq(SalaryMap(s, q)) \in Seq({})
  BY <1>3, <1>4, FlattenType
<1>6. \A t \in Seq({}) : t = <<>>
  OBVIOUS
<1> QED BY <1>5, <1>6 DEF Salaries, SalaryMap
\* It is at most one height.
LEMMA RewardDueType ==
  ASSUME NEW s, NEW h
  PROVE  RewardDue(s, h) \in Seq({h})
<1>1. <<h>> \in Seq({h}) /\ <<>> \in Seq({h})
  OBVIOUS
<1> QED BY <1>1 DEF RewardDue

\* The reward of a single instruction.
LEMMA SalariesOne ==
  ASSUME NEW s, NEW h
  PROVE  Salaries(s, <<Salary(h)>>) = RewardDue(s, h)
<1> DEFINE q == <<Salary(h)>>
           d == RewardDue(s, h)
<1>1. DOMAIN q = 1..1 /\ q[1] = Salary(h)
  OBVIOUS
<1>2. /\ Salary(h).act = "salary" /\ Salary(h).height = h /\ Salary(h).shard = PayTo[h]
  BY DEF Salary
<1> HIDE DEF q
<1>3. SalaryMap(s, q) = [i \in 1..1 |-> d]
  BY <1>1, <1>2 DEF SalaryMap, RewardDue
<1>4. d \in Seq({h})
  BY RewardDueType
<1>5. [i \in 1..1 |-> d] = <<d>>
  <2> HIDE DEF d
  <2> QED OBVIOUS
<1> HIDE DEF d
<1>6. FlattenSeq(<<d>>) = d
  BY <1>4, FlattenOne
<1>7. Salaries(s, q) = FlattenSeq(SalaryMap(s, q))
  BY DEF Salaries, SalaryMap
<1>8. Salaries(s, q) = d
  BY <1>3, <1>5, <1>6, <1>7
<1> QED BY <1>8 DEF q, d

\* The instructions of a beacon block pay its reward.
LEMMA SalariesBlock ==
  ASSUME NEW s, NEW h, NEW b, RewardBlock(b, h)
  PROVE  Salaries(s, b) = RewardDue(s, h) /\ b \in Seq(ToSet(b))
<1> DEFINE p == SubSeq(b, 1, Len(b) - 1)
           w == Salary(h)
<1>1. b = Append(p, w) /\ Silent(p)
  BY DEF RewardBlock
<1>2. p \in Seq(ToSet(p))
  BY <1>1, SilentElements
<1> HIDE DEF p
<1> DEFINE X == ToSet(p) \cup {w}
<1>3. p \in Seq(X)
  <2>1. ToSet(p) \subseteq X
    OBVIOUS
  <2> HIDE DEF X
  <2> QED BY <1>2, <2>1, SeqMonotonic
<1>4. w \in X
  OBVIOUS
<1> HIDE DEF X, w
<1>5. <<w>> \in Seq(X) /\ b = p \o <<w>> /\ b \in Seq(X)
  BY <1>1, <1>3, <1>4
<1>6. Salaries(s, b) = Salaries(s, p) \o Salaries(s, <<w>>)
  BY <1>3, <1>5, SalariesConcat
<1>7. Salaries(s, p) = <<>>
  BY <1>1, SalariesSilent
<1>8. Salaries(s, <<w>>) = RewardDue(s, h)
  BY SalariesOne DEF w
<1>9. RewardDue(s, h) \in Seq({h})
  BY RewardDueType
<1>10. <<>> \o RewardDue(s, h) = RewardDue(s, h)
  BY <1>9
<1>11. b \in Seq(ToSet(b))
  BY <1>5, SequenceOfItsElements
<1> QED BY <1>6, <1>7, <1>8, <1>10, <1>11

\* The n beacon blocks above height lo, and what shard s has to pay for them.
BlocksAbove(bb, lo, n) ==
  bb = [j \in 1..n |-> bb[j]] /\ \A j \in 1..n : RewardBlock(bb[j], lo + j)
DuesAbove(s, lo, n) == FlattenSeq([j \in 1..n |-> RewardDue(s, lo + j)])

\* Their instructions pay that.
LEMMA SalariesOfBlocks ==
  ASSUME NEW s, NEW lo, NEW n \in Nat, NEW bb, BlocksAbove(bb, lo, n)
  PROVE  Salaries(s, FlattenSeq(bb)) = DuesAbove(s, lo, n)
<1> DEFINE X == UNION {ToSet(bb[j]) : j \in 1..n}
           H == {lo + j : j \in 1..n}
           dues == [j \in 1..n |-> RewardDue(s, lo + j)]
<1>0. bb = [j \in 1..n |-> bb[j]] /\ \A j \in 1..n : RewardBlock(bb[j], lo + j)
  BY DEF BlocksAbove
<1>1. ASSUME NEW j \in 1..n PROVE bb[j] \in Seq(X)
  <2>1. ToSet(bb[j]) \subseteq X
    OBVIOUS
  <2>2. bb[j] \in Seq(ToSet(bb[j]))
    BY <1>0, SalariesBlock
  <2> HIDE DEF X
  <2> QED BY <2>1, <2>2, SeqMonotonic
<1>2. ASSUME NEW j \in 1..n PROVE dues[j] \in Seq(H) /\ dues[j] = RewardDue(s, lo + j)
  <2>1. dues[j] = RewardDue(s, lo + j) /\ lo + j \in H
    OBVIOUS
  <2> HIDE DEF dues, H
  <2> QED BY <2>1 DEF RewardDue
<1>3. dues \in [1..n -> Seq(H)]
  BY <1>2
<1> HIDE DEF X, H, dues
<1>4. bb \in [1..n -> Seq(X)]
  BY <1>0, <1>1
<1>5. PICK g : Flattens(g, X, n, bb)
  BY <1>1, FlattensExists DEF CanFlatten
<1>6. PICK k : Flattens(k, H, n, dues)
  BY <1>2, FlattensExists DEF CanFlatten
<1> DEFINE G == {j \in 0..n : Salaries(s, g[j]) = k[j]}
<1>7. 0 \in G
  <2>1. g[0] = <<>> /\ k[0] = <<>>
    BY <1>5, <1>6 DEF Flattens
  <2>2. Silent(<<>>)
    BY SilentNothing
  <2>3. Salaries(s, <<>>) = <<>>
    BY <2>2, SalariesSilent
  <2> QED BY <2>1, <2>3
<1>8. ASSUME NEW j \in 1..n, j - 1 \in G PROVE j \in G
  <2>1. g[j] = g[j - 1] \o bb[j] /\ k[j] = k[j - 1] \o dues[j]
    BY <1>5, <1>6 DEF Flattens
  <2>2. g[j - 1] \in Seq(X) /\ bb[j] \in Seq(X)
    <3>1. j - 1 \in 0..n
      OBVIOUS
    <3>2. g \in [0..n -> Seq(X)]
      BY <1>5 DEF Flattens
    <3> HIDE DEF G
    <3> QED BY <1>4, <3>1, <3>2
  <2>3. Salaries(s, g[j - 1] \o bb[j]) = Salaries(s, g[j - 1]) \o Salaries(s, bb[j])
    <3> HIDE DEF G
    <3> QED BY <2>2, SalariesConcat
  <2>4. Salaries(s, bb[j]) = dues[j]
    BY <1>0, <1>2, SalariesBlock
  <2>5. Salaries(s, g[j - 1]) = k[j - 1]
    BY <1>8
  <2> HIDE DEF G
  <2>6. Salaries(s, g[j]) = k[j]
    BY <2>1, <2>3, <2>4, <2>5
  <2> QED BY <2>6 DEF G
<1>9. 0..n \subseteq G
  <2> HIDE DEF G
  <2> QED BY <1>7, <1>8, AllUpTo, Zenon
<1>10. Salaries(s, g[n]) = k[n]
  BY <1>9
<1>11. FlattenSeq(bb) = g[n] /\ FlattenSeq(dues) = k[n]
  BY <1>3, <1>4, <1>5, <1>6, FlattenIs
<1> QED BY <1>10, <1>11 DEF dues, DuesAbove

\* The rewards up to height lo and those of the n blocks above are the rewards
\* up to height lo + n.
LEMMA DuesConcat ==
  ASSUME NEW s, NEW lo \in Nat \ {0}, NEW n \in Nat
  PROVE  FlattenSeq([i \in 1..(lo - 1) |-> RewardDue(s, i + 1)])
           \o DuesAbove(s, lo, n)
         = FlattenSeq([i \in 1..(lo + n - 1) |-> RewardDue(s, i + 1)])
<1> DEFINE a == [i \in 1..(lo - 1) |-> RewardDue(s, i + 1)]
           b == [j \in 1..n |-> RewardDue(s, lo + j)]
           c == [i \in 1..(lo + n - 1) |-> RewardDue(s, i + 1)]
           S == Seq(Nat)
<1>1. \A h \in Nat : RewardDue(s, h) \in S
  BY DEF RewardDue
<1> HIDE DEF S
<1>2. a \in [1..(lo - 1) -> S] /\ b \in [1..n -> S] /\ c \in [1..(lo + n - 1) -> S]
  BY <1>1
<1>3. /\ \A i \in 1..(lo - 1) : a[i] = RewardDue(s, i + 1)
      /\ \A i \in 1..n : b[i] = RewardDue(s, lo + i)
      /\ \A i \in 1..(lo + n - 1) : c[i] = RewardDue(s, i + 1)
  OBVIOUS
<1> HIDE DEF a, b, c
<1>4. a \in Seq(S) /\ b \in Seq(S) /\ c \in Seq(S) /\ Len(a) = lo - 1 /\ Len(b) = n /\ Len(c) = lo + n - 1
  <2>1. lo - 1 \in Nat /\ lo + n - 1 \in Nat
    OBVIOUS
  <2>2. a \in Seq(S) /\ Len(a) = lo - 1
    BY <1>2, <2>1
  <2>3. b \in Seq(S) /\ Len(b) = n
    BY <1>2
  <2>4. c \in Seq(S) /\ Len(c) = lo + n - 1
    <3> DEFINE m == lo + n - 1
    <3>1. m \in Nat /\ c \in [1..m -> S]
      BY <1>2, <2>1
    <3> HIDE DEF m
    <3>2. c \in Seq(S) /\ Len(c) = m
      BY <3>1
    <3> QED BY <3>2 DEF m
  <2> QED BY <2>2, <2>3, <2>4
<1> DEFINE d == a \o b
<1>5. /\ d \in Seq(S) /\ Len(d) = lo + n - 1
      /\ \A i \in 1..Len(d) : d[i] = IF i <= lo - 1 THEN a[i] ELSE b[i - (lo - 1)]
  <2>1. a \in Seq(S) /\ b \in Seq(S)
    BY <1>4
  <2>2. /\ d \in Seq(S) /\ Len(d) = Len(a) + Len(b)
        /\ \A i \in 1..Len(d) : d[i] = IF i <= Len(a) THEN a[i] ELSE b[i - Len(a)]
    BY <2>1
  <2> HIDE DEF d
  <2> QED BY <1>4, <2>2
<1> HIDE DEF d
<1>6. ASSUME NEW i \in 1..Len(d) PROVE d[i] = c[i]
  <2>1. i \in 1..(lo + n - 1)
    BY <1>5
  <2>2. CASE i <= lo - 1
    BY <1>3, <1>5, <2>1, <2>2
  <2>3. CASE ~(i <= lo - 1)
    <3>1. i - (lo - 1) \in 1..n /\ lo + (i - (lo - 1)) = i + 1
      BY <2>1, <2>3
    <3> QED BY <1>3, <1>5, <2>1, <2>3, <3>1
  <2> QED BY <2>2, <2>3
<1>7. d = c
  BY <1>4, <1>5, <1>6, SeqEqual
<1>8. FlattenSeq(d) = FlattenSeq(a) \o FlattenSeq(b)
  BY <1>4, FlattenConcat DEF S, d
<1> QED BY <1>7, <1>8 DEF a, b, c, DuesAbove

-----------------------------------------------------------------------------
\* The height of the best state.

\* The instructions of a block change neither height nor bestShard.
Keeps(b, c) ==
  /\ "height" \in DOMAIN c /\ "bestShard" \in DOMAIN c
  /\ c.height = b.height /\ c.bestShard = b.bestShard

\* ApplyInstruction keeps them.
LEMMA ApplyInstructionKeeps ==
  ASSUME NEW b, NEW l, Keeps(b, b)
  PROVE  Keeps(b, ApplyInstruction(b, l))
<1>1. Keeps(b, ApplySwap(b, l))
  BY DEF Keeps, ApplySwap
<1>2. Keeps(b, [b EXCEPT !.shardNext = @ \o l.keys]) /\ Keeps(b, [b EXCEPT !.beaconNext = @ \o l.keys])
  BY DEF Keeps
<1>3. CASE ~b.ok
  BY <1>3 DEF ApplyInstruction
<1>4. CASE b.ok /\ l.act = "swap"
  <2>1. ApplyInstruction(b, l) = ApplySwap(b, l)
    BY <1>4 DEF ApplyInstruction
  <2> QED BY <1>1, <2>1
<1>5. CASE b.ok /\ l.act = "stake"
  <2>1. ApplyInstruction(b, l) = IF l.kind = "shard" THEN [b EXCEPT !.shardNext = @ \o l.keys]
                                                    ELSE [b EXCEPT !.beaconNext = @ \o l.keys]
    BY <1>5 DEF ApplyInstruction
  <2> QED BY <1>2, <2>1
<1>6. CASE b.ok /\ l.act # "swap" /\ l.act # "stake"
  BY <1>6 DEF ApplyInstruction
<1> QED BY <1>3, <1>4, <1>5, <1>6

\* The function f applies the first instructions of a block one by one.
Applied(f, b, insts, i) == IF i = 0 THEN b ELSE ApplyInstruction(f[i - 1], insts[i])
Applies(f, b, insts, n) == f = [i \in 0..n |-> Applied(f, b, insts, i)]
CanApply(b, insts, n) == \E f : Applies(f, b, insts, n)

\* The instructions can be applied one by one.
LEMMA AppliesExists ==
  ASSUME NEW b, NEW insts, NEW n \in Nat
  PROVE  CanApply(b, insts, n)
<1> DEFINE G == {i \in 0..n : CanApply(b, insts, i)}
<1>1. 0 \in G
  <2> DEFINE f == [i \in 0..0 |-> b]
  <2>1. ASSUME NEW i \in 0..0 PROVE f[i] = Applied(f, b, insts, i)
    BY DEF Applied
  <2>2. f = [i \in 0..0 |-> f[i]]
    OBVIOUS
  <2> HIDE DEF f
  <2>3. Applies(f, b, insts, 0)
    BY <2>1, <2>2 DEF Applies
  <2> QED BY <2>3 DEF CanApply
<1>2. ASSUME NEW m \in 1..n, m - 1 \in G PROVE m \in G
  <2>1. PICK f : Applies(f, b, insts, m - 1)
    BY <1>2 DEF CanApply
  <2>2. \A i \in 0..(m - 1) : f[i] = Applied(f, b, insts, i)
    BY <2>1 DEF Applies
  <2> DEFINE r == ApplyInstruction(f[m - 1], insts[m])
             e == [i \in 0..m |-> IF i = m THEN r ELSE f[i]]
  <2>3. e[m] = r /\ \A i \in 0..(m - 1) : e[i] = f[i]
    OBVIOUS
  <2>4. e = [i \in 0..m |-> e[i]]
    OBVIOUS
  <2> HIDE DEF e
  <2>5. ASSUME NEW i \in 0..m PROVE e[i] = Applied(e, b, insts, i)
    <3>1. CASE i = m
      <4>1. m - 1 \in 0..(m - 1) /\ m # 0
        OBVIOUS
      <4>2. e[m - 1] = f[m - 1]
        BY <2>3, <4>1
      <4> QED BY <2>3, <3>1, <4>1, <4>2, Zenon DEF Applied
    <3>2. CASE i # m /\ i # 0
      <4>1. i \in 0..(m - 1) /\ i - 1 \in 0..(m - 1)
        BY <3>2
      <4>2. e[i] = f[i] /\ e[i - 1] = f[i - 1]
        BY <2>3, <4>1
      <4>3. Applied(e, b, insts, i) = Applied(f, b, insts, i)
        BY <4>2 DEF Applied
      <4> QED BY <2>2, <4>1, <4>2, <4>3
    <3>3. CASE i # m /\ i = 0
      <4>1. i \in 0..(m - 1)
        BY <3>3
      <4> QED BY <2>2, <2>3, <3>3, <4>1 DEF Applied
    <3> QED BY <3>1, <3>2, <3>3
  <2>6. Applies(e, b, insts, m)
    BY <2>4, <2>5 DEF Applies
  <2>7. CanApply(b, insts, m)
    BY <2>6 DEF CanApply
  <2> QED BY <2>7
<1>3. 0..n \subseteq G
  <2> HIDE DEF G
  <2> QED BY <1>1, <1>2, AllUpTo, Zenon
<1> QED BY <1>3

\* All of them keep height and bestShard.
LEMMA ApplyInstructionsKeeps ==
  ASSUME NEW b, NEW X, NEW insts \in Seq(X), Keeps(b, b)
  PROVE  Keeps(b, ApplyInstructions(b, insts))
<1> DEFINE n == Len(insts)
           upTo == CHOOSE f : f = [i \in 0..n |-> Applied(f, b, insts, i)]
           G == {i \in 0..n : Keeps(b, upTo[i])}
<1>1. n \in Nat
  OBVIOUS
<1>2. ApplyInstructions(b, insts) = upTo[n]
  BY DEF ApplyInstructions, Applied
<1> HIDE DEF n
<1>3. upTo = [i \in 0..n |-> Applied(upTo, b, insts, i)]
  <2>1. \E f : f = [i \in 0..n |-> Applied(f, b, insts, i)]
    <3>1. CanApply(b, insts, n)
      BY <1>1, AppliesExists
    <3> QED BY <3>1, Zenon DEF CanApply, Applies
  <2> QED BY <2>1, Zenon
<1> HIDE DEF upTo
<1>4. \A i \in 0..n : upTo[i] = Applied(upTo, b, insts, i)
  BY <1>3
<1>5. 0 \in G
  <2>1. 0 \in 0..n
    BY <1>1
  <2>2. upTo[0] = b
    BY <1>4, <2>1 DEF Applied
  <2> QED BY <2>1, <2>2
<1>6. ASSUME NEW i \in 1..n, i - 1 \in G PROVE i \in G
  <2>1. i \in 0..n /\ i # 0
    BY <1>1
  <2>2. upTo[i] = ApplyInstruction(upTo[i - 1], insts[i])
    BY <1>4, <2>1 DEF Applied
  <2>3. Keeps(b, upTo[i - 1])
    BY <1>6
  <2>4. Keeps(upTo[i - 1], upTo[i - 1])
    BY <2>3 DEF Keeps
  <2>5. Keeps(upTo[i - 1], upTo[i])
    <3> HIDE DEF G
    <3> QED BY <2>2, <2>4, ApplyInstructionKeeps
  <2>6. Keeps(b, upTo[i])
    BY <2>3, <2>5 DEF Keeps
  <2> QED BY <2>1, <2>6
<1>7. 0..n \subseteq G
  <2> HIDE DEF G
  <2> QED BY <1>1, <1>5, <1>6, AllUpTo, Zenon
<1>8. Keeps(b, upTo[n])
  BY <1>1, <1>7
<1> QED BY <1>2, <1>8

\* Update goes to the next height, and takes the shard heights of the block.
LEMMA UpdateHeight ==
  ASSUME NEW b, NEW heights, NEW X, NEW insts \in Seq(X), NEW shuffled,
         Keeps(b, b), b.height \in Nat
  PROVE  LET c == Update(b, heights, insts, shuffled)
         IN  Keeps(c, c) /\ c.height = b.height + 1 /\ c.bestShard = heights
<1> DEFINE taken == [b EXCEPT !.height = @ + 1, !.bestShard = heights]
           applied == ApplyInstructions(taken, insts)
           h == applied.height % EPOCH
           c == Update(b, heights, insts, shuffled)
<1>1. Keeps(taken, taken) /\ taken.height = b.height + 1 /\ taken.bestShard = heights
  BY DEF Keeps
<1> HIDE DEF taken
<1>2. Keeps(taken, applied)
  BY <1>1, ApplyInstructionsKeeps
<1>3. c = CASE ~applied.ok -> applied
          [] applied.ok /\ h = 1 -> [applied EXCEPT !.gotRandom = FALSE]
          [] applied.ok /\ h # 1 /\ h < RANDOM_TIME -> applied
          [] applied.ok /\ h >= RANDOM_TIME ->
                IF Random \in Range(insts) THEN AssignValidatorShard(Snapshot(applied), shuffled)
                                           ELSE Snapshot(applied)
  BY DEF Update, taken
<1> HIDE DEF applied
<1>4. EPOCH \in Nat \ {0} /\ applied.height \in Nat
  BY <1>1, <1>2, EpochAssumption DEF Keeps
<1>5. h \in Nat
  BY <1>4
<1> HIDE DEF h, c
<1> DEFINE d == Snapshot(applied)
<1>6. Keeps(taken, d)
  BY <1>2 DEF Keeps, Snapshot
<1> HIDE DEF d
<1>7. Keeps(taken, AssignValidatorShard(d, shuffled))
  BY <1>6 DEF Keeps, AssignValidatorShard
<1>8. Keeps(taken, [applied EXCEPT !.gotRandom = FALSE])
  BY <1>2 DEF Keeps
<1>9. Keeps(taken, c)
  <2>1. CASE ~applied.ok
    BY <1>2, <1>3, <2>1
  <2>2. CASE applied.ok /\ h = 1
    <3>1. ~(h >= RANDOM_TIME)
      BY <2>2, EpochAssumption
    <3>2. c = [applied EXCEPT !.gotRandom = FALSE]
      BY <1>3, <2>2, <3>1
    <3> QED BY <1>8, <3>2
  <2>3. CASE applied.ok /\ h # 1 /\ h < RANDOM_TIME
    <3>1. ~(h >= RANDOM_TIME)
      BY <1>5, <2>3, EpochAssumption
    <3>2. c = applied
      BY <1>3, <2>3, <3>1
    <3> QED BY <1>2, <3>2
  <2>4. CASE applied.ok /\ h >= RANDOM_TIME
    <3>1. h # 1 /\ ~(h < RANDOM_TIME)
      BY <1>5, <2>4, EpochAssumption
    <3>2. c = IF Random \in Range(insts) THEN AssignValidatorShard(d, shuffled) ELSE d
      BY <1>3, <2>4, <3>1 DEF d
    <3> QED BY <1>6, <1>7, <3>2
  <2>5. h < RANDOM_TIME \/ h >= RANDOM_TIME
    BY <1>5, EpochAssumption
  <2> QED BY <2>1, <2>2, <2>3, <2>4, <2>5
<1>10. Keeps(c, c) /\ c.height = b.height + 1 /\ c.bestShard = heights
  BY <1>1, <1>9 DEF Keeps
<1> QED BY <1>10 DEF c

\* A shard block refers to no beacon block above the one it was given, and its
\* epoch is a number.
LEMMA HeightAndEpochBound ==
  ASSUME NEW h \in Nat \ {0}, NEW e \in Nat, EpochOf(h) > e + 1
  PROVE  e * EPOCH \in Nat /\ e * EPOCH <= h
<1> DEFINE q == (h - 1) \div EPOCH
<1>1. EPOCH \in Nat \ {0} /\ h - 1 \in Nat
  BY EpochAssumption
<1>2. q \in Nat /\ q > e
  BY <1>1 DEF EpochOf
<1>3. q * EPOCH <= h - 1
  BY <1>1
<1> HIDE DEF q
<1>4. PICK d \in Nat : q = e + d
  <2>1. q - e \in Nat /\ q = e + (q - e)
    BY <1>2
  <2> QED BY <2>1
<1>5. q * EPOCH = e * EPOCH + d * EPOCH /\ d * EPOCH >= 0 /\ e * EPOCH \in Nat
  BY <1>1, <1>4
<1> QED BY <1>1, <1>3, <1>5

LEMMA EpochOfType ==
  ASSUME NEW h \in Nat \ {0}
  PROVE  EpochOf(h) \in Nat
<1>1. EPOCH \in Nat \ {0} /\ h - 1 \in Nat
  BY EpochAssumption
<1>2. (h - 1) \div EPOCH \in Nat
  BY <1>1
<1> QED BY <1>2 DEF EpochOf

\* A single instruction that is no reward pays nothing.
LEMMA SilentOne ==
  ASSUME NEW l, l.act # "salary"
  PROVE  Silent(<<l>>)
<1> DEFINE X == {l}
           q == <<l>>
<1>1. q \in Seq(X) /\ \A x \in X : x.act # "salary"
  OBVIOUS
<1> HIDE DEF X, q
<1>2. Silent(q)
  BY <1>1, SilentIntro
<1> QED BY <1>2 DEF q

\* The stakes that a beacon block takes over from a shard block pay nothing.
LEMMA ValidStakesSilent ==
  ASSUME NEW b, NEW blk
  PROVE  Silent(ValidStakes(b, blk))
<1> DEFINE valid(kind) == GetValidStakers(b, blk.stakes[kind])
           inst(kind, keys) == IF keys = <<>> THEN <<>>
                               ELSE <<Stake(keys, kind, [i \in DOMAIN keys |-> blk.txs[keys[i]]])>>
           more == Only(valid("beacon"), Range(valid("beacon")) \ Range(valid("shard")))
<1>1. ASSUME NEW kind, NEW keys PROVE Silent(inst(kind, keys))
  <2> DEFINE l == Stake(keys, kind, [i \in DOMAIN keys |-> blk.txs[keys[i]]])
  <2>1. l.act # "salary"
    BY DEF Stake
  <2> HIDE DEF l
  <2>2. Silent(<<l>>)
    BY <2>1, SilentOne
  <2>3. inst(kind, keys) = <<>> \/ inst(kind, keys) = <<l>>
    BY DEF l
  <2> HIDE DEF inst
  <2> QED BY <2>2, <2>3, SilentNothing
<1>2. ValidStakes(b, blk) = inst("shard", valid("shard")) \o inst("beacon", more)
  BY DEF ValidStakes
<1> HIDE DEF inst, valid, more
<1>3. Silent(inst("shard", valid("shard"))) /\ Silent(inst("beacon", more))
  BY <1>1
<1> QED BY <1>2, <1>3, SilentConcat

\* The instructions that a beacon block is made with, before its own reward is
\* added, pay nothing.
LEMMA GenerateInstructionSilent ==
  ASSUME NEW b, NEW h, NEW B, NEW blocks \in Seq(B), \A x \in B : Silent(x.swap)
  PROVE  Silent(GenerateInstruction(b, h, blocks))
<1> DEFINE swapsOf == [i \in DOMAIN blocks |-> blocks[i].swap]
           stakesOf == [i \in DOMAIN blocks |-> ValidStakes(b, blocks[i])]
           own == SwapValidator(b.BeaconPending, b.BeaconCommittee, Len(BeaconGenesis))
           beaconSwap == IF h % EPOCH = 0 /\ (own.in # <<>> \/ own.out # <<>>)
                         THEN <<Swap(own.in, own.out, "beacon", 0)>> ELSE <<>>
           assign(s) == IF AssignedTo(b.shardCurrent, s) = <<>> THEN <<>>
                        ELSE <<Assign(AssignedTo(b.shardCurrent, s), s)>>
           assignsOf == [i \in DOMAIN ShardSeq |-> assign(ShardSeq[i])]
           assigns == FlattenSeq(assignsOf)
           random == IF h % EPOCH > RANDOM_TIME /\ ~b.gotRandom THEN <<Random>> \o assigns ELSE <<>>
<1>1. DOMAIN blocks = 1..Len(blocks) /\ Len(blocks) \in Nat /\ \A i \in 1..Len(blocks) : blocks[i] \in B
  OBVIOUS
<1>2. Silent(FlattenSeq(swapsOf))
  <2>1. swapsOf = [i \in 1..Len(blocks) |-> swapsOf[i]]
    BY <1>1
  <2>2. \A i \in 1..Len(blocks) : Silent(swapsOf[i])
    BY <1>1
  <2> HIDE DEF swapsOf
  <2> QED BY <1>1, <2>1, <2>2, SilentFlatten
<1>3. Silent(FlattenSeq(stakesOf))
  <2>1. stakesOf = [i \in 1..Len(blocks) |-> stakesOf[i]]
    BY <1>1
  <2>2. \A i \in 1..Len(blocks) : Silent(stakesOf[i])
    BY <1>1, ValidStakesSilent
  <2> HIDE DEF stakesOf
  <2> QED BY <1>1, <2>1, <2>2, SilentFlatten
<1>4. Silent(beaconSwap)
  <2> DEFINE l == Swap(own.in, own.out, "beacon", 0)
  <2>1. l.act # "salary"
    BY DEF Swap
  <2>2. beaconSwap = <<>> \/ beaconSwap = <<l>>
    OBVIOUS
  <2> HIDE DEF l, beaconSwap
  <2> QED BY <2>1, <2>2, SilentOne, SilentNothing
<1>5. ASSUME NEW s PROVE Silent(assign(s))
  <2> DEFINE l == Assign(AssignedTo(b.shardCurrent, s), s)
  <2>1. l.act # "salary"
    BY DEF Assign
  <2>2. assign(s) = <<>> \/ assign(s) = <<l>>
    OBVIOUS
  <2> HIDE DEF l, assign
  <2> QED BY <2>1, <2>2, SilentOne, SilentNothing
<1>6. Silent(assigns)
  <2>1. DOMAIN ShardSeq = 1..ActiveShards /\ ActiveShards \in Nat
    BY ShardAssumption DEF ShardSeq
  <2> HIDE DEF assign
  <2>2. assignsOf = [i \in 1..ActiveShards |-> assignsOf[i]]
    BY <2>1
  <2>3. \A i \in 1..ActiveShards : Silent(assignsOf[i])
    BY <1>5, <2>1
  <2> HIDE DEF assignsOf
  <2> QED BY <2>1, <2>2, <2>3, SilentFlatten
<1>7. Silent(random)
  <2> DEFINE l == Random
  <2>1. l.act # "salary"
    BY DEF Random
  <2> HIDE DEF l
  <2>2. Silent(<<l>>)
    BY <2>1, SilentOne
  <2> HIDE DEF assigns
  <2>3. Silent(<<l>> \o assigns)
    BY <1>6, <2>2, SilentConcat
  <2>4. random = <<>> \/ random = <<l>> \o assigns
    BY DEF l
  <2> HIDE DEF random
  <2> QED BY <2>3, <2>4, SilentNothing
<1>8. GenerateInstruction(b, h, blocks) = ((FlattenSeq(swapsOf) \o beaconSwap) \o FlattenSeq(stakesOf)) \o random
  BY DEF GenerateInstruction
<1> DEFINE u == FlattenSeq(swapsOf)
           v == FlattenSeq(stakesOf)
<1>9. Silent(u) /\ Silent(v)
  BY <1>2, <1>3
<1>10. GenerateInstruction(b, h, blocks) = ((u \o beaconSwap) \o v) \o random
  BY <1>8
<1> HIDE DEF u, v, beaconSwap, random
<1>11. Silent(u \o beaconSwap)
  BY <1>4, <1>9, SilentConcat
<1>12. Silent((u \o beaconSwap) \o v)
  BY <1>9, <1>11, SilentConcat
<1>13. Silent(((u \o beaconSwap) \o v) \o random)
  BY <1>7, <1>12, SilentConcat
<1> QED BY <1>10, <1>13

\* With its reward they are the instructions of a beacon block.
LEMMA RewardBlockIntro ==
  ASSUME NEW p, Silent(p), NEW h
  PROVE  RewardBlock(Append(p, Salary(h)), h)
<1> DEFINE X == ToSet(p) \cup {Salary(h)}
           w == Salary(h)
           b == Append(p, w)
<1>1. p \in Seq(ToSet(p))
  BY SilentElements
<1>2. p \in Seq(X) /\ w \in X
  <2>1. ToSet(p) \subseteq X /\ w \in X
    OBVIOUS
  <2> HIDE DEF X, w
  <2> QED BY <1>1, <2>1, SeqMonotonic
<1> HIDE DEF X, w
<1>3. b \in Seq(X) /\ Len(b) - 1 = Len(p) /\ Len(p) \in Nat /\ \A i \in 1..Len(p) : b[i] = p[i]
  BY <1>2
<1> HIDE DEF b
<1> DEFINE c == SubSeq(b, 1, Len(b) - 1)
<1>4. c \in Seq(X) /\ Len(c) = Len(p) /\ \A i \in 1..Len(c) : c[i] = b[i]
  BY <1>3
<1> HIDE DEF c
<1>5. c = p
  BY <1>2, <1>3, <1>4, SeqEqual
<1>6. b = Append(c, w) /\ Silent(c)
  BY <1>5 DEF b
<1>7. RewardBlock(b, h)
  BY <1>6 DEF RewardBlock, c, w
<1> QED BY <1>7 DEF b, w

-----------------------------------------------------------------------------
\* The beacon's blocks, and its heights of the shards.
BeaconInv ==
  /\ Keeps(beacon, beacon)
  /\ beacon.height \in Nat \ {0}
  /\ beacon.bestShard \in [Shard -> Nat]
  /\ beaconBlocks \in Seq(ToSet(beaconBlocks))
  /\ Len(beaconBlocks) = beacon.height
  /\ \A h \in 2..beacon.height : RewardBlock(beaconBlocks[h], h)

\* The blocks of the shards, of which the beacon reads the swaps.
SwapsInv ==
  /\ DOMAIN shardBlocks = Shard
  /\ \A s \in Shard : /\ shardBlocks[s] \in Seq(ToSet(shardBlocks[s]))
                      /\ \A x \in ToSet(shardBlocks[s]) : Silent(x.swap)

\* What the shards have read and paid.
PaidInv ==
  /\ DOMAIN shard = Shard
  /\ DOMAIN paid = Shard
  /\ \A s \in Shard : /\ shard[s].beaconHeight \in 1..beacon.height
                      /\ shard[s].epoch \in Nat
  /\ RewardsArePaidOnce

RewardsInv == BeaconInv /\ SwapsInv /\ PaidInv

\* It holds of the genesis blocks.
LEMMA RewardsInvInit ==
  ASSUME CommitteesInit
  PROVE  RewardsInv
<1>1. BeaconInv
  <2>1. /\ Keeps(beacon, beacon) /\ beacon.height = 1
        /\ beacon.bestShard = [s \in Shard |-> 0]
    BY DEF CommitteesInit, GenesisBeacon, Keeps
  <2>2. beaconBlocks = << <<>> >>
    BY DEF CommitteesInit
  <2>3. beaconBlocks \in Seq({<<>>}) /\ Len(beaconBlocks) = 1
    BY <2>2
  <2>4. beaconBlocks \in Seq(ToSet(beaconBlocks))
    BY <2>3, SequenceOfItsElements
  <2>5. 2..1 = {}
    OBVIOUS
  <2> QED BY <2>1, <2>3, <2>4, <2>5 DEF BeaconInv
<1>2. SwapsInv
  <2>1. DOMAIN shardBlocks = Shard /\ \A s \in Shard : shardBlocks[s] = <<>>
    BY DEF CommitteesInit
  <2>2. <<>> \in Seq(ToSet(<<>>))
    OBVIOUS
  <2>3. ToSet(<<>>) = {}
    BY DEF ToSet
  <2> QED BY <2>1, <2>2, <2>3 DEF SwapsInv
<1>3. PaidInv
  <2>1. DOMAIN shard = Shard /\ DOMAIN paid = Shard /\ beacon.height = 1
    BY DEF CommitteesInit, GenesisBeacon
  <2>2. ASSUME NEW s \in Shard
        PROVE  shard[s].beaconHeight = 1 /\ shard[s].epoch = 1 /\ paid[s] = <<>>
    BY DEF CommitteesInit, GenesisShard
  <2>3. ASSUME NEW s \in Shard
        PROVE  paid[s] = FlattenSeq([i \in 1..(shard[s].beaconHeight - 1) |-> RewardDue(s, i + 1)])
    <3> DEFINE d == [i \in 1..(shard[s].beaconHeight - 1) |-> RewardDue(s, i + 1)]
    <3>1. d \in [1..0 -> Seq({})]
      BY <2>2
    <3> HIDE DEF d
    <3>2. d \in Seq(Seq({}))
      BY <3>1
    <3>3. FlattenSeq(d) \in Seq({})
      BY <3>2, FlattenType
    <3>4. \A t \in Seq({}) : t = <<>>
      OBVIOUS
    <3> QED BY <2>2, <3>3, <3>4 DEF d
  <2> QED BY <2>1, <2>2, <2>3 DEF PaidInv, RewardsArePaidOnce
<1> QED BY <1>1, <1>2, <1>3 DEF RewardsInv

\* Numbers of an interval.
LEMMA WithinInterval ==
  ASSUME NEW a \in Nat, NEW n \in Nat, NEW k \in a..n
  PROVE  a + 1 \in Nat \ {0} /\ k \in Nat /\ k <= n
  OBVIOUS

\* A beacon block that takes the shard blocks up to these heights.
LEMMA NewBlockBeaconKeeps ==
  ASSUME RewardsInv, NEW heights \in [Shard -> Nat],
         \A s \in Shard : heights[s] \in beacon.bestShard[s]..Len(shardBlocks[s]),
         NewBlockBeacon(heights)
  PROVE  RewardsInv'
<1> DEFINE h == beacon.height + 1
           takenOf == [i \in DOMAIN ShardSeq |-> Taken(ShardSeq[i], heights)]
           blocks == FlattenSeq(takenOf)
           p == GenerateInstruction(beacon, h, blocks)
           w == Salary(h)
           insts == Append(p, w)
           B == UNION {ToSet(shardBlocks[s]) : s \in Shard}
<1>1. BeaconInv /\ SwapsInv /\ PaidInv
  BY DEF RewardsInv
<1>2. ASSUME NEW s \in Shard PROVE Taken(s, heights) \in Seq(B)
  <2> DEFINE q == shardBlocks[s]
             lo == beacon.bestShard[s] + 1
             hi == heights[s]
  <2>1. q \in Seq(ToSet(q)) /\ ToSet(q) \subseteq B
    BY <1>1 DEF SwapsInv
  <2>2. lo \in Nat \ {0} /\ hi \in Nat /\ hi <= Len(q)
    <3>1. beacon.bestShard[s] \in Nat
      BY <1>1 DEF BeaconInv
    <3>2. Len(q) \in Nat /\ hi \in Nat /\ hi \in beacon.bestShard[s]..Len(q)
      BY <2>1
    <3> HIDE DEF B, q, hi
    <3> QED BY <3>1, <3>2, WithinInterval, Zenon
  <2> HIDE DEF B, q
  <2>3. q \in Seq(B)
    BY <2>1, SeqMonotonic
  <2> HIDE DEF lo, hi
  <2>4. SubSeq(q, lo, hi) \in Seq(B)
    BY <2>2, <2>3
  <2> QED BY <2>4 DEF Taken, q, lo, hi
<1>3. blocks \in Seq(B)
  <2>1. DOMAIN ShardSeq = 1..ActiveShards /\ ActiveShards \in Nat
        /\ \A i \in 1..ActiveShards : ShardSeq[i] \in Shard
    BY ShardAssumption DEF ShardSeq, Shard
  <2> HIDE DEF B
  <2>2. takenOf \in [1..ActiveShards -> Seq(B)]
    BY <1>2, <2>1
  <2> HIDE DEF takenOf
  <2>3. takenOf \in Seq(Seq(B))
    BY <2>1, <2>2
  <2> QED BY <2>3, FlattenType
<1>4. \A x \in B : Silent(x.swap)
  BY <1>1 DEF SwapsInv
<1> HIDE DEF B, blocks
<1>5. Silent(p)
  BY <1>3, <1>4, GenerateInstructionSilent
<1> HIDE DEF p
<1>6. RewardBlock(insts, h)
  BY <1>5, RewardBlockIntro
<1>7. insts \in Seq(ToSet(insts))
  BY <1>6, SalariesBlock
<1>8. PICK shuffled : beacon' = Update(beacon, heights, insts, shuffled)
  BY DEF NewBlockBeacon, blocks, takenOf, p
<1>9. beaconBlocks' = Append(beaconBlocks, insts) /\ UNCHANGED <<shard, shardBlocks, paid>>
  BY DEF NewBlockBeacon, blocks, takenOf, p
<1> HIDE DEF insts
<1>10. Keeps(beacon, beacon) /\ beacon.height \in Nat \ {0}
  BY <1>1 DEF BeaconInv
<1>11. Keeps(beacon', beacon') /\ beacon'.height = h /\ beacon'.bestShard = heights
  <2>1. LET c == Update(beacon, heights, insts, shuffled)
        IN  Keeps(c, c) /\ c.height = h /\ c.bestShard = heights
    BY <1>7, <1>10, UpdateHeight
  <2> QED BY <1>8, <2>1
<1>12. BeaconInv'
  <2> DEFINE Y == ToSet(beaconBlocks) \cup {insts}
             bb == beaconBlocks
             cc == Append(bb, insts)
  <2>1. bb \in Seq(ToSet(bb)) /\ Len(bb) = beacon.height
    BY <1>1 DEF BeaconInv
  <2>2. ToSet(bb) \subseteq Y /\ insts \in Y
    OBVIOUS
  <2> HIDE DEF Y, bb
  <2>3. bb \in Seq(Y)
    BY <2>1, <2>2, SeqMonotonic
  <2>4. /\ cc \in Seq(Y) /\ Len(cc) = h /\ cc[h] = insts
        /\ \A i \in 1..beacon.height : cc[i] = bb[i]
    BY <1>10, <2>1, <2>2, <2>3
  <2> HIDE DEF cc
  <2>5. cc \in Seq(ToSet(cc))
    BY <2>4, SequenceOfItsElements
  <2>6. beaconBlocks' = cc
    BY <1>9 DEF cc, bb
  <2>7. ASSUME NEW i \in 2..h PROVE RewardBlock(cc[i], i)
    <3>1. CASE i = h
      BY <1>6, <2>4, <3>1
    <3>2. CASE i # h
      <4>1. i \in 2..beacon.height /\ i \in 1..beacon.height
        BY <1>10, <3>2
      <4>2. cc[i] = beaconBlocks[i]
        BY <2>4, <4>1 DEF bb
      <4>3. RewardBlock(beaconBlocks[i], i)
        BY <1>1, <4>1 DEF BeaconInv
      <4> QED BY <4>2, <4>3
    <3> QED BY <3>1, <3>2
  <2>8. h \in Nat \ {0}
    BY <1>10
  <2> HIDE DEF h
  <2> QED BY <1>11, <2>4, <2>5, <2>6, <2>7, <2>8 DEF BeaconInv
<1>13. SwapsInv'
  BY <1>1, <1>9 DEF SwapsInv
<1>14. PaidInv'
  <2>1. /\ DOMAIN shard = Shard /\ DOMAIN paid = Shard /\ RewardsArePaidOnce
        /\ \A s \in Shard : shard[s].beaconHeight \in 1..beacon.height /\ shard[s].epoch \in Nat
    BY <1>1 DEF PaidInv
  <2>2. RewardsArePaidOnce'
    BY <1>9, <2>1 DEF RewardsArePaidOnce
  <2>3. \A s \in Shard : shard[s].beaconHeight \in 1..beacon'.height /\ shard[s].epoch \in Nat
    BY <1>10, <1>11, <2>1
  <2> QED BY <1>9, <2>1, <2>2, <2>3 DEF PaidInv
<1> QED BY <1>12, <1>13, <1>14 DEF RewardsInv

\* The beacon height that a shard block refers to is one of an existing block.
LEMMA HeightAndEpochType ==
  ASSUME PaidInv, NEW s \in Shard, beacon.height \in Nat, NEW h \in shard[s].beaconHeight..beacon.height
  PROVE  /\ HeightAndEpoch(s, h).height \in Nat
         /\ HeightAndEpoch(s, h).height <= beacon.height
         /\ HeightAndEpoch(s, h).epoch \in Nat
<1> DEFINE e == shard[s].epoch
<1>1. e \in Nat /\ h \in Nat \ {0} /\ h <= beacon.height
  BY DEF PaidInv
<1>2. CASE EpochOf(h) > e + 1
  <2>1. e * EPOCH \in Nat /\ e * EPOCH <= h
    BY <1>1, <1>2, HeightAndEpochBound
  <2>2. HeightAndEpoch(s, h) = [height |-> e * EPOCH, epoch |-> e + 1]
    BY <1>2 DEF HeightAndEpoch
  <2>3. HeightAndEpoch(s, h).height = e * EPOCH /\ HeightAndEpoch(s, h).epoch = e + 1
    BY <2>2
  <2> DEFINE m == e * EPOCH
  <2> HIDE DEF m, e
  <2>4. m \in Nat /\ m <= h
    BY <2>1 DEF m
  <2>5. m <= beacon.height
    BY <1>1, <2>4
  <2>6. e + 1 \in Nat
    BY <1>1
  <2> QED BY <2>3, <2>4, <2>5, <2>6 DEF m
<1>3. CASE ~(EpochOf(h) > e + 1)
  <2>1. HeightAndEpoch(s, h) = [height |-> h, epoch |-> EpochOf(h)]
    BY <1>3 DEF HeightAndEpoch
  <2>2. EpochOf(h) \in Nat
    BY <1>1, EpochOfType
  <2> QED BY <1>1, <2>1, <2>2
<1> QED BY <1>2, <1>3

\* Update of the shard goes to that height.
LEMMA UpdateShardHeight ==
  ASSUME NEW s, NEW at, NEW insts, NEW own
  PROVE  LET c == UpdateShard(s, at, insts, own)
         IN  c.beaconHeight = at.height /\ c.epoch = at.epoch
<1> DEFINE pending == shard[s].pending \o AssignedIn(s, insts)
           swap == SwapValidator(pending, shard[s].committee, Len(ShardGenesis[s]))
           known == RememberStakes(shard[s].stakingTx, insts)
           seen == [beaconHeight |-> at.height, epoch |-> at.epoch, committee |-> shard[s].committee,
                    pending |-> pending, stakingTx |-> known]
           left == [k \in DOMAIN known \ Range(own[1].out) |-> known[k]]
           after == [seen EXCEPT !.committee = swap.current, !.pending = swap.pending, !.stakingTx = left]
           c == UpdateShard(s, at, insts, own)
<1>1. c = IF own = <<>> THEN seen ELSE after
  BY DEF UpdateShard
<1> HIDE DEF c, pending, swap, known, left
<1>2. seen.beaconHeight = at.height /\ seen.epoch = at.epoch
  OBVIOUS
<1>3. after.beaconHeight = at.height /\ after.epoch = at.epoch
  OBVIOUS
<1>4. c.beaconHeight = at.height /\ c.epoch = at.epoch
  <2> HIDE DEF seen, after
  <2> QED BY <1>1, <1>2, <1>3
<1> QED BY <1>4 DEF c

\* The rewards of the beacon blocks that a shard block reads.
LEMMA NewInstructionsPay ==
  ASSUME BeaconInv, NEW s \in Shard, shard[s].beaconHeight \in 1..beacon.height,
         NEW to \in Nat, to >= shard[s].beaconHeight, to <= beacon.height
  PROVE  FlattenSeq([i \in 1..(shard[s].beaconHeight - 1) |-> RewardDue(s, i + 1)])
           \o Salaries(s, NewInstructions(s, to))
         = FlattenSeq([i \in 1..(to - 1) |-> RewardDue(s, i + 1)])
<1> DEFINE lo == shard[s].beaconHeight
           n == to - lo
           q == beaconBlocks
           bb == SubSeq(q, lo + 1, to)
<1>1. lo \in Nat \ {0} /\ n \in Nat /\ lo + n = to /\ to <= Len(q) /\ q \in Seq(ToSet(q))
  <2>1. q \in Seq(ToSet(q)) /\ Len(q) = beacon.height
    BY DEF BeaconInv
  <2>2. lo \in 1..beacon.height /\ to >= lo /\ to <= beacon.height
    OBVIOUS
  <2> HIDE DEF q, lo
  <2>3. lo \in Nat \ {0} /\ n \in Nat /\ lo + n = to
    BY <2>2
  <2> QED BY <2>1, <2>2, <2>3
<1>2. NewInstructions(s, to) = FlattenSeq(bb)
  BY DEF NewInstructions
<1>3. \A j \in 1..n : RewardBlock(q[lo + j], lo + j)
  <2>1. beacon.height \in Nat /\ Len(q) = beacon.height
    BY DEF BeaconInv
  <2>2. ASSUME NEW j \in 1..n PROVE lo + j \in 2..beacon.height
    <3> HIDE DEF lo, n, q
    <3> QED BY <1>1, <2>1
  <2>3. ASSUME NEW j \in 2..beacon.height PROVE RewardBlock(q[j], j)
    BY DEF BeaconInv
  <2> HIDE DEF lo, n, q
  <2> QED BY <2>2, <2>3
<1> HIDE DEF lo, n, q
<1>4. bb \in Seq(ToSet(q)) /\ Len(bb) = n /\ \A j \in 1..n : bb[j] = q[lo + j]
  <2>1. lo + 1 \in Nat \ {0} /\ (to + 1) - (lo + 1) = n
    BY <1>1
  <2>2. bb \in Seq(ToSet(q))
    BY <1>1, <2>1
  <2>3. Len(bb) = n
    BY <1>1, <2>1
  <2>4. ASSUME NEW j \in 1..n PROVE bb[j] = q[lo + j]
    <3>1. j \in 1..((to - (lo + 1)) + 1) /\ ((lo + 1) + j) - 1 = lo + j
      BY <1>1
    <3>2. bb[j] = q[((lo + 1) + j) - 1]
      BY <1>1, <3>1
    <3> QED BY <3>1, <3>2
  <2> QED BY <2>2, <2>3, <2>4
<1> HIDE DEF bb
<1>5. bb = [j \in 1..n |-> bb[j]]
  BY <1>4
<1>6. \A j \in 1..n : RewardBlock(bb[j], lo + j)
  BY <1>3, <1>4
<1>7. Salaries(s, FlattenSeq(bb)) = DuesAbove(s, lo, n)
  <2>1. BlocksAbove(bb, lo, n)
    BY <1>5, <1>6 DEF BlocksAbove
  <2> QED BY <1>1, <2>1, SalariesOfBlocks
<1>8. FlattenSeq([i \in 1..(lo - 1) |-> RewardDue(s, i + 1)]) \o DuesAbove(s, lo, n)
      = FlattenSeq([i \in 1..(lo + n - 1) |-> RewardDue(s, i + 1)])
  BY <1>1, DuesConcat
<1>9. lo + n - 1 = to - 1
  BY <1>1
<1> QED BY <1>2, <1>7, <1>8, <1>9 DEF lo

\* A shard block that refers to beacon height h.
LEMMA NewBlockShardKeeps ==
  ASSUME RewardsInv, NEW s \in Shard, NEW h \in shard[s].beaconHeight..beacon.height,
         NEW sh, NEW be, NewBlockShard(s, h, sh, be)
  PROVE  RewardsInv'
<1> DEFINE at == HeightAndEpoch(s, h)
           to == at.height
           insts == NewInstructions(s, to)
           own == SwapAction(s, at, insts)
           stakers == Range(sh) \cup Range(be)
           blk == [signers |-> shard[s].committee, swap |-> own,
                   stakes |-> [kind \in {"shard", "beacon"} |-> IF kind = "shard" THEN sh ELSE be],
                   txs |-> [k \in stakers |-> [key |-> k, n |-> stakes[k] + 1]]]
           upd == UpdateShard(s, at, insts, own)
<1>1. BeaconInv /\ SwapsInv /\ PaidInv
  BY DEF RewardsInv
<1>2. /\ at.height >= shard[s].beaconHeight
      /\ shardBlocks' = [shardBlocks EXCEPT ![s] = Append(@, blk)]
      /\ shard' = [shard EXCEPT ![s] = upd]
      /\ paid' = [paid EXCEPT ![s] = @ \o Salaries(s, insts)]
      /\ UNCHANGED <<beacon, beaconBlocks>>
  BY DEF NewBlockShard
<1>3. Silent(own)
  <2> DEFINE pending == shard[s].pending \o AssignedIn(s, insts)
             swap == SwapValidator(pending, shard[s].committee, Len(ShardGenesis[s]))
             l == Swap(swap.in, swap.out, "shard", s)
  <2>1. l.act # "salary"
    BY DEF Swap
  <2>2. own = <<>> \/ own = <<l>>
    BY DEF SwapAction
  <2> HIDE DEF l, own
  <2> QED BY <2>1, <2>2, SilentOne, SilentNothing
<1> HIDE DEF own, stakers
<1>4. blk.swap = own
  OBVIOUS
<1>5. upd.beaconHeight = to /\ upd.epoch = at.epoch
  <2> HIDE DEF at, insts, own
  <2>1. LET c == UpdateShard(s, at, insts, own)
        IN  c.beaconHeight = at.height /\ c.epoch = at.epoch
    BY UpdateShardHeight
  <2> QED BY <2>1
<1> HIDE DEF blk, upd, insts
<1>6. beacon.height \in Nat \ {0}
  BY <1>1 DEF BeaconInv
<1>7. to \in Nat /\ to <= beacon.height /\ at.epoch \in Nat
  BY <1>1, <1>6, HeightAndEpochType
<1> HIDE DEF at
<1>8. shard[s].beaconHeight \in 1..beacon.height
  BY <1>1 DEF PaidInv
<1>9. to >= shard[s].beaconHeight
  BY <1>2
<1> HIDE DEF to
<1>10. BeaconInv'
  BY <1>1, <1>2 DEF BeaconInv
<1>11. SwapsInv'
  <2>1. DOMAIN shardBlocks = Shard
    BY <1>1 DEF SwapsInv
  <2> DEFINE q == shardBlocks[s]
             X == ToSet(q) \cup {blk}
             r == Append(q, blk)
  <2>2. q \in Seq(ToSet(q)) /\ \A x \in ToSet(q) : Silent(x.swap)
    BY <1>1 DEF SwapsInv
  <2>3. ToSet(q) \subseteq X /\ blk \in X /\ \A x \in X : Silent(x.swap)
    BY <1>3, <1>4, <2>2
  <2> HIDE DEF X, q
  <2>4. q \in Seq(X)
    BY <2>2, <2>3, SeqMonotonic
  <2>5. r \in Seq(X)
    BY <2>3, <2>4
  <2> HIDE DEF r
  <2>6. r \in Seq(ToSet(r)) /\ ToSet(r) \subseteq X
    BY <2>5, SequenceOfItsElements
  <2>7. DOMAIN shardBlocks' = Shard /\ shardBlocks'[s] = r
    BY <1>2, <2>1 DEF r, q
  <2>8. ASSUME NEW t \in Shard, t # s PROVE shardBlocks'[t] = shardBlocks[t]
    BY <1>2, <2>1, <2>8
  <2>9. ASSUME NEW t \in Shard
        PROVE  /\ shardBlocks'[t] \in Seq(ToSet(shardBlocks'[t]))
               /\ \A x \in ToSet(shardBlocks'[t]) : Silent(x.swap)
    <3>1. CASE t = s
      BY <2>3, <2>6, <2>7, <3>1
    <3>2. CASE t # s
      <4>1. shardBlocks[t] \in Seq(ToSet(shardBlocks[t])) /\ \A x \in ToSet(shardBlocks[t]) : Silent(x.swap)
        BY <1>1 DEF SwapsInv
      <4> QED BY <2>8, <3>2, <4>1
    <3> QED BY <3>1, <3>2
  <2> QED BY <2>7, <2>9 DEF SwapsInv
<1>12. PaidInv'
  <2>1. /\ DOMAIN shard = Shard /\ DOMAIN paid = Shard
        /\ \A t \in Shard : shard[t].beaconHeight \in 1..beacon.height /\ shard[t].epoch \in Nat
        /\ \A t \in Shard :
             paid[t] = FlattenSeq([i \in 1..(shard[t].beaconHeight - 1) |-> RewardDue(t, i + 1)])
    BY <1>1 DEF PaidInv, RewardsArePaidOnce
  <2>2. /\ DOMAIN shard' = Shard /\ DOMAIN paid' = Shard
        /\ shard'[s] = upd /\ paid'[s] = paid[s] \o Salaries(s, insts)
        /\ \A t \in Shard \ {s} : shard'[t] = shard[t] /\ paid'[t] = paid[t]
    BY <1>2, <2>1
  <2>3. paid[s] \o Salaries(s, NewInstructions(s, to)) = FlattenSeq([i \in 1..(to - 1) |-> RewardDue(s, i + 1)])
    <3>1. FlattenSeq([i \in 1..(shard[s].beaconHeight - 1) |-> RewardDue(s, i + 1)])
             \o Salaries(s, NewInstructions(s, to))
           = FlattenSeq([i \in 1..(to - 1) |-> RewardDue(s, i + 1)])
      BY <1>1, <1>7, <1>8, <1>9, NewInstructionsPay
    <3> QED BY <2>1, <3>1
  <2>4. paid'[s] = FlattenSeq([i \in 1..(to - 1) |-> RewardDue(s, i + 1)])
    BY <2>2, <2>3 DEF insts
  <2>5. shard'[s].beaconHeight = to /\ shard'[s].epoch \in Nat /\ to \in 1..beacon.height
    BY <1>5, <1>6, <1>7, <1>8, <1>9, <2>2
  <2>6. ASSUME NEW t \in Shard
        PROVE  /\ shard'[t].beaconHeight \in 1..beacon.height /\ shard'[t].epoch \in Nat
               /\ paid'[t] = FlattenSeq([i \in 1..(shard'[t].beaconHeight - 1) |-> RewardDue(t, i + 1)])
    <3>1. CASE t = s
      BY <2>4, <2>5, <3>1
    <3>2. CASE t # s
      <4>1. shard'[t] = shard[t] /\ paid'[t] = paid[t]
        BY <2>2, <3>2
      <4> QED BY <2>1, <4>1
    <3> QED BY <3>1, <3>2
  <2>7. RewardsArePaidOnce'
    BY <2>6 DEF RewardsArePaidOnce
  <2>8. beacon' = beacon
    BY <1>2
  <2> QED BY <2>2, <2>6, <2>7, <2>8 DEF PaidInv
<1> QED BY <1>10, <1>11, <1>12 DEF RewardsInv

\* Every step keeps the invariant.
LEMMA RewardsInvNext ==
  ASSUME RewardsInv, [CommitteesNext]_committeeVars
  PROVE  RewardsInv'
<1>1. CASE UNCHANGED committeeVars
  BY <1>1 DEF committeeVars, RewardsInv, BeaconInv, SwapsInv, PaidInv, RewardsArePaidOnce
<1>2. ASSUME NEW heights \in [Shard -> 0..Max(Range(MaxShardHeight))],
             \A s \in Shard : heights[s] \in beacon.bestShard[s]..Len(shardBlocks[s]),
             NewBlockBeacon(heights)
      PROVE  RewardsInv'
  <2>1. heights \in [Shard -> Nat]
    OBVIOUS
  <2> QED BY <1>2, <2>1, NewBlockBeaconKeeps
<1>3. ASSUME NEW s \in Shard, NEW h \in shard[s].beaconHeight..beacon.height, NEW sh, NEW be,
             NewBlockShard(s, h, sh, be)
      PROVE  RewardsInv'
  BY <1>3, NewBlockShardKeeps
<1> QED BY <1>1, <1>2, <1>3 DEF CommitteesNext

\* Every shard pays the rewards of exactly the beacon blocks that its blocks
\* have read, each once and in their order, for any number of shards, any
\* stakes and swaps and any way in which the chains lag behind each other
\* (buildBeaconSalaryRes, FetchBeaconBlockFromHeight).
THEOREM RewardsPaidOnce == CommitteesSpec => []RewardsArePaidOnce
<1>1. CommitteesInit => RewardsInv
  BY RewardsInvInit
<1>2. RewardsInv /\ [CommitteesNext]_committeeVars => RewardsInv'
  BY RewardsInvNext
<1>3. RewardsInv => RewardsArePaidOnce
  BY DEF RewardsInv, PaidInv
<1> QED BY <1>1, <1>2, <1>3, PTL DEF CommitteesSpec
-----------------------------------------------------------------------------
\* Applying instructions.

\* The function f applies the instructions q to b one by one.
Follows(f, b, q) == f[0] = b /\ \A i \in 1..Len(q) : f[i] = ApplyInstruction(f[i - 1], q[i])

\* There is one that does.
LEMMA FollowsExists ==
  ASSUME NEW b, NEW X, NEW q \in Seq(X)
  PROVE  \E f : Follows(f, b, q)
<1> DEFINE n == Len(q)
<1>1. n \in Nat
  OBVIOUS
<1> HIDE DEF n
<1>2. CanApply(b, q, n)
  BY <1>1, AppliesExists
<1>3. PICK f : Applies(f, b, q, n)
  BY <1>2 DEF CanApply
<1>4. \A i \in 0..n : f[i] = Applied(f, b, q, i)
  BY <1>3 DEF Applies
<1>5. f[0] = b
  <2>1. 0 \in 0..n
    BY <1>1
  <2> QED BY <1>4, <2>1 DEF Applied
<1>6. ASSUME NEW i \in 1..n PROVE f[i] = ApplyInstruction(f[i - 1], q[i])
  <2>1. i \in 0..n /\ i # 0
    BY <1>1
  <2> QED BY <1>4, <2>1 DEF Applied
<1>7. Follows(f, b, q)
  BY <1>5, <1>6 DEF Follows, n
<1> QED BY <1>7

\* It ends where ApplyInstructions does.
LEMMA FollowsIs ==
  ASSUME NEW b, NEW X, NEW q \in Seq(X), NEW f, Follows(f, b, q)
  PROVE  ApplyInstructions(b, q) = f[Len(q)]
<1> DEFINE n == Len(q)
           upTo == CHOOSE g : g = [i \in 0..n |-> Applied(g, b, q, i)]
           G == {i \in 0..n : upTo[i] = f[i]}
<1>1. n \in Nat
  OBVIOUS
<1>2. ApplyInstructions(b, q) = upTo[n]
  BY DEF ApplyInstructions, Applied
<1>3. f[0] = b /\ \A i \in 1..n : f[i] = ApplyInstruction(f[i - 1], q[i])
  BY DEF Follows
<1> HIDE DEF n
<1>4. upTo = [i \in 0..n |-> Applied(upTo, b, q, i)]
  <2>1. CanApply(b, q, n)
    BY <1>1, AppliesExists
  <2>2. \E g : g = [i \in 0..n |-> Applied(g, b, q, i)]
    BY <2>1, Zenon DEF CanApply, Applies
  <2> QED BY <2>2, Zenon
<1> HIDE DEF upTo
<1>5. \A i \in 0..n : upTo[i] = Applied(upTo, b, q, i)
  BY <1>4
<1>6. 0 \in G
  <2>1. 0 \in 0..n
    BY <1>1
  <2>2. upTo[0] = b
    BY <1>5, <2>1 DEF Applied
  <2> QED BY <1>3, <2>1, <2>2
<1>7. ASSUME NEW i \in 1..n, i - 1 \in G PROVE i \in G
  <2>1. i \in 0..n /\ i # 0
    BY <1>1
  <2>2. upTo[i] = ApplyInstruction(upTo[i - 1], q[i])
    BY <1>5, <2>1 DEF Applied
  <2>3. upTo[i - 1] = f[i - 1]
    BY <1>7
  <2>4. f[i] = ApplyInstruction(f[i - 1], q[i])
    BY <1>3
  <2> QED BY <2>1, <2>2, <2>3, <2>4
<1>8. 0..n \subseteq G
  <2> HIDE DEF G
  <2> QED BY <1>1, <1>6, <1>7, AllUpTo, Zenon
<1>9. upTo[n] = f[n]
  BY <1>1, <1>8
<1> QED BY <1>2, <1>9 DEF n

\* Instructions are applied one after the other.
AppliedInTurn(b, p, q) == ApplyInstructions(b, p \o q) = ApplyInstructions(ApplyInstructions(b, p), q)

\* The i-th of the first n, and of the m after them.
LEMMA PlaceBefore ==
  ASSUME NEW n \in Nat, NEW m \in Nat, NEW i \in 1..n
  PROVE  i \in 1..(n + m) /\ i <= n
  OBVIOUS

LEMMA PlaceAfter ==
  ASSUME NEW n \in Nat, NEW m \in Nat, NEW i \in 1..m
  PROVE  /\ n + i \in 1..(n + m) /\ ~(n + i <= n) /\ (n + i) - n = i
         /\ (n + i) - 1 = n + (i - 1)
         /\ i \in 0..m /\ i - 1 \in 0..m
  OBVIOUS

LEMMA ApplyConcat ==
  ASSUME NEW b, NEW X, NEW p \in Seq(X), NEW q \in Seq(X)
  PROVE  AppliedInTurn(b, p, q)
<1> DEFINE r == p \o q
           n == Len(p)
           m == Len(q)
<1>1. /\ r \in Seq(X) /\ Len(r) = n + m /\ n \in Nat /\ m \in Nat
      /\ \A i \in 1..Len(r) : r[i] = IF i <= n THEN p[i] ELSE q[i - n]
  OBVIOUS
<1>a. n \in Nat /\ m \in Nat
  OBVIOUS
<1> HIDE DEF r
<1>2. PICK f : Follows(f, b, r)
  BY <1>1, FollowsExists
<1>3. f[0] = b /\ \A i \in 1..(n + m) : f[i] = ApplyInstruction(f[i - 1], r[i])
  BY <1>1, <1>2 DEF Follows
<1> DEFINE g == [i \in 0..m |-> f[n + i]]
<1> HIDE DEF n, m
<1>4. Follows(f, b, p)
  <2>1. ASSUME NEW i \in 1..n PROVE f[i] = ApplyInstruction(f[i - 1], p[i])
    <3>1. i \in 1..(n + m) /\ i <= n
      BY <1>a, PlaceBefore
    <3>2. r[i] = p[i]
      BY <1>1, <3>1
    <3> QED BY <1>3, <3>1, <3>2
  <2> QED BY <1>3, <2>1 DEF Follows, n
<1>5. Follows(g, f[n], q)
  <2>1. g[0] = f[n]
    <3>1. 0 \in 0..m /\ n + 0 = n
      BY <1>a
    <3> QED BY <3>1
  <2>2. ASSUME NEW i \in 1..m PROVE g[i] = ApplyInstruction(g[i - 1], q[i])
    <3>1. n + i \in 1..(n + m) /\ ~(n + i <= n) /\ (n + i) - n = i /\ (n + i) - 1 = n + (i - 1)
      <4> HIDE DEF g
      <4> QED BY <1>a, PlaceAfter
    <3>2. i \in 0..m /\ i - 1 \in 0..m
      <4> HIDE DEF g
      <4> QED BY <1>a, PlaceAfter
    <3>3. r[n + i] = q[i]
      BY <1>1, <3>1
    <3>4. f[n + i] = ApplyInstruction(f[n + (i - 1)], q[i])
      BY <1>3, <3>1, <3>3
    <3>5. g[i] = f[n + i] /\ g[i - 1] = f[n + (i - 1)]
      BY <3>2
    <3> QED BY <3>4, <3>5
  <2> HIDE DEF g
  <2> QED BY <2>1, <2>2 DEF Follows, m
<1>6. ApplyInstructions(b, r) = f[n + m]
  BY <1>1, <1>2, FollowsIs
<1>7. ApplyInstructions(b, p) = f[n]
  BY <1>4, FollowsIs DEF n
<1>8. ApplyInstructions(f[n], q) = g[m]
  <2> HIDE DEF g
  <2> QED BY <1>5, FollowsIs DEF m
<1>9. g[m] = f[n + m]
  <2>1. m \in 0..m
    BY <1>a
  <2> QED BY <2>1
<1> QED BY <1>6, <1>7, <1>8, <1>9 DEF r, AppliedInTurn

\* No instruction changes nothing, and one is applied.
LEMMA ApplyOne ==
  ASSUME NEW b, NEW l
  PROVE  ApplyInstructions(b, <<>>) = b /\ ApplyInstructions(b, <<l>>) = ApplyInstruction(b, l)
<1> DEFINE f == [i \in 0..1 |-> IF i = 0 THEN b ELSE ApplyInstruction(b, l)]
           e == <<>>
           q == <<l>>
<1>1. e \in Seq({l}) /\ Len(e) = 0 /\ q \in Seq({l}) /\ Len(q) = 1 /\ q[1] = l
  OBVIOUS
<1>2. f[0] = b /\ f[1] = ApplyInstruction(b, l)
  OBVIOUS
<1> HIDE DEF f, e, q
<1>3. Follows(f, b, e)
  <2>1. 1..0 = {}
    OBVIOUS
  <2> QED BY <1>1, <1>2, <2>1 DEF Follows
<1>4. Follows(f, b, q)
  <2>1. ASSUME NEW i \in 1..1 PROVE f[i] = ApplyInstruction(f[i - 1], q[i])
    <3>1. i = 1 /\ i - 1 = 0
      OBVIOUS
    <3> QED BY <1>1, <1>2, <3>1
  <2> QED BY <1>1, <1>2, <2>1 DEF Follows
<1>5. ApplyInstructions(b, e) = f[0]
  BY <1>1, <1>3, FollowsIs
<1>6. ApplyInstructions(b, q) = f[1]
  BY <1>1, <1>4, FollowsIs
<1> QED BY <1>2, <1>5, <1>6 DEF e, q

-----------------------------------------------------------------------------
\* One validator of a committee is swapped at a time.

\* The first validator of a list can be removed.
RemovesFirst(v, r) == LET w == RemoveValidator(v, r) IN w.ok /\ w.list = Drop(v, 1)

LEMMA FirstIsRemoved ==
  ASSUME NEW X, NEW v \in Seq(X), v # <<>>, NEW r, r = <<v[1]>>
  PROVE  RemovesFirst(v, r)
<1>1. DOMAIN r = {1} /\ r[1] = v[1] /\ Len(r) = 1
  OBVIOUS
<1>2. Len(v) \in Nat /\ 1 <= Len(v)
  OBVIOUS
<1>3. \A i \in DOMAIN r : 2 * i - 1 <= Len(v) /\ v[2 * i - 1] = r[i]
  <2>1. 2 * 1 - 1 = 1
    OBVIOUS
  <2> QED BY <1>1, <1>2, <2>1
<1> DEFINE w == RemoveValidator(v, r)
<1>4. w = [ok |-> TRUE, list |-> Drop(v, 1)]
  BY <1>1, <1>3 DEF RemoveValidator
<1> HIDE DEF w
<1>5. w.ok /\ w.list = Drop(v, 1)
  BY <1>4
<1> QED BY <1>5 DEF RemovesFirst, w

\* The first element alone.
LEMMA FirstAlone ==
  ASSUME NEW X, NEW v \in Seq(X), v # <<>>
  PROVE  SubSeq(v, 1, 1) = <<v[1]>>
<1> DEFINE a == SubSeq(v, 1, 1)
           b == <<v[1]>>
<1>1. Len(v) \in Nat /\ 1 <= Len(v) /\ v[1] \in X
  OBVIOUS
<1>2. a \in Seq(X) /\ Len(a) = 1 /\ a[1] = v[1]
  BY <1>1
<1>3. b \in Seq(X) /\ Len(b) = 1 /\ b[1] = v[1]
  BY <1>1
<1> HIDE DEF a, b
<1>4. \A i \in 1..Len(a) : a[i] = b[i]
  BY <1>2, <1>3
<1>5. a = b
  BY <1>2, <1>3, <1>4, SeqEqual
<1> QED BY <1>5 DEF a, b

\* SwapValidator of a full committee, with an offset of one.
SwapsFirst(w, pending, current) ==
  /\ w.in = <<pending[1]>> /\ w.out = <<current[1]>>
  /\ w.current = Drop(current, 1) \o <<pending[1]>> /\ w.pending = Drop(pending, 1)

LEMMA SwapOne ==
  ASSUME OFFSET = 1, NEW K, NEW pending \in Seq(K), NEW current \in Seq(K), NEW size, size \in Nat \ {0},
         pending # <<>>, Len(current) = size
  PROVE  SwapsFirst(SwapValidator(pending, current, size), pending, current)
<1> DEFINE offset == IF OFFSET < Len(pending) THEN OFFSET ELSE Len(pending)
           diff == IF Len(current) < size THEN size - Len(current) ELSE 0
           fill == IF diff < offset THEN diff ELSE offset
           n == offset - fill
           full == current \o Take(pending, fill)
           new == SubSeq(pending, fill + 1, offset)
           w == SwapValidator(pending, current, size)
<1>1. Len(pending) \in Nat /\ Len(pending) >= 1
  OBVIOUS
<1>2. offset = 1
  <2> DEFINE L == Len(pending)
  <2>1. L \in Nat /\ L >= 1
    BY <1>1
  <2> HIDE DEF L
  <2>2. (IF OFFSET < L THEN OFFSET ELSE L) = 1
    BY <2>1
  <2> QED BY <2>2 DEF L
<1>3. diff = 0
  OBVIOUS
<1> HIDE DEF offset, diff
<1>4. fill = 0
  BY <1>2, <1>3
<1> HIDE DEF fill
<1>5. n = 1 /\ ~(offset = 0 \/ offset > size)
  BY <1>2, <1>4
<1>6. full = current
  <2>1. Take(pending, 0) = <<>>
    BY DEF Take
  <2>2. current \o <<>> = current
    OBVIOUS
  <2> QED BY <1>4, <2>1, <2>2
<1>7. new = <<pending[1]>>
  <2>1. SubSeq(pending, 1, 1) = <<pending[1]>>
    BY FirstAlone
  <2>2. 0 + 1 = 1
    OBVIOUS
  <2> QED BY <1>2, <1>4, <2>1, <2>2
<1>8. Take(current, 1) = <<current[1]>>
  <2>1. current # <<>>
    OBVIOUS
  <2> QED BY <2>1, FirstAlone DEF Take
<1>9. w = IF offset = 0 \/ offset > size
          THEN [ok |-> FALSE, pending |-> pending, current |-> current, out |-> <<>>, in |-> <<>>]
          ELSE [ok |-> TRUE, pending |-> Drop(pending, offset),
                current |-> Drop(full, n) \o new, out |-> Take(full, n),
                in |-> IF n = 0 THEN Take(pending, fill) ELSE new]
  BY DEF SwapValidator, offset, diff, fill
<1> HIDE DEF n, full, new, w
<1>10. w = [ok |-> TRUE, pending |-> Drop(pending, 1), current |-> Drop(current, 1) \o <<pending[1]>>,
            out |-> <<current[1]>>, in |-> <<pending[1]>>]
  BY <1>2, <1>5, <1>6, <1>7, <1>8, <1>9
<1> DEFINE a == <<pending[1]>>
           b == <<current[1]>>
           c == Drop(current, 1) \o <<pending[1]>>
           d == Drop(pending, 1)
<1>11. w = [ok |-> TRUE, pending |-> d, current |-> c, out |-> b, in |-> a]
  BY <1>10
<1> HIDE DEF a, b, c, d
<1>12. w.in = a /\ w.out = b /\ w.current = c /\ w.pending = d
  BY <1>11
<1> QED BY <1>12 DEF SwapsFirst, a, b, c, d, w

\* Nobody is swapped when nobody is pending.
LEMMA SwapNone ==
  ASSUME OFFSET = 1, NEW current, NEW size
  PROVE  SwapValidator(<<>>, current, size).in = <<>> /\ SwapValidator(<<>>, current, size).out = <<>>
<1> DEFINE e == <<>>
           w == SwapValidator(e, current, size)
<1>1. Len(e) = 0
  OBVIOUS
<1> HIDE DEF e
<1>2. (IF OFFSET < Len(e) THEN OFFSET ELSE Len(e)) = 0
  BY <1>1
<1>3. w = [ok |-> FALSE, pending |-> e, current |-> current, out |-> <<>>, in |-> <<>>]
  BY <1>2 DEF SwapValidator
<1> DEFINE z == <<>>
<1>4. w = [ok |-> FALSE, pending |-> e, current |-> current, out |-> z, in |-> z]
  BY <1>3
<1> HIDE DEF z, w
<1>5. w.in = z /\ w.out = z
  BY <1>4
<1> QED BY <1>5 DEF z, w, e

-----------------------------------------------------------------------------
\* The validators of a shard stand in one queue, in the order in which they
\* were named or assigned: after m swaps the committee of n are those after
\* the first m, and the others wait.
ViewAt(c, p, q, m, n) ==
  /\ m \in Nat /\ n \in Nat \ {0} /\ m + n <= Len(q)
  /\ c = SubSeq(q, m + 1, m + n)
  /\ p = SubSeq(q, m + n + 1, Len(q))

\* The m-th swap.
NthSwap(q, m, n, s) == Swap(<<q[m + n]>>, <<q[m]>>, "shard", s)

\* What the two lists are.
Elements(c, p, q, m, n, K) ==
  /\ m \in Nat /\ n \in Nat \ {0} /\ Len(q) \in Nat /\ m + n <= Len(q)
  /\ c \in Seq(K) /\ Len(c) = n /\ \A i \in 1..n : c[i] = q[m + i]
  /\ p \in Seq(K) /\ Len(p) = Len(q) - (m + n) /\ \A i \in 1..Len(p) : p[i] = q[m + n + i]

LEMMA ViewFacts ==
  ASSUME NEW K, NEW q \in Seq(K), NEW c, NEW p, NEW m, NEW n, ViewAt(c, p, q, m, n)
  PROVE  Elements(c, p, q, m, n, K)
<1>1. m \in Nat /\ n \in Nat \ {0} /\ m + n <= Len(q) /\ Len(q) \in Nat
  BY DEF ViewAt
<1>2. c \in Seq(K) /\ Len(c) = n /\ \A i \in 1..n : c[i] = q[m + i]
  <2>1. c = SubSeq(q, m + 1, m + n)
    BY DEF ViewAt
  <2> DEFINE lo == m + 1
             hi == m + n
  <2>2. lo \in Nat \ {0} /\ hi \in Nat /\ hi <= Len(q) /\ lo <= hi + 1 /\ (hi - lo) + 1 = n
    BY <1>1
  <2>3. \A i \in 1..n : (lo + i) - 1 = m + i
    BY <1>1
  <2> HIDE DEF lo, hi
  <2>4. c = SubSeq(q, lo, hi)
    BY <2>1 DEF lo, hi
  <2>5. SubSeq(q, lo, hi) \in Seq(K) /\ Len(SubSeq(q, lo, hi)) = (hi - lo) + 1
    BY <2>2
  <2>6. ASSUME NEW i \in 1..n PROVE SubSeq(q, lo, hi)[i] = q[(lo + i) - 1]
    BY <2>2
  <2> QED BY <2>2, <2>3, <2>4, <2>5, <2>6
<1>3. p \in Seq(K) /\ Len(p) = Len(q) - (m + n) /\ \A i \in 1..Len(p) : p[i] = q[m + n + i]
  <2>1. p = SubSeq(q, m + n + 1, Len(q))
    BY DEF ViewAt
  <2> DEFINE lo == m + n + 1
             hi == Len(q)
             k == Len(q) - (m + n)
  <2>2. lo \in Nat \ {0} /\ hi \in Nat /\ hi <= Len(q) /\ lo <= hi + 1 /\ (hi - lo) + 1 = k /\ k \in Nat
    BY <1>1
  <2>3. \A i \in 1..k : (lo + i) - 1 = m + n + i
    BY <1>1
  <2> HIDE DEF lo, hi, k
  <2>4. p = SubSeq(q, lo, hi)
    BY <2>1 DEF lo, hi
  <2>5. SubSeq(q, lo, hi) \in Seq(K) /\ Len(SubSeq(q, lo, hi)) = (hi - lo) + 1
    BY <2>2
  <2>6. ASSUME NEW i \in 1..k PROVE SubSeq(q, lo, hi)[i] = q[(lo + i) - 1]
    BY <2>2
  <2>7. p \in Seq(K) /\ Len(p) = k /\ \A i \in 1..k : p[i] = q[m + n + i]
    BY <2>2, <2>3, <2>4, <2>5, <2>6
  <2> QED BY <2>7 DEF k
<1> QED BY <1>1, <1>2, <1>3 DEF Elements

\* Lists with these elements are the view.
LEMMA ViewIntro ==
  ASSUME NEW K, NEW q \in Seq(K), NEW c, NEW p, NEW m, NEW n, Elements(c, p, q, m, n, K)
  PROVE  ViewAt(c, p, q, m, n)
<1> DEFINE c2 == SubSeq(q, m + 1, m + n)
           p2 == SubSeq(q, m + n + 1, Len(q))
<1>1. m \in Nat /\ n \in Nat \ {0} /\ m + n <= Len(q)
  BY DEF Elements
<1>2. ViewAt(c2, p2, q, m, n)
  BY <1>1 DEF ViewAt
<1> HIDE DEF c2, p2
<1>3. Elements(c2, p2, q, m, n, K)
  BY <1>2, ViewFacts, Zenon
<1>4. c = c2
  <2>1. c \in Seq(K) /\ c2 \in Seq(K) /\ Len(c) = Len(c2)
    BY <1>3 DEF Elements
  <2>2. \A i \in 1..Len(c) : c[i] = c2[i]
    BY <1>3 DEF Elements
  <2> QED BY <2>1, <2>2, SeqEqual
<1>5. p = p2
  <2>1. p \in Seq(K) /\ p2 \in Seq(K) /\ Len(p) = Len(p2)
    BY <1>3 DEF Elements
  <2>2. \A i \in 1..Len(p) : p[i] = p2[i]
    BY <1>3, <2>1, Zenon DEF Elements
  <2> QED BY <2>1, <2>2, SeqEqual
<1> QED BY <1>2, <1>4, <1>5


\* A list without its first element.
Shifted(w, v, K) ==
  w \in Seq(K) /\ Len(w) = Len(v) - 1 /\ Len(w) \in Nat /\ \A i \in 1..Len(w) : w[i] = v[i + 1]

LEMMA DropOne ==
  ASSUME NEW K, NEW v \in Seq(K), v # <<>>
  PROVE  Shifted(Drop(v, 1), v, K)
<1> DEFINE lo == 2
           hi == Len(v)
           w == SubSeq(v, lo, hi)
<1>1. hi \in Nat /\ 1 <= hi
  OBVIOUS
<1>2. lo \in Nat \ {0} /\ lo <= hi + 1 /\ (hi - lo) + 1 = hi - 1 /\ hi - 1 \in Nat
  BY <1>1
<1>3. hi <= Len(v)
  BY <1>1
<1>4. \A i \in 1..(hi - 1) : (lo + i) - 1 = i + 1
  BY <1>1
<1>5. Drop(v, 1) = w
  BY DEF Drop
<1> HIDE DEF lo, hi
<1>6. w \in Seq(K) /\ Len(w) = (hi - lo) + 1
  BY <1>1, <1>2, <1>3
<1>7. ASSUME NEW i \in 1..(hi - 1) PROVE w[i] = v[(lo + i) - 1]
  BY <1>1, <1>2, <1>3
<1> HIDE DEF w
<1>8. w \in Seq(K) /\ Len(w) = hi - 1 /\ Len(w) \in Nat
  BY <1>2, <1>6
<1>9. ASSUME NEW i \in 1..(hi - 1) PROVE w[i] = v[i + 1]
  BY <1>4, <1>7
<1> QED BY <1>5, <1>8, <1>9 DEF Shifted, hi

\* What is appended to a list stays when its first element goes.
DropKeepsLast(c, x) == Drop(c \o x, 1) = Drop(c, 1) \o x

LEMMA DropAndAppend ==
  ASSUME NEW K, NEW c \in Seq(K), c # <<>>, NEW x \in Seq(K)
  PROVE  DropKeepsLast(c, x)
<1> DEFINE a == c \o x
           d == Drop(c, 1)
           e == Drop(a, 1)
           f == d \o x
<1>1. Len(c) \in Nat /\ Len(c) >= 1 /\ Len(x) \in Nat
  OBVIOUS
<1>2. /\ a \in Seq(K) /\ Len(a) = Len(c) + Len(x)
      /\ \A i \in 1..Len(a) : a[i] = IF i <= Len(c) THEN c[i] ELSE x[i - Len(c)]
  OBVIOUS
<1> HIDE DEF a
<1>3. a # <<>>
  BY <1>1, <1>2
<1>4. Shifted(d, c, K) /\ Shifted(e, a, K)
  BY <1>2, <1>3, DropOne
<1> HIDE DEF d, e
<1>5. d \in Seq(K) /\ Len(d) = Len(c) - 1 /\ \A i \in 1..Len(d) : d[i] = c[i + 1]
  BY <1>4 DEF Shifted
<1>6. e \in Seq(K) /\ Len(e) = Len(a) - 1 /\ \A i \in 1..Len(e) : e[i] = a[i + 1]
  BY <1>4 DEF Shifted
<1>7. f \in Seq(K) /\ Len(f) = Len(d) + Len(x)
  <2>1. d \in Seq(K)
    BY <1>5
  <2>2. f \in Seq(K)
    BY <2>1
  <2>3. Len(f) = Len(d) + Len(x)
    BY <2>1
  <2> QED BY <2>2, <2>3
<1>8. \A i \in 1..Len(f) : f[i] = IF i <= Len(d) THEN d[i] ELSE x[i - Len(d)]
  BY <1>5
<1> HIDE DEF f
<1>9. Len(e) = Len(f)
  BY <1>1, <1>2, <1>5, <1>6, <1>7
<1>10. ASSUME NEW i \in 1..Len(e) PROVE e[i] = f[i]
  <2>1. i \in Nat /\ i + 1 \in 1..Len(a) /\ i \in 1..Len(f)
    BY <1>1, <1>2, <1>6, <1>9
  <2>2. e[i] = a[i + 1]
    BY <1>6
  <2>3. CASE i <= Len(d)
    <3>1. i + 1 <= Len(c) /\ i \in 1..Len(d)
      BY <1>1, <1>5, <2>1, <2>3
    <3>2. a[i + 1] = c[i + 1]
      BY <1>2, <2>1, <3>1
    <3>3. f[i] = d[i]
      BY <1>8, <2>1, <2>3
    <3>4. d[i] = c[i + 1]
      BY <1>5, <3>1
    <3> QED BY <2>2, <3>2, <3>3, <3>4
  <2>4. CASE ~(i <= Len(d))
    <3>1. ~(i + 1 <= Len(c)) /\ (i + 1) - Len(c) = i - Len(d)
      BY <1>1, <1>5, <2>1, <2>4
    <3>2. a[i + 1] = x[(i + 1) - Len(c)]
      BY <1>2, <2>1, <3>1
    <3>3. f[i] = x[i - Len(d)]
      BY <1>8, <2>1, <2>4
    <3> QED BY <2>2, <3>1, <3>2, <3>3
  <2> QED BY <2>3, <2>4
<1>11. e = f
  BY <1>6, <1>7, <1>9, <1>10, SeqEqual
<1> QED BY <1>11 DEF DropKeepsLast, a, d, e, f

\* The last place of a committee of n.
LEMMA LastPlace ==
  ASSUME NEW m \in Nat, NEW n \in Nat \ {0}, NEW i \in 1..n, NEW l, l = n - 1, ~(i <= l)
  PROVE  i = n /\ i - l = 1 /\ m + n + 1 = (m + 1) + i
  OBVIOUS

\* One swap further the committee has lost its first validator and got the
\* first of those that wait.
LEMMA ViewStep ==
  ASSUME NEW K, NEW q \in Seq(K), NEW c, NEW p, NEW m, NEW n, ViewAt(c, p, q, m, n), p # <<>>,
         NEW x, x = <<p[1]>>
  PROVE  ViewAt(Drop(c, 1) \o x, Drop(p, 1), q, m + 1, n)
<1> DEFINE d == Drop(c, 1)
           e == Drop(p, 1)
           f == d \o x
<1>1. Elements(c, p, q, m, n, K)
  BY ViewFacts, Zenon
<1>2. /\ m \in Nat /\ n \in Nat \ {0} /\ Len(q) \in Nat /\ m + n <= Len(q)
      /\ c \in Seq(K) /\ Len(c) = n
      /\ p \in Seq(K) /\ Len(p) = Len(q) - (m + n)
  BY <1>1 DEF Elements
<1>3. \A i \in 1..n : c[i] = q[m + i]
  BY <1>1 DEF Elements
<1>4. \A i \in 1..Len(p) : p[i] = q[m + n + i]
  BY <1>1 DEF Elements
<1>5. Len(p) >= 1 /\ c # <<>> /\ p[1] \in K
  BY <1>2
<1>6. Shifted(d, c, K) /\ Shifted(e, p, K)
  BY <1>2, <1>5, DropOne
<1> HIDE DEF d, e
<1>7. d \in Seq(K) /\ Len(d) = n - 1 /\ \A i \in 1..Len(d) : d[i] = c[i + 1]
  BY <1>2, <1>6 DEF Shifted
<1>8. e \in Seq(K) /\ Len(e) = Len(p) - 1 /\ \A i \in 1..Len(e) : e[i] = p[i + 1]
  BY <1>6 DEF Shifted
<1>9. x \in Seq(K) /\ Len(x) = 1 /\ x[1] = p[1]
  BY <1>5
<1>10. f \in Seq(K) /\ Len(f) = Len(d) + Len(x)
  BY <1>7, <1>9
<1>11. \A i \in 1..Len(f) : f[i] = IF i <= Len(d) THEN d[i] ELSE x[i - Len(d)]
  BY <1>7, <1>9
<1> HIDE DEF f
<1>12. Len(f) = n
  BY <1>2, <1>7, <1>9, <1>10
<1>13. ASSUME NEW i \in 1..n PROVE f[i] = q[(m + 1) + i]
  <2>1. CASE i <= Len(d)
    <3>1. i \in 1..Len(d) /\ i + 1 \in 1..n /\ m + (i + 1) = (m + 1) + i
      BY <1>2, <1>7, <2>1
    <3>2. f[i] = d[i]
      BY <1>11, <1>12, <2>1
    <3>3. d[i] = c[i + 1]
      BY <1>7, <3>1
    <3>4. c[i + 1] = q[m + (i + 1)]
      BY <1>3, <3>1
    <3> QED BY <3>1, <3>2, <3>3, <3>4
  <2>2. CASE ~(i <= Len(d))
    <3>1. i = n /\ i - Len(d) = 1 /\ 1 \in 1..Len(p) /\ m + n + 1 = (m + 1) + i
      <4>1. m \in Nat /\ n \in Nat \ {0} /\ Len(d) = n - 1
        BY <1>2, <1>7
      <4>2. i = n /\ i - Len(d) = 1 /\ m + n + 1 = (m + 1) + i
        <5> DEFINE l == Len(d)
        <5>1. l = n - 1 /\ ~(i <= l) /\ m \in Nat /\ n \in Nat \ {0} /\ i \in 1..n
          BY <2>2, <4>1
        <5> HIDE DEF l
        <5>2. i = n /\ i - l = 1 /\ m + n + 1 = (m + 1) + i
          BY <5>1, LastPlace
        <5> QED BY <5>2 DEF l
      <4>3. 1 \in 1..Len(p)
        BY <1>2, <1>5
      <4> QED BY <4>2, <4>3
    <3>2. f[i] = x[1]
      BY <1>11, <1>12, <2>2, <3>1
    <3>3. p[1] = q[m + n + 1]
      BY <1>4, <3>1
    <3> QED BY <1>9, <3>1, <3>2, <3>3
  <2> QED BY <2>1, <2>2
<1>14. ASSUME NEW i \in 1..Len(e) PROVE e[i] = q[(m + 1) + n + i]
  <2>1. i + 1 \in 1..Len(p) /\ m + n + (i + 1) = (m + 1) + n + i
    BY <1>2, <1>8
  <2>2. e[i] = p[i + 1]
    BY <1>8
  <2>3. p[i + 1] = q[m + n + (i + 1)]
    BY <1>4, <2>1
  <2> QED BY <2>1, <2>2, <2>3
<1>15. m + 1 \in Nat /\ (m + 1) + n <= Len(q) /\ Len(e) = Len(q) - ((m + 1) + n)
  BY <1>2, <1>5, <1>8
<1>16. Elements(f, e, q, m + 1, n, K)
  BY <1>2, <1>8, <1>10, <1>12, <1>13, <1>14, <1>15 DEF Elements
<1>17. ViewAt(f, e, q, m + 1, n)
  <2> DEFINE m1 == m + 1
  <2>1. Elements(f, e, q, m1, n, K)
    BY <1>16
  <2> HIDE DEF m1
  <2>2. ViewAt(f, e, q, m1, n)
    BY <2>1, ViewIntro, Zenon
  <2> QED BY <2>2 DEF m1
<1> QED BY <1>17 DEF d, e, f

\* Validators that join the queue wait behind the others.
LEMMA ViewMore ==
  ASSUME NEW K, NEW q \in Seq(K), NEW c, NEW p, NEW m, NEW n, ViewAt(c, p, q, m, n),
         NEW x \in Seq(K)
  PROVE  ViewAt(c, p \o x, q \o x, m, n)
<1> DEFINE r == q \o x
           e == p \o x
<1>1. Elements(c, p, q, m, n, K)
  BY ViewFacts, Zenon
<1>2. /\ m \in Nat /\ n \in Nat \ {0} /\ Len(q) \in Nat /\ m + n <= Len(q)
      /\ c \in Seq(K) /\ Len(c) = n
      /\ p \in Seq(K) /\ Len(p) = Len(q) - (m + n)
  BY <1>1 DEF Elements
<1>3. \A i \in 1..n : c[i] = q[m + i]
  BY <1>1 DEF Elements
<1>4. \A i \in 1..Len(p) : p[i] = q[m + n + i]
  BY <1>1 DEF Elements
<1>5. Len(x) \in Nat /\ Len(p) \in Nat
  BY <1>2
<1>6. r \in Seq(K) /\ Len(r) = Len(q) + Len(x)
  OBVIOUS
<1>7. \A i \in 1..Len(r) : r[i] = IF i <= Len(q) THEN q[i] ELSE x[i - Len(q)]
  OBVIOUS
<1>8. e \in Seq(K) /\ Len(e) = Len(p) + Len(x)
  <2>1. p \in Seq(K)
    BY <1>2
  <2>2. e \in Seq(K)
    BY <2>1
  <2>3. Len(e) = Len(p) + Len(x)
    BY <2>1
  <2> QED BY <2>2, <2>3
<1>9. \A i \in 1..Len(e) : e[i] = IF i <= Len(p) THEN p[i] ELSE x[i - Len(p)]
  <2>1. p \in Seq(K)
    BY <1>2
  <2> QED BY <2>1
<1> HIDE DEF r, e
<1>10. ASSUME NEW i \in 1..n PROVE c[i] = r[m + i]
  <2>1. m + i \in 1..Len(r) /\ m + i <= Len(q)
    BY <1>2, <1>5, <1>6
  <2> QED BY <1>3, <1>7, <2>1
<1>11. ASSUME NEW i \in 1..Len(e) PROVE e[i] = r[m + n + i]
  <2>1. m + n + i \in 1..Len(r) /\ i \in Nat
    BY <1>2, <1>5, <1>6, <1>8
  <2>2. CASE i <= Len(p)
    <3>1. i \in 1..Len(p) /\ m + n + i <= Len(q)
      <4>1. /\ m \in Nat /\ n \in Nat /\ Len(q) \in Nat /\ Len(p) = Len(q) - (m + n)
            /\ i \in Nat /\ i >= 1 /\ i <= Len(p)
        BY <1>2, <2>1, <2>2
      <4> QED BY <4>1
    <3>2. r[m + n + i] = q[m + n + i]
      BY <1>7, <2>1, <3>1
    <3> QED BY <1>4, <1>9, <2>2, <3>1, <3>2
  <2>3. CASE ~(i <= Len(p))
    <3>1. ~(m + n + i <= Len(q)) /\ (m + n + i) - Len(q) = i - Len(p)
      BY <1>2, <1>5, <2>1, <2>3
    <3>2. r[m + n + i] = x[(m + n + i) - Len(q)]
      BY <1>7, <2>1, <3>1
    <3> QED BY <1>9, <2>3, <3>1, <3>2
  <2> QED BY <2>2, <2>3
<1>12. Len(r) \in Nat /\ m + n <= Len(r) /\ Len(e) = Len(r) - (m + n)
  BY <1>2, <1>5, <1>6, <1>8
<1>13. Elements(c, e, r, m, n, K)
  BY <1>2, <1>8, <1>10, <1>11, <1>12 DEF Elements
<1>14. ViewAt(c, e, r, m, n)
  BY <1>6, <1>13, ViewIntro, Zenon
<1> QED BY <1>14 DEF r, e

-----------------------------------------------------------------------------
\* The beacon best state, as long as no Update of it has failed.
BestStateFields ==
  {"ok", "height", "bestShard", "gotRandom", "BeaconCommittee", "BeaconPending", "ShardCommittee",
   "ShardPending", "beaconCurrent", "beaconNext", "shardCurrent", "shardNext"}
BeaconKey == Staker \cup Range(BeaconGenesis)

Sound(b) ==
  /\ DOMAIN b = BestStateFields
  /\ b.ok
  /\ DOMAIN b.ShardCommittee = Shard /\ DOMAIN b.ShardPending = Shard
  /\ b.BeaconCommittee \in Seq(BeaconKey) /\ Len(b.BeaconCommittee) = Len(BeaconGenesis)
  /\ b.BeaconPending \in Seq(Staker)
  /\ b.beaconCurrent \in Seq(Staker) /\ b.beaconNext \in Seq(Staker)
  /\ b.shardCurrent \in Seq(Staker) /\ b.shardNext \in Seq(Staker)

\* Only the lists of shard s have changed, to those after m swaps of queue q.
SameBut(b, d, s) ==
  /\ d.shardCurrent = b.shardCurrent
  /\ d.BeaconCommittee = b.BeaconCommittee /\ d.BeaconPending = b.BeaconPending
  /\ \A t \in Shard : t # s => /\ d.ShardCommittee[t] = b.ShardCommittee[t]
                               /\ d.ShardPending[t] = b.ShardPending[t]
Advances(b, d, s, q, m, n) ==
  Sound(d) /\ SameBut(b, d, s) /\ ViewAt(d.ShardCommittee[s], d.ShardPending[s], q, m, n)

\* RemoveValidator finds the validators of the next swap of a shard.
LEMMA ApplyNthSwap ==
  ASSUME NEW b, Sound(b), NEW s \in Shard, NEW K, NEW q \in Seq(K), NEW m, NEW n,
         ViewAt(b.ShardCommittee[s], b.ShardPending[s], q, m, n), m + n < Len(q)
  PROVE  Advances(b, ApplyInstruction(b, NthSwap(q, m + 1, n, s)), s, q, m + 1, n)
<1> DEFINE c == b.ShardCommittee[s]
           p == b.ShardPending[s]
           l == NthSwap(q, m + 1, n, s)
           x == <<p[1]>>
           y == <<c[1]>>
           cx == c \o x
           d == ApplyInstruction(b, l)
           c2 == Drop(c, 1) \o x
           p2 == Drop(p, 1)
<1>1. Elements(c, p, q, m, n, K)
  BY ViewFacts, Zenon
<1>2. /\ m \in Nat /\ n \in Nat \ {0} /\ Len(q) \in Nat
      /\ c \in Seq(K) /\ Len(c) = n
      /\ p \in Seq(K) /\ Len(p) = Len(q) - (m + n)
  BY <1>1 DEF Elements
<1>3. \A i \in 1..n : c[i] = q[m + i]
  BY <1>1 DEF Elements
<1>4. \A i \in 1..Len(p) : p[i] = q[m + n + i]
  BY <1>1 DEF Elements
<1>5. ViewAt(c, p, q, m, n)
  OBVIOUS
<1> HIDE DEF c, p
<1>6. Len(p) >= 1 /\ 1 \in 1..Len(p) /\ 1 \in 1..n /\ m + n + 1 = (m + 1) + n
  BY <1>2
<1>7. p # <<>> /\ c # <<>> /\ p[1] \in K
  BY <1>2, <1>6
<1>8. c[1] = q[m + 1] /\ p[1] = q[(m + 1) + n]
  BY <1>3, <1>4, <1>6
<1>9. l = Swap(x, y, "shard", s)
  BY <1>8 DEF NthSwap
<1>10. l.act = "swap" /\ l.in = x /\ l.out = y /\ l.kind = "shard" /\ l.shard = s
  <2> HIDE DEF x, y, l
  <2> QED BY <1>9 DEF Swap
<1>11. RemovesFirst(p, x)
  BY <1>2, <1>7, FirstIsRemoved
<1>12. x \in Seq(K) /\ Len(x) = 1
  BY <1>7
<1>13. cx \in Seq(K) /\ cx # <<>> /\ cx[1] = c[1]
  <2>1. c \in Seq(K) /\ Len(c) \in Nat /\ Len(c) >= 1
    BY <1>2
  <2> HIDE DEF x
  <2>2. cx \in Seq(K)
    BY <1>12, <2>1
  <2>3. Len(cx) = Len(c) + Len(x)
    <3>1. c \in Seq(K) /\ x \in Seq(K)
      BY <1>12, <2>1
    <3> QED BY <3>1
  <2>4. cx[1] = c[1]
    BY <1>12, <2>1
  <2> QED BY <1>12, <2>1, <2>2, <2>3, <2>4
<1>14. RemovesFirst(cx, y)
  <2> HIDE DEF cx
  <2> QED BY <1>13, FirstIsRemoved
<1>15. Drop(cx, 1) = c2
  BY <1>2, <1>7, <1>12, DropAndAppend DEF DropKeepsLast
<1>16. ViewAt(c2, p2, q, m + 1, n)
  BY <1>5, <1>7, ViewStep
<1> HIDE DEF x, y, cx, c2, p2, l
<1>17. d = [b EXCEPT !.ShardPending[s] = p2, !.ShardCommittee[s] = c2]
  <2>1. d = ApplySwap(b, l)
    BY <1>10 DEF ApplyInstruction, Sound
  <2> DEFINE u == RemoveValidator(p, x)
             v == RemoveValidator(cx, y)
  <2>2. u.ok /\ u.list = p2 /\ v.ok /\ v.list = c2
    BY <1>11, <1>14, <1>15 DEF RemovesFirst, p2
  <2> HIDE DEF u, v
  <2>3. ApplySwap(b, l) = IF ~(u.ok /\ v.ok) THEN [b EXCEPT !.ok = FALSE]
                          ELSE [b EXCEPT !.ShardPending[s] = u.list, !.ShardCommittee[s] = v.list]
    BY <1>10 DEF ApplySwap, u, v, c, p, cx
  <2> QED BY <2>1, <2>2, <2>3
<1> HIDE DEF d
<1>18. DOMAIN b = BestStateFields /\ DOMAIN b.ShardCommittee = Shard /\ DOMAIN b.ShardPending = Shard
  BY DEF Sound
<1>19. /\ DOMAIN d = BestStateFields
       /\ DOMAIN d.ShardCommittee = Shard /\ DOMAIN d.ShardPending = Shard
       /\ d.ShardCommittee[s] = c2 /\ d.ShardPending[s] = p2
       /\ \A t \in Shard : t # s => d.ShardCommittee[t] = b.ShardCommittee[t] /\ d.ShardPending[t] = b.ShardPending[t]
  BY <1>17, <1>18 DEF BestStateFields
<1>20. /\ d.ok = b.ok /\ d.BeaconCommittee = b.BeaconCommittee /\ d.BeaconPending = b.BeaconPending
       /\ d.beaconCurrent = b.beaconCurrent /\ d.beaconNext = b.beaconNext
       /\ d.shardCurrent = b.shardCurrent /\ d.shardNext = b.shardNext
  BY <1>17, <1>18 DEF BestStateFields
<1>21. Sound(d)
  BY <1>19, <1>20 DEF Sound
<1>22. SameBut(b, d, s)
  BY <1>19, <1>20 DEF SameBut
<1> QED BY <1>16, <1>19, <1>21, <1>22 DEF Advances, d, l

\* The next swaps of a shard, in their order.
NextSwaps(S, q, m, n, s) == \A k \in 1..Len(S) : S[k] = NthSwap(q, m + k, n, s)

\* Before swap i of Top there is a validator left to swap in.
LEMMA PlaceOfNext ==
  ASSUME NEW m \in Nat, NEW n \in Nat, NEW Top \in Nat, NEW k \in Nat, m + Top + n <= k, NEW i \in 1..Top
  PROVE  i \in 0..Top /\ (m + (i - 1)) + 1 = m + i /\ (m + (i - 1)) + n < k
  OBVIOUS

\* They are applied one after the other.
LEMMA ApplyNextSwaps ==
  ASSUME NEW b, Sound(b), NEW s \in Shard, NEW K, NEW q \in Seq(K), NEW m, NEW n,
         ViewAt(b.ShardCommittee[s], b.ShardPending[s], q, m, n),
         NEW X, NEW S \in Seq(X), NextSwaps(S, q, m, n, s), m + Len(S) + n <= Len(q)
  PROVE  Advances(b, ApplyInstructions(b, S), s, q, m + Len(S), n)
<1> DEFINE Top == Len(S)
<1>1. Top \in Nat /\ m \in Nat /\ n \in Nat /\ Len(q) \in Nat
  <2>1. m \in Nat /\ n \in Nat
    BY Zenon DEF ViewAt
  <2>2. Top \in Nat /\ Len(q) \in Nat
    OBVIOUS
  <2> QED BY <2>1, <2>2
<1>2. PICK f : Follows(f, b, S)
  BY FollowsExists
<1>3. f[0] = b /\ \A i \in 1..Top : f[i] = ApplyInstruction(f[i - 1], S[i])
  BY <1>2 DEF Follows
<1> DEFINE G == {i \in 0..Top : Advances(b, f[i], s, q, m + i, n)}
<1>4. \A k \in 1..Top : S[k] = NthSwap(q, m + k, n, s)
  BY DEF NextSwaps
<1>5. m + Top + n <= Len(q)
  OBVIOUS
<1> HIDE DEF Top
<1>6. 0 \in G
  <2>1. 0 \in 0..Top /\ m + 0 = m
    BY <1>1
  <2>2. SameBut(b, b, s)
    BY DEF SameBut
  <2>3. Advances(b, b, s, q, m, n)
    BY <2>2 DEF Advances
  <2> QED BY <1>3, <2>1, <2>3
<1>7. ASSUME NEW i \in 1..Top, i - 1 \in G PROVE i \in G
  <2> DEFINE d == f[i - 1]
             j == m + (i - 1)
  <2>1. Advances(b, d, s, q, j, n)
    BY <1>7
  <2>2. i \in 0..Top /\ j + 1 = m + i /\ j + n < Len(q)
    BY <1>1, <1>5, PlaceOfNext, Zenon
  <2>3. f[i] = ApplyInstruction(d, S[i]) /\ S[i] = NthSwap(q, m + i, n, s)
    BY <1>3, <1>4
  <2> HIDE DEF d, j, G
  <2>4. Sound(d) /\ ViewAt(d.ShardCommittee[s], d.ShardPending[s], q, j, n) /\ SameBut(b, d, s)
    BY <2>1 DEF Advances
  <2>5. Advances(d, ApplyInstruction(d, NthSwap(q, j + 1, n, s)), s, q, j + 1, n)
    BY <2>2, <2>4, ApplyNthSwap
  <2>6. Advances(d, f[i], s, q, m + i, n)
    BY <2>2, <2>3, <2>5
  <2>7. SameBut(b, f[i], s)
    BY <2>4, <2>6 DEF Advances, SameBut
  <2>8. Advances(b, f[i], s, q, m + i, n)
    BY <2>6, <2>7 DEF Advances
  <2> QED BY <2>2, <2>8 DEF G
<1>8. 0..Top \subseteq G
  <2> HIDE DEF G
  <2> QED BY <1>1, <1>6, <1>7, AllUpTo, Zenon
<1>9. Advances(b, f[Top], s, q, m + Top, n)
  BY <1>1, <1>8
<1>10. ApplyInstructions(b, S) = f[Top]
  BY <1>2, FollowsIs DEF Top
<1> QED BY <1>9, <1>10 DEF Top

-----------------------------------------------------------------------------
\* What a sequence begins with and what follows are the sequence.
SplitAt(q, i, j) == SubSeq(q, 1, j) = SubSeq(q, 1, i) \o SubSeq(q, i + 1, j)

LEMMA SubSeqSplit ==
  ASSUME NEW X, NEW q \in Seq(X), NEW i \in Nat, NEW j \in Nat, i <= j, j <= Len(q)
  PROVE  /\ SplitAt(q, i, j)
         /\ SubSeq(q, 1, i) \in Seq(X) /\ SubSeq(q, i + 1, j) \in Seq(X) /\ SubSeq(q, 1, j) \in Seq(X)
<1> DEFINE a == SubSeq(q, 1, i)
           b == SubSeq(q, i + 1, j)
           c == SubSeq(q, 1, j)
           d == a \o b
<1>1. a \in Seq(X) /\ Len(a) = i /\ \A k \in 1..i : a[k] = q[k]
  OBVIOUS
<1>2. b \in Seq(X) /\ Len(b) = j - i /\ \A k \in 1..(j - i) : b[k] = q[i + k]
  <2> DEFINE lo == i + 1
             n == j - i
  <2>1. lo \in Nat \ {0} /\ lo <= j + 1 /\ (j - lo) + 1 = n /\ n \in Nat
    OBVIOUS
  <2>2. \A k \in 1..n : (lo + k) - 1 = i + k
    OBVIOUS
  <2> HIDE DEF lo, n
  <2>3. SubSeq(q, lo, j) \in Seq(X)
    BY <2>1
  <2>4. Len(SubSeq(q, lo, j)) = (j - lo) + 1
    BY <2>1
  <2>5. ASSUME NEW k \in 1..n PROVE SubSeq(q, lo, j)[k] = q[(lo + k) - 1]
    BY <2>1
  <2>6. b = SubSeq(q, lo, j)
    BY DEF lo
  <2> HIDE DEF b
  <2>7. b \in Seq(X) /\ Len(b) = n /\ \A k \in 1..n : b[k] = q[i + k]
    BY <2>1, <2>2, <2>3, <2>4, <2>5, <2>6
  <2> QED BY <2>7 DEF n
<1>3. c \in Seq(X) /\ Len(c) = j /\ \A k \in 1..j : c[k] = q[k]
  OBVIOUS
<1> HIDE DEF a, b, c
<1>4. /\ d \in Seq(X) /\ Len(d) = Len(a) + Len(b)
      /\ \A k \in 1..Len(d) : d[k] = IF k <= Len(a) THEN a[k] ELSE b[k - Len(a)]
  <2>1. a \in Seq(X) /\ b \in Seq(X)
    BY <1>1, <1>2
  <2> QED BY <2>1
<1> HIDE DEF d
<1>5. Len(c) = Len(d)
  BY <1>1, <1>2, <1>3, <1>4
<1>6. ASSUME NEW k \in 1..Len(c) PROVE c[k] = d[k]
  <2>1. k \in 1..j /\ k \in 1..Len(d)
    BY <1>3, <1>5
  <2>2. CASE k <= i
    <3>1. k \in 1..i
      BY <2>1, <2>2
    <3> QED BY <1>1, <1>3, <1>4, <2>1, <2>2, <3>1
  <2>3. CASE ~(k <= i)
    <3>1. k - i \in 1..(j - i) /\ i + (k - i) = k
      BY <2>1, <2>3
    <3>2. d[k] = b[k - i]
      BY <1>1, <1>4, <2>1, <2>3
    <3>3. b[k - i] = q[i + (k - i)]
      BY <1>2, <3>1
    <3> QED BY <1>3, <2>1, <3>1, <3>2, <3>3
  <2> QED BY <2>2, <2>3
<1>7. c = d
  BY <1>3, <1>4, <1>5, <1>6, SeqEqual
<1>8. SplitAt(q, i, j)
  BY <1>7, Zenon DEF SplitAt, a, b, c, d
<1> QED BY <1>1, <1>2, <1>3, <1>8 DEF a, b, c

\* The swaps of a shard's blocks.
SwapsOf(blocks) == FlattenSeq([i \in DOMAIN blocks |-> blocks[i].swap])
SwapsInTurn(a, b) == SwapsOf(a \o b) = SwapsOf(a) \o SwapsOf(b)

LEMMA SwapsConcat ==
  ASSUME NEW B, NEW X, \A x \in B : x.swap \in Seq(X), NEW a \in Seq(B), NEW b \in Seq(B)
  PROVE  SwapsInTurn(a, b) /\ SwapsOf(a) \in Seq(X)
<1> DEFINE F == [x \in B |-> x.swap]
<1>1. F \in [B -> Seq(X)]
  OBVIOUS
<1>2. ASSUME NEW q \in Seq(B) PROVE SwapsOf(q) = FlattenSeq(Mapped(F, q))
  <2>1. \A i \in DOMAIN q : q[i] \in B
    OBVIOUS
  <2>2. Mapped(F, q) = [i \in DOMAIN q |-> q[i].swap]
    BY <2>1 DEF Mapped
  <2> QED BY <2>2 DEF SwapsOf
<1> HIDE DEF F
<1>3. FlattenSeq(Mapped(F, a \o b)) = FlattenSeq(Mapped(F, a)) \o FlattenSeq(Mapped(F, b))
  <2>1. OneAfterTheOther(F, a, b)
    BY <1>1, MappedConcat, Zenon
  <2> QED BY <2>1, Zenon DEF OneAfterTheOther
<1>4. a \o b \in Seq(B)
  OBVIOUS
<1>5. SwapsInTurn(a, b)
  BY <1>2, <1>3, <1>4 DEF SwapsInTurn
<1>6. SwapsOf(a) \in Seq(X)
  <2>1. Mapped(F, a) \in Seq(Seq(X))
    BY <1>1, MappedType, Zenon
  <2> QED BY <1>2, <2>1, FlattenType
<1> QED BY <1>5, <1>6

\* Instructions whose assignments are sequences of stakers.
Assigning(X) == \A l \in X : l.act = "assign" => l.keys \in Seq(Staker)
AssignedInTurn(s, a, b) == AssignedIn(s, a \o b) = AssignedIn(s, a) \o AssignedIn(s, b)

LEMMA AssignedConcat ==
  ASSUME NEW s, NEW X, Assigning(X), NEW a \in Seq(X), NEW b \in Seq(X)
  PROVE  AssignedInTurn(s, a, b) /\ AssignedIn(s, a) \in Seq(Staker)
<1> DEFINE F == [l \in X |-> IF l.act = "assign" /\ l.shard = s THEN l.keys ELSE <<>>]
<1>1. F \in [X -> Seq(Staker)]
  <2>1. \A l \in X : l.act = "assign" => l.keys \in Seq(Staker)
    BY DEF Assigning
  <2>2. <<>> \in Seq(Staker)
    OBVIOUS
  <2> DEFINE S == Seq(Staker)
  <2>3. <<>> \in S /\ \A l \in X : l.act = "assign" => l.keys \in S
    BY <2>1, <2>2
  <2> HIDE DEF S
  <2>4. F \in [X -> S]
    BY <2>3
  <2> QED BY <2>4 DEF S
<1>2. ASSUME NEW q \in Seq(X) PROVE AssignedIn(s, q) = FlattenSeq(Mapped(F, q))
  <2>1. \A i \in DOMAIN q : q[i] \in X
    OBVIOUS
  <2>2. Mapped(F, q) = [i \in DOMAIN q |-> IF q[i].act = "assign" /\ q[i].shard = s THEN q[i].keys ELSE <<>>]
    BY <2>1 DEF Mapped
  <2> QED BY <2>2 DEF AssignedIn
<1> HIDE DEF F
<1>3. FlattenSeq(Mapped(F, a \o b)) = FlattenSeq(Mapped(F, a)) \o FlattenSeq(Mapped(F, b))
  <2>1. OneAfterTheOther(F, a, b)
    BY <1>1, MappedConcat, Zenon
  <2> QED BY <2>1, Zenon DEF OneAfterTheOther
<1>4. a \o b \in Seq(X)
  OBVIOUS
<1>5. AssignedInTurn(s, a, b)
  BY <1>2, <1>3, <1>4 DEF AssignedInTurn
<1>6. AssignedIn(s, a) \in Seq(Staker)
  <2>1. Mapped(F, a) \in Seq(Seq(Staker))
    BY <1>1, MappedType, Zenon
  <2> QED BY <1>2, <2>1, FlattenType
<1> QED BY <1>5, <1>6

\* Nobody is assigned to shard s by instructions that assign to no shard or
\* to another.
LEMMA AssignedNone ==
  ASSUME NEW s, NEW X, NEW q \in Seq(X), \A l \in X : ~(l.act = "assign" /\ l.shard = s)
  PROVE  AssignedIn(s, q) = <<>>
<1> DEFINE M == [i \in DOMAIN q |-> IF q[i].act = "assign" /\ q[i].shard = s THEN q[i].keys ELSE <<>>]
<1>1. DOMAIN q = 1..Len(q) /\ Len(q) \in Nat /\ \A i \in 1..Len(q) : q[i] \in X
  OBVIOUS
<1>2. M = [i \in 1..Len(q) |-> <<>>]
  BY <1>1
<1>3. [i \in 1..Len(q) |-> <<>>] \in Seq(Seq({}))
  <2>1. <<>> \in Seq({})
    OBVIOUS
  <2>2. [i \in 1..Len(q) |-> <<>>] \in [1..Len(q) -> Seq({})]
    BY <2>1
  <2> QED BY <1>1, <2>2
<1>4. FlattenSeq(M) \in Seq({})
  BY <1>2, <1>3, FlattenType
<1>5. \A t \in Seq({}) : t = <<>>
  OBVIOUS
<1> QED BY <1>4, <1>5 DEF AssignedIn

\* One assignment.
LEMMA AssignedOne ==
  ASSUME NEW s, NEW keys \in Seq(Staker)
  PROVE  AssignedIn(s, <<Assign(keys, s)>>) = keys
<1> DEFINE l == Assign(keys, s)
           q == <<l>>
           M == [i \in DOMAIN q |-> IF q[i].act = "assign" /\ q[i].shard = s THEN q[i].keys ELSE <<>>]
<1>1. l.act = "assign" /\ l.shard = s /\ l.keys = keys
  BY DEF Assign
<1>2. DOMAIN q = 1..1 /\ q[1] = l
  OBVIOUS
<1> HIDE DEF l, q
<1>3. M = [i \in 1..1 |-> keys]
  BY <1>1, <1>2
<1>4. [i \in 1..1 |-> keys] = <<keys>>
  OBVIOUS
<1>5. FlattenSeq(<<keys>>) = keys
  BY FlattenOne
<1>6. AssignedIn(s, q) = FlattenSeq(M)
  BY DEF AssignedIn
<1>7. AssignedIn(s, q) = keys
  BY <1>3, <1>4, <1>5, <1>6
<1> QED BY <1>7 DEF q, l

\* Only gives a sequence of what it keeps.
LEMMA OnlyType ==
  ASSUME NEW X, NEW q \in Seq(X), NEW S
  PROVE  Only(q, S) \in Seq(X) /\ Only(q, S) \in Seq(S)
<1> DEFINE w == [i \in DOMAIN q |-> IF q[i] \in S THEN <<q[i]>> ELSE <<>>]
           Y == X \cap S
           n == Len(q)
           T == Seq(Y)
<1>1. n \in Nat /\ DOMAIN q = 1..n /\ \A i \in 1..n : q[i] \in X
  OBVIOUS
<1> HIDE DEF n
<1>2. w = [i \in 1..n |-> w[i]]
  BY <1>1
<1>3. ASSUME NEW i \in 1..n PROVE w[i] \in T
  <2>1. w[i] = IF q[i] \in S THEN <<q[i]>> ELSE <<>>
    BY <1>1
  <2>2. q[i] \in S => q[i] \in Y
    BY <1>1
  <2> HIDE DEF w, Y
  <2> QED BY <2>1, <2>2
<1> HIDE DEF w, T
<1>4. w \in [1..n -> T]
  BY <1>2, <1>3
<1>5. w \in Seq(T)
  BY <1>1, <1>4
<1>6. FlattenSeq(w) \in Seq(Y)
  BY <1>5, FlattenType DEF T
<1>7. Y \subseteq X /\ Y \subseteq S
  OBVIOUS
<1> HIDE DEF Y
<1> DEFINE v == FlattenSeq(w)
<1>8. v \in Seq(Y) /\ Only(q, S) = v
  BY <1>6 DEF Only, w
<1> HIDE DEF v
<1>9. v \in Seq(X)
  BY <1>7, <1>8, SeqMonotonic
<1>10. v \in Seq(S)
  BY <1>7, <1>8, SeqMonotonic
<1> QED BY <1>8, <1>9, <1>10

-----------------------------------------------------------------------------
\* The queue of shard s after the first h beacon blocks of bb: the validators
\* of its genesis block, and those assigned to it since.
QueueIn(bb, s, h) == ShardGenesis[s] \o AssignedIn(s, FlattenSeq(SubSeq(bb, 1, h)))
ShardKey(s) == Staker \cup Range(ShardGenesis[s])

\* The instructions X of the beacon blocks bb.
BlocksOf(bb, X) == Assigning(X) /\ bb \in Seq(Seq(X))

LEMMA GenesisType ==
  ASSUME NEW s \in Shard
  PROVE  ShardGenesis[s] \in Seq(ShardKey(s)) /\ ShardGenesis[s] # <<>>
<1> DEFINE g == ShardGenesis[s]
           R == Range(g)
           K == ShardKey(s)
<1>1. g \in Seq(R) /\ g # <<>>
  BY GenesisAssumption
<1>2. R \subseteq K
  BY DEF ShardKey
<1> HIDE DEF g, R, K
<1>3. g \in Seq(K)
  BY <1>1, <1>2, SeqMonotonic
<1> QED BY <1>1, <1>3 DEF g, K

\* A queue grows at its end.
QueueGrows(bb, s, h, k) ==
  QueueIn(bb, s, k) = QueueIn(bb, s, h) \o AssignedIn(s, FlattenSeq(SubSeq(bb, h + 1, k)))

LEMMA QueueSplit ==
  ASSUME NEW X, NEW bb, BlocksOf(bb, X), NEW s \in Shard, NEW h \in Nat, NEW k \in Nat,
         h <= k, k <= Len(bb)
  PROVE  /\ QueueIn(bb, s, h) \in Seq(ShardKey(s))
         /\ AssignedIn(s, FlattenSeq(SubSeq(bb, h + 1, k))) \in Seq(ShardKey(s))
         /\ QueueGrows(bb, s, h, k)
<1> DEFINE Y == Seq(X)
           K == ShardKey(s)
           a == SubSeq(bb, 1, h)
           b == SubSeq(bb, h + 1, k)
           c == SubSeq(bb, 1, k)
           fa == FlattenSeq(a)
           fb == FlattenSeq(b)
           x == AssignedIn(s, fa)
           y == AssignedIn(s, fb)
           z == AssignedIn(s, fa \o fb)
           g == ShardGenesis[s]
<1>1. bb \in Seq(Y) /\ Assigning(X)
  BY DEF BlocksOf
<1> HIDE DEF Y
<1>2. SplitAt(bb, h, k) /\ a \in Seq(Y) /\ b \in Seq(Y) /\ c \in Seq(Y)
  BY <1>1, SubSeqSplit
<1>3. c = a \o b
  BY <1>2, Zenon DEF SplitAt
<1> HIDE DEF a, b, c
<1>4. fa \in Seq(X) /\ fb \in Seq(X)
  BY <1>2, FlattenType DEF Y
<1>5. FlattenSeq(c) = fa \o fb
  BY <1>2, <1>3, FlattenConcat DEF Y
<1> HIDE DEF fa, fb
<1>6. AssignedInTurn(s, fa, fb) /\ x \in Seq(Staker) /\ y \in Seq(Staker)
  BY <1>1, <1>4, AssignedConcat
<1>7. z = x \o y
  BY <1>6, Zenon DEF AssignedInTurn
<1> HIDE DEF x, y, z
<1>8. g \in Seq(K)
  BY GenesisType
<1>9. x \in Seq(K) /\ y \in Seq(K)
  <2>1. Staker \subseteq K
    BY DEF ShardKey
  <2> HIDE DEF K
  <2> QED BY <1>6, <2>1, SeqMonotonic
<1> HIDE DEF g, K
<1>10. g \o x \in Seq(K)
  BY <1>8, <1>9
<1>11. (g \o x) \o y = g \o z
  <2>1. InAnyOrder(g, x, y)
    BY <1>8, <1>9, JoinedInAnyOrder, Zenon
  <2> QED BY <1>7, <2>1, Zenon DEF InAnyOrder
<1>12. QueueIn(bb, s, h) = g \o x /\ QueueIn(bb, s, k) = g \o z
  BY <1>5 DEF QueueIn, g, x, z, fa, a, c
<1>13. QueueGrows(bb, s, h, k)
  BY <1>11, <1>12, Zenon DEF QueueGrows, y, fb, b
<1>14. y \in Seq(ShardKey(s)) /\ g \o x \in Seq(ShardKey(s))
  BY <1>9, <1>10 DEF K
<1> QED BY <1>12, <1>13, <1>14 DEF y, fb, b

\* The places of a swap in its queue.
LEMMA PlacesOfSwap ==
  ASSUME NEW m \in Nat, NEW n \in Nat, NEW Top \in Nat, NEW k \in 1..Top, NEW l \in Nat, m + Top + n <= l
  PROVE  m + k \in 1..l /\ (m + k) + n \in 1..l
  OBVIOUS

LEMMA FirstOfJoined ==
  ASSUME NEW K, NEW q \in Seq(K), NEW x \in Seq(K), NEW i \in 1..Len(q)
  PROVE  (q \o x)[i] = q[i]
  OBVIOUS

\* What happened to a queue does not change when it grows.
LEMMA NextSwapsMore ==
  ASSUME NEW K, NEW q \in Seq(K), NEW x \in Seq(K), NEW X, NEW S \in Seq(X), NEW m \in Nat, NEW n \in Nat,
         NEW s, NextSwaps(S, q, m, n, s), m + Len(S) + n <= Len(q)
  PROVE  NextSwaps(S, q \o x, m, n, s)
<1> DEFINE r == q \o x
           Top == Len(S)
           l == Len(q)
<1>1. Top \in Nat /\ l \in Nat /\ m + Top + n <= l
  OBVIOUS
<1>2. \A i \in 1..l : r[i] = q[i]
  BY FirstOfJoined
<1>3. \A k \in 1..Top : S[k] = NthSwap(q, m + k, n, s)
  BY DEF NextSwaps
<1> HIDE DEF r, Top, l
<1>4. ASSUME NEW k \in 1..Top PROVE S[k] = NthSwap(r, m + k, n, s)
  <2>1. m + k \in 1..l /\ (m + k) + n \in 1..l
    BY <1>1, PlacesOfSwap, Zenon
  <2>2. r[m + k] = q[m + k] /\ r[(m + k) + n] = q[(m + k) + n]
    BY <1>2, <2>1, Zenon
  <2> QED BY <1>3, <2>2, Zenon DEF NthSwap
<1> QED BY <1>4 DEF NextSwaps, Top, r

\* Swaps follow swaps.
LEMMA NextSwapsPart ==
  ASSUME NEW X, NEW a \in Seq(X), NEW b \in Seq(X), NEW q, NEW m \in Nat, NEW n, NEW s,
         NextSwaps(a \o b, q, m, n, s)
  PROVE  NextSwaps(a, q, m, n, s) /\ NextSwaps(b, q, m + Len(a), n, s)
<1> DEFINE c == a \o b
<1>1. /\ Len(a) \in Nat /\ Len(b) \in Nat /\ Len(c) = Len(a) + Len(b)
      /\ \A i \in 1..Len(c) : c[i] = IF i <= Len(a) THEN a[i] ELSE b[i - Len(a)]
  OBVIOUS
<1>2. \A k \in 1..Len(c) : c[k] = NthSwap(q, m + k, n, s)
  BY DEF NextSwaps
<1> HIDE DEF c
<1>3. ASSUME NEW k \in 1..Len(a) PROVE a[k] = NthSwap(q, m + k, n, s)
  <2>1. k \in 1..Len(c) /\ k <= Len(a)
    BY <1>1
  <2> QED BY <1>1, <1>2, <2>1
<1>4. ASSUME NEW k \in 1..Len(b) PROVE b[k] = NthSwap(q, (m + Len(a)) + k, n, s)
  <2> DEFINE j == Len(a) + k
  <2>1. j \in 1..Len(c) /\ ~(j <= Len(a)) /\ j - Len(a) = k /\ m + j = (m + Len(a)) + k
    BY <1>1
  <2> HIDE DEF j
  <2>2. c[j] = b[k]
    BY <1>1, <2>1
  <2> QED BY <1>2, <2>1, <2>2
<1> QED BY <1>3, <1>4 DEF NextSwaps

\* One more swap.
LEMMA NextSwapsOne ==
  ASSUME NEW X, NEW a \in Seq(X), NEW l \in X, NEW q, NEW n, NEW s, NEW m \in Nat,
         NextSwaps(a, q, m, n, s), l = NthSwap(q, (m + Len(a)) + 1, n, s)
  PROVE  NextSwaps(a \o <<l>>, q, m, n, s)
<1> DEFINE c == a \o <<l>>
<1>1. /\ Len(a) \in Nat /\ Len(c) = Len(a) + 1
      /\ \A i \in 1..Len(a) : c[i] = a[i]
      /\ c[Len(a) + 1] = l
  OBVIOUS
<1> HIDE DEF c
<1>2. ASSUME NEW k \in 1..Len(c) PROVE c[k] = NthSwap(q, m + k, n, s)
  <2>1. CASE k <= Len(a)
    <3>1. k \in 1..Len(a)
      BY <1>1, <2>1
    <3> QED BY <1>1, <3>1 DEF NextSwaps
  <2>2. CASE ~(k <= Len(a))
    <3>1. k = Len(a) + 1 /\ m + k = (m + Len(a)) + 1
      BY <1>1, <2>2
    <3> QED BY <1>1, <3>1
  <2> QED BY <2>1, <2>2
<1> QED BY <1>2 DEF NextSwaps, c

-----------------------------------------------------------------------------
\* Where the chains stand: the swaps of a shard's blocks are the swaps of its
\* queue in their order; the shard has made all of them with the beacon blocks
\* it has read, the beacon those of the blocks it has taken.
Seats(s) == Len(ShardGenesis[s])
SwapsView(s) == NextSwaps(SwapsOf(shardBlocks[s]), QueueIn(beaconBlocks, s, beacon.height), 0, Seats(s), s)
ShardView(s) ==
  ViewAt(shard[s].committee, shard[s].pending, QueueIn(beaconBlocks, s, shard[s].beaconHeight),
         Len(SwapsOf(shardBlocks[s])), Seats(s))
BeaconView(s) ==
  /\ beacon.bestShard[s] <= Len(shardBlocks[s])
  /\ ViewAt(beacon.ShardCommittee[s], beacon.ShardPending[s], QueueIn(beaconBlocks, s, beacon.height),
            Len(SwapsOf(SubSeq(shardBlocks[s], 1, beacon.bestShard[s]))), Seats(s))
StakesInv ==
  \A s \in Shard : \A x \in ToSet(shardBlocks[s]) :
     /\ x.stakes["shard"] \in Seq(Staker) /\ x.stakes["beacon"] \in Seq(Staker)
     /\ \A l \in ToSet(x.swap) : l.act = "swap"
KnownInsts == \E X : BlocksOf(beaconBlocks, X)
ViewsInv ==
  /\ RewardsInv
  /\ KnownInsts
  /\ StakesInv
  /\ Sound(beacon)
  /\ \A s \in Shard : SwapsView(s)
  /\ \A s \in Shard : ShardView(s)
  /\ \A s \in Shard : BeaconView(s)

\* The blocks of all shards, and their swaps.
AllBlocks == UNION {ToSet(shardBlocks[s]) : s \in Shard}
AllSwaps == UNION {ToSet(x.swap) : x \in AllBlocks}

LEMMA AllBlocksType ==
  ASSUME SwapsInv
  PROVE  /\ \A s \in Shard : shardBlocks[s] \in Seq(AllBlocks)
         /\ \A x \in AllBlocks : x.swap \in Seq(AllSwaps)
<1>1. ASSUME NEW s \in Shard PROVE shardBlocks[s] \in Seq(AllBlocks)
  <2>1. shardBlocks[s] \in Seq(ToSet(shardBlocks[s]))
    BY DEF SwapsInv
  <2>2. ToSet(shardBlocks[s]) \subseteq AllBlocks
    BY DEF AllBlocks
  <2> QED BY <2>1, <2>2, SeqMonotonic
<1>2. ASSUME NEW x \in AllBlocks PROVE x.swap \in Seq(AllSwaps)
  <2>1. Silent(x.swap)
    BY DEF SwapsInv, AllBlocks
  <2>2. x.swap \in Seq(ToSet(x.swap))
    BY <2>1, SilentElements
  <2>3. ToSet(x.swap) \subseteq AllSwaps
    BY DEF AllSwaps
  <2> QED BY <2>2, <2>3, SeqMonotonic
<1> QED BY <1>1, <1>2

\* The swaps of the blocks from the one after i on.
SwapsSplit(q, i, j) == SwapsOf(SubSeq(q, 1, j)) = SwapsOf(SubSeq(q, 1, i)) \o SwapsOf(SubSeq(q, i + 1, j))

LEMMA SwapsAreSplit ==
  ASSUME SwapsInv, NEW s \in Shard, NEW i \in Nat, NEW j \in Nat, i <= j, j <= Len(shardBlocks[s])
  PROVE  /\ SwapsSplit(shardBlocks[s], i, j)
         /\ SwapsOf(SubSeq(shardBlocks[s], 1, i)) \in Seq(AllSwaps)
         /\ SwapsOf(SubSeq(shardBlocks[s], i + 1, j)) \in Seq(AllSwaps)
<1> DEFINE q == shardBlocks[s]
           a == SubSeq(q, 1, i)
           b == SubSeq(q, i + 1, j)
           c == SubSeq(q, 1, j)
<1>1. q \in Seq(AllBlocks) /\ \A x \in AllBlocks : x.swap \in Seq(AllSwaps)
  BY AllBlocksType
<1>2. SplitAt(q, i, j) /\ a \in Seq(AllBlocks) /\ b \in Seq(AllBlocks)
  BY <1>1, SubSeqSplit
<1>3. c = a \o b
  BY <1>2, Zenon DEF SplitAt
<1> HIDE DEF a, b, c, q
<1>4. SwapsInTurn(a, b) /\ SwapsOf(a) \in Seq(AllSwaps)
  BY <1>1, <1>2, SwapsConcat
<1>5. SwapsOf(b) \in Seq(AllSwaps)
  BY <1>1, <1>2, SwapsConcat
<1>6. SwapsOf(c) = SwapsOf(a) \o SwapsOf(b)
  BY <1>3, <1>4, Zenon DEF SwapsInTurn
<1>7. SwapsSplit(q, i, j)
  BY <1>6, Zenon DEF SwapsSplit, a, b, c
<1> QED BY <1>4, <1>5, <1>7 DEF a, b, q

LEMMA WholeSubSeq ==
  ASSUME NEW X, NEW q \in Seq(X)
  PROVE  SubSeq(q, 1, Len(q)) = q
  OBVIOUS

\* The first swaps of a shard, up to its block i or j, from its queue.
LEMMA SwapsInView ==
  ASSUME ViewsInv, NEW s \in Shard, NEW i \in Nat, NEW j \in Nat, i <= j, j <= Len(shardBlocks[s])
  PROVE  LET q == QueueIn(beaconBlocks, s, beacon.height)
             a == SwapsOf(SubSeq(shardBlocks[s], 1, i))
             b == SwapsOf(SubSeq(shardBlocks[s], i + 1, j))
             c == SwapsOf(SubSeq(shardBlocks[s], 1, j))
         IN  /\ q \in Seq(ShardKey(s)) /\ b \in Seq(AllSwaps)
             /\ NextSwaps(b, q, Len(a), Seats(s), s)
             /\ Len(a) + Len(b) = Len(c) /\ Len(a) + Len(b) + Seats(s) <= Len(q)
<1> DEFINE q == QueueIn(beaconBlocks, s, beacon.height)
           p == QueueIn(beaconBlocks, s, shard[s].beaconHeight)
           blocks == shardBlocks[s]
           Top == Len(blocks)
           a == SwapsOf(SubSeq(blocks, 1, i))
           b == SwapsOf(SubSeq(blocks, i + 1, j))
           c == SwapsOf(SubSeq(blocks, 1, j))
           e == SwapsOf(SubSeq(blocks, j + 1, Top))
           S == SwapsOf(blocks)
           n == Seats(s)
<1>1. BeaconInv /\ SwapsInv /\ PaidInv /\ KnownInsts /\ ShardView(s) /\ SwapsView(s)
  BY DEF ViewsInv, RewardsInv
<1>2. Top \in Nat /\ j <= Top /\ blocks \in Seq(AllBlocks)
  <2>1. blocks \in Seq(AllBlocks)
    BY <1>1, AllBlocksType
  <2> QED BY <2>1
<1>3. SwapsSplit(blocks, i, j) /\ a \in Seq(AllSwaps) /\ b \in Seq(AllSwaps)
  <2>1. SwapsInv
    BY <1>1
  <2> QED BY <2>1, SwapsAreSplit
<1>4. SwapsSplit(blocks, j, Top) /\ c \in Seq(AllSwaps) /\ e \in Seq(AllSwaps)
  <2>1. SwapsInv /\ Top \in Nat /\ j <= Top /\ Top <= Len(shardBlocks[s])
    BY <1>1, <1>2
  <2> HIDE DEF Top
  <2>2. SwapsSplit(shardBlocks[s], j, Top) /\ c \in Seq(AllSwaps)
    BY <2>1, SwapsAreSplit
  <2>3. e \in Seq(AllSwaps)
    BY <2>1, SwapsAreSplit
  <2> QED BY <2>2, <2>3
<1>5. SubSeq(blocks, 1, Top) = blocks
  BY <1>2, WholeSubSeq
<1>6. S = c \o e
  BY <1>4, <1>5, Zenon DEF SwapsSplit
<1>7. c = a \o b
  BY <1>3, Zenon DEF SwapsSplit
<1>8. NextSwaps(S, q, 0, n, s)
  BY <1>1 DEF SwapsView
<1>9. ViewAt(shard[s].committee, shard[s].pending, p, Len(S), n)
  BY <1>1 DEF ShardView
<1>10. PICK X : BlocksOf(beaconBlocks, X)
  BY <1>1 DEF KnownInsts
<1>11. /\ shard[s].beaconHeight \in Nat /\ shard[s].beaconHeight <= beacon.height
       /\ beacon.height \in Nat /\ beacon.height <= Len(beaconBlocks)
  BY <1>1 DEF BeaconInv, PaidInv
<1> DEFINE x == AssignedIn(s, FlattenSeq(SubSeq(beaconBlocks, shard[s].beaconHeight + 1, beacon.height)))
<1>12. p \in Seq(ShardKey(s)) /\ x \in Seq(ShardKey(s)) /\ QueueGrows(beaconBlocks, s, shard[s].beaconHeight, beacon.height)
  BY <1>10, <1>11, QueueSplit
<1>13. q = p \o x
  BY <1>12, Zenon DEF QueueGrows
<1> HIDE DEF a, b, c, e, S, Top, p, q, x, n, blocks
<1>14. q \in Seq(ShardKey(s)) /\ Len(q) = Len(p) + Len(x) /\ Len(p) \in Nat /\ Len(x) \in Nat
  <2>1. p \in Seq(ShardKey(s)) /\ x \in Seq(ShardKey(s))
    BY <1>12
  <2> QED BY <1>13, <2>1
<1>15. Len(S) \in Nat /\ n \in Nat \ {0} /\ Len(S) + n <= Len(p)
  BY <1>9 DEF ViewAt
<1>16. /\ Len(a) \in Nat /\ Len(b) \in Nat /\ Len(e) \in Nat
       /\ Len(c) = Len(a) + Len(b) /\ Len(S) = Len(c) + Len(e)
  <2>1. a \in Seq(AllSwaps) /\ b \in Seq(AllSwaps) /\ c \in Seq(AllSwaps) /\ e \in Seq(AllSwaps)
    BY <1>3, <1>4
  <2>2. Len(c) = Len(a) + Len(b)
    BY <1>7, <2>1
  <2>3. Len(S) = Len(c) + Len(e)
    BY <1>6, <2>1
  <2> QED BY <2>1, <2>2, <2>3
<1>17. NextSwaps(c, q, 0, n, s)
  <2>1. NextSwaps(c \o e, q, 0, n, s)
    BY <1>6, <1>8
  <2>2. c \in Seq(AllSwaps) /\ e \in Seq(AllSwaps) /\ 0 \in Nat
    BY <1>4
  <2> QED BY <2>1, <2>2, NextSwapsPart
<1>18. NextSwaps(b, q, 0 + Len(a), n, s)
  <2>1. NextSwaps(a \o b, q, 0, n, s)
    BY <1>7, <1>17
  <2>2. a \in Seq(AllSwaps) /\ b \in Seq(AllSwaps) /\ 0 \in Nat
    BY <1>3
  <2> QED BY <2>1, <2>2, NextSwapsPart
<1>19. 0 + Len(a) = Len(a) /\ Len(a) + Len(b) + n <= Len(q)
  BY <1>14, <1>15, <1>16
<1>20. NextSwaps(b, q, Len(a), n, s)
  BY <1>18, <1>19
<1>21. b \in Seq(AllSwaps)
  BY <1>3
<1> QED BY <1>14, <1>16, <1>19, <1>20, <1>21 DEF q, a, b, c, n, blocks

\* A shard and the beacon agree.
LEMMA ViewsInvAgree ==
  ASSUME ViewsInv
  PROVE  ViewsAgree
<1>1. SUFFICES ASSUME NEW s \in Shard
               PROVE  LET waiting == SubSeq(shardBlocks[s], beacon.bestShard[s] + 1, Len(shardBlocks[s]))
                          seen == ApplyInstructions(beacon, SwapsOf(waiting))
                      IN  /\ seen.ok
                          /\ seen.ShardCommittee[s] = shard[s].committee
                          /\ seen.ShardPending[s] = shard[s].pending
                                                    \o AssignedIn(s, NewInstructions(s, beacon.height))
  BY DEF ViewsAgree, SwapsOf
<1> DEFINE q == QueueIn(beaconBlocks, s, beacon.height)
           p == QueueIn(beaconBlocks, s, shard[s].beaconHeight)
           blocks == shardBlocks[s]
           upTo == beacon.bestShard[s]
           Top == Len(blocks)
           a == SwapsOf(SubSeq(blocks, 1, upTo))
           b == SwapsOf(SubSeq(blocks, upTo + 1, Top))
           c == SwapsOf(SubSeq(blocks, 1, Top))
           n == Seats(s)
           seen == ApplyInstructions(beacon, b)
           x == AssignedIn(s, FlattenSeq(SubSeq(beaconBlocks, shard[s].beaconHeight + 1, beacon.height)))
<1>2. /\ BeaconInv /\ SwapsInv /\ PaidInv /\ KnownInsts /\ Sound(beacon)
      /\ ShardView(s) /\ SwapsView(s) /\ BeaconView(s)
  BY DEF ViewsInv, RewardsInv
<1>3. upTo \in Nat /\ upTo <= Top /\ Top \in Nat /\ blocks \in Seq(AllBlocks)
  <2>1. blocks \in Seq(AllBlocks)
    BY <1>2, AllBlocksType
  <2>2. upTo \in Nat /\ upTo <= Top
    BY <1>2 DEF BeaconInv, BeaconView
  <2> QED BY <2>1, <2>2
<1>4. /\ q \in Seq(ShardKey(s)) /\ b \in Seq(AllSwaps) /\ NextSwaps(b, q, Len(a), n, s)
      /\ Len(a) + Len(b) = Len(c) /\ Len(a) + Len(b) + n <= Len(q)
  <2>1. Top <= Len(shardBlocks[s])
    BY <1>3
  <2> QED BY <1>3, <2>1, SwapsInView
<1>5. c = SwapsOf(blocks)
  <2>1. SubSeq(blocks, 1, Top) = blocks
    BY <1>3, WholeSubSeq
  <2> QED BY <2>1
<1>6. ViewAt(beacon.ShardCommittee[s], beacon.ShardPending[s], q, Len(a), n)
  BY <1>2 DEF BeaconView
<1>7. ViewAt(shard[s].committee, shard[s].pending, p, Len(c), n)
  BY <1>2, <1>5 DEF ShardView
<1>8. PICK X : BlocksOf(beaconBlocks, X)
  BY <1>2 DEF KnownInsts
<1>9. /\ shard[s].beaconHeight \in Nat /\ shard[s].beaconHeight <= beacon.height
      /\ beacon.height \in Nat /\ beacon.height <= Len(beaconBlocks)
  BY <1>2 DEF BeaconInv, PaidInv
<1>10. p \in Seq(ShardKey(s)) /\ x \in Seq(ShardKey(s)) /\ QueueGrows(beaconBlocks, s, shard[s].beaconHeight, beacon.height)
  BY <1>8, <1>9, QueueSplit
<1>11. q = p \o x
  BY <1>10, Zenon DEF QueueGrows
<1>12. x = AssignedIn(s, NewInstructions(s, beacon.height))
  BY DEF NewInstructions
<1> HIDE DEF q, p, blocks, upTo, Top, a, b, c, n, x
<1>13. Advances(beacon, seen, s, q, Len(a) + Len(b), n)
  BY <1>2, <1>4, <1>6, ApplyNextSwaps
<1>14. Sound(seen) /\ ViewAt(seen.ShardCommittee[s], seen.ShardPending[s], q, Len(c), n)
  BY <1>4, <1>13 DEF Advances
<1>15. ViewAt(shard[s].committee, shard[s].pending \o x, q, Len(c), n)
  BY <1>7, <1>10, <1>11, ViewMore
<1>16. seen.ok
  BY <1>14 DEF Sound
<1>17. seen.ShardCommittee[s] = shard[s].committee /\ seen.ShardPending[s] = shard[s].pending \o x
  <2> HIDE DEF seen
  <2> QED BY <1>14, <1>15 DEF ViewAt
<1> QED BY <1>12, <1>16, <1>17 DEF b, blocks, upTo, Top

\* Blocks without swaps, beacon blocks without assignments.
LEMMA NoSwaps == SwapsOf(<<>>) = <<>>
<1> DEFINE e == <<>>
<1>1. e \in Seq({}) /\ \A x \in {} : x.swap \in Seq({})
  OBVIOUS
<1> HIDE DEF e
<1>2. SwapsOf(e) \in Seq({})
  BY <1>1, SwapsConcat
<1>3. \A t \in Seq({}) : t = <<>>
  OBVIOUS
<1> QED BY <1>2, <1>3 DEF e

LEMMA GenesisQueue ==
  ASSUME NEW s \in Shard, NEW bb, bb = << <<>> >>
  PROVE  QueueIn(bb, s, 1) = ShardGenesis[s] /\ BlocksOf(bb, {})
<1> DEFINE c == SubSeq(bb, 1, 1)
           f == FlattenSeq(c)
           g == ShardGenesis[s]
<1>1. bb \in Seq(Seq({}))
  OBVIOUS
<1>2. c \in Seq(Seq({}))
  BY <1>1
<1> HIDE DEF c
<1>3. f \in Seq({})
  BY <1>2, FlattenType
<1> HIDE DEF f
<1>4. AssignedIn(s, f) = <<>>
  BY <1>3, AssignedNone
<1>5. g \in Seq(ShardKey(s))
  BY GenesisType
<1> HIDE DEF g
<1>6. g \o <<>> = g
  BY <1>5
<1>7. QueueIn(bb, s, 1) = g
  BY <1>4, <1>6 DEF QueueIn, g, f, c
<1>8. BlocksOf(bb, {})
  BY <1>1 DEF BlocksOf, Assigning
<1> QED BY <1>7, <1>8 DEF g

\* The genesis blocks.
LEMMA ViewsInvInit ==
  ASSUME CommitteesInit
  PROVE  ViewsInv
<1>1. RewardsInv
  BY RewardsInvInit
<1>2. /\ beacon = GenesisBeacon /\ beaconBlocks = << <<>> >>
      /\ shard = [s \in Shard |-> GenesisShard(s)] /\ shardBlocks = [s \in Shard |-> <<>>]
  BY DEF CommitteesInit
<1>3. KnownInsts
  <2>1. << <<>> >> \in Seq(Seq({})) /\ Assigning({})
    BY DEF Assigning
  <2>2. BlocksOf(beaconBlocks, {})
    BY <1>2, <2>1 DEF BlocksOf
  <2> QED BY <2>2 DEF KnownInsts
<1>4. StakesInv
  <2>1. ToSet(<<>>) = {}
    BY DEF ToSet
  <2> QED BY <1>2, <2>1 DEF StakesInv
<1>5. Sound(beacon)
  <2>1. /\ DOMAIN beacon = BestStateFields /\ beacon.ok
        /\ beacon.ShardCommittee = ShardGenesis /\ beacon.ShardPending = [s \in Shard |-> <<>>]
        /\ beacon.BeaconCommittee = BeaconGenesis /\ beacon.BeaconPending = <<>>
        /\ beacon.beaconCurrent = <<>> /\ beacon.beaconNext = <<>>
        /\ beacon.shardCurrent = <<>> /\ beacon.shardNext = <<>>
    BY <1>2 DEF GenesisBeacon, BestStateFields
  <2>2. DOMAIN ShardGenesis = Shard
    BY GenesisAssumption
  <2>3. BeaconGenesis \in Seq(BeaconKey)
    <3> DEFINE g == BeaconGenesis
               R == Range(g)
    <3>1. g \in Seq(R)
      BY GenesisAssumption
    <3>2. R \subseteq BeaconKey
      BY DEF BeaconKey
    <3> HIDE DEF R, g
    <3>3. g \in Seq(BeaconKey)
      BY <3>1, <3>2, SeqMonotonic
    <3> QED BY <3>3 DEF g
  <2>4. <<>> \in Seq(Staker)
    OBVIOUS
  <2> QED BY <2>1, <2>2, <2>3, <2>4 DEF Sound
<1>6. ASSUME NEW s \in Shard PROVE SwapsView(s) /\ ShardView(s) /\ BeaconView(s)
  <2> DEFINE g == ShardGenesis[s]
             n == Len(g)
  <2>1. g \in Seq(ShardKey(s)) /\ g # <<>>
    BY GenesisType
  <2>2. QueueIn(beaconBlocks, s, 1) = g
    BY <1>2, GenesisQueue
  <2>3. shardBlocks[s] = <<>>
    BY <1>2
  <2>4. SwapsOf(shardBlocks[s]) = <<>> /\ Len(<<>>) = 0
    BY <2>3, NoSwaps
  <2>5. beacon.height = 1 /\ beacon.bestShard[s] = 0 /\ beacon.ShardCommittee[s] = g /\ beacon.ShardPending[s] = <<>>
    BY <1>2 DEF GenesisBeacon
  <2>6. shard[s].beaconHeight = 1 /\ shard[s].committee = g /\ shard[s].pending = <<>>
    BY <1>2 DEF GenesisShard
  <2>7. ViewAt(g, <<>>, g, 0, n)
    <3> HIDE DEF g
    <3>1. n \in Nat \ {0} /\ 0 + n = n /\ 0 + 1 = 1 /\ 0 + n + 1 = n + 1
      BY <2>1
    <3>2. g = SubSeq(g, 1, n)
      BY <2>1, WholeSubSeq
    <3>3. SubSeq(g, n + 1, Len(g)) = <<>>
      BY <2>1
    <3> HIDE DEF n
    <3>4. SubSeq(g, 0 + n + 1, Len(g)) = <<>> /\ SubSeq(g, 0 + 1, 0 + n) = g
      BY <3>1, <3>2, <3>3
    <3>5. 0 + n <= Len(g)
      BY <3>1 DEF n
    <3> QED BY <3>1, <3>4, <3>5 DEF ViewAt
  <2>8. SwapsView(s)
    <3>1. 1..0 = {}
      OBVIOUS
    <3> QED BY <2>4, <3>1 DEF SwapsView, NextSwaps
  <2>9. ShardView(s)
    BY <2>2, <2>4, <2>6, <2>7 DEF ShardView, Seats
  <2>10. BeaconView(s)
    <3>1. SubSeq(shardBlocks[s], 1, 0) = shardBlocks[s]
      BY <2>3
    <3>2. 0 <= Len(shardBlocks[s])
      BY <2>3
    <3> QED BY <2>2, <2>4, <2>5, <2>7, <3>1, <3>2 DEF BeaconView, Seats
  <2> QED BY <2>8, <2>9, <2>10
<1> QED BY <1>1, <1>3, <1>4, <1>5, <1>6 DEF ViewsInv

-----------------------------------------------------------------------------
\* Shard blocks.

\* The swap of a shard block, and what Update of the shard makes of it.
SwapsAlong(own, upd, q, m, n, s) ==
  \/ own = <<>> /\ ViewAt(upd.committee, upd.pending, q, m, n)
  \/ /\ own = <<NthSwap(q, m + 1, n, s)>> /\ (m + 1) + n <= Len(q)
     /\ ViewAt(upd.committee, upd.pending, q, m + 1, n)

LEMMA SwapActionView ==
  ASSUME OFFSET = 1, NEW s \in Shard, NEW at, NEW insts, NEW q \in Seq(ShardKey(s)), NEW m,
         ViewAt(shard[s].committee, shard[s].pending \o AssignedIn(s, insts), q, m, Seats(s))
  PROVE  SwapsAlong(SwapAction(s, at, insts), UpdateShard(s, at, insts, SwapAction(s, at, insts)),
                    q, m, Seats(s), s)
<1> DEFINE c == shard[s].committee
           p == shard[s].pending \o AssignedIn(s, insts)
           n == Len(ShardGenesis[s])
           swap == SwapValidator(p, c, n)
           own == SwapAction(s, at, insts)
           upd == UpdateShard(s, at, insts, own)
           K == ShardKey(s)
<1>1. ViewAt(c, p, q, m, n)
  BY DEF Seats
<1>2. own = IF at.height % EPOCH = 0 /\ p # <<>> THEN <<Swap(swap.in, swap.out, "shard", s)>> ELSE <<>>
  BY DEF SwapAction
<1>3. own = <<>> => upd.committee = c /\ upd.pending = p
  BY DEF UpdateShard
<1>4. own # <<>> => upd.committee = swap.current /\ upd.pending = swap.pending
  <2> DEFINE known == RememberStakes(shard[s].stakingTx, insts)
             left == [k \in DOMAIN known \ Range(own[1].out) |-> known[k]]
             seen == [beaconHeight |-> at.height, epoch |-> at.epoch, committee |-> c,
                      pending |-> p, stakingTx |-> known]
             a == swap.current
             b == swap.pending
             after == [seen EXCEPT !.committee = a, !.pending = b, !.stakingTx = left]
  <2>1. upd = IF own = <<>> THEN seen ELSE after
    BY DEF UpdateShard
  <2> HIDE DEF known, left, a, b, upd, own
  <2>2. after.committee = a /\ after.pending = b
    OBVIOUS
  <2> HIDE DEF after, seen
  <2>3. own # <<>> => upd.committee = a /\ upd.pending = b
    BY <2>1, <2>2
  <2> QED BY <2>3 DEF a, b
<1> HIDE DEF own, upd, c, p
<1>5. Elements(c, p, q, m, n, K)
  BY <1>1, ViewFacts, Zenon
<1>6. /\ m \in Nat /\ n \in Nat \ {0} /\ Len(q) \in Nat /\ m + n <= Len(q)
      /\ c \in Seq(K) /\ Len(c) = n
      /\ p \in Seq(K) /\ Len(p) = Len(q) - (m + n)
  BY <1>5 DEF Elements
<1>7. \A i \in 1..n : c[i] = q[m + i]
  BY <1>5 DEF Elements
<1>8. \A i \in 1..Len(p) : p[i] = q[m + n + i]
  BY <1>5 DEF Elements
<1> HIDE DEF K, n
<1>9. CASE own = <<>>
  <2>1. SwapsAlong(own, upd, q, m, n, s)
    BY <1>1, <1>3, <1>9 DEF SwapsAlong
  <2> QED BY <2>1 DEF own, upd, n, Seats
<1>10. CASE own # <<>>
  <2>1. p # <<>> /\ own = <<Swap(swap.in, swap.out, "shard", s)>>
    BY <1>2, <1>10
  <2> DEFINE x == <<p[1]>>
             y == <<c[1]>>
             c2 == Drop(c, 1) \o x
             p2 == Drop(p, 1)
  <2>2. swap.in = x /\ swap.out = y /\ swap.current = c2 /\ swap.pending = p2
    <3>1. p \in Seq(K) /\ c \in Seq(K) /\ n \in Nat \ {0} /\ p # <<>> /\ Len(c) = n
      BY <1>6, <2>1
    <3>2. SwapsFirst(swap, p, c)
      BY <3>1, SwapOne, Zenon
    <3> QED BY <3>2 DEF SwapsFirst
  <2> HIDE DEF swap
  <2>3. Len(p) >= 1 /\ 1 \in 1..Len(p) /\ 1 \in 1..n /\ m + n + 1 = (m + 1) + n
    BY <1>6, <2>1
  <2>4. c[1] = q[m + 1] /\ p[1] = q[(m + 1) + n]
    BY <1>7, <1>8, <2>3
  <2>5. own = <<NthSwap(q, m + 1, n, s)>>
    BY <2>1, <2>2, <2>4 DEF NthSwap
  <2>6. ViewAt(c2, p2, q, m + 1, n)
    BY <1>1, <1>6, <2>1, ViewStep
  <2>7. (m + 1) + n <= Len(q)
    BY <1>6, <2>3
  <2>8. upd.committee = c2 /\ upd.pending = p2
    BY <1>4, <1>10, <2>2
  <2>9. SwapsAlong(own, upd, q, m, n, s)
    <3> HIDE DEF c2, p2
    <3>1. ViewAt(upd.committee, upd.pending, q, m + 1, n)
      BY <2>6, <2>8
    <3> QED BY <2>5, <2>7, <3>1 DEF SwapsAlong
  <2> QED BY <2>9 DEF own, upd, n, Seats
<1> QED BY <1>9, <1>10

\* The swap of a block is the last of its shard.
SwapsThen(q, x) == SwapsOf(Append(q, x)) = SwapsOf(q) \o x.swap

LEMMA SwapsAppend ==
  ASSUME NEW B, NEW X, \A x \in B : x.swap \in Seq(X), NEW q \in Seq(B), NEW x \in B
  PROVE  SwapsThen(q, x)
<1> DEFINE e == <<x>>
           F == [i \in DOMAIN e |-> e[i].swap]
           w == x.swap
<1>1. e \in Seq(B) /\ DOMAIN e = 1..1 /\ e[1] = x /\ Append(q, x) = q \o e
  OBVIOUS
<1>2. w \in Seq(X)
  OBVIOUS
<1>3. F = [i \in 1..1 |-> w]
  BY <1>1
<1> HIDE DEF e
<1>4. SwapsInTurn(q, e)
  BY <1>1, SwapsConcat
<1> HIDE DEF w
<1>5. F = <<w>>
  <2>1. [i \in 1..1 |-> w] = <<w>>
    OBVIOUS
  <2> QED BY <1>3, <2>1
<1>6. SwapsOf(e) = w
  <2>1. FlattenSeq(<<w>>) = w
    BY <1>2, FlattenOne
  <2> QED BY <1>5, <2>1 DEF SwapsOf
<1>7. SwapsOf(q \o e) = SwapsOf(q) \o SwapsOf(e)
  BY <1>4, Zenon DEF SwapsInTurn
<1> QED BY <1>1, <1>6, <1>7, Zenon DEF SwapsThen, w

\* The blocks up to a height stay when one more is appended.
LEMMA SubSeqAppend ==
  ASSUME NEW X, NEW q \in Seq(X), NEW x \in X, NEW i \in Nat, i <= Len(q)
  PROVE  SubSeq(Append(q, x), 1, i) = SubSeq(q, 1, i)
<1> DEFINE r == Append(q, x)
           a == SubSeq(r, 1, i)
           b == SubSeq(q, 1, i)
<1>1. r \in Seq(X) /\ Len(r) = Len(q) + 1 /\ \A k \in 1..Len(q) : r[k] = q[k]
  OBVIOUS
<1> HIDE DEF r
<1>2. a \in Seq(X) /\ Len(a) = i /\ \A k \in 1..i : a[k] = r[k]
  BY <1>1
<1>3. b \in Seq(X) /\ Len(b) = i /\ \A k \in 1..i : b[k] = q[k]
  OBVIOUS
<1> HIDE DEF a, b
<1>4. ASSUME NEW k \in 1..Len(a) PROVE a[k] = b[k]
  <2>1. k \in 1..i
    BY <1>2
  <2>2. Len(q) \in Nat
    OBVIOUS
  <2>3. k \in 1..Len(q)
    BY <2>1, <2>2
  <2> QED BY <1>1, <1>2, <1>3, <2>1, <2>3
<1>5. a = b
  BY <1>2, <1>3, <1>4, SeqEqual
<1> QED BY <1>5 DEF a, b, r

\* It is a swap.
LEMMA SwapsAlongActs ==
  ASSUME NEW own, NEW upd, NEW q, NEW m, NEW n, NEW s, SwapsAlong(own, upd, q, m, n, s)
  PROVE  \A l \in ToSet(own) : l.act = "swap"
<1> DEFINE l == NthSwap(q, m + 1, n, s)
           e == <<l>>
<1>1. own = <<>> \/ own = e
  BY DEF SwapsAlong
<1>2. l.act = "swap"
  BY DEF NthSwap, Swap
<1> HIDE DEF l
<1>3. DOMAIN e = {1} /\ e[1] = l
  OBVIOUS
<1> HIDE DEF e
<1>4. ToSet(e) = {l}
  BY <1>3 DEF ToSet
<1>5. ToSet(<<>>) = {}
  BY DEF ToSet
<1> QED BY <1>1, <1>2, <1>4, <1>5

\* A shard block that refers to beacon height h.
LEMMA NewBlockShardViews ==
  ASSUME OFFSET = 1, ViewsInv, NEW s \in Shard, NEW h \in shard[s].beaconHeight..beacon.height,
         NEW sh \in Seq(Staker), NEW be \in Seq(Staker), NewBlockShard(s, h, sh, be)
  PROVE  ViewsInv'
<1> DEFINE at == HeightAndEpoch(s, h)
           to == at.height
           insts == NewInstructions(s, to)
           own == SwapAction(s, at, insts)
           stakers == Range(sh) \cup Range(be)
           staked == [kind \in {"shard", "beacon"} |-> IF kind = "shard" THEN sh ELSE be]
           blk == [signers |-> shard[s].committee, swap |-> own, stakes |-> staked,
                   txs |-> [k \in stakers |-> [key |-> k, n |-> stakes[k] + 1]]]
           upd == UpdateShard(s, at, insts, own)
           blocks == shardBlocks[s]
           S == SwapsOf(blocks)
           M == Len(S)
           n == Seats(s)
           from == shard[s].beaconHeight
           p == QueueIn(beaconBlocks, s, from)
           q == QueueIn(beaconBlocks, s, to)
           r == QueueIn(beaconBlocks, s, beacon.height)
           x == AssignedIn(s, FlattenSeq(SubSeq(beaconBlocks, from + 1, to)))
           y == AssignedIn(s, FlattenSeq(SubSeq(beaconBlocks, to + 1, beacon.height)))
<1>1. /\ RewardsInv /\ BeaconInv /\ SwapsInv /\ PaidInv /\ KnownInsts /\ StakesInv /\ Sound(beacon)
      /\ \A t \in Shard : SwapsView(t) /\ ShardView(t) /\ BeaconView(t)
  BY DEF ViewsInv, RewardsInv
<1>2. RewardsInv'
  BY <1>1, NewBlockShardKeeps
<1>3. /\ at.height >= shard[s].beaconHeight
      /\ shardBlocks' = [shardBlocks EXCEPT ![s] = Append(@, blk)]
      /\ shard' = [shard EXCEPT ![s] = upd]
      /\ UNCHANGED <<beacon, beaconBlocks>>
  BY DEF NewBlockShard
<1>4. blk.swap = own /\ blk.stakes["shard"] = sh /\ blk.stakes["beacon"] = be
  <2>1. staked["shard"] = sh /\ staked["beacon"] = be
    OBVIOUS
  <2> HIDE DEF staked, own
  <2> QED BY <2>1
<1>5. upd.beaconHeight = to
  <2> HIDE DEF at, insts, own
  <2>1. LET c == UpdateShard(s, at, insts, own)
        IN  c.beaconHeight = at.height /\ c.epoch = at.epoch
    BY UpdateShardHeight
  <2> QED BY <2>1
<1>6. beacon.height \in Nat \ {0} /\ Len(beaconBlocks) = beacon.height
  BY <1>1 DEF BeaconInv
<1>7. to \in Nat /\ to <= beacon.height
  BY <1>1, <1>6, HeightAndEpochType
<1>8. from \in Nat /\ from <= to /\ from <= beacon.height
  <2>1. from \in 1..beacon.height
    BY <1>1 DEF PaidInv
  <2>2. to >= from
    BY <1>3
  <2> HIDE DEF from, to
  <2> QED BY <1>6, <1>7, <2>1, <2>2
<1>9. PICK X : BlocksOf(beaconBlocks, X)
  BY <1>1 DEF KnownInsts
<1>10. p \in Seq(ShardKey(s)) /\ x \in Seq(ShardKey(s)) /\ QueueGrows(beaconBlocks, s, from, to)
  <2>1. to <= Len(beaconBlocks)
    BY <1>6, <1>7
  <2> HIDE DEF from, to
  <2> QED BY <1>7, <1>8, <1>9, <2>1, QueueSplit
<1>11. q \in Seq(ShardKey(s)) /\ y \in Seq(ShardKey(s)) /\ QueueGrows(beaconBlocks, s, to, beacon.height)
  <2>1. beacon.height <= Len(beaconBlocks)
    BY <1>6
  <2> HIDE DEF from, to
  <2> QED BY <1>6, <1>7, <1>9, <2>1, QueueSplit
<1>12. q = p \o x /\ r = q \o y
  BY <1>10, <1>11, Zenon DEF QueueGrows
<1>13. x = AssignedIn(s, insts)
  BY DEF NewInstructions
<1>14. ViewAt(shard[s].committee, shard[s].pending, p, M, n)
  BY <1>1 DEF ShardView
<1>15. M \in Nat /\ n \in Nat \ {0} /\ Len(p) \in Nat /\ M + n <= Len(p)
  <2> HIDE DEF M, n, p
  <2>1. Len(p) \in Nat
    BY <1>10
  <2> QED BY <1>14, <2>1 DEF ViewAt
<1> HIDE DEF p, q, r, x, y, M, n, to
<1>16. ViewAt(shard[s].committee, shard[s].pending \o AssignedIn(s, insts), q, M, n)
  BY <1>10, <1>12, <1>13, <1>14, ViewMore
<1>17. SwapsAlong(own, upd, q, M, n, s)
  <2> HIDE DEF at, insts
  <2> QED BY <1>11, <1>16, SwapActionView DEF n
<1>18. DOMAIN shardBlocks = Shard /\ DOMAIN shard = Shard
  BY <1>1 DEF SwapsInv, PaidInv
<1> HIDE DEF at, insts, own, upd, blk
<1>19. /\ shardBlocks'[s] = Append(blocks, blk) /\ shard'[s] = upd
       /\ \A t \in Shard : t # s => shardBlocks'[t] = shardBlocks[t] /\ shard'[t] = shard[t]
       /\ beacon' = beacon /\ beaconBlocks' = beaconBlocks
  BY <1>3, <1>18
<1>20. /\ \A t \in Shard : shardBlocks[t] \in Seq(AllBlocks)
       /\ \A b \in AllBlocks : b.swap \in Seq(AllSwaps)
  BY <1>1, AllBlocksType
<1> DEFINE B == AllBlocks \cup {blk}
           Z == AllSwaps \cup ToSet(own)
<1>21. blocks \in Seq(B) /\ blk \in B /\ own \in Seq(Z) /\ \A b \in B : b.swap \in Seq(Z)
  <2>1. AllBlocks \subseteq B /\ AllSwaps \subseteq Z /\ ToSet(own) \subseteq Z /\ blk \in B
    OBVIOUS
  <2>2. own \in Seq(ToSet(own))
    <3> DEFINE l == NthSwap(q, M + 1, n, s)
               E == {l}
    <3>1. own = <<>> \/ own = <<l>>
      BY <1>17 DEF SwapsAlong
    <3>2. l \in E
      OBVIOUS
    <3> HIDE DEF l, E
    <3>3. <<>> \in Seq(E) /\ <<l>> \in Seq(E)
      BY <3>2
    <3>4. own \in Seq(E)
      BY <3>1, <3>3
    <3> QED BY <3>4, SequenceOfItsElements
  <2>3. \A b \in B : b \in AllBlocks \/ b = blk
    OBVIOUS
  <2> HIDE DEF B, Z
  <2>4. own \in Seq(Z)
    BY <2>1, <2>2, SeqMonotonic
  <2>5. blocks \in Seq(B)
    BY <1>20, <2>1, SeqMonotonic
  <2>6. ASSUME NEW b \in B PROVE b.swap \in Seq(Z)
    <3>1. CASE b \in AllBlocks
      <4>1. b.swap \in Seq(AllSwaps)
        BY <1>20, <3>1
      <4> QED BY <2>1, <4>1, SeqMonotonic
    <3>2. CASE b = blk
      BY <1>4, <2>4, <3>2
    <3> QED BY <2>3, <3>1, <3>2
  <2> QED BY <2>1, <2>4, <2>5, <2>6
<1>22. S \in Seq(Z)
  <2> HIDE DEF B, Z
  <2> QED BY <1>21, SwapsConcat
<1>23. SwapsOf(Append(blocks, blk)) = S \o own
  <2> HIDE DEF B, Z
  <2>1. SwapsThen(blocks, blk)
    BY <1>21, SwapsAppend
  <2> QED BY <1>4, <2>1, Zenon DEF SwapsThen
<1> HIDE DEF B, Z
<1>24. KnownInsts' /\ Sound(beacon')
  BY <1>1, <1>19 DEF KnownInsts
<1>25. StakesInv'
  <2> DEFINE c == Append(blocks, blk)
             T == ToSet(blocks) \cup {blk}
  <2>1. blocks \in Seq(ToSet(blocks))
    BY <1>1 DEF SwapsInv
  <2>2. ToSet(blocks) \subseteq T /\ blk \in T
    OBVIOUS
  <2>3. \A b \in T : /\ b.stakes["shard"] \in Seq(Staker) /\ b.stakes["beacon"] \in Seq(Staker)
                     /\ \A l \in ToSet(b.swap) : l.act = "swap"
    <3>1. \A l \in ToSet(own) : l.act = "swap"
      BY <1>17, SwapsAlongActs
    <3> QED BY <1>1, <1>4, <3>1 DEF StakesInv
  <2> HIDE DEF T, blocks
  <2>4. blocks \in Seq(T)
    BY <2>1, <2>2, SeqMonotonic
  <2>5. c \in Seq(T)
    BY <2>2, <2>4
  <2> HIDE DEF c
  <2>6. ToSet(c) \subseteq T
    BY <2>5, SequenceOfItsElements
  <2>7. ASSUME NEW t \in Shard, NEW b \in ToSet(shardBlocks'[t])
        PROVE  /\ b.stakes["shard"] \in Seq(Staker) /\ b.stakes["beacon"] \in Seq(Staker)
               /\ \A l \in ToSet(b.swap) : l.act = "swap"
    <3>1. CASE t = s
      <4>1. b \in T
        BY <1>19, <2>6, <3>1 DEF c
      <4> QED BY <2>3, <4>1
    <3>2. CASE t # s
      BY <1>1, <1>19, <3>2 DEF StakesInv
    <3> QED BY <3>1, <3>2
  <2> QED BY <2>7 DEF StakesInv
<1>26. ASSUME NEW t \in Shard, t # s PROVE SwapsView(t)' /\ ShardView(t)' /\ BeaconView(t)'
  <2>1. SwapsView(t) /\ ShardView(t) /\ BeaconView(t)
    BY <1>1
  <2>2. shardBlocks'[t] = shardBlocks[t] /\ shard'[t] = shard[t]
    BY <1>19, <1>26
  <2>3. SwapsView(t)'
    BY <1>19, <2>1, <2>2 DEF SwapsView
  <2>4. ShardView(t)'
    BY <1>19, <2>1, <2>2 DEF ShardView
  <2>5. BeaconView(t)'
    BY <1>19, <2>1, <2>2 DEF BeaconView
  <2> QED BY <2>3, <2>4, <2>5
<1>27. BeaconView(s)'
  <2> DEFINE upTo == beacon.bestShard[s]
  <2>1. BeaconView(s) /\ upTo \in Nat
    BY <1>1 DEF BeaconInv
  <2>2. upTo <= Len(blocks) /\ Len(blocks) \in Nat
    <3>1. Len(blocks) \in Nat
      BY <1>21
    <3> QED BY <2>1, <3>1 DEF BeaconView
  <2>3. SubSeq(Append(blocks, blk), 1, upTo) = SubSeq(blocks, 1, upTo)
    <3> HIDE DEF blocks, upTo
    <3> QED BY <1>21, <2>1, <2>2, SubSeqAppend
  <2>4. upTo <= Len(Append(blocks, blk))
    <3> HIDE DEF blocks, upTo
    <3>1. Len(Append(blocks, blk)) = Len(blocks) + 1
      BY <1>21
    <3> QED BY <2>1, <2>2, <3>1
  <2>5. /\ upTo <= Len(shardBlocks[s])
        /\ ViewAt(beacon.ShardCommittee[s], beacon.ShardPending[s], QueueIn(beaconBlocks, s, beacon.height),
                  Len(SwapsOf(SubSeq(shardBlocks[s], 1, upTo))), Seats(s))
    BY <2>1 DEF BeaconView
  <2> QED BY <1>19, <2>3, <2>4, <2>5 DEF BeaconView
<1>28. SwapsView(s)' /\ ShardView(s)'
  <2>1. NextSwaps(S, r, 0, n, s)
    BY <1>1 DEF SwapsView, r, n
  <2>2. upd.beaconHeight = to
    BY <1>5
  <2>3. CASE own = <<>>
    <3>1. ViewAt(upd.committee, upd.pending, q, M, n)
      <4>1. own # <<NthSwap(q, M + 1, n, s)>>
        BY <2>3
      <4> QED BY <1>17, <4>1 DEF SwapsAlong
    <3>2. S \o own = S
      BY <1>22, <2>3
    <3>3. SwapsOf(shardBlocks'[s]) = S
      BY <1>19, <1>23, <3>2
    <3>4. SwapsView(s)'
      BY <1>19, <2>1, <3>3 DEF SwapsView, r, n, Seats
    <3>5. ShardView(s)'
      BY <1>19, <2>2, <3>1, <3>3 DEF ShardView, q, n, Seats, M
    <3> QED BY <3>4, <3>5
  <2>4. CASE own # <<>>
    <3> DEFINE l == NthSwap(q, M + 1, n, s)
    <3>1. own = <<l>> /\ (M + 1) + n <= Len(q) /\ ViewAt(upd.committee, upd.pending, q, M + 1, n)
      BY <1>17, <2>4 DEF SwapsAlong
    <3>2. l = NthSwap(r, (0 + M) + 1, n, s)
      <4>1. q \in Seq(ShardKey(s)) /\ y \in Seq(ShardKey(s)) /\ r = q \o y
        BY <1>11, <1>12
      <4>2. /\ Len(q) \in Nat /\ Len(r) = Len(q) + Len(y) /\ Len(y) \in Nat
            /\ \A i \in 1..Len(r) : r[i] = IF i <= Len(q) THEN q[i] ELSE y[i - Len(q)]
        BY <4>1
      <4>3. /\ M + 1 \in 1..Len(r) /\ M + 1 <= Len(q) /\ (M + 1) + n \in 1..Len(r) /\ (0 + M) + 1 = M + 1
        <5>1. /\ Len(q) \in Nat /\ Len(r) = Len(q) + Len(y) /\ Len(y) \in Nat
              /\ M \in Nat /\ n \in Nat \ {0} /\ (M + 1) + n <= Len(q)
          BY <1>15, <3>1, <4>2
        <5> DEFINE lq == Len(q)
                   ly == Len(y)
                   lr == Len(r)
        <5>2. /\ lq \in Nat /\ ly \in Nat /\ lr = lq + ly
              /\ M \in Nat /\ n \in Nat \ {0} /\ (M + 1) + n <= lq
          BY <5>1
        <5> HIDE DEF lq, ly, lr
        <5>3. M + 1 \in 1..lr /\ M + 1 <= lq /\ (M + 1) + n \in 1..lr /\ (0 + M) + 1 = M + 1
          BY <5>2
        <5> QED BY <5>3 DEF lq, ly, lr
      <4>4. r[M + 1] = q[M + 1] /\ r[(M + 1) + n] = q[(M + 1) + n]
        BY <3>1, <4>2, <4>3
      <4> QED BY <4>3, <4>4 DEF NthSwap
    <3> HIDE DEF l
    <3>3. l \in Z
      <4>1. <<l>> \in Seq(Z)
        BY <1>21, <3>1
      <4> DEFINE e == <<l>>
      <4>2. e \in Seq(Z) /\ 1 \in 1..Len(e) /\ e[1] = l
        BY <4>1
      <4> HIDE DEF e
      <4> QED BY <4>2
    <3>4. NextSwaps(S \o <<l>>, r, 0, n, s)
      <4> HIDE DEF S
      <4>1. 0 \in Nat /\ l = NthSwap(r, (0 + Len(S)) + 1, n, s)
        BY <3>2 DEF M
      <4> QED BY <1>22, <2>1, <3>3, <4>1, NextSwapsOne
    <3>5. SwapsOf(shardBlocks'[s]) = S \o <<l>>
      BY <1>19, <1>23, <3>1
    <3>6. Len(S \o <<l>>) = M + 1
      <4> HIDE DEF S
      <4>1. Len(S \o <<l>>) = Len(S) + 1
        BY <1>22, <3>3
      <4> QED BY <4>1 DEF M
    <3>7. SwapsView(s)'
      BY <1>19, <3>4, <3>5 DEF SwapsView, r, n, Seats
    <3>8. ShardView(s)'
      BY <1>19, <2>2, <3>1, <3>5, <3>6 DEF ShardView, q, n, Seats
    <3> QED BY <3>7, <3>8
  <2> QED BY <2>3, <2>4
<1>29. \A t \in Shard : SwapsView(t)' /\ ShardView(t)' /\ BeaconView(t)'
  BY <1>26, <1>27, <1>28
<1> QED BY <1>2, <1>24, <1>25, <1>29 DEF ViewsInv

-----------------------------------------------------------------------------
\* Beacon blocks.

\* The lists of the shards, and the candidates to assign, are left alone.
ShardsKept(b, d) ==
  /\ Sound(d)
  /\ d.ShardCommittee = b.ShardCommittee /\ d.ShardPending = b.ShardPending
  /\ d.shardCurrent = b.shardCurrent

LEMMA ShardsKeptInTurn ==
  ASSUME NEW b, NEW c, NEW d, ShardsKept(b, c), ShardsKept(c, d)
  PROVE  ShardsKept(b, d)
  BY DEF ShardsKept

\* Instructions that swap nobody.
Quiet(X) == \A l \in X : l.act # "swap" /\ (l.act = "stake" => l.keys \in Seq(Staker))

LEMMA ApplyQuiet ==
  ASSUME NEW b, Sound(b), NEW X, Quiet(X), NEW S \in Seq(X)
  PROVE  ShardsKept(b, ApplyInstructions(b, S))
<1> DEFINE Top == Len(S)
<1>1. Top \in Nat /\ \A i \in 1..Top : S[i] \in X
  OBVIOUS
<1>2. PICK f : Follows(f, b, S)
  BY FollowsExists
<1>3. f[0] = b /\ \A i \in 1..Top : f[i] = ApplyInstruction(f[i - 1], S[i])
  BY <1>2 DEF Follows
<1> DEFINE G == {i \in 0..Top : ShardsKept(b, f[i])}
<1> HIDE DEF Top
<1>4. 0 \in G
  <2>1. 0 \in 0..Top
    BY <1>1
  <2>2. ShardsKept(b, b)
    BY DEF ShardsKept
  <2> QED BY <1>3, <2>1, <2>2
<1>5. ASSUME NEW i \in 1..Top, i - 1 \in G PROVE i \in G
  <2> DEFINE d == f[i - 1]
             l == S[i]
             e == ApplyInstruction(d, l)
  <2>1. ShardsKept(b, d)
    BY <1>5
  <2>2. i \in 0..Top /\ f[i] = e /\ l \in X
    BY <1>1, <1>3
  <2> HIDE DEF d, l
  <2>3. Sound(d) /\ DOMAIN d = BestStateFields /\ d.ok
    BY <2>1 DEF ShardsKept, Sound
  <2>4. l.act # "swap" /\ (l.act = "stake" => l.keys \in Seq(Staker))
    BY <2>2 DEF Quiet
  <2> DEFINE keys == l.keys
             u == d.shardNext \o keys
             v == d.beaconNext \o keys
  <2>5. e = d \/ (l.act = "stake" /\ (e = [d EXCEPT !.shardNext = u] \/ e = [d EXCEPT !.beaconNext = v]))
    <3>1. CASE l.act = "stake"
      BY <2>3, <2>4, <3>1 DEF ApplyInstruction
    <3>2. CASE l.act # "stake"
      BY <2>3, <2>4, <3>2 DEF ApplyInstruction
    <3> QED BY <3>1, <3>2
  <2> HIDE DEF e
  <2>6. CASE e = d
    <3>1. ShardsKept(b, e)
      BY <2>1, <2>6
    <3> QED BY <2>2, <3>1
  <2>7. CASE l.act = "stake" /\ e = [d EXCEPT !.shardNext = u]
    <3>1. u \in Seq(Staker)
      <4>1. keys \in Seq(Staker) /\ d.shardNext \in Seq(Staker)
        BY <2>3, <2>4, <2>7 DEF Sound
      <4> HIDE DEF keys
      <4> QED BY <4>1
    <3> HIDE DEF u
    <3>2. DOMAIN e = BestStateFields /\ e.shardNext = u
      BY <2>3, <2>7 DEF BestStateFields
    <3>3. /\ e.ok = d.ok /\ e.BeaconCommittee = d.BeaconCommittee /\ e.BeaconPending = d.BeaconPending
          /\ e.beaconCurrent = d.beaconCurrent /\ e.beaconNext = d.beaconNext
          /\ e.shardCurrent = d.shardCurrent
          /\ e.ShardCommittee = d.ShardCommittee /\ e.ShardPending = d.ShardPending
      BY <2>3, <2>7 DEF BestStateFields
    <3>4. ShardsKept(d, e)
      BY <2>3, <3>1, <3>2, <3>3 DEF ShardsKept, Sound
    <3> QED BY <2>1, <2>2, <3>4, ShardsKeptInTurn
  <2>8. CASE l.act = "stake" /\ e = [d EXCEPT !.beaconNext = v]
    <3>1. v \in Seq(Staker)
      <4>1. keys \in Seq(Staker) /\ d.beaconNext \in Seq(Staker)
        BY <2>3, <2>4, <2>8 DEF Sound
      <4> HIDE DEF keys
      <4> QED BY <4>1
    <3> HIDE DEF v
    <3>2. DOMAIN e = BestStateFields /\ e.beaconNext = v
      BY <2>3, <2>8 DEF BestStateFields
    <3>3. /\ e.ok = d.ok /\ e.BeaconCommittee = d.BeaconCommittee /\ e.BeaconPending = d.BeaconPending
          /\ e.beaconCurrent = d.beaconCurrent /\ e.shardNext = d.shardNext
          /\ e.shardCurrent = d.shardCurrent
          /\ e.ShardCommittee = d.ShardCommittee /\ e.ShardPending = d.ShardPending
      BY <2>3, <2>8 DEF BestStateFields
    <3>4. ShardsKept(d, e)
      BY <2>3, <3>1, <3>2, <3>3 DEF ShardsKept, Sound
    <3> QED BY <2>1, <2>2, <3>4, ShardsKeptInTurn
  <2> QED BY <2>5, <2>6, <2>7, <2>8
<1>6. 0..Top \subseteq G
  <2> HIDE DEF G
  <2> QED BY <1>1, <1>4, <1>5, AllUpTo, Zenon
<1>7. ShardsKept(b, f[Top])
  BY <1>1, <1>6
<1>8. ApplyInstructions(b, S) = f[Top]
  BY <1>2, FollowsIs DEF Top
<1> QED BY <1>7, <1>8

\* The swap in the beacon's own committee.
BeaconSwap(b, h) ==
  LET own == SwapValidator(b.BeaconPending, b.BeaconCommittee, Len(BeaconGenesis))
  IN  IF h % EPOCH = 0 /\ (own.in # <<>> \/ own.out # <<>>)
      THEN <<Swap(own.in, own.out, "beacon", 0)>> ELSE <<>>

\* RemoveValidator finds its validators too.
LEMMA ApplyBeaconSwap ==
  ASSUME OFFSET = 1, NEW a, NEW b, Sound(b), NEW h,
         a.BeaconPending = b.BeaconPending, a.BeaconCommittee = b.BeaconCommittee
  PROVE  ShardsKept(b, ApplyInstructions(b, BeaconSwap(a, h)))
<1> DEFINE c == b.BeaconCommittee
           p == b.BeaconPending
           n == Len(BeaconGenesis)
           own == SwapValidator(p, c, n)
           l == Swap(own.in, own.out, "beacon", 0)
           K == BeaconKey
<1>1. BeaconSwap(a, h) = IF h % EPOCH = 0 /\ (own.in # <<>> \/ own.out # <<>>) THEN <<l>> ELSE <<>>
  BY DEF BeaconSwap
<1>2. DOMAIN b = BestStateFields /\ b.ok /\ c \in Seq(K) /\ Len(c) = n /\ p \in Seq(Staker)
  BY DEF Sound
<1>3. p \in Seq(K)
  <2>1. Staker \subseteq K
    BY DEF BeaconKey
  <2> HIDE DEF K, p
  <2> QED BY <1>2, <2>1, SeqMonotonic
<1>4. n \in Nat \ {0}
  <2> DEFINE g == BeaconGenesis
             R == Range(g)
  <2>1. g \in Seq(R) /\ g # <<>>
    BY GenesisAssumption
  <2> HIDE DEF g, R
  <2>2. Len(g) \in Nat \ {0}
    BY <2>1
  <2> QED BY <2>2 DEF g
<1>5. CASE BeaconSwap(a, h) = <<>>
  <2>1. ApplyInstructions(b, <<>>) = b
    BY ApplyOne
  <2>2. ShardsKept(b, b)
    BY DEF ShardsKept
  <2> QED BY <1>5, <2>1, <2>2
<1>6. CASE BeaconSwap(a, h) = <<l>> /\ (own.in # <<>> \/ own.out # <<>>)
  <2> DEFINE d == ApplyInstruction(b, l)
             x == <<p[1]>>
             y == <<c[1]>>
             cx == c \o x
             c2 == Drop(c, 1) \o x
             p2 == Drop(p, 1)
  <2>1. p # <<>>
    BY <1>6, SwapNone
  <2>2. own.in = x /\ own.out = y
    <3> HIDE DEF c, p, n, K
    <3>1. p \in Seq(K) /\ c \in Seq(K) /\ n \in Nat \ {0} /\ p # <<>> /\ Len(c) = n
      BY <1>2, <1>3, <1>4, <2>1
    <3>2. SwapsFirst(own, p, c)
      BY <3>1, SwapOne, Zenon
    <3> QED BY <3>2 DEF SwapsFirst
  <2>3. l = Swap(x, y, "beacon", 0)
    BY <2>2
  <2> HIDE DEF c, p, n, own, K
  <2>4. l.act = "swap" /\ l.in = x /\ l.out = y /\ l.kind = "beacon"
    <3> HIDE DEF x, y, l
    <3> QED BY <2>3 DEF Swap
  <2>5. c # <<>> /\ p[1] \in K /\ p[1] \in Staker
    BY <1>2, <1>3, <1>4, <2>1
  <2>6. x \in Seq(K) /\ Len(x) = 1
    BY <2>5
  <2>7. RemovesFirst(p, x)
    BY <1>3, <2>1, FirstIsRemoved
  <2>8. cx \in Seq(K) /\ cx # <<>> /\ cx[1] = c[1]
    <3>1. c \in Seq(K) /\ Len(c) \in Nat /\ Len(c) >= 1
      BY <1>2, <1>4
    <3>2. x \in Seq(K)
      BY <2>6
    <3> HIDE DEF x
    <3>3. cx \in Seq(K)
      BY <3>1, <3>2
    <3>4. Len(cx) = Len(c) + Len(x)
      BY <3>1, <3>2
    <3>5. cx[1] = c[1]
      BY <3>1, <3>2
    <3> QED BY <2>6, <3>1, <3>3, <3>4, <3>5
  <2>9. RemovesFirst(cx, y)
    <3> HIDE DEF cx
    <3> QED BY <2>8, FirstIsRemoved
  <2>10. Drop(cx, 1) = c2
    <3>1. x \in Seq(K) /\ c \in Seq(K)
      BY <1>2, <2>6
    <3> QED BY <2>5, <3>1, DropAndAppend DEF DropKeepsLast
  <2>11. Shifted(c2, cx, K) /\ Shifted(p2, p, Staker)
    <3>1. Shifted(p2, p, Staker)
      BY <1>2, <2>1, DropOne
    <3>2. Shifted(Drop(cx, 1), cx, K)
      <4> HIDE DEF cx
      <4> QED BY <2>8, DropOne
    <3> QED BY <2>10, <3>1, <3>2
  <2>12. Len(cx) = n + 1 /\ n + 1 - 1 = n
    <3>1. x \in Seq(K) /\ c \in Seq(K)
      BY <1>2, <2>6
    <3>2. Len(cx) = Len(c) + Len(x)
      BY <3>1
    <3> QED BY <1>2, <1>4, <2>6, <3>2
  <2> HIDE DEF x, y, cx, c2, p2, l
  <2>13. c2 \in Seq(K) /\ Len(c2) = n /\ p2 \in Seq(Staker)
    <3>1. c2 \in Seq(K) /\ p2 \in Seq(Staker) /\ Len(c2) = Len(cx) - 1
      BY <2>11 DEF Shifted
    <3>2. Len(cx) - 1 = n
      BY <1>4, <2>12
    <3> QED BY <3>1, <3>2
  <2>14. d = [b EXCEPT !.BeaconPending = p2, !.BeaconCommittee = c2]
    <3>1. d = ApplySwap(b, l)
      BY <1>2, <2>4 DEF ApplyInstruction
    <3> DEFINE u == RemoveValidator(p, x)
               v == RemoveValidator(cx, y)
    <3>2. u.ok /\ u.list = p2 /\ v.ok /\ v.list = c2
      BY <2>7, <2>9, <2>10 DEF RemovesFirst, p2
    <3> HIDE DEF u, v
    <3>3. ApplySwap(b, l) = IF ~(u.ok /\ v.ok) THEN [b EXCEPT !.ok = FALSE]
                            ELSE [b EXCEPT !.BeaconPending = u.list, !.BeaconCommittee = v.list]
      BY <2>4 DEF ApplySwap, u, v, c, p, cx
    <3> QED BY <3>1, <3>2, <3>3
  <2> HIDE DEF d
  <2>15. DOMAIN d = BestStateFields /\ d.BeaconPending = p2 /\ d.BeaconCommittee = c2
    BY <1>2, <2>14 DEF BestStateFields
  <2>16. /\ d.ok = b.ok /\ d.beaconCurrent = b.beaconCurrent /\ d.beaconNext = b.beaconNext
         /\ d.shardCurrent = b.shardCurrent /\ d.shardNext = b.shardNext
         /\ d.ShardCommittee = b.ShardCommittee /\ d.ShardPending = b.ShardPending
    BY <1>2, <2>14 DEF BestStateFields
  <2>17. ShardsKept(b, d)
    BY <2>13, <2>15, <2>16 DEF ShardsKept, Sound, K, n
  <2>18. ApplyInstructions(b, <<l>>) = d
    BY ApplyOne DEF d
  <2> QED BY <1>6, <2>17, <2>18 DEF l, own, p, c, n
<1> QED BY <1>1, <1>5, <1>6

\* Instructions that take stakes over.
TakesStakes(p) == p \in Seq(ToSet(p)) /\ \A l \in ToSet(p) : l.act = "stake" /\ l.keys \in Seq(Staker)

LEMMA TakesStakesIntro ==
  ASSUME NEW X, NEW p \in Seq(X), \A l \in X : l.act = "stake" /\ l.keys \in Seq(Staker)
  PROVE  TakesStakes(p)
<1>1. p \in Seq(ToSet(p)) /\ ToSet(p) \subseteq X
  BY SequenceOfItsElements
<1> QED BY <1>1 DEF TakesStakes

LEMMA TakesStakesConcat ==
  ASSUME NEW p, TakesStakes(p), NEW q, TakesStakes(q)
  PROVE  TakesStakes(p \o q)
<1> DEFINE X == ToSet(p) \cup ToSet(q)
           r == p \o q
<1>1. \A l \in X : l.act = "stake" /\ l.keys \in Seq(Staker)
  BY DEF TakesStakes
<1>2. ToSet(p) \subseteq X /\ ToSet(q) \subseteq X /\ p \in Seq(ToSet(p)) /\ q \in Seq(ToSet(q))
  BY DEF TakesStakes
<1> HIDE DEF X
<1>3. p \in Seq(X) /\ q \in Seq(X)
  BY <1>2, SeqMonotonic
<1>4. r \in Seq(X)
  BY <1>3
<1> HIDE DEF r
<1>5. TakesStakes(r)
  BY <1>1, <1>4, TakesStakesIntro
<1> QED BY <1>5 DEF r

LEMMA TakesStakesFlatten ==
  ASSUME NEW n \in Nat, NEW ss, ss = [i \in 1..n |-> ss[i]], \A i \in 1..n : TakesStakes(ss[i])
  PROVE  TakesStakes(FlattenSeq(ss))
<1> DEFINE X == UNION {ToSet(ss[i]) : i \in 1..n}
<1>1. \A l \in X : l.act = "stake" /\ l.keys \in Seq(Staker)
  BY DEF TakesStakes
<1>2. ASSUME NEW i \in 1..n PROVE ss[i] \in Seq(X)
  <2>1. ToSet(ss[i]) \subseteq X
    OBVIOUS
  <2>2. ss[i] \in Seq(ToSet(ss[i]))
    BY DEF TakesStakes
  <2> HIDE DEF X
  <2> QED BY <2>1, <2>2, SeqMonotonic
<1> HIDE DEF X
<1>3. ss \in Seq(Seq(X))
  <2>1. ss \in [1..n -> Seq(X)]
    BY <1>2
  <2> QED BY <2>1
<1>4. FlattenSeq(ss) \in Seq(X)
  BY <1>3, FlattenType
<1> QED BY <1>1, <1>4, TakesStakesIntro

\* GetShardStateFromBlock names only keys that staked.
LEMMA ValidStakesTakes ==
  ASSUME NEW b, NEW blk, blk.stakes["shard"] \in Seq(Staker), blk.stakes["beacon"] \in Seq(Staker)
  PROVE  TakesStakes(ValidStakes(b, blk))
<1> DEFINE valid(kind) == GetValidStakers(b, blk.stakes[kind])
           inst(kind, keys) == IF keys = <<>> THEN <<>>
                               ELSE <<Stake(keys, kind, [i \in DOMAIN keys |-> blk.txs[keys[i]]])>>
           more == Only(valid("beacon"), Range(valid("beacon")) \ Range(valid("shard")))
<1>1. ASSUME NEW kind, NEW keys \in Seq(Staker) PROVE TakesStakes(inst(kind, keys))
  <2> DEFINE l == Stake(keys, kind, [i \in DOMAIN keys |-> blk.txs[keys[i]]])
             X == {l}
             q == <<l>>
  <2>1. l.act = "stake" /\ l.keys = keys
    BY DEF Stake
  <2>2. inst(kind, keys) = <<>> \/ inst(kind, keys) = q
    OBVIOUS
  <2> HIDE DEF l, inst
  <2>3. q \in Seq(X) /\ <<>> \in Seq(X)
    OBVIOUS
  <2>4. \A x \in X : x.act = "stake" /\ x.keys \in Seq(Staker)
    BY <2>1
  <2> HIDE DEF X, q
  <2>5. inst(kind, keys) \in Seq(X)
    BY <2>2, <2>3
  <2> QED BY <2>4, <2>5, TakesStakesIntro
<1>2. valid("shard") \in Seq(Staker) /\ valid("beacon") \in Seq(Staker)
  BY OnlyType DEF GetValidStakers
<1>3. ValidStakes(b, blk) = inst("shard", valid("shard")) \o inst("beacon", more)
  BY DEF ValidStakes
<1> HIDE DEF inst, valid
<1>4. more \in Seq(Staker)
  BY <1>2, OnlyType
<1> HIDE DEF more
<1>5. TakesStakes(inst("shard", valid("shard"))) /\ TakesStakes(inst("beacon", more))
  BY <1>1, <1>2, <1>4
<1> QED BY <1>3, <1>5, TakesStakesConcat

-----------------------------------------------------------------------------
\* The assignments of a beacon block.
AssignOf(cur, t) == IF AssignedTo(cur, t) = <<>> THEN <<>> ELSE <<Assign(AssignedTo(cur, t), t)>>
Assigns(cur) == FlattenSeq([i \in DOMAIN ShardSeq |-> AssignOf(cur, ShardSeq[i])])
AssignInsts(cur) == {Assign(AssignedTo(cur, t), t) : t \in Shard}

LEMMA AssignInstsType ==
  ASSUME NEW cur \in Seq(Staker)
  PROVE  /\ \A l \in AssignInsts(cur) : l.act = "assign" /\ l.keys \in Seq(Staker)
         /\ \A t \in Shard : AssignOf(cur, t) \in Seq(AssignInsts(cur))
<1>1. ASSUME NEW t PROVE AssignedTo(cur, t) \in Seq(Staker)
  BY OnlyType DEF AssignedTo
<1>2. ASSUME NEW l \in AssignInsts(cur) PROVE l.act = "assign" /\ l.keys \in Seq(Staker)
  <2>1. PICK t \in Shard : l = Assign(AssignedTo(cur, t), t)
    BY DEF AssignInsts
  <2> DEFINE k == AssignedTo(cur, t)
  <2>2. k \in Seq(Staker)
    BY <1>1
  <2> HIDE DEF k
  <2>3. l = [act |-> "assign", keys |-> k, shard |-> t]
    BY <2>1 DEF Assign, k
  <2> QED BY <2>2, <2>3
<1>3. ASSUME NEW t \in Shard PROVE AssignOf(cur, t) \in Seq(AssignInsts(cur))
  <2> DEFINE l == Assign(AssignedTo(cur, t), t)
             X == AssignInsts(cur)
  <2>1. l \in X
    BY DEF AssignInsts
  <2>2. AssignOf(cur, t) = <<>> \/ AssignOf(cur, t) = <<l>>
    BY DEF AssignOf
  <2> HIDE DEF l, X
  <2>3. <<>> \in Seq(X) /\ <<l>> \in Seq(X)
    BY <2>1
  <2> QED BY <2>2, <2>3 DEF X
<1> QED BY <1>2, <1>3

LEMMA AssignedNothing ==
  ASSUME NEW s
  PROVE  AssignedIn(s, <<>>) = <<>>
<1> DEFINE e == <<>>
           E == {}
<1>1. e \in Seq(E) /\ \A l \in E : ~(l.act = "assign" /\ l.shard = s)
  OBVIOUS
<1> HIDE DEF e, E
<1>2. AssignedIn(s, e) = <<>>
  BY <1>1, AssignedNone
<1> QED BY <1>2 DEF e

\* They name for every shard the candidates that are assigned to it.
LEMMA AssignsAssigned ==
  ASSUME NEW cur \in Seq(Staker), NEW s \in Shard
  PROVE  Assigns(cur) \in Seq(AssignInsts(cur)) /\ AssignedIn(s, Assigns(cur)) = AssignedTo(cur, s)
<1> DEFINE X == AssignInsts(cur)
           A == ActiveShards
           ss == [i \in DOMAIN ShardSeq |-> AssignOf(cur, ShardSeq[i])]
           k == AssignedTo(cur, s)
<1>1. A \in Nat /\ DOMAIN ShardSeq = 1..A /\ \A i \in 1..A : ShardSeq[i] = i - 1 /\ i - 1 \in Shard
  BY ShardAssumption DEF ShardSeq, Shard
<1>2. s \in Nat /\ s < A
  BY ShardAssumption DEF Shard
<1>3. \A i \in 1..A : ss[i] = AssignOf(cur, i - 1) /\ ss[i] \in Seq(X)
  <2>1. \A i \in 1..A : ss[i] = AssignOf(cur, i - 1)
    BY <1>1
  <2>2. \A i \in 1..A : AssignOf(cur, i - 1) \in Seq(X)
    BY <1>1, AssignInstsType
  <2> HIDE DEF X, A, ss
  <2> QED BY <2>1, <2>2
<1>4. ss \in [1..A -> Seq(X)]
  <2>1. ss = [i \in 1..A |-> ss[i]]
    BY <1>1
  <2> HIDE DEF ss, X, A
  <2> QED BY <1>3, <2>1
<1>5. Assigning(X)
  BY AssignInstsType DEF Assigning
<1>6. Assigns(cur) = FlattenSeq(ss)
  BY DEF Assigns
<1>7. k \in Seq(Staker)
  BY OnlyType DEF AssignedTo
<1> HIDE DEF ss, k, X, A
<1>8. PICK g : Flattens(g, X, A, ss)
  BY <1>1, <1>3, FlattensExists DEF CanFlatten
<1>9. g \in [0..A -> Seq(X)] /\ g[0] = <<>> /\ \A i \in 1..A : g[i] = g[i - 1] \o ss[i]
  BY <1>8 DEF Flattens
<1> DEFINE G == {j \in 0..A : AssignedIn(s, g[j]) = IF s < j THEN k ELSE <<>>}
<1>10. 0 \in G
  <2>1. 0 \in 0..A /\ ~(s < 0)
    BY <1>1, <1>2
  <2>2. AssignedIn(s, <<>>) = <<>>
    BY AssignedNothing
  <2> QED BY <1>9, <2>1, <2>2
<1>11. ASSUME NEW j \in 1..A, j - 1 \in G PROVE j \in G
  <2> DEFINE a == g[j - 1]
             b == ss[j]
  <2>1. j \in 0..A /\ j - 1 \in 0..A /\ g[j] = a \o b
    <3>1. j \in 0..A /\ j - 1 \in 0..A
      BY <1>1
    <3>2. g[j] = a \o b
      BY <1>9, Zenon
    <3> QED BY <3>1, <3>2
  <2>2. AssignedIn(s, a) = IF s < j - 1 THEN k ELSE <<>>
    BY <1>11
  <2>3. a \in Seq(X) /\ b \in Seq(X) /\ b = AssignOf(cur, j - 1)
    BY <1>3, <1>9, <2>1
  <2> HIDE DEF a, b, G
  <2>4. AssignedInTurn(s, a, b)
    BY <1>5, <2>3, AssignedConcat
  <2>5. AssignedIn(s, g[j]) = AssignedIn(s, a) \o AssignedIn(s, b)
    BY <2>1, <2>4, Zenon DEF AssignedInTurn
  <2>6. CASE s = j - 1
    <3>1. ~(s < j - 1) /\ s < j
      BY <1>2, <2>6
    <3>2. AssignedIn(s, b) = k
      <4>1. b = AssignOf(cur, s)
        BY <2>3, <2>6
      <4>2. CASE k = <<>>
        <5>1. b = <<>>
          BY <4>1, <4>2 DEF AssignOf, k
        <5> QED BY <4>2, <5>1, AssignedNothing
      <4>3. CASE k # <<>>
        <5>1. b = <<Assign(k, s)>>
          BY <4>1, <4>3 DEF AssignOf, k
        <5> QED BY <1>7, <5>1, AssignedOne
      <4> QED BY <4>2, <4>3
    <3>3. <<>> \o k = k
      BY <1>7
    <3>4. AssignedIn(s, g[j]) = k
      BY <2>2, <2>5, <3>1, <3>2, <3>3
    <3> QED BY <2>1, <3>1, <3>4 DEF G
  <2>7. CASE s # j - 1
    <3>1. (s < j - 1) <=> (s < j)
      BY <1>1, <1>2, <2>7
    <3>2. AssignedIn(s, b) = <<>>
      <4> DEFINE l == Assign(AssignedTo(cur, j - 1), j - 1)
                 L == {l}
      <4>1. b = <<>> \/ b = <<l>>
        BY <2>3 DEF AssignOf
      <4>2. l.shard = j - 1
        BY DEF Assign
      <4> HIDE DEF l
      <4>3. <<>> \in Seq(L) /\ <<l>> \in Seq(L) /\ \A x \in L : ~(x.act = "assign" /\ x.shard = s)
        BY <2>7, <4>2
      <4> HIDE DEF L
      <4>4. b \in Seq(L)
        BY <4>1, <4>3
      <4> QED BY <4>3, <4>4, AssignedNone
    <3>3. k \o <<>> = k /\ <<>> \o <<>> = <<>>
      BY <1>7
    <3>4. AssignedIn(s, g[j]) = IF s < j THEN k ELSE <<>>
      BY <2>2, <2>5, <3>1, <3>2, <3>3
    <3> QED BY <2>1, <3>4 DEF G
  <2> QED BY <2>6, <2>7
<1>12. 0..A \subseteq G
  <2> HIDE DEF G
  <2> QED BY <1>1, <1>10, <1>11, AllUpTo, Zenon
<1>13. A \in 0..A
  BY <1>1
<1>14. AssignedIn(s, g[A]) = k
  BY <1>2, <1>12, <1>13
<1>15. FlattenSeq(ss) = g[A]
  BY <1>1, <1>4, <1>8, FlattenIs
<1>16. g[A] \in Seq(X)
  BY <1>9, <1>13
<1> QED BY <1>6, <1>14, <1>15, <1>16 DEF k, X

-----------------------------------------------------------------------------
\* The best state b after the swaps of the blocks that are taken of the shards
\* below j.
SwapCount(s, i) == Len(SwapsOf(SubSeq(shardBlocks[s], 1, i)))
TakenUpTo(b, d, heights, j) ==
  /\ Sound(d)
  /\ d.shardCurrent = b.shardCurrent
  /\ d.BeaconCommittee = b.BeaconCommittee /\ d.BeaconPending = b.BeaconPending
  /\ \A s \in Shard :
       ViewAt(d.ShardCommittee[s], d.ShardPending[s], QueueIn(beaconBlocks, s, beacon.height),
              SwapCount(s, IF s < j THEN heights[s] ELSE beacon.bestShard[s]), Seats(s))

\* The blocks that are taken of the shards, one shard after the other.
TakenBlocks(heights) == FlattenSeq([i \in DOMAIN ShardSeq |-> Taken(ShardSeq[i], heights)])

LEMMA TakenType ==
  ASSUME ViewsInv, NEW heights \in [Shard -> Nat],
         \A s \in Shard : heights[s] \in beacon.bestShard[s]..Len(shardBlocks[s]), NEW s \in Shard
  PROVE  Taken(s, heights) \in Seq(AllBlocks)
<1> DEFINE q == shardBlocks[s]
           i == beacon.bestShard[s]
           j == heights[s]
<1>1. BeaconInv /\ SwapsInv
  BY DEF ViewsInv, RewardsInv
<1>2. q \in Seq(AllBlocks)
  BY <1>1, AllBlocksType
<1>3. i \in Nat /\ j \in i..Len(q)
  BY <1>1 DEF BeaconInv
<1>4. Taken(s, heights) = SubSeq(q, i + 1, j)
  BY DEF Taken
<1> HIDE DEF q, i, j
<1>5. j \in Nat /\ i <= j /\ j <= Len(q)
  BY <1>2, <1>3
<1>6. SubSeq(q, i + 1, j) \in Seq(AllBlocks)
  BY <1>2, <1>3, <1>5, SubSeqSplit
<1> QED BY <1>4, <1>6

\* One shard more.
LEMMA ShardIsTaken ==
  ASSUME ViewsInv, NEW heights \in [Shard -> Nat],
         \A s \in Shard : heights[s] \in beacon.bestShard[s]..Len(shardBlocks[s]),
         NEW b, NEW d, NEW t \in Shard, TakenUpTo(b, d, heights, t)
  PROVE  TakenUpTo(b, ApplyInstructions(d, SwapsOf(Taken(t, heights))), heights, t + 1)
<1> DEFINE q(s) == QueueIn(beaconBlocks, s, beacon.height)
           upTo == beacon.bestShard[t]
           S == SwapsOf(Taken(t, heights))
           e == ApplyInstructions(d, S)
           m == SwapCount(t, upTo)
           n == Seats(t)
<1>1. BeaconInv /\ SwapsInv
  BY DEF ViewsInv, RewardsInv
<1>2. upTo \in Nat /\ heights[t] \in Nat /\ upTo <= heights[t] /\ heights[t] <= Len(shardBlocks[t])
  <2> DEFINE Top == Len(shardBlocks[t])
             j == heights[t]
  <2>1. shardBlocks[t] \in Seq(AllBlocks)
    BY <1>1, AllBlocksType
  <2>2. Top \in Nat
    BY <2>1
  <2>3. upTo \in Nat /\ j \in upTo..Top
    BY <1>1 DEF BeaconInv
  <2> HIDE DEF Top, j, upTo
  <2>4. j \in Nat /\ upTo <= j /\ j <= Top
    BY <2>2, <2>3
  <2> QED BY <2>3, <2>4 DEF Top, j
<1>3. /\ q(t) \in Seq(ShardKey(t)) /\ S \in Seq(AllSwaps) /\ NextSwaps(S, q(t), m, n, t)
      /\ m + Len(S) = SwapCount(t, heights[t]) /\ m + Len(S) + n <= Len(q(t))
  <2> HIDE DEF q
  <2>1. LET qq == QueueIn(beaconBlocks, t, beacon.height)
            a == SwapsOf(SubSeq(shardBlocks[t], 1, upTo))
            bb == SwapsOf(SubSeq(shardBlocks[t], upTo + 1, heights[t]))
            c == SwapsOf(SubSeq(shardBlocks[t], 1, heights[t]))
        IN  /\ qq \in Seq(ShardKey(t)) /\ bb \in Seq(AllSwaps)
            /\ NextSwaps(bb, qq, Len(a), Seats(t), t)
            /\ Len(a) + Len(bb) = Len(c) /\ Len(a) + Len(bb) + Seats(t) <= Len(qq)
    BY <1>2, SwapsInView
  <2> QED BY <2>1 DEF q, SwapCount, Taken
<1>4. t \in Nat /\ \A s \in Shard : s \in Nat
  BY ShardAssumption DEF Shard
<1>5. ViewAt(d.ShardCommittee[t], d.ShardPending[t], q(t), m, n) /\ Sound(d)
  <2>1. ~(t < t)
    BY <1>4
  <2> QED BY <2>1 DEF TakenUpTo
<1> HIDE DEF S, m, n
<1>6. Advances(d, e, t, q(t), m + Len(S), n)
  <2> HIDE DEF q
  <2> QED BY <1>3, <1>5, ApplyNextSwaps
<1> HIDE DEF e
<1>7. Sound(e) /\ SameBut(d, e, t) /\ ViewAt(e.ShardCommittee[t], e.ShardPending[t], q(t), SwapCount(t, heights[t]), n)
  BY <1>3, <1>6 DEF Advances
<1>8. ASSUME NEW s \in Shard
      PROVE  ViewAt(e.ShardCommittee[s], e.ShardPending[s], q(s),
                    SwapCount(s, IF s < t + 1 THEN heights[s] ELSE beacon.bestShard[s]), Seats(s))
  <2> HIDE DEF q
  <2>1. CASE s = t
    <3>1. s < t + 1
      BY <1>4, <2>1
    <3> QED BY <1>7, <2>1, <3>1 DEF n
  <2>2. CASE s # t
    <3>1. (s < t + 1) <=> (s < t)
      BY <1>4, <2>2
    <3>2. e.ShardCommittee[s] = d.ShardCommittee[s] /\ e.ShardPending[s] = d.ShardPending[s]
      BY <1>7, <2>2 DEF SameBut
    <3>3. ViewAt(d.ShardCommittee[s], d.ShardPending[s], q(s),
                 SwapCount(s, IF s < t THEN heights[s] ELSE beacon.bestShard[s]), Seats(s))
      BY DEF TakenUpTo, q
    <3>4. (IF s < t + 1 THEN heights[s] ELSE beacon.bestShard[s]) = (IF s < t THEN heights[s] ELSE beacon.bestShard[s])
      BY <3>1
    <3> QED BY <3>2, <3>3, <3>4
  <2> QED BY <2>1, <2>2
<1>9. /\ e.shardCurrent = b.shardCurrent
      /\ e.BeaconCommittee = b.BeaconCommittee /\ e.BeaconPending = b.BeaconPending
  BY <1>7 DEF TakenUpTo, SameBut
<1>10. TakenUpTo(b, e, heights, t + 1)
  BY <1>7, <1>8, <1>9 DEF TakenUpTo
<1> QED BY <1>10 DEF e, S

TakesUpTo(g, heights, B, n) ==
  /\ g \in [0..n -> Seq(B)] /\ g[0] = <<>>
  /\ \A i \in 1..n : g[i] = g[i - 1] \o Taken(i - 1, heights)
  /\ TakenBlocks(heights) = g[n]

LEMMA TakesUpToExists ==
  ASSUME NEW heights, NEW B, \A s \in Shard : Taken(s, heights) \in Seq(B)
  PROVE  \E g : TakesUpTo(g, heights, B, ActiveShards)
<1> DEFINE A == ActiveShards
           ss == [i \in DOMAIN ShardSeq |-> Taken(ShardSeq[i], heights)]
<1>1. A \in Nat /\ DOMAIN ShardSeq = 1..A /\ \A i \in 1..A : ShardSeq[i] = i - 1 /\ i - 1 \in Shard
  BY ShardAssumption DEF ShardSeq, Shard
<1>2. \A i \in 1..A : ss[i] = Taken(i - 1, heights) /\ ss[i] \in Seq(B)
  <2>1. \A i \in 1..A : ss[i] = Taken(i - 1, heights)
    BY <1>1
  <2>2. \A i \in 1..A : Taken(i - 1, heights) \in Seq(B)
    BY <1>1
  <2> HIDE DEF A, ss
  <2> QED BY <2>1, <2>2
<1>3. ss \in [1..A -> Seq(B)]
  <2>1. ss = [i \in 1..A |-> ss[i]]
    BY <1>1
  <2> HIDE DEF ss, A
  <2> QED BY <1>2, <2>1
<1>4. TakenBlocks(heights) = FlattenSeq(ss)
  BY DEF TakenBlocks
<1>5. A \in Nat
  BY <1>1
<1> HIDE DEF ss, A
<1>6. PICK g : Flattens(g, B, A, ss)
  BY <1>2, <1>5, FlattensExists DEF CanFlatten
<1>7. g \in [0..A -> Seq(B)] /\ g[0] = <<>> /\ \A i \in 1..A : g[i] = g[i - 1] \o ss[i]
  BY <1>6 DEF Flattens
<1>8. FlattenSeq(ss) = g[A]
  BY <1>3, <1>5, <1>6, FlattenIs
<1>9. \A i \in 1..A : g[i] = g[i - 1] \o Taken(i - 1, heights)
  BY <1>2, <1>7
<1> QED BY <1>4, <1>7, <1>8, <1>9 DEF TakesUpTo, A

\* All shards.
LEMMA ShardsAreTaken ==
  ASSUME ViewsInv, NEW heights \in [Shard -> Nat],
         \A s \in Shard : heights[s] \in beacon.bestShard[s]..Len(shardBlocks[s]),
         NEW b, Sound(b), b.ShardCommittee = beacon.ShardCommittee, b.ShardPending = beacon.ShardPending
  PROVE  /\ TakenBlocks(heights) \in Seq(AllBlocks)
         /\ TakenUpTo(b, ApplyInstructions(b, SwapsOf(TakenBlocks(heights))), heights, ActiveShards)
<1> DEFINE A == ActiveShards
           B == AllBlocks
           X == AllSwaps
<1>1. A \in Nat /\ DOMAIN ShardSeq = 1..A /\ \A i \in 1..A : ShardSeq[i] = i - 1 /\ i - 1 \in Shard
  BY ShardAssumption DEF ShardSeq, Shard
<1>2. \A i \in 1..A : Taken(i - 1, heights) \in Seq(B)
  BY <1>1, TakenType
<1>5. \A x \in B : x.swap \in Seq(X)
  BY AllBlocksType DEF ViewsInv, RewardsInv
<1> HIDE DEF X, A, B
<1>6. PICK g : TakesUpTo(g, heights, B, A)
  <2>1. \A s \in Shard : Taken(s, heights) \in Seq(B)
    BY TakenType DEF B
  <2> QED BY <2>1, TakesUpToExists, Zenon DEF A
<1>7. g \in [0..A -> Seq(B)] /\ g[0] = <<>> /\ \A i \in 1..A : g[i] = g[i - 1] \o Taken(i - 1, heights)
  BY <1>6 DEF TakesUpTo
<1> DEFINE d(j) == ApplyInstructions(b, SwapsOf(g[j]))
           G == {j \in 0..A : TakenUpTo(b, d(j), heights, j)}
<1>8. 0 \in G
  <2>1. 0 \in 0..A
    BY <1>1
  <2>2. d(0) = b
    BY <1>7, NoSwaps, ApplyOne
  <2>3. ASSUME NEW s \in Shard
        PROVE  ViewAt(b.ShardCommittee[s], b.ShardPending[s], QueueIn(beaconBlocks, s, beacon.height),
                      SwapCount(s, IF s < 0 THEN heights[s] ELSE beacon.bestShard[s]), Seats(s))
    <3>1. ~(s < 0)
      BY ShardAssumption DEF Shard
    <3>2. BeaconView(s)
      BY DEF ViewsInv
    <3> QED BY <3>1, <3>2 DEF BeaconView, SwapCount
  <2>4. TakenUpTo(b, b, heights, 0)
    BY <2>3 DEF TakenUpTo
  <2> HIDE DEF d
  <2> QED BY <2>1, <2>2, <2>4
<1>9. ASSUME NEW j \in 1..A, j - 1 \in G PROVE j \in G
  <2> DEFINE t == j - 1
             a == g[j - 1]
             c == Taken(j - 1, heights)
  <2>1. j \in 0..A /\ t \in 0..A /\ t \in Shard /\ t + 1 = j
    <3>1. t \in Shard
      BY <1>1
    <3>2. j \in 0..A /\ t \in 0..A /\ t + 1 = j
      BY <1>1
    <3> QED BY <3>1, <3>2
  <2>2. g[j] = a \o c
    BY <1>7, Zenon
  <2>3. TakenUpTo(b, d(t), heights, t)
    BY <1>9
  <2>4. c = Taken(t, heights) /\ c \in Seq(B) /\ a \in Seq(B)
    <3>1. c \in Seq(B)
      BY <1>2
    <3>2. a \in Seq(B)
      BY <1>7, <2>1
    <3> QED BY <3>1, <3>2
  <2> HIDE DEF a, c, G, t
  <2>5. SwapsInTurn(a, c) /\ SwapsOf(a) \in Seq(X)
    BY <1>5, <2>4, SwapsConcat
  <2>6. SwapsOf(c) \in Seq(X)
    BY <1>5, <2>4, SwapsConcat
  <2>7. SwapsOf(g[j]) = SwapsOf(a) \o SwapsOf(c)
    BY <2>2, <2>5, Zenon DEF SwapsInTurn
  <2>8. AppliedInTurn(b, SwapsOf(a), SwapsOf(c))
    BY <2>5, <2>6, ApplyConcat
  <2>9. d(j) = ApplyInstructions(ApplyInstructions(b, SwapsOf(a)), SwapsOf(c))
    BY <2>7, <2>8, Zenon DEF AppliedInTurn
  <2>10. d(t) = ApplyInstructions(b, SwapsOf(a))
    BY DEF a, t
  <2>11. d(j) = ApplyInstructions(d(t), SwapsOf(Taken(t, heights)))
    BY <2>4, <2>9, <2>10
  <2>12. TakenUpTo(b, d(j), heights, t + 1)
    <3> DEFINE e == d(t)
    <3>1. TakenUpTo(b, e, heights, t) /\ t \in Shard
      BY <2>1, <2>3
    <3> HIDE DEF e
    <3>2. TakenUpTo(b, ApplyInstructions(e, SwapsOf(Taken(t, heights))), heights, t + 1)
      BY <3>1, ShardIsTaken, Zenon
    <3> QED BY <2>11, <3>2 DEF e
  <2> HIDE DEF d
  <2> QED BY <2>1, <2>12 DEF G
<1>10. 0..A \subseteq G
  <2> HIDE DEF G
  <2> QED BY <1>1, <1>8, <1>9, AllUpTo, Zenon
<1>11. A \in 0..A
  BY <1>1
<1>12. TakenUpTo(b, d(A), heights, A)
  BY <1>10, <1>11
<1>13. TakenBlocks(heights) = g[A]
  BY <1>6 DEF TakesUpTo
<1>14. g[A] \in Seq(B)
  BY <1>7, <1>11
<1> QED BY <1>12, <1>13, <1>14 DEF A, B

-----------------------------------------------------------------------------
\* The elements of two sequences.
LEMMA RangeConcat ==
  ASSUME NEW X, NEW a \in Seq(X), NEW b \in Seq(X)
  PROVE  Range(a) \subseteq Range(a \o b) /\ Range(b) \subseteq Range(a \o b)
<1> DEFINE c == a \o b
<1>1. /\ DOMAIN a = 1..Len(a) /\ DOMAIN b = 1..Len(b) /\ DOMAIN c = 1..Len(c)
      /\ Len(a) \in Nat /\ Len(b) \in Nat /\ Len(c) = Len(a) + Len(b)
      /\ \A i \in 1..Len(c) : c[i] = IF i <= Len(a) THEN a[i] ELSE b[i - Len(a)]
  OBVIOUS
<1> HIDE DEF c
<1>2. ASSUME NEW i \in 1..Len(a) PROVE a[i] \in Range(c)
  <2>1. i \in 1..Len(c) /\ i <= Len(a)
    BY <1>1
  <2>2. c[i] = a[i]
    BY <1>1, <2>1
  <2> QED BY <1>1, <2>1, <2>2 DEF Range
<1>3. ASSUME NEW i \in 1..Len(b) PROVE b[i] \in Range(c)
  <2> DEFINE j == Len(a) + i
  <2>1. j \in 1..Len(c) /\ ~(j <= Len(a)) /\ j - Len(a) = i
    BY <1>1
  <2> HIDE DEF j
  <2>2. c[j] = b[i]
    BY <1>1, <2>1
  <2> QED BY <1>1, <2>1, <2>2 DEF Range
<1> QED BY <1>1, <1>2, <1>3 DEF Range, c

\* The five parts of a beacon block, applied and read one after the other.
Parts(insts, u, v, w, x, y) == insts = (((u \o v) \o w) \o x) \o y
PartsApplied(b, insts, u, v, w, x, y) ==
  ApplyInstructions(b, insts) =
    ApplyInstructions(ApplyInstructions(ApplyInstructions(ApplyInstructions(ApplyInstructions(b, u), v), w), x), y)
PartsAssigned(s, insts, u, v, w, x, y) ==
  AssignedIn(s, insts) =
    (((AssignedIn(s, u) \o AssignedIn(s, v)) \o AssignedIn(s, w)) \o AssignedIn(s, x)) \o AssignedIn(s, y)

LEMMA ApplyParts ==
  ASSUME NEW X, NEW u \in Seq(X), NEW v \in Seq(X), NEW w \in Seq(X), NEW x \in Seq(X), NEW y \in Seq(X),
         NEW insts, Parts(insts, u, v, w, x, y), NEW b
  PROVE  insts \in Seq(X) /\ PartsApplied(b, insts, u, v, w, x, y)
<1> DEFINE p == u \o v
           q == p \o w
           r == q \o x
           t == r \o y
<1>1. p \in Seq(X)
  OBVIOUS
<1>2. AppliedInTurn(b, u, v)
  BY ApplyConcat
<1>3. ApplyInstructions(b, p) = ApplyInstructions(ApplyInstructions(b, u), v)
  BY <1>2, Zenon DEF AppliedInTurn
<1> HIDE DEF p
<1>4. q \in Seq(X)
  BY <1>1
<1>5. AppliedInTurn(b, p, w)
  BY <1>1, ApplyConcat
<1>6. ApplyInstructions(b, q) = ApplyInstructions(ApplyInstructions(b, p), w)
  BY <1>5, Zenon DEF AppliedInTurn
<1> HIDE DEF q
<1>7. r \in Seq(X)
  BY <1>4
<1>8. AppliedInTurn(b, q, x)
  BY <1>4, ApplyConcat
<1>9. ApplyInstructions(b, r) = ApplyInstructions(ApplyInstructions(b, q), x)
  BY <1>8, Zenon DEF AppliedInTurn
<1> HIDE DEF r
<1>10. t \in Seq(X)
  BY <1>7
<1>11. AppliedInTurn(b, r, y)
  BY <1>7, ApplyConcat
<1>12. ApplyInstructions(b, t) = ApplyInstructions(ApplyInstructions(b, r), y)
  BY <1>11, Zenon DEF AppliedInTurn
<1>13. insts = t
  BY Zenon DEF Parts, p, q, r, t
<1> HIDE DEF t
<1> QED BY <1>3, <1>6, <1>9, <1>10, <1>12, <1>13, Zenon DEF PartsApplied

LEMMA AssignParts ==
  ASSUME NEW X, Assigning(X),
         NEW u \in Seq(X), NEW v \in Seq(X), NEW w \in Seq(X), NEW x \in Seq(X), NEW y \in Seq(X),
         NEW insts, Parts(insts, u, v, w, x, y), NEW s
  PROVE  PartsAssigned(s, insts, u, v, w, x, y)
<1> DEFINE p == u \o v
           q == p \o w
           r == q \o x
           t == r \o y
<1>1. p \in Seq(X)
  OBVIOUS
<1>2. AssignedInTurn(s, u, v)
  BY AssignedConcat
<1>3. AssignedIn(s, p) = AssignedIn(s, u) \o AssignedIn(s, v)
  BY <1>2, Zenon DEF AssignedInTurn
<1> HIDE DEF p
<1>4. q \in Seq(X)
  BY <1>1
<1>5. AssignedInTurn(s, p, w)
  BY <1>1, AssignedConcat
<1>6. AssignedIn(s, q) = AssignedIn(s, p) \o AssignedIn(s, w)
  BY <1>5, Zenon DEF AssignedInTurn
<1> HIDE DEF q
<1>7. r \in Seq(X)
  BY <1>4
<1>8. AssignedInTurn(s, q, x)
  BY <1>4, AssignedConcat
<1>9. AssignedIn(s, r) = AssignedIn(s, q) \o AssignedIn(s, x)
  BY <1>8, Zenon DEF AssignedInTurn
<1> HIDE DEF r
<1>10. AssignedInTurn(s, r, y)
  BY <1>7, AssignedConcat
<1>11. AssignedIn(s, t) = AssignedIn(s, r) \o AssignedIn(s, y)
  BY <1>10, Zenon DEF AssignedInTurn
<1>12. insts = t
  BY Zenon DEF Parts, p, q, r, t
<1> HIDE DEF t
<1> QED BY <1>3, <1>6, <1>9, <1>11, <1>12, Zenon DEF PartsAssigned

-----------------------------------------------------------------------------
\* The instructions of the next beacon block.
Draws(h) == h % EPOCH > RANDOM_TIME /\ ~beacon.gotRandom
RandomPart(h) == IF Draws(h) THEN <<Random>> \o Assigns(beacon.shardCurrent) ELSE <<>>
StakePart(blocks) == FlattenSeq([i \in DOMAIN blocks |-> ValidStakes(beacon, blocks[i])])
BlockInsts(h, blocks) == Append(GenerateInstruction(beacon, h, blocks), Salary(h))

LEMMA BlockParts ==
  ASSUME NEW X, NEW h, NEW blocks, SwapsOf(blocks) \in Seq(X), BeaconSwap(beacon, h) \in Seq(X),
         StakePart(blocks) \in Seq(X), RandomPart(h) \in Seq(X), Salary(h) \in X
  PROVE  Parts(BlockInsts(h, blocks), SwapsOf(blocks), BeaconSwap(beacon, h), StakePart(blocks),
               RandomPart(h), <<Salary(h)>>)
<1> DEFINE u == SwapsOf(blocks)
           v == BeaconSwap(beacon, h)
           w == StakePart(blocks)
           x == RandomPart(h)
           y == Salary(h)
           p == ((u \o v) \o w) \o x
<1>1. GenerateInstruction(beacon, h, blocks) = p
  BY DEF GenerateInstruction, SwapsOf, BeaconSwap, StakePart, RandomPart, Draws, Assigns, AssignOf
<1>2. u \in Seq(X) /\ v \in Seq(X) /\ w \in Seq(X) /\ x \in Seq(X) /\ y \in X
  OBVIOUS
<1> HIDE DEF u, v, w, x, y
<1>3. p \in Seq(X)
  BY <1>2
<1>4. Append(p, y) = p \o <<y>>
  <2> HIDE DEF p
  <2>1. p \in Seq(X) /\ y \in X
    BY <1>2, <1>3
  <2> QED BY <2>1
<1>5. BlockInsts(h, blocks) = p \o <<y>>
  BY <1>1, <1>4 DEF BlockInsts, y
<1> QED BY <1>5, Zenon DEF Parts, u, v, w, x, y

\* The stakes and the swap of the beacon block are what they are named for.
LEMMA StakePartType ==
  ASSUME StakesInv, NEW blocks \in Seq(AllBlocks)
  PROVE  TakesStakes(StakePart(blocks))
<1> DEFINE ss == [i \in DOMAIN blocks |-> ValidStakes(beacon, blocks[i])]
<1>1. DOMAIN blocks = 1..Len(blocks) /\ Len(blocks) \in Nat /\ \A i \in 1..Len(blocks) : blocks[i] \in AllBlocks
  OBVIOUS
<1>2. \A x \in AllBlocks : x.stakes["shard"] \in Seq(Staker) /\ x.stakes["beacon"] \in Seq(Staker)
  BY DEF StakesInv, AllBlocks
<1>3. ss = [i \in 1..Len(blocks) |-> ss[i]]
  BY <1>1
<1>4. \A i \in 1..Len(blocks) : TakesStakes(ss[i])
  BY <1>1, <1>2, ValidStakesTakes
<1> HIDE DEF ss
<1>5. TakesStakes(FlattenSeq(ss))
  BY <1>1, <1>3, <1>4, TakesStakesFlatten
<1> QED BY <1>5 DEF StakePart, ss

LEMMA BeaconSwapType ==
  ASSUME NEW b, NEW h
  PROVE  BeaconSwap(b, h) \in Seq(ToSet(BeaconSwap(b, h))) /\ \A l \in ToSet(BeaconSwap(b, h)) : l.act = "swap"
<1> DEFINE own == SwapValidator(b.BeaconPending, b.BeaconCommittee, Len(BeaconGenesis))
           l == Swap(own.in, own.out, "beacon", 0)
           X == {l}
<1>1. BeaconSwap(b, h) = <<>> \/ BeaconSwap(b, h) = <<l>>
  BY DEF BeaconSwap
<1>2. \A x \in X : x.act = "swap"
  BY DEF Swap
<1>3. l \in X
  OBVIOUS
<1> HIDE DEF l, X
<1>4. <<>> \in Seq(X) /\ <<l>> \in Seq(X)
  BY <1>3
<1>5. BeaconSwap(b, h) \in Seq(X)
  BY <1>1, <1>4
<1> QED BY <1>2, <1>5, SequenceOfItsElements

\* One sequence after another.
LEMMA JoinedType ==
  ASSUME NEW K, NEW a \in Seq(K), NEW c \in Seq(K)
  PROVE  a \o c \in Seq(K)
  OBVIOUS
\* What a beacon block does to the best state b: it reads the random number
\* when it is drawn, leaves the shards with the swaps of the blocks that are
\* taken, and assigns the frozen candidates.
NewAssigned(s, h) == IF Draws(h) THEN AssignedTo(beacon.shardCurrent, s) ELSE <<>>
ViewsAt(d, heights) ==
  /\ Sound(d) /\ d.shardCurrent = beacon.shardCurrent
  /\ \A s \in Shard : ViewAt(d.ShardCommittee[s], d.ShardPending[s], QueueIn(beaconBlocks, s, beacon.height),
                             SwapCount(s, heights[s]), Seats(s))
HasInstsType(insts) == \E X : Assigning(X) /\ insts \in Seq(X)
BlockDoes(b, insts, h, heights) ==
  /\ HasInstsType(insts)
  /\ Random \in Range(insts) <=> Draws(h)
  /\ ViewsAt(ApplyInstructions(b, insts), heights)
  /\ \A s \in Shard : AssignedIn(s, insts) = NewAssigned(s, h)
SameLists(b) ==
  /\ Sound(b)
  /\ b.ShardCommittee = beacon.ShardCommittee /\ b.ShardPending = beacon.ShardPending
  /\ b.BeaconCommittee = beacon.BeaconCommittee /\ b.BeaconPending = beacon.BeaconPending
  /\ b.shardCurrent = beacon.shardCurrent

\* The instructions of the next beacon block do so.
LEMMA BlockEffect ==
  ASSUME OFFSET = 1, ViewsInv, NEW heights \in [Shard -> Nat],
         \A s \in Shard : heights[s] \in beacon.bestShard[s]..Len(shardBlocks[s]),
         NEW h, NEW b, SameLists(b), NEW insts, insts = BlockInsts(h, TakenBlocks(heights))
  PROVE  BlockDoes(b, insts, h, heights)
<1> DEFINE blocks == TakenBlocks(heights)
           cur == beacon.shardCurrent
           u == SwapsOf(blocks)
           v == BeaconSwap(beacon, h)
           w == StakePart(blocks)
           x == RandomPart(h)
           l == Salary(h)
           y == <<l>>
           z == Assigns(cur)
           P == AllSwaps \cup ToSet(v) \cup ToSet(w)
           Q == {Random} \cup AssignInsts(cur)
           X == P \cup Q \cup {l}
<1>1. SwapsInv /\ StakesInv /\ Sound(beacon)
  BY DEF ViewsInv, RewardsInv
<1>2. Sound(b) /\ cur \in Seq(Staker)
  BY <1>1 DEF SameLists, Sound
<1>3. blocks \in Seq(AllBlocks) /\ TakenUpTo(b, ApplyInstructions(b, u), heights, ActiveShards)
  BY <1>2, ShardsAreTaken DEF SameLists
<1>4. u \in Seq(AllSwaps) /\ \A i \in AllSwaps : i.act = "swap"
  <2>1. \A i \in AllBlocks : i.swap \in Seq(AllSwaps)
    BY <1>1, AllBlocksType
  <2>2. u \in Seq(AllSwaps)
    <3> HIDE DEF blocks
    <3> QED BY <1>3, <2>1, SwapsConcat
  <2>3. \A i \in AllSwaps : i.act = "swap"
    BY <1>1 DEF StakesInv, AllSwaps, AllBlocks
  <2> QED BY <2>2, <2>3
<1>5. v \in Seq(ToSet(v)) /\ \A i \in ToSet(v) : i.act = "swap"
  BY BeaconSwapType
<1>6. TakesStakes(w)
  <2> HIDE DEF blocks
  <2> QED BY <1>1, <1>3, StakePartType
<1>7. w \in Seq(ToSet(w)) /\ \A i \in ToSet(w) : i.act = "stake" /\ i.keys \in Seq(Staker)
  BY <1>6 DEF TakesStakes
<1>8. /\ z \in Seq(AssignInsts(cur)) /\ \A s \in Shard : AssignedIn(s, z) = AssignedTo(cur, s)
      /\ \A i \in AssignInsts(cur) : i.act = "assign" /\ i.keys \in Seq(Staker)
  <2>1. \A i \in AssignInsts(cur) : i.act = "assign" /\ i.keys \in Seq(Staker)
    BY <1>2, AssignInstsType
  <2>2. z \in Seq(AssignInsts(cur))
    <3> DEFINE e == <<>>
    <3>1. CASE Shard # {}
      BY <1>2, <3>1, AssignsAssigned
    <3>2. CASE Shard = {}
      <4> DEFINE ss == [i \in DOMAIN ShardSeq |-> AssignOf(cur, ShardSeq[i])]
                 T == AssignInsts(cur)
      <4>1. DOMAIN ShardSeq = {}
        BY <3>2, ShardAssumption DEF ShardSeq, Shard
      <4>2. ss = <<>>
        BY <4>1
      <4> HIDE DEF ss, T
      <4>3. ss \in Seq(Seq(T))
        BY <4>2
      <4>4. FlattenSeq(ss) \in Seq(T)
        BY <4>3, FlattenType
      <4> QED BY <4>4 DEF ss, T, Assigns
    <3> QED BY <3>1, <3>2
  <2>3. \A s \in Shard : AssignedIn(s, z) = AssignedTo(cur, s)
    BY <1>2, AssignsAssigned
  <2> QED BY <2>1, <2>2, <2>3
<1>9. l.act = "salary" /\ Random.act = "random" /\ l # Random
  <2>1. l.act = "salary"
    BY DEF Salary
  <2>2. Random.act = "random"
    BY DEF Random
  <2> HIDE DEF l
  <2> QED BY <2>1, <2>2
<1>10. x = IF Draws(h) THEN <<Random>> \o z ELSE <<>>
  BY DEF RandomPart
<1> HIDE DEF blocks, cur, u, v, w, x, l, z
<1>11. /\ \A i \in P : i.act = "swap" \/ (i.act = "stake" /\ i.keys \in Seq(Staker))
       /\ \A i \in Q : i.act # "swap" /\ i.act # "stake" /\ (i.act = "assign" => i.keys \in Seq(Staker))
  BY <1>4, <1>5, <1>7, <1>8, <1>9
<1>12. /\ AllSwaps \subseteq P /\ ToSet(v) \subseteq P /\ ToSet(w) \subseteq P
       /\ Random \in Q /\ AssignInsts(cur) \subseteq Q
       /\ P \subseteq X /\ Q \subseteq X /\ l \in X
  OBVIOUS
<1>13. \A i \in X : i \in P \/ i \in Q \/ i = l
  OBVIOUS
<1> HIDE DEF P, Q, X
<1>14. u \in Seq(P) /\ v \in Seq(P) /\ w \in Seq(P) /\ z \in Seq(Q)
  BY <1>4, <1>5, <1>7, <1>8, <1>12, SeqMonotonic
<1>15. x \in Seq(Q)
  <2> DEFINE e == <<Random>>
  <2>1. e \in Seq(Q) /\ <<>> \in Seq(Q)
    BY <1>12
  <2> HIDE DEF e
  <2>2. z \in Seq(Q) /\ e \in Seq(Q)
    BY <1>14, <2>1
  <2>3. e \o z \in Seq(Q)
    BY <2>2, JoinedType, Zenon
  <2> QED BY <1>10, <2>1, <2>3 DEF e
<1>16. u \in Seq(X) /\ v \in Seq(X) /\ w \in Seq(X) /\ x \in Seq(X)
  BY <1>12, <1>14, <1>15, SeqMonotonic
<1>17. y \in Seq(X)
  BY <1>12
<1>18. Parts(insts, u, v, w, x, y)
  BY <1>12, <1>16, BlockParts DEF u, v, w, x, l, blocks
<1> HIDE DEF y
<1>19. Assigning(X)
  <2>1. \A i \in X : i.act = "assign" => i.keys \in Seq(Staker)
    BY <1>9, <1>11, <1>13
  <2> QED BY <2>1 DEF Assigning
<1>20. insts \in Seq(X) /\ PartsApplied(b, insts, u, v, w, x, y)
  BY <1>16, <1>17, <1>18, ApplyParts
<1>21. HasInstsType(insts)
  BY <1>19, <1>20 DEF HasInstsType
<1>22. ViewsAt(ApplyInstructions(b, insts), heights)
  <2> DEFINE d1 == ApplyInstructions(b, u)
             d2 == ApplyInstructions(d1, v)
             d3 == ApplyInstructions(d2, w)
             d4 == ApplyInstructions(d3, x)
             d5 == ApplyInstructions(d4, y)
  <2>1. ApplyInstructions(b, insts) = d5
    BY <1>20, Zenon DEF PartsApplied
  <2>2. Sound(d1) /\ d1.shardCurrent = cur /\ d1.BeaconCommittee = beacon.BeaconCommittee
        /\ d1.BeaconPending = beacon.BeaconPending
    BY <1>3 DEF TakenUpTo, SameLists, cur, u
  <2>3. ASSUME NEW s \in Shard
        PROVE  ViewAt(d1.ShardCommittee[s], d1.ShardPending[s], QueueIn(beaconBlocks, s, beacon.height),
                      SwapCount(s, heights[s]), Seats(s))
    <3>1. s < ActiveShards
      BY ShardAssumption DEF Shard
    <3>2. ViewAt(d1.ShardCommittee[s], d1.ShardPending[s], QueueIn(beaconBlocks, s, beacon.height),
                 SwapCount(s, IF s < ActiveShards THEN heights[s] ELSE beacon.bestShard[s]), Seats(s))
      BY <1>3 DEF TakenUpTo, u
    <3> QED BY <3>1, <3>2
  <2> HIDE DEF d1
  <2>4. ShardsKept(d1, d2)
    BY <2>2, ApplyBeaconSwap DEF v
  <2> HIDE DEF d2
  <2>5. Sound(d2)
    BY <2>4 DEF ShardsKept
  <2>6. Quiet(ToSet(w))
    BY <1>7 DEF Quiet
  <2>7. ShardsKept(d2, d3)
    BY <1>7, <2>5, <2>6, ApplyQuiet
  <2> HIDE DEF d3
  <2>8. Sound(d3) /\ Quiet(Q)
    BY <1>11, <2>7 DEF ShardsKept, Quiet
  <2>9. ShardsKept(d3, d4)
    BY <1>15, <2>8, ApplyQuiet
  <2> HIDE DEF d4
  <2> DEFINE L == {l}
  <2>10. Quiet(L) /\ y \in Seq(L)
    BY <1>9 DEF Quiet, y
  <2> HIDE DEF L
  <2>11. ShardsKept(d4, d5)
    <3>1. Sound(d4)
      BY <2>9 DEF ShardsKept
    <3> QED BY <2>10, <3>1, ApplyQuiet
  <2> HIDE DEF d5
  <2>12. /\ Sound(d5) /\ d5.shardCurrent = cur
         /\ d5.ShardCommittee = d1.ShardCommittee /\ d5.ShardPending = d1.ShardPending
    BY <2>2, <2>4, <2>7, <2>9, <2>11 DEF ShardsKept
  <2>13. ViewsAt(d5, heights)
    BY <2>3, <2>12 DEF ViewsAt, cur
  <2> QED BY <2>1, <2>13
<1>23. ASSUME NEW s \in Shard PROVE AssignedIn(s, insts) = NewAssigned(s, h)
  <2> DEFINE k == AssignedIn(s, x)
  <2>1. PartsAssigned(s, insts, u, v, w, x, y)
    BY <1>16, <1>17, <1>18, <1>19, AssignParts
  <2>2. \A i \in P : ~(i.act = "assign" /\ i.shard = s)
    BY <1>11
  <2>3. AssignedIn(s, u) = <<>> /\ AssignedIn(s, v) = <<>> /\ AssignedIn(s, w) = <<>>
    BY <1>14, <2>2, AssignedNone
  <2>4. AssignedIn(s, y) = <<>>
    <3> DEFINE L == {l}
    <3>1. y \in Seq(L) /\ \A i \in L : ~(i.act = "assign" /\ i.shard = s)
      BY <1>9 DEF y
    <3> HIDE DEF L
    <3> QED BY <3>1, AssignedNone
  <2>5. k \in Seq(Staker)
    BY <1>16, <1>19, AssignedConcat
  <2>6. k = NewAssigned(s, h)
    <3>1. CASE ~Draws(h)
      BY <1>10, <3>1, AssignedNothing DEF NewAssigned
    <3>2. CASE Draws(h)
      <4> DEFINE e == <<Random>>
      <4>1. e \in Seq(Q)
        BY <1>12
      <4>2. AssignedIn(s, e) = <<>>
        <5> DEFINE L == {Random}
        <5>1. e \in Seq(L) /\ \A i \in L : ~(i.act = "assign" /\ i.shard = s)
          BY <1>9
        <5> HIDE DEF L, e
        <5> QED BY <5>1, AssignedNone
      <4>3. Assigning(Q)
        BY <1>11 DEF Assigning
      <4> HIDE DEF e
      <4>4. AssignedInTurn(s, e, z) /\ AssignedIn(s, z) \in Seq(Staker)
        BY <1>14, <4>1, <4>3, AssignedConcat
      <4>5. AssignedIn(s, e \o z) = AssignedIn(s, e) \o AssignedIn(s, z)
        BY <4>4, Zenon DEF AssignedInTurn
      <4>6. <<>> \o AssignedIn(s, z) = AssignedIn(s, z)
        BY <4>4
      <4>7. x = e \o z
        BY <1>10, <3>2 DEF e
      <4>8. AssignedIn(s, z) = AssignedTo(cur, s)
        BY <1>8
      <4>9. k = AssignedTo(cur, s)
        BY <4>2, <4>5, <4>6, <4>7, <4>8
      <4> QED BY <3>2, <4>9 DEF NewAssigned, cur
    <3> QED BY <3>1, <3>2
  <2>7. AssignedIn(s, insts) = (((<<>> \o <<>>) \o <<>>) \o k) \o <<>>
    BY <2>1, <2>3, <2>4, Zenon DEF PartsAssigned
  <2> HIDE DEF k
  <2>8. (((<<>> \o <<>>) \o <<>>) \o k) \o <<>> = k
    <3>1. ((<<>> \o <<>>) \o <<>>) = <<>>
      OBVIOUS
    <3>2. <<>> \o k = k /\ k \o <<>> = k
      BY <2>5
    <3> QED BY <3>1, <3>2
  <2> QED BY <2>6, <2>7, <2>8
<1>24. Random \in Range(insts) <=> Draws(h)
  <2> DEFINE p == (u \o v) \o w
             q == p \o x
  <2>1. insts = q \o y
    BY <1>18, Zenon DEF Parts
  <2>2. p \in Seq(P)
    <3>1. u \in Seq(P) /\ v \in Seq(P) /\ w \in Seq(P)
      BY <1>14
    <3>2. u \o v \in Seq(P)
      BY <3>1
    <3> DEFINE uv == u \o v
    <3> HIDE DEF uv
    <3>3. uv \o w \in Seq(P)
      BY <3>1, <3>2 DEF uv
    <3> QED BY <3>3 DEF uv
  <2>3. CASE Draws(h)
    <3> DEFINE e == <<Random>>
    <3>1. e \in Seq(Q) /\ Random \in Range(e)
      <4>1. e \in Seq(Q)
        BY <1>12
      <4>2. 1 \in DOMAIN e /\ e[1] = Random
        OBVIOUS
      <4> HIDE DEF e
      <4> QED BY <4>1, <4>2 DEF Range
    <3>2. x = e \o z
      BY <1>10, <2>3
    <3> HIDE DEF e
    <3>3. Random \in Range(x)
      BY <1>14, <3>1, <3>2, RangeConcat
    <3>4. p \in Seq(X) /\ x \in Seq(X) /\ y \in Seq(X)
      BY <1>12, <1>16, <1>17, <2>2, SeqMonotonic
    <3> HIDE DEF p
    <3>5. Random \in Range(q) /\ q \in Seq(X)
      <4>1. q \in Seq(X)
        BY <3>4
      <4>2. Range(x) \subseteq Range(q)
        BY <3>4, RangeConcat
      <4> QED BY <3>3, <4>1, <4>2
    <3> HIDE DEF q
    <3>6. Range(q) \subseteq Range(q \o y)
      BY <3>4, <3>5, RangeConcat
    <3> QED BY <2>1, <2>3, <3>5, <3>6
  <2>4. CASE ~Draws(h)
    <3>1. x = <<>>
      BY <1>10, <2>4
    <3> DEFINE Y == P \cup {l}
    <3>2. P \subseteq Y /\ l \in Y /\ \A i \in Y : i \in P \/ i = l
      OBVIOUS
    <3>3. Random \notin Y
      BY <1>9, <1>11, <3>2
    <3> HIDE DEF Y, p
    <3>4. p \in Seq(Y)
      BY <2>2, <3>2, SeqMonotonic
    <3>5. q = p
      BY <3>1, <3>4
    <3>6. y \in Seq(Y)
      BY <3>2 DEF y
    <3>7. p \o y \in Seq(Y)
      BY <3>4, <3>6
    <3>8. insts \in Seq(Y)
      BY <2>1, <3>5, <3>7
    <3>9. Range(insts) \subseteq Y
      BY <3>8 DEF Range
    <3> QED BY <2>4, <3>3, <3>9
  <2> QED BY <2>3, <2>4
<1> QED BY <1>21, <1>22, <1>23, <1>24 DEF BlockDoes

-----------------------------------------------------------------------------
\* BestStateBeacon.Update.

\* The best state after the block of height h.
AfterBlock(c, heights, h) ==
  /\ Sound(c)
  /\ \A s \in Shard : ViewAt(c.ShardCommittee[s], c.ShardPending[s],
                             QueueIn(beaconBlocks, s, beacon.height) \o NewAssigned(s, h),
                             SwapCount(s, heights[s]), Seats(s))

LEMMA QueueType ==
  ASSUME ViewsInv, NEW s \in Shard
  PROVE  QueueIn(beaconBlocks, s, beacon.height) \in Seq(ShardKey(s))
<1>1. PICK X : BlocksOf(beaconBlocks, X)
  BY DEF ViewsInv, KnownInsts
<1>2. beacon.height \in Nat /\ beacon.height <= beacon.height /\ beacon.height <= Len(beaconBlocks)
  BY DEF ViewsInv, RewardsInv, BeaconInv
<1> QED BY <1>1, <1>2, QueueSplit

LEMMA NewAssignedType ==
  ASSUME ViewsInv, NEW s \in Shard, NEW h
  PROVE  NewAssigned(s, h) \in Seq(ShardKey(s)) /\ NewAssigned(s, h) \in Seq(Staker)
<1> DEFINE x == NewAssigned(s, h)
<1>1. beacon.shardCurrent \in Seq(Staker)
  BY DEF ViewsInv, Sound
<1>2. AssignedTo(beacon.shardCurrent, s) \in Seq(Staker)
  BY <1>1, OnlyType DEF AssignedTo
<1>3. x \in Seq(Staker)
  BY <1>2 DEF NewAssigned
<1>4. Staker \subseteq ShardKey(s)
  BY DEF ShardKey
<1> HIDE DEF x
<1>5. x \in Seq(ShardKey(s))
  BY <1>3, <1>4, SeqMonotonic
<1> QED BY <1>3, <1>5 DEF x

\* Nothing is assigned: the lists of the shards stay.
LEMMA QuietUpdate ==
  ASSUME ViewsInv, NEW heights, NEW h, ~Draws(h), NEW d, ViewsAt(d, heights),
         NEW c, Sound(c), c.ShardCommittee = d.ShardCommittee, c.ShardPending = d.ShardPending
  PROVE  AfterBlock(c, heights, h)
<1>1. ASSUME NEW s \in Shard
      PROVE  ViewAt(c.ShardCommittee[s], c.ShardPending[s],
                    QueueIn(beaconBlocks, s, beacon.height) \o NewAssigned(s, h),
                    SwapCount(s, heights[s]), Seats(s))
  <2> DEFINE q == QueueIn(beaconBlocks, s, beacon.height)
  <2>1. q \in Seq(ShardKey(s))
    BY QueueType
  <2>2. ViewAt(c.ShardCommittee[s], c.ShardPending[s], q, SwapCount(s, heights[s]), Seats(s))
    BY DEF ViewsAt
  <2>3. NewAssigned(s, h) = <<>>
    BY DEF NewAssigned
  <2> HIDE DEF q
  <2>4. q \o <<>> = q
    BY <2>1
  <2>5. q \o NewAssigned(s, h) = q
    BY <2>3, <2>4
  <2>6. ViewAt(c.ShardCommittee[s], c.ShardPending[s], q \o NewAssigned(s, h), SwapCount(s, heights[s]), Seats(s))
    BY <2>2, <2>5
  <2> QED BY <2>6 DEF q
<1> QED BY <1>1 DEF AfterBlock

\* The candidates are assigned: they wait behind the others.
LEMMA AssigningUpdate ==
  ASSUME ViewsInv, NEW heights, NEW h, Draws(h), NEW d, ViewsAt(d, heights), NEW shuffled \in Seq(Staker)
  PROVE  AfterBlock(AssignValidatorShard(d, shuffled), heights, h)
<1> DEFINE c == AssignValidatorShard(d, shuffled)
           f == [s \in Shard |-> d.ShardPending[s] \o AssignedTo(d.shardCurrent, s)]
           g == d.BeaconPending \o shuffled
           e == <<>>
<1>1. Sound(d) /\ d.shardCurrent = beacon.shardCurrent /\ DOMAIN d = BestStateFields
  BY DEF ViewsAt, Sound
<1>2. c = [d EXCEPT !.gotRandom = TRUE, !.ShardPending = f, !.shardCurrent = e,
                    !.BeaconPending = g, !.beaconCurrent = e]
  BY <1>1 DEF AssignValidatorShard, BestStateFields
<1>3. g \in Seq(Staker)
  <2>1. d.BeaconPending \in Seq(Staker) /\ shuffled \in Seq(Staker)
    BY <1>1 DEF Sound
  <2> QED BY <2>1
<1>4. DOMAIN f = Shard /\ \A s \in Shard : f[s] = d.ShardPending[s] \o NewAssigned(s, h)
  BY <1>1 DEF NewAssigned
<1> HIDE DEF c, f, g
<1>5. /\ DOMAIN c = BestStateFields
      /\ c.ShardPending = f /\ c.shardCurrent = e /\ c.BeaconPending = g /\ c.beaconCurrent = e
      /\ c.ok = d.ok /\ c.ShardCommittee = d.ShardCommittee /\ c.BeaconCommittee = d.BeaconCommittee
      /\ c.beaconNext = d.beaconNext /\ c.shardNext = d.shardNext
  <2> HIDE DEF e
  <2> QED BY <1>1, <1>2 DEF BestStateFields
<1>6. e \in Seq(Staker)
  OBVIOUS
<1> HIDE DEF e
<1>7. Sound(c)
  BY <1>1, <1>3, <1>4, <1>5, <1>6 DEF Sound
<1>8. ASSUME NEW s \in Shard
      PROVE  ViewAt(c.ShardCommittee[s], c.ShardPending[s],
                    QueueIn(beaconBlocks, s, beacon.height) \o NewAssigned(s, h),
                    SwapCount(s, heights[s]), Seats(s))
  <2> DEFINE q == QueueIn(beaconBlocks, s, beacon.height)
             x == NewAssigned(s, h)
             m == SwapCount(s, heights[s])
             n == Seats(s)
  <2>1. q \in Seq(ShardKey(s)) /\ x \in Seq(ShardKey(s))
    BY QueueType, NewAssignedType
  <2>2. ViewAt(d.ShardCommittee[s], d.ShardPending[s], q, m, n)
    BY DEF ViewsAt
  <2>3. c.ShardCommittee[s] = d.ShardCommittee[s] /\ c.ShardPending[s] = d.ShardPending[s] \o x
    BY <1>4, <1>5
  <2> HIDE DEF q, x, m, n
  <2>4. ViewAt(d.ShardCommittee[s], d.ShardPending[s] \o x, q \o x, m, n)
    BY <2>1, <2>2, ViewMore
  <2>5. ViewAt(c.ShardCommittee[s], c.ShardPending[s], q \o x, m, n)
    BY <2>3, <2>4
  <2> QED BY <2>5 DEF q, x, m, n
<1>9. AfterBlock(c, heights, h)
  BY <1>7, <1>8 DEF AfterBlock
<1> QED BY <1>9 DEF c

\* Freezing the queues leaves the lists of the shards alone.
LEMMA SnapshotSound ==
  ASSUME NEW b, Sound(b)
  PROVE  /\ Sound(Snapshot(b))
         /\ Snapshot(b).ShardCommittee = b.ShardCommittee /\ Snapshot(b).ShardPending = b.ShardPending
<1> DEFINE e == <<>>
           u == b.shardNext
           v == b.beaconNext
           c == [b EXCEPT !.shardCurrent = u, !.beaconCurrent = v, !.shardNext = e, !.beaconNext = e]
<1>1. DOMAIN b = BestStateFields /\ u \in Seq(Staker) /\ v \in Seq(Staker)
  BY DEF Sound
<1>2. e \in Seq(Staker)
  OBVIOUS
<1>3. Snapshot(b) = c \/ Snapshot(b) = b
  BY DEF Snapshot
<1> HIDE DEF e, u, v
<1>4. /\ DOMAIN c = BestStateFields
      /\ c.shardCurrent = u /\ c.beaconCurrent = v /\ c.shardNext = e /\ c.beaconNext = e
      /\ c.ok = b.ok /\ c.ShardCommittee = b.ShardCommittee /\ c.ShardPending = b.ShardPending
      /\ c.BeaconCommittee = b.BeaconCommittee /\ c.BeaconPending = b.BeaconPending
  BY <1>1 DEF BestStateFields
<1> HIDE DEF c
<1>5. Sound(c)
  BY <1>1, <1>2, <1>4 DEF Sound
<1> QED BY <1>3, <1>4, <1>5

\* The candidates in any order are candidates.
LEMMA ShuffledType ==
  ASSUME NEW q \in Seq(Staker), NEW w \in ShuffleCandidate(q)
  PROVE  w \in Seq(Staker)
<1> DEFINE n == Len(q)
<1>1. n \in Nat /\ DOMAIN q = 1..n /\ Range(q) \subseteq Staker
  BY DEF Range
<1>2. w \in [DOMAIN q -> Range(q)]
  BY DEF ShuffleCandidate
<1> HIDE DEF n
<1>3. w \in [1..n -> Staker]
  BY <1>1, <1>2
<1> QED BY <1>1, <1>3

\* The random number is read in the block that draws it, after RANDOM_TIME.
LEMMA UpdateViews ==
  ASSUME OFFSET = 1, ViewsInv, NEW heights \in [Shard -> Nat],
         \A s \in Shard : heights[s] \in beacon.bestShard[s]..Len(shardBlocks[s]),
         NEW h, h = beacon.height + 1,
         NEW insts, insts = BlockInsts(h, TakenBlocks(heights)),
         NEW shuffled \in ShuffleCandidate(beacon.beaconCurrent)
  PROVE  /\ AfterBlock(Update(beacon, heights, insts, shuffled), heights, h)
         /\ HasInstsType(insts) /\ \A s \in Shard : AssignedIn(s, insts) = NewAssigned(s, h)
<1> DEFINE taken == [beacon EXCEPT !.height = @ + 1, !.bestShard = heights]
           applied == ApplyInstructions(taken, insts)
           k == h % EPOCH
           c == Update(beacon, heights, insts, shuffled)
<1>1. Sound(beacon) /\ beacon.height \in Nat
  BY DEF ViewsInv, RewardsInv, BeaconInv
<1>2. SameLists(taken) /\ Keeps(taken, taken) /\ taken.height = h
  <2> DEFINE n == beacon.height + 1
  <2>1. DOMAIN beacon = BestStateFields
    BY <1>1 DEF Sound
  <2>2. /\ DOMAIN taken = BestStateFields /\ taken.height = n /\ taken.ok = beacon.ok
        /\ taken.BeaconCommittee = beacon.BeaconCommittee /\ taken.BeaconPending = beacon.BeaconPending
        /\ taken.beaconCurrent = beacon.beaconCurrent /\ taken.beaconNext = beacon.beaconNext
        /\ taken.shardCurrent = beacon.shardCurrent /\ taken.shardNext = beacon.shardNext
        /\ taken.ShardCommittee = beacon.ShardCommittee /\ taken.ShardPending = beacon.ShardPending
    BY <2>1 DEF BestStateFields
  <2> HIDE DEF taken
  <2>3. Sound(taken)
    BY <1>1, <2>2 DEF Sound
  <2>4. SameLists(taken)
    BY <2>2, <2>3 DEF SameLists
  <2>5. "height" \in DOMAIN taken /\ "bestShard" \in DOMAIN taken
    BY <2>2 DEF BestStateFields
  <2> QED BY <2>2, <2>4, <2>5 DEF Keeps
<1>3. c = CASE ~applied.ok -> applied
          [] applied.ok /\ applied.height % EPOCH = 1 -> [applied EXCEPT !.gotRandom = FALSE]
          [] applied.ok /\ applied.height % EPOCH # 1 /\ applied.height % EPOCH < RANDOM_TIME -> applied
          [] applied.ok /\ applied.height % EPOCH >= RANDOM_TIME ->
                IF Random \in Range(insts) THEN AssignValidatorShard(Snapshot(applied), shuffled)
                                           ELSE Snapshot(applied)
  BY DEF Update
<1> HIDE DEF taken
<1>4. BlockDoes(taken, insts, h, heights)
  BY <1>2, BlockEffect
<1>5. HasInstsType(insts) /\ \A s \in Shard : AssignedIn(s, insts) = NewAssigned(s, h)
  BY <1>4 DEF BlockDoes
<1>6. (Random \in Range(insts) <=> Draws(h)) /\ ViewsAt(applied, heights)
  BY <1>4 DEF BlockDoes
<1>7. applied.height = h
  <2>1. PICK X : insts \in Seq(X)
    BY <1>5 DEF HasInstsType
  <2>2. Keeps(taken, applied)
    BY <1>2, <2>1, ApplyInstructionsKeeps
  <2> QED BY <1>2, <2>2 DEF Keeps
<1> HIDE DEF applied
<1>8. Sound(applied) /\ applied.ok
  BY <1>6 DEF ViewsAt, Sound
<1>9. shuffled \in Seq(Staker)
  <2>1. beacon.beaconCurrent \in Seq(Staker)
    BY <1>1 DEF Sound
  <2> QED BY <2>1, ShuffledType
<1>10. k \in Nat
  <2>1. EPOCH \in Nat \ {0} /\ h \in Nat
    BY <1>1, EpochAssumption
  <2> QED BY <2>1
<1> DEFINE d == Snapshot(applied)
<1>11. Draws(h) <=> k > RANDOM_TIME /\ ~beacon.gotRandom
  BY DEF Draws
<1>12. /\ k = 1 /\ ~(k >= RANDOM_TIME) => c = [applied EXCEPT !.gotRandom = FALSE]
       /\ k # 1 /\ k < RANDOM_TIME /\ ~(k >= RANDOM_TIME) => c = applied
       /\ k # 1 /\ ~(k < RANDOM_TIME) /\ k >= RANDOM_TIME =>
             c = IF Draws(h) THEN AssignValidatorShard(d, shuffled) ELSE d
  <2> DEFINE a == AssignValidatorShard(d, shuffled)
             e == [applied EXCEPT !.gotRandom = FALSE]
             f == IF Random \in Range(insts) THEN a ELSE d
             g == IF Draws(h) THEN a ELSE d
  <2>1. f = g
    <3> HIDE DEF a, d
    <3>1. Random \in Range(insts) <=> Draws(h)
      BY <1>6
    <3> QED BY <3>1
  <2>2. c = CASE ~applied.ok -> applied
              [] applied.ok /\ applied.height % EPOCH = 1 -> e
              [] applied.ok /\ applied.height % EPOCH # 1 /\ applied.height % EPOCH < RANDOM_TIME -> applied
              [] applied.ok /\ applied.height % EPOCH >= RANDOM_TIME -> f
    BY <1>3
  <2> HIDE DEF a, e, f, g, c, d
  <2>3. applied.height % EPOCH = k
    BY <1>7
  <2> HIDE DEF k
  <2>4. c = CASE ~applied.ok -> applied
              [] applied.ok /\ k = 1 -> e
              [] applied.ok /\ k # 1 /\ k < RANDOM_TIME -> applied
              [] applied.ok /\ k >= RANDOM_TIME -> g
    BY <2>1, <2>2, <2>3
  <2>5. k = 1 /\ ~(k >= RANDOM_TIME) => c = e
    BY <1>8, <2>4
  <2>6. k # 1 /\ k < RANDOM_TIME /\ ~(k >= RANDOM_TIME) => c = applied
    BY <1>8, <2>4
  <2>7. k # 1 /\ ~(k < RANDOM_TIME) /\ k >= RANDOM_TIME => c = g
    BY <1>8, <2>4
  <2> QED BY <2>5, <2>6, <2>7 DEF a, e, g
<1>13. d = applied \/ k = RANDOM_TIME
  BY <1>7 DEF Snapshot
<1>14. Sound(d) /\ d.ShardCommittee = applied.ShardCommittee /\ d.ShardPending = applied.ShardPending
  BY <1>8, SnapshotSound
<1> HIDE DEF c, d, k
<1>15. CASE k = 1
  <2> DEFINE e == [applied EXCEPT !.gotRandom = FALSE]
  <2>1. ~(k >= RANDOM_TIME) /\ ~(k > RANDOM_TIME)
    BY <1>15, EpochAssumption
  <2>2. c = e /\ ~Draws(h)
    BY <1>11, <1>12, <1>15, <2>1
  <2>3. DOMAIN applied = BestStateFields
    BY <1>8 DEF Sound
  <2>4. /\ DOMAIN e = BestStateFields /\ e.ok = applied.ok
        /\ e.BeaconCommittee = applied.BeaconCommittee /\ e.BeaconPending = applied.BeaconPending
        /\ e.beaconCurrent = applied.beaconCurrent /\ e.beaconNext = applied.beaconNext
        /\ e.shardCurrent = applied.shardCurrent /\ e.shardNext = applied.shardNext
        /\ e.ShardCommittee = applied.ShardCommittee /\ e.ShardPending = applied.ShardPending
    BY <2>3 DEF BestStateFields
  <2> HIDE DEF e
  <2>5. Sound(e)
    BY <1>8, <2>4 DEF Sound
  <2>6. AfterBlock(e, heights, h)
    BY <1>6, <2>2, <2>4, <2>5, QuietUpdate
  <2> QED BY <1>5, <2>2, <2>6 DEF c
<1>16. CASE k # 1 /\ k < RANDOM_TIME
  <2>1. ~(k >= RANDOM_TIME) /\ ~(k > RANDOM_TIME)
    BY <1>10, <1>16, EpochAssumption
  <2>2. c = applied /\ ~Draws(h)
    BY <1>11, <1>12, <1>16, <2>1
  <2>3. AfterBlock(applied, heights, h)
    BY <1>6, <1>8, <2>2, QuietUpdate
  <2> QED BY <1>5, <2>2, <2>3 DEF c
<1>17. CASE k >= RANDOM_TIME
  <2>1. k # 1 /\ ~(k < RANDOM_TIME)
    BY <1>10, <1>17, EpochAssumption
  <2>2. c = IF Draws(h) THEN AssignValidatorShard(d, shuffled) ELSE d
    BY <1>12, <1>17, <2>1
  <2>3. CASE ~Draws(h)
    <3>1. AfterBlock(d, heights, h)
      BY <1>6, <1>14, <2>3, QuietUpdate
    <3> QED BY <1>5, <2>2, <2>3, <3>1 DEF c
  <2>4. CASE Draws(h)
    <3>1. k # RANDOM_TIME
      BY <1>10, <1>11, <2>4, EpochAssumption
    <3>2. d = applied
      BY <1>13, <3>1
    <3>3. AfterBlock(AssignValidatorShard(applied, shuffled), heights, h)
      BY <1>6, <1>9, <2>4, AssigningUpdate
    <3> QED BY <1>5, <2>2, <2>4, <3>2, <3>3 DEF c
  <2> QED BY <2>3, <2>4
<1>18. k < RANDOM_TIME \/ k >= RANDOM_TIME
  BY <1>10, EpochAssumption
<1> QED BY <1>15, <1>16, <1>17, <1>18

\* One beacon block more.
LEMMA QueueAfter ==
  ASSUME BeaconInv, KnownInsts, NEW insts, HasInstsType(insts), beaconBlocks' = Append(beaconBlocks, insts)
  PROVE  /\ KnownInsts'
         /\ \A s \in Shard, i \in 1..beacon.height : QueueIn(beaconBlocks', s, i) = QueueIn(beaconBlocks, s, i)
         /\ \A s \in Shard : QueueIn(beaconBlocks', s, beacon.height + 1)
                               = QueueIn(beaconBlocks, s, beacon.height) \o AssignedIn(s, insts)
<1> DEFINE bb == beaconBlocks
           cc == Append(bb, insts)
           n == beacon.height
           h == n + 1
<1>1. n \in Nat \ {0} /\ Len(bb) = n
  BY DEF BeaconInv
<1>2. PICK X : BlocksOf(bb, X)
  BY DEF KnownInsts
<1>3. PICK Y : Assigning(Y) /\ insts \in Seq(Y)
  BY DEF HasInstsType
<1> DEFINE Z == X \cup Y
           T == Seq(Z)
<1>4. X \subseteq Z /\ Y \subseteq Z
  OBVIOUS
<1>5. Assigning(Z)
  BY <1>2, <1>3 DEF BlocksOf, Assigning
<1> HIDE DEF Z
<1>6. insts \in T
  BY <1>3, <1>4, SeqMonotonic
<1>7. bb \in Seq(T)
  <2>1. bb \in Seq(Seq(X))
    BY <1>2 DEF BlocksOf
  <2>2. Seq(X) \subseteq T
    <3>1. \A q \in Seq(X) : q \in Seq(Z)
      BY <1>4, SeqMonotonic
    <3> QED BY <3>1
  <2> HIDE DEF T, bb
  <2> QED BY <2>1, <2>2, SeqMonotonic
<1> HIDE DEF bb, T, n
<1>8. cc \in Seq(T) /\ Len(cc) = h /\ cc[h] = insts
  BY <1>1, <1>6, <1>7
<1>9. ASSUME NEW i \in 1..n PROVE SubSeq(cc, 1, i) = SubSeq(bb, 1, i)
  <2>1. i \in Nat /\ i <= Len(bb)
    BY <1>1
  <2> QED BY <1>6, <1>7, <2>1, SubSeqAppend
<1> HIDE DEF cc, h
<1>10. BlocksOf(cc, Z)
  BY <1>5, <1>8 DEF BlocksOf, T
<1>11. beaconBlocks' = cc
  BY DEF cc, bb
<1>12. KnownInsts'
  BY <1>10, <1>11 DEF KnownInsts
<1>13. ASSUME NEW s \in Shard, NEW i \in 1..n PROVE QueueIn(cc, s, i) = QueueIn(bb, s, i)
  BY <1>9 DEF QueueIn
<1>14. ASSUME NEW s \in Shard PROVE QueueIn(cc, s, h) = QueueIn(bb, s, n) \o AssignedIn(s, insts)
  <2> DEFINE e == SubSeq(cc, n + 1, h)
  <2>1. n \in Nat /\ h \in Nat /\ n <= h /\ h <= Len(cc)
    BY <1>1, <1>8 DEF h
  <2>2. QueueGrows(cc, s, n, h)
    BY <1>10, <2>1, QueueSplit
  <2>3. FlattenSeq(e) = insts
    <3>1. e = <<insts>>
      <4> DEFINE f == <<insts>>
      <4>1. n + 1 = h /\ h \in 1..Len(cc) /\ (h - h) + 1 = 1 /\ h \in Nat \ {0}
        BY <1>1, <1>8 DEF h
      <4>2. e = SubSeq(cc, h, h)
        BY <4>1
      <4> HIDE DEF e
      <4>3. e \in Seq(T) /\ Len(e) = 1 /\ e[1] = cc[h]
        <5>1. Len(SubSeq(cc, h, h)) = 1 /\ SubSeq(cc, h, h) \in Seq(T)
          BY <1>8, <4>1
        <5>2. SubSeq(cc, h, h)[1] = cc[h]
          BY <1>8, <4>1
        <5> QED BY <4>2, <5>1, <5>2
      <4>4. f \in Seq(T) /\ Len(f) = 1 /\ f[1] = insts
        BY <1>6
      <4> HIDE DEF f
      <4>5. \A k \in 1..Len(e) : e[k] = f[k]
        BY <1>8, <4>3, <4>4
      <4>6. e = f
        BY <4>3, <4>4, <4>5, SeqEqual
      <4> QED BY <4>6 DEF f
    <3>2. FlattenSeq(<<insts>>) = insts
      BY <1>6, FlattenOne DEF T
    <3> QED BY <3>1, <3>2
  <2>4. QueueIn(cc, s, h) = QueueIn(cc, s, n) \o AssignedIn(s, FlattenSeq(e))
    BY <2>2, Zenon DEF QueueGrows
  <2>5. n \in 1..n
    BY <1>1
  <2>6. QueueIn(cc, s, n) = QueueIn(bb, s, n)
    BY <1>13, <2>5
  <2> QED BY <2>3, <2>4, <2>6
<1>15. \A s \in Shard, i \in 1..n : QueueIn(beaconBlocks', s, i) = QueueIn(bb, s, i)
  BY <1>11, <1>13
<1>16. \A s \in Shard : QueueIn(beaconBlocks', s, h) = QueueIn(bb, s, n) \o AssignedIn(s, insts)
  BY <1>11, <1>14
<1> QED BY <1>12, <1>15, <1>16 DEF bb, n, h

\* A beacon block that takes the shard blocks up to these heights.
LEMMA NewBlockBeaconViews ==
  ASSUME OFFSET = 1, ViewsInv, NEW heights \in [Shard -> Nat],
         \A s \in Shard : heights[s] \in beacon.bestShard[s]..Len(shardBlocks[s]),
         NewBlockBeacon(heights)
  PROVE  ViewsInv'
<1> DEFINE h == beacon.height + 1
           insts == BlockInsts(h, TakenBlocks(heights))
<1>1. /\ RewardsInv /\ BeaconInv /\ SwapsInv /\ PaidInv /\ KnownInsts /\ StakesInv /\ Sound(beacon)
      /\ \A t \in Shard : SwapsView(t) /\ ShardView(t) /\ BeaconView(t)
  BY DEF ViewsInv, RewardsInv
<1>2. RewardsInv'
  BY <1>1, NewBlockBeaconKeeps
<1>3. PICK shuffled \in ShuffleCandidate(beacon.beaconCurrent) :
        beacon' = Update(beacon, heights, insts, shuffled)
  BY DEF NewBlockBeacon, BlockInsts, TakenBlocks
<1>4. beaconBlocks' = Append(beaconBlocks, insts) /\ UNCHANGED <<shard, shardBlocks>>
  BY DEF NewBlockBeacon, BlockInsts, TakenBlocks
<1>5. /\ AfterBlock(beacon', heights, h) /\ HasInstsType(insts)
      /\ \A s \in Shard : AssignedIn(s, insts) = NewAssigned(s, h)
  BY <1>3, UpdateViews
<1>6. beacon'.height = h /\ beacon'.bestShard = heights
  <2>1. PICK X : insts \in Seq(X)
    BY <1>5 DEF HasInstsType
  <2>2. Keeps(beacon, beacon) /\ beacon.height \in Nat
    BY <1>1 DEF BeaconInv
  <2>3. LET c == Update(beacon, heights, insts, shuffled)
        IN  Keeps(c, c) /\ c.height = h /\ c.bestShard = heights
    <3> HIDE DEF insts
    <3> QED BY <2>1, <2>2, UpdateHeight
  <2> QED BY <1>3, <2>3
<1> HIDE DEF insts
<1>7. /\ KnownInsts'
      /\ \A s \in Shard, i \in 1..beacon.height : QueueIn(beaconBlocks', s, i) = QueueIn(beaconBlocks, s, i)
      /\ \A s \in Shard : QueueIn(beaconBlocks', s, h) = QueueIn(beaconBlocks, s, beacon.height) \o AssignedIn(s, insts)
  BY <1>1, <1>4, <1>5, QueueAfter
<1>8. ASSUME NEW s \in Shard PROVE SwapsView(s)' /\ ShardView(s)' /\ BeaconView(s)'
  <2> DEFINE q == QueueIn(beaconBlocks, s, beacon.height)
             x == NewAssigned(s, h)
             r == QueueIn(beaconBlocks', s, h)
             S == SwapsOf(shardBlocks[s])
             Top == Len(shardBlocks[s])
             n == Seats(s)
  <2>1. r = q \o x
    BY <1>5, <1>7
  <2>2. q \in Seq(ShardKey(s)) /\ x \in Seq(ShardKey(s))
    BY QueueType, NewAssignedType
  <2>3. shardBlocks[s] \in Seq(AllBlocks)
    BY <1>1, AllBlocksType
  <2>4. Top \in Nat /\ Top <= Top
    BY <2>3
  <2>5. S \in Seq(AllSwaps)
    <3>1. \A b \in AllBlocks : b.swap \in Seq(AllSwaps)
      BY <1>1, AllBlocksType
    <3> QED BY <2>3, <3>1, SwapsConcat
  <2>6. Len(S) + n <= Len(q) /\ n \in Nat
    <3> DEFINE a == SwapsOf(SubSeq(shardBlocks[s], 1, Top))
               b == SwapsOf(SubSeq(shardBlocks[s], Top + 1, Top))
    <3>1. b \in Seq(AllSwaps) /\ Len(a) + Len(b) + n <= Len(q)
      <4> HIDE DEF q
      <4>1. LET qq == QueueIn(beaconBlocks, s, beacon.height)
            IN  b \in Seq(AllSwaps) /\ Len(a) + Len(b) + Seats(s) <= Len(qq)
        BY <2>4, SwapsInView
      <4> QED BY <4>1 DEF q
    <3>2. a = S
      BY <2>3, WholeSubSeq
    <3>3. Len(b) \in Nat /\ Len(S) \in Nat /\ Len(q) \in Nat
      BY <2>2, <2>5, <3>1
    <3>4. n \in Nat
      BY GenesisType DEF Seats
    <3> HIDE DEF a, b, S, q, n
    <3> QED BY <3>1, <3>2, <3>3, <3>4
  <2>7. NextSwaps(S, q, 0, n, s)
    BY <1>1 DEF SwapsView
  <2>8. shardBlocks'[s] = shardBlocks[s] /\ shard'[s] = shard[s]
    BY <1>4
  <2> HIDE DEF q, x, r, S, Top, n
  <2>9. NextSwaps(S, r, 0, n, s)
    <3>1. Len(S) \in Nat /\ 0 + Len(S) + n <= Len(q) /\ 0 \in Nat
      BY <2>5, <2>6
    <3>2. NextSwaps(S, q \o x, 0, n, s)
      BY <2>2, <2>5, <2>6, <2>7, <3>1, NextSwapsMore
    <3> QED BY <2>1, <3>2
  <2>10. SwapsView(s)'
    BY <1>6, <2>8, <2>9 DEF SwapsView, r, S, n, Seats
  <2>11. ShardView(s)'
    <3>1. shard[s].beaconHeight \in 1..beacon.height
      BY <1>1 DEF PaidInv
    <3>2. QueueIn(beaconBlocks', s, shard[s].beaconHeight) = QueueIn(beaconBlocks, s, shard[s].beaconHeight)
      BY <1>7, <3>1
    <3>3. ShardView(s)
      BY <1>1
    <3> QED BY <2>8, <3>2, <3>3 DEF ShardView, Seats
  <2>12. BeaconView(s)'
    <3>1. heights[s] <= Top
      <4>1. heights[s] \in beacon.bestShard[s]..Top /\ beacon.bestShard[s] \in Nat
        BY <1>1 DEF BeaconInv, Top
      <4> HIDE DEF h
      <4> QED BY <2>4, <4>1
    <3>2. ViewAt(beacon'.ShardCommittee[s], beacon'.ShardPending[s], q \o x, SwapCount(s, heights[s]), n)
      BY <1>5 DEF AfterBlock, q, x, n
    <3>3. ViewAt(beacon'.ShardCommittee[s], beacon'.ShardPending[s], r, SwapCount(s, heights[s]), n)
      BY <2>1, <3>2
    <3> QED BY <1>6, <2>8, <3>1, <3>3 DEF BeaconView, SwapCount, r, Top, n, Seats
  <2> QED BY <2>10, <2>11, <2>12
<1>9. StakesInv'
  BY <1>1, <1>4 DEF StakesInv
<1>10. Sound(beacon')
  BY <1>5 DEF AfterBlock
<1> QED BY <1>2, <1>7, <1>8, <1>9, <1>10 DEF ViewsInv

\* The stakes of a block.
LEMMA AtMostOneType ==
  ASSUME NEW kind, NEW q \in AtMostOne(kind)
  PROVE  q \in Seq(Staker)
<1>1. q = <<>> \/ \E k \in Staker : q = <<k>>
  BY DEF AtMostOne
<1>2. <<>> \in Seq(Staker) /\ \A k \in Staker : <<k>> \in Seq(Staker)
  OBVIOUS
<1> QED BY <1>1, <1>2, Zenon

\* Every step.
LEMMA ViewsInvNext ==
  ASSUME OFFSET = 1, ViewsInv, [CommitteesNext]_committeeVars
  PROVE  ViewsInv'
<1>1. CASE UNCHANGED committeeVars
  <2>1. RewardsInv'
    BY RewardsInvNext DEF ViewsInv
  <2>2. UNCHANGED <<beacon, beaconBlocks, shard, shardBlocks>>
    BY <1>1 DEF committeeVars
  <2>3. KnownInsts' /\ StakesInv' /\ Sound(beacon')
    BY <2>2 DEF ViewsInv, KnownInsts, StakesInv
  <2>4. ASSUME NEW s \in Shard PROVE SwapsView(s)' /\ ShardView(s)' /\ BeaconView(s)'
    <3>1. SwapsView(s) /\ ShardView(s) /\ BeaconView(s)
      BY DEF ViewsInv
    <3> QED BY <2>2, <3>1 DEF SwapsView, ShardView, BeaconView, Seats
  <2> QED BY <2>1, <2>3, <2>4 DEF ViewsInv
<1>2. ASSUME NEW heights \in [Shard -> 0..Max(Range(MaxShardHeight))],
             \A s \in Shard : heights[s] \in beacon.bestShard[s]..Len(shardBlocks[s]),
             NewBlockBeacon(heights)
      PROVE  ViewsInv'
  <2>1. heights \in [Shard -> Nat]
    OBVIOUS
  <2> QED BY <1>2, <2>1, NewBlockBeaconViews
<1>3. ASSUME NEW s \in Shard, NEW h \in 1..MaxBeaconHeight, h \in shard[s].beaconHeight..beacon.height,
             NEW sh \in AtMostOne("shard"), NEW be \in AtMostOne("beacon"), NewBlockShard(s, h, sh, be)
      PROVE  ViewsInv'
  <2>1. sh \in Seq(Staker) /\ be \in Seq(Staker)
    BY AtMostOneType
  <2> QED BY <1>3, <2>1, NewBlockShardViews
<1>4. CASE CommitteesNext
  BY <1>2, <1>3, <1>4 DEF CommitteesNext
<1> QED BY <1>1, <1>4

\* A shard and the beacon never disagree about the shard's validators, whose
\* block is at what height and however far the one has gone without the other
\* (CreateSwapAction, GetAssignInstructionFromBeaconBlock and Update of both
\* best states).  OFFSET is 1 in common/constants.go:66; with a greater one
\* RemoveValidator does not find the second validator of a swap.
THEOREM ViewsOfShardsAgree ==
  ASSUME OFFSET = 1
  PROVE  CommitteesSpec => []ViewsAgree
<1>1. CommitteesInit => ViewsInv
  BY ViewsInvInit
<1>2. ViewsInv /\ [CommitteesNext]_committeeVars => ViewsInv'
  BY ViewsInvNext
<1>3. ViewsInv => ViewsAgree
  BY ViewsInvAgree
<1> QED BY <1>1, <1>2, <1>3, PTL DEF CommitteesSpec

=============================================================================
