---------------------------- MODULE ConstantBFT ----------------------------
(***************************************************************************)
(* The consensus of a beacon or shard committee on the block of one height *)
(* (consensus/constantbft): the engine of every validator runs rounds of   *)
(* the protocol until a block of that height is in its chain.              *)
(*                                                                         *)
(* The loop of a phase only gathers messages, so the phase is one step: it *)
(* ends with any set of the messages sent before, which covers every       *)
(* delay, loss, duplicate and reordering, the buffers of earlyMsgHandler   *)
(* and the copies forwardMsg makes.                                        *)
(***************************************************************************)
EXTENDS Integers, FiniteSets

CONSTANTS
  N,            \* the size of the committee
  ProposerIdx,  \* BeaconProposerIdx of the best state
  MaxStarts,    \* bound: the rounds each engine goes to, and its starts in all
  MaxMissing,   \* bound: the Ri a validator misses when it signs
  MayRestart,   \* bound: the validators that crash and restart
  Up,           \* the validators that run, in TimelyNext only
  NoBlockIn     \* the rounds whose proposer makes no block, in TimelyNext only

Validator == 0 .. N - 1
Round == Nat \ {0}
Draw == Nat \ {0}

ASSUME SizeAssumption ==
  /\ N \in Nat \ {0}
  /\ ProposerIdx \in Nat
  /\ MaxStarts \in [Validator -> Nat]
  /\ MaxMissing \in Nat
ASSUME UpAssumption ==
  /\ Up \subseteq Validator
  /\ MayRestart \subseteq Validator
  /\ NoBlockIn \subseteq Nat

\* A proposer makes one block each time it starts a round it proposes.
Block == [round : Round, draw : Draw]

NoBlock == [round |-> 0, draw |-> 0]

\* A combined R: the draw of each Ri it is made of, 0 for those left out.
Combined == [Validator -> Nat]
ValidatorsIdx(R) == {v \in Validator : R[v] # 0}

\* What CombineSigs puts into a block.
Certificate == [block : Block, R : Combined, signers : SUBSET Validator]
NoCert == [block |-> NoBlock, R |-> [v \in Validator |-> 0], signers |-> {}]

VARIABLES
  round,         \* currentBFTRound of each engine
  phase,         \* the phase it is in, "idle" between two rounds
  draw,          \* personal.r: the number of the random draw it signs with
  pendingBlock,  \* pendingBlock and dataToSig
  best,          \* the certificate of the block in its chain at this height
  readyMsgs, proposeMsgs, prepareMsgs, commitMsgs   \* all messages sent

msgs == <<readyMsgs, proposeMsgs, prepareMsgs, commitMsgs>>
vars == <<round, phase, draw, pendingBlock, best, msgs>>

-----------------------------------------------------------------------------
\* GetPubkeyRole, and the check of the producer of a block.
Proposer(r) == (ProposerIdx + r) % N

\* Mutant: every validator has to sign.
IsQuorumAll(S) == Cardinality(S) = N

\* The signatures phaseCommit asks for.
IsQuorum(S) == Cardinality(S) > (2 * N) \div 3

\* Those that signed block with R.
Signers(block, R) == {m.from : m \in {c \in commitMsgs : c.block = block /\ c.R = R}}

\* Mutant: ValidatorsIdxR is taken for the list of those that signed.
VerifiedSignersPrepared(v, R) == ValidatorsIdx(R)

\* Those whose commit message for R passes VerifyCommitSig at v, which
\* checks it against its own block.
VerifiedSigners(v, R) == Signers(pendingBlock[v], R)

-----------------------------------------------------------------------------
Init ==
  /\ round = [v \in Validator |-> 1]
  /\ phase = [v \in Validator |-> "idle"]
  /\ draw = [v \in Validator |-> 0]
  /\ pendingBlock = [v \in Validator |-> NoBlock]
  /\ best = [v \in Validator |-> NoCert]
  /\ readyMsgs = {}
  /\ proposeMsgs = {}
  /\ prepareMsgs = {}
  /\ commitMsgs = {}

\* Mutant: the random of the first round is kept.
FreshDrawOnce(v) == 1

\* multiSigScheme.Prepare draws a new random.
FreshDraw(v) == draw[v] + 1

\* The engine starts a round: execBeaconRole up to the first phase of Start.
\* A validator announces that it is ready as it enters phaseListen.
StartRound(v) ==
  /\ phase[v] = "idle"
  /\ best[v] = NoCert
  /\ draw[v] < MaxStarts[v]
  /\ round[v] <= MaxStarts[v]
  /\ draw' = [draw EXCEPT ![v] = FreshDraw(v)]
  /\ \/ /\ v = Proposer(round[v])
        /\ phase' = [phase EXCEPT ![v] = "propose"]
        /\ UNCHANGED readyMsgs
     \/ /\ v # Proposer(round[v])
        /\ phase' = [phase EXCEPT ![v] = "listen"]
        /\ readyMsgs' = readyMsgs \union {[from |-> v, round |-> round[v]]}
  /\ UNCHANGED <<round, pendingBlock, best, proposeMsgs, prepareMsgs, commitMsgs>>

\* Start has returned; its BFTProtocol goes with it.
EndRound(v) ==
  /\ phase' = [phase EXCEPT ![v] = "idle"]
  /\ pendingBlock' = [pendingBlock EXCEPT ![v] = NoBlock]

\* An engine with no start left, or past this height, can only be silent
\* here: it need not fail or restart to be so.
Matters(v) == draw[v] < MaxStarts[v] /\ best[v] = NoCert

\* Start returns an error, and the engine goes to the next round.
FailRound(v) ==
  /\ EndRound(v)
  /\ round' = [round EXCEPT ![v] = @ + 1]
  /\ UNCHANGED <<draw, best, msgs>>

\* The block is taken as pendingBlock, and the Ri goes out.
EnterPrepare(v, b) ==
  /\ phase' = [phase EXCEPT ![v] = "prepare"]
  /\ pendingBlock' = [pendingBlock EXCEPT ![v] = b]
  /\ prepareMsgs' = prepareMsgs \union {[from |-> v, block |-> b, draw |-> draw[v]]}

\* phasePropose with enough ready messages for its round.
PhasePropose(v) ==
  LET b == [round |-> round[v], draw |-> draw[v]]
  IN  /\ phase[v] = "propose"
      /\ Cardinality({m \in readyMsgs : m.round = round[v]}) >= (2 * N) \div 3 - 1
      /\ EnterPrepare(v, b)
      /\ proposeMsgs' = proposeMsgs \union {b}
      /\ UNCHANGED <<round, draw, best, readyMsgs, commitMsgs>>

\* No block could be made, or too few validators were ready.
PhaseProposeFails(v) == phase[v] = "propose" /\ FailRound(v)

\* phaseListen takes a proposal that VerifyPreSignBeaconBlock accepts: it
\* must extend the best block, and may be of any round.
PhaseListen(v, b) ==
  /\ phase[v] = "listen"
  /\ best[v] = NoCert
  /\ EnterPrepare(v, b)
  /\ UNCHANGED <<round, draw, best, readyMsgs, proposeMsgs, commitMsgs>>

PhaseListenFails(v) == phase[v] = "listen" /\ Matters(v) /\ FailRound(v)

\* The Ri of w that phasePrepare of v may have in collectedRiList.
Collectable(v, w) ==
  IF w = v THEN {draw[v]}
  ELSE {m.draw : m \in {p \in prepareMsgs :
                          p.from = w /\ p.block = pendingBlock[v]}}

\* The states collectedRiList can be in: at least its own Ri is there.
Collections(v) ==
  LET sent == UNION {Collectable(v, w) : w \in Validator}
  IN  {R \in [Validator -> sent \union {0}] :
         /\ R[v] = draw[v]
         /\ \A w \in ValidatorsIdx(R) : R[w] \in Collectable(v, w)}

\* phasePrepare ends with the collected Ri of R, and the block is signed.
PhasePrepare(v, R) ==
  /\ phase[v] = "prepare"
  /\ Cardinality(ValidatorsIdx(R)) >= N \div 2
  /\ Cardinality(ValidatorsIdx(R)) >= N - MaxMissing
  /\ phase' = [phase EXCEPT ![v] = "commit"]
  /\ commitMsgs' = commitMsgs \union
                     {[from |-> v, block |-> pendingBlock[v], R |-> R]}
  /\ UNCHANGED <<round, draw, pendingBlock, best,
                 readyMsgs, proposeMsgs, prepareMsgs>>

\* Too few Ri came: it has at least its own.
PhasePrepareFails(v) ==
  /\ phase[v] = "prepare"
  /\ Matters(v)
  /\ 1 < N \div 2
  /\ FailRound(v)

\* The engine inserts the block with its certificate and pushes it to all;
\* the insert is refused when the chain has got another block meanwhile.
InsertCommitted(v, cert) ==
  /\ EndRound(v)
  /\ best' = [best EXCEPT ![v] = IF @ = NoCert THEN cert ELSE @]
  /\ UNCHANGED <<round, draw, msgs>>

\* phaseCommit ends with the signatures of S under one R, its own among them
\* when it is its own R.
PhaseCommit(v, R, S) ==
  /\ phase[v] = "commit"
  /\ v \in VerifiedSigners(v, R) /\ R[v] = draw[v] => v \in S
  /\ IsQuorum(S)
  /\ InsertCommitted(v, [block |-> pendingBlock[v], R |-> R, signers |-> S])

PhaseCommitFails(v) ==
  /\ phase[v] = "commit"
  /\ Matters(v)
  /\ ~IsQuorum({v})
  /\ FailRound(v)

\* A block of another validator is inserted, from OnBlockBeaconReceived or
\* from the pool, which does not wait for the round to end.
InsertPushedBlock(v, w) ==
  /\ best[v] = NoCert
  /\ best[w] # NoCert
  /\ N > 3 => Cardinality(best[w].signers) >= N \div 2
  /\ best[w].signers \subseteq Signers(best[w].block, best[w].R)
  /\ best' = [best EXCEPT ![v] = best[w]]
  /\ UNCHANGED <<round, phase, draw, pendingBlock, msgs>>

\* Only the chain survives: the engine starts again at round 1.
Restart(v) ==
  /\ v \in MayRestart
  /\ Matters(v)
  /\ EndRound(v)
  /\ round' = [round EXCEPT ![v] = 1]
  /\ UNCHANGED <<draw, best, msgs>>

\* Next tests a phase before it enumerates what the phase can end with.
Next ==
  \E v \in Validator :
    \/ StartRound(v)
    \/ PhasePropose(v)
    \/ PhaseProposeFails(v)
    \/ \E b \in proposeMsgs : PhaseListen(v, b)
    \/ PhaseListenFails(v)
    \/ phase[v] = "prepare" /\ \E R \in Collections(v) : PhasePrepare(v, R)
    \/ PhasePrepareFails(v)
    \/ /\ phase[v] = "commit"
       /\ \E R \in {m.R : m \in commitMsgs} :
            \E S \in SUBSET VerifiedSigners(v, R) : PhaseCommit(v, R, S)
    \/ PhaseCommitFails(v)
    \/ \E w \in Validator : InsertPushedBlock(v, w)
    \/ Restart(v)

Spec == Init /\ [][Next]_vars

-----------------------------------------------------------------------------
\* Every running validator works on the block of v, or has done with it.
AllPrepare(v) ==
  \A w \in Up : best[w] # NoCert \/ pendingBlock[w] = pendingBlock[v]

\* No proposal of this round will come.
NoProposal(r) == Proposer(r) \notin Up \/ r \in NoBlockIn

\* The running validators when every message comes before the timeout that
\* waits for it.
TimelyNext ==
  \E v \in Up :
    \/ StartRound(v)
    \/ ~NoProposal(round[v]) /\ PhasePropose(v)
    \/ NoProposal(round[v]) /\ PhaseProposeFails(v)
    \/ \E b \in proposeMsgs : PhaseListen(v, b)
    \/ NoProposal(round[v]) /\ PhaseListenFails(v)
    \/ /\ AllPrepare(v)
       /\ \E R \in Collections(v) :
            /\ \A w \in Validator \ ValidatorsIdx(R) : Collectable(v, w) = {}
            /\ PhasePrepare(v, R)
    \/ \E R \in {m.R : m \in commitMsgs} :
         \E S \in SUBSET VerifiedSigners(v, R) : PhaseCommit(v, R, S)
    \/ \E w \in Validator : InsertPushedBlock(v, w)

-----------------------------------------------------------------------------
\* Every variable has its type.
TypeOK ==
  /\ round \in [Validator -> Round]
  /\ phase \in [Validator -> {"idle", "propose", "listen", "prepare", "commit"}]
  /\ draw \in [Validator -> Draw \union {0}]
  /\ pendingBlock \in [Validator -> Block \union {NoBlock}]
  /\ best \in [Validator -> Certificate \union {NoCert}]
  /\ readyMsgs \subseteq [from : Validator, round : Round]
  /\ proposeMsgs \subseteq Block
  /\ prepareMsgs \subseteq [from : Validator, block : Block, draw : Draw]
  /\ commitMsgs \subseteq [from : Validator, block : Block, R : Combined]

\* A validator never signs two blocks, nor one block under two combined Rs,
\* with the same random: two Schnorr signatures with one random give the
\* private key away. Rounds, late messages and restarts must not repeat a
\* signature (multiSigScheme.Prepare, SignData).
RandomSignsOnce ==
  \A m1, m2 \in commitMsgs :
    /\ m1.from = m2.from
    /\ m1.R[m1.from] = m2.R[m2.from]
    => m1 = m2

\* A block enters a chain only with the signatures of more than two thirds of
\* the committee on that very block and R, however the block came there
\* (phaseCommit, CombineSigs, InsertBeaconBlock).
CertificateIsSound ==
  \A v \in Validator : best[v] # NoCert =>
    /\ 3 * Cardinality(best[v].signers) > 2 * N
    /\ best[v].signers \subseteq Signers(best[v].block, best[v].R)

\* Two validators have different blocks at this height only if some validator
\* signed both of them, in two of its rounds: no round makes two blocks final,
\* and a fork needs a validator that gave up a round it had signed in.
ForkNeedsTwoRounds ==
  \A v, w \in Validator :
    /\ best[v] # NoCert
    /\ best[w] # NoCert
    /\ best[v].block # best[w].block
    => \E x \in best[v].signers \cap best[w].signers : best[v].R[x] # best[w].R[x]

\* When messages come in time and more than two thirds of the committee run,
\* they all end with the same block, although a proposer is down and another one
\* makes no block.
AllCommit ==
  <>(\E b \in proposeMsgs : \A v \in Up : best[v].block = b)
=============================================================================
