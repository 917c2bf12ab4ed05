------------------------- MODULE CrossShardDelivery -------------------------
(***************************************************************************)
(* What cross-shard transfer promises, for every pair of shards: the       *)
(* heights of the cross-shard blocks that the beacon chain confirms are    *)
(* processed by the destination in the order of confirmation, none is left *)
(* out and none is processed twice.                                        *)
(***************************************************************************)
EXTENDS Naturals, Sequences, SequencesExt

CONSTANTS Shards, Heights

VARIABLES
  confirmed,  \* to -> from -> heights the beacon chain has confirmed, in order
  processed   \* to -> from -> heights shard to has processed, in order

Init ==
  /\ confirmed = [to \in Shards |-> [from \in Shards |-> <<>>]]
  /\ processed = [to \in Shards |-> [from \in Shards |-> <<>>]]

\* A beacon block confirms more heights of one shard.
Confirm(from) ==
  /\ \A to, f \in Shards :
       /\ confirmed'[to][f] \in Seq(Heights)
       /\ IF f = from THEN IsPrefix(confirmed[to][f], confirmed'[to][f])
                      ELSE confirmed'[to][f] = confirmed[to][f]
  /\ UNCHANGED processed

\* A block of shard to processes the next heights of some shards.
Process(to) ==
  /\ \A t, from \in Shards :
       IF t = to THEN /\ IsPrefix(processed[t][from], processed'[t][from])
                      /\ IsPrefix(processed'[t][from], confirmed[t][from])
                 ELSE processed'[t][from] = processed[t][from]
  /\ UNCHANGED confirmed

Next == \E s \in Shards : Confirm(s) \/ Process(s)

Spec == Init /\ [][Next]_<<confirmed, processed>>
=============================================================================
