---------------------------- MODULE OrderedTopic ----------------------------
(***************************************************************************)
(* What a durable consumer group promises to the producers of a partition, *)
(* whatever its members, loops, batches and rebalances are: a record is    *)
(* settled (handled or dead-lettered) after those it must follow, and the  *)
(* group's offset stands only where everything before it is settled.       *)
(***************************************************************************)
EXTENDS Integers

CONSTANT Records

VARIABLES
  settled,    \* records whose callback succeeded or whose DLQ record is confirmed
  committed,  \* the group's offset: records 1..committed are consumed
  before      \* by record, the earlier records it must follow; it never changes

Offsets == 1..Records

TopicInit ==
  /\ settled = {} /\ committed = 0
  /\ before \in [Offsets -> SUBSET Offsets]

\* A record is handled, for the first time or (a redelivery) once more.
Settle(r) ==
  /\ before[r] \subseteq settled
  /\ settled' = settled \cup {r}
  /\ UNCHANGED <<committed, before>>

\* The offset moves, also back: a member that held the partition before commits late.
CommitTo(n) ==
  /\ 1..n \subseteq settled
  /\ committed' = n
  /\ UNCHANGED <<settled, before>>

TopicNext == (\E r \in Offsets : Settle(r)) \/ (\E n \in 0..Records : CommitTo(n))

TopicSpec == TopicInit /\ [][TopicNext]_<<settled, committed, before>>

=============================================================================
