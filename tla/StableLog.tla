----------------------------- MODULE StableLog -----------------------------
(***************************************************************************)
(* What the durable path promises to everybody who reads a conversation by *)
(* sequence number: rows are written once and never change, and the safe   *)
(* prefix only grows, over a part of the table that has stopped changing.  *)
(***************************************************************************)
EXTENDS Integers

CONSTANTS MaxSeq, Message, NoMessage

VARIABLES
  rows,    \* the message table by msg_seq
  prefix   \* the safe prefix

Seqs == 1..MaxSeq

StableInit ==
  /\ rows \in [Seqs -> Message \cup {NoMessage}]
  /\ prefix \in 0..MaxSeq

\* A row appears above the prefix.  It may close a gap under rows already there.
Store(s, m) ==
  /\ prefix < s
  /\ rows[s] = NoMessage
  /\ rows' = [rows EXCEPT ![s] = m]
  /\ prefix' \in prefix..MaxSeq

\* Reservations are settled: persisted, sealed or collected.
Settle ==
  /\ prefix' \in prefix..MaxSeq
  /\ UNCHANGED rows

StableNext == Settle \/ \E s \in Seqs, m \in Message : Store(s, m)

StableSpec == StableInit /\ [][StableNext]_<<rows, prefix>>

=============================================================================
