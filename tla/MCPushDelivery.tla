--------------------------- MODULE MCPushDelivery ---------------------------
(* Small instances of PushDelivery for TLC. *)
EXTENDS PushDelivery

CONSTANTS s, g, r1, r2

\* one record, for its retries
OneTopic == [t \in {s} |-> <<r1>>]

\* two topics of one record each, which share the stream
TwoTopics == [t \in {s, g} |-> IF t = s THEN <<r1>> ELSE <<r2>>]

=============================================================================
