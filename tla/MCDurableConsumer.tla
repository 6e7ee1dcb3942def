------------------------- MODULE MCDurableConsumer -------------------------
EXTENDS DurableConsumer, TLC

CONSTANTS k1, k2

\* two turns of one session and one of another
MCKeyOf == 1 :> k1 @@ 2 :> k1 @@ 3 :> k2

\* consumers that must not lose a record: the Job's persist consumer and Logic's reply
\* consumer (serial), hermes_bridge (batch, controls)
Durable == [loop : {"serial", "batch", "controls"}, dlq : {TRUE}]

\* the Job's push consumers and Logic's delta consumer
BestEffort == [loop : {"serial"}, dlq : {FALSE}]
=============================================================================
