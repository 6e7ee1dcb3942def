---------------------------- MODULE MCDirectAppend ----------------------------
EXTENDS DirectAppend, MCMessageOutbox

DirectView == <<WithoutSessionLast, directVars>>

\* Number 1 is still in the outbox when the appends begin.
DirectCrashedSpec ==
  /\ Crashed(1)
  /\ at = [a \in Appenders |-> "idle"] /\ mine = [a \in Appenders |-> NoMessage]
  /\ [][DirectNext]_<<vars, directVars>>

=============================================================================
