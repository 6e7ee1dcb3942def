---------------------------- MODULE MCCursorSync ----------------------------
EXTENDS CursorSync

\* The page is opened while number 1 is still on its way and 2 and 3 are stored.
GapInit == Init /\ Rows = {2, 3} /\ prefix = 0

GapSpec == GapInit /\ [][Next]_vars

\* When number 1 is settled the prefix covers all three; a frame under way is followed by
\* none but the end of its page; two requests run only while nothing else is under way.
Small ==
  /\ prefix \in {0, MaxSeq}
  /\ Len(wire) = 2 => wire[2].type = "sync_end"
  /\ Len(asked) = 2 => wire = <<>> /\ recover = None /\ ~timer

\* No step tells a rendered message from one the buffer had no place for, or reads what
\* the next connection resets.
Merged ==
  <<logVars, link, wire, asked, view, page, ready, retry, posVars, pending, buffer, recover,
    IF link THEN <<active, timer>> ELSE <<>>, shown \cup dropped, base>>

=============================================================================
