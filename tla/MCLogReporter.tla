--------------------------- MODULE MCLogReporter ---------------------------
EXTENDS LogReporter

\* Batches of up to two bytes without a budget; batches of one with a budget
\* that cuts the second or third line short; no logs at all.
MCLogBounds ==
    {[max_batch_lines |-> None, max_line_length |-> 1, max_total_bytes |-> None],
     [max_batch_lines |-> 1, max_line_length |-> None, max_total_bytes |-> 3],
     [max_batch_lines |-> 0, max_line_length |-> None, max_total_bytes |-> None]}
==============================================================================
