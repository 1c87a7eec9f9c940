----------------------------- MODULE MC_Polling -----------------------------
EXTENDS Polling

\* Every clock is off: all behind, all ahead, or one behind and the others ahead;
\* which one does not matter, replicas are alike in everything else.
MC_Skews ==
  {[r \in Replica |-> -1], [r \in Replica |-> 1],
   [r \in Replica |-> IF r = CHOOSE s \in Replica : TRUE THEN -1 ELSE 1]}

=============================================================================
