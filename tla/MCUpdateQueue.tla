---------------------------- MODULE MCUpdateQueue ----------------------------
\* A ring of three slots and three distinguishable updates: every rotation of
\* queue_start with every fill level, and overflow in each of them.
EXTENDS UpdateQueue
=============================================================================
