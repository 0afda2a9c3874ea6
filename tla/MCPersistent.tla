----------------------------- MODULE MCPersistent -----------------------------
\* Model checking of the prepared persistent sum on small instances.
EXTENDS PersistentQueue, TLC

Symmetry == Permutations(Threads)
===============================================================================
