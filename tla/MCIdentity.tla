------------------------------ MODULE MCIdentity ------------------------------
\* Model checking of the identity gate on small instances.
EXTENDS CompilerIdentity, TLC

MCFrontend == <<"_runtime.py">>
MCLazy == {}
MCNative == <<"_swageDialectsNanobind.so">>

Symmetry == Permutations(Procs) \cup Permutations(Versions)
===============================================================================
