------------------------------ MODULE MCArtifact ------------------------------
\* Model checking of artifact directories on small instances.
EXTENDS Artifact, TLC

MCKernelFiles == <<"cta">>
Built(text, target, limits, flaw) ==
    [text |-> text, target |-> target, limits |-> limits, flaw |-> flaw]
Good == Built("own", "sm_86", 1, "none")
Others ==
    {Built("own", "sm_90", 2, "none"), Built("old", "sm_86", 1, "none")}
    \cup {Built("own", "sm_86", 1, flaw) :
            flaw \in {"arguments", "reported abi"}}
\* One run of this swage, and another one with a flaw.
MCBuilds ==
    {b \in [Writers -> Others \cup {Good}] :
        Cardinality({w \in Writers : b[w] = Good}) = 1}

Symmetry ==
    Permutations(Threads) \cup Permutations(Writers) \cup Permutations(Dirs)
===============================================================================
