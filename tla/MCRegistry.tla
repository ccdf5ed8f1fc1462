----------------------------- MODULE MCRegistry ------------------------------
EXTENDS Registry, TLC

CONSTANTS s1, s2, v1, w1, nm, fa, fb, g1, g2

\* All objects are built with one name.
MCNameOf == [o \in Services \cup VirtualObjects \cup Workflows |-> nm]

\* A handler of a virtual object may be called run; the others have another name.
MCGives ==
    [o \in Services \cup VirtualObjects \cup Workflows |->
        IF o \in VirtualObjects THEN HandlerNames ELSE HandlerNames \ {RunName}]

Symmetry == Permutations(Services) \cup Permutations(Fns) \cup Permutations(Registrars)
==============================================================================
