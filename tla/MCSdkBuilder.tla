---------------------------- MODULE MCSdkBuilder -----------------------------
EXTENDS SdkBuilder, TLC

CONSTANTS sa, sb, sc, oa, ob, n1, n2

\* Two services and two objects share a name; a third service has one of its own.
MCNameOf == [b \in {sa, sb, sc, oa, ob} |-> IF b = sc THEN n2 ELSE n1]

Symmetry == Permutations({sa, sb}) \cup Permutations({oa, ob})
==============================================================================
