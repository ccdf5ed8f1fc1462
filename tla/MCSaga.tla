------------------------------- MODULE MCSaga --------------------------------
EXTENDS Saga

CONSTANTS f, g, MaxCalls

\* Every handler of at most MaxCalls calls.
MCPrograms == UNION {[1..n -> Ops] : n \in 0..MaxCalls}
==============================================================================
