-------------------------- MODULE CompensationStack --------------------------
(***************************************************************************)
(* What durable compensation promises an invocation (sdk/ctx.go:212-228,   *)
(* sdk/saga.go:25-27): a stack that grows while the handler runs, survives *)
(* crashes, and on failure is undone from the top, each entry once.        *)
(***************************************************************************)
EXTENDS Naturals, Sequences

CONSTANTS CompensationFuncs

VARIABLES
    registered,     \* the compensations, in the order of their registration
    undone,         \* those that have been run, in the order they were
    phase           \* "open", "rollback" or "closed"

Init == registered = <<>> /\ undone = <<>> /\ phase = "open"

Push ==
    /\ phase = "open"
    /\ \E f \in CompensationFuncs : registered' = Append(registered, f)
    /\ UNCHANGED <<undone, phase>>

Rollback ==
    /\ phase = "open"
    /\ phase' = "rollback"
    /\ UNCHANGED <<registered, undone>>

Undo ==
    /\ phase = "rollback"
    /\ Len(undone) < Len(registered)
    /\ undone' = Append(undone, registered[Len(registered) - Len(undone)])
    /\ UNCHANGED <<registered, phase>>

\* The handler succeeded or was killed, or all is undone.
Close ==
    /\ phase = "open" \/ (phase = "rollback" /\ Len(undone) = Len(registered))
    /\ phase' = "closed"
    /\ UNCHANGED <<registered, undone>>

Next == Push \/ Rollback \/ Undo \/ Close

Spec == Init /\ [][Next]_<<registered, undone, phase>>
==============================================================================
