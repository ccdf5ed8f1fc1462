--------------------------- MODULE JournalOutcome ----------------------------
(***************************************************************************)
(* What the journal promises of an invocation: entries are added to it     *)
(* until a terminal one is; that one decides the outcome, is never         *)
(* replaced and is the last.                                               *)
(***************************************************************************)
EXTENDS Naturals

CONSTANT Invs

VARIABLES
    length,     \* length[i]: the number of entries journaled for i
    outcome     \* outcome[i]: the sequence numbers of i's terminal entries

journal == <<length, outcome>>

Init ==
    /\ length = [i \in Invs |-> 0]
    /\ outcome = [i \in Invs |-> {}]

Step(i) ==
    /\ outcome[i] = {}
    /\ length' = [length EXCEPT ![i] = @ + 1]
    /\ UNCHANGED outcome

Decide(i) ==
    /\ outcome[i] = {}
    /\ length[i] > 0
    /\ length' = [length EXCEPT ![i] = @ + 1]
    /\ \E s \in outcome'[i] : outcome' = [outcome EXCEPT ![i] = {s}]

Next == \E i \in Invs : Step(i) \/ Decide(i)

Spec == Init /\ [][Next]_journal
==============================================================================
