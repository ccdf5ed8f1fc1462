---------------------------- MODULE MCFatSubmit ----------------------------
EXTENDS FatSubmit, TLC

\* One error of each class js.Publish returns on its own.
Deadline == [is |-> "DeadlineExceeded", text |-> {"deadline exceeded"}]
Other    == [is |-> "none", text |-> {}]

MCLocalErrs == {Deadline, Other}

Symmetry == Permutations(Workers)
=============================================================================
