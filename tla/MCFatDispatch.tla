--------------------------- MODULE MCFatDispatch ---------------------------
EXTENDS FatDispatch, TLC

Deadline == [is |-> "DeadlineExceeded", text |-> {"deadline exceeded"}]
Other    == [is |-> "none", text |-> {}]

MCLocalErrs == {Deadline, Other}
MCDeadlines == {Deadline}

Symmetry == Permutations(Workers)
=============================================================================
