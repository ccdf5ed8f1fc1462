------------------------------ MODULE FatErrors ------------------------------
(***************************************************************************)
(* Classification of publish errors by the fat-mode shim (sdk/fat.go).     *)
(*                                                                         *)
(* The shim looks at an error in two ways: errors.Is against               *)
(* context.DeadlineExceeded, and substring search in its text.  An error   *)
(* is therefore the record of what these two tests can see:                *)
(*   is    the sentinel the error wraps ("none" if there is none),         *)
(*   text  the set of searched fragments that occur in err.Error().        *)
(* The substring search itself, fatContains, is module FatContains.        *)
(***************************************************************************)

ConflictFragments == {"wrong last msg seq", "wrong last sequence",
                      "nats: wrong last msg seq"}

TransientFragments == {"timeout", "deadline exceeded",
                       "nats: connection closed", "nats: connection reset",
                       "no responders"}

Fragments == ConflictFragments \cup TransientFragments

Errors == [is : {"none", "DeadlineExceeded"}, text : SUBSET Fragments]

isFatConflict(e) == e.text \cap ConflictFragments # {}

isFatTransient(e) ==
    /\ ~isFatConflict(e)
    /\ \/ e.is = "DeadlineExceeded"
       \/ e.text \cap TransientFragments # {}

\* What the broker answers to a publish whose fence is not the subject's last
\* sequence (external: the text of the JetStream API error).
WrongLastSequence == [is |-> "none", text |-> {"wrong last sequence"}]
==============================================================================
