----------------------------- MODULE FatContains -----------------------------
(***************************************************************************)
(* fatContains(s, sub) of sdk/fat.go: the substring search on which the    *)
(* classification of publish errors rests, as the loop it is.              *)
(***************************************************************************)
EXTENDS Integers, Sequences

CONSTANTS
    Bytes,      \* the bytes strings are made of
    MaxLen      \* bound: the length of the strings searched

ASSUME MaxLenAssumption == MaxLen \in Nat

VARIABLES s, sub, i, pc, result

vars == <<s, sub, i, pc, result>>

Strings == UNION {[1 .. n -> Bytes] : n \in 0 .. MaxLen}

\* s[lo:hi] of Go, defined for 0 <= lo <= hi <= len(s).
Slice(t, lo, hi) == SubSeq(t, lo + 1, hi)

Init ==
    /\ s \in Strings
    /\ sub \in Strings
    /\ i = 0
    /\ pc = "start"
    /\ result = FALSE

Finish(r) ==
    /\ pc' = "done"
    /\ result' = r
    /\ UNCHANGED <<s, sub, i>>

\* The two early returns, and the entry into the loop.
EmptySub == pc = "start" /\ sub = <<>> /\ Finish(TRUE)

TooLong == pc = "start" /\ sub # <<>> /\ Len(sub) > Len(s) /\ Finish(FALSE)

EnterLoop ==
    /\ pc = "start"
    /\ sub # <<>>
    /\ Len(sub) <= Len(s)
    /\ pc' = "loop"
    /\ UNCHANGED <<s, sub, i, result>>

InLoop == pc = "loop" /\ i <= Len(s) - Len(sub)

Match == InLoop /\ Slice(s, i, i + Len(sub)) = sub /\ Finish(TRUE)

\* Mutants of Mismatch: skips what it compared; steps back; does not step.
MismatchSkip ==
    /\ InLoop
    /\ Slice(s, i, i + Len(sub)) # sub
    /\ i' = i + Len(sub)
    /\ UNCHANGED <<s, sub, pc, result>>

MismatchBack ==
    /\ InLoop
    /\ Slice(s, i, i + Len(sub)) # sub
    /\ i' = i - 1
    /\ UNCHANGED <<s, sub, pc, result>>

MismatchStuck ==
    /\ InLoop
    /\ Slice(s, i, i + Len(sub)) # sub
    /\ UNCHANGED vars

Mismatch ==
    /\ InLoop
    /\ Slice(s, i, i + Len(sub)) # sub
    /\ i' = i + 1
    /\ UNCHANGED <<s, sub, pc, result>>

NoMatch == pc = "loop" /\ i > Len(s) - Len(sub) /\ Finish(FALSE)

Next == EmptySub \/ TooLong \/ EnterLoop \/ Match \/ Mismatch \/ NoMatch

Spec == Init /\ [][Next]_vars

\* A goroutine that is running keeps running.
FairSpec == Spec /\ WF_vars(Next)

------------------------------------------------------------------------------
\* What strings.Contains means: sub stands in s at some position.
OccursAt(k) == \A j \in 1 .. Len(sub) : s[k + j] = sub[j]
Occurs == \E k \in 0 .. Len(s) - Len(sub) : OccursAt(k)

\* The types of the search: two strings, an index that is never negative.
TypeOK ==
    /\ s \in Seq(Bytes) /\ sub \in Seq(Bytes)
    /\ i \in Nat
    /\ pc \in {"start", "loop", "done"}
    /\ result \in BOOLEAN

\* The search answers what strings.Contains answers, for the empty fragment and
\* for a fragment longer than the message too.
Correct == pc = "done" => (result <=> Occurs)

\* Every search ends.
Terminates == <>(pc = "done")
==============================================================================
