-------------------------- MODULE FatContainsProofs --------------------------
(***************************************************************************)
(* fatContains is correct for all strings over any set of bytes: below the *)
(* loop index nothing matches, and the index stops one past the last       *)
(* position at which the fragment fits.                                    *)
(***************************************************************************)
EXTENDS FatContains, SequenceTheorems, TLAPS

\* The loop invariant.
Searched ==
    /\ pc = "start" => i = 0
    /\ pc = "loop" => /\ sub # <<>>
                      /\ i \in 0 .. Len(s) - Len(sub) + 1
                      /\ \A k \in 0 .. i - 1 : ~OccursAt(k)

IInv == TypeOK /\ Searched /\ Correct

\* A slice equals the fragment iff the fragment occurs there.
LEMMA SliceMatches ==
    ASSUME TypeOK, i <= Len(s) - Len(sub)
    PROVE  Slice(s, i, i + Len(sub)) = sub <=> OccursAt(i)
  <1>1. Len(s) \in Nat /\ Len(sub) \in Nat /\ i \in Nat
    BY DEF TypeOK
  <1>2. /\ Slice(s, i, i + Len(sub)) \in Seq(Bytes)
        /\ Len(Slice(s, i, i + Len(sub))) = Len(sub)
        /\ \A j \in 1 .. Len(sub) : Slice(s, i, i + Len(sub))[j] = s[i + j]
    <2>1. \A j \in i + 1 .. i + Len(sub) : s[j] \in Bytes
      BY <1>1 DEF TypeOK
    <2>2. /\ SubSeq(s, i + 1, i + Len(sub)) \in Seq(Bytes)
          /\ Len(SubSeq(s, i + 1, i + Len(sub))) = Len(sub)
          /\ \A j \in 1 .. Len(sub) : SubSeq(s, i + 1, i + Len(sub))[j] = s[i + 1 + j - 1]
      <3>1. i + 1 \in Int /\ i + Len(sub) \in Int
        BY <1>1
      <3>2. i + Len(sub) - (i + 1) + 1 = Len(sub)
        BY <1>1
      <3> QED
        BY <1>1, <2>1, <3>1, <3>2, SubSeqProperties
    <2> QED
      BY <1>1, <2>2 DEF Slice
  <1>3. ASSUME NEW t \in Seq(Bytes), Len(t) = Len(sub),
               \A j \in 1 .. Len(sub) : t[j] = s[i + j]
        PROVE  t = sub <=> OccursAt(i)
    <2>1. OccursAt(i) => \A j \in 1 .. Len(t) : t[j] = sub[j]
      BY <1>3 DEF OccursAt
    <2>2. OccursAt(i) => t = sub
      BY <1>3, <2>1, SeqEqual DEF TypeOK
    <2>3. t = sub => OccursAt(i)
      BY <1>3 DEF OccursAt
    <2> QED
      BY <2>2, <2>3
  <1> QED
    BY <1>2, <1>3

\* The invariant holds before the search.
LEMMA InitIInv == Init => IInv
  <1> SUFFICES ASSUME Init PROVE IInv
    OBVIOUS
  <1>1. ASSUME NEW t \in Strings PROVE t \in Seq(Bytes)
    <2>1. PICK n \in 0 .. MaxLen : t \in [1 .. n -> Bytes]
      BY DEF Strings
    <2>2. n \in Nat
      BY <2>1, MaxLenAssumption
    <2> QED
      BY <2>1, <2>2
  <1>2. TypeOK
    BY <1>1 DEF Init, TypeOK
  <1> QED
    BY <1>2 DEF Init, IInv, Searched, Correct

\* Every step of the search keeps it.
LEMMA NextIInv == IInv /\ [Next]_vars => IInv'
  <1> SUFFICES ASSUME IInv, [Next]_vars PROVE IInv'
    OBVIOUS
  <1>1. TypeOK /\ Len(s) \in Nat /\ Len(sub) \in Nat
    BY DEF IInv, TypeOK
  <1>2. CASE EmptySub
    <2>1. Len(sub) = 0 /\ Occurs
      BY <1>1, <1>2 DEF EmptySub, Occurs, OccursAt
    <2> QED
      BY <1>1, <1>2, <2>1 DEF EmptySub, Finish, IInv, TypeOK, Searched, Correct, Occurs, OccursAt
  <1>3. CASE TooLong
    <2>1. ~Occurs
      BY <1>1, <1>3 DEF TooLong, Occurs
    <2> QED
      BY <1>1, <1>3, <2>1 DEF TooLong, Finish, IInv, TypeOK, Searched, Correct, Occurs, OccursAt
  <1>4. CASE EnterLoop
    BY <1>1, <1>4 DEF EnterLoop, IInv, TypeOK, Searched, Correct, Occurs, OccursAt
  <1>5. CASE Match
    <2>1. Occurs
      BY <1>1, <1>5, SliceMatches DEF Match, InLoop, Occurs, TypeOK
    <2> QED
      BY <1>1, <1>5, <2>1 DEF Match, Finish, IInv, TypeOK, Searched, Correct, Occurs, OccursAt
  <1>6. CASE Mismatch
    <2>1. ~OccursAt(i)
      BY <1>1, <1>6, SliceMatches DEF Mismatch, InLoop
    <2>2. UNCHANGED <<s, sub, pc, result>> /\ i' = i + 1 /\ i \in Nat /\ pc = "loop"
      BY <1>1, <1>6 DEF Mismatch, InLoop, TypeOK
    <2>3. \A k \in 0 .. i' - 1 : ~OccursAt(k)
      BY <2>1, <2>2 DEF IInv, Searched
    <2>4. i' \in 0 .. Len(s) - Len(sub) + 1
      BY <1>1, <1>6, <2>2 DEF Mismatch, InLoop
    <2> QED
      BY <1>1, <2>2, <2>3, <2>4 DEF IInv, TypeOK, Searched, Correct, OccursAt
  <1>7. CASE NoMatch
    <2>1. ~Occurs
      BY <1>1, <1>7 DEF NoMatch, IInv, Searched, Occurs, TypeOK
    <2> QED
      BY <1>1, <1>7, <2>1 DEF NoMatch, Finish, IInv, TypeOK, Searched, Correct, Occurs, OccursAt
  <1>8. CASE UNCHANGED vars
    BY <1>8 DEF vars, IInv, TypeOK, Searched, Correct, Occurs, OccursAt
  <1> QED
    BY <1>2, <1>3, <1>4, <1>5, <1>6, <1>7, <1>8 DEF Next

\* fatContains agrees with strings.Contains on all strings.
THEOREM SearchCorrect == Spec => []Correct
  <1>1. IInv => Correct
    BY DEF IInv
  <1> QED
    BY <1>1, InitIInv, NextIInv, PTL DEF Spec

\* The strings, the index and the answer keep their types.
THEOREM TypeCorrect == Spec => []TypeOK
  <1>1. IInv => TypeOK
    BY DEF IInv
  <1> QED
    BY <1>1, InitIInv, NextIInv, PTL DEF Spec

\* The steps the search has left: the entry, the positions, the last return.
Remaining ==
    CASE pc = "start" -> Len(s) + 3
      [] pc = "loop"  -> Len(s) - Len(sub) + 2 - i
      [] pc = "done"  -> 0

\* The search runs out: every step leaves it fewer steps, and it is at no moment in
\* debt, so no string makes it loop for ever (what Terminates adds is that it steps).
THEOREM SearchRunsOut == Spec => [](Remaining \in Nat) /\ [][Remaining' < Remaining]_vars
  <1>1. ASSUME IInv
        PROVE  /\ Len(s) \in Nat /\ Len(sub) \in Nat /\ i \in Nat
               /\ Remaining \in Nat
               /\ pc = "start" => Remaining = Len(s) + 3
               /\ pc = "loop" => Remaining = Len(s) - Len(sub) + 2 - i /\ Remaining > 0
    BY <1>1 DEF IInv, TypeOK, Searched, Remaining
  <1>2. /\ pc' = "loop" => Remaining' = Len(s') - Len(sub') + 2 - i'
        /\ pc' = "done" => Remaining' = 0
    BY DEF Remaining
  <1>3. ASSUME IInv, Next PROVE Remaining' < Remaining
    <2>1. CASE EmptySub \/ TooLong \/ Match \/ NoMatch
      <3>1. pc \in {"start", "loop"} /\ pc' = "done"
        BY <2>1 DEF EmptySub, TooLong, Match, NoMatch, InLoop, Finish
      <3> QED
        BY <1>1, <1>2, <1>3, <3>1
    <2>2. CASE EnterLoop
      BY <1>1, <1>2, <1>3, <2>2 DEF EnterLoop
    <2>3. CASE Mismatch
      BY <1>1, <1>2, <1>3, <2>3 DEF Mismatch, InLoop
    <2> QED
      BY <1>3, <2>1, <2>2, <2>3 DEF Next
  <1>4. IInv /\ [Next]_vars => [Remaining' < Remaining]_vars
    BY <1>3
  <1>5. IInv => Remaining \in Nat
    BY <1>1
  <1> QED
    BY <1>4, <1>5, InitIInv, NextIInv, PTL DEF Spec
==============================================================================
