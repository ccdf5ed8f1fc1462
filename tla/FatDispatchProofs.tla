-------------------------- MODULE FatDispatchProofs --------------------------
(***************************************************************************)
(* Proofs about FatDispatch.  What SubmitResult promises holds in it,      *)
(* whatever the caller does after a conflict.  That an invocation is       *)
(* decided once needs a caller that hydrates again (Rehydrate).            *)
(*                                                                         *)
(* The argument: the fence is read before the snapshot is taken, so a      *)
(* snapshot without a terminal entry leaves none at or below the fence     *)
(* (GuardsHold).  Entries are only added above every fence handed out, so  *)
(* this stays true of the fence a publish carries (PublishesGuarded), and  *)
(* when the stream finds that fence still to be the last sequence of the   *)
(* subject, the whole journal is known to be undecided.                    *)
(***************************************************************************)
EXTENDS FatDispatch, FatSubmitProofs, FiniteSetTheorems

\* No terminal entry of i at sequence f or below.
Undecided(i, f) == \A n \in TerminalsOf(i) : f < n

\* Only a worker that has called SubmitResult in its dispatch is inside it.
InCall == \A w \in Workers : pc[w] # "idle" => phase[w] = "submitted"

\* The fence in hand was the last sequence of the job's subject once, and it is
\* what SubmitResult was called with.
FencesBehind ==
    \A w \in Workers :
        /\ phase[w] \in {"hydrate", "guard", "submit", "submitted"} =>
              fence[w] <= last[job[w]]
        /\ phase[w] = "submitted" =>
              arg[w].inv = job[w] /\ arg[w].expectedLast = fence[w]

GuardsHold ==
    \A w \in Workers :
        \/ phase[w] = "guard" /\ ~snap[w]
        \/ phase[w] \in {"submit", "submitted"}
        => Undecided(job[w], fence[w])

PublishesGuarded == \A m \in net : Undecided(m.inv, m.expect)

\* The caller's bookkeeping.
CInv == DispatchTypeOK /\ InCall /\ FencesBehind

\* What a guard passed is worth.
GInv == GuardsHold /\ PublishesGuarded /\ OutcomeDecidedOnce

DInv == CInv /\ GInv

------------------------------------------------------------------------------
\* The dispatch only restricts the callers of SubmitResult.
LEMMA DispatchStepIsSubmitStep ==
    ASSUME TypeOK, DispatchTypeOK, FencesBehind, LastIsLast, [DispatchNext]_dvars
    PROVE  [Next]_vars
  <1>1. CASE \E i \in Invs, t \in {"Start", "Step", "Error"} : EngineJournals(i, t)
    BY <1>1 DEF EngineJournals, Next, EngineStep
  <1>2. CASE StreamStep
    BY <1>2 DEF Next
  <1>3. ASSUME NEW w \in Workers, DispatchStep(w) PROVE [Next]_vars
    <2>1. CASE Submit(w)
      <3>1. job[w] \in Invs /\ fence[w] \in 0 .. Len(log)
        BY <2>1 DEF Submit, TypeOK, DispatchTypeOK, FencesBehind, LastIsLast
      <3> QED
        BY <2>1, <3>1 DEF Submit, Next
    <2>2. CASE WorkerCrash(w)
      BY <2>2 DEF WorkerCrash, Next
    <2>3. CASE ~Submit(w) /\ ~WorkerCrash(w)
      BY <1>3, <2>3 DEF DispatchStep, Dispatch, LastJournalSeq, LastJournalSeqFailed,
                        Hydrate, HasTerminal, ConflictRetry, DispatchDone
    <2> QED
      BY <2>1, <2>2, <2>3
  <1>4. CASE \E w \in Workers : CallStep(w)
    BY <1>4 DEF Next
  <1>5. CASE UNCHANGED dvars
    BY <1>5 DEF dvars
  <1> QED
    BY <1>1, <1>2, <1>3, <1>4, <1>5 DEF DispatchNext

------------------------------------------------------------------------------
(* Whatever a conflict is answered with: Rehydrate plays no part here.     *)

\* Nothing is delivered yet.
LEMMA InitCInv == DispatchInit => IInv /\ CInv
  <1> SUFFICES ASSUME DispatchInit PROVE IInv /\ CInv
    OBVIOUS
  <1>1. IInv
    BY InitIInv DEF DispatchInit
  <1>2. DispatchTypeOK
    BY <1>1 DEF DispatchInit, DispatchTypeOK, Phases, IInv, TypeOK
  <1> QED
    BY <1>1, <1>2 DEF DispatchInit, Init, CInv, InCall, FencesBehind

\* The last sequences only grow, and a caller is not disturbed by the stream.
LEMMA LastGrows ==
    ASSUME IInv, EngineStep \/ StreamStep
    PROVE  UNCHANGED <<pc, arg>> /\ \A i \in Invs : last[i] <= last'[i]
  <1>1. TypeOK /\ \A i \in Invs : last[i] \in Nat /\ last[i] <= Len(log)
    BY DEF IInv, TypeOK, LastIsLast
  <1>2. ASSUME NEW e \in Entry, AppendEntry(e)
        PROVE  \A i \in Invs : last[i] <= last'[i]
    BY <1>1, <1>2, AppendEntryFacts
  <1>3. CASE EngineStep
    <2>1. PICK i \in Invs, t \in {"Start", "Step", "Error"} : EngineAppend(i, t)
      BY <1>3 DEF EngineStep
    <2>2. [inv |-> i, type |-> t, who |-> Engine, call |-> 0] \in Entry
      BY DEF Entry, EntryTypes
    <2> QED
      BY <1>2, <2>1, <2>2 DEF EngineAppend, client
  <1>4. CASE StreamStep
    <2>1. PICK m \in net : StreamApply(m) \/ StreamReject(m)
      BY <1>4 DEF StreamStep
    <2>2. [inv |-> m.inv, type |-> "Output", who |-> m.who, call |-> m.call] \in Entry
      BY <1>1 DEF TypeOK, Publishes, Entry, EntryTypes
    <2> QED
      BY <1>1, <1>2, <2>1, <2>2 DEF StreamApply, StreamReject, client
  <1> QED
    BY <1>3, <1>4

\* A step of the dispatch, with either retry, keeps it.
LEMMA DispatchStepCInv ==
    ASSUME IInv, CInv, NEW w \in Workers, DispatchStep(w)
    PROVE  CInv'
  <1>1. TypeOK /\ LastIsLast /\ DispatchTypeOK /\ (phase[w] # "submitted" => pc[w] = "idle")
    BY DEF IInv, CInv, InCall
  <1>2. ASSUME NEW p \in Phases, phase' = [phase EXCEPT ![w] = p],
               UNCHANGED <<vars, job, fence>>, snap' \in [Workers -> BOOLEAN],
               p \in {"hydrate", "guard", "submit", "submitted"} =>
                  /\ phase[w] \in {"hydrate", "guard", "submit", "submitted"}
                  /\ p = "submitted" => phase[w] = "submitted",
               pc[w] # "idle" => p = "submitted"
        PROVE  CInv'
    <2>1. phase'[w] = p /\ \A v \in Workers \ {w} : phase'[v] = phase[v]
      BY <1>1, <1>2 DEF DispatchTypeOK
    <2>2. DispatchTypeOK'
      BY <1>1, <1>2 DEF DispatchTypeOK
    <2> QED
      BY <1>2, <2>1, <2>2 DEF CInv, InCall, FencesBehind, vars
  <1>3. snap \in [Workers -> BOOLEAN]
    BY <1>1 DEF DispatchTypeOK
  <1>4. CASE \E i \in Invs : Dispatch(w, i)
    <2>1. PICK i \in Invs : Dispatch(w, i)
      BY <1>4
    <2>2. /\ phase' = [phase EXCEPT ![w] = "fence"] /\ job' = [job EXCEPT ![w] = i]
          /\ UNCHANGED <<vars, fence, snap>> /\ pc[w] = "idle"
      BY <1>1, <2>1 DEF Dispatch, Goto
    <2>3. /\ phase'[w] = "fence"
          /\ \A v \in Workers \ {w} : phase'[v] = phase[v] /\ job'[v] = job[v]
      BY <1>1, <2>2 DEF DispatchTypeOK
    <2>4. DispatchTypeOK'
      BY <1>1, <2>2 DEF DispatchTypeOK, Phases
    <2> QED
      BY <2>2, <2>3, <2>4 DEF CInv, InCall, FencesBehind, vars
  <1>5. CASE LastJournalSeq(w)
    <2>1. PICK f \in {0} \cup JournalOf(job[w]) : fence' = [fence EXCEPT ![w] = f]
      BY <1>5 DEF LastJournalSeq
    <2>2. f \in Nat /\ f <= last[job[w]]
      BY <1>1 DEF JournalOf, LastIsLast, TypeOK, DispatchTypeOK
    <2>3. /\ AfterFence(w) \in {"hydrate", "submit"}
          /\ phase' = [phase EXCEPT ![w] = AfterFence(w)]
          /\ UNCHANGED <<vars, job, snap>> /\ pc[w] = "idle"
      BY <1>1, <1>5 DEF LastJournalSeq, Goto, AfterFence
    <2>4. /\ phase'[w] \in {"hydrate", "submit"} /\ fence'[w] = f
          /\ \A v \in Workers \ {w} : phase'[v] = phase[v] /\ fence'[v] = fence[v]
      BY <1>1, <2>1, <2>3 DEF DispatchTypeOK
    <2>5. DispatchTypeOK'
      BY <1>1, <2>1, <2>2, <2>3 DEF DispatchTypeOK, Phases
    <2> QED
      BY <2>2, <2>3, <2>4, <2>5 DEF CInv, InCall, FencesBehind, vars
  <1>6. CASE Hydrate(w)
    <2>1. snap' \in [Workers -> BOOLEAN]
      BY <1>3, <1>6 DEF Hydrate
    <2> QED
      BY <1>1, <1>2, <1>6, <2>1 DEF Hydrate, Goto, Phases
  <1>7. CASE LastJournalSeqFailed(w)
    BY <1>1, <1>2, <1>3, <1>7 DEF LastJournalSeqFailed, Goto, Phases
  <1>8. CASE HasTerminal(w)
    BY <1>1, <1>2, <1>3, <1>8 DEF HasTerminal, Goto, Phases
  <1>9. CASE ConflictRetry(w)
    BY <1>2, <1>3, <1>9 DEF ConflictRetry, Goto, Phases
  <1>10. CASE DispatchDone(w)
    BY <1>2, <1>3, <1>10 DEF DispatchDone, Goto, Phases
  <1>11. CASE WorkerCrash(w)
    <2>1. /\ phase' = [phase EXCEPT ![w] = "idle"]
          /\ UNCHANGED <<last, arg, job, fence, snap>>
          /\ pc'[w] = "idle" /\ \A v \in Workers \ {w} : pc'[v] = pc[v]
      BY <1>1, <1>11 DEF WorkerCrash, Crash, Goto, vars, stream, TypeOK
    <2>2. phase'[w] = "idle" /\ \A v \in Workers \ {w} : phase'[v] = phase[v]
      BY <1>1, <2>1 DEF DispatchTypeOK
    <2>3. DispatchTypeOK'
      BY <1>1, <2>1 DEF DispatchTypeOK, Phases
    <2> QED
      BY <2>1, <2>2, <2>3 DEF CInv, InCall, FencesBehind
  <1>12. CASE Submit(w)
    <2>1. /\ phase[w] = "submit" /\ phase' = [phase EXCEPT ![w] = "submitted"]
          /\ arg' = [arg EXCEPT ![w] = [inv |-> job[w], expectedLast |-> fence[w]]]
          /\ UNCHANGED <<last, job, fence, snap>>
          /\ \A v \in Workers \ {w} : pc'[v] = pc[v]
      BY <1>1, <1>12 DEF Submit, SubmitResult, SubmitUsage, SubmitBegin, EnterCall, Return,
         Goto, stream, TypeOK
    <2>2. /\ phase'[w] = "submitted" /\ arg'[w].inv = job[w]
          /\ arg'[w].expectedLast = fence[w]
          /\ \A v \in Workers \ {w} : phase'[v] = phase[v] /\ arg'[v] = arg[v]
      BY <1>1, <2>1 DEF DispatchTypeOK, TypeOK
    <2>3. DispatchTypeOK'
      BY <1>1, <2>1 DEF DispatchTypeOK, Phases
    <2> QED
      BY <2>1, <2>2, <2>3 DEF CInv, InCall, FencesBehind
  <1> QED
    BY <1>4, <1>5, <1>6, <1>7, <1>8, <1>9, <1>10, <1>11, <1>12 DEF DispatchStep

\* Every step keeps it, and IInv.
LEMMA NextCInv == IInv /\ CInv /\ [DispatchNext]_dvars => (IInv /\ CInv)' /\ [Next]_vars
  <1> SUFFICES ASSUME IInv, CInv, [DispatchNext]_dvars
               PROVE  IInv' /\ CInv' /\ [Next]_vars
    OBVIOUS
  <1>1. [Next]_vars
    BY DispatchStepIsSubmitStep DEF IInv, CInv
  <1>2. IInv'
    BY <1>1, NextIInv
  <1>3. CASE \/ \E i \in Invs, t \in {"Start", "Step", "Error"} : EngineJournals(i, t)
             \/ StreamStep /\ UNCHANGED dispatch
    <2>1. UNCHANGED dispatch /\ (EngineStep \/ StreamStep)
      BY <1>3 DEF EngineJournals, EngineStep
    <2>2. UNCHANGED <<pc, arg>> /\ \A i \in Invs : last[i] <= last'[i]
      BY <2>1, LastGrows
    <2>3. /\ \A w \in Workers : job[w] \in Invs /\ fence[w] \in Nat
          /\ \A i \in Invs : last[i] \in Nat /\ last'[i] \in Nat
      BY <1>2 DEF CInv, DispatchTypeOK, IInv, TypeOK
    <2>4. FencesBehind'
      BY <2>1, <2>2, <2>3 DEF CInv, FencesBehind, dispatch
    <2> QED
      BY <1>1, <1>2, <2>1, <2>2, <2>4 DEF CInv, dispatch, DispatchTypeOK, InCall
  <1>4. CASE \E w \in Workers : DispatchStep(w)
    BY <1>1, <1>2, <1>4, DispatchStepCInv
  <1>5. ASSUME NEW w \in Workers, CallStep(w), UNCHANGED dispatch PROVE CInv'
    <2>1. /\ UNCHANGED <<last, arg>> /\ pc[w] # "idle"
          /\ \A v \in Workers \ {w} : pc'[v] = pc[v]
      BY <1>5 DEF CallStep, Publish, PublishAcked, PublishConflict, PublishFailed,
         PublishRetry, SubmitExhausted, Return, stream, IInv, TypeOK
    <2> QED
      BY <1>5, <2>1 DEF CInv, dispatch, DispatchTypeOK, InCall, FencesBehind
  <1>6. CASE UNCHANGED dvars
    BY <1>1, <1>2, <1>6 DEF dvars, vars, dispatch, CInv, DispatchTypeOK, InCall, FencesBehind
  <1> QED
    BY <1>1, <1>2, <1>3, <1>4, <1>5, <1>6 DEF DispatchNext

\* Both hold however a conflict is answered.
THEOREM CallerInvariance == DispatchSpec => [](IInv /\ CInv)
  <1>1. IInv /\ CInv /\ [DispatchNext]_dvars => (IInv /\ CInv)'
    BY NextCInv
  <1> QED
    BY <1>1, InitCInv, PTL DEF DispatchSpec

\* The dispatch is a caller like any other: what holds of SubmitResult for the most
\* general callers holds in it.
THEOREM DispatchSubmits == DispatchSpec => Spec
  <1>1. DispatchInit => Init
    BY DEF DispatchInit
  <1>2. IInv /\ CInv /\ [DispatchNext]_dvars => [Next]_vars
    BY NextCInv
  <1> QED
    BY <1>1, <1>2, CallerInvariance, PTL DEF DispatchSpec, Spec

\* So SubmitResult keeps its promises below the dispatch too, with the retry that the
\* comment of ErrFatConflict asks for (fat.go:60) as with the safe one: the second
\* Output of that retry is a second call's, and both calls were told the truth.
THEOREM SubmissionsSound ==
    DispatchSpec => /\ []CallAppliedOnce /\ []AckedIsOwnEntry
                    /\ SettledStaysSettled /\ ImplementsFencedLog
  BY DispatchSubmits, AppliedOnce, AckedTrue, SettledStays, ImplementsFenced

\* The types of the dispatch hold, however a conflict is answered.
THEOREM DispatchTyped == DispatchSpec => []DispatchTypeOK
  <1>1. CInv => DispatchTypeOK
    BY DEF CInv
  <1> QED
    BY <1>1, CallerInvariance, PTL

\* ErrFatConflict is only returned when the journal has moved past the fence.
THEOREM ConflictMoved == DispatchSpec => []ConflictMeansMoved
  <1>1. IInv /\ CInv => ConflictMeansMoved
    <2> SUFFICES ASSUME IInv, CInv, NEW w \in Workers,
                        phase[w] = "submitted", ret[w].err = "conflict"
                 PROVE  last[job[w]] > fence[w]
      BY DEF ConflictMeansMoved
    <2>1. last[job[w]] \in Nat /\ fence[w] \in Nat
      BY DEF IInv, TypeOK, CInv, DispatchTypeOK
    <2>2. fence[w] <= last[job[w]] /\ last[job[w]] # fence[w]
      BY DEF IInv, AnswersTrue, CInv, FencesBehind
    <2> QED
      BY <2>1, <2>2
  <1> QED
    BY <1>1, CallerInvariance, PTL

------------------------------------------------------------------------------
\* Appending one entry adds its sequence number to its own journal only.
LEMMA AppendJournal ==
    ASSUME TypeOK, NEW e \in Entry, AppendEntry(e), NEW i \in Invs
    PROVE  /\ i = e.inv => JournalOf(i)' = JournalOf(i) \cup {Len(log) + 1}
           /\ i # e.inv => JournalOf(i)' = JournalOf(i)
           /\ i = e.inv /\ e.type \in Terminal =>
                 TerminalsOf(i)' = TerminalsOf(i) \cup {Len(log) + 1}
           /\ i # e.inv \/ e.type \notin Terminal => TerminalsOf(i)' = TerminalsOf(i)
           /\ JournalOf(i) \subseteq 1 .. Len(log)
           /\ TerminalsOf(i) \subseteq JournalOf(i)
  <1>1. /\ i = e.inv => JournalOf(i)' = JournalOf(i) \cup {Len(log) + 1}
        /\ i # e.inv => JournalOf(i)' = JournalOf(i)
    BY AppendEntryFacts DEF JournalOf
  <1>2. \A n \in JournalOf(i) : log'[n] = log[n] /\ n # Len(log) + 1
    BY AppendEntryFacts DEF JournalOf
  <1>3. i = e.inv /\ e.type \in Terminal =>
           TerminalsOf(i)' = TerminalsOf(i) \cup {Len(log) + 1}
    BY <1>1, <1>2, AppendEntryFacts DEF TerminalsOf
  <1>4. i # e.inv \/ e.type \notin Terminal => TerminalsOf(i)' = TerminalsOf(i)
    BY <1>1, <1>2, AppendEntryFacts DEF TerminalsOf
  <1> QED
    BY <1>1, <1>3, <1>4 DEF JournalOf, TerminalsOf

\* An entry above the fence does not disturb what is known below it.
LEMMA AppendUndecided ==
    ASSUME TypeOK, NEW e \in Entry, AppendEntry(e),
           NEW i \in Invs, NEW f \in 0 .. Len(log), Undecided(i, f)
    PROVE  Undecided(i, f)'
  BY AppendJournal, AppendEntryFacts DEF Undecided

\* An undecided journal may be given any entry.
LEMMA AppendDecides ==
    ASSUME TypeOK, OutcomeDecidedOnce, NEW e \in Entry, AppendEntry(e),
           TerminalsOf(e.inv) = {}
    PROVE  OutcomeDecidedOnce'
  <1>1. SUFFICES ASSUME NEW i \in Invs, NEW n \in TerminalsOf(i)', NEW k \in JournalOf(i)'
                 PROVE  k <= n
    BY DEF OutcomeDecidedOnce
  <1>2. CASE i = e.inv
    <2>1. n = Len(log) + 1
      BY <1>2, AppendJournal
    <2>2. k \in 1 .. Len(log) \/ k = Len(log) + 1
      BY <1>2, AppendJournal
    <2> QED
      BY <2>1, <2>2, AppendEntryFacts
  <1>3. CASE i # e.inv
    BY <1>3, AppendJournal DEF OutcomeDecidedOnce
  <1> QED
    BY <1>2, <1>3

\* An append by anyone keeps what the dispatches in progress rely on.
LEMMA AppendKeeps ==
    ASSUME IInv, DInv, NEW e \in Entry, AppendEntry(e), UNCHANGED dispatch,
           net' \subseteq net
    PROVE  GuardsHold' /\ PublishesGuarded'
  <1>1. TypeOK /\ LastIsLast /\ DispatchTypeOK
    BY DEF IInv, DInv, CInv
  <1>2. GuardsHold'
    <2> SUFFICES ASSUME NEW w \in Workers,
                        \/ phase[w] = "guard" /\ ~snap[w]
                        \/ phase[w] \in {"submit", "submitted"}
                 PROVE  Undecided(job[w], fence[w])'
      BY DEF DInv, GInv, GuardsHold, dispatch
    <2>1. /\ job[w] \in Invs /\ fence[w] \in Nat
          /\ fence[w] <= last[job[w]] /\ last[job[w]] <= Len(log)
          /\ Undecided(job[w], fence[w])
      BY <1>1 DEF DInv, CInv, GInv, FencesBehind, GuardsHold, DispatchTypeOK, LastIsLast
    <2>2. fence[w] <= Len(log) /\ Len(log) \in Nat
      BY <1>1, <2>1, AppendEntryFacts DEF TypeOK
    <2> QED
      <3>1. PICK j \in Invs : j = job[w] /\ j = job'[w]
        BY <2>1 DEF dispatch
      <3>2. TerminalsOf(j)' \subseteq TerminalsOf(j) \cup {Len(log) + 1}
        BY <1>1, AppendJournal
      <3>3. fence[w] < Len(log) + 1 /\ fence'[w] = fence[w]
        BY <2>1, <2>2 DEF dispatch
      <3>4. TerminalsOf(job[w])' = TerminalsOf(j)'
        BY <3>1 DEF TerminalsOf, JournalOf
      <3> QED
        BY <2>1, <3>1, <3>2, <3>3, <3>4 DEF Undecided
  <1>3. PublishesGuarded'
    <2> SUFFICES ASSUME NEW m \in net
                 PROVE  \A n \in TerminalsOf(m.inv)' : m.expect < n
      BY DEF PublishesGuarded, Undecided, TerminalsOf, JournalOf
    <2>1. m.inv \in Invs /\ m.expect \in 1 .. Len(log) /\ Undecided(m.inv, m.expect)
      BY <1>1 DEF IInv, DInv, GInv, FencesPast, PublishesGuarded, TypeOK, Publishes
    <2>2. TerminalsOf(m.inv)' \subseteq TerminalsOf(m.inv) \cup {Len(log) + 1}
      BY <1>1, <2>1, AppendJournal
    <2>3. m.expect < Len(log) + 1
      BY <1>1, <2>1, AppendEntryFacts
    <2> QED
      BY <2>1, <2>2, <2>3 DEF Undecided
  <1> QED
    BY <1>2, <1>3

\* The engine writes to undecided journals.
LEMMA EngineJournalsGInv ==
    ASSUME IInv, DInv, NEW i \in Invs, NEW t \in {"Start", "Step", "Error"},
           EngineJournals(i, t)
    PROVE  GInv'
  <1> DEFINE e == [inv |-> i, type |-> t, who |-> Engine, call |-> 0]
  <1>1. e \in Entry /\ AppendEntry(e) /\ e.inv = i
    BY DEF EngineJournals, EngineAppend, Entry, EntryTypes
  <1>2. UNCHANGED dispatch /\ UNCHANGED net /\ TerminalsOf(i) = {}
    BY DEF EngineJournals, EngineAppend
  <1> HIDE DEF e
  <1>3. OutcomeDecidedOnce'
    BY <1>1, <1>2, AppendDecides DEF IInv, DInv, GInv
  <1> QED
    BY <1>1, <1>2, <1>3, AppendKeeps DEF GInv

\* A publish that the stream applies finds its journal undecided: everything of
\* the journal is at or below its fence, and there is no terminal entry there.
LEMMA ApplyFindsUndecided ==
    ASSUME IInv, DInv, NEW m \in net, last[m.inv] = m.expect
    PROVE  TerminalsOf(m.inv) = {}
  <1>1. m.inv \in Invs /\ m.expect \in Nat
    BY DEF IInv, TypeOK, Publishes
  <1>2. \A n \in TerminalsOf(m.inv) : n \in Nat /\ n <= m.expect
    BY <1>1 DEF IInv, LastIsLast, TerminalsOf, JournalOf
  <1>3. \A n \in TerminalsOf(m.inv) : m.expect < n
    BY DEF DInv, GInv, PublishesGuarded, Undecided
  <1> QED
    BY <1>1, <1>2, <1>3

\* The stream's steps keep the invariant: what it applies finds an undecided journal.
LEMMA StreamGInv ==
    ASSUME IInv, DInv, StreamStep, UNCHANGED dispatch
    PROVE  GInv'
  <1> PICK m \in net : StreamApply(m) \/ StreamReject(m)
    BY DEF StreamStep
  <1>1. CASE StreamApply(m)
    <2> DEFINE e == [inv |-> m.inv, type |-> "Output", who |-> m.who, call |-> m.call]
    <2>1. e \in Entry /\ AppendEntry(e) /\ e.inv = m.inv
      <3>1. m \in Publishes
        BY DEF IInv, TypeOK
      <3> QED
        BY <1>1, <3>1 DEF StreamApply, Entry, EntryTypes, Publishes
    <2>2. net' \subseteq net
      BY <1>1 DEF StreamApply
    <2>3. TerminalsOf(m.inv) = {}
      BY <1>1, ApplyFindsUndecided DEF StreamApply
    <2> HIDE DEF e
    <2>4. OutcomeDecidedOnce'
      BY <2>1, <2>3, AppendDecides DEF IInv, DInv, GInv
    <2> QED
      BY <2>1, <2>2, <2>4, AppendKeeps DEF GInv
  <1>2. CASE StreamReject(m)
    BY <1>2 DEF StreamReject, DInv, GInv, GuardsHold, PublishesGuarded, OutcomeDecidedOnce,
       Undecided, TerminalsOf, JournalOf, dispatch
  <1> QED
    BY <1>1, <1>2

\* Inside SubmitResult the worker publishes with the fence its guard cleared.
LEMMA CallStepGInv ==
    ASSUME IInv, DInv, NEW w \in Workers, CallStep(w), UNCHANGED dispatch
    PROVE  GInv'
  <1>1. pc[w] # "idle" /\ phase[w] = "submitted"
    BY DEF DInv, CInv, InCall, CallStep, Publish, PublishAcked, PublishConflict, PublishFailed,
           PublishRetry, SubmitExhausted
  <1>2. /\ UNCHANGED <<log, arg>>
        /\ net' = net \/ net' = net \cup {Message(w, arg[w].expectedLast)}
    BY DEF CallStep, Publish, PublishAcked, PublishConflict, PublishFailed, PublishRetry,
           SubmitExhausted, Return, stream
  <1>3. Undecided(arg[w].inv, arg[w].expectedLast)
    BY <1>1 DEF DInv, CInv, GInv, FencesBehind, GuardsHold
  <1>4. PublishesGuarded'
    BY <1>2, <1>3 DEF DInv, GInv, PublishesGuarded, Undecided, TerminalsOf, JournalOf, Message
  <1> QED
    BY <1>2, <1>4 DEF DInv, GInv, GuardsHold, OutcomeDecidedOnce, Undecided, TerminalsOf,
       JournalOf, dispatch

\* The worker's own steps.  Rehydrate is used once: the fence read after a
\* conflict is followed by a snapshot.
LEMMA DispatchStepGInv ==
    ASSUME Rehydrate, IInv, DInv, NEW w \in Workers, DispatchStep(w)
    PROVE  GInv'
  <1> DEFINE Cleared(v) == \/ phase[v] = "guard" /\ ~snap[v]
                           \/ phase[v] \in {"submit", "submitted"}
  <1>1. TypeOK /\ DispatchTypeOK
    BY DEF IInv, DInv, CInv
  <1>2. /\ UNCHANGED <<log, net>>
        /\ \A v \in Workers \ {w} :
              /\ phase'[v] = phase[v] /\ job'[v] = job[v]
              /\ fence'[v] = fence[v] /\ snap'[v] = snap[v]
    BY <1>1 DEF DispatchStep, Dispatch, LastJournalSeq, LastJournalSeqFailed, Hydrate,
       HasTerminal, Submit, SubmitResult, SubmitUsage, SubmitBegin, EnterCall, Return,
       ConflictRetry, DispatchDone, WorkerCrash, Crash, Goto, vars, stream, DispatchTypeOK
  <1>3. Cleared(w)' => Undecided(job'[w], fence'[w])
    <2>1. CASE Hydrate(w)
      <3>1. PICK n \in fence[w] .. Len(log) :
               snap' = [snap EXCEPT ![w] = \E k \in TerminalsOf(job[w]) : k <= n]
        BY <2>1 DEF Hydrate
      <3>2. /\ UNCHANGED <<job, fence>> /\ phase'[w] = "guard"
            /\ snap'[w] = (\E k \in TerminalsOf(job[w]) : k <= n)
        BY <1>1, <2>1, <3>1 DEF Hydrate, Goto, DispatchTypeOK
      <3> QED
        BY <1>1, <3>2 DEF Undecided, TerminalsOf, JournalOf, DispatchTypeOK, TypeOK
    <2>2. CASE ~Hydrate(w)
      <3>1. Cleared(w)' => Cleared(w) /\ UNCHANGED <<job, fence>>
        BY <1>1, <2>2 DEF DispatchStep, Dispatch, LastJournalSeq, AfterFence,
           LastJournalSeqFailed, HasTerminal, Submit, ConflictRetry, DispatchDone,
           WorkerCrash, Goto, DispatchTypeOK
      <3> QED
        BY <3>1 DEF DInv, GInv, GuardsHold
    <2> QED
      BY <2>1, <2>2
  <1> HIDE DEF Cleared
  <1>4. \A v \in Workers : Cleared(v)' => Undecided(job'[v], fence'[v])
    BY <1>2, <1>3 DEF DInv, GInv, GuardsHold, Cleared
  <1>5. GuardsHold'
    BY <1>2, <1>4 DEF GuardsHold, Undecided, TerminalsOf, JournalOf, Cleared
  <1> QED
    BY <1>2, <1>5 DEF DInv, GInv, PublishesGuarded, OutcomeDecidedOnce, Undecided,
       TerminalsOf, JournalOf

\* Nothing is journaled yet and every worker is idle.
LEMMA InitDInv == DispatchInit => IInv /\ DInv
  <1> SUFFICES ASSUME DispatchInit PROVE IInv /\ DInv
    OBVIOUS
  <1>1. \A i \in Invs : JournalOf(i) = {} /\ TerminalsOf(i) = {}
    BY DEF DispatchInit, Init, JournalOf, TerminalsOf
  <1>2. GInv
    BY <1>1 DEF DispatchInit, Init, GInv, GuardsHold, PublishesGuarded, OutcomeDecidedOnce
  <1> QED
    BY <1>2, InitCInv DEF DInv

\* Every step of the dispatch keeps both invariants.
LEMMA NextDInv ==
    ASSUME Rehydrate, IInv, DInv, [DispatchNext]_dvars
    PROVE  IInv' /\ DInv'
  <1>1. IInv' /\ CInv'
    BY NextCInv DEF DInv
  <1>2. CASE \E i \in Invs, t \in {"Start", "Step", "Error"} : EngineJournals(i, t)
    BY <1>1, <1>2, EngineJournalsGInv DEF DInv
  <1>3. CASE StreamStep /\ UNCHANGED dispatch
    BY <1>1, <1>3, StreamGInv DEF DInv
  <1>4. CASE \E w \in Workers : DispatchStep(w)
    BY <1>1, <1>4, DispatchStepGInv DEF DInv
  <1>5. CASE \E w \in Workers : CallStep(w) /\ UNCHANGED dispatch
    BY <1>1, <1>5, CallStepGInv DEF DInv
  <1>6. CASE UNCHANGED dvars
    <2>1. GInv'
      BY <1>6 DEF dvars, vars, dispatch, DInv, GInv, GuardsHold, PublishesGuarded,
         OutcomeDecidedOnce, Undecided, TerminalsOf, JournalOf
    <2> QED
      BY <1>1, <2>1 DEF DInv
  <1> QED
    BY <1>2, <1>3, <1>4, <1>5, <1>6 DEF DispatchNext

\* With a caller that hydrates again, both invariants hold for every set of
\* workers and invocations, every retry budget and every number of crashes.
THEOREM DispatchInvariance == ASSUME Rehydrate PROVE DispatchSpec => [](IInv /\ DInv)
  <1>1. IInv /\ DInv /\ [DispatchNext]_dvars => (IInv /\ DInv)'
    BY NextDInv
  <1> QED
    BY <1>1, InitDInv, PTL DEF DispatchSpec

\* An invocation is decided once and nothing is journaled after its outcome.
THEOREM DecidedOnce == ASSUME Rehydrate PROVE DispatchSpec => []OutcomeDecidedOnce
  <1>1. DInv => OutcomeDecidedOnce
    BY DEF DInv, GInv
  <1> QED
    BY <1>1, DispatchInvariance, PTL

------------------------------------------------------------------------------
\* Journals are finite sets of sequence numbers.
LEMMA JournalFinite ==
    ASSUME TypeOK, NEW i \in Invs
    PROVE  IsFiniteSet(JournalOf(i)) /\ Cardinality(JournalOf(i)) \in Nat
  <1>1. Len(log) \in Int
    BY DEF TypeOK
  <1>2. IsFiniteSet(1 .. Len(log)) /\ JournalOf(i) \in SUBSET (1 .. Len(log))
    BY <1>1, FS_Interval DEF JournalOf
  <1> QED
    BY <1>2, FS_Subset, FS_CardinalityType

\* Appending an entry to an undecided journal is a step of the abstract journal,
\* its decision when the entry is terminal.
LEMMA AppendImplements ==
    ASSUME TypeOK, NEW e \in Entry, AppendEntry(e), TerminalsOf(e.inv) = {},
           e.type \in Terminal => JournalOf(e.inv) # {}
    PROVE  Abstract!Next
  <1> DEFINE length  == [i \in Invs |-> Cardinality(JournalOf(i))]
             outcome == [i \in Invs |-> TerminalsOf(i)]
  <1>1. e.inv \in Invs
    BY DEF Entry
  <1>2. ASSUME NEW i \in Invs
        PROVE  Cardinality(JournalOf(i))' =
                  IF i = e.inv THEN Cardinality(JournalOf(i)) + 1 ELSE Cardinality(JournalOf(i))
    <2>1. Len(log) + 1 \notin JournalOf(i)
      BY AppendEntryFacts DEF JournalOf
    <2>2. IsFiniteSet(JournalOf(i))
      BY JournalFinite
    <2>3. CASE i = e.inv
      <3>1. JournalOf(i)' = JournalOf(i) \cup {Len(log) + 1}
        BY <2>3, AppendJournal
      <3> QED
        BY <2>1, <2>2, <2>3, <3>1, FS_AddElement
    <2>4. CASE i # e.inv
      <3>1. JournalOf(i)' = JournalOf(i)
        BY <2>4, AppendJournal
      <3> QED
        BY <2>4, <3>1
    <2> QED
      BY <2>3, <2>4
  <1>3. length' = [length EXCEPT ![e.inv] = @ + 1]
    BY <1>1, <1>2
  <1>4. CASE e.type \in Terminal
    <2>1. outcome' = [outcome EXCEPT ![e.inv] = {Len(log) + 1}]
      <3>1. TerminalsOf(e.inv)' = {Len(log) + 1}
        BY <1>1, <1>4, AppendJournal
      <3>2. ASSUME NEW i \in Invs, i # e.inv PROVE TerminalsOf(i)' = TerminalsOf(i)
        BY <3>2, AppendJournal
      <3>3. ASSUME NEW i \in Invs
            PROVE  TerminalsOf(i)' = IF i = e.inv THEN {Len(log) + 1} ELSE TerminalsOf(i)
        BY <3>1, <3>2
      <3> QED
        BY <1>1, <3>3
    <2>2. length[e.inv] > 0 /\ outcome[e.inv] = {}
      <3>1. Cardinality(JournalOf(e.inv)) \in Nat \ {0}
        BY <1>1, <1>4, JournalFinite, FS_EmptySet
      <3> QED
        BY <1>1, <3>1
    <2>3. Len(log) + 1 \in outcome'[e.inv]
      BY <1>1, <2>1
    <2>4. Abstract!Decide(e.inv)
      BY <1>3, <2>1, <2>2, <2>3 DEF Abstract!Decide
    <2> QED
      BY <1>1, <2>4 DEF Abstract!Next
  <1>5. CASE e.type \notin Terminal
    <2>1. outcome' = outcome
      <3>1. ASSUME NEW i \in Invs PROVE TerminalsOf(i)' = TerminalsOf(i)
        BY <1>5, AppendJournal
      <3> QED
        BY <3>1
    <2>2. Abstract!Step(e.inv)
      BY <1>1, <1>3, <2>1 DEF Abstract!Step
    <2> QED
      BY <1>1, <2>2 DEF Abstract!Next
  <1> QED
    BY <1>4, <1>5

\* The dispatch implements the abstract journal of JournalOutcome.
THEOREM Implements == ASSUME Rehydrate PROVE DispatchSpec => ImplementsJournalOutcome
  <1>1. DispatchInit => Abstract!Init
    <2> SUFFICES ASSUME DispatchInit PROVE Abstract!Init
      OBVIOUS
    <2>1. \A i \in Invs : JournalOf(i) = {} /\ TerminalsOf(i) = {}
      BY DEF DispatchInit, Init, JournalOf, TerminalsOf
    <2> QED
      BY <2>1, FS_EmptySet DEF Abstract!Init
  <1>2. ASSUME IInv, DInv, [DispatchNext]_dvars
        PROVE  [Abstract!Next]_(Abstract!journal)
    <2>1. TypeOK /\ LastIsLast
      BY <1>2 DEF IInv
    <2>2. \A i \in Invs : last[i] # 0 => JournalOf(i) # {}
      BY <2>1 DEF LastIsLast, TypeOK, JournalOf
    <2>3. ASSUME UNCHANGED log PROVE UNCHANGED Abstract!journal
      BY <2>3 DEF Abstract!journal, JournalOf, TerminalsOf
    <2>4. CASE \E i \in Invs, t \in {"Start", "Step", "Error"} : EngineJournals(i, t)
      <3> PICK i \in Invs, t \in {"Start", "Step", "Error"} : EngineJournals(i, t)
        BY <2>4
      <3> DEFINE e == [inv |-> i, type |-> t, who |-> Engine, call |-> 0]
      <3>1. e \in Entry /\ AppendEntry(e) /\ e.inv = i /\ e.type = t
        BY DEF EngineJournals, EngineAppend, Entry, EntryTypes
      <3>2. TerminalsOf(i) = {} /\ (t # "Start" => JournalOf(i) # {})
        BY <2>2 DEF EngineJournals, EngineAppend
      <3>3. t \in Terminal => t # "Start"
        BY DEF Terminal
      <3> HIDE DEF e
      <3> QED
        BY <2>1, <3>1, <3>2, <3>3, AppendImplements
    <2>5. CASE StreamStep
      <3> PICK m \in net : StreamApply(m) \/ StreamReject(m)
        BY <2>5 DEF StreamStep
      <3>1. CASE StreamApply(m)
        <4> DEFINE e == [inv |-> m.inv, type |-> "Output", who |-> m.who, call |-> m.call]
        <4>1. e \in Entry /\ AppendEntry(e) /\ e.inv = m.inv
          <5>1. m \in Publishes
            BY <2>1 DEF TypeOK
          <5> QED
            BY <3>1, <5>1 DEF StreamApply, Entry, EntryTypes, Publishes
        <4>2. TerminalsOf(m.inv) = {}
          BY <1>2, <3>1, ApplyFindsUndecided DEF StreamApply
        <4>3. JournalOf(m.inv) # {}
          <5>1. m.inv \in Invs /\ m.expect # 0
            BY <1>2, <2>1 DEF IInv, FencesPast, TypeOK, Publishes
          <5> QED
            BY <2>2, <3>1, <5>1 DEF StreamApply
        <4> HIDE DEF e
        <4> QED
          BY <2>1, <4>1, <4>2, <4>3, AppendImplements
      <3>2. CASE StreamReject(m)
        BY <2>3, <3>2 DEF StreamReject
      <3> QED
        BY <3>1, <3>2
    <2>6. CASE \E w \in Workers : DispatchStep(w)
      <3>1. UNCHANGED log
        BY <2>6 DEF DispatchStep, Dispatch, LastJournalSeq, LastJournalSeqFailed, Hydrate,
           HasTerminal, Submit, SubmitResult, SubmitUsage, SubmitBegin, ConflictRetry,
           DispatchDone, WorkerCrash, Crash, vars, stream
      <3> QED
        BY <2>3, <3>1
    <2>7. CASE \E w \in Workers : CallStep(w)
      <3>1. UNCHANGED log
        BY <2>7 DEF CallStep, Publish, PublishAcked, PublishConflict, PublishFailed,
           PublishRetry, SubmitExhausted, stream
      <3> QED
        BY <2>3, <3>1
    <2>8. CASE UNCHANGED dvars
      BY <2>3, <2>8 DEF dvars, vars
    <2> QED
      BY <1>2, <2>4, <2>5, <2>6, <2>7, <2>8 DEF DispatchNext
  <1> QED
    BY <1>1, <1>2, DispatchInvariance, PTL
    DEF DispatchSpec, ImplementsJournalOutcome, Abstract!Spec
==============================================================================
