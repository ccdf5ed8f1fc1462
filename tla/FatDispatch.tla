----------------------------- MODULE FatDispatch -----------------------------
(***************************************************************************)
(* The fat-mode dispatch that sdk/fat.go is written for, over FatSubmit:   *)
(* read the fence with LastJournalSeq, hydrate the invocation's journal,   *)
(* ask HasTerminal of the snapshot, call SubmitResult with the fence.      *)
(*                                                                         *)
(* The dispatch loop itself lives in the engine (external): sdk/fat.go     *)
(* says what it must call.  On ErrFatConflict "the caller must re-read     *)
(* LastJournalSeq and retry" (fat.go:60).  Rehydrate says what retry       *)
(* means: TRUE starts again from the fence, through hydration and the      *)
(* HasTerminal guard; FALSE calls SubmitResult with the fresh fence, which *)
(* is all the comment asks for.                                            *)
(***************************************************************************)
EXTENDS FatSubmit, FiniteSets

CONSTANT Rehydrate      \* is the journal hydrated again after ErrFatConflict

ASSUME RehydrateAssumption == Rehydrate \in BOOLEAN

VARIABLES
    phase,      \* phase[w]: the next thing w does for its dispatch
    job,        \* job[w]: the invocation dispatched to w
    fence,      \* fence[w]: what LastJournalSeq returned to w
    snap        \* snap[w]: the answer HasTerminal gives of w's snapshot

dispatch == <<phase, job, fence, snap>>
dvars == <<vars, dispatch>>

Phases == {"idle", "fence", "refence", "hydrate", "guard", "submit", "submitted"}

JournalOf(i) == {n \in 1 .. Len(log) : log[n].inv = i}
TerminalsOf(i) == {n \in JournalOf(i) : log[n].type \in Terminal}

DispatchInit ==
    /\ Init
    /\ phase = [w \in Workers |-> "idle"]
    /\ job = [w \in Workers |-> arg[w].inv]
    /\ fence = [w \in Workers |-> 0]
    /\ snap = [w \in Workers |-> FALSE]

Goto(w, p) == phase' = [phase EXCEPT ![w] = p]

\* An invocation is delivered (again) to a worker.
Dispatch(w, i) ==
    /\ phase[w] = "idle"
    /\ call[w] < MaxCalls
    /\ job' = [job EXCEPT ![w] = i]
    /\ Goto(w, "fence")
    /\ UNCHANGED <<vars, fence, snap>>

AfterFence(w) == IF phase[w] = "refence" /\ ~Rehydrate THEN "submit" ELSE "hydrate"

\* Mutant of LastJournalSeq: the sequence before the last, without the case for
\* ErrMsgNotFound.
LastJournalSeqBefore(w) ==
    /\ phase[w] \in {"fence", "refence"}
    /\ fence' = [fence EXCEPT ![w] = last[job[w]] - 1]
    /\ Goto(w, AfterFence(w))
    /\ UNCHANGED <<vars, job, snap>>

\* The last sequence on the subject, 0 if there is no entry, as the replica that
\* answers knows it: it may be an earlier last one, and stale when it is used.
LastJournalSeq(w) ==
    /\ phase[w] \in {"fence", "refence"}
    /\ \E f \in {0} \cup JournalOf(job[w]) : fence' = [fence EXCEPT ![w] = f]
    /\ Goto(w, AfterFence(w))
    /\ UNCHANGED <<vars, job, snap>>

\* Opening the stream or reading the message failed: the error is returned,
\* nothing is retried, and the dispatch ends.
LastJournalSeqFailed(w) ==
    /\ phase[w] \in {"fence", "refence"}
    /\ Goto(w, "idle")
    /\ UNCHANGED <<vars, job, fence, snap>>

\* Mutant of Hydrate: the journal was read before the fence.
HydrateEarlier(w) ==
    /\ phase[w] = "hydrate"
    /\ \E n \in 0 .. Len(log) :
          snap' = [snap EXCEPT ![w] = \E k \in TerminalsOf(job[w]) : k <= n]
    /\ Goto(w, "guard")
    /\ UNCHANGED <<vars, job, fence>>

\* The engine builds the in-memory machine from the journal.  What it reads may
\* be behind the stream and must not be behind the fence.
Hydrate(w) ==
    /\ phase[w] = "hydrate"
    /\ \E n \in fence[w] .. Len(log) :
          snap' = [snap EXCEPT ![w] = \E k \in TerminalsOf(job[w]) : k <= n]
    /\ Goto(w, "guard")
    /\ UNCHANGED <<vars, job, fence>>

\* Mutant of HasTerminal: the guard is not consulted.
HasTerminalIgnored(w) ==
    /\ phase[w] = "guard"
    /\ Goto(w, "submit")
    /\ UNCHANGED <<vars, job, fence, snap>>

\* HasTerminal(m): true returns the recorded result without re-executing, false
\* runs the handler.
HasTerminal(w) ==
    /\ phase[w] = "guard"
    /\ Goto(w, IF snap[w] THEN "idle" ELSE "submit")
    /\ UNCHANGED <<vars, job, fence, snap>>

Submit(w) ==
    /\ phase[w] = "submit"
    /\ SubmitResult(w, job[w], fence[w])
    /\ Goto(w, "submitted")
    /\ UNCHANGED <<job, fence, snap>>

\* ErrFatConflict: "the caller must re-read LastJournalSeq and retry".
ConflictRetry(w) ==
    /\ phase[w] = "submitted"
    /\ pc[w] = "idle"
    /\ ret[w].err = "conflict"
    /\ call[w] < MaxCalls
    /\ Goto(w, "refence")
    /\ UNCHANGED <<vars, job, fence, snap>>

\* Success, or an error the caller gives the dispatch up with.
DispatchDone(w) ==
    /\ phase[w] = "submitted"
    /\ pc[w] = "idle"
    /\ ret[w].err # "conflict" \/ call[w] = MaxCalls
    /\ Goto(w, "idle")
    /\ UNCHANGED <<vars, job, fence, snap>>

\* The process dies anywhere in a dispatch; the invocation is delivered again.
WorkerCrash(w) ==
    /\ phase[w] # "idle"
    /\ Goto(w, "idle")
    /\ Crash(w) \/ (pc[w] = "idle" /\ UNCHANGED vars)
    /\ UNCHANGED <<job, fence, snap>>

\* The engine hydrates and fences its own appends: it writes to no journal that
\* has a terminal entry (external).
EngineJournals(i, t) ==
    /\ TerminalsOf(i) = {}
    /\ EngineAppend(i, t)
    /\ UNCHANGED dispatch

DispatchStep(w) ==
    \/ \E i \in Invs : Dispatch(w, i)
    \/ LastJournalSeq(w)
    \/ LastJournalSeqFailed(w)
    \/ Hydrate(w)
    \/ HasTerminal(w)
    \/ Submit(w)
    \/ ConflictRetry(w)
    \/ DispatchDone(w)
    \/ WorkerCrash(w)

DispatchNext ==
    \/ \E i \in Invs, t \in {"Start", "Step", "Error"} : EngineJournals(i, t)
    \/ StreamStep /\ UNCHANGED dispatch
    \/ \E w \in Workers : DispatchStep(w) \/ (CallStep(w) /\ UNCHANGED dispatch)

DispatchSpec == DispatchInit /\ [][DispatchNext]_dvars

------------------------------------------------------------------------------
\* The types of the dispatch loop's own variables.
DispatchTypeOK ==
    /\ phase \in [Workers -> Phases]
    /\ job \in [Workers -> Invs]
    /\ fence \in [Workers -> Nat]
    /\ snap \in [Workers -> BOOLEAN]

\* A result is journaled once (HasTerminal's purpose, fat.go:117): however
\* workers race, retry, crash and are dispatched again, the journal of an
\* invocation has at most one terminal entry, and nothing comes after it.
OutcomeDecidedOnce ==
    \A i \in Invs : \A n \in TerminalsOf(i) : \A k \in JournalOf(i) : k <= n

\* A call that failed with ErrFatConflict has found a journal that moved past
\* its fence: a retry from a fresh fence meets new entries.
ConflictMeansMoved ==
    \A w \in Workers :
        phase[w] = "submitted" /\ ret[w].err = "conflict" => last[job[w]] > fence[w]

\* The dispatch implements the abstract journal: every append is a step of an
\* undecided invocation or its one decision.
Abstract == INSTANCE JournalOutcome WITH
    length  <- [i \in Invs |-> Cardinality(JournalOf(i))],
    outcome <- [i \in Invs |-> TerminalsOf(i)]

\* DispatchSpec => ImplementsJournalOutcome: the refinement itself.
ImplementsJournalOutcome == Abstract!Spec
==============================================================================
