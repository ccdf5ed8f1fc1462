-------------------------------- MODULE Saga ---------------------------------
(***************************************************************************)
(* The Saga builder (sdk/saga.go) in a handler that registers              *)
(* compensations through it and directly, against the engine's context.    *)
(*                                                                         *)
(* The context is external (sdk/ctx.go:212-228): a registration is         *)
(* journaled; after a crash the handler runs again from its beginning, and *)
(* what it had registered is served from the journal; a handler that fails *)
(* has its compensations run in reverse, one that is killed does not.      *)
(* Handlers are deterministic, as the context asks: a run takes its        *)
(* recorded course before it goes on.                                      *)
(***************************************************************************)
EXTENDS Naturals, Sequences

CONSTANTS
    CompensationFuncs,
    Programs,       \* handlers: sequences of the calls below
    MaxAttempts     \* bound: runs of the handler

\* A handler calls AddCompensation, RegisterAll or ctx.RegisterCompensation.
Ops == [op : {"add", "register"}, fn : CompensationFuncs] \cup [op : {"registerAll"}]

ASSUME SagaAssumption ==
    /\ Programs \subseteq Seq(Ops)
    /\ MaxAttempts \in Nat \ {0}

VARIABLES
    prog,           \* the handler
    attempt,        \* its runs so far
    pc,             \* "handler", "loop" (in RegisterAll), "failed", "rollback",
                    \* "succeeded", "rolledBack" or "killed"
    ip,             \* the handler's next call
    compensations,  \* the saga's list
    at, ids,        \* RegisterAll: the loop index, the ids so far or returned
    stack,          \* the engine: functions registered in this run
    journal,        \* the engine: the registrations, durable
    undone          \* the compensations that have been run

engine == <<stack, journal>>
vars == <<prog, attempt, pc, ip, compensations, at, ids, engine, undone>>

Init ==
    /\ prog \in Programs
    /\ attempt = 1
    /\ pc = "handler"
    /\ ip = 1
    /\ compensations = <<>>
    /\ at = 0
    /\ ids = <<>>
    /\ stack = <<>>
    /\ journal = <<>>
    /\ undone = <<>>

------------------------------------------------------------------------------
(* The engine's context (external).                                        *)

\* Does the run still follow the journal?
Replaying == Len(stack) < Len(journal)

\* The id a registration gets: that of its place in the journal.
NextId == Len(stack) + 1

\* Registered: journaled, or served from the journal.
RegisterCompensation(fn) ==
    /\ stack' = Append(stack, fn)
    /\ journal' = IF Replaying THEN journal ELSE Append(journal, fn)

\* Refused (the journal cannot be written, the invocation is cancelled: ErrCancelled
\* ends the handler, whose compensations then run).
RefuseCompensation == ~Replaying /\ UNCHANGED engine

------------------------------------------------------------------------------
(* The handler and its saga.                                               *)

Calls(op) == pc = "handler" /\ ip <= Len(prog) /\ prog[ip].op = op

AddCompensation ==
    /\ Calls("add")
    /\ compensations' = Append(compensations, prog[ip].fn)
    /\ ip' = ip + 1
    /\ UNCHANGED <<prog, attempt, pc, at, ids, engine, undone>>

\* ctx.RegisterCompensation, called by the handler itself.
RegisterDirectly ==
    /\ Calls("register")
    /\ \/ RegisterCompensation(prog[ip].fn) /\ ip' = ip + 1 /\ UNCHANGED pc
       \/ RefuseCompensation /\ pc' = "failed" /\ UNCHANGED ip
    /\ UNCHANGED <<prog, attempt, compensations, at, ids, undone>>

\* Mutant of RegisterAll: the ids of an earlier call are kept.
RegisterAllKeepsIds ==
    /\ Calls("registerAll")
    /\ pc' = "loop"
    /\ at' = 1
    /\ UNCHANGED <<prog, attempt, ip, compensations, ids, engine, undone>>

RegisterAll ==
    /\ Calls("registerAll")
    /\ pc' = "loop"
    /\ at' = 1
    /\ ids' = <<>>
    /\ UNCHANGED <<prog, attempt, ip, compensations, engine, undone>>

\* Mutant of Closure: one variable for the whole loop, as Go had it before 1.22.
ClosureShared(i) == compensations[Len(compensations)]

\* The function registered in iteration i calls the fn of that iteration.
Closure(i) == compensations[i]

RegisterNext ==
    /\ pc = "loop" /\ at <= Len(compensations)
    /\ RegisterCompensation(Closure(at))
    /\ ids' = Append(ids, NextId)
    /\ at' = at + 1
    /\ UNCHANGED <<prog, attempt, pc, ip, compensations, undone>>

\* Mutants of RegisterRefused: the loop goes on with the next compensation; an
\* id is returned for the refused one too.
RegisterRefusedSkips ==
    /\ pc = "loop" /\ at <= Len(compensations)
    /\ RefuseCompensation
    /\ at' = at + 1
    /\ UNCHANGED <<prog, attempt, pc, ip, compensations, ids, undone>>
RegisterRefusedWithId ==
    /\ pc = "loop" /\ at <= Len(compensations)
    /\ RefuseCompensation
    /\ pc' = "failed"
    /\ ids' = Append(ids, NextId)
    /\ UNCHANGED <<prog, attempt, ip, compensations, at, undone>>

\* The first error ends RegisterAll, and the handler that called it.
RegisterRefused ==
    /\ pc = "loop" /\ at <= Len(compensations)
    /\ RefuseCompensation
    /\ pc' = "failed"
    /\ UNCHANGED <<prog, attempt, ip, compensations, at, ids, undone>>

RegisterAllReturns ==
    /\ pc = "loop" /\ at > Len(compensations)
    /\ pc' = "handler"
    /\ ip' = ip + 1
    /\ UNCHANGED <<prog, attempt, compensations, at, ids, engine, undone>>

------------------------------------------------------------------------------
(* The invocation around it (external).                                    *)

\* The handler returns an error: that of a registration, or one of its own.
HandlerFails ==
    /\ pc = "failed" \/ (pc = "handler" /\ ~Replaying)
    /\ pc' = "rollback"
    /\ UNCHANGED <<prog, attempt, ip, compensations, at, ids, engine, undone>>

HandlerSucceeds ==
    /\ pc = "handler" /\ ip > Len(prog)
    /\ pc' = "succeeded"
    /\ UNCHANGED <<prog, attempt, ip, compensations, at, ids, engine, undone>>

Compensate ==
    /\ pc = "rollback" /\ stack # <<>>
    /\ undone' = Append(undone, stack[Len(stack)])
    /\ stack' = SubSeq(stack, 1, Len(stack) - 1)
    /\ UNCHANGED <<prog, attempt, pc, ip, compensations, at, ids, journal>>

RolledBack ==
    /\ pc = "rollback" /\ stack = <<>>
    /\ pc' = "rolledBack"
    /\ UNCHANGED <<prog, attempt, ip, compensations, at, ids, engine, undone>>

\* ErrKilled (ctx.go:289-293): forceful, no compensation runs.
Kill ==
    /\ pc \in {"handler", "loop", "failed"}
    /\ pc' = "killed"
    /\ UNCHANGED <<prog, attempt, ip, compensations, at, ids, engine, undone>>

\* The process dies; the handler runs again, with a saga of its own.
Crash ==
    /\ pc \in {"handler", "loop", "failed"}
    /\ attempt < MaxAttempts
    /\ attempt' = attempt + 1
    /\ pc' = "handler"
    /\ ip' = 1
    /\ compensations' = <<>>
    /\ at' = 0
    /\ ids' = <<>>
    /\ stack' = <<>>
    /\ UNCHANGED <<prog, journal, undone>>

Next ==
    \/ AddCompensation
    \/ RegisterDirectly
    \/ RegisterAll
    \/ RegisterNext
    \/ RegisterRefused
    \/ RegisterAllReturns
    \/ HandlerFails
    \/ HandlerSucceeds
    \/ Compensate
    \/ RolledBack
    \/ Kill
    \/ Crash

Spec == Init /\ [][Next]_vars

------------------------------------------------------------------------------
\* The types; RegisterAll never returns more ids than the saga has compensations.
TypeOK ==
    /\ prog \in Programs
    /\ attempt \in 1..MaxAttempts
    /\ pc \in {"handler", "loop", "failed", "rollback", "succeeded", "rolledBack", "killed"}
    /\ ip \in 1..Len(prog) + 1
    /\ compensations \in Seq(CompensationFuncs)
    /\ at \in 0..Len(compensations) + 1
    /\ ids \in Seq(Nat) /\ Len(ids) <= Len(compensations)
    /\ stack \in Seq(CompensationFuncs)
    /\ journal \in Seq(CompensationFuncs)
    /\ undone \in Seq(CompensationFuncs)

\* What a call of the handler adds and registers when it succeeds.
AfterCall(w, c) ==
    CASE c.op = "add"         -> [w EXCEPT !.added = Append(@, c.fn)]
      [] c.op = "register"    -> [w EXCEPT !.registered = Append(@, c.fn)]
      [] c.op = "registerAll" -> [w EXCEPT !.registered = @ \o w.added]

\* What its first n calls have added and registered when all of them succeeded: the
\* reference for RegisterAll.
NothingWritten == [added |-> <<>>, registered |-> <<>>]
Written[n \in 0..Len(prog)] ==
    IF n = 0 THEN NothingWritten ELSE AfterCall(Written[n - 1], prog[n])

\* Between its calls the handler has registered exactly what it has written, in
\* that order (saga.go:75), each compensation with its own function, in every run,
\* whatever became of the runs before (saga.go:79-82).
RegisteredAsWritten == pc = "handler" => stack = Written[ip - 1].registered

\* RegisterAll tells the truth about how far it got (saga.go:73, 83): each id it
\* has returned is that of the compensation in its place; there is one for each
\* when it succeeded, and none for those that were not registered when it failed.
IdsAreTheirs ==
    /\ pc \in {"loop", "failed"} =>
           \A i \in 1..Len(ids) : /\ ids[i] \in 1..Len(journal)
                                  /\ journal[ids[i]] = compensations[i]
    /\ pc = "loop" /\ at > Len(compensations) => Len(ids) = Len(compensations)

Phase ==
    IF pc \in {"succeeded", "rolledBack", "killed"} THEN "closed"
    ELSE IF pc = "rollback" THEN "rollback" ELSE "open"

Abstract == INSTANCE CompensationStack WITH registered <- journal, phase <- Phase

\* Runs of the handler that fail and crash anywhere implement the stack: what is
\* undone is the journal from its end, although each run registers anew.
ImplementsCompensationStack == Abstract!Spec
==============================================================================
