------------------------------ MODULE SagaProofs ------------------------------
(***************************************************************************)
(* Proofs about Saga, for any handlers, functions and numbers of runs.     *)
(*                                                                         *)
(* The argument: what a run does is a function of where it is (Step), so   *)
(* the runs of a handler share one course, from Start to the place where   *)
(* the journal ends (Course).  A run is at some place of it, or ahead of   *)
(* all earlier runs; where it registers, it therefore meets the function   *)
(* the journal holds, and its stack is a beginning of the journal.  When   *)
(* it fails it has caught up, and the rollback undoes the whole journal.   *)
(***************************************************************************)
EXTENDS Saga, SequenceTheorems, WellFoundedInduction, TLAPS

Configs == [pc : {"handler", "loop"}, ip : Nat, compensations : Seq(CompensationFuncs),
            at : Nat, stack : Seq(CompensationFuncs)]

\* Where the run is.
Here == [pc |-> pc, ip |-> ip, compensations |-> compensations, at |-> at, stack |-> stack]

Start == [pc |-> "handler", ip |-> 1, compensations |-> <<>>, at |-> 0, stack |-> <<>>]

\* What a run does next when nothing stops it.
Step(c) ==
    IF c.pc = "loop"
    THEN IF c.at <= Len(c.compensations)
         THEN [c EXCEPT !.stack = Append(c.stack, c.compensations[c.at]), !.at = c.at + 1]
         ELSE [c EXCEPT !.pc = "handler", !.ip = c.ip + 1]
    ELSE IF prog[c.ip].op = "add"
    THEN [c EXCEPT !.compensations = Append(c.compensations, prog[c.ip].fn), !.ip = c.ip + 1]
    ELSE IF prog[c.ip].op = "register"
    THEN [c EXCEPT !.stack = Append(c.stack, prog[c.ip].fn), !.ip = c.ip + 1]
    ELSE [c EXCEPT !.pc = "loop", !.at = 1]

Begins(s) == Len(s) <= Len(journal) /\ \A i \in 1 .. Len(s) : s[i] = journal[i]

\* The first n places of the course of this handler, as far as the journal goes.
Course(tr, n) ==
    /\ n \in Nat \ {0} /\ tr \in [1 .. n -> Configs]
    /\ tr[1] = Start
    /\ \A j \in 1 .. n - 1 : tr[j + 1] = Step(tr[j])
    /\ \A j \in 1 .. n : Begins(tr[j].stack)
    /\ tr[n].stack = journal

OnCourse ==
    pc \in {"handler", "loop", "failed"} =>
        \E n \in Nat \ {0} : \E tr \in [1 .. n -> Configs] :
            /\ Course(tr, n)
            /\ pc # "failed" => \E k \in 1 .. n : tr[k] = Here

\* A run that has failed has caught up with the journal; what the rollback has not
\* undone is still on the stack.
CaughtUp ==
    /\ pc \in {"handler", "loop", "failed"} => undone = <<>> /\ Begins(stack)
    /\ pc = "failed" => Len(stack) = Len(journal)
    /\ pc = "rollback" => Begins(stack) /\ Len(stack) + Len(undone) = Len(journal)

IdsTrue ==
    /\ \A i \in 1 .. Len(ids) : ids[i] \in 1 .. Len(journal) /\ journal[ids[i]] = compensations[i]
    /\ pc = "loop" => at >= 1 /\ Len(ids) = at - 1 /\ ip <= Len(prog)

IInv == TypeOK /\ OnCourse /\ CaughtUp /\ IdsTrue

\* The operations of a handler are those of its program.
LEMMA ProgOps ==
    ASSUME TypeOK, NEW i \in 1 .. Len(prog)
    PROVE  /\ prog \in Seq(Ops) /\ prog[i] \in Ops
           /\ prog[i].op \in {"add", "register", "registerAll"}
           /\ prog[i].op \in {"add", "register"} => prog[i].fn \in CompensationFuncs
  <1>1. prog \in Seq(Ops) /\ prog[i] \in Ops
    BY SagaAssumption DEF TypeOK
  <1> QED
    BY <1>1 DEF Ops

\* A program is a sequence of operations.
LEMMA ProgLen == prog \in Programs => prog \in Seq(Ops) /\ Len(prog) \in Nat
  BY SagaAssumption

\* The next place of a run depends on the program alone.
LEMMA StepStays ==
    ASSUME prog' = prog, NEW CONSTANT c
    PROVE  Step(c)' = Step(c)
  BY DEF Step

\* A course stays one while the journal does.
LEMMA CourseStays ==
    ASSUME UNCHANGED <<prog, journal>>, NEW CONSTANT n, NEW CONSTANT tr, Course(tr, n)
    PROVE  Course(tr, n)'
  <1>1. \A j \in 1 .. n - 1 : tr[j + 1] = Step(tr[j])'
    BY StepStays DEF Course
  <1>2. \A j \in 1 .. n : Begins(tr[j].stack)'
    BY DEF Course, Begins
  <1> QED
    BY <1>1, <1>2 DEF Course

\* A run that goes a step further stays on the course, or extends it with the
\* journal.
LEMMA Advance ==
    ASSUME TypeOK, TypeOK', prog' = prog, Here' = Step(Here), pc' \in {"handler", "loop"},
           NEW n \in Nat \ {0}, NEW CONSTANT tr \in [1 .. n -> Configs], Course(tr, n),
           NEW k \in 1 .. n, tr[k] = Here,
           \/ UNCHANGED <<stack, journal>>
           \/ \E fn \in CompensationFuncs : RegisterCompensation(fn)
    PROVE  /\ Begins(stack)'
           /\ \E m \in Nat \ {0} : \E t \in [1 .. m -> Configs] :
                 Course(t, m)' /\ \E j \in 1 .. m : t[j] = Here'
  <1>1. /\ Here.stack = stack /\ Here'.stack = stack'
        /\ stack \in Seq(CompensationFuncs) /\ stack' \in Seq(CompensationFuncs)
        /\ journal \in Seq(CompensationFuncs) /\ journal' \in Seq(CompensationFuncs)
    BY DEF Here, TypeOK
  <1>2. \A c : Begins(c) <=> Len(c) <= Len(journal) /\ \A i \in 1 .. Len(c) : c[i] = journal[i]
    BY DEF Begins
  <1>3. CASE k < n
    <2>1. tr[k + 1] = Here' /\ k + 1 \in 1 .. n
      BY <1>3 DEF Course
    <2>2. Begins(stack) /\ Begins(stack')
      BY <1>1, <2>1 DEF Course
    <2>3. journal' = journal
      BY <1>1, <2>2 DEF RegisterCompensation, Replaying, Begins
    <2>4. Course(tr, n)'
      <3>1. \A j \in 1 .. n - 1 : tr[j + 1] = Step(tr[j])'
        BY StepStays DEF Course
      <3>2. \A j \in 1 .. n : Begins(tr[j].stack)'
        BY <2>3 DEF Course, Begins
      <3> QED
        BY <2>3, <3>1, <3>2 DEF Course
    <2> QED
      BY <2>1, <2>2, <2>3, <2>4 DEF Begins
  <1>4. CASE k = n
    <2>1. stack = journal
      BY <1>1, <1>4 DEF Course
    <2>2. stack' = journal'
      BY <2>1 DEF RegisterCompensation, Replaying
    <2>3. /\ Len(journal) <= Len(journal')
          /\ \A i \in 1 .. Len(journal) : journal'[i] = journal[i]
      BY <1>1, <2>1 DEF RegisterCompensation
    <2> DEFINE t == [j \in 1 .. n + 1 |-> IF j <= n THEN tr[j] ELSE Here']
    <2>4. Here' \in Configs
      <3>1. ip' \in Nat /\ at' \in Nat
        BY ProgLen DEF TypeOK
      <3> QED
        BY <1>1, <3>1 DEF TypeOK, Here, Configs
    <2>5. t \in [1 .. n + 1 -> Configs] /\ t[n + 1] = Here' /\ \A j \in 1 .. n : t[j] = tr[j]
      BY <2>4
    <2> HIDE DEF t
    <2>6. PICK u \in [1 .. n + 1 -> Configs] : u = t
      BY <2>5
    <2>7. \A j \in 1 .. n : u[j + 1] = Step(u[j])'
      <3> SUFFICES ASSUME NEW j \in 1 .. n PROVE u[j + 1] = Step(u[j])'
        OBVIOUS
      <3>1. Step(u[j])' = Step(u[j])
        BY StepStays
      <3>2. u[j] = tr[j]
        BY <2>5, <2>6
      <3>3. CASE j < n
        <4>1. u[j + 1] = tr[j + 1] /\ j \in 1 .. n - 1
          BY <2>5, <2>6, <3>3
        <4> QED
          BY <3>1, <3>2, <4>1 DEF Course
      <3>4. CASE j = n
        BY <1>4, <2>5, <2>6, <3>1, <3>2, <3>4
      <3> QED
        BY <3>3, <3>4
    <2>8. \A j \in 1 .. n + 1 : Begins(u[j].stack)'
      <3> SUFFICES ASSUME NEW j \in 1 .. n + 1 PROVE Begins(u[j].stack)'
        OBVIOUS
      <3>1. CASE j = n + 1
        BY <1>1, <2>2, <2>5, <2>6, <3>1 DEF Begins
      <3>2. CASE j \in 1 .. n
        <4>1. u[j] = tr[j] /\ Begins(tr[j].stack) /\ tr[j].stack \in Seq(CompensationFuncs)
          BY <2>5, <2>6, <3>2 DEF Course, Configs
        <4> QED
          BY <1>1, <2>3, <4>1 DEF Begins
      <3> QED
        BY <3>1, <3>2
    <2>9. u[1] = Start
      BY <2>5, <2>6 DEF Course
    <2>10. Course(u, n + 1)'
      BY <1>1, <2>2, <2>5, <2>6, <2>7, <2>8, <2>9 DEF Course
    <2>11. Begins(stack)'
      BY <1>1, <2>2 DEF Begins
    <2> QED
      BY <2>5, <2>6, <2>10, <2>11
  <1> QED
    BY <1>3, <1>4

\* The same for the invariant.
LEMMA Go ==
    ASSUME IInv, TypeOK', prog' = prog, Here' = Step(Here),
           pc \in {"handler", "loop"}, pc' \in {"handler", "loop"},
           \/ UNCHANGED <<stack, journal>>
           \/ \E fn \in CompensationFuncs : RegisterCompensation(fn)
    PROVE  OnCourse' /\ Begins(stack)'
  <1>1. PICK n \in Nat \ {0} : \E tr \in [1 .. n -> Configs] :
            Course(tr, n) /\ \E k \in 1 .. n : tr[k] = Here
    BY DEF IInv, OnCourse
  <1>2. PICK tr \in [1 .. n -> Configs] : Course(tr, n) /\ \E k \in 1 .. n : tr[k] = Here
    BY <1>1
  <1>3. PICK k \in 1 .. n : tr[k] = Here
    BY <1>2
  <1>4. /\ Begins(stack)'
        /\ \E m \in Nat \ {0} : \E t \in [1 .. m -> Configs] :
              Course(t, m)' /\ \E j \in 1 .. m : t[j] = Here'
    BY <1>2, <1>3, Advance DEF IInv
  <1> QED
    BY <1>4 DEF OnCourse

\* A registration keeps the journal's types and what it holds.
LEMMA RegisterGrows ==
    ASSUME TypeOK, NEW fn \in CompensationFuncs, RegisterCompensation(fn)
    PROVE  /\ stack' \in Seq(CompensationFuncs) /\ Len(stack') = Len(stack) + 1
           /\ stack'[Len(stack) + 1] = fn
           /\ journal' \in Seq(CompensationFuncs) /\ Len(journal) <= Len(journal')
           /\ \A i \in 1 .. Len(journal) : journal'[i] = journal[i]
  BY DEF TypeOK, RegisterCompensation

\* A run that has done nothing is at the start of its course.
LEMMA InitIInv == Init => IInv
  <1> SUFFICES ASSUME Init PROVE IInv
    OBVIOUS
  <1>1. TypeOK
    BY SagaAssumption DEF Init, TypeOK, Ops
  <1>2. OnCourse
    <2> DEFINE tr == [j \in 1 .. 1 |-> Start]
    <2>1. /\ Start = Here /\ Start.stack = <<>>
          /\ <<>> \in Seq(CompensationFuncs) => Start \in Configs
      BY DEF Init, Start, Here, Configs
    <2>2. tr \in [1 .. 1 -> Configs] /\ tr[1] = Here
      BY <2>1
    <2>3. Course(tr, 1)
      BY <2>1, <2>2 DEF Init, Course, Begins
    <2>4. 1 \in Nat \ {0} /\ 1 \in 1 .. 1
      OBVIOUS
    <2> HIDE DEF tr
    <2> QED
      BY <2>2, <2>3, <2>4 DEF OnCourse
  <1>3. CaughtUp /\ IdsTrue
    BY DEF Init, CaughtUp, IdsTrue, Begins
  <1> QED
    BY <1>1, <1>2, <1>3 DEF IInv

------------------------------------------------------------------------------
(* The steps of a run.                                                     *)

\* The list grows and nothing is registered.
LEMMA AddIInv == ASSUME IInv, AddCompensation PROVE IInv'
  <1>1. /\ ip \in 1 .. Len(prog) /\ prog[ip].op = "add" /\ prog[ip].fn \in CompensationFuncs
        /\ prog \in Seq(Ops)
    <2>1. ip \in 1 .. Len(prog) /\ prog[ip].op = "add"
      BY SagaAssumption DEF AddCompensation, Calls, IInv, TypeOK
    <2> QED
      BY <2>1, ProgOps DEF IInv
  <1>2. /\ pc = "handler" /\ compensations' = Append(compensations, prog[ip].fn)
        /\ ip' = ip + 1 /\ UNCHANGED <<prog, attempt, pc, at, ids, stack, journal, undone>>
    BY DEF AddCompensation, Calls, engine
  <1>3. /\ compensations' \in Seq(CompensationFuncs)
        /\ Len(compensations') = Len(compensations) + 1
        /\ \A i \in 1 .. Len(compensations) : compensations'[i] = compensations[i]
    BY <1>1, <1>2 DEF IInv, TypeOK
  <1>4. TypeOK'
    BY <1>1, <1>2, <1>3 DEF IInv, TypeOK
  <1>5. Here' = Step(Here)
    BY <1>1, <1>2 DEF Here, Step
  <1>6. OnCourse'
    BY <1>2, <1>4, <1>5, Go
  <1>7. CaughtUp'
    BY <1>2 DEF IInv, CaughtUp, Begins
  <1>8. IdsTrue'
    BY <1>2, <1>3 DEF IInv, TypeOK, IdsTrue
  <1> QED
    BY <1>4, <1>6, <1>7, <1>8 DEF IInv

\* The handler registers, or is refused when it has caught up.
LEMMA DirectlyIInv == ASSUME IInv, RegisterDirectly PROVE IInv'
  <1>1. /\ ip \in 1 .. Len(prog) /\ prog[ip].op = "register" /\ prog[ip].fn \in CompensationFuncs
        /\ prog \in Seq(Ops)
    <2>1. ip \in 1 .. Len(prog) /\ prog[ip].op = "register"
      BY SagaAssumption DEF RegisterDirectly, Calls, IInv, TypeOK
    <2> QED
      BY <2>1, ProgOps DEF IInv
  <1>2. pc = "handler" /\ UNCHANGED <<prog, attempt, compensations, at, ids, undone>>
    BY DEF RegisterDirectly, Calls
  <1>3. CASE RegisterCompensation(prog[ip].fn) /\ ip' = ip + 1 /\ UNCHANGED pc
    <2>1. /\ stack' \in Seq(CompensationFuncs) /\ journal' \in Seq(CompensationFuncs)
          /\ Len(journal) <= Len(journal')
          /\ \A i \in 1 .. Len(journal) : journal'[i] = journal[i]
      BY <1>1, <1>3, RegisterGrows DEF IInv
    <2>2. TypeOK'
      BY <1>1, <1>2, <1>3, <2>1 DEF IInv, TypeOK
    <2>3. Here' = Step(Here)
      BY <1>1, <1>2, <1>3 DEF Here, Step, RegisterCompensation
    <2>4. OnCourse' /\ Begins(stack)'
      BY <1>1, <1>2, <1>3, <2>2, <2>3, Go
    <2>5. CaughtUp'
      BY <1>2, <1>3, <2>4 DEF IInv, CaughtUp
    <2>6. IdsTrue'
      <3>1. \A i \in 1 .. Len(ids) :
               ids[i] \in 1 .. Len(journal) /\ journal[ids[i]] = compensations[i]
        BY DEF IInv, IdsTrue
      <3>2. Len(journal) \in Nat /\ Len(journal') \in Nat
        BY <2>1 DEF IInv, TypeOK
      <3>3. 1 .. Len(journal) \subseteq 1 .. Len(journal')
        BY <2>1, <3>2
      <3> QED
        BY <1>2, <1>3, <2>1, <3>1, <3>3 DEF IdsTrue
    <2> QED
      BY <2>2, <2>4, <2>5, <2>6 DEF IInv
  <1>4. CASE RefuseCompensation /\ pc' = "failed" /\ UNCHANGED ip
    <2>1. UNCHANGED <<stack, journal>> /\ Len(stack) >= Len(journal)
      BY <1>4 DEF RefuseCompensation, Replaying, engine, IInv, TypeOK
    <2>2. TypeOK'
      BY <1>2, <1>4, <2>1 DEF IInv, TypeOK
    <2>3. OnCourse'
      BY <1>2, <1>4, <2>1, CourseStays DEF IInv, OnCourse
    <2>4. CaughtUp'
      BY <1>2, <1>4, <2>1 DEF IInv, TypeOK, CaughtUp, Begins
    <2>5. IdsTrue'
      BY <1>2, <1>4, <2>1 DEF IInv, IdsTrue
    <2> QED
      BY <2>2, <2>3, <2>4, <2>5 DEF IInv
  <1> QED
    BY <1>3, <1>4 DEF RegisterDirectly

\* RegisterAll and its loop.
LEMMA RegisterAllIInv == ASSUME IInv, RegisterAll PROVE IInv'
  <1>1. ip \in 1 .. Len(prog) /\ prog[ip].op = "registerAll"
    BY SagaAssumption DEF RegisterAll, Calls, IInv, TypeOK
  <1>2. /\ pc = "handler" /\ pc' = "loop" /\ at' = 1 /\ ids' = <<>>
        /\ UNCHANGED <<prog, attempt, ip, compensations, stack, journal, undone>>
    BY DEF RegisterAll, Calls, engine
  <1>3. TypeOK'
    BY <1>2 DEF IInv, TypeOK
  <1>4. Here' = Step(Here)
    BY <1>1, <1>2 DEF Here, Step
  <1>5. OnCourse'
    BY <1>2, <1>3, <1>4, Go
  <1>6. CaughtUp' /\ IdsTrue'
    BY <1>1, <1>2 DEF IInv, CaughtUp, Begins, IdsTrue
  <1> QED
    BY <1>3, <1>5, <1>6 DEF IInv

\* An iteration registers the function the journal holds in this place, or adds it.
LEMMA RegisterNextIInv == ASSUME IInv, RegisterNext PROVE IInv'
  <1> DEFINE fn == compensations[at]
  <1>1. /\ pc = "loop" /\ at \in 1 .. Len(compensations)
        /\ RegisterCompensation(fn) /\ ids' = Append(ids, Len(stack) + 1) /\ at' = at + 1
        /\ UNCHANGED <<prog, attempt, pc, ip, compensations, undone>>
    BY DEF RegisterNext, Closure, NextId, IInv, TypeOK, IdsTrue
  <1>2. fn \in CompensationFuncs
    BY <1>1 DEF IInv, TypeOK
  <1>3. /\ stack' \in Seq(CompensationFuncs) /\ journal' \in Seq(CompensationFuncs)
        /\ Len(stack') = Len(stack) + 1 /\ stack'[Len(stack) + 1] = fn
        /\ Len(journal) <= Len(journal')
        /\ \A i \in 1 .. Len(journal) : journal'[i] = journal[i]
    BY <1>1, <1>2, RegisterGrows DEF IInv
  <1>4. ids' \in Seq(Nat) /\ Len(ids') = at /\ ids'[at] = Len(stack) + 1
        /\ \A i \in 1 .. at - 1 : ids'[i] = ids[i]
    BY <1>1 DEF IInv, TypeOK, IdsTrue
  <1>5. TypeOK'
    BY <1>1, <1>3, <1>4 DEF IInv, TypeOK
  <1>6. Here' = Step(Here)
    <2>1. at <= Len(compensations)
      BY <1>1
    <2> QED
      BY <1>1, <2>1 DEF Here, Step, RegisterCompensation
  <1>7. OnCourse' /\ Begins(stack)'
    BY <1>1, <1>2, <1>5, <1>6, Go
  <1>8. CaughtUp'
    BY <1>1, <1>7 DEF IInv, CaughtUp
  <1>9. journal'[Len(stack) + 1] = fn /\ Len(stack) + 1 \in 1 .. Len(journal')
    BY <1>3, <1>7 DEF Begins, IInv, TypeOK
  <1>10. IdsTrue'
    <2> SUFFICES ASSUME NEW i \in 1 .. Len(ids')
                 PROVE  ids'[i] \in 1 .. Len(journal') /\ journal'[ids'[i]] = compensations'[i]
      <3>1. at' >= 1 /\ Len(ids') = at' - 1 /\ ip' <= Len(prog')
        BY <1>1, <1>4 DEF IInv, IdsTrue
      <3> QED
        BY <3>1 DEF IdsTrue
    <2>1. CASE i = at
      BY <1>1, <1>4, <1>9, <2>1
    <2>2. CASE i \in 1 .. at - 1
      <3>1. ids[i] \in 1 .. Len(journal) /\ journal[ids[i]] = compensations[i]
        BY <1>1, <2>2 DEF IInv, IdsTrue
      <3>2. Len(journal) \in Nat /\ Len(journal') \in Nat
        BY <1>3 DEF IInv, TypeOK
      <3>3. 1 .. Len(journal) \subseteq 1 .. Len(journal')
        BY <1>3, <3>2
      <3> QED
        BY <1>1, <1>3, <1>4, <2>2, <3>1, <3>3
    <2> QED
      BY <1>1, <1>4, <2>1, <2>2
  <1> QED
    BY <1>5, <1>7, <1>8, <1>10 DEF IInv

\* Only a run that has caught up with the journal is refused.
LEMMA RegisterRefusedIInv == ASSUME IInv, RegisterRefused PROVE IInv'
  <1>1. /\ pc = "loop" /\ pc' = "failed" /\ Len(stack) >= Len(journal)
        /\ UNCHANGED <<prog, attempt, ip, compensations, at, ids, stack, journal, undone>>
    BY DEF RegisterRefused, RefuseCompensation, Replaying, engine, IInv, TypeOK
  <1>2. TypeOK'
    BY <1>1 DEF IInv, TypeOK
  <1>3. OnCourse'
    BY <1>1, CourseStays DEF IInv, OnCourse
  <1>4. CaughtUp'
    BY <1>1 DEF IInv, TypeOK, CaughtUp, Begins
  <1>5. IdsTrue'
    BY <1>1 DEF IInv, IdsTrue
  <1> QED
    BY <1>2, <1>3, <1>4, <1>5 DEF IInv

\* The loop is over and the handler goes on.
LEMMA RegisterAllReturnsIInv == ASSUME IInv, RegisterAllReturns PROVE IInv'
  <1>1. /\ pc = "loop" /\ pc' = "handler" /\ at > Len(compensations) /\ ip' = ip + 1
        /\ UNCHANGED <<prog, attempt, compensations, at, ids, stack, journal, undone>>
    BY DEF RegisterAllReturns, engine
  <1>2. TypeOK'
    <2>1. ip' \in 1 .. Len(prog') + 1
      BY <1>1, ProgLen DEF IInv, TypeOK, IdsTrue
    <2> QED
      BY <1>1, <2>1 DEF IInv, TypeOK
  <1>3. Here' = Step(Here)
    <2>1. ~(at <= Len(compensations))
      BY <1>1 DEF IInv, TypeOK
    <2> QED
      BY <1>1, <2>1 DEF Here, Step
  <1>4. OnCourse'
    BY <1>1, <1>2, <1>3, Go
  <1>5. CaughtUp' /\ IdsTrue'
    BY <1>1 DEF IInv, CaughtUp, Begins, IdsTrue
  <1> QED
    BY <1>2, <1>4, <1>5 DEF IInv

------------------------------------------------------------------------------
(* The invocation around it.                                               *)

\* A handler fails at the end of its journal.
LEMMA HandlerFailsIInv == ASSUME IInv, HandlerFails PROVE IInv'
  <1>1. /\ pc = "failed" \/ (pc = "handler" /\ ~Replaying)
        /\ pc' = "rollback"
        /\ UNCHANGED <<prog, attempt, ip, compensations, at, ids, stack, journal, undone>>
    BY DEF HandlerFails, engine
  <1>2. undone = <<>> /\ Begins(stack) /\ Len(stack) = Len(journal)
    BY <1>1 DEF IInv, TypeOK, CaughtUp, Begins, Replaying
  <1>3. CaughtUp'
    BY <1>1, <1>2 DEF CaughtUp, Begins, IInv, TypeOK
  <1>4. TypeOK'
    BY <1>1 DEF IInv, TypeOK
  <1>5. OnCourse'
    BY <1>1 DEF OnCourse
  <1>6. IdsTrue'
    BY <1>1 DEF IInv, IdsTrue
  <1> QED
    BY <1>3, <1>4, <1>5, <1>6 DEF IInv

\* Nothing more is claimed of a handler that has succeeded or was killed.
LEMMA EndsIInv == ASSUME IInv, HandlerSucceeds \/ RolledBack \/ Kill PROVE IInv'
  <1>1. /\ pc' \in {"succeeded", "rolledBack", "killed"}
        /\ UNCHANGED <<prog, attempt, ip, compensations, at, ids, stack, journal, undone>>
    BY DEF HandlerSucceeds, RolledBack, Kill, engine
  <1>2. TypeOK'
    BY <1>1 DEF IInv, TypeOK
  <1>3. OnCourse' /\ CaughtUp'
    BY <1>1 DEF OnCourse, CaughtUp
  <1>4. IdsTrue'
    BY <1>1 DEF IInv, IdsTrue
  <1> QED
    BY <1>2, <1>3, <1>4 DEF IInv

\* The rollback takes the last function off the stack.
LEMMA CompensateIInv == ASSUME IInv, Compensate PROVE IInv'
  <1>1. /\ pc = "rollback" /\ stack # <<>>
        /\ undone' = Append(undone, stack[Len(stack)])
        /\ stack' = SubSeq(stack, 1, Len(stack) - 1)
        /\ UNCHANGED <<prog, attempt, pc, ip, compensations, at, ids, journal>>
    BY DEF Compensate
  <1>2. /\ Len(stack) >= 1 /\ stack[Len(stack)] \in CompensationFuncs
        /\ stack' \in Seq(CompensationFuncs) /\ Len(stack') = Len(stack) - 1
        /\ \A i \in 1 .. Len(stack') : stack'[i] = stack[i]
    <2>1. stack \in Seq(CompensationFuncs)
      BY DEF IInv, TypeOK
    <2>2. Len(stack) \in Nat /\ Len(stack) # 0
      BY <1>1, <2>1, EmptySeq
    <2>3. Len(stack) \in 1 .. Len(stack)
      BY <2>2
    <2>4. stack[Len(stack)] \in CompensationFuncs
      BY <2>1, <2>3
    <2> DEFINE m == Len(stack) - 1
    <2>5. m \in Nat /\ m - 1 + 1 = m /\ \A i \in 1 .. m : stack[i] \in CompensationFuncs
      BY <2>1, <2>2
    <2>6. /\ SubSeq(stack, 1, m) \in Seq(CompensationFuncs) /\ Len(SubSeq(stack, 1, m)) = m
          /\ \A i \in 1 .. m : SubSeq(stack, 1, m)[i] = stack[i]
      <3> HIDE DEF m
      <3>1. 1 \in Int /\ m \in Int
        BY <2>5
      <3>2. /\ SubSeq(stack, 1, m) \in Seq(CompensationFuncs)
            /\ Len(SubSeq(stack, 1, m)) = IF 1 <= m THEN m - 1 + 1 ELSE 0
            /\ \A i \in 1 .. m - 1 + 1 : SubSeq(stack, 1, m)[i] = stack[1 + i - 1]
        BY <2>5, <3>1, SubSeqProperties
      <3> QED
        BY <2>5, <3>2
    <2> QED
      BY <1>1, <2>2, <2>4, <2>6
  <1>3. undone' \in Seq(CompensationFuncs) /\ Len(undone') = Len(undone) + 1
    BY <1>1, <1>2 DEF IInv, TypeOK
  <1>4. TypeOK'
    BY <1>1, <1>2, <1>3 DEF IInv, TypeOK
  <1>5. CaughtUp'
    <2>1. /\ Begins(stack) /\ Len(stack) + Len(undone) = Len(journal)
          /\ Len(stack) \in Nat /\ Len(undone) \in Nat /\ Len(journal) \in Nat
      BY <1>1 DEF IInv, TypeOK, CaughtUp
    <2>2. Len(stack') <= Len(journal') /\ Len(stack') + Len(undone') = Len(journal')
      <3>1. Len(stack') = Len(stack) - 1 /\ Len(undone') = Len(undone) + 1 /\ journal' = journal
        BY <1>1, <1>2, <1>3
      <3> QED
        BY <2>1, <3>1
    <2>3. \A i \in 1 .. Len(stack') : i \in 1 .. Len(stack)
      BY <1>2, <2>1
    <2>4. Begins(stack)'
      BY <1>1, <1>2, <2>1, <2>2, <2>3 DEF Begins
    <2> QED
      BY <1>1, <2>2, <2>4 DEF CaughtUp
  <1> QED
    BY <1>1, <1>4, <1>5 DEF IInv, OnCourse, IdsTrue

\* The next run begins where every run began.
LEMMA CrashIInv == ASSUME IInv, Crash PROVE IInv'
  <1>1. /\ pc \in {"handler", "loop", "failed"} /\ attempt < MaxAttempts
        /\ attempt' = attempt + 1 /\ pc' = "handler" /\ ip' = 1 /\ compensations' = <<>>
        /\ at' = 0 /\ ids' = <<>> /\ stack' = <<>> /\ UNCHANGED <<prog, journal, undone>>
    BY DEF Crash
  <1>2. TypeOK'
    <2>1. ip' \in 1 .. Len(prog') + 1
      BY <1>1, ProgLen DEF IInv, TypeOK
    <2> QED
      BY <1>1, <2>1, SagaAssumption DEF IInv, TypeOK
  <1>3. OnCourse'
    <2>1. PICK n \in Nat \ {0} : \E tr \in [1 .. n -> Configs] : Course(tr, n)
      BY <1>1 DEF IInv, OnCourse
    <2>2. PICK tr \in [1 .. n -> Configs] : Course(tr, n)
      BY <2>1
    <2>3. Course(tr, n)'
      BY <1>1, <2>2, CourseStays
    <2>4. 1 \in 1 .. n /\ tr[1] = Here'
      BY <1>1, <2>2 DEF Course, Start, Here
    <2> QED
      BY <2>3, <2>4 DEF OnCourse
  <1>4. CaughtUp' /\ IdsTrue'
    BY <1>1 DEF IInv, TypeOK, CaughtUp, Begins, IdsTrue
  <1> QED
    BY <1>2, <1>3, <1>4 DEF IInv

\* Nothing happens.
LEMMA StutterIInv == ASSUME IInv, UNCHANGED vars PROVE IInv'
  <1>1. UNCHANGED <<prog, attempt, pc, ip, compensations, at, ids, stack, journal, undone>>
    BY DEF vars, engine
  <1>2. OnCourse'
    BY <1>1, CourseStays DEF IInv, OnCourse, Here
  <1> QED
    BY <1>1, <1>2 DEF IInv, TypeOK, CaughtUp, Begins, IdsTrue

\* Every step keeps the invariant.
LEMMA NextIInv == IInv /\ [Next]_vars => IInv'
  BY AddIInv, DirectlyIInv, RegisterAllIInv, RegisterNextIInv, RegisterRefusedIInv,
     RegisterAllReturnsIInv, HandlerFailsIInv, EndsIInv, CompensateIInv, CrashIInv,
     StutterIInv DEF Next

------------------------------------------------------------------------------
(* The theorems.                                                           *)

\* The inductive invariant holds throughout.
THEOREM Invariance == Spec => []IInv
  BY InitIInv, NextIInv, PTL DEF Spec

\* Runs, lists and stacks keep their types, and RegisterAll never returns more ids
\* than the saga has compensations.
THEOREM TypeCorrect == Spec => []TypeOK
  <1>1. IInv => TypeOK
    BY DEF IInv
  <1> QED
    BY <1>1, Invariance, PTL

\* Each id RegisterAll has returned is that of the compensation in its place.
THEOREM IdsTheirs == Spec => []IdsAreTheirs
  <1>1. IInv => IdsAreTheirs
    BY SMTT(30) DEF IInv, TypeOK, IdsTrue, IdsAreTheirs
  <1> QED
    BY <1>1, Invariance, PTL

------------------------------------------------------------------------------
(* What is registered is what the handler has written.                     *)

\* A set of numbers has a least one: induction over the calls of a handler goes by
\* the first call for which a claim fails.
LEMMA Least ==
    ASSUME NEW T, T \subseteq Nat, T # {}
    PROVE  \E x \in T : \A y \in T : x <= y
  <1>1. PICK x \in T : \A y \in T : <<y, x>> \notin OpToRel(<, Nat)
    BY NatLessThanWellFounded, WFMin
  <1>2. \A y \in T : ~(y < x)
    BY <1>1 DEF OpToRel
  <1> QED
    BY <1>2

\* The recursion of Written has a solution on any number of calls.
LEMMA WrittenUpTo ==
    ASSUME NEW n \in Nat
    PROVE  \E f : f = [m \in 0 .. n |->
                          IF m = 0 THEN NothingWritten ELSE AfterCall(f[m - 1], prog[m])]
  <1> DEFINE Solved(k) == \E f : f = [m \in 0 .. k |->
                 IF m = 0 THEN NothingWritten ELSE AfterCall(f[m - 1], prog[m])]
  <1> DEFINE T == {k \in Nat : ~Solved(k)}
  <1>1. SUFFICES ASSUME T # {} PROVE FALSE
    OBVIOUS
  <1>2. PICK x \in T : \A y \in T : x <= y
    BY <1>1, Least
  <1>3. CASE x = 0
    <2> DEFINE f == [m \in 0 .. 0 |-> NothingWritten]
    <2>1. f = [m \in 0 .. 0 |-> IF m = 0 THEN NothingWritten ELSE AfterCall(f[m - 1], prog[m])]
      OBVIOUS
    <2> QED
      BY <1>2, <1>3, <2>1
  <1>4. CASE x # 0
    <2>1. x - 1 \in Nat /\ x \in Nat
      BY <1>2, <1>4
    <2>2. Solved(x - 1)
      BY <1>2, <2>1
    <2>3. PICK f : f = [m \in 0 .. x - 1 |->
                           IF m = 0 THEN NothingWritten ELSE AfterCall(f[m - 1], prog[m])]
      BY <2>2
    <2> DEFINE g == [m \in 0 .. x |-> IF m < x THEN f[m] ELSE AfterCall(f[x - 1], prog[x])]
    <2>4. \A m \in 0 .. x :
             g[m] = IF m = 0 THEN NothingWritten ELSE AfterCall(g[m - 1], prog[m])
      <3> SUFFICES ASSUME NEW m \in 0 .. x
                   PROVE  g[m] = IF m = 0 THEN NothingWritten ELSE AfterCall(g[m - 1], prog[m])
        OBVIOUS
      <3>1. m # 0 => m - 1 \in 0 .. x /\ m - 1 < x /\ g[m - 1] = f[m - 1]
        BY <2>1
      <3>2. CASE m < x
        <4>1. m \in 0 .. x - 1 /\ g[m] = f[m]
          BY <2>1, <3>2
        <4>2. f[m] = IF m = 0 THEN NothingWritten ELSE AfterCall(f[m - 1], prog[m])
          BY <2>3, <4>1
        <4> QED
          BY <3>1, <4>1, <4>2
      <3>3. CASE m = x
        <4>1. g[m] = AfterCall(f[x - 1], prog[x])
          BY <2>1, <3>3
        <4> QED
          BY <1>4, <3>1, <3>3, <4>1
      <3> QED
        BY <2>1, <3>2, <3>3
    <2>5. g = [m \in 0 .. x |-> IF m = 0 THEN NothingWritten ELSE AfterCall(g[m - 1], prog[m])]
      BY <2>4
    <2> HIDE DEF g
    <2>6. Solved(x)
      BY <2>5
    <2> QED
      BY <1>2, <2>6
  <1> QED
    BY <1>3, <1>4

\* Written is its recursion.
LEMMA WrittenIs ==
    ASSUME Len(prog) \in Nat
    PROVE  \A n \in 0 .. Len(prog) :
              Written[n] = IF n = 0 THEN NothingWritten ELSE AfterCall(Written[n - 1], prog[n])
  <1>1. \E f : f = [m \in 0 .. Len(prog) |->
                       IF m = 0 THEN NothingWritten ELSE AfterCall(f[m - 1], prog[m])]
    BY WrittenUpTo
  <1>2. Written = [n \in 0 .. Len(prog) |->
                      IF n = 0 THEN NothingWritten ELSE AfterCall(Written[n - 1], prog[n])]
    BY <1>1 DEF Written
  <1> QED
    BY <1>2

\* What a call adds and registers, one kind of call at a time.
LEMMA AfterCallIs ==
    ASSUME NEW w, NEW c
    PROVE  /\ c.op = "add" => AfterCall(w, c) = [w EXCEPT !.added = Append(w.added, c.fn)]
           /\ c.op = "register" =>
                 AfterCall(w, c) = [w EXCEPT !.registered = Append(w.registered, c.fn)]
           /\ c.op = "registerAll" =>
                 AfterCall(w, c) = [w EXCEPT !.registered = w.registered \o w.added]
  BY DEF AfterCall

\* The lists a handler writes are lists of compensation functions.
LEMMA WrittenTyped ==
    ASSUME TypeOK, NEW n \in 0 .. Len(prog)
    PROVE  Written[n] \in [added : Seq(CompensationFuncs), registered : Seq(CompensationFuncs)]
  <1> DEFINE L == [added : Seq(CompensationFuncs), registered : Seq(CompensationFuncs)]
  <1> DEFINE T == {k \in 0 .. Len(prog) : Written[k] \notin L}
  <1>1. Len(prog) \in Nat
    BY ProgLen DEF TypeOK
  <1>2. SUFFICES ASSUME T # {} PROVE FALSE
    OBVIOUS
  <1>3. PICK x \in T : \A y \in T : x <= y
    <2>1. T \subseteq Nat
      BY <1>1
    <2> QED
      BY <1>2, <2>1, Least
  <1>4. x \in 0 .. Len(prog) /\ Written[x] \notin L
    BY <1>3
  <1>5. x # 0
    <2>1. 0 \in 0 .. Len(prog) /\ Written[0] = NothingWritten
      BY <1>1, WrittenIs
    <2>2. NothingWritten \in L
      BY DEF NothingWritten
    <2> QED
      BY <1>4, <2>1, <2>2
  <1>6. x - 1 \in 0 .. Len(prog) /\ Written[x - 1] \in L
    BY <1>1, <1>3, <1>4, <1>5
  <1>7. Written[x] = AfterCall(Written[x - 1], prog[x])
    BY <1>1, <1>4, <1>5, WrittenIs
  <1>8. AfterCall(Written[x - 1], prog[x]) \in L
    <2> DEFINE w == Written[x - 1]
    <2>1. /\ prog[x].op \in {"add", "register", "registerAll"}
          /\ prog[x].op \in {"add", "register"} => prog[x].fn \in CompensationFuncs
      BY <1>1, <1>4, <1>5, ProgOps
    <2>2. w \in L /\ w.added \in Seq(CompensationFuncs) /\ w.registered \in Seq(CompensationFuncs)
      BY <1>6
    <2> HIDE DEF w
    <2>3. /\ prog[x].op = "add" => [w EXCEPT !.added = Append(w.added, prog[x].fn)] \in L
          /\ prog[x].op = "register" =>
                [w EXCEPT !.registered = Append(w.registered, prog[x].fn)] \in L
          /\ [w EXCEPT !.registered = w.registered \o w.added] \in L
      <3>1. \A s \in Seq(CompensationFuncs) :
               /\ [w EXCEPT !.added = s] \in L
               /\ [w EXCEPT !.registered = s] \in L
        BY <2>2
      <3>2. prog[x].op \in {"add", "register"} =>
               /\ Append(w.added, prog[x].fn) \in Seq(CompensationFuncs)
               /\ Append(w.registered, prog[x].fn) \in Seq(CompensationFuncs)
        BY <2>1, <2>2
      <3>3. w.registered \o w.added \in Seq(CompensationFuncs)
        BY <2>2
      <3> HIDE DEF L
      <3> QED
        BY <3>1, <3>2, <3>3
    <2>4. AfterCall(w, prog[x]) \in L
      BY <2>1, <2>3, AfterCallIs
    <2> QED
      BY <2>4 DEF w
  <1> QED
    BY <1>4, <1>7, <1>8

\* Between its calls the handler has added and registered what it has written; in
\* RegisterAll, what it had before and the saga's list up to the loop index.
AsWritten ==
    /\ pc \in {"handler", "loop"} => compensations = Written[ip - 1].added
    /\ pc = "handler" => stack = Written[ip - 1].registered
    /\ pc = "loop" =>
          /\ prog[ip].op = "registerAll"
          /\ stack = Written[ip - 1].registered \o SubSeq(compensations, 1, at - 1)

\* Written depends on the program alone.
LEMMA WrittenStays == prog' = prog => Written' = Written
  <1> SUFFICES ASSUME prog' = prog PROVE Written' = Written
    OBVIOUS
  <1>1. \A f, n : (IF n = 0 THEN NothingWritten ELSE AfterCall(f[n - 1], prog[n]))'
                  = IF n = 0 THEN NothingWritten ELSE AfterCall(f[n - 1], prog[n])
    OBVIOUS
  <1> QED
    BY DEF Written

\* What the call at ip adds to what is written before it.
LEMMA NextWritten ==
    ASSUME TypeOK, ip \in 1 .. Len(prog)
    PROVE  LET w == Written[ip - 1] IN
           /\ w.added \in Seq(CompensationFuncs) /\ w.registered \in Seq(CompensationFuncs)
           /\ prog[ip].op = "add" =>
                 /\ Written[ip].added = Append(w.added, prog[ip].fn)
                 /\ Written[ip].registered = w.registered
           /\ prog[ip].op = "register" =>
                 /\ Written[ip].added = w.added
                 /\ Written[ip].registered = Append(w.registered, prog[ip].fn)
           /\ prog[ip].op = "registerAll" =>
                 /\ Written[ip].added = w.added
                 /\ Written[ip].registered = w.registered \o w.added
  <1>1. Len(prog) \in Nat
    BY ProgLen DEF TypeOK
  <1>2. ip - 1 \in 0 .. Len(prog) /\ ip \in 0 .. Len(prog) /\ ip # 0
    BY <1>1
  <1>3. Written[ip] = AfterCall(Written[ip - 1], prog[ip])
    BY <1>1, <1>2, WrittenIs
  <1>4. Written[ip - 1] \in [added : Seq(CompensationFuncs), registered : Seq(CompensationFuncs)]
    BY <1>2, WrittenTyped
  <1>5. \A w \in [added : Seq(CompensationFuncs), registered : Seq(CompensationFuncs)] :
           \A s : /\ [w EXCEPT !.added = s].added = s
                  /\ [w EXCEPT !.added = s].registered = w.registered
                  /\ [w EXCEPT !.registered = s].added = w.added
                  /\ [w EXCEPT !.registered = s].registered = s
    OBVIOUS
  <1> DEFINE w == Written[ip - 1]
  <1>6. w.added \in Seq(CompensationFuncs) /\ w.registered \in Seq(CompensationFuncs)
    BY <1>4
  <1>7. /\ prog[ip].op = "add" =>
              Written[ip] = [w EXCEPT !.added = Append(w.added, prog[ip].fn)]
        /\ prog[ip].op = "register" =>
              Written[ip] = [w EXCEPT !.registered = Append(w.registered, prog[ip].fn)]
        /\ prog[ip].op = "registerAll" =>
              Written[ip] = [w EXCEPT !.registered = w.registered \o w.added]
    BY <1>3, AfterCallIs
  <1> QED
    BY <1>4, <1>5, <1>6, <1>7

\* The loop's last registration is the saga's next compensation.
LEMMA OneMoreRegistered ==
    ASSUME NEW S, NEW s \in Seq(S), NEW c \in Seq(S), NEW k \in 1 .. Len(c)
    PROVE  Append(s \o SubSeq(c, 1, k - 1), c[k]) = s \o SubSeq(c, 1, k)
  BY SMTT(60)

\* No run has called anything yet.
LEMMA InitAsWritten == Init => AsWritten
  <1> SUFFICES ASSUME Init PROVE AsWritten
    OBVIOUS
  <1>1. Len(prog) \in Nat /\ 0 \in 0 .. Len(prog)
    BY ProgLen DEF Init
  <1>2. Written[0] = NothingWritten
    BY <1>1, WrittenIs
  <1> QED
    BY <1>2 DEF Init, AsWritten, NothingWritten

\* A registration the engine takes adds its function at the end of the stack, whether
\* it is replayed or new; a step that ends the run is not concerned.
LEMMA NextAsWritten == IInv /\ AsWritten /\ [Next]_vars => AsWritten'
  <1> SUFFICES ASSUME IInv, AsWritten, [Next]_vars PROVE AsWritten'
    OBVIOUS
  <1>1. prog' = prog /\ Written' = Written
    <2>1. prog' = prog
      BY DEF Next, vars, AddCompensation, RegisterDirectly, RegisterAll, RegisterNext,
             RegisterRefused, RegisterAllReturns, HandlerFails, HandlerSucceeds, Compensate,
             RolledBack, Kill, Crash
    <2> QED
      BY <2>1, WrittenStays
  <1>2. TypeOK /\ Len(prog) \in Nat /\ ip \in Nat /\ at \in Nat
    BY ProgLen DEF IInv, TypeOK
  <1>3. CASE AddCompensation
    <2>1. /\ pc = "handler" /\ pc' = "handler" /\ ip' = ip + 1 /\ stack' = stack
          /\ ip \in 1 .. Len(prog) /\ prog[ip].op = "add"
          /\ compensations' = Append(compensations, prog[ip].fn)
      BY <1>2, <1>3 DEF AddCompensation, Calls, TypeOK, engine
    <2>2. ip' - 1 = ip
      BY <1>2, <2>1
    <2> QED
      BY <1>1, <1>2, <2>1, <2>2, NextWritten DEF AsWritten
  <1>4. CASE RegisterDirectly
    <2>1. /\ pc = "handler" /\ UNCHANGED compensations
          /\ ip \in 1 .. Len(prog) /\ prog[ip].op = "register"
      BY <1>2, <1>4 DEF RegisterDirectly, Calls, TypeOK
    <2>2. CASE RegisterCompensation(prog[ip].fn) /\ ip' = ip + 1 /\ UNCHANGED pc
      <3>1. ip' - 1 = ip /\ stack' = Append(stack, prog[ip].fn)
        BY <1>2, <2>2 DEF RegisterCompensation
      <3> QED
        BY <1>1, <1>2, <2>1, <2>2, <3>1, NextWritten DEF AsWritten
    <2>3. CASE pc' = "failed"
      BY <2>3 DEF AsWritten
    <2> QED
      BY <1>4, <2>2, <2>3 DEF RegisterDirectly
  <1>5. CASE RegisterAll
    <2>1. /\ pc = "handler" /\ pc' = "loop" /\ at' = 1 /\ UNCHANGED <<ip, compensations, stack>>
          /\ ip \in 1 .. Len(prog) /\ prog[ip].op = "registerAll"
      BY <1>2, <1>5 DEF RegisterAll, Calls, TypeOK, engine
    <2>2. SubSeq(compensations, 1, 0) = <<>>
      <3>1. 1 \in Int /\ 0 \in Int /\ 0 < 1
        OBVIOUS
      <3> QED
        BY <3>1, SubSeqEmpty
    <2>3. stack \o <<>> = stack
      BY <1>2, ConcatEmptySeq DEF TypeOK
    <2>4. at' - 1 = 0
      BY <2>1
    <2> QED
      BY <1>1, <2>1, <2>2, <2>3, <2>4 DEF AsWritten
  <1>6. CASE RegisterNext
    <2>1. /\ pc = "loop" /\ pc' = "loop" /\ at' = at + 1 /\ UNCHANGED <<ip, compensations>>
          /\ at \in 1 .. Len(compensations) /\ ip \in 1 .. Len(prog)
          /\ stack' = Append(stack, compensations[at])
      BY <1>2, <1>6 DEF RegisterNext, RegisterCompensation, Closure, IInv, TypeOK, IdsTrue
    <2>2. /\ stack = Written[ip - 1].registered \o SubSeq(compensations, 1, at - 1)
          /\ Written[ip - 1].registered \in Seq(CompensationFuncs)
          /\ compensations \in Seq(CompensationFuncs)
      BY <1>2, <2>1, NextWritten DEF AsWritten, TypeOK
    <2>3. stack' = Written[ip - 1].registered \o SubSeq(compensations, 1, at)
      BY <2>1, <2>2, OneMoreRegistered
    <2>4. at' - 1 = at
      BY <1>2, <2>1
    <2> QED
      BY <1>1, <2>1, <2>3, <2>4 DEF AsWritten
  <1>7. CASE RegisterAllReturns
    <2>1. /\ pc = "loop" /\ pc' = "handler" /\ ip' = ip + 1 /\ UNCHANGED <<compensations, stack>>
          /\ at - 1 = Len(compensations) /\ ip \in 1 .. Len(prog)
      BY <1>2, <1>7 DEF RegisterAllReturns, IInv, TypeOK, IdsTrue, engine
    <2>2. SubSeq(compensations, 1, Len(compensations)) = compensations
      BY <1>2, SubSeqFull DEF TypeOK
    <2>3. ip' - 1 = ip
      BY <1>2, <2>1
    <2> QED
      BY <1>1, <1>2, <2>1, <2>2, <2>3, NextWritten DEF AsWritten
  <1>8. CASE Crash
    <2>1. pc' = "handler" /\ ip' - 1 = 0 /\ compensations' = <<>> /\ stack' = <<>>
      BY <1>8 DEF Crash
    <2>2. Written[0] = NothingWritten
      BY <1>2, WrittenIs
    <2> QED
      BY <1>1, <2>1, <2>2 DEF AsWritten, NothingWritten
  <1>9. CASE RegisterRefused \/ HandlerFails \/ HandlerSucceeds \/ Compensate \/ RolledBack \/ Kill
    <2>1. pc' \notin {"handler", "loop"}
      BY <1>9 DEF RegisterRefused, HandlerFails, HandlerSucceeds, Compensate, RolledBack, Kill
    <2> QED
      BY <2>1 DEF AsWritten
  <1>10. CASE UNCHANGED vars
    BY <1>1, <1>10 DEF vars, engine, AsWritten
  <1> QED
    BY <1>3, <1>4, <1>5, <1>6, <1>7, <1>8, <1>9, <1>10 DEF Next

\* Between its calls the handler has registered exactly what it has written, in every
\* run, whatever became of the runs before.
THEOREM AsWrittenRegistered == Spec => []RegisteredAsWritten
  <1>1. AsWritten => RegisteredAsWritten
    BY DEF AsWritten, RegisteredAsWritten
  <1> QED
    BY <1>1, InitAsWritten, NextAsWritten, Invariance, PTL DEF Spec

------------------------------------------------------------------------------
(* The refinement.                                                         *)

\* A step of the saga, of the engine or of a crash is a step of the stack or leaves
\* it alone.
LEMMA StepImplements ==
    IInv /\ [Next]_vars => [Abstract!Next]_<<journal, undone, Phase>>
  <1> SUFFICES ASSUME IInv, [Next]_vars
               PROVE  Abstract!Next \/ UNCHANGED <<journal, undone, Phase>>
    OBVIOUS
  <1>1. ASSUME NEW fn \in CompensationFuncs, RegisterCompensation(fn),
               UNCHANGED undone, pc \in {"handler", "loop"}, pc' = pc
        PROVE  Abstract!Next \/ UNCHANGED <<journal, undone, Phase>>
    BY <1>1 DEF RegisterCompensation, Phase, Abstract!Next, Abstract!Push
  <1>2. CASE RegisterDirectly
    <2>1. CASE RegisterCompensation(prog[ip].fn)
      <3>1. prog[ip].fn \in CompensationFuncs
        BY <1>2, ProgOps, ProgLen DEF RegisterDirectly, Calls, IInv, TypeOK
      <3>2. CASE pc' = pc
        BY <1>1, <1>2, <2>1, <3>1, <3>2 DEF RegisterDirectly, Calls
      <3>3. CASE RefuseCompensation /\ pc' = "failed"
        BY <1>2, <3>3 DEF RegisterDirectly, Calls, RefuseCompensation, engine, Phase
      <3> QED
        BY <1>2, <3>2, <3>3 DEF RegisterDirectly
    <2>2. CASE ~RegisterCompensation(prog[ip].fn)
      BY <1>2, <2>2 DEF RegisterDirectly, Calls, RefuseCompensation, engine, Phase
    <2> QED
      BY <2>1, <2>2
  <1>3. CASE RegisterNext
    <2>1. compensations[at] \in CompensationFuncs
      BY <1>3 DEF RegisterNext, IInv, TypeOK, IdsTrue
    <2> QED
      BY <1>1, <1>3, <2>1 DEF RegisterNext, Closure
  <1>4. CASE HandlerFails
    BY <1>4 DEF HandlerFails, engine, Phase, Abstract!Next, Abstract!Rollback
  <1>5. CASE Compensate
    <2>1. /\ Begins(stack) /\ Len(stack) + Len(undone) = Len(journal)
          /\ stack \in Seq(CompensationFuncs) /\ undone \in Seq(CompensationFuncs)
          /\ journal \in Seq(CompensationFuncs) /\ Len(stack) >= 1
      BY <1>5 DEF Compensate, IInv, TypeOK, CaughtUp
    <2>2. stack[Len(stack)] = journal[Len(journal) - Len(undone)] /\ Len(undone) < Len(journal)
      BY <2>1 DEF Begins
    <2> QED
      BY <1>5, <2>2 DEF Compensate, Phase, Abstract!Next, Abstract!Undo
  <1>6. CASE HandlerSucceeds \/ Kill
    BY <1>6 DEF HandlerSucceeds, Kill, engine, Phase, Abstract!Next, Abstract!Close
  <1>7. CASE RolledBack
    <2>1. Len(undone) = Len(journal)
      BY <1>7 DEF RolledBack, IInv, TypeOK, CaughtUp
    <2> QED
      BY <1>7, <2>1 DEF RolledBack, engine, Phase, Abstract!Next, Abstract!Close
  <1>8. CASE AddCompensation \/ RegisterAll \/ RegisterRefused \/ RegisterAllReturns
    BY <1>8 DEF AddCompensation, RegisterAll, RegisterRefused, RegisterAllReturns, Calls,
                RefuseCompensation, engine, Phase
  <1>9. CASE Crash \/ UNCHANGED vars
    BY <1>9 DEF Crash, vars, engine, Phase
  <1> QED
    BY <1>2, <1>3, <1>4, <1>5, <1>6, <1>7, <1>8, <1>9 DEF Next

\* Runs of a handler that fail, crash and are killed anywhere implement the stack:
\* what is undone is the journal from its end, each entry once.
THEOREM Implements == Spec => ImplementsCompensationStack
  <1>1. Init => Abstract!Init
    BY DEF Init, Phase, Abstract!Init
  <1> QED
    BY <1>1, StepImplements, Invariance, PTL DEF Spec, ImplementsCompensationStack, Abstract!Spec
=============================================================================
