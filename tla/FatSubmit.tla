------------------------------ MODULE FatSubmit ------------------------------
(***************************************************************************)
(* SubmitResult of sdk/fat.go: the terminal append of a fat-mode worker,   *)
(* fenced by Nats-Expected-Last-Subject-Sequence, against the JetStream    *)
(* stream TENAX_JOURNAL.                                                   *)
(*                                                                         *)
(* The callers are the most general ones: a worker may call SubmitResult   *)
(* for any invocation with any sequence number the stream has handed out,  *)
(* current, stale or of another subject.  (FatDispatch restricts them.)    *)
(* The engine appends its own entries between the workers' steps.          *)
(*                                                                         *)
(* A publish is a request: the message travels to the stream, the stream   *)
(* compares and appends, the answer travels back.  Each attempt has a      *)
(* deadline (fatSubmitTimeout), and the client gives up on it at any time: *)
(* before the message was handled, after it was handled, or never having   *)
(* left.  A message stays in net until the stream handles it, which may be *)
(* never (lost) or after later attempts, after the call has returned, or   *)
(* after the worker has crashed (late).                                    *)
(***************************************************************************)
EXTENDS FatErrors, Naturals, Sequences

CONSTANTS
    Workers,        \* the fat-mode worker processes
    Engine,         \* the author of the entries no worker has appended
    Invs,           \* invocation ids; one journal subject each (subjectForInv)
    LocalErrs,      \* the errors js.Publish returns by itself, without an answer
    MaxAttempts,    \* fatMaxAttempts
    MaxSeq,         \* bound: the engine appends while the stream is shorter
    MaxCalls        \* bound: SubmitResult calls per worker

ASSUME EngineAssumption == Engine \notin Workers
ASSUME LocalErrsAssumption ==
    /\ LocalErrs \subseteq Errors
    /\ \A e \in LocalErrs : ~isFatConflict(e)
ASSUME BoundsAssumption ==
    MaxAttempts \in Nat \ {0} /\ MaxSeq \in Nat /\ MaxCalls \in Nat

VARIABLES
    log,        \* the stream: entries of all subjects, at index = sequence
    last,       \* last[i]: last sequence on the subject of i, 0 if none
    net,        \* publishes sent and not yet handled by the stream
    reply,      \* reply[w]: the stream's answer to the attempt w waits for
    pc,         \* pc[w]: where w is in SubmitResult, "idle" outside it
    call,       \* call[w]: how many calls w has made, the number of the current
    arg,        \* arg[w]: the parameters of the current (or last) call
    attempt,    \* attempt[w]: publishes made by the current call
    ret         \* ret[w]: what the last call returned

stream == <<log, last, net>>
client == <<pc, call, arg, attempt, ret>>
vars == <<log, last, net, reply, pc, call, arg, attempt, ret>>

------------------------------------------------------------------------------
EntryTypes == {"Start", "Step", "Output", "Error"}
Terminal   == {"Output", "Error"}

\* who and call identify the SubmitResult call that wrote the entry.
Entry == [inv : Invs, type : EntryTypes, who : Workers \cup {Engine}, call : Nat]

Publishes == [who : Workers, call : Nat, attempt : Nat, inv : Invs, expect : Nat]

Replies == [tag : {"none", "ack", "nack"}, seq : Nat]
NoReply == [tag |-> "none", seq |-> 0]

\* "ok" stands for a nil error, "substrate" for the unwrapped publish error;
\* "none" while the call runs, and for a process that has not called yet.
Outcomes == {"none", "ok", "usage", "conflict", "substrate", "timeout"}
Returns  == [err : Outcomes, seq : Nat]
NoReturn == [err |-> "none", seq |-> 0]

Init ==
    /\ log = <<>>
    /\ last = [i \in Invs |-> 0]
    /\ net = {}
    /\ reply = [w \in Workers |-> NoReply]
    /\ pc = [w \in Workers |-> "idle"]
    /\ call = [w \in Workers |-> 0]
    /\ arg \in {[w \in Workers |-> [inv |-> i, expectedLast |-> 0]] : i \in Invs}
    /\ attempt = [w \in Workers |-> 0]
    /\ ret = [w \in Workers |-> NoReturn]

------------------------------------------------------------------------------
(* The stream and the engine (external).                                   *)

AppendEntry(e) ==
    /\ log' = Append(log, e)
    /\ last' = [last EXCEPT ![e.inv] = Len(log) + 1]

\* The engine writes a Start first and then steps, or the terminal Error.
EngineAppend(i, t) ==
    /\ Len(log) < MaxSeq
    /\ (t = "Start") <=> (last[i] = 0)
    /\ AppendEntry([inv |-> i, type |-> t, who |-> Engine, call |-> 0])
    /\ UNCHANGED <<net, reply, client>>

Awaited(m) ==
    pc[m.who] = "await" /\ call[m.who] = m.call /\ attempt[m.who] = m.attempt

\* The answer to an attempt its client no longer waits for is dropped.
Answer(m, r) ==
    reply' = IF Awaited(m) THEN [reply EXCEPT ![m.who] = r] ELSE reply

\* Nats-Expected-Last-Subject-Sequence holds: append, acknowledge.
StreamApply(m) ==
    /\ m \in net
    /\ last[m.inv] = m.expect
    /\ AppendEntry([inv |-> m.inv, type |-> "Output", who |-> m.who, call |-> m.call])
    /\ net' = net \ {m}
    /\ Answer(m, [tag |-> "ack", seq |-> Len(log) + 1])
    /\ UNCHANGED client

\* It does not: wrong last sequence.
StreamReject(m) ==
    /\ m \in net
    /\ last[m.inv] # m.expect
    /\ net' = net \ {m}
    /\ Answer(m, [tag |-> "nack", seq |-> 0])
    /\ UNCHANGED <<log, last, client>>

------------------------------------------------------------------------------
(* SubmitResult.                                                           *)

Return(w, err, seq) ==
    /\ pc' = [pc EXCEPT ![w] = "idle"]
    /\ ret' = [ret EXCEPT ![w] = [err |-> err, seq |-> seq]]

EnterCall(w, i, f) ==
    /\ pc[w] = "idle"
    /\ call[w] < MaxCalls
    /\ call' = [call EXCEPT ![w] = @ + 1]
    /\ arg' = [arg EXCEPT ![w] = [inv |-> i, expectedLast |-> f]]
    /\ attempt' = [attempt EXCEPT ![w] = 0]

\* expectedLast = 0: rejected before anything is sent.
SubmitUsage(w, i, f) ==
    /\ EnterCall(w, i, f)
    /\ f = 0
    /\ Return(w, "usage", 0)
    /\ UNCHANGED <<stream, reply>>

\* Mutant of SubmitBegin: the guard against expectedLast = 0 is missing.
SubmitBeginUnguarded(w, i, f) ==
    /\ EnterCall(w, i, f)
    /\ pc' = [pc EXCEPT ![w] = "loop"]
    /\ ret' = [ret EXCEPT ![w] = NoReturn]
    /\ UNCHANGED <<stream, reply>>

\* The entry is built (both marshal calls are total on these types, their
\* error returns are dead) and the retry loop is entered.
SubmitBegin(w, i, f) ==
    /\ EnterCall(w, i, f)
    /\ f # 0
    /\ pc' = [pc EXCEPT ![w] = "loop"]
    /\ ret' = [ret EXCEPT ![w] = NoReturn]
    /\ UNCHANGED <<stream, reply>>

SubmitResult(w, i, f) == SubmitUsage(w, i, f) \/ SubmitBegin(w, i, f)

Message(w, f) ==
    [who |-> w, call |-> call[w], attempt |-> attempt[w] + 1,
     inv |-> arg[w].inv, expect |-> f]

\* Mutants of Publish: each attempt re-reads the fence; the loop has no limit;
\* the attempts are not counted.
PublishFreshFence(w) ==
    /\ pc[w] = "loop"
    /\ attempt[w] < MaxAttempts
    /\ attempt' = [attempt EXCEPT ![w] = @ + 1]
    /\ net' = net \cup {Message(w, last[arg[w].inv])}
    /\ pc' = [pc EXCEPT ![w] = "await"]
    /\ UNCHANGED <<log, last, reply, call, arg, ret>>

PublishOneTooMany(w) ==
    /\ pc[w] = "loop"
    /\ attempt[w] <= MaxAttempts
    /\ attempt' = [attempt EXCEPT ![w] = @ + 1]
    /\ net' = net \cup {Message(w, arg[w].expectedLast)}
    /\ pc' = [pc EXCEPT ![w] = "await"]
    /\ UNCHANGED <<log, last, reply, call, arg, ret>>

PublishUncounted(w) ==
    /\ pc[w] = "loop"
    /\ net' = net \cup {Message(w, arg[w].expectedLast)}
    /\ pc' = [pc EXCEPT ![w] = "await"]
    /\ UNCHANGED <<log, last, reply, call, arg, attempt, ret>>

\* One iteration of the loop: js.Publish with the same expectedLast.
Publish(w) ==
    /\ pc[w] = "loop"
    /\ attempt[w] < MaxAttempts
    /\ attempt' = [attempt EXCEPT ![w] = @ + 1]
    /\ net' = net \cup {Message(w, arg[w].expectedLast)}
    /\ pc' = [pc EXCEPT ![w] = "await"]
    /\ UNCHANGED <<log, last, reply, call, arg, ret>>

\* js.Publish returned an ack.
PublishAcked(w) ==
    /\ pc[w] = "await"
    /\ reply[w].tag = "ack"
    /\ Return(w, "ok", reply[w].seq)
    /\ reply' = [reply EXCEPT ![w] = NoReply]
    /\ UNCHANGED <<stream, call, arg, attempt>>

\* The errors js.Publish can return at this point: the broker's refusal once it
\* has arrived, or at any time an error of its own (deadline, connection).
PubErrs(w) ==
    LocalErrs \cup (IF reply[w].tag = "nack" THEN {WrongLastSequence} ELSE {})

\* Mutant of PublishConflict: a conflict on a retry is taken for the trace of an
\* own earlier attempt.
PublishConflictAssumeOwn(w, e) ==
    /\ pc[w] = "await"
    /\ isFatConflict(e)
    /\ IF attempt[w] > 1
         THEN Return(w, "ok", last[arg[w].inv])
         ELSE Return(w, "conflict", 0)
    /\ reply' = [reply EXCEPT ![w] = NoReply]
    /\ UNCHANGED <<stream, call, arg, attempt>>

PublishConflict(w, e) ==
    /\ pc[w] = "await"
    /\ isFatConflict(e)
    /\ Return(w, "conflict", 0)
    /\ reply' = [reply EXCEPT ![w] = NoReply]
    /\ UNCHANGED <<stream, call, arg, attempt>>

PublishFailed(w, e) ==
    /\ pc[w] = "await"
    /\ ~isFatConflict(e)
    /\ ~isFatTransient(e)
    /\ Return(w, "substrate", 0)
    /\ reply' = [reply EXCEPT ![w] = NoReply]
    /\ UNCHANGED <<stream, call, arg, attempt>>

\* Transient: the next iteration, with the same expectedLast.
PublishRetry(w, e) ==
    /\ pc[w] = "await"
    /\ isFatTransient(e)
    /\ pc' = [pc EXCEPT ![w] = "loop"]
    /\ reply' = [reply EXCEPT ![w] = NoReply]
    /\ UNCHANGED <<stream, call, arg, attempt, ret>>

\* Mutant of SubmitExhausted: an exhausted budget is reported as a conflict.
SubmitExhaustedConflict(w) ==
    /\ pc[w] = "loop"
    /\ attempt[w] = MaxAttempts
    /\ Return(w, "conflict", 0)
    /\ UNCHANGED <<stream, reply, call, arg, attempt>>

\* The loop is exhausted: ErrFatTimeout.
SubmitExhausted(w) ==
    /\ pc[w] = "loop"
    /\ attempt[w] = MaxAttempts
    /\ Return(w, "timeout", 0)
    /\ UNCHANGED <<stream, reply, call, arg, attempt>>

\* The worker process dies inside a call and is started again.  Its calls stay
\* numbered: messages of the dead process are still under way.
Crash(w) ==
    /\ pc[w] # "idle"
    /\ pc' = [pc EXCEPT ![w] = "idle"]
    /\ ret' = [ret EXCEPT ![w] = NoReturn]
    /\ reply' = [reply EXCEPT ![w] = NoReply]
    /\ UNCHANGED <<stream, call, arg, attempt>>

\* The steps of a call in progress.
CallStep(w) ==
    \/ Publish(w)
    \/ PublishAcked(w)
    \/ \E e \in PubErrs(w) :
          PublishConflict(w, e) \/ PublishFailed(w, e) \/ PublishRetry(w, e)
    \/ SubmitExhausted(w)

StreamStep == \E m \in net : StreamApply(m) \/ StreamReject(m)

EngineStep == \E i \in Invs, t \in {"Start", "Step", "Error"} : EngineAppend(i, t)

Next ==
    \/ EngineStep
    \/ StreamStep
    \/ \E w \in Workers :
          \/ \E i \in Invs, f \in 0 .. Len(log) : SubmitResult(w, i, f)
          \/ CallStep(w)
          \/ Crash(w)

\* A goroutine inside SubmitResult keeps running: every wait in it ends at the
\* latest with the attempt's deadline.  The stream owes nobody anything.
Fairness == \A w \in Workers : WF_vars(CallStep(w))

Spec == Init /\ [][Next]_vars
FairSpec == Spec /\ Fairness

------------------------------------------------------------------------------
(* Properties.                                                             *)

\* The type of every variable: the stream is a sequence of entries, each worker
\* is at one place of SubmitResult, sequence numbers are naturals.
TypeOK ==
    /\ log \in Seq(Entry)
    /\ last \in [Invs -> Nat]
    /\ net \in SUBSET Publishes
    /\ reply \in [Workers -> Replies]
    /\ pc \in [Workers -> {"idle", "loop", "await"}]
    /\ call \in [Workers -> Nat]
    /\ arg \in [Workers -> [inv : Invs, expectedLast : Nat]]
    /\ attempt \in [Workers -> 0 .. MaxAttempts]
    /\ ret \in [Workers -> Returns]

WrittenBy(n, w, c) == log[n].who = w /\ log[n].call = c

\* "Idempotent because the CAS fence prevents double-apply" (fat.go:298): the
\* publishes of one SubmitResult call, its retries and those the stream handles
\* late included, append at most one entry between them.
CallAppliedOnce ==
    \A n, k \in 1 .. Len(log) :
        /\ log[n].who \in Workers
        /\ WrittenBy(k, log[n].who, log[n].call)
        => n = k

\* A nil error is the truth (fat.go:305): the entry at the returned sequence is
\* the caller's own Output, and no entry of the invocation lies between it and
\* the fence the caller passed, so nothing was journaled behind its back.
AckedIsOwnEntry ==
    \A w \in Workers : ret[w].err = "ok" =>
        LET s == ret[w].seq IN
        /\ s \in 1 .. Len(log)
        /\ WrittenBy(s, w, call[w]) /\ log[s].type = "Output"
        /\ log[s].inv = arg[w].inv
        /\ arg[w].expectedLast < s
        /\ \A n \in arg[w].expectedLast + 1 .. s - 1 : log[n].inv # arg[w].inv

\* A call is settled when its result says for certain what became of it.
Settled(w) == pc[w] = "idle" /\ ret[w].err \in {"ok", "conflict", "usage"}

\* After a nil error, ErrFatConflict or ErrFatUsage no publish of that call that
\* is still under way is ever applied: what the caller was told stays true.
\* (ErrFatTimeout and a substrate error promise nothing of the kind.)
SettledStaysSettled ==
    [][\A w \in Workers :
          Settled(w) /\ call'[w] = call[w] /\ log' # log
          => ~(log'[Len(log')].who = w /\ log'[Len(log')].call = call[w])]_vars

\* "At least one prior journal entry (Start) must exist" (fat.go:264): whatever
\* the callers do, no journal begins with an Output.
JournalBeginsWithStart ==
    \A n \in 1 .. Len(log) :
        log[n].type = "Start" \/ \E k \in 1 .. n - 1 : log[k].inv = log[n].inv

\* The submissions that may yet take effect: those of the calls in progress and of
\* the publishes under way, while the stream is still at their fence.
Open ==
    {o \in {[who |-> m.who, call |-> m.call, inv |-> m.inv, expect |-> m.expect] : m \in net}
           \cup {[who |-> w, call |-> call[w], inv |-> arg[w].inv,
                  expect |-> arg[w].expectedLast] : w \in {v \in Workers : pc[v] # "idle"}} :
        last[o.inv] = o.expect}

Fenced == INSTANCE FencedLog WITH open <- Open

\* "Each attempt uses a fresh short-deadline context; same expectedLast across
\* attempts (idempotent because the CAS fence prevents double-apply)"
\* (fat.go:296): up to three publishes, with their lost and late answers, are one
\* conditional append to their callers and to the journal.
ImplementsFencedLog == Fenced!Spec

\* The steps a call has left: two for each attempt, and the last return.
StepsLeft(w) ==
    CASE pc[w] = "idle"  -> 0
      [] pc[w] = "loop"  -> 2 * (MaxAttempts - attempt[w]) + 1
      [] pc[w] = "await" -> 2 * (MaxAttempts - attempt[w]) + 2

\* The retries run out (fat.go:298): each step a worker takes inside SubmitResult
\* leaves it fewer, and no step of the stream, the engine or another worker gives it
\* more.  With the fairness that it takes steps at all, every call returns.
RetriesRunOut ==
    [][\A w \in Workers : pc[w] # "idle" =>
          IF <<pc[w], attempt[w]>>' = <<pc[w], attempt[w]>>
          THEN ret'[w] = ret[w] ELSE StepsLeft(w)' < StepsLeft(w)]_vars

\* Every SubmitResult call returns (or its process dies), however the broker and
\* the network behave: three attempts, each with its own deadline.
CallReturns == \A w \in Workers : (pc[w] # "idle") ~> (pc[w] = "idle")
==============================================================================
