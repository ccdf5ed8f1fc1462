------------------------------ MODULE FencedLog ------------------------------
(***************************************************************************)
(* What SubmitResult promises its callers (sdk/fat.go:239-255, 296-314),   *)
(* without attempts, messages and acknowledgements: a submission is one    *)
(* conditional append.  It takes effect at most once, while the journal    *)
(* of its invocation still ends at the fence; any entry of the invocation  *)
(* closes it for good.  The caller may stop waiting before that is known,  *)
(* and is told nothing that is not so.                                     *)
(***************************************************************************)
EXTENDS Naturals, Sequences

CONSTANTS Workers, Engine, Invs

VARIABLES
    log,        \* the entries of all journals, at index = sequence
    call, arg,  \* the number and the parameters of each worker's last submission
    ret,        \* what it was told of it
    open        \* the submissions that may yet take effect

Init ==
    /\ log = <<>>
    /\ call = [w \in Workers |-> 0]
    /\ \E i \in Invs : arg = [w \in Workers |-> [inv |-> i, expectedLast |-> 0]]
    /\ ret = [w \in Workers |-> [err |-> "none", seq |-> 0]]
    /\ open = {}

\* The journal of i ends at sequence f.
EndsAt(i, f) ==
    /\ f \in 1 .. Len(log)
    /\ log[f].inv = i
    /\ \A n \in f + 1 .. Len(log) : log[n].inv # i

\* An entry closes every submission for its invocation.
Journal(e) ==
    /\ log' = Append(log, e)
    /\ open' = {o \in open : o.inv # e.inv}
    /\ UNCHANGED <<call, arg, ret>>

EngineEntry ==
    \E i \in Invs, t \in {"Start", "Step", "Error"} :
        Journal([inv |-> i, type |-> t, who |-> Engine, call |-> 0])

TakesEffect ==
    \E o \in open :
        Journal([inv |-> o.inv, type |-> "Output", who |-> o.who, call |-> o.call])

\* A submission without a fence is refused, one whose fence is stale never opens.
Submit(w) ==
    \E i \in Invs, f \in 0 .. Len(log) :
        /\ call' = [call EXCEPT ![w] = @ + 1]
        /\ arg' = [arg EXCEPT ![w] = [inv |-> i, expectedLast |-> f]]
        /\ ret' = [ret EXCEPT ![w] = [err |-> IF f = 0 THEN "usage" ELSE "none", seq |-> 0]]
        /\ open' = open \cup {o \in {[who |-> w, call |-> call[w] + 1, inv |-> i, expect |-> f]} :
                                 EndsAt(i, f)}
        /\ UNCHANGED log

\* What w is told: its entry is in the journal, next after the fence; or the
\* journal has moved and the submission is closed; or neither is claimed.
TrueOf(w, r) ==
    \/ /\ r.err = "ok"
       /\ r.seq \in arg[w].expectedLast + 1 .. Len(log)
       /\ log[r.seq] = [inv |-> arg[w].inv, type |-> "Output", who |-> w, call |-> call[w]]
       /\ \A n \in arg[w].expectedLast + 1 .. r.seq - 1 : log[n].inv # arg[w].inv
    \/ /\ r = [err |-> "conflict", seq |-> 0]
       /\ ~EndsAt(arg[w].inv, arg[w].expectedLast)
    \/ r \in [err : {"substrate", "timeout", "none"}, seq : {0}]

\* The caller returns or dies; a submission nobody pursues any more may be closed.
Leave(w) ==
    /\ ret[w].err = "none"
    /\ TrueOf(w, ret'[w])
    /\ ret' = [ret EXCEPT ![w] = ret'[w]]
    /\ open' \in {open, {o \in open : o.who # w \/ o.call # call[w]}}
    /\ UNCHANGED <<log, call, arg>>

Next == EngineEntry \/ TakesEffect \/ \E w \in Workers : Submit(w) \/ Leave(w)

Spec == Init /\ [][Next]_<<log, call, arg, ret, open>>
==============================================================================
