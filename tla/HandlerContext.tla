--------------------------- MODULE HandlerContext ----------------------------
(***************************************************************************)
(* The durable promises of a handler (sdk/awakeable.go) and the errors its *)
(* operations end with, against the engine's context.                      *)
(*                                                                         *)
(* A promise carries its completion twice: in the function that Await      *)
(* calls, and as the completion id a combinator builds its leaves from.    *)
(* The context is external (declared in sdk/ctx.go): it allocates ids from *)
(* 0, the same ones in every run of the handler, completions are durable,  *)
(* and an operation of a signalled invocation fails.                       *)
(***************************************************************************)
EXTENDS HandlerErrors, Naturals

CONSTANTS
    MaxPromises,    \* bound: promises a handler creates
    MaxRuns,        \* bound: runs of the handler
    MaxWraps        \* bound: layers a handler wraps around an error

ASSUME HandlerAssumption ==
    /\ MaxPromises \in Nat          \* within a uint32
    /\ MaxRuns \in Nat \ {0} /\ MaxWraps \in Nat

VARIABLES
    stub,           \* is the context a stub, whose promises are not bound (tests)
    run,            \* the handler's runs so far
    promises,       \* the PromiseValues of this run, in the order of their creation
    completions,    \* completions[id]: "pending", "resolved" or "rejected", durable
    signal,         \* "none", "cancel" or "kill": what the invocation has received
    err,            \* the error the handler has in hand, <<>> for nil
    cause,          \* where that error came from (history)
    told            \* the last result of an await in any run (history)

vars == <<stub, run, promises, completions, signal, err, cause, told>>

Ids == 0 .. MaxPromises - 1
NoFn == {}                      \* a nil awaitFn
Operations == {"Await", "Race", "AwaitAll", "AwaitFirstSucceeded", "AwaitAllSucceeded"}
NothingTold == [op |-> "none", of |-> {}, ok |-> TRUE]

Init ==
    /\ stub \in BOOLEAN
    /\ run = 1
    /\ promises = <<>>
    /\ completions = [id \in Ids |-> "pending"]
    /\ signal = "none"
    /\ err = <<>>
    /\ cause = "none"
    /\ told = NothingTold

Fail(chain, why) == err' = chain /\ cause' = why

------------------------------------------------------------------------------
(* PromiseValue.  awaitFn is the set of the completions the function waits  *)
(* for, one or none.                                                        *)

NewPromise(fn) == [awaitFn |-> fn, completionID |-> 0]

\* Mutants of NewPromiseWithID: the id, or the function, is not stored.
NewPromiseWithoutID(id, fn) == NewPromise(fn)
NewPromiseWithoutFn(id, fn) == [awaitFn |-> NoFn, completionID |-> id]
NewPromiseWithID(id, fn) == [awaitFn |-> fn, completionID |-> id]

\* Mutant of PromiseCompletionID: zero is taken for unset.
PromiseCompletionIDOrNone(p) == IF p.completionID = 0 THEN {} ELSE {p.completionID}

\* The leaf a promise becomes: its id, as it is.
PromiseCompletionID(p) == {p.completionID}

------------------------------------------------------------------------------
(* The engine (external).                                                  *)

Done(id) == completions[id] # "pending"
Resolved(id) == completions[id] = "resolved"
Rejected(id) == completions[id] = "rejected"

Complete(id, how) ==
    /\ ~Done(id)
    /\ completions' = [completions EXCEPT ![id] = how]
    /\ UNCHANGED <<stub, run, promises, signal, err, cause, told>>

\* A cancel can still become a kill.
Signalled(s) ==
    /\ signal = "none" \/ (signal = "cancel" /\ s = "kill")
    /\ signal' = s
    /\ UNCHANGED <<stub, run, promises, completions, err, cause, told>>

\* The process dies, or the handler returned a retryable error: it runs again.
Rerun ==
    /\ run < MaxRuns
    /\ run' = run + 1
    /\ promises' = <<>>
    /\ Fail(<<>>, "none")
    /\ UNCHANGED <<stub, completions, signal, told>>

------------------------------------------------------------------------------
(* The handler.  It calls the context while it has no error in hand.       *)

Free == err = <<>>
Live == Free /\ signal = "none" /\ ~stub
Operate == UNCHANGED <<stub, run, completions, signal>>

\* ctx.Awakeable: the next completion id, and the promise for it.
Awakeable ==
    /\ Free /\ signal = "none"
    /\ Len(promises) < MaxPromises
    /\ promises' = Append(promises, IF stub THEN NewPromise(NoFn)
                                    ELSE NewPromiseWithID(Len(promises), {Len(promises)}))
    /\ Operate
    /\ UNCHANGED <<err, cause, told>>

Tell(op, of, ok) ==
    /\ told' = [op |-> op, of |-> of, ok |-> ok]
    /\ IF ok THEN UNCHANGED <<err, cause>>
             ELSE Fail(NewAwakeableRejectionError("rejected"), "rejection")
    /\ Operate
    /\ UNCHANGED promises

\* Await calls the function, which returns when its completion is there.
Await(k) ==
    /\ Live
    /\ \E id \in promises[k].awaitFn : Done(id) /\ Tell("Await", {k}, Resolved(id))

\* A promise without a function: an error, at once.
AwaitUnbound(k) ==
    /\ Free
    /\ promises[k].awaitFn = NoFn
    /\ Fail(<<"errorString">>, "unbound")
    /\ Operate
    /\ UNCHANGED <<promises, told>>

\* The leaves of a combinator over the promises at the places of.
Leaves(of) == UNION {PromiseCompletionID(promises[k]) : k \in of}

\* Race and AwaitAny: the first completed; of nothing, an error.
Race(of) ==
    /\ Live
    /\ \/ of = {} /\ Fail(NewCombinatorError("unsupported"), "combinator")
                  /\ Operate /\ UNCHANGED <<promises, told>>
       \/ \E id \in Leaves(of) : Done(id) /\ Tell("Race", of, Resolved(id))

AwaitAll(of) ==
    /\ Live
    /\ \A id \in Leaves(of) : Done(id)
    /\ Tell("AwaitAll", of, TRUE)

AwaitFirstSucceeded(of) ==
    /\ Live
    /\ \/ (of = {} \/ \E id \in Leaves(of) : Resolved(id)) /\ Tell("AwaitFirstSucceeded", of, TRUE)
       \/ of # {} /\ (\A id \in Leaves(of) : Rejected(id)) /\ Tell("AwaitFirstSucceeded", of, FALSE)

AwaitAllSucceeded(of) ==
    /\ Live
    /\ \/ (\A id \in Leaves(of) : Resolved(id)) /\ Tell("AwaitAllSucceeded", of, TRUE)
       \/ (\E id \in Leaves(of) : Rejected(id)) /\ Tell("AwaitAllSucceeded", of, FALSE)

\* The operations that end with an error of their own: ctx.Call, whose callee may
\* itself have been cancelled or killed, ctx.Send, ctx.SendDelayed.
Dispatches ==
    /\ Live
    /\ \/ \E callee \in {<<"cancelledError">>, <<"killedError">>, <<"errorString">>} :
             Fail(NewCallFailedError(callee), "callee")
       \/ Fail(NewSendFailedError("ingress"), "send")
       \/ Fail(NewDelayedSendFailedError("wake"), "delayedSend")
    /\ Operate
    /\ UNCHANGED <<promises, told>>

\* CancelAware: the signals as a handler can ask for them.
Cancelled == signal = "cancel"
Killed == signal = "kill"

\* Every operation of a signalled invocation fails with the signal's error, and so
\* does a handler that asks.
Refused ==
    /\ Free
    /\ \/ Cancelled /\ Fail(<<"cancelledError">>, "cancel")
       \/ Killed /\ Fail(<<"killedError">>, "kill")
    /\ Operate
    /\ UNCHANGED <<promises, told>>

\* The handler wraps an error, or deals with it and goes on.
Handle ==
    /\ err # <<>>
    /\ \/ Len(err) <= MaxWraps /\ Fail(Wrap(err), cause)
       \/ Fail(<<>>, "none")
    /\ Operate
    /\ UNCHANGED <<promises, told>>

Next ==
    \/ \E id \in Ids, how \in {"resolved", "rejected"} : Complete(id, how)
    \/ \E s \in {"cancel", "kill"} : Signalled(s)
    \/ Rerun
    \/ Awakeable
    \/ \E k \in DOMAIN promises : Await(k) \/ AwaitUnbound(k)
    \/ \E of \in SUBSET DOMAIN promises :
          Race(of) \/ AwaitAll(of) \/ AwaitFirstSucceeded(of) \/ AwaitAllSucceeded(of)
    \/ Dispatches
    \/ Refused
    \/ Handle

Spec == Init /\ [][Next]_vars

------------------------------------------------------------------------------
\* The types; a promise is bound unless the context is a stub.
TypeOK ==
    /\ stub \in BOOLEAN
    /\ run \in 1 .. MaxRuns
    /\ promises \in Seq([awaitFn : IF stub THEN {NoFn} ELSE {{id} : id \in Ids},
                         completionID : Ids])
    /\ Len(promises) <= MaxPromises
    /\ completions \in [Ids -> {"pending", "resolved", "rejected"}]
    /\ signal \in {"none", "cancel", "kill"}
    /\ err \in Seq(Kinds) /\ Len(err) <= MaxWraps + 1
    /\ cause \in {"none", "rejection", "unbound", "combinator", "callee", "send",
                  "delayedSend", "cancel", "kill"}
    /\ told \in [op : Operations \cup {"none"}, of : SUBSET (1 .. MaxPromises), ok : BOOLEAN]

\* What became of the promises at the places of, by the completions that their
\* creation stands for: the k-th promise of every run is completion k - 1.
Fates(of) == {completions[k - 1] : k \in of}

\* A combinator and Await tell the same story (awakeable.go:58-60): what an
\* operation reported of some promises, the one with completion id 0 included, is
\* true of those very promises, and stays true when the handler runs again.
ToldIsTrue ==
    /\ told.op \in {"Await", "Race"} =>
           (IF told.ok THEN "resolved" ELSE "rejected") \in Fates(told.of)
    /\ told.op = "AwaitAll" => "pending" \notin Fates(told.of)
    /\ told.op = "AwaitFirstSucceeded" =>
           IF told.ok THEN told.of = {} \/ "resolved" \in Fates(told.of)
                      ELSE Fates(told.of) = {"rejected"}
    /\ told.op = "AwaitAllSucceeded" =>
           IF told.ok THEN Fates(told.of) \subseteq {"resolved"}
                      ELSE "rejected" \in Fates(told.of)

SentinelsOf(why) ==
    CASE why = "cancel" -> {"ErrCancelled"}
      [] why = "kill" -> {"ErrKilled"}
      [] why = "callee" -> {"ErrCallFailed"}
      [] why = "send" -> {"ErrSendFailed"}
      [] why = "delayedSend" -> {"ErrDelayedSendFailed"}
      [] why = "combinator" -> {"ErrCombinatorFailed"}
      [] OTHER -> {}

\* ErrCancelled and ErrKilled "MUST NOT be confused" (ctx.go:286, 292): however a
\* handler has wrapped an error, errors.Is finds the sentinel of what happened to
\* its own invocation and no other.  A callee that was cancelled or killed is a
\* failed call to its caller, and not a signal.
ErrorsAreTheirs == {t \in Sentinels : errorsIs(err, t)} = SentinelsOf(cause)
==============================================================================
