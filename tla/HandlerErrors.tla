---------------------------- MODULE HandlerErrors ----------------------------
(***************************************************************************)
(* The errors a handler meets, as errors.Is sees them (sdk/ctx.go,         *)
(* call.go, send.go, combinator.go, awakeable.go).  An error is the chain  *)
(* of the values that %w wraps, the outermost first; a text is no part of  *)
(* the chain.                                                              *)
(***************************************************************************)
EXTENDS Sequences

Kinds == {"wrapError", "cancelledError", "killedError", "CallFailedError", "SendFailedError",
          "DelayedSendFailedError", "CombinatorError", "AwakeableRejectionError", "errorString"}

Sentinels == {"ErrCancelled", "ErrKilled", "ErrCallFailed", "ErrSendFailed",
              "ErrDelayedSendFailed", "ErrCombinatorFailed"}

\* Mutant of killedIs: the Is method of killedError is that of cancelledError.
killedIsCancelled(target) == target = "ErrCancelled"

\* The Is methods.  The other kinds have none, and no sentinel.
cancelledIs(target) == target = "ErrCancelled"
killedIs(target) == target = "ErrKilled"
CallFailedIs(target) == target = "ErrCallFailed"
SendFailedIs(target) == target = "ErrSendFailed"
DelayedSendFailedIs(target) == target = "ErrDelayedSendFailed"
CombinatorIs(target) == target = "ErrCombinatorFailed"

Is(kind, target) ==
    \/ kind = "cancelledError" /\ cancelledIs(target)
    \/ kind = "killedError" /\ killedIs(target)
    \/ kind = "CallFailedError" /\ CallFailedIs(target)
    \/ kind = "SendFailedError" /\ SendFailedIs(target)
    \/ kind = "DelayedSendFailedError" /\ DelayedSendFailedIs(target)
    \/ kind = "CombinatorError" /\ CombinatorIs(target)

\* errors.Is
errorsIs(err, target) == \E i \in DOMAIN err : Is(err[i], target)

\* fmt.Errorf with %w
Wrap(err) == <<"wrapError">> \o err

\* Mutant of NewCallFailedError: it keeps the callee's error and unwraps to it.
NewCallFailedErrorWrapping(callee) == <<"CallFailedError">> \o callee

\* The constructors take the text of the error they report (Cause, Message).
NewCallFailedError(callee) == <<"CallFailedError">>
NewSendFailedError(cause) == <<"SendFailedError">>
NewDelayedSendFailedError(cause) == <<"DelayedSendFailedError">>
NewCombinatorError(cause) == <<"CombinatorError">>
NewAwakeableRejectionError(cause) == <<"AwakeableRejectionError">>
==============================================================================
