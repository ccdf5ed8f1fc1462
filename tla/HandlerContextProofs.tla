------------------------- MODULE HandlerContextProofs ------------------------
(***************************************************************************)
(* Proofs about HandlerContext, for any number of promises, runs and       *)
(* layers around an error.                                                 *)
(*                                                                         *)
(* The argument: the k-th promise of every run of the handler is bound to  *)
(* completion k - 1, in its function and in its id (PromisesBound), and a  *)
(* completion does not change once it is there; so what an operation told  *)
(* of some promises stays true.  An error's sentinels are those of its     *)
(* innermost value, since a wrapping adds none (WrapIs).                   *)
(***************************************************************************)
EXTENDS HandlerContext, TLAPS

\* Await and a combinator's leaf are about one completion.
PromisesBound ==
    ~stub => \A k \in DOMAIN promises : promises[k] = NewPromiseWithID(k - 1, {k - 1})

IInv ==
    /\ TypeOK
    /\ PromisesBound
    /\ ToldIsTrue
    /\ ErrorsAreTheirs

------------------------------------------------------------------------------
(* errors.Is.                                                              *)

\* A nil error is no sentinel.
LEMMA NilIs == ASSUME NEW t PROVE ~errorsIs(<<>>, t)
  BY DEF errorsIs

\* An error that wraps nothing is the sentinels of its own Is method.
LEMMA OneIs ==
    ASSUME NEW kind \in Kinds, NEW t PROVE errorsIs(<<kind>>, t) <=> Is(kind, t)
  BY DEF errorsIs

\* A wrapping adds no sentinel and hides none.
LEMMA WrapIs ==
    ASSUME NEW chain \in Seq(Kinds), NEW t
    PROVE  errorsIs(Wrap(chain), t) <=> errorsIs(chain, t)
  <1>1. /\ Len(Wrap(chain)) = Len(chain) + 1
        /\ Wrap(chain)[1] = "wrapError"
        /\ \A i \in 1 .. Len(chain) : Wrap(chain)[i + 1] = chain[i]
        /\ DOMAIN Wrap(chain) = 1 .. Len(Wrap(chain))
        /\ DOMAIN chain = 1 .. Len(chain) /\ Len(chain) \in Nat
    <2>1. /\ <<"wrapError">> \in Seq(Kinds) /\ Len(<<"wrapError">>) = 1
          /\ <<"wrapError">>[1] = "wrapError"
      BY DEF Kinds
    <2>2. Wrap(chain) \in Seq(Kinds) /\ Len(Wrap(chain)) = Len(chain) + 1
      BY <2>1 DEF Wrap
    <2>3. \A i \in 1 .. Len(chain) + 1 :
             Wrap(chain)[i] = IF i <= 1 THEN <<"wrapError">>[i] ELSE chain[i - 1]
      BY <2>1 DEF Wrap
    <2>4. Len(chain) \in Nat
      OBVIOUS
    <2>5. Wrap(chain)[1] = "wrapError"
      BY <2>1, <2>3, <2>4
    <2>6. \A i \in 1 .. Len(chain) : Wrap(chain)[i + 1] = chain[i]
      <3> SUFFICES ASSUME NEW i \in 1 .. Len(chain) PROVE Wrap(chain)[i + 1] = chain[i]
        OBVIOUS
      <3>1. i + 1 \in 1 .. Len(chain) + 1 /\ ~(i + 1 <= 1) /\ (i + 1) - 1 = i
        BY <2>4
      <3> QED
        BY <2>3, <3>1
    <2>7. \A q \in Seq(Kinds) : DOMAIN q = 1 .. Len(q)
      OBVIOUS
    <2> QED
      BY <2>2, <2>4, <2>5, <2>6, <2>7
  <1>2. ~Is("wrapError", t)
    BY DEF Is
  <1>3. \A i \in 1 .. Len(chain) + 1 : i = 1 \/ (i - 1 \in 1 .. Len(chain) /\ i = (i - 1) + 1)
    BY <1>1
  <1>4. \A i \in 1 .. Len(chain) : i + 1 \in 1 .. Len(chain) + 1
    BY <1>1
  <1>5. ASSUME NEW i \in DOMAIN Wrap(chain), Is(Wrap(chain)[i], t)
        PROVE  \E j \in DOMAIN chain : Is(chain[j], t)
    <2>1. i \in 1 .. Len(chain) + 1 /\ i # 1
      BY <1>1, <1>2, <1>5
    <2>2. i - 1 \in 1 .. Len(chain) /\ i = (i - 1) + 1
      BY <1>3, <2>1
    <2>3. Wrap(chain)[i] = chain[i - 1]
      BY <1>1, <2>2
    <2> QED
      BY <1>1, <1>5, <2>2, <2>3
  <1>6. ASSUME NEW j \in DOMAIN chain, Is(chain[j], t)
        PROVE  \E i \in DOMAIN Wrap(chain) : Is(Wrap(chain)[i], t)
    <2>1. j + 1 \in DOMAIN Wrap(chain) /\ Wrap(chain)[j + 1] = chain[j]
      BY <1>1, <1>4
    <2> QED
      BY <1>6, <2>1
  <1> QED
    BY <1>5, <1>6 DEF errorsIs

\* The errors an operation ends with, and their causes.
LEMMA FailIs ==
    ASSUME NEW kind \in Kinds, NEW why, Fail(<<kind>>, why),
           \/ kind = "cancelledError" /\ why = "cancel"
           \/ kind = "killedError" /\ why = "kill"
           \/ kind = "CallFailedError" /\ why = "callee"
           \/ kind = "SendFailedError" /\ why = "send"
           \/ kind = "DelayedSendFailedError" /\ why = "delayedSend"
           \/ kind = "CombinatorError" /\ why = "combinator"
           \/ kind = "AwakeableRejectionError" /\ why = "rejection"
           \/ kind = "errorString" /\ why = "unbound"
    PROVE  ErrorsAreTheirs'
  <1>1. err' = <<kind>> /\ cause' = why
    BY DEF Fail
  <1>2. \A t : errorsIs(err', t) <=> Is(kind, t)
    BY <1>1, OneIs
  <1>3. {t \in Sentinels : Is(kind, t)} = SentinelsOf(why)
    BY DEF Sentinels, Is, cancelledIs, killedIs, CallFailedIs, SendFailedIs, DelayedSendFailedIs,
       CombinatorIs, SentinelsOf
  <1> QED
    BY <1>1, <1>2, <1>3 DEF ErrorsAreTheirs, errorsIs, SentinelsOf

\* No error.
LEMMA NoErrorIs == ASSUME Fail(<<>>, "none") PROVE ErrorsAreTheirs'
  <1>1. err' = <<>> /\ cause' = "none"
    BY DEF Fail
  <1>2. \A t : ~errorsIs(err', t)
    BY <1>1, NilIs
  <1> QED
    BY <1>1, <1>2 DEF ErrorsAreTheirs, errorsIs, SentinelsOf

------------------------------------------------------------------------------
(* The engine's steps.                                                     *)

\* The first run of a handler satisfies the invariant.
LEMMA InitIInv == Init => IInv
  <1> SUFFICES ASSUME Init PROVE IInv
    OBVIOUS
  <1>1. TypeOK
    BY HandlerAssumption DEF Init, TypeOK, NothingTold, Operations
  <1>2. PromisesBound /\ ToldIsTrue
    BY DEF Init, PromisesBound, ToldIsTrue, NothingTold
  <1>3. ErrorsAreTheirs
    BY NilIs DEF Init, ErrorsAreTheirs, SentinelsOf
  <1> QED
    BY <1>1, <1>2, <1>3 DEF IInv

\* A completion that is there is not changed by another.
LEMMA CompleteIInv ==
    ASSUME IInv, NEW id \in Ids, NEW how \in {"resolved", "rejected"}, Complete(id, how)
    PROVE  IInv'
  <1>1. /\ completions[id] = "pending"
        /\ completions' = [completions EXCEPT ![id] = how]
        /\ UNCHANGED <<stub, run, promises, signal, err, cause, told>>
    BY DEF Complete, Done
  <1>2. TypeOK'
    BY <1>1 DEF IInv, TypeOK
  <1>3. PromisesBound' /\ ErrorsAreTheirs'
    BY <1>1 DEF IInv, PromisesBound, ErrorsAreTheirs, errorsIs
  <1>4. \A k \in told.of : k - 1 \in Ids
    BY HandlerAssumption DEF IInv, TypeOK, Ids
  <1>5. \A k \in told.of :
            completions[k - 1] # "pending" => completions'[k - 1] = completions[k - 1]
    BY <1>1, <1>4 DEF IInv, TypeOK
  <1>6. ToldIsTrue'
    BY <1>1, <1>5 DEF IInv, ToldIsTrue, Fates
  <1> QED
    BY <1>2, <1>3, <1>6 DEF IInv

\* A signal, and another run of the handler.
LEMMA SignalOrRerunIInv ==
    ASSUME IInv, Rerun \/ \E s \in {"cancel", "kill"} : Signalled(s)
    PROVE  IInv'
  <1>1. CASE Rerun
    <2>1. TypeOK'
      BY <1>1, HandlerAssumption DEF Rerun, Fail, IInv, TypeOK
    <2>2. PromisesBound'
      BY <1>1 DEF Rerun, PromisesBound
    <2>3. ToldIsTrue'
      BY <1>1 DEF Rerun, IInv, ToldIsTrue, Fates
    <2>4. ErrorsAreTheirs'
      BY <1>1, NoErrorIs DEF Rerun
    <2> QED
      BY <2>1, <2>2, <2>3, <2>4 DEF IInv
  <1>2. ASSUME NEW s \in {"cancel", "kill"}, Signalled(s)
        PROVE  IInv'
    <2>1. signal' = s /\ UNCHANGED <<stub, run, promises, completions, err, cause, told>>
      BY <1>2 DEF Signalled
    <2>2. TypeOK'
      BY <2>1 DEF IInv, TypeOK
    <2>3. PromisesBound' /\ ErrorsAreTheirs'
      BY <2>1 DEF IInv, PromisesBound, ErrorsAreTheirs, errorsIs
    <2>4. ToldIsTrue'
      BY <2>1 DEF IInv, ToldIsTrue, Fates
    <2> QED
      BY <2>2, <2>3, <2>4 DEF IInv
  <1> QED
    BY <1>1, <1>2

------------------------------------------------------------------------------
(* The handler's steps.                                                    *)

\* A new promise is bound to the next completion.
LEMMA AwakeableIInv == ASSUME IInv, Awakeable PROVE IInv'
  <1> DEFINE p == IF stub THEN NewPromise(NoFn)
                          ELSE NewPromiseWithID(Len(promises), {Len(promises)})
             T == [awaitFn : IF stub THEN {NoFn} ELSE {{id} : id \in Ids}, completionID : Ids]
  <1>1. /\ promises' = Append(promises, p) /\ Len(promises) < MaxPromises
        /\ UNCHANGED <<stub, run, completions, signal, err, cause, told>>
    BY DEF Awakeable, Operate
  <1>2. promises \in Seq(T) /\ Len(promises) \in Nat
    BY DEF IInv, TypeOK
  <1>3. Len(promises) \in Ids /\ 0 \in Ids
    BY <1>1, <1>2, HandlerAssumption DEF Ids
  <1>4. p \in T
    <2>1. CASE stub
      BY <1>3, <2>1 DEF NewPromise
    <2>2. CASE ~stub
      BY <1>3, <2>2 DEF NewPromiseWithID
    <2> QED
      BY <2>1, <2>2
  <1> HIDE DEF p, T
  <1>5. /\ promises' \in Seq(T) /\ Len(promises') = Len(promises) + 1
        /\ \A k \in 1 .. Len(promises) : promises'[k] = promises[k]
        /\ promises'[Len(promises) + 1] = p
    BY <1>1, <1>2, <1>4
  <1>6. T' = T
    BY <1>1 DEF T, Ids
  <1>7. TypeOK'
    BY <1>1, <1>2, <1>5, <1>6, HandlerAssumption DEF T, IInv, TypeOK
  <1>8. PromisesBound'
    <2>1. ASSUME ~stub, NEW k \in 1 .. Len(promises) + 1
          PROVE  promises'[k] = NewPromiseWithID(k - 1, {k - 1})
      <3>1. CASE k \in 1 .. Len(promises)
        <4>1. k \in DOMAIN promises /\ promises'[k] = promises[k]
          BY <1>2, <1>5, <3>1
        <4>2. promises[k] = NewPromiseWithID(k - 1, {k - 1})
          BY <2>1, <4>1 DEF IInv, PromisesBound
        <4> QED
          BY <4>1, <4>2
      <3>2. CASE k = Len(promises) + 1
        <4>1. Len(promises) = k - 1
          BY <1>2, <3>2
        <4>2. promises'[k] = NewPromiseWithID(Len(promises), {Len(promises)})
          BY <1>5, <2>1, <3>2 DEF p
        <4> QED
          BY <4>1, <4>2
      <3> QED
        BY <1>2, <3>1, <3>2
    <2>2. DOMAIN promises' = 1 .. Len(promises) + 1
      BY <1>5
    <2>3. stub' = stub
      BY <1>1
    <2> QED
      BY <2>1, <2>2, <2>3 DEF PromisesBound
  <1>9. ToldIsTrue' /\ ErrorsAreTheirs'
    BY <1>1 DEF IInv, ToldIsTrue, Fates, ErrorsAreTheirs, errorsIs
  <1> QED
    BY <1>7, <1>8, <1>9 DEF IInv

\* An operation that ends with an error of its own.
LEMMA FailIInv ==
    ASSUME IInv, Operate, UNCHANGED <<promises, told>>,
           NEW kind \in Kinds, NEW why, Fail(<<kind>>, why),
           \/ kind = "cancelledError" /\ why = "cancel"
           \/ kind = "killedError" /\ why = "kill"
           \/ kind = "CallFailedError" /\ why = "callee"
           \/ kind = "SendFailedError" /\ why = "send"
           \/ kind = "DelayedSendFailedError" /\ why = "delayedSend"
           \/ kind = "CombinatorError" /\ why = "combinator"
           \/ kind = "errorString" /\ why = "unbound"
    PROVE  IInv'
  <1>1. ErrorsAreTheirs'
    BY FailIs
  <1>2. err' \in Seq(Kinds) /\ Len(err') = 1 /\ cause' = why
    BY DEF Fail
  <1>3. TypeOK'
    BY <1>2, HandlerAssumption DEF Operate, IInv, TypeOK
  <1>4. PromisesBound' /\ ToldIsTrue'
    BY DEF Operate, IInv, PromisesBound, ToldIsTrue, Fates
  <1> QED
    BY <1>1, <1>3, <1>4 DEF IInv

\* The leaves of a combinator are the completions of its promises.
LEMMA LeavesAre ==
    ASSUME IInv, ~stub, NEW of \in SUBSET DOMAIN promises
    PROVE  /\ \A k \in of : k - 1 \in Leaves(of)
           /\ \A id \in Leaves(of) : \E k \in of : id = k - 1
           /\ \A k \in of : promises[k].awaitFn = {k - 1}
           /\ \A k \in of : completions[k - 1] \in {"pending", "resolved", "rejected"}
           /\ of \in SUBSET (1 .. MaxPromises)
  <1>1. \A k \in of : promises[k].awaitFn = {k - 1} /\ promises[k].completionID = k - 1
    BY DEF IInv, PromisesBound, NewPromiseWithID
  <1>2. Leaves(of) = UNION {{k - 1} : k \in of}
    BY <1>1 DEF Leaves, PromiseCompletionID
  <1>3. of \in SUBSET (1 .. MaxPromises)
    BY HandlerAssumption DEF IInv, TypeOK
  <1>4. \A k \in of : k - 1 \in Ids
    BY <1>3, HandlerAssumption DEF Ids
  <1> QED
    BY <1>1, <1>2, <1>3, <1>4 DEF IInv, TypeOK

\* An operation that tells the truth of some promises.
LEMMA TellIInv ==
    ASSUME IInv, NEW op \in Operations, NEW of \in SUBSET (1 .. MaxPromises), NEW ok \in BOOLEAN,
           Tell(op, of, ok),
           op \in {"Await", "Race"} => (IF ok THEN "resolved" ELSE "rejected") \in Fates(of),
           op = "AwaitAll" => "pending" \notin Fates(of),
           op = "AwaitFirstSucceeded" =>
               IF ok THEN of = {} \/ "resolved" \in Fates(of) ELSE Fates(of) = {"rejected"},
           op = "AwaitAllSucceeded" =>
               IF ok THEN Fates(of) \subseteq {"resolved"} ELSE "rejected" \in Fates(of)
    PROVE  IInv'
  <1>1. /\ told' = [op |-> op, of |-> of, ok |-> ok]
        /\ UNCHANGED <<stub, run, completions, signal, promises>>
        /\ UNCHANGED <<err, cause>> \/ Fail(<<"AwakeableRejectionError">>, "rejection")
    BY DEF Tell, Operate, NewAwakeableRejectionError
  <1>2. ErrorsAreTheirs'
    <2>1. CASE UNCHANGED <<err, cause>>
      BY <2>1 DEF IInv, ErrorsAreTheirs, errorsIs
    <2>2. CASE Fail(<<"AwakeableRejectionError">>, "rejection")
      BY <2>2, FailIs DEF Kinds
    <2> QED
      BY <1>1, <2>1, <2>2
  <1>3. /\ err' \in Seq(Kinds) /\ Len(err') <= MaxWraps + 1
        /\ cause' \in {"none", "rejection", "unbound", "combinator", "callee", "send",
                       "delayedSend", "cancel", "kill"}
    <2>1. CASE UNCHANGED <<err, cause>>
      BY <2>1 DEF IInv, TypeOK
    <2>2. CASE Fail(<<"AwakeableRejectionError">>, "rejection")
      <3>1. err' \in Seq(Kinds) /\ Len(err') = 1 /\ cause' = "rejection"
        BY <2>2 DEF Fail, Kinds
      <3> QED
        BY <3>1, HandlerAssumption
    <2> QED
      BY <1>1, <2>1, <2>2
  <1>4. TypeOK'
    BY <1>1, <1>3 DEF IInv, TypeOK
  <1>5. PromisesBound'
    BY <1>1 DEF IInv, PromisesBound
  <1>6. Fates(of)' = Fates(of)
    BY <1>1 DEF Fates
  <1>7. ToldIsTrue'
    BY <1>1, <1>6 DEF ToldIsTrue, Fates
  <1> QED
    BY <1>2, <1>4, <1>5, <1>7 DEF IInv

\* Await.
LEMMA AwaitIInv ==
    ASSUME IInv, NEW k \in DOMAIN promises, Await(k)
    PROVE  IInv'
  <1>1. PICK id \in promises[k].awaitFn : Done(id) /\ Tell("Await", {k}, Resolved(id))
    BY DEF Await
  <1>2. ~stub /\ {k} \in SUBSET DOMAIN promises
    BY DEF Await, Live
  <1>3. id = k - 1 /\ {k} \in SUBSET (1 .. MaxPromises)
        /\ completions[k - 1] \in {"pending", "resolved", "rejected"}
    BY <1>1, <1>2, LeavesAre
  <1>4. Fates({k}) = {completions[id]}
    BY <1>3 DEF Fates
  <1>5. (IF Resolved(id) THEN "resolved" ELSE "rejected") \in Fates({k})
    BY <1>1, <1>3, <1>4 DEF Done, Resolved
  <1>6. Resolved(id) \in BOOLEAN /\ "Await" \in Operations
    BY DEF Resolved, Operations
  <1> HIDE DEF Resolved
  <1> QED
    BY <1>1, <1>3, <1>5, <1>6, TellIInv

\* The combinators.
LEMMA CombineIInv ==
    ASSUME IInv, NEW of \in SUBSET DOMAIN promises,
           Race(of) \/ AwaitAll(of) \/ AwaitFirstSucceeded(of) \/ AwaitAllSucceeded(of)
    PROVE  IInv'
  <1>1. ~stub
    BY DEF Race, AwaitAll, AwaitFirstSucceeded, AwaitAllSucceeded, Live
  <1>2. /\ \A k \in of : k - 1 \in Leaves(of)
        /\ \A id \in Leaves(of) : \E k \in of : id = k - 1
        /\ \A k \in of : completions[k - 1] \in {"pending", "resolved", "rejected"}
        /\ of \in SUBSET (1 .. MaxPromises)
    BY <1>1, LeavesAre
  <1>3. \A id \in Leaves(of) : completions[id] \in Fates(of)
    BY <1>2 DEF Fates
  <1>4. \A x \in Fates(of) : \E id \in Leaves(of) : x = completions[id]
    BY <1>2 DEF Fates
  <1>5. \A x \in Fates(of) : x \in {"pending", "resolved", "rejected"}
    BY <1>2 DEF Fates
  <1>6. CASE Race(of)
    <2>1. CASE Fail(NewCombinatorError("unsupported"), "combinator") /\ Operate
               /\ UNCHANGED <<promises, told>>
      BY <2>1, FailIInv DEF NewCombinatorError, Kinds
    <2>2. ASSUME NEW id \in Leaves(of), Done(id), Tell("Race", of, Resolved(id))
          PROVE  IInv'
      <3>1. completions[id] \in Fates(of) /\ completions[id] \in {"resolved", "rejected"}
        BY <1>3, <1>5, <2>2 DEF Done
      <3>2. /\ Resolved(id) \in BOOLEAN
            /\ (IF Resolved(id) THEN "resolved" ELSE "rejected") \in Fates(of)
        BY <3>1 DEF Resolved
      <3> QED
        BY <1>2, <2>2, <3>2, TellIInv DEF Operations
    <2> QED
      BY <1>6, <2>1, <2>2 DEF Race
  <1>7. CASE AwaitAll(of)
    <2>1. "pending" \notin Fates(of) /\ Tell("AwaitAll", of, TRUE)
      BY <1>4, <1>7 DEF AwaitAll, Done
    <2> QED
      BY <1>2, <2>1, TellIInv DEF Operations
  <1>8. CASE AwaitFirstSucceeded(of)
    <2>1. CASE (of = {} \/ \E id \in Leaves(of) : Resolved(id))
               /\ Tell("AwaitFirstSucceeded", of, TRUE)
      <3>1. of = {} \/ "resolved" \in Fates(of)
        BY <1>3, <2>1 DEF Resolved
      <3> QED
        BY <1>2, <2>1, <3>1, TellIInv DEF Operations
    <2>2. CASE of # {} /\ (\A id \in Leaves(of) : Rejected(id))
               /\ Tell("AwaitFirstSucceeded", of, FALSE)
      <3>1. \A x \in Fates(of) : x = "rejected"
        BY <1>4, <2>2 DEF Rejected
      <3>2. Fates(of) # {}
        BY <2>2 DEF Fates
      <3> QED
        BY <1>2, <2>2, <3>1, <3>2, TellIInv DEF Operations
    <2> QED
      BY <1>8, <2>1, <2>2 DEF AwaitFirstSucceeded
  <1>9. CASE AwaitAllSucceeded(of)
    <2>1. CASE (\A id \in Leaves(of) : Resolved(id)) /\ Tell("AwaitAllSucceeded", of, TRUE)
      <3>1. Fates(of) \subseteq {"resolved"}
        BY <1>4, <2>1 DEF Resolved
      <3> QED
        BY <1>2, <2>1, <3>1, TellIInv DEF Operations
    <2>2. CASE (\E id \in Leaves(of) : Rejected(id)) /\ Tell("AwaitAllSucceeded", of, FALSE)
      <3>1. "rejected" \in Fates(of)
        BY <1>3, <2>2 DEF Rejected
      <3> QED
        BY <1>2, <2>2, <3>1, TellIInv DEF Operations
    <2> QED
      BY <1>9, <2>1, <2>2 DEF AwaitAllSucceeded
  <1> QED
    BY <1>6, <1>7, <1>8, <1>9

\* The operations that fail, and a handler that asks for the signals.
LEMMA FailureIInv ==
    ASSUME IInv, Dispatches \/ Refused \/ \E k \in DOMAIN promises : AwaitUnbound(k)
    PROVE  IInv'
  <1>1. CASE Dispatches
    BY <1>1, FailIInv
    DEF Dispatches, NewCallFailedError, NewSendFailedError, NewDelayedSendFailedError, Kinds
  <1>2. CASE Refused
    BY <1>2, FailIInv DEF Refused, Kinds
  <1>3. CASE \E k \in DOMAIN promises : AwaitUnbound(k)
    BY <1>3, FailIInv DEF AwaitUnbound, Kinds
  <1> QED
    BY <1>1, <1>2, <1>3

\* What a handler does with an error.
LEMMA HandleIInv == ASSUME IInv, Handle PROVE IInv'
  <1>1. UNCHANGED <<stub, run, completions, signal, promises, told>>
    BY DEF Handle, Operate
  <1>2. PromisesBound' /\ ToldIsTrue'
    BY <1>1 DEF IInv, PromisesBound, ToldIsTrue, Fates
  <1>3. CASE Len(err) <= MaxWraps /\ Fail(Wrap(err), cause)
    <2>1. err \in Seq(Kinds)
      BY DEF IInv, TypeOK
    <2>2. Wrap(err) \in Seq(Kinds) /\ Len(Wrap(err)) = Len(err) + 1
      BY <2>1 DEF Wrap, Kinds
    <2>3. err' = Wrap(err) /\ cause' = cause
      BY <1>3 DEF Fail
    <2>4. TypeOK'
      BY <1>1, <1>3, <2>1, <2>2, <2>3, HandlerAssumption DEF IInv, TypeOK
    <2>5. \A t : errorsIs(err', t) <=> errorsIs(err, t)
      BY <2>1, <2>3, WrapIs
    <2>6. ErrorsAreTheirs'
      BY <2>3, <2>5 DEF IInv, ErrorsAreTheirs, errorsIs
    <2> QED
      BY <1>2, <2>4, <2>6 DEF IInv
  <1>4. CASE Fail(<<>>, "none")
    <2>1. ErrorsAreTheirs'
      BY <1>4, NoErrorIs
    <2>2. TypeOK'
      BY <1>1, <1>4, HandlerAssumption DEF Fail, IInv, TypeOK
    <2> QED
      BY <1>2, <2>1, <2>2 DEF IInv
  <1> QED
    BY <1>3, <1>4 DEF Handle

------------------------------------------------------------------------------
\* Every step keeps the invariant.
LEMMA NextIInv == IInv /\ [Next]_vars => IInv'
  <1> SUFFICES ASSUME IInv, [Next]_vars PROVE IInv'
    OBVIOUS
  <1>1. CASE UNCHANGED vars
    <2>1. TypeOK' /\ PromisesBound'
      BY <1>1 DEF vars, IInv, TypeOK, PromisesBound
    <2>2. ToldIsTrue' /\ ErrorsAreTheirs'
      BY <1>1 DEF vars, IInv, ToldIsTrue, Fates, ErrorsAreTheirs, errorsIs
    <2> QED
      BY <2>1, <2>2 DEF IInv
  <1>2. CASE Next
    BY <1>2, CompleteIInv, SignalOrRerunIInv, AwakeableIInv, AwaitIInv, CombineIInv, FailureIInv,
       HandleIInv DEF Next
  <1> QED
    BY <1>1, <1>2

\* The invariant holds for any number of promises, runs and layers.
THEOREM Invariance == Spec => []IInv
  BY InitIInv, NextIInv, PTL DEF Spec

\* The variables keep their types.
THEOREM TypeCorrect == Spec => []TypeOK
  <1>1. IInv => TypeOK
    BY DEF IInv
  <1> QED
    BY <1>1, Invariance, PTL

\* What Await or a combinator told of some promises is true of them for good.
THEOREM TruthTold == Spec => []ToldIsTrue
  <1>1. IInv => ToldIsTrue
    BY DEF IInv
  <1> QED
    BY <1>1, Invariance, PTL

\* errors.Is finds the sentinel of what happened, under any number of layers, and
\* never takes a cancel for a kill or a callee's signal for one's own.
THEOREM OwnErrors == Spec => []ErrorsAreTheirs
  <1>1. IInv => ErrorsAreTheirs
    BY DEF IInv
  <1> QED
    BY <1>1, Invariance, PTL
==============================================================================
