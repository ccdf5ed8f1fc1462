# A TLA+ model of axon-tenax

axon-tenax is the Go SDK of a durable-execution engine. The engine itself is a
private program; this repository holds what worker authors link against: the
handler registry, the authoring types, the context interface, the *fat-mode*
shim through which a worker appends the terminal journal entry itself, and a
provisioning client. All of the program is under `src/sdk` (about 2,400 lines
without tests).

The modules here model the parts of the SDK that keep state or take part in a
protocol, check them with TLC on small instances, and prove the most important
properties with TLAPS for every value of the constants. All safety properties
the passing runs check are also proved.

## 1. Inventory

| Component | Source | State | Operations | Status |
|---|---|---|---|---|
| Fat-mode submission | `sdk/fat.go` | none of its own; the fence, the attempt counter, the journal stream in the broker | `SubmitResult` | modelled: `FatSubmit`, `FatErrors`, `FencedLog` |
| Substring search | `sdk/fat.go` | a loop index | `fatContains` | modelled: `FatContains` |
| Fat-mode dispatch | `sdk/fat.go`, the loop itself in the engine | the fence, the hydrated snapshot | `LastJournalSeq`, `HasTerminal`, `SubmitResult` composed | partly: `FatDispatch` |
| Handler registry | `sdk/register.go` | three maps under one RWMutex | `Register*`, `Lookup*` | modelled: `Registry` |
| Authoring objects | `sdk/service.go`, `object.go`, `workflow.go` | a handler map per object; a workflow's run handler and two maps | `Handler`, `Run`, `Query`, `Signal`, `Lookup*`, `RunHandler` | modelled, in `Registry` |
| SDK builder | `sdk/register.go`, `service.go`, `object.go` | two maps, the first error | `New`, `WithService`, `WithObject`, `Build`, `Handle`, `Lookup*` | modelled: `SdkBuilder` |
| Saga builder | `sdk/saga.go` | a list of compensations | `AddCompensation`, `RegisterAll` | modelled: `Saga`, `CompensationStack` |
| Provisioning client | `sdk/provision/provision.go` | a connection and a timeout | eight request/reply operations | modelled: `Provision` |
| Context, cancellation | `sdk/ctx.go` | none (an interface) | implemented by the engine | partly: `HandlerContext`, `Saga` |
| Awakeables, promises | `sdk/awakeable.go` | an id and a wait function | `NewPromise*`, `Await`, `PromiseCompletionID` | modelled: `HandlerContext` |
| Call, send, combinator errors | `sdk/call.go`, `send.go`, `combinator.go` | none | `Is`, constructors | modelled: `HandlerErrors` |
| Query context | `sdk/workflow.go` | none (an interface) | implemented by the engine | not modelled |
| Credential scope | `sdk/fat_creds.go` | none (a struct) | constructor | not modelled |

How they interact. A worker's startup code builds authoring objects and
registers them (`Registry`), or builds descriptions and gives them to `New`
(`SdkBuilder`). The engine's dispatch goroutines then look handlers up by name,
concurrently with each other. A fat-mode worker additionally talks to the
broker: it reads the last sequence of an invocation's subject
(`LastJournalSeq`), lets the engine hydrate the journal, asks `HasTerminal`,
runs the handler and appends the `Output` with `SubmitResult`, whose publish
carries `Nats-Expected-Last-Subject-Sequence`, the compare-and-set *fence*. The
engine and other workers append to the same stream. A handler may register its
compensations one by one with its context or through a `Saga`; the engine
journals the registrations and undoes them in reverse. It gets promises from its
context, `PromiseValue`s whose completion ids the engine reads back when it
builds a combinator from them, and errors whose sentinels tell it what happened
(`HandlerContext`, `HandlerErrors`). Programs outside the
worker use the provisioning client, a request/reply client of the engine's
admin service, to manage event sources and tenants.

What is hard, and what makes it correct:

- *Unknown outcome of a publish.* A publish that times out may have been
  applied, may be applied later, or never. The retries must not append twice
  (`CallAppliedOnce`), what the caller is told must be true (`AckedIsOwnEntry`)
  and must stay true (`SettledStaysSettled`): the attempts together are one
  conditional append (`ImplementsFencedLog`). And they must end
  (`RetriesRunOut`, `CallReturns`).
- *Redelivery.* A worker dies between the append and the acknowledgement and
  the invocation is dispatched again, perhaps elsewhere. Its outcome must be
  decided once (`OutcomeDecidedOnce`, `ImplementsJournalOutcome`).
- *Stale reads.* The fence and the snapshot are read before they are used, and
  may be old when they are read (`OutcomeDecidedOnce`, `ConflictMeansMoved`).
- *Lookups made of several critical sections*, while a program may still be
  registering (`NotFoundIsTrue`, `FoundWasThere`, `LookupExact`), and
  registrations that race for a name (`BoundOnce`).
- *Maps without a lock*: objects are filled by a check and a store, by two
  goroutines at once or while they are looked up (`GivenOnce`); a description
  shares its builder's map.
- *One completion told in two ways*: by a promise's wait function and by its
  completion id, 0 included (`ToldIsTrue`).
- *Errors that look alike*: a cancelled and a killed invocation, an invocation
  and its callee, wrapped any number of times (`ErrorsAreTheirs`).
- *Error paths of a sequence*: of options (`BuildReportsFirst`,
  `EveryOptionAnswers`), of compensations to register (`IdsAreTheirs`).
- *Replay*: a handler that died registers its compensations again and must meet
  its own journal (`ImplementsCompensationStack`), and each run registers them
  as written (`RegisteredAsWritten`).
- *Requests carried out although the caller saw an error*: what each error of
  the provisioning client means for the service (`RefusedMeansUntouched`,
  `ConfirmedMeansDone`, `ConflictIsForeign`, `CredentialFresh`).

`PROJECT.json` lists the hazards one by one with their lines.

## 2. Modules

### FatErrors, FatSubmit, FencedLog: `SubmitResult`

`FatErrors` is the classification of publish errors. `isFatConflict` and
`isFatTransient` look at an error only through `errors.Is(DeadlineExceeded)` and
through fragments of its text, so an error is the record of those two views.

`FatSubmit` is the call against the stream. Variables and code:

| Variable | Stands for |
|---|---|
| `log`, `last` | the stream `TENAX_JOURNAL`, and the last sequence per subject |
| `net` | publishes sent and not yet handled |
| `reply` | the answer to the attempt the worker waits for |
| `pc`, `attempt` | the position in `SubmitResult` and the loop counter |
| `call`, `arg`, `ret` | the current call: its number, parameters, result |

| Action | Code (`sdk/fat.go`) |
|---|---|
| `SubmitUsage` | 262-267, the guard against `expectedLast == 0` |
| `SubmitBegin` | 269-294, the entry is built |
| `Publish` | 299-303, one iteration, always with the same fence |
| `PublishAcked` / `PublishConflict` / `PublishFailed` / `PublishRetry` | 305-307 / 308-310 / 311-313 / 314 |
| `SubmitExhausted` | 316-317, `ErrFatTimeout` |
| `Crash` | the process dies inside the call |
| `StreamApply`, `StreamReject`, `EngineAppend` | the broker and the engine (external) |

Callers are the most general ones: any invocation, any sequence number the
stream has handed out. `js.Publish` can fail by itself at any time
(`LocalErrs`: a deadline, a broken connection), whatever became of its message.
A message stays in `net` until the stream handles it: never (a loss), after
later attempts (reordering), after the call or the process has ended.
Duplicates by the network are not modelled: a NATS publish travels over one TCP
connection; the duplicates that do happen are the loop's own retries.

The two marshalling calls cannot fail on the types they are given, so their
error returns are left out. The payload and its checksum play no part in
the control and are left out. The parent context is ignored by the code.

`FencedLog` is the abstract specification: a submission is one append on the
condition that the journal of its invocation still ends at the fence; any entry
closes it, and its caller may leave before its fate is known. There are no
attempts, messages or acknowledgements in it. `FatSubmit` implements it with
`open <- Open`: the submissions of the publishes under way and of the calls in
progress whose subject still ends at their fence. `StepsLeft` counts the steps a
call can still take (`RetriesRunOut`).

### FatDispatch, JournalOutcome: the protocol

`FatDispatch` extends `FatSubmit` with the caller: `Dispatch`,
`LastJournalSeq` (and its failure), `Hydrate`, `HasTerminal`, `Submit`,
`ConflictRetry`, `DispatchDone`, `WorkerCrash`. The loop is in the engine; the
module takes from `sdk/fat.go` what it must call and in which circumstances.
The order fence, hydration, guard is the safe one: a snapshot taken after
the fence contains everything the fence covers. Both reads may be stale:
`LastJournalSeq` returns the last entry of some moment up to now, and the
hydrated journal reaches at least to the fence and perhaps no further. `Rehydrate` is a constant:
TRUE restarts from the fence, through hydration and the guard, after
`ErrFatConflict`; FALSE only re-reads the fence, which is all the comment
at `fat.go:60` asks for. The engine is assumed to check for a terminal entry
before it appends (`EngineJournals`).

`JournalOutcome` is the abstract specification: per invocation a length and an
outcome; a step is possible while it is undecided, the decision happens once
and is last. `FatDispatch` instantiates it with the cardinality of the
journal and the set of terminal entries; `ImplementsJournalOutcome` is the
refinement, checked by TLC and proved.

### FatContains

The loop of `fatContains`, one comparison per step, with its two early returns.
`Correct` compares it with the definition of substring, `Terminates` is its
termination.

### Registry

The three maps of the registry, the maps of the authoring objects, and lookups
in progress. Every critical section is a step or two. A registration looks for
the name (`TakeName`) and stores (`Store`) under the write lock, so that a lock
that does not cover both would show. `LookupKeyedHandler` reads the
virtual objects under the read lock (`LookupVirtualObject`), the object's
handlers outside it (`ObjectLookup`), then for `"run"` the workflows
(`LookupWorkflow`, `RunHandler`). A workflow's queries and signals are looked up
in two calls that the runtime makes (`WorkflowLookup`, external).

`Handler`, `Query`, `Signal` and `Run` may be called before, during and after
the registration of their object and between the steps of a lookup, although a
worker is asked to finish first. They take no lock. The first three look for the
name in one step (`ServiceHandler`, `ObjectHandler`, `Query`, `Signal`, all of
them `GiveIf`) and store in another (`Give`); what a goroutine is about to store
is `giving`. So two goroutines can both find a name free, and the second then
replaces the first: `raced` is a history variable with the goroutines that have
met another in the same place. `GivenOnce` says that a function is replaced by a
store of one of these only. `Run` is one store and replaces whatever there was.
Go detects most writes of a map during a read or a write and ends the process,
which is a behaviour that stops here; an undetected one reads the map before or
after the write.

A function may be nil: the code takes it like any other, except that a nil run
handler stands for none (`RunOf`), so `Run(nil)` takes the run handler away.

`witnessed` is a history variable: what the maps held for a lookup at each
moment of it (`Sight`), from which the answer follows (`Answer`).
`LookupExact`, `NotFoundIsTrue` and `FoundWasThere` are about these. The last two
have an exception each, in the keyed lookup of `run`, which reads two maps. It
may return the run handler of a workflow although an object that comes first was
registered meanwhile (`FoundWasThere`). And it may return nothing although the
object or the workflow had an answer at every moment: the object has none when it
is read, the handler is given to it, and `Run(nil)` takes the workflow's away
before that is read (`NotFoundIsTrue`).

### SdkBuilder

`Handle` on a builder, the options one after another, `Build`, and the lookups
as operators of the state. A description is its builder, because it holds the
builder's own map (`service.go:138`, `object.go:150`). `buildErr` is the builder
whose option failed, `options` the history of the options given. Object and
service builders are two disjoint sets with the same operations. Options are
applied by `New` only.

### Saga, CompensationStack

A handler is a program: a sequence of `AddCompensation`, `RegisterAll` and direct
`ctx.RegisterCompensation` calls, chosen at the start (`prog`). `RegisterAll` is
its loop (`saga.go:77-89`), one registration a step: `RegisterNext`, or
`RegisterRefused`, which ends it with the ids so far, or `RegisterAllReturns`.
What the registered closure calls is `Closure` (`saga.go:80`): the loop variable
of its iteration, as Go has it since 1.22 (`go.mod` says 1.26).

The context is external, after `ctx.go:212-228`: `journal` survives a crash,
`stack` is what the current run has registered. While a run has registered fewer
than the journal holds it is replaying, and its registrations are served from
the journal and not refused; a handler is deterministic, so it does not fail
before the place where its earlier run was. `Compensate` takes the last
function off the stack; `Kill` ends the invocation and none runs. Left out:
crashes during the rollback (the compensations' own effects are the engine's)
and compensations that register others (refused by the engine without effect).

`CompensationStack` is the abstract specification: registrations on a stack that
survives crashes, undone from the top, each once. `Saga` implements it with
`registered <- journal`.

### HandlerErrors, HandlerContext

`HandlerErrors` is what `errors.Is` sees: an error is the chain of the kinds that
`%w` wraps, and each kind has the `Is` method of its source file. The
constructors take the text of the error they report, so a callee's error is no
part of its caller's chain.

`HandlerContext` is a handler that creates promises, awaits them one by one or
through combinators, calls and sends, wraps the errors it gets or deals with
them. `promises` are the `PromiseValue`s of the current run: the function that
`Await` calls, here the set of the completions it waits for (empty for nil), and
the completion id a combinator reads with `PromiseCompletionID`. The engine is
external, after the comments of `ctx.go` and `awakeable.go`: it allocates
ids from 0 and the same ones in every run, completions are durable, `Signalled`
cancels or kills the invocation, whose operations then fail (`Refused`), and
`Rerun` starts the handler again. `stub` is a context whose promises are not
bound. `Await` of a promise a combinator has also taken is allowed, as are
combinators of nothing.

`told` is history: what the last await reported of which promises. `cause` is
where the error in hand came from. `ToldIsTrue` compares the one with the
completions, `ErrorsAreTheirs` the other with what `errors.Is` finds.

Left out: `PromiseCompletionID(nil)` panics, while `Await` of a nil promise is
an error; the bridge passes promises that it has made. The nesting of
combinators is the engine's.

### Provision

Each of the eight operations (`CreateEventSource` to `ListTenants`) is an action
that sends one request (`Request`, `provision.go:160-173`); the wait ends with
`RequestFailed` (deadline, cancelled caller, no responders: all
`ErrUnavailable`), `ErrorReply` (an error header, through `errFromWireCode`),
`Decode` or `DecodeFailed`. `Wire` is the payload, with `UpdateTenant`'s override of
the tenant id. `ret` is what the call returned; `served` and `delivered` are
history: the requests carried out, and the credentials handed out.

The admin service is external: entries by id, with the refusals that the
client's comments name (`ErrNotFound` for a missing binding, `ErrConflict` for a
different configuration, idempotent re-creation, a fresh credential for each
`CreateTenant`). A request is carried out (`Serve`), with an answer that
may yet be an `internal` or `timeout` error, or refused with nothing done
(`Refuse`); the answer reaches the call if it still waits, or is lost. A request
may be carried out after its call has returned. NATS gives each request an
inbox of its own, so an answer cannot reach another call. The contents of lists
and credentials are left out, and the bodies that do not decode are any;
marshalling cannot fail on these types.

### Proof modules

`FatSubmitProofs`, `FatDispatchProofs`, `FatContainsProofs`, `RegistryProofs`,
`SdkBuilderProofs`, `SagaProofs`, `HandlerContextProofs` and `ProvisionProofs`
extend the modules they are about. `MCFatSubmit`, `MCFatDispatch`, `MCRegistry`,
`MCSdkBuilder`, `MCSaga`, `MCProvision` hold constants and symmetry for TLC.

## 3. Runs

| Run | Instance | Shows |
|---|---|---|
| `fat_submit_race` | 2 workers, 1 invocation, 3 attempts, 3 engine entries, 1 call each | at most one append per call; results true and lasting; no journal begins with an Output; the attempts of a call are one conditional append |
| `fat_submit_repeat` | 1 worker, 2 invocations, 3 attempts, 2 engine entries, 2 calls, fair | the same when an earlier call's publishes are still under way, and with fences of another subject; each step of a call brings its return nearer; every call returns |
| `fat_dispatch_race` | 2 workers, 1 invocation, 2 attempts, 2 calls each, 2 engine entries | one outcome, against workers and an engine that journals steps and errors; a conflict means progress; the refinement |
| `fat_dispatch_documented_retry` | 1 worker, `Rehydrate = FALSE` | *violation*, see section 5 |
| `fat_contains` | strings up to 5 over 2 bytes | correctness and termination |
| `registry_lookups` | 2 services, an object and a workflow of one name, handlers `run` and `h` of the object and `h` of the others, 2 functions and nil, 3 of them given, 2 registering goroutines, 1 lookup at a time | "not found" is true but for a run handler taken away, what is found was there, an answer that stays the same is returned, registry names are bound once, a handler's name is given once unless two give it at the same time |
| `registry_shadowed_workflow` | the same objects and goroutines | *violation*, see section 5 |
| `sdk_builder` | 3 services, 2 objects, 2 names, 4 options | the first error is reported, nothing is displaced |
| `sdk_builder_alias` | the same, 1 option | *violation*, see section 5 |
| `saga` | every handler of up to 4 calls over 2 functions, 3 runs of it | registration and rollback as written, true ids, the refinement |
| `handler_context` | 3 promises, 2 runs of the handler, 2 layers around an error | what an await reported is true of its promises; an error has the sentinel of its cause and no other |
| `provision` | 2 clients with 2 calls and 1 call, 1 binding, 2 tenants, 2 configurations | what a call returns is true of the service |

The bounds. `MaxAttempts` is 3 in the code and in the runs of `FatSubmit`; two
are enough for a lost acknowledgement followed by a conflict, which is what the
dispatch runs need. `MaxSeq` bounds the engine's appends only: workers still
append beyond it. Two entries of the engine give a fence that is stale and one
that is current; three let an entry fall between two attempts. Two workers are
enough for each to be the other's interference; what a third would add is
covered by the theorems, which hold for any number. One caller is enough in
`Registry` because lookups change nothing another lookup reads; three given
functions are a run handler, an object's handler `run` and the `Run(nil)` that
takes the first away, and two are a race for one name of an object; two services
of one name race for it in the registry. Only a virtual object has a handler
called `run` there (`Gives`): elsewhere it is a name like any other. In `handler_context` three
promises hold the one with id 0, a combinator without it and one with it, the
second run meets completions of the first, and two layers are a wrap of a wrap. In `sdk_builder`
four options hold two repetitions of one name and one of the other kind. In
`fat_contains` five bytes hold a fragment that overlaps itself (`aab` in
`aaab`) at every position. In `saga` four calls hold a saga of two compensations
with a direct registration, and a saga registered twice; three runs let a
replay crash again. In `provision` the second call of a client repeats its
first, whose request may still be under way, with another client between them.

`CHECK_DEADLOCK FALSE` is set where the system really stops: when the bounded
calls are made, all entries are appended, or the search has ended.

Fairness. `FatSubmit!FairSpec` assumes only that a goroutine inside
`SubmitResult` keeps taking steps: weak fairness of `CallStep(w)`. The code
justifies it because each wait inside it is bounded by the attempt's own context
(`fatNatsCtx`, five seconds), so one of the errors `PublishRetry`,
`PublishFailed` is always possible. Nothing is assumed of the stream, the
network or the engine. `FatContains!FairSpec` assumes that a running loop runs.

Every property of every passing run has a mutant in `PROJECT.json`: a plausible
bug (a fence re-read between attempts, an attempt too many, a conflict on a
retry taken for success, a forgotten guard, a lookup that does not fall
through, a duplicate that replaces) that makes TLC report the property violated.

## 4. Theorems

For every set of workers, invocations, errors and every retry budget:

- `FatSubmitProofs`: `TypeCorrect`, `AppliedOnce`, `AckedTrue`, `StartFirst`,
  `SettledStays`, `RetriesEnd`, `ImplementsFenced`. The inductive invariant `IInv`
  is needed because none of the properties is inductive: that a retry cannot be
  applied twice depends on what is under way. All publishes of one call carry the
  same subject and fence (`SameFence`); fences lie in the past (`FencesPast`); so
  once an entry of the call is in the stream, the last sequence of its subject is
  past the fence for good (`SpentPublishes`, `SpentCalls`), and what an answer
  says cannot be overtaken (`AnswersTrue`). `ImplementsFenced` follows from it: a
  worker's entry was an open submission (`StreamApplyImplements`), any entry
  closes those of its invocation (`AppendCloses`), a publish opens none
  (`PublishImplements`) and a return tells what `FencedLog` allows
  (`LeaveImplements`).
- `FatDispatchProofs`, whatever follows a conflict: `DispatchSubmits`,
  `SubmissionsSound`, `ConflictMoved`, `DispatchTyped`. Each step of the dispatch
  is a step of `FatSubmit` or leaves it alone (`DispatchStepIsSubmitStep`), as long
  as a fence in hand was once a last sequence (`CInv`), so `IInv` and all the
  theorems of `FatSubmitProofs` carry over. In particular the documented retry
  (section 5, item 1) breaks no promise of `SubmitResult`: the second
  `Output` is a second call's.
- `FatDispatchProofs`, under the assumption `Rehydrate`: `DecidedOnce`,
  `Implements`. `GInv` says that a fence that passed the guard belongs to an
  undecided journal: either the last sequence is still the
  fence, and there is no terminal entry, or it has moved and the stream will
  refuse. That holds however old the fence is, as long as the hydrated journal
  reaches it. `Implements` shows that an append of an undecided journal is
  `Step` or `Decide` and all else stutters.
- `FatContainsProofs`: `SearchCorrect`, for any bytes and any bound: no
  position before `i` matches. `SearchRunsOut`: the comparisons left are a natural
  number that every step makes smaller.
- `SdkBuilderProofs`: `FirstReported`, `NothingDisplaced`: an entry stands for
  the first option of its name and kind, for any number of options.
- `RegistryProofs`: `TypeCorrect`, `BoundForGood`, `GivenForGood`,
  `NotFoundTrue`, `FoundThere`, `LookupIsExact`. While one goroutine is storing,
  its name is free (`NamesFree`), because the lock covers both steps. No lock
  covers the two steps of `Handler`, `Query` and `Signal`: there the place is
  free only for a goroutine that has met no other (`GiftsFree`), and two in one
  place have met (`RacesSeen`). A lookup that has got past
  its first map has witnessed an absence there (`WorkflowsTried`), so what it
  answers follows from what it saw at some moment, whatever was filled or
  registered meanwhile; only a run handler that is there at that moment and gone
  at the end makes the exception of `NotFoundIsTrue`.
- `HandlerContextProofs`: `TypeCorrect`, `TruthTold`, `OwnErrors`. The k-th
  promise of every run is bound to completion k - 1 in both of its forms, and
  completions are final; a wrap adds a kind that matches no sentinel
  (`WrapIs`).
- `ProvisionProofs`: `TypeCorrect`, `RefusalsFinal`, `Confirmed`,
  `ConflictForeign`, `CredentialOnce`. A call has one request (`RequestsTrue`),
  which is under way or carried out and never both (`ServedOnce`); so an "ok"
  speaks of a request that was carried out and a refusal of one that is gone
  (`RepliesTrue`), what lies under a binding was put there by a served create
  (`EntriesServed`), and a credential that is not handed out is in one
  answer only (`CredsFresh`).
- `SagaProofs`: `TypeCorrect`, `IdsTheirs`, `AsWrittenRegistered`, `Implements`,
  for handlers of any length and any number of crashes. What a run does next is a function of where
  it is (`Step`), so all runs share one course, which the journal records
  (`Course`, `OnCourse`): where a replay registers it meets its own entry,
  and a run that fails has caught up (`CaughtUp`). The reference of
  `RegisteredAsWritten` is a recursive function on the length of the program;
  `AsWritten` follows it from one call to the next, and the facts about all its
  values are proved by the least counterexample (`WFMin`), because the library's
  induction theorem cannot be instantiated here.
- `TypeCorrect` of `FatContainsProofs` and `SdkBuilderProofs`, and
  `DispatchTyped`.

The assumptions are those of the modules (`EngineAssumption`,
`LocalErrsAssumption`, `BoundsAssumption`, `RehydrateAssumption`,
`MaxLenAssumption`, `BuildersAssumption`, `RegistryAssumption`,
`HandlerAssumption`, `CallsAssumption`, `SagaAssumption`); TLC evaluates them on
every run. `LocalErrsAssumption` says that only the broker words a conflict,
`RegistryAssumption` that an object has one kind.

Only model-checked: `CallReturns` and `Terminates`, because liveness under
fairness is out of the prover's reach. Their safety halves are proved:
`RetriesEnd` and `SearchRunsOut` say that the steps run out, and the fairness
only has to say that they are taken. The three violations are TLC's.

## 5. Where the code and its comments differ

1. *The retry after a conflict.* `fat.go:60` and `fat.go:254`: on
   `ErrFatConflict` the caller "must re-read LastJournalSeq and retry". The
   conflict may be the trace of the caller's own first attempt: applied,
   acknowledgement lost, retried with the same fence, refused. A caller that
   re-reads the fence and submits again journals the result twice
   (`fat_dispatch_documented_retry`). With hydration and `HasTerminal` before
   the retry the outcome is decided once, and this is proved.
2. *A shadowed workflow.* `register.go:140`: a workflow's run handler is
   resolvable under (name, "run"). Not if a virtual object of the same name has
   a handler called run; nothing refuses the pair.
3. *Read-only after Build.* `register.go:258`, `register.go:319`: the maps are
   read-only after `Build`. A builder kept and used again changes them,
   because its `Build` hands out its own map.

Smaller ones, about which no property is stated: `register.go:86` says that
`LookupHandler` returns `ErrHandlerNotFound`, while it returns `(nil, false)`;
`provision.go:193-196` still counts `precondition` among the codes without a
sentinel; `provision.go:91-92` says that `ErrUnavailable` means the request was
not serviced, while a lost or late answer gives the same error after it was
(`provision.go:173-175`).

## 6. Not modelled, and the plan

Not modelled:

- the query context (`workflow.go:23-31`): an interface without an
  implementation in this repository;
- the credential scope (`fat_creds.go`): a struct and its constructor;
- of `ctx.go`, keyed state, side effects, timers and the clock: interface
  methods whose behaviour is the engine's alone;
- wire formats (JSON, JCS, CRC) and error wording beyond what the
  classification reads;
- real time: deadlines are possible at every moment of a wait.

`provision` has no counterpart of `CallReturns`: the deadline of the call ends
every wait, and with that as the fairness nothing is left that could be wrong.

What could be added: compositions, namely the builder's descriptions used while
they are looked up, and a fat-mode worker whose handler registers compensations.
