----------------------------- MODULE SdkBuilder ------------------------------
(***************************************************************************)
(* The description-based registration of sdk/register.go: builders make    *)
(* descriptions, New applies the options WithService and WithObject in     *)
(* order, Build reports the first error, LookupService and LookupObject    *)
(* answer the runtime.                                                     *)
(*                                                                         *)
(* A description holds the builder's own handler map: Go maps are          *)
(* references and ServiceBuilder.Build does not copy.  handlers is         *)
(* therefore indexed by builder, and the SDK's maps lead to builders.      *)
(***************************************************************************)
EXTENDS Naturals, Sequences

CONSTANTS
    ServiceBuilders, ObjectBuilders,    \* the builders the program creates
    Names,          \* service and object names ("" is as good as any other)
    NameOf,         \* NameOf[b]: the name b was created with
    HandlerNames,
    Fns, NoFn,      \* handler functions, nil
    NoBuilder,      \* no map entry
    MaxOptions      \* bound: the options given to New

Builders == ServiceBuilders \cup ObjectBuilders

ASSUME BuildersAssumption ==
    /\ NameOf \in [Builders -> Names]
    /\ ServiceBuilders \cap ObjectBuilders = {}
    /\ NoBuilder \notin Builders
    /\ NoFn \notin Fns
    /\ MaxOptions \in Nat

VARIABLES
    handlers,           \* handlers[b]: the map b and its descriptions share
    services, objects,  \* name to the builder whose description is registered
    buildErr,           \* the builder whose option failed first, or NoBuilder
    options,            \* the options New has applied so far, oldest first
    built               \* has Build been called

vars == <<handlers, services, objects, buildErr, options, built>>

MaybeFn == Fns \cup {NoFn}

Init ==
    /\ handlers = [b \in Builders |-> [h \in HandlerNames |-> NoFn]]
    /\ services = [n \in Names |-> NoBuilder]
    /\ objects = [n \in Names |-> NoBuilder]
    /\ buildErr = NoBuilder
    /\ options = <<>>
    /\ built = FALSE

\* Handle: the last function given for a name is the one, at any time.
Handle(b, h, f) ==
    /\ handlers' = [handlers EXCEPT ![b][h] = f]
    /\ UNCHANGED <<services, objects, buildErr, options, built>>

\* New applies one more option, given the description of b.
Option(b) ==
    /\ ~built
    /\ Len(options) < MaxOptions
    /\ options' = Append(options, b)
    /\ UNCHANGED <<handlers, built>>

\* Mutant of Duplicate: the last failed option is reported.
DuplicateLast(b) == buildErr' = b

\* The first failed option is the one Build reports.
Duplicate(b) == buildErr' = IF buildErr = NoBuilder THEN b ELSE buildErr

\* Mutant of WithService: a duplicate replaces what was registered.
WithServiceReplaces(b) ==
    /\ Option(b)
    /\ b \in ServiceBuilders
    /\ services' = [services EXCEPT ![NameOf[b]] = b]
    /\ IF services[NameOf[b]] = NoBuilder THEN UNCHANGED buildErr ELSE Duplicate(b)
    /\ UNCHANGED objects

WithService(b) ==
    /\ Option(b)
    /\ b \in ServiceBuilders
    /\ \/ /\ services[NameOf[b]] = NoBuilder
          /\ services' = [services EXCEPT ![NameOf[b]] = b]
          /\ UNCHANGED <<objects, buildErr>>
       \/ /\ services[NameOf[b]] # NoBuilder
          /\ Duplicate(b)
          /\ UNCHANGED <<services, objects>>

\* Mutant of WithObject: the description goes to the map of the services.
WithObjectAsService(b) ==
    /\ Option(b)
    /\ b \in ObjectBuilders
    /\ services[NameOf[b]] = NoBuilder
    /\ services' = [services EXCEPT ![NameOf[b]] = b]
    /\ UNCHANGED <<objects, buildErr>>

WithObject(b) ==
    /\ Option(b)
    /\ b \in ObjectBuilders
    /\ \/ /\ objects[NameOf[b]] = NoBuilder
          /\ objects' = [objects EXCEPT ![NameOf[b]] = b]
          /\ UNCHANGED <<services, buildErr>>
       \/ /\ objects[NameOf[b]] # NoBuilder
          /\ Duplicate(b)
          /\ UNCHANGED <<services, objects>>

\* SDK.Build returns buildErr; the program goes on to serve only if it is nil.
Build ==
    /\ ~built
    /\ built' = TRUE
    /\ UNCHANGED <<handlers, services, objects, buildErr, options>>

Next ==
    \/ \E b \in Builders :
          \/ \E h \in HandlerNames, f \in Fns : Handle(b, h, f)
          \/ WithService(b)
          \/ WithObject(b)
    \/ Build

Spec == Init /\ [][Next]_vars

HandlerIn(b, h) == IF b = NoBuilder THEN NoFn ELSE handlers[b][h]

\* What the lookups return, NoFn standing for ErrHandlerNotFound.
LookupService(n, h) == HandlerIn(services[n], h)
LookupObject(n, h)  == HandlerIn(objects[n], h)

------------------------------------------------------------------------------
\* The types of the builders' and of the SDK's maps.
TypeOK ==
    /\ handlers \in [Builders -> [HandlerNames -> MaybeFn]]
    /\ services \in [Names -> ServiceBuilders \cup {NoBuilder}]
    /\ objects \in [Names -> ObjectBuilders \cup {NoBuilder}]
    /\ buildErr \in Builders \cup {NoBuilder}
    /\ options \in Seq(Builders)
    /\ built \in BOOLEAN

SameKey(a, b) == NameOf[a] = NameOf[b] /\ (a \in ServiceBuilders <=> b \in ServiceBuilders)

\* The options whose name an earlier option of the same kind has taken.
Repeats == {k \in 1 .. Len(options) : \E j \in 1 .. k - 1 : SameKey(options[j], options[k])}

\* "Returns the first registration error" (register.go:281): Build succeeds if and
\* only if no name was given twice to a kind, and otherwise blames the earliest
\* option that repeats one.
BuildReportsFirst ==
    /\ (buildErr = NoBuilder) <=> (Repeats = {})
    /\ buildErr # NoBuilder =>
          \E k \in Repeats : options[k] = buildErr /\ \A j \in Repeats : k <= j

\* Registered[b]: whose description is held under the name and kind of b.
Registered ==
    [b \in Builders |-> IF b \in ServiceBuilders THEN services[NameOf[b]] ELSE objects[NameOf[b]]]

\* After a Build that reports nothing, every description given to New answers for
\* its name; an earlier description is never displaced by a later one.
EveryOptionAnswers ==
    \A k \in 1 .. Len(options) : k \notin Repeats => Registered[options[k]] = options[k]

\* "After Build returns nil, the registry is read-only" (register.go:258): what a
\* lookup answers does not change any more.
ReadOnlyAfterBuild ==
    [][built /\ buildErr = NoBuilder =>
          \A n \in Names, h \in HandlerNames :
             /\ LookupService(n, h)' = LookupService(n, h)
             /\ LookupObject(n, h)' = LookupObject(n, h)]_vars
==============================================================================
