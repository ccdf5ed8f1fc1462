------------------------------ MODULE Registry -------------------------------
(***************************************************************************)
(* sdk.Registry (sdk/register.go) with the Service, VirtualObject and      *)
(* Workflow objects it holds: three maps under one RWMutex, filled by the  *)
(* worker's startup code and read by the runtime's dispatch goroutines.    *)
(*                                                                         *)
(* A lookup is several steps: a critical section per map it reads, and the *)
(* object's own methods read in between, outside the lock.  Startup code   *)
(* is asked to finish before the runtime starts, and nothing in the code   *)
(* makes it: objects may be filled and registered between the steps of a   *)
(* lookup here.                                                            *)
(*                                                                         *)
(* An object's own maps have no lock, and the methods that fill them look  *)
(* for the name in one step and store in another.  Go detects most writes  *)
(* to a map that another goroutine reads or writes and ends the process; a *)
(* behaviour that stops there is one of this specification.  A race that   *)
(* goes undetected reads the map as it was before or after the write.      *)
(***************************************************************************)
EXTENDS FiniteSets, Naturals

CONSTANTS
    Services, VirtualObjects, Workflows,    \* the objects the program builds
    Names,          \* registry keys
    EmptyName,      \* the name "" that no object may be registered under
    NameOf,         \* NameOf[o]: the name o was built with
    HandlerNames,   \* names of handlers, queries and signals; RunName is among them
    Gives,          \* Gives[o]: the names under which the program gives o functions
    RunName,        \* "run", workflowRunHandlerName
    Fns, NilFn,     \* handler functions, the nil function
    Absent,         \* no entry in an object's map: the (nil, false) of a lookup
    NoObj,          \* no entry in a registry map
    Registrars,     \* goroutines that build and register objects
    Callers,        \* dispatch goroutines
    MaxCalls        \* bound: how many functions are given to objects

Objects == Services \cup VirtualObjects \cup Workflows

ASSUME RegistryAssumption ==
    /\ NameOf \in [Objects -> Names \cup {EmptyName}]
    /\ EmptyName \notin Names
    /\ RunName \in HandlerNames
    /\ Gives \in [Objects -> SUBSET HandlerNames]
    /\ NilFn \notin Fns
    /\ Absent \notin Fns \cup {NilFn}
    /\ NoObj \notin Objects
    /\ Services \cap VirtualObjects = {}
    /\ Services \cap Workflows = {}
    /\ VirtualObjects \cap Workflows = {}
    /\ MaxCalls \in Nat

VARIABLES
    handlers,       \* handlers[o]: the handler map of a service or virtual object
    run,            \* run[w]: a workflow's run-once handler
    queries, signals,                       \* its other two maps
    services, virtualObjects, workflows,    \* the registry's maps, NoObj where absent
    taking,         \* taking[g]: the object g stores, holding the write lock
    giving,         \* giving[g]: the function g is about to store in an object's map
    raced,          \* who gives a name that another gave at the same time (history)
    lookup,         \* lookup[c]: the lookup c is in
    result,         \* result[c]: what c's last lookup returned, until its next
    witnessed,      \* witnessed[c]: what the maps held at earlier moments of it (history)
    calls           \* how many functions were given to objects (bound)

contents == <<handlers, run, queries, signals>>
authoring == <<contents, giving, calls>>
maps == <<services, virtualObjects, workflows>>
vars == <<authoring, raced, maps, taking, lookup, result, witnessed>>

Given == Fns \cup {NilFn}           \* a nil function is taken like any other
Entry == Given \cup {Absent}
EmptyMap == [h \in HandlerNames |-> Absent]
NoGift == [in |-> "none", obj |-> NoObj, name |-> RunName, fn |-> NilFn]
NoLookup == [op |-> "none", at |-> "none", name |-> EmptyName, handler |-> RunName, obj |-> NoObj]

\* NewService, NewVirtualObject: an empty handler map.
NewService == EmptyMap
NewVirtualObject == EmptyMap

\* NewWorkflow: two empty maps and no run handler.
NewWorkflow == [run |-> NilFn, queries |-> EmptyMap, signals |-> EmptyMap]

NewRegistry ==
    /\ services = [n \in Names |-> NoObj]
    /\ virtualObjects = [n \in Names |-> NoObj]
    /\ workflows = [n \in Names |-> NoObj]

Init ==
    /\ handlers = [o \in Services \cup VirtualObjects |->
                      IF o \in Services THEN NewService ELSE NewVirtualObject]
    /\ run = [w \in Workflows |-> NewWorkflow.run]
    /\ queries = [w \in Workflows |-> NewWorkflow.queries]
    /\ signals = [w \in Workflows |-> NewWorkflow.signals]
    /\ NewRegistry
    /\ taking = [g \in Registrars |-> NoObj]
    /\ giving = [g \in Registrars |-> NoGift]
    /\ raced = {}
    /\ lookup = [c \in Callers |-> NoLookup]
    /\ result = [c \in Callers |-> Absent]
    /\ witnessed = [c \in Callers |-> {}]
    /\ calls = 0

------------------------------------------------------------------------------
(* What the maps hold for a lookup at one moment (its sight), and the      *)
(* answer that follows from it.                                            *)

In(map, o, h) == IF o = NoObj THEN Absent ELSE map[o][h]

\* RunHandler's nil stands for "no run handler": a lookup does not find it.
RunOf(o) == IF o = NoObj \/ run[o] = NilFn THEN Absent ELSE run[o]

Sight(l) ==
    CASE l.op = "handler" -> [first |-> In(handlers, services[l.name], l.handler),
                              second |-> Absent]
      [] l.op = "keyed" -> [first |-> In(handlers, virtualObjects[l.name], l.handler),
                            second |-> IF l.handler = RunName
                                       THEN RunOf(workflows[l.name]) ELSE Absent]
      [] l.op = "query" -> [first |-> In(queries, workflows[l.name], l.handler),
                            second |-> Absent]
      [] l.op = "signal" -> [first |-> In(signals, workflows[l.name], l.handler),
                             second |-> Absent]

Answer(sight) == IF sight.first # Absent THEN sight.first ELSE sight.second

\* What was there to see at some moment since the lookup of c began.
Sights(c) == witnessed[c] \cup {Sight(lookup[c])}

\* Every step remembers it for the lookups that go on.
Witness ==
    witnessed' = [c \in Callers |->
        IF lookup[c].op # "none" /\ lookup'[c].op # "none" THEN Sights(c) ELSE {}]

------------------------------------------------------------------------------
(* The authoring objects.                                                  *)

\* A registering goroutine that is in no method of an object or of the registry.
Free(g) == taking[g] = NoObj /\ giving[g] = NoGift

Counted == calls < MaxCalls /\ calls' = calls + 1

\* The first half of Service.Handler, VirtualObject.Handler, Workflow.Query and
\* Workflow.Signal: a name that is there already is refused and nothing changes.
GiveIf(free, g, in, o, h, f) ==
    /\ Free(g)
    /\ free
    /\ giving' = [giving EXCEPT ![g] = [in |-> in, obj |-> o, name |-> h, fn |-> f]]
    /\ Counted
    /\ UNCHANGED <<contents, maps, taking, lookup, result>>

\* Mutant of ServiceHandler: a name whose function is nil counts as free.
ServiceHandlerNil(g, o, h, f) ==
    o \in Services /\ GiveIf(handlers[o][h] \in {Absent, NilFn}, g, "handlers", o, h, f)

ServiceHandler(g, o, h, f) ==
    o \in Services /\ GiveIf(handlers[o][h] = Absent, g, "handlers", o, h, f)
ObjectHandler(g, o, h, f) ==
    o \in VirtualObjects /\ GiveIf(handlers[o][h] = Absent, g, "handlers", o, h, f)
Query(g, w, h, f) == GiveIf(queries[w][h] = Absent, g, "queries", w, h, f)
Signal(g, w, h, f) == GiveIf(signals[w][h] = Absent, g, "signals", w, h, f)

Stored(map, in, gift) ==
    IF gift.in = in THEN [map EXCEPT ![gift.obj][gift.name] = gift.fn] ELSE map

\* The second half of the four: the store, whatever is there by now.
Give(g) ==
    /\ giving[g] # NoGift
    /\ handlers' = Stored(handlers, "handlers", giving[g])
    /\ queries' = Stored(queries, "queries", giving[g])
    /\ signals' = Stored(signals, "signals", giving[g])
    /\ giving' = [giving EXCEPT ![g] = NoGift]
    /\ UNCHANGED <<run, calls, maps, taking, lookup, result>>

\* Workflow.Run replaces what was set before; a nil function unsets the handler.
Run(g, w, f) ==
    /\ Free(g)
    /\ run' = [run EXCEPT ![w] = f]
    /\ Counted
    /\ UNCHANGED <<handlers, queries, signals, giving, maps, taking, lookup, result>>

\* Two goroutines that are between the halves with one name of one map race.
SameSlot(p, q) == p.in = q.in /\ p.obj = q.obj /\ p.name = q.name

WatchRaces ==
    raced' = {g \in Registrars :
        /\ giving'[g] # NoGift
        /\ g \in raced \/ \E k \in Registrars \ {g} : SameSlot(giving'[g], giving'[k])}

------------------------------------------------------------------------------
(* Register, RegisterVirtualObject, RegisterWorkflow: under the write lock *)
(* the name is looked for and then stored, in two steps here.  An empty or *)
(* duplicate name changes nothing.                                         *)

Locked == \E g \in Registrars : taking[g] # NoObj

\* Mutant of TakeName: the name is looked for before the lock is taken.
TakeNameUnlocked(g, o, map) ==
    /\ Free(g)
    /\ NameOf[o] # EmptyName
    /\ map[NameOf[o]] = NoObj
    /\ taking' = [taking EXCEPT ![g] = o]
    /\ UNCHANGED <<authoring, maps, lookup, result>>

TakeName(g, o, map) ==
    /\ Free(g) /\ ~Locked
    /\ NameOf[o] # EmptyName
    /\ map[NameOf[o]] = NoObj
    /\ taking' = [taking EXCEPT ![g] = o]
    /\ UNCHANGED <<authoring, maps, lookup, result>>

Register(g, o) == o \in Services /\ TakeName(g, o, services)
RegisterVirtualObject(g, o) == o \in VirtualObjects /\ TakeName(g, o, virtualObjects)
RegisterWorkflow(g, o) == o \in Workflows /\ TakeName(g, o, workflows)

Put(map, kind, o) == IF o \in kind THEN [map EXCEPT ![NameOf[o]] = o] ELSE map

\* Mutant of Store: RegisterWorkflow stores where RegisterVirtualObject does.
StoreAsObject(g) ==
    /\ taking[g] # NoObj
    /\ services' = Put(services, Services, taking[g])
    /\ virtualObjects' = Put(virtualObjects, VirtualObjects \cup Workflows, taking[g])
    /\ taking' = [taking EXCEPT ![g] = NoObj]
    /\ UNCHANGED <<authoring, workflows, lookup, result>>

Store(g) ==
    /\ taking[g] # NoObj
    /\ services' = Put(services, Services, taking[g])
    /\ virtualObjects' = Put(virtualObjects, VirtualObjects, taking[g])
    /\ workflows' = Put(workflows, Workflows, taking[g])
    /\ taking' = [taking EXCEPT ![g] = NoObj]
    /\ UNCHANGED <<authoring, lookup, result>>

------------------------------------------------------------------------------
(* LookupHandler, LookupKeyedHandler, and the lookup of a workflow's query *)
(* or signal, which the runtime makes in two calls.                        *)

Enter(c, op, at, n, h) ==
    /\ lookup[c].op = "none"
    /\ lookup' = [lookup EXCEPT ![c] =
                     [op |-> op, at |-> at, name |-> n, handler |-> h, obj |-> NoObj]]
    /\ result' = [result EXCEPT ![c] = Absent]
    /\ UNCHANGED <<authoring, maps, taking>>

LookupHandler(c, n, h) == Enter(c, "handler", "service", n, h)
LookupKeyedHandler(c, n, h) == Enter(c, "keyed", "object", n, h)
WorkflowLookup(c, n, h) == \E op \in {"query", "signal"} : Enter(c, op, "workflow", n, h)

Proceed(c, at, o) ==
    /\ lookup' = [lookup EXCEPT ![c].at = at, ![c].obj = o]
    /\ UNCHANGED <<authoring, maps, taking, result>>

ReturnFn(c, f) ==
    /\ lookup' = [lookup EXCEPT ![c] = NoLookup]
    /\ result' = [result EXCEPT ![c] = f]
    /\ UNCHANGED <<authoring, maps, taking>>

\* A registry map is read under the read lock.
ReadsMap(c, at) == lookup[c].at = at /\ lookup[c].obj = NoObj /\ ~Locked

\* A method of an object reads its map after the lock is released.
ReadsObject(c, op, at) == lookup[c].op = op /\ lookup[c].at = at /\ lookup[c].obj # NoObj

Lookup(c) ==
    /\ ReadsMap(c, "service")
    /\ LET o == services[lookup[c].name] IN
       IF o # NoObj THEN Proceed(c, "service", o) ELSE ReturnFn(c, Absent)

\* Service.Lookup
ServiceLookup(c) ==
    /\ ReadsObject(c, "handler", "service")
    /\ ReturnFn(c, handlers[lookup[c].obj][lookup[c].handler])

\* Mutant of TryWorkflow: the workflows are asked whatever the handler's name is.
TryWorkflowAlways(c) == Proceed(c, "workflow", NoObj)

\* Where a keyed lookup goes when the virtual objects have no answer.
TryWorkflow(c) ==
    IF lookup[c].handler = RunName THEN Proceed(c, "workflow", NoObj) ELSE ReturnFn(c, Absent)

LookupVirtualObject(c) ==
    /\ ReadsMap(c, "object")
    /\ LET o == virtualObjects[lookup[c].name] IN
       IF o # NoObj THEN Proceed(c, "object", o) ELSE TryWorkflow(c)

\* Mutants of ObjectLookup: an object without the handler ends the lookup; a nil
\* function counts as no handler.
ObjectLookupOnly(c) ==
    /\ ReadsObject(c, "keyed", "object")
    /\ ReturnFn(c, handlers[lookup[c].obj][lookup[c].handler])

ObjectLookupNil(c) ==
    /\ ReadsObject(c, "keyed", "object")
    /\ LET f == handlers[lookup[c].obj][lookup[c].handler] IN
       IF f \in Fns THEN ReturnFn(c, f) ELSE TryWorkflow(c)

\* VirtualObject.Lookup, and what LookupKeyedHandler makes of it
ObjectLookup(c) ==
    /\ ReadsObject(c, "keyed", "object")
    /\ LET f == handlers[lookup[c].obj][lookup[c].handler] IN
       IF f # Absent THEN ReturnFn(c, f) ELSE TryWorkflow(c)

LookupWorkflow(c) ==
    /\ ReadsMap(c, "workflow")
    /\ LET o == workflows[lookup[c].name] IN
       IF o # NoObj THEN Proceed(c, "workflow", o) ELSE ReturnFn(c, Absent)

\* Workflow.RunHandler, and LookupKeyedHandler's test for nil
RunHandler(c) ==
    /\ ReadsObject(c, "keyed", "workflow")
    /\ ReturnFn(c, RunOf(lookup[c].obj))

LookupQuery(c) ==
    /\ ReadsObject(c, "query", "workflow")
    /\ ReturnFn(c, queries[lookup[c].obj][lookup[c].handler])

LookupSignal(c) ==
    /\ ReadsObject(c, "signal", "workflow")
    /\ ReturnFn(c, signals[lookup[c].obj][lookup[c].handler])

------------------------------------------------------------------------------
Startup(g) ==
    \/ \E o \in Services \cup VirtualObjects, f \in Given : \E h \in Gives[o] :
          ServiceHandler(g, o, h, f) \/ ObjectHandler(g, o, h, f)
    \/ \E w \in Workflows, f \in Given :
          Run(g, w, f) \/ \E h \in Gives[w] : Query(g, w, h, f) \/ Signal(g, w, h, f)
    \/ Give(g)
    \/ \E o \in Objects :
          Register(g, o) \/ RegisterVirtualObject(g, o) \/ RegisterWorkflow(g, o)
    \/ Store(g)

Begin(c) ==
    \E n \in Names, h \in HandlerNames :
        LookupHandler(c, n, h) \/ LookupKeyedHandler(c, n, h) \/ WorkflowLookup(c, n, h)

LookupStep(c) ==
    \/ Lookup(c)
    \/ ServiceLookup(c)
    \/ LookupVirtualObject(c)
    \/ ObjectLookup(c)
    \/ LookupWorkflow(c)
    \/ RunHandler(c)
    \/ LookupQuery(c)
    \/ LookupSignal(c)

Next ==
    /\ (\E g \in Registrars : Startup(g)) \/ \E c \in Callers : Begin(c) \/ LookupStep(c)
    /\ WatchRaces
    /\ Witness

Spec == Init /\ [][Next]_vars

------------------------------------------------------------------------------
\* What can be on its way into an object's map.
Gifts ==
    {NoGift}
    \cup [in : {"handlers"}, obj : Services \cup VirtualObjects, name : HandlerNames, fn : Given]
    \cup [in : {"queries", "signals"}, obj : Workflows, name : HandlerNames, fn : Given]

\* The types of the maps and of the lookups; an object is only ever in the map of
\* its kind, and one goroutine at most holds the write lock.
TypeOK ==
    /\ handlers \in [Services \cup VirtualObjects -> [HandlerNames -> Entry]]
    /\ run \in [Workflows -> Given]
    /\ queries \in [Workflows -> [HandlerNames -> Entry]]
    /\ signals \in [Workflows -> [HandlerNames -> Entry]]
    /\ services \in [Names -> Services \cup {NoObj}]
    /\ virtualObjects \in [Names -> VirtualObjects \cup {NoObj}]
    /\ workflows \in [Names -> Workflows \cup {NoObj}]
    /\ taking \in [Registrars -> Objects \cup {NoObj}]
    /\ \A g1, g2 \in Registrars : NoObj \in {taking[g1], taking[g2]} \/ g1 = g2
    /\ giving \in [Registrars -> Gifts]
    /\ raced \in SUBSET Registrars
    /\ lookup \in [Callers -> [op : {"none", "handler", "keyed", "query", "signal"},
                               at : {"none", "service", "object", "workflow"},
                               name : Names \cup {EmptyName},
                               handler : HandlerNames, obj : Objects \cup {NoObj}]]
    /\ result \in [Callers -> Entry]
    /\ witnessed \in [Callers -> SUBSET [first : Entry, second : Entry]]
    /\ calls \in 0..MaxCalls

Returns(c) == lookup[c].op # "none" /\ lookup'[c].op = "none"

\* A lookup reads several maps in separate critical sections.  When what they hold
\* for it stays the same meanwhile, as it does when all is registered before
\* ("safe for concurrent reads after all Register calls complete",
\* register.go:35), the answer that follows from it is returned.
LookupExact ==
    [][\A c \in Callers : Returns(c) =>
          \A s \in Sights(c) : Sights(c) = {s} => result'[c] = Answer(s)]_vars

\* Even while objects are still filled and registered, "not found" is true: at
\* some moment of the lookup neither the object nor the workflow had the handler.
\* One case is excepted: the keyed lookup of "run" saw no such handler of the object,
\* the workflow had its run handler then, and Run(nil) has taken it away since
\* (workflow.go:107); a handler the object got meanwhile is not seen.
NotFoundIsTrue ==
    [][\A c \in Callers : Returns(c) /\ result'[c] = Absent =>
          \/ \E s \in Sights(c) : Answer(s) = Absent
          \/ /\ lookup[c].op = "keyed" /\ lookup[c].handler = RunName
             /\ \E s \in witnessed[c] : s.first = Absent /\ s.second # Absent
             /\ Sight(lookup[c]).second = Absent]_vars

\* What a lookup finds was there to be found.  Where one map has the answer it is the
\* registry's at some moment of the lookup, as if the lookup were one step.  Only a
\* keyed lookup of "run" (register.go:140-152) reads two maps, and it may then return
\* the run handler a workflow of the name had at some moment, although an object
\* that comes first was registered meanwhile.
FoundWasThere ==
    [][\A c \in Callers : Returns(c) /\ result'[c] # Absent =>
          \E s \in Sights(c) :
              \/ result'[c] = Answer(s)
              \/ /\ lookup[c].op = "keyed" /\ lookup[c].handler = RunName
                 /\ result'[c] = s.second]_vars

\* A name is bound once: of two registrations under one name the second is
\* refused, however the two goroutines interleave.
BoundOnce ==
    [][\A n \in Names :
          /\ services[n] # NoObj => services'[n] = services[n]
          /\ virtualObjects[n] # NoObj => virtualObjects'[n] = virtualObjects[n]
          /\ workflows[n] # NoObj => workflows'[n] = workflows[n]]_vars

\* Somebody stores f in this place, and looked for its name at the same time as
\* another who has stored there or will.
Contended(in, o, h, f) ==
    \E g \in raced : giving[g] = [in |-> in, obj |-> o, name |-> h, fn |-> f]

\* A handler, query or signal of one name is given once ("returns
\* ErrDuplicateHandler if name is already registered", service.go:73), even if the
\* first is nil and whoever gave it; only of two calls whose checks both came
\* before either store (service.go:78 and 82) the later store replaces the earlier.
GivenOnce ==
    [][\A h \in HandlerNames :
          /\ \A o \in Services \cup VirtualObjects :
                \/ handlers[o][h] \in {Absent, handlers'[o][h]}
                \/ Contended("handlers", o, h, handlers'[o][h])
          /\ \A w \in Workflows :
                /\ \/ queries[w][h] \in {Absent, queries'[w][h]}
                   \/ Contended("queries", w, h, queries'[w][h])
                /\ \/ signals[w][h] \in {Absent, signals'[w][h]}
                   \/ Contended("signals", w, h, signals'[w][h])]_vars

\* "A Workflow's run-once handler is resolvable as a keyed handler under
\* (workflowName, "run")" (register.go:140): the answer for it is its own.
WorkflowRunResolvable ==
    \A n \in Names :
        LET keyed == [NoLookup EXCEPT !.op = "keyed", !.name = n] IN
        RunOf(workflows[n]) # Absent => Answer(Sight(keyed)) = RunOf(workflows[n])
==============================================================================
