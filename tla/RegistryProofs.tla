--------------------------- MODULE RegistryProofs ----------------------------
(***************************************************************************)
(* Proofs about Registry, for any objects, names, goroutines and calls.    *)
(*                                                                         *)
(* The argument: a registration that holds the write lock has found its    *)
(* name free (NamesFree), so a name is bound once, and the object a lookup *)
(* has in hand is still the one the registry holds (LookupsFit).  A keyed  *)
(* lookup that has gone on to the workflows saw, at that moment, no        *)
(* handler of the virtual object (WorkflowsTried): if it ends without an   *)
(* answer, either the workflow had none then, or it has lost it since.     *)
(*                                                                         *)
(* Two goroutines that are about to store in one place have met            *)
(* (RacesSeen); the place of one that has met nobody is still as free as   *)
(* it was when it looked (GiftsFree), so only a race replaces a function.  *)
(***************************************************************************)
EXTENDS Registry, TLAPS

\* Where a lookup is fits what it looks for, and the object in its hand is bound.
Fits(l) ==
    /\ l.op # "none" => l.name \in Names
    /\ l.at = "none" <=> l.op = "none"
    /\ l.at = "service" <=> l.op = "handler"
    /\ l.at = "object" => l.op = "keyed"
    /\ l.at = "workflow" /\ l.op = "keyed" => l.handler = RunName
    /\ l.obj # NoObj /\ l.at = "service" => l.obj = services[l.name]
    /\ l.obj # NoObj /\ l.at = "object" => l.obj = virtualObjects[l.name]
    /\ l.obj # NoObj /\ l.at = "workflow" => l.obj = workflows[l.name]

LookupsFit == \A c \in Callers : Fits(lookup[c])

\* Whoever holds the write lock has found the name free.
NamesFree ==
    \A g \in Registrars : taking[g] # NoObj =>
        /\ NameOf[taking[g]] \in Names
        /\ taking[g] \in Services => services[NameOf[taking[g]]] = NoObj
        /\ taking[g] \in VirtualObjects => virtualObjects[NameOf[taking[g]]] = NoObj
        /\ taking[g] \in Workflows => workflows[NameOf[taking[g]]] = NoObj

\* A keyed lookup that asks the workflows has seen the objects without an answer.
WorkflowsTried ==
    \A c \in Callers : lookup[c].op = "keyed" /\ lookup[c].at = "workflow" =>
        \E s \in witnessed[c] : s.first = Absent

IInv ==
    /\ TypeOK
    /\ LookupsFit
    /\ NamesFree
    /\ WorkflowsTried

\* What a lookup looks at has the type of a sight.
LEMMA SightTyped ==
    ASSUME TypeOK, LookupsFit, NEW c \in Callers, lookup[c].op # "none"
    PROVE  Sight(lookup[c]) \in [first : Entry, second : Entry]
  <1> DEFINE l == lookup[c]
  <1>1. /\ l.name \in Names /\ l.handler \in HandlerNames
        /\ l.op \in {"handler", "keyed", "query", "signal"}
    BY DEF TypeOK, LookupsFit, Fits
  <1>2. /\ services[l.name] \in Services \cup {NoObj}
        /\ virtualObjects[l.name] \in VirtualObjects \cup {NoObj}
        /\ workflows[l.name] \in Workflows \cup {NoObj}
    BY <1>1 DEF TypeOK
  <1>3. Absent \in Entry
    BY DEF Entry
  <1>4. CASE l.op = "handler"
    <2>1. In(handlers, services[l.name], l.handler) \in Entry
      BY <1>1, <1>2, <1>3 DEF In, TypeOK
    <2> QED
      BY <2>1, <1>3, <1>4 DEF Sight
  <1>5. CASE l.op = "keyed"
    <2>1. In(handlers, virtualObjects[l.name], l.handler) \in Entry
      BY <1>1, <1>2, <1>3 DEF In, TypeOK
    <2>2. RunOf(workflows[l.name]) \in Entry
      BY <1>1, <1>2, <1>3 DEF RunOf, TypeOK, Entry
    <2> QED
      BY <2>1, <2>2, <1>3, <1>5 DEF Sight
  <1>6. CASE l.op = "query"
    <2>1. In(queries, workflows[l.name], l.handler) \in Entry
      BY <1>1, <1>2, <1>3 DEF In, TypeOK
    <2> QED
      BY <2>1, <1>3, <1>6 DEF Sight
  <1>7. CASE l.op = "signal"
    <2>1. In(signals, workflows[l.name], l.handler) \in Entry
      BY <1>1, <1>2, <1>3 DEF In, TypeOK
    <2> QED
      BY <2>1, <1>3, <1>7 DEF Sight
  <1> QED
    BY <1>1, <1>4, <1>5, <1>6, <1>7

\* The history keeps its type, and forgets nothing of a lookup that goes on.
LEMMA WitnessKept ==
    ASSUME TypeOK, LookupsFit, WatchRaces, Witness
    PROVE  /\ raced' \in SUBSET Registrars
           /\ witnessed' \in [Callers -> SUBSET [first : Entry, second : Entry]]
           /\ \A c \in Callers : lookup[c].op # "none" /\ lookup'[c].op # "none" =>
                 witnessed'[c] = witnessed[c] \cup {Sight(lookup[c])}
  <1>1. \A c \in Callers : lookup[c].op # "none" =>
            Sight(lookup[c]) \in [first : Entry, second : Entry]
    BY SightTyped
  <1>2. \A c \in Callers :
            witnessed'[c] = IF lookup[c].op # "none" /\ lookup'[c].op # "none"
                            THEN Sights(c) ELSE {}
    BY DEF Witness
  <1>3. \A c \in Callers : lookup[c].op # "none" =>
            Sights(c) \in SUBSET [first : Entry, second : Entry]
    BY <1>1 DEF Sights, TypeOK
  <1>4. raced' \in SUBSET Registrars
    BY DEF WatchRaces
  <1> QED
    BY <1>1, <1>2, <1>3, <1>4 DEF Witness, Sights

------------------------------------------------------------------------------
(* What a step binds stays bound.                                          *)

\* A registration stores under a name it has found free.
LEMMA StoreBound ==
    ASSUME IInv, NEW g \in Registrars, Store(g), NEW n \in Names
    PROVE  /\ services[n] # NoObj => services'[n] = services[n]
           /\ virtualObjects[n] # NoObj => virtualObjects'[n] = virtualObjects[n]
           /\ workflows[n] # NoObj => workflows'[n] = workflows[n]
  <1> DEFINE o == taking[g]
  <1>1. /\ o # NoObj
        /\ services' = Put(services, Services, o)
        /\ virtualObjects' = Put(virtualObjects, VirtualObjects, o)
        /\ workflows' = Put(workflows, Workflows, o)
    BY DEF Store
  <1>2. /\ o \in Services => services[NameOf[o]] = NoObj
        /\ o \in VirtualObjects => virtualObjects[NameOf[o]] = NoObj
        /\ o \in Workflows => workflows[NameOf[o]] = NoObj
    BY <1>1 DEF IInv, NamesFree
  <1> QED
    BY <1>1, <1>2 DEF IInv, TypeOK, Put

\* Every other step leaves the registry's maps alone.
LEMMA MapsBound ==
    ASSUME IInv, Next, NEW n \in Names
    PROVE  /\ services[n] # NoObj => services'[n] = services[n]
           /\ virtualObjects[n] # NoObj => virtualObjects'[n] = virtualObjects[n]
           /\ workflows[n] # NoObj => workflows'[n] = workflows[n]
  <1>1. ASSUME NEW c \in Callers, Begin(c) \/ LookupStep(c)
        PROVE  UNCHANGED maps
    BY <1>1 DEF Begin, LookupHandler, LookupKeyedHandler, WorkflowLookup, Enter, LookupStep, Lookup,
       ServiceLookup, LookupVirtualObject, ObjectLookup, LookupWorkflow, RunHandler, LookupQuery,
       LookupSignal, TryWorkflow, Proceed, ReturnFn
  <1>2. ASSUME NEW g \in Registrars, Startup(g)
        PROVE  UNCHANGED maps \/ Store(g)
    BY <1>2 DEF Startup, ServiceHandler, ObjectHandler, Query, Signal, GiveIf, Give, Run, Register,
       RegisterVirtualObject, RegisterWorkflow, TakeName
  <1>3. UNCHANGED maps \/ \E g \in Registrars : Store(g)
    BY <1>1, <1>2 DEF Next
  <1> QED
    BY <1>3, StoreBound DEF maps

------------------------------------------------------------------------------
(* The invariant.                                                          *)

\* The empty registry satisfies it.
LEMMA InitIInv == Init => IInv
  <1> SUFFICES ASSUME Init PROVE IInv
    OBVIOUS
  <1>1. EmptyMap \in [HandlerNames -> Entry]
    BY DEF EmptyMap, Entry
  <1>2. NoLookup \in [op : {"none", "handler", "keyed", "query", "signal"},
                      at : {"none", "service", "object", "workflow"},
                      name : Names \cup {EmptyName},
                      handler : HandlerNames, obj : Objects \cup {NoObj}]
    BY RegistryAssumption DEF NoLookup
  <1>3. giving \in [Registrars -> Gifts] /\ raced \in SUBSET Registrars
    BY DEF Init, Gifts
  <1>4. TypeOK
    BY <1>1, <1>2, <1>3, RegistryAssumption
    DEF Init, TypeOK, NewService, NewVirtualObject, NewWorkflow, NewRegistry, Given, Entry
  <1>5. LookupsFit
    BY DEF Init, LookupsFit, Fits, NoLookup
  <1>6. NamesFree /\ WorkflowsTried
    BY DEF Init, NamesFree, WorkflowsTried, NoLookup
  <1> QED
    BY <1>4, <1>5, <1>6 DEF IInv

\* Startup leaves lookups where they are, and disturbs none of them.
LEMMA UndisturbedIInv ==
    ASSUME IInv, TypeOK', NamesFree', WatchRaces, Witness, UNCHANGED lookup,
           \A n \in Names :
              /\ services[n] # NoObj => services'[n] = services[n]
              /\ virtualObjects[n] # NoObj => virtualObjects'[n] = virtualObjects[n]
              /\ workflows[n] # NoObj => workflows'[n] = workflows[n]
    PROVE  IInv'
  <1>1. LookupsFit'
    <2> SUFFICES ASSUME NEW c \in Callers PROVE Fits(lookup[c])'
      BY DEF LookupsFit
    <2> DEFINE l == lookup[c]
    <2>1. Fits(l) /\ l' = l
      BY DEF IInv, LookupsFit
    <2>2. l.obj # NoObj /\ l.op # "none" =>
              /\ l.at = "service" => services'[l.name] = services[l.name]
              /\ l.at = "object" => virtualObjects'[l.name] = virtualObjects[l.name]
              /\ l.at = "workflow" => workflows'[l.name] = workflows[l.name]
      BY <2>1 DEF Fits
    <2> QED
      BY <2>1, <2>2 DEF Fits
  <1>2. WorkflowsTried'
    <2> SUFFICES ASSUME NEW c \in Callers, lookup[c].op = "keyed", lookup[c].at = "workflow"
                 PROVE  \E s \in witnessed'[c] : s.first = Absent
      BY DEF WorkflowsTried
    <2>1. witnessed'[c] = witnessed[c] \cup {Sight(lookup[c])}
      BY WitnessKept DEF IInv
    <2>2. \E s \in witnessed[c] : s.first = Absent
      BY DEF IInv, WorkflowsTried
    <2> QED
      BY <2>1, <2>2
  <1> QED
    BY <1>1, <1>2 DEF IInv

\* What startup code does, one method at a time.
LEMMA StartupSteps ==
    ASSUME NEW g \in Registrars, Startup(g)
    PROVE  \/ \E o \in Services \cup VirtualObjects, h \in HandlerNames, f \in Given :
                 GiveIf(handlers[o][h] = Absent, g, "handlers", o, h, f)
           \/ \E w \in Workflows, h \in HandlerNames, f \in Given :
                 \/ GiveIf(queries[w][h] = Absent, g, "queries", w, h, f)
                 \/ GiveIf(signals[w][h] = Absent, g, "signals", w, h, f)
           \/ \E w \in Workflows, f \in Given : Run(g, w, f)
           \/ Give(g)
           \/ \E o \in Objects :
                 Register(g, o) \/ RegisterVirtualObject(g, o) \/ RegisterWorkflow(g, o)
           \/ Store(g)
  <1>1. \A o \in Objects : Gives[o] \subseteq HandlerNames
    BY RegistryAssumption
  <1>2. ASSUME NEW o \in Services \cup VirtualObjects, NEW f \in Given, NEW h \in Gives[o],
               ServiceHandler(g, o, h, f) \/ ObjectHandler(g, o, h, f)
        PROVE  h \in HandlerNames /\ GiveIf(handlers[o][h] = Absent, g, "handlers", o, h, f)
    BY <1>1, <1>2 DEF Objects, ServiceHandler, ObjectHandler
  <1>3. ASSUME NEW w \in Workflows, NEW f \in Given, NEW h \in Gives[w],
               Query(g, w, h, f) \/ Signal(g, w, h, f)
        PROVE  /\ h \in HandlerNames
               /\ \/ GiveIf(queries[w][h] = Absent, g, "queries", w, h, f)
                  \/ GiveIf(signals[w][h] = Absent, g, "signals", w, h, f)
    BY <1>1, <1>3 DEF Objects, Query, Signal
  <1> QED
    BY <1>2, <1>3 DEF Startup

\* Looking for the name of a handler, query or signal.
LEMMA GiveIfIInv ==
    ASSUME IInv, WatchRaces, Witness, NEW free, NEW g \in Registrars, NEW h \in HandlerNames,
           NEW f \in Given, NEW in, NEW o, GiveIf(free, g, in, o, h, f),
           \/ in = "handlers" /\ o \in Services \cup VirtualObjects
           \/ in \in {"queries", "signals"} /\ o \in Workflows
    PROVE  IInv'
  <1> DEFINE gift == [in |-> in, obj |-> o, name |-> h, fn |-> f]
  <1>1. /\ calls < MaxCalls /\ calls' = calls + 1
        /\ giving' = [giving EXCEPT ![g] = gift]
        /\ UNCHANGED <<contents, maps, taking, lookup, result>>
    BY DEF GiveIf, Counted
  <1>2. gift \in Gifts
    BY DEF Gifts
  <1>3. giving' \in [Registrars -> Gifts]
    BY <1>1, <1>2 DEF IInv, TypeOK
  <1>4. calls' \in 0 .. MaxCalls
    BY <1>1, RegistryAssumption DEF IInv, TypeOK
  <1>5. /\ raced' \in SUBSET Registrars
        /\ witnessed' \in [Callers -> SUBSET [first : Entry, second : Entry]]
    BY WitnessKept DEF IInv
  <1>6. TypeOK'
    BY <1>1, <1>3, <1>4, <1>5 DEF contents, maps, IInv, TypeOK
  <1>7. NamesFree'
    BY <1>1 DEF maps, IInv, NamesFree
  <1> QED
    BY <1>1, <1>6, <1>7, UndisturbedIInv DEF maps

\* A map that a gift is stored in keeps its type.
LEMMA StoredTyped ==
    ASSUME NEW Objs, NEW map \in [Objs -> [HandlerNames -> Entry]], NEW in, NEW gift,
           gift.in = in => gift.obj \in Objs /\ gift.name \in HandlerNames /\ gift.fn \in Entry
    PROVE  Stored(map, in, gift) \in [Objs -> [HandlerNames -> Entry]]
  BY DEF Stored

\* What a goroutine has in hand for an object fits the object.
LEMMA GiftFits ==
    ASSUME TypeOK, NEW g \in Registrars, giving[g] # NoGift
    PROVE  LET p == giving[g] IN
           /\ p.in \in {"handlers", "queries", "signals"}
           /\ p.in = "handlers" => p.obj \in Services \cup VirtualObjects
           /\ p.in # "handlers" => p.obj \in Workflows
           /\ p.name \in HandlerNames /\ p.fn \in Given
           /\ p = [in |-> p.in, obj |-> p.obj, name |-> p.name, fn |-> p.fn]
  BY DEF TypeOK, Gifts

\* Storing it.
LEMMA GiveIInv ==
    ASSUME IInv, WatchRaces, Witness, NEW g \in Registrars, Give(g)
    PROVE  IInv'
  <1>1. /\ giving[g] # NoGift
        /\ handlers' = Stored(handlers, "handlers", giving[g])
        /\ queries' = Stored(queries, "queries", giving[g])
        /\ signals' = Stored(signals, "signals", giving[g])
        /\ giving' = [giving EXCEPT ![g] = NoGift]
        /\ UNCHANGED <<run, calls, maps, taking, lookup, result>>
    BY DEF Give
  <1>2. /\ handlers' \in [Services \cup VirtualObjects -> [HandlerNames -> Entry]]
        /\ queries' \in [Workflows -> [HandlerNames -> Entry]]
        /\ signals' \in [Workflows -> [HandlerNames -> Entry]]
    <2>1. giving[g].fn \in Entry
      BY <1>1, GiftFits DEF IInv, Entry
    <2> QED
      BY <1>1, <2>1, GiftFits, StoredTyped DEF IInv, TypeOK
  <1>3. giving' \in [Registrars -> Gifts]
    BY <1>1 DEF IInv, TypeOK, Gifts
  <1>4. /\ raced' \in SUBSET Registrars
        /\ witnessed' \in [Callers -> SUBSET [first : Entry, second : Entry]]
    BY WitnessKept DEF IInv
  <1>5. TypeOK'
    BY <1>1, <1>2, <1>3, <1>4 DEF maps, IInv, TypeOK
  <1>6. NamesFree'
    BY <1>1 DEF maps, IInv, NamesFree
  <1> QED
    BY <1>1, <1>5, <1>6, UndisturbedIInv DEF maps

\* Setting a workflow's run handler.
LEMMA RunIInv ==
    ASSUME IInv, WatchRaces, Witness, NEW g \in Registrars, NEW w \in Workflows,
           NEW f \in Given, Run(g, w, f)
    PROVE  IInv'
  <1>1. /\ calls < MaxCalls /\ calls' = calls + 1
        /\ run' = [run EXCEPT ![w] = f]
        /\ UNCHANGED <<handlers, queries, signals, giving, maps, taking, lookup, result>>
    BY DEF Run, Counted
  <1>2. run' \in [Workflows -> Given]
    BY <1>1 DEF IInv, TypeOK
  <1>3. calls' \in 0 .. MaxCalls
    BY <1>1, RegistryAssumption DEF IInv, TypeOK
  <1>4. /\ raced' \in SUBSET Registrars
        /\ witnessed' \in [Callers -> SUBSET [first : Entry, second : Entry]]
    BY WitnessKept DEF IInv
  <1>5. TypeOK'
    BY <1>1, <1>2, <1>3, <1>4 DEF maps, IInv, TypeOK
  <1>6. NamesFree'
    BY <1>1 DEF maps, IInv, NamesFree
  <1> QED
    BY <1>1, <1>5, <1>6, UndisturbedIInv DEF maps

\* A registration takes the lock and finds its name free.
LEMMA TakeNameIInv ==
    ASSUME IInv, WatchRaces, Witness, NEW g \in Registrars, NEW o \in Objects,
           Register(g, o) \/ RegisterVirtualObject(g, o) \/ RegisterWorkflow(g, o)
    PROVE  IInv'
  <1>1. /\ ~Locked /\ NameOf[o] # EmptyName
        /\ taking' = [taking EXCEPT ![g] = o]
        /\ UNCHANGED <<authoring, maps, lookup, result>>
    BY DEF Register, RegisterVirtualObject, RegisterWorkflow, TakeName
  <1>2. NameOf[o] \in Names
    BY <1>1, RegistryAssumption
  <1>3. /\ o \in Services => services[NameOf[o]] = NoObj
        /\ o \in VirtualObjects => virtualObjects[NameOf[o]] = NoObj
        /\ o \in Workflows => workflows[NameOf[o]] = NoObj
    BY RegistryAssumption DEF Register, RegisterVirtualObject, RegisterWorkflow, TakeName
  <1>4. \A k \in Registrars : taking'[k] = IF k = g THEN o ELSE NoObj
    BY <1>1 DEF Locked, IInv, TypeOK
  <1>5. /\ raced' \in SUBSET Registrars
        /\ witnessed' \in [Callers -> SUBSET [first : Entry, second : Entry]]
    BY WitnessKept DEF IInv
  <1>6. taking' \in [Registrars -> Objects \cup {NoObj}]
    BY <1>1 DEF IInv, TypeOK
  <1>7. TypeOK'
    BY <1>1, <1>4, <1>5, <1>6 DEF authoring, contents, maps, IInv, TypeOK
  <1>8. NamesFree'
    BY <1>1, <1>2, <1>3, <1>4 DEF maps, NamesFree
  <1> QED
    BY <1>1, <1>7, <1>8, UndisturbedIInv DEF maps

\* It stores the object and gives the lock back.
LEMMA StoreIInv ==
    ASSUME IInv, WatchRaces, Witness, NEW g \in Registrars, Store(g)
    PROVE  IInv'
  <1> DEFINE o == taking[g]
  <1>1. /\ o # NoObj
        /\ services' = Put(services, Services, o)
        /\ virtualObjects' = Put(virtualObjects, VirtualObjects, o)
        /\ workflows' = Put(workflows, Workflows, o)
        /\ taking' = [taking EXCEPT ![g] = NoObj]
        /\ UNCHANGED <<authoring, lookup, result>>
    BY DEF Store
  <1>2. \A k \in Registrars : taking'[k] = NoObj
    BY <1>1 DEF IInv, TypeOK
  <1>3. /\ services' \in [Names -> Services \cup {NoObj}]
        /\ virtualObjects' \in [Names -> VirtualObjects \cup {NoObj}]
        /\ workflows' \in [Names -> Workflows \cup {NoObj}]
    BY <1>1 DEF Put, IInv, TypeOK
  <1>4. /\ raced' \in SUBSET Registrars
        /\ witnessed' \in [Callers -> SUBSET [first : Entry, second : Entry]]
    BY WitnessKept DEF IInv
  <1>5. taking' \in [Registrars -> Objects \cup {NoObj}]
    BY <1>1 DEF IInv, TypeOK
  <1>6. TypeOK'
    BY <1>1, <1>2, <1>3, <1>4, <1>5 DEF authoring, contents, IInv, TypeOK
  <1>7. NamesFree'
    BY <1>2 DEF NamesFree
  <1> QED
    BY <1>1, <1>6, <1>7, StoreBound, UndisturbedIInv

------------------------------------------------------------------------------
(* The steps of a lookup.                                                  *)

\* The type of a lookup.
LookupRecord ==
    [op : {"none", "handler", "keyed", "query", "signal"},
     at : {"none", "service", "object", "workflow"},
     name : Names \cup {EmptyName}, handler : HandlerNames, obj : Objects \cup {NoObj}]

\* A lookup becomes l.  Another one, of this caller or of others, is not
\* disturbed; one that goes on to the workflows has seen no handler before.
LEMMA MoveIInv ==
    ASSUME IInv, WatchRaces, Witness, NEW c \in Callers, NEW l \in LookupRecord,
           UNCHANGED <<authoring, maps, taking>>,
           lookup' = [lookup EXCEPT ![c] = l],
           result' \in [Callers -> Entry],
           Fits(l),
           l.op = "keyed" /\ l.at = "workflow" =>
               /\ lookup[c].op = "keyed" /\ l.name = lookup[c].name
               /\ lookup[c].at # "workflow" =>
                      Sight(lookup[c]).first = Absent /\ lookup[c].handler = RunName
    PROVE  IInv'
  <1>1. /\ \A d \in Callers : lookup'[d] = IF d = c THEN l ELSE lookup[d]
        /\ lookup' \in [Callers -> LookupRecord]
    BY DEF IInv, TypeOK, LookupRecord
  <1>2. /\ raced' \in SUBSET Registrars
        /\ witnessed' \in [Callers -> SUBSET [first : Entry, second : Entry]]
    BY WitnessKept DEF IInv
  <1>3. TypeOK'
    BY <1>1, <1>2 DEF authoring, contents, maps, IInv, TypeOK, LookupRecord
  <1>4. LookupsFit'
    <2> SUFFICES ASSUME NEW d \in Callers PROVE Fits(lookup[d])'
      BY DEF LookupsFit
    <2>1. Fits(lookup'[d])
      BY <1>1 DEF IInv, LookupsFit
    <2> QED
      BY <2>1 DEF Fits, maps
  <1>5. NamesFree'
    BY DEF IInv, NamesFree, maps
  <1>6. WorkflowsTried'
    <2> SUFFICES ASSUME NEW d \in Callers, lookup'[d].op = "keyed", lookup'[d].at = "workflow"
                 PROVE  \E s \in witnessed'[d] : s.first = Absent
      BY DEF WorkflowsTried
    <2>1. /\ lookup[d].op = "keyed" /\ lookup'[d].name = lookup[d].name
          /\ lookup[d].at # "workflow" =>
                Sight(lookup[d]).first = Absent /\ lookup[d].handler = RunName
      BY <1>1
    <2>2. witnessed'[d] = witnessed[d] \cup {Sight(lookup[d])}
      BY <2>1, WitnessKept DEF IInv
    <2>4. CASE lookup[d].at = "workflow"
      BY <2>1, <2>2, <2>4 DEF IInv, WorkflowsTried
    <2>5. CASE lookup[d].at # "workflow"
      BY <2>1, <2>2, <2>5
    <2> QED
      BY <2>4, <2>5
  <1> QED
    BY <1>3, <1>4, <1>5, <1>6 DEF IInv

\* A lookup begins.
LEMMA BeginIInv ==
    ASSUME IInv, WatchRaces, Witness, NEW c \in Callers, Begin(c)
    PROVE  IInv'
  <1>1. PICK op \in {"handler", "keyed", "query", "signal"},
             at \in {"service", "object", "workflow"}, n \in Names, h \in HandlerNames :
          /\ Enter(c, op, at, n, h)
          /\ at = "service" <=> op = "handler"
          /\ at = "object" <=> op = "keyed"
    BY DEF Begin, LookupHandler, LookupKeyedHandler, WorkflowLookup
  <1> DEFINE l == [op |-> op, at |-> at, name |-> n, handler |-> h, obj |-> NoObj]
  <1>2. l \in LookupRecord /\ Fits(l) /\ ~(l.op = "keyed" /\ l.at = "workflow")
    BY <1>1 DEF LookupRecord, Fits
  <1>3. result' \in [Callers -> Entry]
    BY <1>1 DEF Enter, IInv, TypeOK, Entry
  <1>4. lookup' = [lookup EXCEPT ![c] = l] /\ UNCHANGED <<authoring, maps, taking>>
    BY <1>1 DEF Enter
  <1> HIDE DEF l
  <1> QED
    BY <1>2, <1>3, <1>4, MoveIInv

\* A lookup ends.
LEMMA ReturnIInv ==
    ASSUME IInv, WatchRaces, Witness, NEW c \in Callers, NEW f \in Entry, ReturnFn(c, f)
    PROVE  IInv'
  <1>1. NoLookup \in LookupRecord /\ Fits(NoLookup) /\ NoLookup.op = "none"
    BY RegistryAssumption DEF LookupRecord, Fits, NoLookup
  <1>2. result' \in [Callers -> Entry]
    BY DEF ReturnFn, IInv, TypeOK
  <1> QED
    BY <1>1, <1>2, MoveIInv DEF ReturnFn

\* A lookup goes on, with what it has found.
LEMMA ProceedIInv ==
    ASSUME IInv, WatchRaces, Witness, NEW c \in Callers,
           NEW at \in {"service", "object", "workflow"}, NEW o \in Objects \cup {NoObj},
           Proceed(c, at, o),
           lookup[c].op # "none",
           at = "service" <=> lookup[c].op = "handler",
           at = "object" => lookup[c].op = "keyed",
           at = "workflow" /\ lookup[c].op = "keyed" =>
               /\ lookup[c].handler = RunName
               /\ lookup[c].at # "workflow" => Sight(lookup[c]).first = Absent,
           o # NoObj => /\ at = "service" => o = services[lookup[c].name]
                        /\ at = "object" => o = virtualObjects[lookup[c].name]
                        /\ at = "workflow" => o = workflows[lookup[c].name]
    PROVE  IInv'
  <1> DEFINE l == [lookup[c] EXCEPT !.at = at, !.obj = o]
  <1>1. lookup[c] \in LookupRecord /\ lookup[c].name \in Names
    BY DEF IInv, TypeOK, LookupsFit, Fits, LookupRecord
  <1>2. /\ l \in LookupRecord /\ l.op = lookup[c].op /\ l.name = lookup[c].name
        /\ l.handler = lookup[c].handler /\ l.at = at /\ l.obj = o
    BY <1>1 DEF LookupRecord
  <1>3. lookup' = [lookup EXCEPT ![c] = l] /\ UNCHANGED <<authoring, maps, taking, result>>
    BY DEF Proceed, IInv, TypeOK
  <1> HIDE DEF l
  <1>4. Fits(l)
    BY <1>1, <1>2 DEF Fits
  <1>5. result' \in [Callers -> Entry]
    BY <1>3 DEF IInv, TypeOK
  <1> QED
    BY <1>2, <1>3, <1>4, <1>5, MoveIInv

\* What a lookup reads has the type of an entry.
LEMMA ReadsTyped ==
    ASSUME IInv, NEW c \in Callers
    PROVE  /\ lookup[c].handler \in HandlerNames
           /\ ReadsObject(c, "handler", "service") \/ ReadsObject(c, "keyed", "object") =>
                 handlers[lookup[c].obj][lookup[c].handler] \in Entry
           /\ ReadsObject(c, "keyed", "workflow") => RunOf(lookup[c].obj) \in Entry
           /\ ReadsObject(c, "query", "workflow") =>
                 queries[lookup[c].obj][lookup[c].handler] \in Entry
           /\ ReadsObject(c, "signal", "workflow") =>
                 signals[lookup[c].obj][lookup[c].handler] \in Entry
  <1> DEFINE l == lookup[c]
  <1>1. l.handler \in HandlerNames /\ (l.op # "none" => l.name \in Names) /\ Fits(l)
    BY DEF IInv, TypeOK, LookupsFit, Fits
  <1>2. l.obj # NoObj /\ l.op # "none" =>
            /\ l.at = "service" => l.obj \in Services
            /\ l.at = "object" => l.obj \in VirtualObjects
            /\ l.at = "workflow" => l.obj \in Workflows
    BY <1>1 DEF Fits, IInv, TypeOK
  <1>3. l.obj \in Workflows => RunOf(l.obj) \in Entry
    BY RegistryAssumption DEF RunOf, IInv, TypeOK, Entry, Given
  <1> QED
    BY <1>1, <1>2, <1>3 DEF ReadsObject, IInv, TypeOK

\* A keyed lookup that has no answer of the virtual objects.
LEMMA TryWorkflowIInv ==
    ASSUME IInv, WatchRaces, Witness, NEW c \in Callers, TryWorkflow(c),
           lookup[c].op = "keyed", lookup[c].at = "object",
           In(handlers, virtualObjects[lookup[c].name], lookup[c].handler) = Absent
    PROVE  IInv'
  <1>1. CASE lookup[c].handler = RunName
    <2>1. Sight(lookup[c]).first = Absent
      BY DEF Sight
    <2>2. Proceed(c, "workflow", NoObj)
      BY <1>1 DEF TryWorkflow
    <2> QED
      BY <1>1, <2>1, <2>2, ProceedIInv
  <1>2. CASE lookup[c].handler # RunName
    BY <1>2, ReturnIInv DEF TryWorkflow, Entry
  <1> QED
    BY <1>1, <1>2

\* Every step of a lookup keeps the invariant.
LEMMA LookupStepIInv ==
    ASSUME IInv, WatchRaces, Witness, NEW c \in Callers, LookupStep(c)
    PROVE  IInv'
  <1> DEFINE l == lookup[c]
  <1>1. Fits(l) /\ l.op \in {"none", "handler", "keyed", "query", "signal"}
    BY DEF IInv, TypeOK, LookupsFit
  <1>2. Absent \in Entry
    BY DEF Entry
  <1>3. l.op # "none" =>
            /\ l.name \in Names
            /\ services[l.name] \in Objects \cup {NoObj}
            /\ virtualObjects[l.name] \in Objects \cup {NoObj}
            /\ workflows[l.name] \in Objects \cup {NoObj}
    BY <1>1 DEF Fits, IInv, TypeOK, Objects
  <1>4. CASE Lookup(c)
    <2>1. l.op = "handler"
      BY <1>1, <1>4 DEF Lookup, ReadsMap, Fits
    <2>2. CASE services[l.name] # NoObj
      <3>1. Proceed(c, "service", services[l.name])
        BY <1>4, <2>2 DEF Lookup
      <3> QED
        BY <1>3, <2>1, <3>1, ProceedIInv
    <2>3. CASE services[l.name] = NoObj
      BY <1>2, <1>4, <2>3, ReturnIInv DEF Lookup
    <2> QED
      BY <2>2, <2>3
  <1>5. CASE ServiceLookup(c)
    BY <1>5, ReadsTyped, ReturnIInv DEF ServiceLookup
  <1>6. CASE LookupVirtualObject(c)
    <2>1. l.op = "keyed" /\ l.at = "object"
      BY <1>1, <1>6 DEF LookupVirtualObject, ReadsMap, Fits
    <2>2. CASE virtualObjects[l.name] # NoObj
      <3>1. Proceed(c, "object", virtualObjects[l.name])
        BY <1>6, <2>2 DEF LookupVirtualObject
      <3> QED
        BY <1>3, <2>1, <3>1, ProceedIInv
    <2>3. CASE virtualObjects[l.name] = NoObj
      BY <1>6, <2>1, <2>3, TryWorkflowIInv DEF LookupVirtualObject, In
    <2> QED
      BY <2>2, <2>3
  <1>7. CASE ObjectLookup(c)
    <2>1. l.op = "keyed" /\ l.at = "object" /\ l.obj # NoObj /\ l.obj = virtualObjects[l.name]
      BY <1>1, <1>7 DEF ObjectLookup, ReadsObject, Fits
    <2>2. CASE handlers[l.obj][l.handler] # Absent
      <3>1. ReturnFn(c, handlers[l.obj][l.handler]) /\ ReadsObject(c, "keyed", "object")
        BY <1>7, <2>2 DEF ObjectLookup
      <3> QED
        BY <3>1, ReadsTyped, ReturnIInv
    <2>3. CASE handlers[l.obj][l.handler] = Absent
      <3>1. TryWorkflow(c)
        BY <1>7, <2>3 DEF ObjectLookup
      <3> QED
        BY <2>1, <2>3, <3>1, TryWorkflowIInv DEF In
    <2> QED
      BY <2>2, <2>3
  <1>8. CASE LookupWorkflow(c)
    <2>1. l.at = "workflow" /\ l.op # "none" /\ l.op # "handler"
      BY <1>1, <1>8 DEF LookupWorkflow, ReadsMap, Fits
    <2>2. CASE workflows[l.name] # NoObj
      <3>1. Proceed(c, "workflow", workflows[l.name])
        BY <1>8, <2>2 DEF LookupWorkflow
      <3> QED
        BY <1>1, <1>3, <2>1, <3>1, ProceedIInv DEF Fits
    <2>3. CASE workflows[l.name] = NoObj
      BY <1>2, <1>8, <2>3, ReturnIInv DEF LookupWorkflow
    <2> QED
      BY <2>2, <2>3
  <1>9. CASE RunHandler(c)
    BY <1>9, ReadsTyped, ReturnIInv DEF RunHandler
  <1>10. CASE LookupQuery(c)
    BY <1>10, ReadsTyped, ReturnIInv DEF LookupQuery
  <1>11. CASE LookupSignal(c)
    BY <1>11, ReadsTyped, ReturnIInv DEF LookupSignal
  <1> QED
    BY <1>4, <1>5, <1>6, <1>7, <1>8, <1>9, <1>10, <1>11 DEF LookupStep

\* Every step keeps the invariant.
LEMMA NextIInv == IInv /\ [Next]_vars => IInv'
  <1> SUFFICES ASSUME IInv, [Next]_vars PROVE IInv'
    OBVIOUS
  <1>1. CASE UNCHANGED vars
    BY <1>1 DEF vars, authoring, contents, maps, IInv, TypeOK, LookupsFit, Fits, NamesFree,
       WorkflowsTried
  <1>2. CASE Next
    <2>1. ASSUME NEW g \in Registrars, Startup(g)
          PROVE  IInv'
      BY <1>2, <2>1, StartupSteps, GiveIfIInv, GiveIInv, RunIInv, TakeNameIInv, StoreIInv DEF Next
    <2>2. ASSUME NEW c \in Callers, Begin(c) \/ LookupStep(c)
          PROVE  IInv'
      BY <1>2, <2>2, BeginIInv, LookupStepIInv DEF Next
    <2> QED
      BY <1>2, <2>1, <2>2 DEF Next
  <1> QED
    BY <1>1, <1>2

\* The invariant holds for any objects, names and goroutines.
THEOREM Invariance == Spec => []IInv
  BY InitIInv, NextIInv, PTL DEF Spec

\* The registry's maps hold objects of their kind, under one lock.
THEOREM TypeCorrect == Spec => []TypeOK
  <1>1. IInv => TypeOK
    BY DEF IInv
  <1> QED
    BY <1>1, Invariance, PTL

\* A name is bound once, whoever registers under it.
THEOREM BoundForGood == Spec => BoundOnce
  <1>1. ASSUME IInv, [Next]_vars
        PROVE  [\A n \in Names :
                    /\ services[n] # NoObj => services'[n] = services[n]
                    /\ virtualObjects[n] # NoObj => virtualObjects'[n] = virtualObjects[n]
                    /\ workflows[n] # NoObj => workflows'[n] = workflows[n]]_vars
    BY <1>1, MapsBound
  <1> QED
    BY <1>1, Invariance, PTL DEF Spec, BoundOnce

------------------------------------------------------------------------------
(* Giving functions to objects.                                            *)

\* What an object's map holds in the place of a gift.
Held(p) ==
    CASE p.in = "handlers" -> handlers[p.obj][p.name]
      [] p.in = "queries" -> queries[p.obj][p.name]
      [] p.in = "signals" -> signals[p.obj][p.name]

\* Whoever is about to store where another is has been seen to race.
RacesSeen ==
    \A g, k \in Registrars :
        g # k /\ giving[g] # NoGift /\ SameSlot(giving[g], giving[k]) => g \in raced

\* Without a race the place is free until the store.
GiftsFree ==
    \A g \in Registrars : giving[g] # NoGift /\ g \notin raced => Held(giving[g]) = Absent

GiftInv == RacesSeen /\ GiftsFree

\* A store leaves every other place of the object's map as it was.
LEMMA StoredElsewhere ==
    ASSUME NEW Objs, NEW map \in [Objs -> [HandlerNames -> Entry]], NEW in, NEW gift,
           gift.in = in => gift.obj \in Objs /\ gift.name \in HandlerNames,
           NEW o \in Objs, NEW h \in HandlerNames
    PROVE  Stored(map, in, gift)[o][h] =
               IF gift.in = in /\ gift.obj = o /\ gift.name = h THEN gift.fn ELSE map[o][h]
  BY DEF Stored

\* After the store of g, every other place holds what it held.
LEMMA GiveElsewhere ==
    ASSUME TypeOK, NEW g \in Registrars, Give(g), NEW h \in HandlerNames
    PROVE  LET p == giving[g] IN
           /\ \A o \in Services \cup VirtualObjects :
                handlers'[o][h] = IF p.in = "handlers" /\ p.obj = o /\ p.name = h
                                  THEN p.fn ELSE handlers[o][h]
           /\ \A w \in Workflows :
                /\ queries'[w][h] = IF p.in = "queries" /\ p.obj = w /\ p.name = h
                                    THEN p.fn ELSE queries[w][h]
                /\ signals'[w][h] = IF p.in = "signals" /\ p.obj = w /\ p.name = h
                                    THEN p.fn ELSE signals[w][h]
  <1> DEFINE p == giving[g]
  <1>1. /\ p # NoGift
        /\ handlers' = Stored(handlers, "handlers", p)
        /\ queries' = Stored(queries, "queries", p)
        /\ signals' = Stored(signals, "signals", p)
    BY DEF Give
  <1>2. /\ p.in = "handlers" => p.obj \in Services \cup VirtualObjects
        /\ p.in # "handlers" => p.obj \in Workflows
        /\ p.name \in HandlerNames
    BY <1>1, GiftFits
  <1>3. /\ handlers \in [Services \cup VirtualObjects -> [HandlerNames -> Entry]]
        /\ queries \in [Workflows -> [HandlerNames -> Entry]]
        /\ signals \in [Workflows -> [HandlerNames -> Entry]]
    BY DEF TypeOK
  <1> HIDE DEF p
  <1>4. \A o \in Services \cup VirtualObjects :
            handlers'[o][h] = IF p.in = "handlers" /\ p.obj = o /\ p.name = h
                              THEN p.fn ELSE handlers[o][h]
    BY <1>1, <1>2, <1>3, StoredElsewhere
  <1>5. \A w \in Workflows :
            queries'[w][h] = IF p.in = "queries" /\ p.obj = w /\ p.name = h
                             THEN p.fn ELSE queries[w][h]
    BY <1>1, <1>2, <1>3, StoredElsewhere
  <1>6. \A w \in Workflows :
            signals'[w][h] = IF p.in = "signals" /\ p.obj = w /\ p.name = h
                             THEN p.fn ELSE signals[w][h]
    BY <1>1, <1>2, <1>3, StoredElsewhere
  <1> QED
    BY <1>4, <1>5, <1>6 DEF p

\* A step gives a function, begins to, or leaves the objects alone but for Run.
LEMMA GiftSteps ==
    ASSUME IInv, Next
    PROVE  \/ UNCHANGED <<handlers, queries, signals, giving>>
           \/ \E g \in Registrars : Give(g)
           \/ /\ UNCHANGED <<handlers, queries, signals>>
              /\ \E g \in Registrars, p \in Gifts :
                    giving' = [giving EXCEPT ![g] = p] /\ p # NoGift /\ Held(p) = Absent
  <1>1. ASSUME NEW c \in Callers, Begin(c) \/ LookupStep(c)
        PROVE  UNCHANGED <<handlers, queries, signals, giving>>
    BY <1>1 DEF Begin, LookupHandler, LookupKeyedHandler, WorkflowLookup, Enter, LookupStep, Lookup,
       ServiceLookup, LookupVirtualObject, ObjectLookup, LookupWorkflow, RunHandler, LookupQuery,
       LookupSignal, TryWorkflow, Proceed, ReturnFn, authoring, contents
  <1>2. ASSUME NEW g \in Registrars, NEW free, NEW in, NEW o, NEW h \in HandlerNames,
               NEW f \in Given, GiveIf(free, g, in, o, h, f),
               \/ in = "handlers" /\ o \in Services \cup VirtualObjects
               \/ in \in {"queries", "signals"} /\ o \in Workflows,
               in = "handlers" => free = (handlers[o][h] = Absent),
               in = "queries" => free = (queries[o][h] = Absent),
               in = "signals" => free = (signals[o][h] = Absent)
        PROVE  /\ UNCHANGED <<handlers, queries, signals>>
               /\ \E p \in Gifts :
                    giving' = [giving EXCEPT ![g] = p] /\ p # NoGift /\ Held(p) = Absent
    <2> DEFINE p == [in |-> in, obj |-> o, name |-> h, fn |-> f]
    <2>1. p \in Gifts /\ p # NoGift
      BY <1>2 DEF Gifts, NoGift
    <2>2. Held(p) = Absent
      BY <1>2 DEF Held, GiveIf
    <2>3. giving' = [giving EXCEPT ![g] = p] /\ UNCHANGED <<handlers, queries, signals>>
      BY <1>2 DEF GiveIf, contents
    <2> QED
      BY <2>1, <2>2, <2>3
  <1>3. ASSUME NEW g \in Registrars, Startup(g)
        PROVE  \/ UNCHANGED <<handlers, queries, signals, giving>>
               \/ Give(g)
               \/ /\ UNCHANGED <<handlers, queries, signals>>
                  /\ \E p \in Gifts :
                       giving' = [giving EXCEPT ![g] = p] /\ p # NoGift /\ Held(p) = Absent
    <2>1. ASSUME NEW w \in Workflows, NEW f \in Given, Run(g, w, f)
          PROVE  UNCHANGED <<handlers, queries, signals, giving>>
      BY <2>1 DEF Run
    <2>2. ASSUME NEW o \in Objects,
                 Register(g, o) \/ RegisterVirtualObject(g, o) \/ RegisterWorkflow(g, o)
          PROVE  UNCHANGED <<handlers, queries, signals, giving>>
      BY <2>2 DEF Register, RegisterVirtualObject, RegisterWorkflow, TakeName, authoring, contents
    <2>3. CASE Store(g)
      BY <2>3 DEF Store, authoring, contents
    <2> QED
      BY <1>2, <1>3, <2>1, <2>2, <2>3, StartupSteps
  <1> QED
    BY <1>1, <1>3 DEF Next

\* Every step keeps both.
LEMMA GiftInvKept == IInv /\ GiftInv /\ [Next]_vars => GiftInv'
  <1> SUFFICES ASSUME IInv, GiftInv, [Next]_vars PROVE GiftInv'
    OBVIOUS
  <1>1. CASE UNCHANGED vars
    BY <1>1 DEF vars, authoring, contents, GiftInv, RacesSeen, GiftsFree, Held
  <1>2. CASE Next
    <2>1. /\ \A g \in Registrars :
                g \in raced' <=> /\ giving'[g] # NoGift
                                 /\ \/ g \in raced
                                    \/ \E k \in Registrars \ {g} :
                                          SameSlot(giving'[g], giving'[k])
      BY <1>2 DEF Next, WatchRaces
    <2>2. RacesSeen'
      BY <2>1 DEF RacesSeen, SameSlot
    <2>3. GiftsFree'
      <3> SUFFICES ASSUME NEW g \in Registrars, giving'[g] # NoGift, g \notin raced'
                   PROVE  Held(giving[g])' = Absent
        BY DEF GiftsFree
      <3>1. g \notin raced
        BY <2>1
      <3>2. CASE UNCHANGED <<handlers, queries, signals, giving>>
        BY <3>1, <3>2 DEF GiftInv, GiftsFree, Held
      <3>3. ASSUME NEW k \in Registrars, Give(k)
            PROVE  Held(giving[g])' = Absent
        <4>1. giving' = [giving EXCEPT ![k] = NoGift] /\ giving[k] # NoGift
          BY <3>3 DEF Give
        <4>2. g # k /\ giving'[g] = giving[g]
          BY <4>1 DEF IInv, TypeOK
        <4>3. ~SameSlot(giving[g], giving[k])
          BY <3>1, <4>2 DEF GiftInv, RacesSeen
        <4>4. Held(giving[g]) = Absent
          BY <3>1, <4>2 DEF GiftInv, GiftsFree
        <4> DEFINE p == giving[g]
        <4>5. /\ p.in \in {"handlers", "queries", "signals"} /\ p.name \in HandlerNames
              /\ p.in = "handlers" => p.obj \in Services \cup VirtualObjects
              /\ p.in # "handlers" => p.obj \in Workflows
          BY <4>2, GiftFits DEF IInv
        <4>6. /\ p.in = "handlers" => handlers'[p.obj][p.name] = handlers[p.obj][p.name]
              /\ p.in = "queries" => queries'[p.obj][p.name] = queries[p.obj][p.name]
              /\ p.in = "signals" => signals'[p.obj][p.name] = signals[p.obj][p.name]
          BY <3>3, <4>3, <4>5, GiveElsewhere DEF SameSlot, IInv
        <4> QED
          BY <4>2, <4>4, <4>5, <4>6 DEF Held
      <3>4. ASSUME UNCHANGED <<handlers, queries, signals>>,
                   NEW k \in Registrars, NEW p \in Gifts,
                   giving' = [giving EXCEPT ![k] = p], Held(p) = Absent
            PROVE  Held(giving[g])' = Absent
        <4>1. CASE g = k
          <5>1. giving'[g] = p
            BY <3>4, <4>1 DEF IInv, TypeOK
          <5>2. Held(p)' = Held(p)
            BY <3>4 DEF Held
          <5> QED
            BY <3>4, <5>1, <5>2 DEF Held
        <4>2. CASE g # k
          <5>1. giving'[g] = giving[g]
            BY <3>4, <4>2 DEF IInv, TypeOK
          <5>2. Held(giving[g]) = Absent
            BY <3>1, <5>1 DEF GiftInv, GiftsFree
          <5> QED
            BY <3>4, <5>1, <5>2 DEF Held
        <4> QED
          BY <4>1, <4>2
      <3> QED
        BY <1>2, <3>2, <3>3, <3>4, GiftSteps
    <2> QED
      BY <2>2, <2>3 DEF GiftInv
  <1> QED
    BY <1>1, <1>2

\* A store over a function that was there is that of a goroutine that has raced.
LEMMA StoreIsContended ==
    ASSUME IInv, GiftInv, [Next]_vars, NEW h \in HandlerNames
    PROVE  /\ \A o \in Services \cup VirtualObjects :
                \/ handlers[o][h] \in {Absent, handlers'[o][h]}
                \/ Contended("handlers", o, h, handlers'[o][h])
           /\ \A w \in Workflows :
                /\ \/ queries[w][h] \in {Absent, queries'[w][h]}
                   \/ Contended("queries", w, h, queries'[w][h])
                /\ \/ signals[w][h] \in {Absent, signals'[w][h]}
                   \/ Contended("signals", w, h, signals'[w][h])
  <1>1. CASE UNCHANGED <<handlers, queries, signals>>
    BY <1>1
  <1>2. ASSUME NEW g \in Registrars, Give(g)
        PROVE  (/\ \A o \in Services \cup VirtualObjects :
                     \/ handlers[o][h] \in {Absent, handlers'[o][h]}
                     \/ Contended("handlers", o, h, handlers'[o][h])
                /\ \A w \in Workflows :
                     /\ \/ queries[w][h] \in {Absent, queries'[w][h]}
                        \/ Contended("queries", w, h, queries'[w][h])
                     /\ \/ signals[w][h] \in {Absent, signals'[w][h]}
                        \/ Contended("signals", w, h, signals'[w][h]))
    <2> DEFINE p == giving[g]
    <2>1. p # NoGift
      BY <1>2 DEF Give
    <2>2. Held(p) = Absent \/ g \in raced
      BY <2>1 DEF GiftInv, GiftsFree
    <2>3. p = [in |-> p.in, obj |-> p.obj, name |-> p.name, fn |-> p.fn]
      BY <2>1, GiftFits DEF IInv
    <2>4. /\ \A o \in Services \cup VirtualObjects :
               handlers'[o][h] = IF p.in = "handlers" /\ p.obj = o /\ p.name = h
                                 THEN p.fn ELSE handlers[o][h]
          /\ \A w \in Workflows :
               /\ queries'[w][h] = IF p.in = "queries" /\ p.obj = w /\ p.name = h
                                   THEN p.fn ELSE queries[w][h]
               /\ signals'[w][h] = IF p.in = "signals" /\ p.obj = w /\ p.name = h
                                   THEN p.fn ELSE signals[w][h]
      BY <1>2, GiveElsewhere DEF IInv
    <2> HIDE DEF p
    <2>5. \A o \in Services \cup VirtualObjects :
               \/ handlers[o][h] \in {Absent, handlers'[o][h]}
               \/ Contended("handlers", o, h, handlers'[o][h])
      <3> SUFFICES ASSUME NEW o \in Services \cup VirtualObjects,
                          p.in = "handlers" /\ p.obj = o /\ p.name = h, handlers[o][h] # Absent
                   PROVE  Contended("handlers", o, h, handlers'[o][h])
        BY <2>4
      <3>1. g \in raced
        BY <2>2 DEF Held
      <3>2. p = [in |-> "handlers", obj |-> o, name |-> h, fn |-> handlers'[o][h]]
        BY <2>3, <2>4
      <3> QED
        BY <3>1, <3>2 DEF Contended, p
    <2>6. \A w \in Workflows :
               \/ queries[w][h] \in {Absent, queries'[w][h]}
               \/ Contended("queries", w, h, queries'[w][h])
      <3> SUFFICES ASSUME NEW w \in Workflows,
                          p.in = "queries" /\ p.obj = w /\ p.name = h, queries[w][h] # Absent
                   PROVE  Contended("queries", w, h, queries'[w][h])
        BY <2>4
      <3>1. g \in raced
        BY <2>2 DEF Held
      <3>2. p = [in |-> "queries", obj |-> w, name |-> h, fn |-> queries'[w][h]]
        BY <2>3, <2>4
      <3> QED
        BY <3>1, <3>2 DEF Contended, p
    <2>7. \A w \in Workflows :
               \/ signals[w][h] \in {Absent, signals'[w][h]}
               \/ Contended("signals", w, h, signals'[w][h])
      <3> SUFFICES ASSUME NEW w \in Workflows,
                          p.in = "signals" /\ p.obj = w /\ p.name = h, signals[w][h] # Absent
                   PROVE  Contended("signals", w, h, signals'[w][h])
        BY <2>4
      <3>1. g \in raced
        BY <2>2 DEF Held
      <3>2. p = [in |-> "signals", obj |-> w, name |-> h, fn |-> signals'[w][h]]
        BY <2>3, <2>4
      <3> QED
        BY <3>1, <3>2 DEF Contended, p
    <2> QED
      BY <2>5, <2>6, <2>7
  <1>3. UNCHANGED <<handlers, queries, signals>> \/ \E g \in Registrars : Give(g)
    <2>1. CASE UNCHANGED vars
      BY <2>1 DEF vars, authoring, contents
    <2>2. CASE Next
      BY <2>2, GiftSteps
    <2> QED
      BY <2>1, <2>2
  <1> QED
    BY <1>1, <1>2, <1>3

\* A handler, query or signal is given once, nil ones included, however many
\* goroutines fill the objects, unless two give the same name at the same time.
THEOREM GivenForGood == Spec => GivenOnce
  <1>1. Init => GiftInv
    BY DEF Init, GiftInv, RacesSeen, GiftsFree
  <1>2. ASSUME IInv, GiftInv, [Next]_vars
        PROVE  [\A h \in HandlerNames :
                  /\ \A o \in Services \cup VirtualObjects :
                        \/ handlers[o][h] \in {Absent, handlers'[o][h]}
                        \/ Contended("handlers", o, h, handlers'[o][h])
                  /\ \A w \in Workflows :
                        /\ \/ queries[w][h] \in {Absent, queries'[w][h]}
                           \/ Contended("queries", w, h, queries'[w][h])
                        /\ \/ signals[w][h] \in {Absent, signals'[w][h]}
                           \/ Contended("signals", w, h, signals'[w][h])]_vars
    BY <1>2, StoreIsContended
  <1> QED
    BY <1>1, <1>2, GiftInvKept, Invariance, PTL DEF Spec, GivenOnce
------------------------------------------------------------------------------
(* What a lookup returns.                                                  *)

\* A lookup ends with the answer to what it last saw, or, for a keyed lookup that
\* went on to the workflows, with the run handler it finds there.
LEMMA ReturnedAnswer ==
    ASSUME IInv, NEW c \in Callers, LookupStep(c), Returns(c)
    PROVE  \/ result'[c] = Answer(Sight(lookup[c]))
           \/ /\ lookup[c].op = "keyed" /\ lookup[c].at = "workflow"
              /\ result'[c] = RunOf(workflows[lookup[c].name])
              /\ result'[c] = Sight(lookup[c]).second
  <1> DEFINE l == lookup[c]
  <1>1. Fits(l) /\ l.op \in {"handler", "keyed", "query", "signal"}
    BY DEF IInv, TypeOK, LookupsFit, Returns
  <1>2. \A at, o : Proceed(c, at, o) => lookup'[c].op = l.op
    BY DEF Proceed, IInv, TypeOK
  <1>3. \A at, o : ~Proceed(c, at, o)
    BY <1>1, <1>2 DEF Returns
  <1>4. \A f : ReturnFn(c, f) => result'[c] = f
    BY DEF ReturnFn, IInv, TypeOK
  <1>5. CASE Lookup(c)
    <2>1. result'[c] = Absent /\ services[l.name] = NoObj /\ l.op = "handler"
      BY <1>1, <1>3, <1>4, <1>5 DEF Lookup, ReadsMap, Fits
    <2> QED
      BY <2>1 DEF Sight, In, Answer
  <1>6. CASE ServiceLookup(c)
    <2>1. /\ l.op = "handler" /\ l.obj # NoObj /\ l.obj = services[l.name]
          /\ result'[c] = handlers[l.obj][l.handler]
      BY <1>1, <1>4, <1>6 DEF ServiceLookup, ReadsObject, Fits
    <2> QED
      BY <2>1 DEF Sight, In, Answer
  <1>7. ASSUME TryWorkflow(c), l.op = "keyed",
               In(handlers, virtualObjects[l.name], l.handler) = Absent
        PROVE  result'[c] = Answer(Sight(l))
    <2>1. result'[c] = Absent /\ l.handler # RunName
      BY <1>3, <1>4, <1>7 DEF TryWorkflow
    <2> QED
      BY <1>7, <2>1 DEF Sight, Answer
  <1>8. CASE LookupVirtualObject(c)
    <2>1. l.op = "keyed" /\ virtualObjects[l.name] = NoObj /\ TryWorkflow(c)
      BY <1>1, <1>3, <1>8 DEF LookupVirtualObject, ReadsMap, Fits
    <2> QED
      BY <1>7, <2>1 DEF In
  <1>9. CASE ObjectLookup(c)
    <2>1. /\ l.op = "keyed" /\ l.obj # NoObj /\ l.obj = virtualObjects[l.name]
          /\ IF handlers[l.obj][l.handler] # Absent
             THEN result'[c] = handlers[l.obj][l.handler] ELSE TryWorkflow(c)
      BY <1>1, <1>4, <1>9 DEF ObjectLookup, ReadsObject, Fits
    <2>2. In(handlers, virtualObjects[l.name], l.handler) = handlers[l.obj][l.handler]
      BY <2>1 DEF In
    <2>3. CASE handlers[l.obj][l.handler] # Absent
      BY <2>1, <2>2, <2>3 DEF Sight, Answer
    <2>4. CASE handlers[l.obj][l.handler] = Absent
      BY <1>7, <2>1, <2>2, <2>4
    <2> QED
      BY <2>3, <2>4
  <1>10. CASE LookupWorkflow(c)
    <2>1. /\ l.at = "workflow" /\ l.op \in {"keyed", "query", "signal"}
          /\ workflows[l.name] = NoObj /\ result'[c] = Absent
      BY <1>1, <1>3, <1>4, <1>10 DEF LookupWorkflow, ReadsMap, Fits
    <2>2. l.op = "keyed" => l.handler = RunName
      BY <1>1, <2>1 DEF Fits
    <2> QED
      BY <2>1, <2>2 DEF Sight, In, RunOf, Answer
  <1>11. CASE RunHandler(c)
    <2>1. /\ l.op = "keyed" /\ l.at = "workflow" /\ l.obj # NoObj
          /\ l.obj = workflows[l.name] /\ l.handler = RunName
          /\ result'[c] = RunOf(l.obj)
      BY <1>1, <1>4, <1>11 DEF RunHandler, ReadsObject, Fits
    <2> QED
      BY <2>1 DEF Sight
  <1>12. CASE LookupQuery(c)
    <2>1. /\ l.op = "query" /\ l.obj # NoObj /\ l.obj = workflows[l.name]
          /\ result'[c] = queries[l.obj][l.handler]
      BY <1>1, <1>4, <1>12 DEF LookupQuery, ReadsObject, Fits
    <2> QED
      BY <2>1 DEF Sight, In, Answer
  <1>13. CASE LookupSignal(c)
    <2>1. /\ l.op = "signal" /\ l.obj # NoObj /\ l.obj = workflows[l.name]
          /\ result'[c] = signals[l.obj][l.handler]
      BY <1>1, <1>4, <1>13 DEF LookupSignal, ReadsObject, Fits
    <2> QED
      BY <2>1 DEF Sight, In, Answer
  <1> QED
    BY <1>5, <1>6, <1>8, <1>9, <1>10, <1>11, <1>12, <1>13 DEF LookupStep

\* Only a step of the lookup itself ends it.
LEMMA ReturnIsStep ==
    ASSUME IInv, Next, NEW c \in Callers, Returns(c)
    PROVE  LookupStep(c)
  <1>1. ASSUME NEW g \in Registrars, Startup(g)
        PROVE  FALSE
    <2>1. UNCHANGED lookup
      BY <1>1 DEF Startup, ServiceHandler, ObjectHandler, Query, Signal, GiveIf, Give, Run,
         Register, RegisterVirtualObject, RegisterWorkflow, TakeName, Store
    <2> QED
      BY <2>1 DEF Returns
  <1>2. ASSUME NEW d \in Callers, Begin(d)
        PROVE  FALSE
    <2>1. PICK op, at, n, h : Enter(d, op, at, n, h)
      BY <1>2 DEF Begin, LookupHandler, LookupKeyedHandler, WorkflowLookup
    <2>2. \A e \in Callers \ {d} : lookup'[e] = lookup[e]
      BY <2>1 DEF Enter, IInv, TypeOK
    <2>3. lookup[d].op = "none"
      BY <2>1 DEF Enter
    <2> QED
      BY <2>2, <2>3 DEF Returns
  <1>3. ASSUME NEW d \in Callers, LookupStep(d), d # c
        PROVE  FALSE
    <2>1. lookup'[c] = lookup[c]
      BY <1>3 DEF LookupStep, Lookup, ServiceLookup, LookupVirtualObject, ObjectLookup,
         LookupWorkflow, RunHandler, LookupQuery, LookupSignal, TryWorkflow, Proceed, ReturnFn,
         IInv, TypeOK
    <2> QED
      BY <2>1 DEF Returns
  <1> QED
    BY <1>1, <1>2, <1>3 DEF Next

\* What a lookup that ends has returned, of all it could see.
LEMMA ReturnedTruth ==
    ASSUME IInv, [Next]_vars, NEW c \in Callers, Returns(c)
    PROVE  /\ \A s \in Sights(c) : Sights(c) = {s} => result'[c] = Answer(s)
           /\ result'[c] = Absent =>
                 \/ \E s \in Sights(c) : Answer(s) = Absent
                 \/ /\ lookup[c].op = "keyed" /\ lookup[c].handler = RunName
                    /\ \E s \in witnessed[c] : s.first = Absent /\ s.second # Absent
                    /\ Sight(lookup[c]).second = Absent
           /\ \E s \in Sights(c) :
                 \/ result'[c] = Answer(s)
                 \/ /\ lookup[c].op = "keyed" /\ lookup[c].handler = RunName
                    /\ result'[c] = s.second
  <1>1. LookupStep(c)
    <2>1. CASE UNCHANGED vars
      BY <2>1 DEF vars, Returns
    <2>2. CASE Next
      BY <2>2, ReturnIsStep
    <2> QED
      BY <2>1, <2>2
  <1>2. Sight(lookup[c]) \in Sights(c) /\ witnessed[c] \subseteq Sights(c)
    BY DEF Sights
  <1>3. CASE result'[c] = Answer(Sight(lookup[c]))
    BY <1>2, <1>3
  <1>4. CASE /\ lookup[c].op = "keyed" /\ lookup[c].at = "workflow"
             /\ result'[c] = RunOf(workflows[lookup[c].name])
             /\ result'[c] = Sight(lookup[c]).second
    <2>1. PICK s \in witnessed[c] : s.first = Absent
      BY <1>4 DEF IInv, WorkflowsTried
    <2>2. ASSUME NEW t \in Sights(c), Sights(c) = {t}
          PROVE  result'[c] = Answer(t)
      <3>1. t = s /\ t = Sight(lookup[c])
        BY <1>2, <2>1, <2>2
      <3> QED
        BY <1>4, <2>1, <3>1 DEF Answer
    <2>3. s.second = Absent => Answer(s) = Absent
      BY <2>1 DEF Answer
    <2>4. lookup[c].handler = RunName
      BY <1>4 DEF IInv, LookupsFit, Fits
    <2> QED
      BY <1>2, <1>4, <2>1, <2>2, <2>3, <2>4
  <1> QED
    BY <1>1, <1>3, <1>4, ReturnedAnswer

\* "Not found" was true at some moment of the lookup, whatever is registered
\* meanwhile, unless Run(nil) took the run handler away that was there.
THEOREM NotFoundTrue == Spec => NotFoundIsTrue
  <1>1. ASSUME IInv, [Next]_vars
        PROVE  [\A c \in Callers : Returns(c) /\ result'[c] = Absent =>
                  \/ \E s \in Sights(c) : Answer(s) = Absent
                  \/ /\ lookup[c].op = "keyed" /\ lookup[c].handler = RunName
                     /\ \E s \in witnessed[c] : s.first = Absent /\ s.second # Absent
                     /\ Sight(lookup[c]).second = Absent]_vars
    BY <1>1, ReturnedTruth
  <1> QED
    BY <1>1, Invariance, PTL DEF Spec, NotFoundIsTrue

\* What a lookup finds was there at some moment of it; but for the keyed lookup of
\* "run", it was the registry's answer at that moment.
THEOREM FoundThere == Spec => FoundWasThere
  <1>1. ASSUME IInv, [Next]_vars
        PROVE  [\A c \in Callers : Returns(c) /\ result'[c] # Absent =>
                  \E s \in Sights(c) :
                      \/ result'[c] = Answer(s)
                      \/ /\ lookup[c].op = "keyed" /\ lookup[c].handler = RunName
                         /\ result'[c] = s.second]_vars
    BY <1>1, ReturnedTruth
  <1> QED
    BY <1>1, Invariance, PTL DEF Spec, FoundWasThere

\* When what the maps hold does not change meanwhile, the answer that follows from
\* it is returned.
THEOREM LookupIsExact == Spec => LookupExact
  <1>1. ASSUME IInv, [Next]_vars
        PROVE  [\A c \in Callers : Returns(c) =>
                  \A s \in Sights(c) : Sights(c) = {s} => result'[c] = Answer(s)]_vars
    BY <1>1, ReturnedTruth
  <1> QED
    BY <1>1, Invariance, PTL DEF Spec, LookupExact
==============================================================================
