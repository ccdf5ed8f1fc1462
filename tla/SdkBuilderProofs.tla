-------------------------- MODULE SdkBuilderProofs ---------------------------
(***************************************************************************)
(* Proofs about SdkBuilder, for every set of builders and names and any    *)
(* number of options.                                                      *)
(*                                                                         *)
(* The argument: an entry of the SDK's maps stands for the first option    *)
(* that gave its name (FirstComeFirstServed), so an option fails exactly   *)
(* when it repeats a name, and the error that is kept is that of the       *)
(* earliest repetition.                                                    *)
(***************************************************************************)
EXTENDS SdkBuilder, TLAPS

\* Every option has found or left an entry under its name, and an entry was left
\* by some option.
FirstComeFirstServed ==
    /\ \A k \in 1 .. Len(options) : Registered[options[k]] # NoBuilder
    /\ \A b \in Builders : Registered[b] # NoBuilder =>
          \E k \in 1 .. Len(options) : SameKey(options[k], b)

IInv ==
    /\ TypeOK
    /\ FirstComeFirstServed
    /\ EveryOptionAnswers
    /\ BuildReportsFirst

\* An option that is added is the last; which of the others repeat a name does
\* not change.
LEMMA OptionAppended ==
    ASSUME TypeOK, NEW b \in Builders, options' = Append(options, b)
    PROVE  /\ Len(options') = Len(options) + 1
           /\ \A k \in 1 .. Len(options) : options'[k] = options[k]
           /\ options'[Len(options) + 1] = b
           /\ \A k \in 1 .. Len(options') : k \in 1 .. Len(options) \/ k = Len(options) + 1
           /\ \A k \in 1 .. Len(options) : k \in Repeats' <=> k \in Repeats
           /\ Len(options) + 1 \in Repeats' <=>
                 \E j \in 1 .. Len(options) : SameKey(options[j], b)
  <1>1. /\ Len(options') = Len(options) + 1
        /\ \A k \in 1 .. Len(options) : options'[k] = options[k]
        /\ options'[Len(options) + 1] = b
        /\ Len(options) \in Nat
        /\ \A k \in 1 .. Len(options') : k \in 1 .. Len(options) \/ k = Len(options) + 1
    BY DEF TypeOK
  <1>2. \A k \in 1 .. Len(options) : k \in Repeats' <=> k \in Repeats
    BY <1>1 DEF Repeats, SameKey
  <1>3. Len(options) + 1 \in Repeats' <=>
            \E j \in 1 .. Len(options) : SameKey(options[j], b)
    BY <1>1 DEF Repeats, SameKey
  <1> QED
    BY <1>1, <1>2, <1>3

\* Names of one kind share an entry.
LEMMA SameKeyRegistered ==
    ASSUME NEW a \in Builders, NEW b \in Builders, SameKey(a, b)
    PROVE  Registered[a] = Registered[b]
  BY DEF SameKey, Registered

\* The empty SDK satisfies the invariant.
LEMMA InitIInv == Init => IInv
  <1> SUFFICES ASSUME Init PROVE IInv
    OBVIOUS
  <1>1. TypeOK
    <2>1. options \in Seq(Builders)
      BY DEF Init
    <2>2. handlers \in [Builders -> [HandlerNames -> MaybeFn]]
      BY DEF Init, MaybeFn
    <2> QED
      BY <2>1, <2>2 DEF Init, TypeOK
  <1>2. Len(options) = 0 /\ Repeats = {} /\ buildErr = NoBuilder
    BY DEF Init, Repeats
  <1>3. \A b \in Builders : Registered[b] = NoBuilder
    BY BuildersAssumption DEF Init, Registered
  <1> QED
    BY <1>1, <1>2, <1>3
    DEF IInv, FirstComeFirstServed, EveryOptionAnswers, BuildReportsFirst

\* An option for a free name is kept and is no repetition.
LEMMA NewOptionIInv ==
    ASSUME IInv, TypeOK', NEW b \in Builders, options' = Append(options, b),
           Registered[b] = NoBuilder, buildErr' = buildErr,
           \A c \in Builders : Registered'[c] = IF SameKey(c, b) THEN b ELSE Registered[c]
    PROVE  IInv'
  <1> DEFINE n == Len(options) + 1
  <1>1. TypeOK /\ n \in Nat /\ \A k \in 1 .. Len(options) : options[k] \in Builders
    BY DEF IInv, TypeOK
  <1>2. \A k \in 1 .. Len(options) : ~SameKey(options[k], b)
    BY <1>1, SameKeyRegistered DEF IInv, FirstComeFirstServed
  <1>3. /\ Len(options') = n
        /\ \A k \in 1 .. Len(options) : options'[k] = options[k]
        /\ options'[n] = b
        /\ \A k \in 1 .. Len(options') : k \in 1 .. Len(options) \/ k = n
        /\ \A k \in 1 .. Len(options) : k \in Repeats' <=> k \in Repeats
        /\ n \notin Repeats'
    BY <1>1, <1>2, OptionAppended
  <1>4. Repeats' = Repeats
    BY <1>1, <1>3 DEF Repeats
  <1>5. b # NoBuilder /\ SameKey(b, b)
    BY BuildersAssumption DEF SameKey
  <1>6. /\ Registered'[b] = b
        /\ \A k \in 1 .. Len(options) : Registered'[options'[k]] = Registered[options[k]]
    BY <1>1, <1>2, <1>3, <1>5
  <1>7. FirstComeFirstServed'
    <2>1. \A k \in 1 .. Len(options') : Registered'[options'[k]] # NoBuilder
      BY <1>3, <1>5, <1>6 DEF IInv, FirstComeFirstServed
    <2>2. ASSUME NEW c \in Builders, Registered'[c] # NoBuilder
          PROVE  \E k \in 1 .. Len(options') : SameKey(options'[k], c)
      <3>1. CASE SameKey(c, b)
        BY <1>1, <1>3, <3>1 DEF SameKey
      <3>2. CASE ~SameKey(c, b)
        <4>1. PICK k \in 1 .. Len(options) : SameKey(options[k], c)
          BY <2>2, <3>2 DEF IInv, FirstComeFirstServed
        <4> QED
          BY <1>1, <1>3, <4>1
      <3> QED
        BY <3>1, <3>2
    <2> QED
      BY <2>1, <2>2 DEF FirstComeFirstServed, SameKey
  <1>8. EveryOptionAnswers'
    BY <1>3, <1>4, <1>6 DEF IInv, EveryOptionAnswers
  <1>9. BuildReportsFirst'
    <2>1. \A k \in Repeats : options'[k] = options[k]
      BY <1>3 DEF Repeats
    <2> QED
      BY <1>4, <2>1 DEF IInv, BuildReportsFirst
  <1> QED
    BY <1>7, <1>8, <1>9 DEF IInv

\* An option for a taken name changes nothing but the error, and is a repetition.
LEMMA RepeatedOptionIInv ==
    ASSUME IInv, TypeOK', NEW b \in Builders, options' = Append(options, b),
           Registered[b] # NoBuilder, Duplicate(b),
           UNCHANGED <<services, objects>>
    PROVE  IInv'
  <1> DEFINE n == Len(options) + 1
  <1>1. TypeOK /\ n \in Nat
    BY DEF IInv, TypeOK
  <1>2. \E k \in 1 .. Len(options) : SameKey(options[k], b)
    BY DEF IInv, FirstComeFirstServed
  <1>3. /\ Len(options') = n
        /\ \A k \in 1 .. Len(options) : options'[k] = options[k]
        /\ options'[n] = b
        /\ \A k \in 1 .. Len(options') : k \in 1 .. Len(options) \/ k = n
        /\ \A k \in 1 .. Len(options) : k \in Repeats' <=> k \in Repeats
        /\ n \in Repeats'
    BY <1>1, <1>2, OptionAppended
  <1>4. Repeats \subseteq 1 .. Len(options) /\ Repeats' = Repeats \cup {n}
    BY <1>1, <1>3 DEF Repeats
  <1>5. Registered' = Registered
    BY DEF Registered
  <1>6. FirstComeFirstServed'
    <2>1. \A k \in 1 .. Len(options') : Registered'[options'[k]] # NoBuilder
      BY <1>3, <1>5 DEF IInv, FirstComeFirstServed
    <2>2. ASSUME NEW c \in Builders, Registered'[c] # NoBuilder
          PROVE  \E k \in 1 .. Len(options') : SameKey(options'[k], c)
      <3>1. PICK k \in 1 .. Len(options) : SameKey(options[k], c)
        BY <1>5, <2>2 DEF IInv, FirstComeFirstServed
      <3> QED
        BY <1>1, <1>3, <3>1
    <2> QED
      BY <2>1, <2>2 DEF FirstComeFirstServed, SameKey
  <1>7. EveryOptionAnswers'
    BY <1>3, <1>5 DEF IInv, EveryOptionAnswers
  <1>8. BuildReportsFirst'
    <2>1. b # NoBuilder
      BY BuildersAssumption
    <2>2. CASE buildErr = NoBuilder
      BY <1>1, <1>3, <1>4, <2>1, <2>2 DEF IInv, BuildReportsFirst, Duplicate
    <2>3. CASE buildErr # NoBuilder
      <3>1. buildErr' = buildErr /\ Repeats' # {}
        BY <1>4, <2>3 DEF Duplicate
      <3>2. PICK k \in Repeats : options[k] = buildErr /\ \A j \in Repeats : k <= j
        BY <2>3 DEF IInv, BuildReportsFirst
      <3>3. k \in Repeats' /\ options'[k] = buildErr' /\ \A j \in Repeats' : k <= j
        BY <1>1, <1>3, <1>4, <3>1, <3>2
      <3> QED
        BY <2>3, <3>1, <3>3 DEF BuildReportsFirst
    <2> QED
      BY <2>2, <2>3
  <1> QED
    BY <1>6, <1>7, <1>8 DEF IInv

\* WithService and WithObject.
LEMMA OptionIInv ==
    ASSUME IInv, NEW b \in Builders, WithService(b) \/ WithObject(b)
    PROVE  IInv'
  <1>1. TypeOK /\ options' = Append(options, b) /\ UNCHANGED <<handlers, built>>
    BY DEF IInv, WithService, WithObject, Option
  <1>2. NameOf[b] \in Names
    BY BuildersAssumption
  <1>3. CASE WithService(b)
    <2>1. TypeOK'
      <3>1. b \in ServiceBuilders
        BY <1>3 DEF WithService
      <3>2. services' \in [Names -> ServiceBuilders \cup {NoBuilder}]
        BY <1>1, <1>2, <1>3, <3>1 DEF TypeOK, WithService
      <3>3. UNCHANGED objects /\ (UNCHANGED buildErr \/ Duplicate(b))
        BY <1>3 DEF WithService
      <3>4. buildErr' \in Builders \cup {NoBuilder}
        BY <1>1, <3>3 DEF TypeOK, Duplicate
      <3>5. options' \in Seq(Builders)
        BY <1>1 DEF TypeOK
      <3> QED
        BY <1>1, <3>2, <3>3, <3>4, <3>5 DEF TypeOK
    <2>2. b \in ServiceBuilders
      BY <1>3 DEF WithService
    <2>3. CASE services[NameOf[b]] = NoBuilder
      <3>1. /\ services' = [services EXCEPT ![NameOf[b]] = b]
            /\ UNCHANGED <<objects, buildErr>>
        BY <1>3, <2>3 DEF WithService
      <3>2. \A c \in Builders : Registered'[c] = IF SameKey(c, b) THEN b ELSE Registered[c]
        BY <1>1, <2>2, <3>1, BuildersAssumption DEF TypeOK, Registered, SameKey
      <3> QED
        BY <1>1, <2>1, <2>2, <2>3, <3>1, <3>2, NewOptionIInv DEF Registered
    <2>4. CASE services[NameOf[b]] # NoBuilder
      BY <1>1, <1>3, <2>1, <2>2, <2>4, RepeatedOptionIInv DEF WithService, Registered
    <2> QED
      BY <2>3, <2>4
  <1>4. CASE WithObject(b)
    <2>1. TypeOK'
      <3>1. b \in ObjectBuilders
        BY <1>4 DEF WithObject
      <3>2. objects' \in [Names -> ObjectBuilders \cup {NoBuilder}]
        BY <1>1, <1>2, <1>4, <3>1 DEF TypeOK, WithObject
      <3>3. UNCHANGED services /\ (UNCHANGED buildErr \/ Duplicate(b))
        BY <1>4 DEF WithObject
      <3>4. buildErr' \in Builders \cup {NoBuilder}
        BY <1>1, <3>3 DEF TypeOK, Duplicate
      <3>5. options' \in Seq(Builders)
        BY <1>1 DEF TypeOK
      <3> QED
        BY <1>1, <3>2, <3>3, <3>4, <3>5 DEF TypeOK
    <2>2. b \in ObjectBuilders /\ b \notin ServiceBuilders
      BY <1>4, BuildersAssumption DEF WithObject
    <2>3. CASE objects[NameOf[b]] = NoBuilder
      <3>1. /\ objects' = [objects EXCEPT ![NameOf[b]] = b]
            /\ UNCHANGED <<services, buildErr>>
        BY <1>4, <2>3 DEF WithObject
      <3>2. \A c \in Builders : Registered'[c] = IF SameKey(c, b) THEN b ELSE Registered[c]
        BY <1>1, <2>2, <3>1, BuildersAssumption DEF TypeOK, Registered, SameKey
      <3> QED
        BY <1>1, <2>1, <2>2, <2>3, <3>1, <3>2, NewOptionIInv DEF Registered
    <2>4. CASE objects[NameOf[b]] # NoBuilder
      BY <1>1, <1>4, <2>1, <2>2, <2>4, RepeatedOptionIInv DEF WithObject, Registered
    <2> QED
      BY <2>3, <2>4
  <1> QED
    BY <1>3, <1>4

\* Handle, Build and stuttering leave options, maps and error alone.
LEMMA OtherIInv ==
    ASSUME IInv, TypeOK', UNCHANGED <<services, objects, buildErr, options>>
    PROVE  IInv'
  <1>1. Repeats' = Repeats
    BY DEF Repeats
  <1>2. Registered' = Registered
    BY DEF Registered
  <1> QED
    BY <1>1, <1>2
    DEF IInv, FirstComeFirstServed, EveryOptionAnswers, BuildReportsFirst

\* Every step keeps the invariant.
LEMMA NextIInv == IInv /\ [Next]_vars => IInv'
  <1> SUFFICES ASSUME IInv, [Next]_vars PROVE IInv'
    OBVIOUS
  <1>1. ASSUME NEW b \in Builders, NEW h \in HandlerNames, NEW f \in Fns, Handle(b, h, f)
        PROVE  IInv'
    <2>1. TypeOK'
      BY <1>1 DEF IInv, TypeOK, Handle, MaybeFn
    <2> QED
      BY <1>1, <2>1, OtherIInv DEF Handle
  <1>2. ASSUME NEW b \in Builders, WithService(b) \/ WithObject(b)
        PROVE  IInv'
    BY <1>2, OptionIInv
  <1>3. CASE Build
    <2>1. TypeOK'
      BY <1>3 DEF IInv, TypeOK, Build
    <2> QED
      BY <1>3, <2>1, OtherIInv DEF Build
  <1>4. CASE UNCHANGED vars
    <2>1. TypeOK'
      BY <1>4 DEF IInv, TypeOK, vars
    <2> QED
      BY <1>4, <2>1, OtherIInv DEF vars
  <1> QED
    BY <1>1, <1>2, <1>3, <1>4 DEF Next

\* The invariant holds throughout: maps and error always tell the history of the
\* options (New, register.go:270).
THEOREM Invariance == Spec => []IInv
  BY InitIInv, NextIInv, PTL DEF Spec

\* Whatever options New is given, in whatever order, Build returns the first
\* registration error, and none if no name is repeated (register.go:281).
THEOREM FirstReported == Spec => []BuildReportsFirst
  <1>1. IInv => BuildReportsFirst
    BY DEF IInv
  <1> QED
    BY <1>1, Invariance, PTL

\* A description that was registered answers for its name for good: a duplicate is
\* reported and never takes its place (WithService, register.go:293).
THEOREM NothingDisplaced == Spec => []EveryOptionAnswers
  <1>1. IInv => EveryOptionAnswers
    BY DEF IInv
  <1> QED
    BY <1>1, Invariance, PTL

\* Descriptions are only ever in the map of their kind, and handler maps hold functions.
THEOREM TypeCorrect == Spec => []TypeOK
  <1>1. IInv => TypeOK
    BY DEF IInv
  <1> QED
    BY <1>1, Invariance, PTL
==============================================================================
