--------------------------- MODULE ProvisionProofs ---------------------------
(***************************************************************************)
(* Proofs about Provision, for any clients, bindings, tenants,             *)
(* configurations and numbers of calls.                                    *)
(*                                                                         *)
(* The argument: a call sends one request, with the parameters it was      *)
(* made with (RequestsTrue), which is under way or carried out, never both *)
(* (ServedOnce).  An answer speaks of that request alone (RepliesTrue):    *)
(* "ok" only when it was carried out, a refusal only when it was taken     *)
(* from the network and dropped.  A binding holds what some served create  *)
(* has put there (EntriesServed).  Credentials are numbered as they are    *)
(* minted, and each is in one answer until it is handed out (CredsFresh).  *)
(***************************************************************************)
EXTENDS Provision, TLAPS

RequestsTrue ==
    \A m \in net \cup served :
        /\ m.call <= call[m.who]
        /\ m.op \in EventSourceOps => m.id \in Bindings
        /\ m.op \in TenantOps => m.id \in Tenants
        /\ m.call = call[m.who] => /\ m.op = arg[m.who].op
                                   /\ m.id = arg[m.who].id
                                   /\ m.cfg = arg[m.who].cfg

ServedOnce == net \cap served = {}

EntriesServed ==
    \A b \in Bindings : entries[b] # NoEntry =>
        \E m \in served : m.op = "CreateEventSource" /\ m.id = b /\ m.cfg = entries[b]

\* What an answer of c says of the call c is in.
OkTrue(c) ==
    /\ \E m \in served : Its(c, m)
    /\ arg[c].op = "CreateEventSource" => reply[c].value = arg[c].cfg
RefusalTrue(c) == ~\E m \in served \cup net : Its(c, m)
ConflictTrue(c) ==
    \E m \in served : m.op = "CreateEventSource" /\ m.id = arg[c].id /\ m.cfg # arg[c].cfg

RepliesTrue ==
    \A c \in Clients :
        /\ pc[c] = "idle" => reply[c] = NoReply
        /\ reply[c].code = "ok" => OkTrue(c)
        /\ reply[c].code \in Refusals => RefusalTrue(c)
        /\ reply[c].code = "conflict" => ConflictTrue(c)

CredsFresh ==
    /\ \A n \in delivered : n <= minted
    /\ \A c \in Clients :
          /\ reply[c].cred <= minted
          /\ reply[c].cred # 0 => /\ reply[c].cred \notin delivered
                                  /\ \A d \in Clients : reply[d].cred = reply[c].cred => d = c

IInv ==
    /\ TypeOK
    /\ RequestsTrue
    /\ ServedOnce
    /\ EntriesServed
    /\ RepliesTrue
    /\ CredsFresh
    /\ RefusedMeansUntouched
    /\ ConfirmedMeansDone
    /\ ConflictIsForeign

\* The parts of a call.
LEMMA CallParts ==
    ASSUME NEW a \in Calls
    PROVE  /\ a.op \in EventSourceOps \cup TenantOps /\ a.cfg \in Configs /\ a.id \in Ids
           /\ a.op \in EventSourceOps => a.id \in Bindings
           /\ a.op \in TenantOps => a.id \in Tenants
  <1>1. a \in CallType
    BY CallsAssumption
  <1> QED
    BY <1>1 DEF CallType, EventSourceOps, TenantOps, Ids

\* Requests with the same parts are one request.
LEMMA SameRequest ==
    ASSUME NEW m \in Requests, NEW n \in Requests, m.who = n.who, m.call = n.call,
           m.op = n.op, m.id = n.id, m.cfg = n.cfg
    PROVE  m = n
  BY DEF Requests

\* Nothing has been asked for and nothing is there.
LEMMA InitIInv == Init => IInv
  <1> SUFFICES ASSUME Init PROVE IInv
    OBVIOUS
  <1>1. (CHOOSE a \in Calls : TRUE) \in Calls
    BY CallsAssumption
  <1>2. TypeOK
    BY <1>1 DEF Init, TypeOK, NoReply, Errors
  <1>3. \A c \in Clients : reply[c] = NoReply /\ ret[c].err = "none"
    BY DEF Init
  <1>4. RequestsTrue /\ ServedOnce
    BY DEF Init, RequestsTrue, ServedOnce
  <1>5. EntriesServed
    BY DEF Init, EntriesServed, Ids
  <1>6. RepliesTrue /\ CredsFresh
    BY <1>3 DEF Init, RepliesTrue, CredsFresh, NoReply, Refusals
  <1>7. RefusedMeansUntouched /\ ConfirmedMeansDone /\ ConflictIsForeign
    BY <1>3 DEF RefusedMeansUntouched, ConfirmedMeansDone, ConflictIsForeign, Refusals
  <1> QED
    BY <1>2, <1>4, <1>5, <1>6, <1>7 DEF IInv

------------------------------------------------------------------------------
(* The client's steps.                                                     *)

\* A call begins with a request of its own.
LEMMA RequestIInv ==
    ASSUME IInv, NEW c \in Clients, NEW a \in Calls, Request(c, a)
    PROVE  IInv'
  <1> DEFINE n == [who |-> c, call |-> call[c] + 1, op |-> a.op, id |-> a.id, cfg |-> a.cfg]
  <1>1. /\ call' = [call EXCEPT ![c] = call[c] + 1]
        /\ arg' = [arg EXCEPT ![c] = a]
        /\ pc' = [pc EXCEPT ![c] = "await"]
        /\ pc[c] = "idle"
        /\ UNCHANGED <<entries, minted, served, reply, ret, delivered>>
    BY DEF Request, admin
  <1>2. /\ call'[c] = call[c] + 1 /\ arg'[c] = a /\ pc'[c] = "await"
        /\ \A d \in Clients : d # c => call'[d] = call[d] /\ arg'[d] = arg[d] /\ pc'[d] = pc[d]
        /\ call[c] \in Nat
    BY <1>1 DEF IInv, TypeOK
  <1>3. net' = net \cup {n}
    BY <1>2 DEF Request, Wire
  <1>4. n \in Requests
    BY <1>2, CallParts DEF Requests
  <1>5. /\ n.who = c /\ n.call = call[c] + 1 /\ n.op = a.op /\ n.id = a.id /\ n.cfg = a.cfg
    OBVIOUS
  <1> HIDE DEF n
  <1>6. TypeOK'
    BY <1>1, <1>3, <1>4 DEF IInv, TypeOK
  <1>7. \A m \in net \cup served :
            /\ m \in Requests /\ m.who \in Clients /\ m.call \in Nat /\ call[m.who] \in Nat
            /\ m.call <= call[m.who]
            /\ m.who = c => m.call # call[c] + 1
    BY DEF IInv, TypeOK, RequestsTrue, Requests
  <1>8. n \notin net \cup served
    BY <1>5, <1>7
  <1>9. \A m \in net \cup served : \A d \in Clients : Its(d, m)' => Its(d, m) /\ d # c
    BY <1>2, <1>7 DEF Its
  <1>10. \A m \in net \cup served : \A d \in Clients : d # c => (Its(d, m)' <=> Its(d, m))
    BY <1>2 DEF Its
  <1>11. RequestsTrue'
    <2> SUFFICES ASSUME NEW m \in net' \cup served'
                 PROVE  /\ m.call <= call'[m.who]
                        /\ m.op \in EventSourceOps => m.id \in Bindings
                        /\ m.op \in TenantOps => m.id \in Tenants
                        /\ m.call = call'[m.who] => /\ m.op = arg'[m.who].op
                                                    /\ m.id = arg'[m.who].id
                                                    /\ m.cfg = arg'[m.who].cfg
      BY DEF RequestsTrue
    <2>1. CASE m = n
      BY <1>2, <1>5, <2>1, CallParts
    <2>2. CASE m \in net \cup served
      <3>1. CASE m.who = c
        BY <1>2, <1>7, <2>2, <3>1 DEF IInv, RequestsTrue
      <3>2. CASE m.who # c
        BY <1>2, <1>7, <2>2, <3>2 DEF IInv, RequestsTrue
      <3> QED
        BY <3>1, <3>2
    <2> QED
      BY <1>1, <1>3, <2>1, <2>2
  <1>12. ServedOnce' /\ EntriesServed' /\ CredsFresh'
    BY <1>1, <1>3, <1>8 DEF IInv, ServedOnce, EntriesServed, CredsFresh
  <1>13. \A m \in {n} : \A d \in Clients : d # c => ~Its(d, m)'
    BY <1>5 DEF Its
  <1>14. reply[c] = NoReply
    BY <1>1 DEF IInv, RepliesTrue
  <1>15. RepliesTrue'
    <2> SUFFICES ASSUME NEW d \in Clients
                 PROVE  (/\ pc[d] = "idle" => reply[d] = NoReply
                         /\ reply[d].code = "ok" => OkTrue(d)
                         /\ reply[d].code \in Refusals => RefusalTrue(d)
                         /\ reply[d].code = "conflict" => ConflictTrue(d))'
      BY DEF RepliesTrue
    <2>1. CASE d = c
      BY <1>1, <1>2, <1>14, <2>1 DEF NoReply, Refusals
    <2>2. CASE d # c
      <3>1. OkTrue(d) => OkTrue(d)'
        BY <1>1, <1>2, <1>10, <2>2 DEF OkTrue
      <3>2. RefusalTrue(d) => RefusalTrue(d)'
        BY <1>1, <1>3, <1>10, <1>13, <2>2 DEF RefusalTrue
      <3>3. ConflictTrue(d) => ConflictTrue(d)'
        BY <1>1, <1>2, <2>2 DEF ConflictTrue
      <3> QED
        BY <1>1, <1>2, <2>2, <3>1, <3>2, <3>3 DEF IInv, RepliesTrue
    <2> QED
      BY <2>1, <2>2
  <1>16. RefusedMeansUntouched'
    BY <1>1, <1>2, <1>3, <1>10, <1>13 DEF IInv, RefusedMeansUntouched
  <1>17. ConfirmedMeansDone' /\ ConflictIsForeign'
    BY <1>1, <1>2, <1>10 DEF IInv, ConfirmedMeansDone, ConflictIsForeign
  <1> QED
    BY <1>6, <1>11, <1>12, <1>15, <1>16, <1>17 DEF IInv

\* A call returns something true.
LEMMA ReturnIInv ==
    ASSUME IInv, NEW c \in Clients, pc[c] = "await",
           NEW err \in Errors, NEW value \in Configs \cup {NoEntry},
           NEW cred \in {0, reply[c].cred},
           Return(c, err, value, cred),
           err \in Refusals => RefusalTrue(c),
           err = "conflict" => ConflictTrue(c),
           err = "ok" => OkTrue(c) /\ value = reply[c].value
    PROVE  IInv'
  <1>1. /\ pc' = [pc EXCEPT ![c] = "idle"]
        /\ ret' = [ret EXCEPT ![c] = [err |-> err, value |-> value, cred |-> cred]]
        /\ reply' = [reply EXCEPT ![c] = NoReply]
        /\ delivered' = delivered \cup ({cred} \ {0})
        /\ UNCHANGED <<entries, minted, served, net, call, arg>>
    BY DEF Return, admin
  <1>2. /\ reply \in [Clients -> [code : WireCodes \cup {"none", "ok"},
                                  value : Configs \cup {NoEntry}, cred : Nat]]
        /\ pc \in [Clients -> {"idle", "await"}]
        /\ ret \in [Clients -> [err : Errors, value : Configs \cup {NoEntry}, cred : Nat]]
        /\ delivered \in SUBSET Nat
    BY DEF IInv, TypeOK
  <1>3. cred \in Nat
    BY <1>2
  <1>4. NoReply \in [code : WireCodes \cup {"none", "ok"},
                     value : Configs \cup {NoEntry}, cred : Nat]
    BY DEF NoReply
  <1>5. TypeOK'
    BY <1>1, <1>2, <1>3, <1>4 DEF IInv, TypeOK
  <1>6. /\ pc'[c] = "idle" /\ reply'[c] = NoReply
        /\ ret'[c].err = err /\ ret'[c].value = value
        /\ \A d \in Clients : d # c => pc'[d] = pc[d] /\ reply'[d] = reply[d] /\ ret'[d] = ret[d]
    BY <1>1, <1>2
  <1>7. RequestsTrue' /\ ServedOnce' /\ EntriesServed'
    BY <1>1 DEF IInv, RequestsTrue, ServedOnce, EntriesServed
  <1>8. \A d \in Clients : d # c =>
            /\ OkTrue(d) => OkTrue(d)'
            /\ RefusalTrue(d) => RefusalTrue(d)'
            /\ ConflictTrue(d) => ConflictTrue(d)'
    BY <1>1, <1>6 DEF OkTrue, RefusalTrue, ConflictTrue, Its
  <1>9. RepliesTrue'
    <2> SUFFICES ASSUME NEW d \in Clients
                 PROVE  (/\ pc[d] = "idle" => reply[d] = NoReply
                         /\ reply[d].code = "ok" => OkTrue(d)
                         /\ reply[d].code \in Refusals => RefusalTrue(d)
                         /\ reply[d].code = "conflict" => ConflictTrue(d))'
      BY DEF RepliesTrue
    <2>1. CASE d = c
      BY <1>6, <2>1 DEF NoReply, Refusals
    <2>2. CASE d # c
      BY <1>6, <1>8, <2>2 DEF IInv, RepliesTrue, Refusals
    <2> QED
      BY <2>1, <2>2
  <1>10. CredsFresh'
    <2>1. cred # 0 => cred <= minted
      BY <1>3 DEF IInv, CredsFresh
    <2>2. \A n \in delivered' : n <= minted'
      BY <1>1, <2>1 DEF IInv, CredsFresh
    <2>3. reply'[c].cred = 0 /\ 0 <= minted
      BY <1>6 DEF NoReply, IInv, TypeOK
    <2>4. ASSUME NEW d \in Clients, d # c
          PROVE  /\ reply'[d].cred <= minted'
                 /\ reply'[d].cred # 0 =>
                       /\ reply'[d].cred \notin delivered'
                       /\ \A e \in Clients : reply'[e].cred = reply'[d].cred => e = d
      <3>1. reply'[d] = reply[d] /\ reply[d].cred <= minted
        BY <1>6, <2>4 DEF IInv, CredsFresh
      <3>2. ASSUME reply[d].cred # 0
            PROVE  reply[d].cred \notin delivered /\ reply[d].cred # cred
        BY <2>4, <3>2 DEF IInv, CredsFresh
      <3>3. ASSUME reply[d].cred # 0, NEW e \in Clients, reply'[e].cred = reply[d].cred
            PROVE  e = d
        BY <1>6, <2>3, <3>3 DEF IInv, CredsFresh
      <3> QED
        BY <1>1, <3>1, <3>2, <3>3
    <2> QED
      BY <1>1, <2>2, <2>3, <2>4 DEF CredsFresh
  <1>11. RefusedMeansUntouched'
    BY <1>1, <1>6 DEF IInv, RefusedMeansUntouched, RefusalTrue, Its
  <1>12. ConflictIsForeign'
    BY <1>1, <1>6 DEF IInv, ConflictIsForeign, ConflictTrue
  <1>13. ConfirmedMeansDone'
    <2> SUFFICES ASSUME NEW d \in Clients, pc'[d] = "idle", ret'[d].err = "ok"
                 PROVE  /\ \E m \in served : /\ Its(d, m) /\ m.op = arg[d].op
                                             /\ m.id = arg[d].id /\ m.cfg = arg[d].cfg
                        /\ arg[d].op = "CreateEventSource" => ret'[d].value = arg[d].cfg
      BY <1>1 DEF ConfirmedMeansDone, Its
    <2>1. CASE d = c
      <3>1. OkTrue(c) /\ ret'[c].value = reply[c].value
        BY <1>6, <2>1
      <3> QED
        BY <2>1, <3>1 DEF OkTrue, Its, IInv, RequestsTrue
    <2>2. CASE d # c
      BY <1>6, <2>2 DEF IInv, ConfirmedMeansDone
    <2> QED
      BY <2>1, <2>2
  <1> QED
    BY <1>5, <1>7, <1>9, <1>10, <1>11, <1>12, <1>13 DEF IInv

\* Every end of a round trip.
LEMMA RoundTripIInv ==
    ASSUME IInv, NEW c \in Clients, RoundTrip(c)
    PROVE  IInv'
  <1>1. reply[c] \in [code : WireCodes \cup {"none", "ok"},
                      value : Configs \cup {NoEntry}, cred : Nat]
    BY DEF IInv, TypeOK
  <1>2. CASE RequestFailed(c)
    BY <1>2, ReturnIInv DEF RequestFailed, Errors, Refusals
  <1>3. CASE ErrorReply(c)
    <2> DEFINE e == errFromWireCode(reply[c].code)
    <2>1. /\ e \in Errors /\ e # "ok"
          /\ e \in Refusals => reply[c].code \in Refusals
          /\ e = "conflict" => reply[c].code = "conflict"
      BY DEF errFromWireCode, Errors, Refusals
    <2>2. pc[c] = "await" /\ Return(c, e, NoEntry, 0)
      BY <1>3 DEF ErrorReply
    <2> HIDE DEF e
    <2> QED
      BY <2>1, <2>2, ReturnIInv DEF IInv, RepliesTrue
  <1>4. CASE Decode(c)
    BY <1>1, <1>4, ReturnIInv DEF Decode, Errors, Refusals, IInv, RepliesTrue
  <1>5. CASE DecodeFailed(c)
    BY <1>5, ReturnIInv DEF DecodeFailed, Errors, Refusals
  <1> QED
    BY <1>2, <1>3, <1>4, <1>5 DEF RoundTrip

------------------------------------------------------------------------------
(* The service's steps.                                                    *)

\* An answer goes to the call its request belongs to, or to nobody.
LEMMA AnswerGoes ==
    ASSUME IInv, NEW m \in net, NEW r, Answer(m, r), UNCHANGED <<pc, call, arg>>
    PROVE  /\ m \in Requests /\ m.who \in Clients
           /\ \A d \in Clients :
                 \/ reply'[d] = reply[d]
                 \/ reply'[d] = r /\ d = m.who /\ Its(d, m) /\ pc[d] = "await"
           /\ \A d \in Clients : \A x : Its(d, x)' <=> Its(d, x)
  <1>1. m \in Requests /\ m.who \in Clients
    BY DEF IInv, TypeOK, Requests
  <1> QED
    BY <1>1 DEF Answer, Its, IInv, TypeOK

\* A request is under way once: the call it belongs to has no other.
LEMMA OnlyRequest ==
    ASSUME IInv, NEW m \in net, NEW c \in Clients, Its(c, m), NEW x \in served \cup net, Its(c, x)
    PROVE  x = m
  <1>1. m \in Requests /\ x \in Requests
    BY DEF IInv, TypeOK
  <1>2. m.op = x.op /\ m.id = x.id /\ m.cfg = x.cfg
    BY DEF Its, IInv, RequestsTrue
  <1> QED
    BY <1>1, <1>2, SameRequest DEF Its

\* A request that is carried out.
LEMMA ServeIInv ==
    ASSUME IInv, NEW m \in net, NEW code \in {"ok", "internal", "timeout"}, Serve(m, code)
    PROVE  IInv'
  <1> DEFINE cred == IF m.op = "CreateTenant" THEN minted + 1 ELSE 0
  <1>1. PICK r :
        /\ r = [code |-> code, value |-> Contents(m), cred |-> cred]
        /\ net' = net \ {m} /\ served' = served \cup {m}
        /\ entries' = [entries EXCEPT ![m.id] = Contents(m)]
        /\ minted' = IF m.op = "CreateTenant" THEN minted + 1 ELSE minted
        /\ Answer(m, r)
        /\ UNCHANGED <<pc, call, arg, ret, delivered>>
    BY DEF Serve
  <1>2. m \in Requests /\ m.id \in Ids /\ m.cfg \in Configs /\ minted \in Nat
    BY DEF IInv, TypeOK, Requests
  <1>3. Contents(m) \in Configs \cup {NoEntry}
    BY <1>2 DEF Contents, IInv, TypeOK
  <1>4. r \in [code : WireCodes \cup {"none", "ok"}, value : Configs \cup {NoEntry}, cred : Nat]
    BY <1>1, <1>2, <1>3 DEF WireCodes
  <1>5. r.code = code /\ r.value = Contents(m) /\ r.cred = cred
    BY <1>1
  <1>6. /\ m.who \in Clients
        /\ \A d \in Clients : \/ reply'[d] = reply[d]
                              \/ reply'[d] = r /\ d = m.who /\ Its(d, m) /\ pc[d] = "await"
        /\ \A d \in Clients : \A x : Its(d, x)' <=> Its(d, x)
    <2>1. Answer(m, r) /\ UNCHANGED <<pc, call, arg>>
      BY <1>1
    <2> QED
      BY <2>1, AnswerGoes
  <1>7. TypeOK'
    <2>1. reply' \in [Clients -> [code : WireCodes \cup {"none", "ok"},
                                 value : Configs \cup {NoEntry}, cred : Nat]]
      BY <1>1, <1>4 DEF Answer, IInv, TypeOK
    <2>2. entries' \in [Ids -> Configs \cup {NoEntry}] /\ minted' \in Nat
      BY <1>1, <1>2, <1>3 DEF IInv, TypeOK
    <2> QED
      BY <1>1, <1>2, <2>1, <2>2 DEF IInv, TypeOK
  <1>8. RequestsTrue' /\ ServedOnce'
    BY <1>1 DEF IInv, RequestsTrue, ServedOnce
  <1>9. EntriesServed'
    <2> SUFFICES ASSUME NEW b \in Bindings, entries'[b] # NoEntry
                 PROVE  \E n \in served' :
                            n.op = "CreateEventSource" /\ n.id = b /\ n.cfg = entries'[b]
      BY DEF EntriesServed
    <2>1. CASE entries'[b] = entries[b]
      BY <1>1, <2>1 DEF IInv, EntriesServed
    <2>2. CASE entries'[b] # entries[b]
      <3>1. m.id = b /\ entries'[b] = Contents(m)
        BY <1>1, <1>2, <2>2 DEF IInv, TypeOK, Ids
      <3>2. m.op \in EventSourceOps
        BY <1>2, <3>1, CallsAssumption DEF IInv, RequestsTrue, Requests
      <3>3. m.op = "CreateEventSource" /\ Contents(m) = m.cfg
        BY <2>2, <3>1, <3>2 DEF Contents, EventSourceOps
      <3> QED
        BY <1>1, <3>1, <3>3
    <2> QED
      BY <2>1, <2>2
  <1>10. ASSUME NEW d \in Clients
         PROVE  /\ (\E n \in served : Its(d, n)) => \E n \in served' : Its(d, n)'
                /\ RefusalTrue(d) => RefusalTrue(d)'
                /\ ConflictTrue(d) => ConflictTrue(d)'
    BY <1>1, <1>6 DEF RefusalTrue, ConflictTrue
  <1>11. RepliesTrue'
    <2> SUFFICES ASSUME NEW d \in Clients
                 PROVE  (/\ pc[d] = "idle" => reply[d] = NoReply
                         /\ reply[d].code = "ok" => OkTrue(d)
                         /\ reply[d].code \in Refusals => RefusalTrue(d)
                         /\ reply[d].code = "conflict" => ConflictTrue(d))'
      BY DEF RepliesTrue
    <2>1. CASE reply'[d] = reply[d]
      <3>1. OkTrue(d) => OkTrue(d)'
        BY <1>1, <1>10, <2>1 DEF OkTrue
      <3> QED
        BY <1>1, <1>10, <2>1, <3>1 DEF IInv, RepliesTrue
    <2>2. CASE reply'[d] = r /\ d = m.who /\ Its(d, m) /\ pc[d] = "await"
      <3>1. m.op = arg[d].op /\ m.cfg = arg[d].cfg
        BY <2>2 DEF IInv, RequestsTrue, Its
      <3>2. arg'[d].op = "CreateEventSource" => r.value = arg'[d].cfg
        BY <1>1, <1>5, <3>1 DEF Contents
      <3>3. OkTrue(d)'
        BY <1>1, <1>6, <2>2, <3>2 DEF OkTrue
      <3> QED
        BY <1>1, <1>5, <2>2, <3>3 DEF Refusals
    <2> QED
      BY <1>6, <2>1, <2>2
  <1>12. CredsFresh'
    <2>1. minted <= minted' /\ minted' \in Nat
      BY <1>1, <1>2
    <2>2. cred = 0 \/ (cred = minted + 1 /\ minted' = minted + 1)
      BY <1>1
    <2>3. \A n \in delivered' : n <= minted'
      BY <1>1, <1>2, <2>1 DEF IInv, CredsFresh, TypeOK
    <2>4. \A d \in Clients : reply[d].cred \in Nat /\ reply[d].cred <= minted
      BY DEF IInv, CredsFresh, TypeOK
    <2>5. ASSUME NEW d \in Clients
          PROVE  /\ reply'[d].cred <= minted'
                 /\ reply'[d].cred # 0 =>
                       /\ reply'[d].cred \notin delivered'
                       /\ \A e \in Clients : reply'[e].cred = reply'[d].cred => e = d
      <3>1. CASE reply'[d] = reply[d]
        <4>1. reply'[d].cred <= minted'
          BY <1>2, <2>1, <2>4, <3>1
        <4>2. ASSUME reply[d].cred # 0, NEW e \in Clients, reply'[e].cred = reply[d].cred
              PROVE  e = d
          <5>1. CASE reply'[e] = reply[e]
            BY <4>2, <5>1 DEF IInv, CredsFresh
          <5>2. CASE reply'[e] = r
            BY <1>2, <1>5, <2>2, <2>4, <4>2, <5>2
          <5> QED
            BY <1>6, <5>1, <5>2
        <4> QED
          BY <1>1, <3>1, <4>1, <4>2 DEF IInv, CredsFresh
      <3>2. CASE reply'[d] = r /\ d = m.who
        <4>1. r.cred <= minted'
          BY <1>2, <1>5, <2>1, <2>2
        <4>2. ASSUME r.cred # 0
              PROVE  r.cred \notin delivered
          BY <1>2, <1>5, <2>2, <4>2 DEF IInv, CredsFresh, TypeOK
        <4>3. ASSUME r.cred # 0, NEW e \in Clients, reply'[e].cred = r.cred
              PROVE  e = d
          <5>1. CASE reply'[e] = reply[e]
            BY <1>2, <1>5, <2>2, <2>4, <4>3, <5>1
          <5>2. CASE e = m.who
            BY <3>2, <5>2
          <5> QED
            BY <1>6, <5>1, <5>2
        <4> QED
          BY <1>1, <3>2, <4>1, <4>2, <4>3
      <3> QED
        BY <1>6, <3>1, <3>2
    <2> QED
      BY <2>3, <2>5 DEF CredsFresh
  <1>13. RefusedMeansUntouched'
    BY <1>1, <1>6 DEF IInv, RefusedMeansUntouched
  <1>14. ConfirmedMeansDone' /\ ConflictIsForeign'
    BY <1>1, <1>6 DEF IInv, ConfirmedMeansDone, ConflictIsForeign
  <1> QED
    BY <1>7, <1>8, <1>9, <1>11, <1>12, <1>13, <1>14 DEF IInv

\* A request that is refused.
LEMMA RefuseIInv ==
    ASSUME IInv, NEW m \in net, NEW code \in WireCodes, Refuse(m, code)
    PROVE  IInv'
  <1>1. PICK r :
        /\ r = [code |-> code, value |-> NoEntry, cred |-> 0]
        /\ net' = net \ {m} /\ Answer(m, r)
        /\ code = "conflict" => Clashes(m)
        /\ UNCHANGED <<entries, minted, served, pc, call, arg, ret, delivered>>
    BY DEF Refuse, admin
  <1>2. r \in [code : WireCodes \cup {"none", "ok"}, value : Configs \cup {NoEntry}, cred : Nat]
    BY <1>1
  <1>3. r.code = code /\ r.cred = 0
    BY <1>1
  <1>4. /\ m \in Requests /\ m.who \in Clients
        /\ \A d \in Clients : \/ reply'[d] = reply[d]
                              \/ reply'[d] = r /\ d = m.who /\ Its(d, m) /\ pc[d] = "await"
        /\ \A d \in Clients : \A x : Its(d, x)' <=> Its(d, x)
    <2>1. Answer(m, r) /\ UNCHANGED <<pc, call, arg>>
      BY <1>1
    <2> QED
      BY <2>1, AnswerGoes
  <1>5. TypeOK'
    BY <1>1, <1>2, SMTT(30) DEF Answer, IInv, TypeOK
  <1>6. RequestsTrue' /\ ServedOnce' /\ EntriesServed'
    BY <1>1 DEF IInv, RequestsTrue, ServedOnce, EntriesServed
  <1>7. ASSUME NEW d \in Clients
        PROVE  /\ (\E n \in served : Its(d, n)) => \E n \in served' : Its(d, n)'
               /\ RefusalTrue(d) => RefusalTrue(d)'
               /\ ConflictTrue(d) => ConflictTrue(d)'
    BY <1>1, <1>4 DEF RefusalTrue, ConflictTrue
  <1>8. RepliesTrue'
    <2> SUFFICES ASSUME NEW d \in Clients
                 PROVE  (/\ pc[d] = "idle" => reply[d] = NoReply
                         /\ reply[d].code = "ok" => OkTrue(d)
                         /\ reply[d].code \in Refusals => RefusalTrue(d)
                         /\ reply[d].code = "conflict" => ConflictTrue(d))'
      BY DEF RepliesTrue
    <2>1. CASE reply'[d] = reply[d]
      <3>1. OkTrue(d) => OkTrue(d)'
        BY <1>1, <1>7, <2>1 DEF OkTrue
      <3> QED
        BY <1>1, <1>7, <2>1, <3>1 DEF IInv, RepliesTrue
    <2>2. CASE reply'[d] = r /\ d = m.who /\ Its(d, m) /\ pc[d] = "await"
      <3>1. RefusalTrue(d)'
        <4>1. \A x \in served \cup net : Its(d, x) => x = m
          BY <2>2, OnlyRequest
        <4>2. m \notin served
          BY DEF IInv, ServedOnce
        <4> QED
          BY <1>1, <1>4, <4>1, <4>2 DEF RefusalTrue
      <3>2. code = "conflict" => ConflictTrue(d)'
        <4> SUFFICES ASSUME code = "conflict" PROVE ConflictTrue(d)'
          OBVIOUS
        <4>1. m.op = "CreateEventSource" /\ entries[m.id] # NoEntry /\ entries[m.id] # m.cfg
          BY <1>1 DEF Clashes
        <4>2. m.id \in Bindings
          BY <4>1 DEF IInv, RequestsTrue, EventSourceOps
        <4>3. m.id = arg[d].id /\ m.cfg = arg[d].cfg
          BY <2>2 DEF IInv, RequestsTrue, Its
        <4> QED
          BY <1>1, <4>1, <4>2, <4>3 DEF IInv, EntriesServed, ConflictTrue
      <3> QED
        BY <1>1, <1>3, <2>2, <3>1, <3>2 DEF WireCodes
    <2> QED
      BY <1>4, <2>1, <2>2
  <1>9. CredsFresh'
    <2>1. \A d \in Clients : reply'[d].cred = reply[d].cred \/ reply'[d].cred = 0
      BY <1>3, <1>4
    <2>2. 0 <= minted /\ \A d \in Clients : reply[d].cred \in Nat
      BY DEF IInv, TypeOK
    <2> QED
      BY <1>1, <2>1, <2>2 DEF IInv, CredsFresh
  <1>10. RefusedMeansUntouched'
    BY <1>1, <1>4 DEF IInv, RefusedMeansUntouched
  <1>11. ConfirmedMeansDone' /\ ConflictIsForeign'
    BY <1>1, <1>4 DEF IInv, ConfirmedMeansDone, ConflictIsForeign
  <1> QED
    BY <1>5, <1>6, <1>8, <1>9, <1>10, <1>11 DEF IInv

------------------------------------------------------------------------------
(* The theorems.                                                           *)

\* Each of the eight operations is a request.
LEMMA OperationRequests ==
    ASSUME NEW c \in Clients, NEW a \in Calls, Operation(c, a)
    PROVE  Request(c, a)
  BY DEF Operation, CreateEventSource, ListEventSources, InspectEventSource, DeleteEventSource,
         CreateTenant, UpdateTenant, DeleteTenant, ListTenants

\* A step of the client, the service or nobody.
LEMMA NextIInv == IInv /\ [Next]_vars => IInv'
  <1> SUFFICES ASSUME IInv, [Next]_vars PROVE IInv'
    OBVIOUS
  <1>1. CASE UNCHANGED vars
    BY <1>1 DEF vars, admin, IInv, TypeOK, RequestsTrue, ServedOnce, EntriesServed, RepliesTrue,
                OkTrue, RefusalTrue, ConflictTrue, CredsFresh, RefusedMeansUntouched,
                ConfirmedMeansDone, ConflictIsForeign, Its
  <1>2. ASSUME NEW c \in Clients, NEW a \in Calls, Operation(c, a) PROVE IInv'
    BY <1>2, OperationRequests, RequestIInv
  <1>3. ASSUME NEW c \in Clients, RoundTrip(c) PROVE IInv'
    BY <1>3, RoundTripIInv
  <1>4. CASE AdminStep
    <2>1. ASSUME NEW m \in net, NEW code \in {"ok", "internal", "timeout"}, Serve(m, code)
          PROVE  IInv'
      BY <2>1, ServeIInv
    <2>2. ASSUME NEW m \in net, NEW code \in WireCodes, Refuse(m, code) PROVE IInv'
      BY <2>2, RefuseIInv
    <2> QED
      BY <1>4, <2>1, <2>2 DEF AdminStep
  <1> QED
    BY <1>1, <1>2, <1>3, <1>4 DEF Next

\* The inductive invariant holds throughout.
THEOREM Invariance == Spec => []IInv
  BY InitIInv, NextIInv, PTL DEF Spec

\* The service, the requests and the answers keep their types, and an error is nil,
\* one of the package's sentinels or plain.
THEOREM TypeCorrect == Spec => []TypeOK
  <1>1. IInv => TypeOK
    BY DEF IInv
  <1> QED
    BY <1>1, Invariance, PTL

\* A call that returned ErrUsage, ErrNotFound, ErrConflict or ErrPrecondition was
\* not carried out and cannot be any more.
THEOREM RefusalsFinal == Spec => []RefusedMeansUntouched
  <1>1. IInv => RefusedMeansUntouched
    BY DEF IInv
  <1> QED
    BY <1>1, Invariance, PTL

\* A call that returned no error was carried out as its caller asked.
THEOREM Confirmed == Spec => []ConfirmedMeansDone
  <1>1. IInv => ConfirmedMeansDone
    BY DEF IInv
  <1> QED
    BY <1>1, Invariance, PTL

\* ErrConflict takes another configuration that was created under the binding.
THEOREM ConflictForeign == Spec => []ConflictIsForeign
  <1>1. IInv => ConflictIsForeign
    BY DEF IInv
  <1> QED
    BY <1>1, Invariance, PTL

\* No step hands out a credential a caller has already got.
LEMMA FreshStep ==
    ASSUME IInv, [Next]_vars
    PROVE  [\A c \in Clients :
               pc[c] = "await" /\ pc'[c] = "idle" /\ ret'[c].cred # 0
               => ret'[c].cred \notin delivered]_vars
  <1> SUFFICES ASSUME Next, NEW c \in Clients,
                      pc[c] = "await", pc'[c] = "idle", ret'[c].cred # 0
               PROVE  ret'[c].cred \notin delivered
    OBVIOUS
  <1>1. pc \in [Clients -> {"idle", "await"}] /\ DOMAIN ret = Clients
    BY DEF IInv, TypeOK
  <1>2. ~AdminStep
    BY DEF AdminStep, Serve, Refuse
  <1>3. ~\E d \in Clients, a \in Calls : Operation(d, a)
    BY <1>1, OperationRequests DEF Request
  <1>4. PICK d \in Clients : RoundTrip(d)
    BY <1>2, <1>3 DEF Next
  <1>5. PICK err, value, cred : Return(d, err, value, cred) /\ cred \in {0, reply[d].cred}
    BY <1>4 DEF RoundTrip, RequestFailed, ErrorReply, Decode, DecodeFailed
  <1>6. d = c
    BY <1>1, <1>5 DEF Return
  <1>7. ret'[c].cred = cred
    BY <1>1, <1>5, <1>6 DEF Return
  <1> QED
    BY <1>5, <1>6, <1>7 DEF IInv, CredsFresh

\* A credential is handed out by one CreateTenant call only.
THEOREM CredentialOnce == Spec => CredentialFresh
  <1>1. IInv /\ [Next]_vars
        => [\A c \in Clients :
               pc[c] = "await" /\ pc'[c] = "idle" /\ ret'[c].cred # 0
               => ret'[c].cred \notin delivered]_vars
    BY FreshStep
  <1> QED
    BY <1>1, Invariance, PTL DEF Spec, CredentialFresh
==============================================================================
