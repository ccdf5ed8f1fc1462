------------------------------ MODULE Provision ------------------------------
(***************************************************************************)
(* The provisioning client (sdk/provision/provision.go): eight typed       *)
(* operations over one request round trip with a deadline, against the     *)
(* engine's admin service.                                                 *)
(*                                                                         *)
(* The admin service is external: event sources and tenants by id, with    *)
(* the answers the client's documentation names.  A request or its answer  *)
(* may be lost or late; the client sends each request once and waits until *)
(* the answer or the deadline, or until its caller cancels.                *)
(***************************************************************************)
EXTENDS Naturals

CONSTANTS
    Clients,        \* goroutines that use a Client
    Bindings,       \* event-source binding ids
    Tenants,        \* tenant ids
    Configs,        \* contents of a BindingConfig, or of TenantConfig.Caps
    NoEntry,        \* nothing under an id
    Calls,          \* the calls the program makes
    MaxCalls        \* bound: MaxCalls[c] calls of client c

Ids == Bindings \cup Tenants

EventSourceOps == {"CreateEventSource", "InspectEventSource",
                   "DeleteEventSource", "ListEventSources"}
TenantOps == {"CreateTenant", "UpdateTenant", "DeleteTenant", "ListTenants"}

\* A call has the id it is about and, where the operation takes one, a
\* configuration with a tenant id of its own (cfgId).  The lists have no id; the
\* one they carry here is not looked at.
CallType ==
    [op : EventSourceOps, id : Bindings, cfg : Configs, cfgId : Bindings]
    \cup [op : TenantOps, id : Tenants, cfg : Configs, cfgId : Tenants]

ASSUME CallsAssumption ==
    /\ Calls \subseteq CallType /\ Calls # {}
    /\ Bindings \cap Tenants = {}
    /\ NoEntry \notin Configs
    /\ MaxCalls \in [Clients -> Nat]

VARIABLES
    entries,        \* the admin service: contents by id
    minted,         \* the number of credentials it has issued
    served,         \* the requests it has carried out (history)
    net,            \* requests under way
    reply,          \* reply[c]: the answer c's current request has got
    pc,             \* pc[c]: "idle" or "await"
    call,           \* call[c]: the number of c's current or last call
    arg,            \* arg[c]: the parameters of that call
    ret,            \* ret[c]: what c's last finished call returned
    delivered       \* the credentials handed to callers (history)

admin == <<entries, minted, served>>
vars == <<admin, net, reply, pc, call, arg, ret, delivered>>

Requests == [who : Clients, call : Nat, op : EventSourceOps \cup TenantOps,
             id : Ids, cfg : Configs]

WireCodes == {"usage", "not-found", "conflict", "unavailable", "precondition",
              "internal", "timeout"}
NoReply == [code |-> "none", value |-> NoEntry, cred |-> 0]

Init ==
    /\ entries = [x \in Ids |-> NoEntry]
    /\ minted = 0
    /\ served = {}
    /\ net = {}
    /\ reply = [c \in Clients |-> NoReply]
    /\ pc = [c \in Clients |-> "idle"]
    /\ call = [c \in Clients |-> 0]
    /\ arg = [c \in Clients |-> CHOOSE a \in Calls : TRUE]
    /\ ret = [c \in Clients |-> [err |-> "none", value |-> NoEntry, cred |-> 0]]
    /\ delivered = {}

------------------------------------------------------------------------------
(* The admin service (external).                                           *)

\* An answer reaches the request it belongs to, if it is still awaited, or is lost.
Answer(m, r) ==
    \/ /\ pc[m.who] = "await" /\ call[m.who] = m.call
       /\ reply' = [reply EXCEPT ![m.who] = r]
    \/ UNCHANGED reply

Missing(m) ==
    m.op \in {"InspectEventSource", "DeleteEventSource"} /\ entries[m.id] = NoEntry

\* An identical re-create is confirmed, a different one refused.
Clashes(m) == m.op = "CreateEventSource" /\ entries[m.id] \notin {NoEntry, m.cfg}

Contents(m) ==
    IF m.op \in {"CreateEventSource", "CreateTenant", "UpdateTenant"} THEN m.cfg
    ELSE IF m.op \in {"DeleteEventSource", "DeleteTenant"} THEN NoEntry
    ELSE entries[m.id]

\* The request is carried out.  What follows may still fail, and the answer then
\* is an error.
Serve(m, code) ==
    /\ m \in net
    /\ ~Missing(m) /\ ~Clashes(m)
    /\ net' = net \ {m}
    /\ entries' = [entries EXCEPT ![m.id] = Contents(m)]
    /\ minted' = IF m.op = "CreateTenant" THEN minted + 1 ELSE minted
    /\ served' = served \cup {m}
    /\ Answer(m, [code |-> code, value |-> Contents(m),
                  cred |-> IF m.op = "CreateTenant" THEN minted + 1 ELSE 0])
    /\ UNCHANGED <<pc, call, arg, ret, delivered>>

\* It is refused and nothing happens.
Refuse(m, code) ==
    /\ m \in net
    /\ code = "not-found" => Missing(m)
    /\ code = "conflict" => Clashes(m)
    /\ net' = net \ {m}
    /\ Answer(m, [code |-> code, value |-> NoEntry, cred |-> 0])
    /\ UNCHANGED <<admin, pc, call, arg, ret, delivered>>

------------------------------------------------------------------------------
(* Client.                                                                 *)

\* Mutant of Wire: UpdateTenant sends the tenant id of the configuration.
WireConfigId(c) ==
    [who |-> c, call |-> call'[c], op |-> arg'[c].op,
     id |-> IF arg'[c].op = "UpdateTenant" THEN arg'[c].cfgId ELSE arg'[c].id,
     cfg |-> arg'[c].cfg]

\* The request on the wire; UpdateTenant's tenantID overrides cfg.TenantID.
Wire(c) ==
    [who |-> c, call |-> call'[c], op |-> arg'[c].op, id |-> arg'[c].id,
     cfg |-> arg'[c].cfg]

\* request: the data is marshalled (these types cannot fail to) and sent.
Request(c, a) ==
    /\ pc[c] = "idle"
    /\ call[c] < MaxCalls[c]
    /\ call' = [call EXCEPT ![c] = @ + 1]
    /\ arg' = [arg EXCEPT ![c] = a]
    /\ pc' = [pc EXCEPT ![c] = "await"]
    /\ net' = net \cup {Wire(c)}
    /\ UNCHANGED <<admin, reply, ret, delivered>>

\* The eight operations: a request each, whose answer RoundTrip returns.
CreateEventSource(c, a) == a.op = "CreateEventSource" /\ Request(c, a)
ListEventSources(c, a) == a.op = "ListEventSources" /\ Request(c, a)
InspectEventSource(c, a) == a.op = "InspectEventSource" /\ Request(c, a)
DeleteEventSource(c, a) == a.op = "DeleteEventSource" /\ Request(c, a)
CreateTenant(c, a) == a.op = "CreateTenant" /\ Request(c, a)
UpdateTenant(c, a) == a.op = "UpdateTenant" /\ Request(c, a)
DeleteTenant(c, a) == a.op = "DeleteTenant" /\ Request(c, a)
ListTenants(c, a) == a.op = "ListTenants" /\ Request(c, a)

Operation(c, a) ==
    \/ CreateEventSource(c, a) \/ ListEventSources(c, a)
    \/ InspectEventSource(c, a) \/ DeleteEventSource(c, a)
    \/ CreateTenant(c, a) \/ UpdateTenant(c, a) \/ DeleteTenant(c, a) \/ ListTenants(c, a)

Return(c, err, value, cred) ==
    /\ pc' = [pc EXCEPT ![c] = "idle"]
    /\ ret' = [ret EXCEPT ![c] = [err |-> err, value |-> value, cred |-> cred]]
    /\ reply' = [reply EXCEPT ![c] = NoReply]
    /\ delivered' = delivered \cup ({cred} \ {0})
    /\ UNCHANGED <<admin, net, call, arg>>

\* RequestWithContext failed: deadline, cancelled caller, no responders, broken
\* connection.
RequestFailed(c) ==
    /\ pc[c] = "await"
    /\ Return(c, "unavailable", NoEntry, 0)

\* Mutants of errFromWireCode: every unknown code is a precondition; a missing
\* binding is reported as a conflict; the sentinel is missing altogether.
errFromWireCodeLumped(code) ==
    IF code \in {"usage", "not-found", "conflict", "unavailable"} THEN code ELSE "precondition"
errFromWireCodeSwapped(code) ==
    IF code = "not-found" THEN "conflict"
    ELSE IF code \in {"usage", "conflict", "unavailable", "precondition"} THEN code ELSE "plain"
errFromWireCodeRaw(code) == code

\* The sentinel of a wire code; the others become a plain error.
errFromWireCode(code) ==
    IF code \in {"usage", "not-found", "conflict", "unavailable", "precondition"}
    THEN code ELSE "plain"

ErrorReply(c) ==
    /\ pc[c] = "await"
    /\ reply[c].code \in WireCodes
    /\ Return(c, errFromWireCode(reply[c].code), NoEntry, 0)

\* Mutants of Decode: the error header is not looked at; a credential received
\* before is returned again.
DecodeUnchecked(c) ==
    /\ pc[c] = "await"
    /\ reply[c].code # "none"
    /\ Return(c, "ok", reply[c].value, reply[c].cred)
DecodeCached(c) ==
    /\ pc[c] = "await"
    /\ reply[c].code = "ok"
    /\ Return(c, "ok", reply[c].value,
              IF reply[c].cred # 0 /\ ret[c].cred # 0 THEN ret[c].cred ELSE reply[c].cred)

\* No error header: the answer is decoded and returned as it came.
Decode(c) ==
    /\ pc[c] = "await"
    /\ reply[c].code = "ok"
    /\ Return(c, "ok", reply[c].value, reply[c].cred)

\* The body does not decode; which bodies do is not modelled.
DecodeFailed(c) ==
    /\ pc[c] = "await"
    /\ reply[c].code = "ok"
    /\ Return(c, "plain", NoEntry, 0)

RoundTrip(c) == RequestFailed(c) \/ ErrorReply(c) \/ Decode(c) \/ DecodeFailed(c)

AdminStep ==
    \E m \in net :
        \/ \E code \in {"ok", "internal", "timeout"} : Serve(m, code)
        \/ \E code \in WireCodes : Refuse(m, code)

Next ==
    \/ \E c \in Clients :
          \/ \E a \in Calls : Operation(c, a)
          \/ RoundTrip(c)
    \/ AdminStep

Spec == Init /\ [][Next]_vars

------------------------------------------------------------------------------
Errors == {"none", "ok", "usage", "not-found", "conflict", "unavailable",
           "precondition", "plain"}

\* The types: an error is nil, one of the package's sentinels, or plain.
TypeOK ==
    /\ entries \in [Ids -> Configs \cup {NoEntry}]
    /\ minted \in Nat
    /\ served \in SUBSET Requests
    /\ net \in SUBSET Requests
    /\ reply \in [Clients -> [code : WireCodes \cup {"none", "ok"},
                              value : Configs \cup {NoEntry}, cred : Nat]]
    /\ pc \in [Clients -> {"idle", "await"}]
    /\ call \in [Clients -> Nat]
    /\ arg \in [Clients -> Calls]
    /\ ret \in [Clients -> [err : Errors, value : Configs \cup {NoEntry}, cred : Nat]]
    /\ delivered \in SUBSET Nat

\* The requests of c's last call.
Its(c, m) == m.who = c /\ m.call = call[c]

Refusals == {"usage", "not-found", "conflict", "precondition"}

\* A refusal is final (the sentinels, provision.go:82): a call that returned
\* ErrUsage, ErrNotFound, ErrConflict or ErrPrecondition was not carried out, and
\* no request of it is left that could be.
RefusedMeansUntouched ==
    \A c \in Clients : pc[c] = "idle" /\ ret[c].err \in Refusals
        => ~\E m \in served \cup net : Its(c, m)

\* A nil error is the truth (provision.go:182): the service has carried out this
\* operation on the id and with the configuration the caller named, and a binding
\* comes back as it was asked for.
ConfirmedMeansDone ==
    \A c \in Clients : pc[c] = "idle" /\ ret[c].err = "ok" =>
        /\ \E m \in served : /\ Its(c, m)
                             /\ m.op = arg[c].op /\ m.id = arg[c].id /\ m.cfg = arg[c].cfg
        /\ arg[c].op = "CreateEventSource" => ret[c].value = arg[c].cfg

\* A create can be repeated after an answer was lost (provision.go:261): ErrConflict
\* is never the echo of an identical create, it takes another configuration that
\* somebody, possibly the caller, had created.
ConflictIsForeign ==
    \A c \in Clients : pc[c] = "idle" /\ ret[c].err = "conflict" =>
        \E m \in served : /\ m.op = "CreateEventSource" /\ m.id = arg[c].id
                          /\ m.cfg # arg[c].cfg

\* "Never a cached/reused value" (provision.go:395): a credential is handed out by
\* one CreateTenant call only, those of other clients and earlier calls included.
CredentialFresh ==
    [][\A c \in Clients :
          pc[c] = "await" /\ pc'[c] = "idle" /\ ret'[c].cred # 0
          => ret'[c].cred \notin delivered]_vars
==============================================================================
