---------------------------- MODULE MCProvision ------------------------------
EXTENDS Provision

CONSTANTS c1, c2, b1, t1, t2, x, y

\* Operations that take no configuration are called with one value of it.
WithoutConfig == {"InspectEventSource", "DeleteEventSource", "ListEventSources"}

\* Every operation on one binding and one tenant; UpdateTenant also with a
\* configuration that has another tenant's id.
MCCalls ==
    {a \in [op : EventSourceOps, id : {b1}, cfg : {x, y}, cfgId : {b1}] :
        a.op \in WithoutConfig => a.cfg = x}
    \cup {a \in [op : TenantOps, id : {t1}, cfg : {x}, cfgId : {t1, t2}] :
        a.op # "UpdateTenant" => a.cfgId = a.id}

\* Two calls of one client, one of the other.
MCMaxCalls == [c \in Clients |-> IF c = c1 THEN 2 ELSE 1]
==============================================================================
