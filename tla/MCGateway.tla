------------------------------ MODULE MCGateway ------------------------------
(* The gateway on small instances: its rate limiter, and the way of a request *)
(* through it.  RequestPath takes any answer of the limiter, so the two are   *)
(* explored side by side: `part` is "path", or the number of checks that may  *)
(* overlap at the limiter.                                                    *)
EXTENDS RateLimiter, TLC

CONSTANTS Users, Invalid, Ids

ASSUME IdsAssumption == None \notin Ids

VARIABLES part, req, tenantVar

Path == INSTANCE RequestPath

pathVars == <<req, tenantVar>>
mcVars == <<vars, pathVars, part>>

\* What nobody looks at is fixed: tokens and paths at a service, the token of a public path
\* or of one that leads nowhere, and all of it while the limiter is explored.
Plain(r) == ~req[r].known /\ ~req[r].public /\ req[r].token = None
Relevant(r) ==
    /\ req[r].entry = "service" \/ part # "path" => Plain(r) /\ req[r].entry = "service"
    /\ ~req[r].known => ~req[r].public
    /\ req[r].public \/ ~req[r].known => req[r].token = None

MCInit == Init /\ Path!Init /\ part \in {"serial", "overlap", "path"} /\ \A r \in Requests : Relevant(r)

InTurn == part = "serial" => \A q, r \in Requests : check[q] # Idle /\ check[r] # Idle => q = r

TurnsNext ==
    /\ UNCHANGED part
    /\ \/ part # "path" /\ Next /\ InTurn' /\ UNCHANGED pathVars
       \/ part = "path" /\ Path!Next /\ UNCHANGED vars

TurnsSpec == MCInit /\ [][TurnsNext]_mcVars

\* Bounds: one address.  Serial: the same request with one tenant, up to the millisecond 6.
\* Overlap: no tenant.
First(S) == CHOOSE x \in S : TRUE
Fits ==
    \A r \in Requests : check[r] # Idle =>
        /\ check[r].key \in Addresses => check[r].key = First(Addresses)
        /\ check[r].key \in Tenants => check[r].key = First(Tenants)
        /\ part = "serial" => /\ clock <= 6 /\ r = First(Requests)
                              /\ check[r].tenant \in {None, First(Tenants)}
        /\ part = "overlap" => check[r].tenant = None

MCSpec == /\ MCInit /\ [][TurnsNext /\ Fits']_mcVars
          /\ \A r \in Requests : WF_mcVars(Path!Forward(r) /\ part = "path" /\ UNCHANGED <<part, vars>>)

-----------------------------------------------------------------------------

\* When no check overtakes another, check_rate_limit decides by the requests of its last
\* window: neither ZREMRANGEBYSCORE nor the expiry of the key changes an answer.
SerialDecidesByTheWindow == part = "serial" => DecidesByTheWindow

\* Handlers run with the tenant of their own request, and leave none behind.
TenantIsOwn == Path!TenantIsOwn

\* Gateway, service and client see one correlation id, but for a 500 of the gateway.
CorrelationIsKept == Path!CorrelationIsKept

\* The gateway answers, although a service may hang, and waits for nothing but Redis.
RequestsAreAnswered == Path!RequestsAreAnswered

=============================================================================
