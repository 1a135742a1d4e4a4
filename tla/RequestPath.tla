----------------------------- MODULE RequestPath -----------------------------
(***************************************************************************)
(* The way of a request through the gateway and the middleware of a        *)
(* service to its handler and back: gateway/app/main.py and proxy.py,      *)
(* shared/core/middleware, the tenant ContextVar of shared/core/models,    *)
(* and the dependencies.py of the services.  Requests interleave at every  *)
(* await.  X-User-ID and X-Tenant-ID are one value here, Claims.           *)
(* RateLimiter says when the limit refuses; here it may or may not.        *)
(***************************************************************************)
EXTENDS Integers, FiniteSets

CONSTANTS Requests, Tenants, Users, None, Invalid,
          Ids     \* correlation ids, from clients or uuid4

Entries == {"gateway", "service"}
Phases == {"new", "route", "limit", "proxy", "upstream", "middleware", "dispatch",
           "handler", "finally", "answered"}

\* What a request brings, and what becomes of it.
Claims == [tenant : Tenants, user : Users]
Row == [phase : Phases, entry : Entries,
        known : BOOLEAN,      \* the path names a service
        public : BOOLEAN,     \* the path is one of _PUBLIC_AUTH_PREFIXES
        token : Claims \cup {None, Invalid},
        prefixed : BOOLEAN,   \* the path begins with /api/{service}
        client : Ids \cup {None}, corr : Ids \cup {None}, back : Ids \cup {None},
        state : Claims \cup {None},            \* request.state in the gateway
        headers : Claims \cup {None},          \* X-Tenant-ID and X-User-ID at the service
        upstreamCorr : Ids \cup {None},        \* request.state.correlation_id there
        result : {None, 200, 401, 404, 500},       \* what the service answers
        answer : {None, 200, 401, 404, 429, 500}]  \* what the client gets

VARIABLES
    req,        \* the requests
    tenantVar   \* the value of _tenant_id_var in the context of each request's task

vars == <<req, tenantVar>>

TypeOK ==
    /\ req \in [Requests -> Row]
    /\ tenantVar \in [Requests -> Tenants \cup {None}]

New(r) == req[r].phase = "new"

Init ==
    /\ req \in [Requests -> [phase : {"new"}, entry : Entries, known : BOOLEAN, public : BOOLEAN,
                             token : Claims \cup {None, Invalid}, prefixed : {TRUE},
                             client : {None}, corr : {None}, back : {None}, state : {None},
                             headers : {None}, upstreamCorr : {None}, result : {None},
                             answer : {None}]]
    /\ tenantVar = [r \in Requests |-> None]

Used == UNION {{req[r].client, req[r].corr, req[r].upstreamCorr} : r \in Requests}

\* CorrelationIdMiddleware: the id that came with the request, or a new one.
CorrelationId(given, id) == IF given = None THEN id \notin Used ELSE id = given

Step(r, phase, fields) ==
    req' = [req EXCEPT ![r] = [f \in DOMAIN @ |->
                IF f = "phase" THEN phase ELSE IF f \in DOMAIN fields THEN fields[f] ELSE @[f]]]
Answer(r, status) == Step(r, "answered", [answer |-> status, back |-> req[r].corr])

-----------------------------------------------------------------------------
(* The gateway *)

Arrive(r, client, id) ==
    /\ New(r) /\ req[r].entry = "gateway"
    /\ CorrelationId(client, id)
    /\ Step(r, "route", [client |-> client, corr |-> id])
    /\ UNCHANGED tenantVar

\* route: no upstream, no or no valid access token, or request.state is filled in.
Route(r) ==
    /\ req[r].phase = "route"
    /\ \/ ~req[r].known /\ Answer(r, 404)
       \/ req[r].known /\ req[r].public /\ Step(r, "limit", [state |-> None])
       \/ /\ req[r].known /\ ~req[r].public
          /\ IF req[r].token \in Claims THEN Step(r, "limit", [state |-> req[r].token])
             ELSE Answer(r, 401)
    /\ UNCHANGED tenantVar

\* An exception that route does not catch passes CorrelationIdMiddleware by and becomes a 500
\* outside of it, without the header.
Raise(r) == Step(r, "answered", [answer |-> 500]) /\ UNCHANGED tenantVar

\* apply_rate_limits
RateLimit(r) ==
    /\ req[r].phase = "limit"
    /\ Answer(r, 429) \/ Step(r, "proxy", [state |-> req[r].state])
    /\ UNCHANGED tenantVar

\* pipe.execute() raises something other than RateLimitError.
LimitFails(r) == req[r].phase = "limit" /\ Raise(r)

\* proxy_request: the path and the headers as they came, with those of the verified token.
\* If the client has sent the like of them too, both fields go out (the names of request.headers
\* are in lower case), and the service reads one of the two.
Proxy(r, sent) ==
    /\ req[r].phase = "proxy"
    /\ LET fields == {sent, req[r].state} \ {None}
       IN  \E h \in IF fields = {} THEN {None} ELSE fields : Step(r, "upstream", [headers |-> h])
    /\ UNCHANGED tenantVar

\* The upstream cannot be reached.
ProxyFails(r) == req[r].phase = "proxy" /\ Raise(r)

Upstream == {"upstream", "middleware", "dispatch", "handler", "finally"}
Awaited(r) == req[r].entry = "gateway" /\ req[r].phase \in Upstream /\ req[r].answer = None

\* Plausible slip: the client waits for a service that is at work (timeout=None).
Timeout_NotAtWork(r) ==
    /\ Awaited(r) /\ req[r].phase = "upstream"
    /\ Step(r, req[r].phase, [answer |-> 500])
    /\ UNCHANGED tenantVar

\* httpx.AsyncClient(timeout=30.0): the client gets a 500 while the service goes on.
Timeout(r) ==
    /\ Awaited(r)
    /\ Step(r, req[r].phase, [answer |-> 500])
    /\ UNCHANGED tenantVar

-----------------------------------------------------------------------------
(* A service *)

\* A caller inside the cluster, with the service's own paths and headers.
Call(r, headers, id) ==
    /\ New(r) /\ req[r].entry = "service"
    /\ id \notin Used
    /\ Step(r, "upstream", [headers |-> headers, prefixed |-> FALSE, corr |-> id])
    /\ UNCHANGED tenantVar

\* Plausible slip: _tenant_id_var is a module variable.
SetTenantId_Global(r, tenant) == tenantVar' = [x \in Requests |-> tenant]

\* set_tenant_id and clear_tenant_id write the context of the request's own task.
SetTenantId(r, tenant) == tenantVar' = [tenantVar EXCEPT ![r] = tenant]

\* TenantMiddleware, the outermost, up to call_next.
TenantMiddleware(r) ==
    /\ req[r].phase = "upstream"
    /\ IF req[r].headers = None THEN UNCHANGED tenantVar
       ELSE SetTenantId(r, req[r].headers.tenant)
    /\ Step(r, "middleware", [state |-> req[r].state])

\* Plausible slip: every service makes up its own id.
Correlate_Fresh(r, id) ==
    /\ req[r].phase = "middleware"
    /\ CorrelationId(None, id)
    /\ Step(r, "dispatch", [upstreamCorr |-> id])
    /\ UNCHANGED tenantVar

\* CorrelationIdMiddleware of the service.
Correlate(r, id) ==
    /\ req[r].phase = "middleware"
    /\ CorrelationId(req[r].corr, id)
    /\ Step(r, "dispatch", [upstreamCorr |-> id])
    /\ UNCHANGED tenantVar

\* The router and the dependencies.  The routers have no /api/{service} prefix.  The
\* set_tenant_id of get_current_tenant_id_dep runs in a copy of the context, so it has
\* no effect; get_current_user_id looks at request.state, which nothing has filled in.
Dispatch(r, needsUser) ==
    /\ req[r].phase = "dispatch"
    /\ \/ req[r].prefixed /\ Step(r, "finally", [result |-> 404])
       \/ /\ ~req[r].prefixed
          /\ IF req[r].headers = None \/ needsUser THEN Step(r, "finally", [result |-> 401])
             ELSE Step(r, "handler", [result |-> None])
    /\ UNCHANGED tenantVar

\* The handler, in any number of statements that call get_current_tenant_id().
Handle(r) ==
    /\ req[r].phase = "handler"
    /\ Step(r, "finally", [result |-> IF tenantVar[r] = None THEN 500 ELSE 200])
    /\ UNCHANGED tenantVar

\* clear_tenant_id() in the finally of TenantMiddleware, and the way back, unless the gateway
\* has given up.  The service labels what it answers, but for a 500; proxy_request and the
\* gateway's CorrelationIdMiddleware put the gateway's id in its place.
Finally(r) ==
    /\ req[r].phase = "finally"
    /\ SetTenantId(r, None)
    /\ IF req[r].answer # None THEN Step(r, "answered", [answer |-> req[r].answer])
       ELSE Step(r, "answered", [answer |-> req[r].result,
                                 back |-> IF req[r].entry = "gateway" THEN req[r].corr
                                          ELSE IF req[r].result = 500 THEN None
                                          ELSE req[r].upstreamCorr])

Limiter(r) == RateLimit(r) \/ LimitFails(r)
Forward(r) ==
    \/ Route(r) \/ ProxyFails(r) \/ Timeout(r)
    \/ \E sent \in Claims \cup {None} : Proxy(r, sent)

Service(r) ==
    \/ TenantMiddleware(r) \/ \E id \in Ids : Correlate(r, id)
    \/ \E needsUser \in BOOLEAN : Dispatch(r, needsUser)
    \/ Handle(r) \/ Finally(r)

Next ==
    \E r \in Requests :
        \/ \E id \in Ids : \/ \E client \in Ids \cup {None} : Arrive(r, client, id)
                           \/ \E h \in Claims \cup {None} : Call(r, h, id)
        \/ Limiter(r) \/ Forward(r) \/ Service(r)

\* The gateway's event loop runs whatever is ready and its client gives up after 30
\* seconds.  A service need not get on: it waits for its database.  Nor need Redis answer the
\* limiter, whose client has no timeout.
Spec == Init /\ [][Next]_vars /\ \A r \in Requests : WF_vars(Forward(r))

-----------------------------------------------------------------------------
(* Properties *)

\* However requests interleave, every statement of a handler runs with the tenant of its
\* own request, and no tenant stays behind in a context when a request is over.
TenantIsOwn ==
    \A r \in Requests :
        /\ req[r].phase \in {"middleware", "dispatch", "handler", "finally"} =>
               tenantVar[r] = IF req[r].headers = None THEN None ELSE req[r].headers.tenant
        /\ req[r].phase \in {"new", "answered"} => tenantVar[r] = None

\* A service works under the id that the gateway took or made, every answer but a 500 carries
\* it, and no answer carries another, however services and ids interleave: an id that no client
\* has given belongs to one request.
CorrelationIsKept ==
    \A r \in Requests :
        /\ req[r].upstreamCorr \in {None, req[r].corr} /\ req[r].back \in {None, req[r].corr}
        /\ req[r].answer \notin {None, 500} => req[r].back # None
        /\ req[r].client # None => req[r].corr = req[r].client
        /\ \A q \in Requests \ {r} :
              (req[r].corr # None /\ req[r].corr = req[q].corr) =>
                  req[r].corr \in {req[r].client, req[q].client}

\* The gateway answers every request that the limiter lets go on, although its service may
\* hang, and every other one unless Redis hangs.
RequestsAreAnswered ==
    \A r \in Requests :
        /\ (req[r].phase = "route") ~> (req[r].answer # None \/ req[r].phase = "limit")
        /\ (req[r].phase = "proxy") ~> (req[r].answer # None)

=============================================================================
