----------------------------- MODULE RateLimiter -----------------------------
(***************************************************************************)
(* The gateway's sliding-window rate limiter                               *)
(* (src/services/gateway/app/rate_limit.py): one Redis sorted set per      *)
(* client address and one per tenant, whose members are the milliseconds   *)
(* at which requests were checked.                                         *)
(*                                                                         *)
(* A check reads the clock of its gateway process and then executes its    *)
(* pipeline, a transaction of Redis; in between, other requests go on.     *)
(***************************************************************************)
EXTENDS Integers, FiniteSets

CONSTANTS
    Requests,         \* requests that may be in flight at the same time
    Addresses, Tenants,
    None,             \* the tenant of a request on a public path
    Window,           \* the window in milliseconds
    Ttl,              \* what expire() gives a key, in milliseconds
    PerIp, PerTenant, \* the limits
    MaxTime           \* bound: the last millisecond

ASSUME WindowAssumption == {Window, PerIp, PerTenant} \subseteq Nat \ {0} /\ Ttl \in Nat
ASSUME TtlAssumption == Ttl >= Window    \* window + 1 seconds
ASSUME RequestsAssumption == IsFiniteSet(Requests)
ASSUME BoundsAssumption == MaxTime \in Nat

Keys == Addresses \cup Tenants
Time == 0 .. MaxTime
Limit(key) == IF key \in Addresses THEN PerIp ELSE PerTenant

Idle == [key |-> None]

VARIABLES
    clock,     \* the time, in milliseconds
    zset,      \* the sorted set of each key; a member is its own score
    expires,   \* when Redis drops the key
    check,     \* the check each request is in: its key, tenant and the time it read
    made,      \* auxiliary: the milliseconds for which a check was executed
    admitted   \* auxiliary: the milliseconds of the checks that passed

vars == <<clock, zset, expires, check, made, admitted>>

TypeOK ==
    /\ clock \in Time
    /\ zset \in [Keys -> SUBSET Time]
    /\ expires \in [Keys -> 0 .. MaxTime + Ttl]
    /\ check \in [Requests -> [key : Keys, tenant : Tenants \cup {None}, now : Time] \cup {Idle}]
    /\ made \in [Keys -> SUBSET Time]
    /\ admitted \in [Keys -> SUBSET Time]

Init ==
    /\ clock = 0
    /\ zset = [k \in Keys |-> {}]
    /\ expires = [k \in Keys |-> 0]
    /\ check = [r \in Requests |-> Idle]
    /\ made = [k \in Keys |-> {}]
    /\ admitted = [k \in Keys |-> {}]

Tick ==
    /\ clock < MaxTime
    /\ clock' = clock + 1
    /\ UNCHANGED <<zset, expires, check, made, admitted>>

\* Redis drops a key whose time is over.
ExpireKey(k) ==
    /\ zset[k] # {} /\ clock >= expires[k]
    /\ zset' = [zset EXCEPT ![k] = {}]
    /\ UNCHANGED <<clock, expires, check, made, admitted>>

\* apply_rate_limits: the address comes first.  now = int(time.time() * 1000)
Begin(r, ip, tenant) ==
    /\ check[r] = Idle
    /\ check' = [check EXCEPT ![r] = [key |-> ip, tenant |-> tenant, now |-> clock]]
    /\ UNCHANGED <<clock, zset, expires, made, admitted>>

\* Plausible slip: an off-by-one at the start of the window.
Counted_HalfWindow(r) ==
    LET c == check[r] IN {t \in zset[c.key] : t > c.now - (Window - 1)} \cup {c.now}

\* Members after ZREMRANGEBYSCORE 0 (now - window) and ZADD {str(now): now}.
Counted(r) ==
    LET c == check[r] IN {t \in zset[c.key] : t > c.now - Window} \cup {c.now}

Passes(r) == Cardinality(Counted(r)) <= Limit(check[r].key)

\* Plausible slip: the request is counted and not added.
Pipeline_NoAdd(r) ==
    LET c == check[r]
    IN  /\ c # Idle
        /\ zset' = [zset EXCEPT ![c.key] = Counted(r) \ {c.now}]
        /\ expires' = [expires EXCEPT ![c.key] = clock + Ttl]
        /\ made' = [made EXCEPT ![c.key] = @ \cup {c.now}]

\* pipe.execute(), with the expire that ends it.
Pipeline(r) ==
    LET c == check[r]
    IN  /\ c # Idle
        /\ zset' = [zset EXCEPT ![c.key] = Counted(r)]
        /\ expires' = [expires EXCEPT ![c.key] = clock + Ttl]
        /\ made' = [made EXCEPT ![c.key] = @ \cup {c.now}]

\* The check passes; after the address comes the tenant, with a time of its own.
Admit(r) ==
    LET c == check[r]
    IN  /\ Pipeline(r)
        /\ Passes(r)
        /\ admitted' = [admitted EXCEPT ![c.key] = @ \cup {c.now}]
        /\ check' = [check EXCEPT ![r] =
               IF c.tenant = None THEN Idle
               ELSE [key |-> c.tenant, tenant |-> None, now |-> clock]]
        /\ UNCHANGED clock

\* RateLimitError; the request stays in the sorted set.
Refuse(r) ==
    /\ Pipeline(r)
    /\ ~Passes(r)
    /\ check' = [check EXCEPT ![r] = Idle]
    /\ UNCHANGED <<clock, admitted>>

\* pipe.execute() raises, before Redis has run the pipeline or after it: the request ends in a
\* 500 (LimitFails of RequestPath), and its member may stay.
Fail(r) ==
    /\ check[r] # Idle
    /\ Pipeline(r) \/ UNCHANGED <<zset, expires, made>>
    /\ check' = [check EXCEPT ![r] = Idle]
    /\ UNCHANGED <<clock, admitted>>

Next ==
    \/ Tick
    \/ \E k \in Keys : ExpireKey(k)
    \/ \E r \in Requests :
        \/ \E ip \in Addresses, t \in Tenants \cup {None} : Begin(r, ip, t)
        \/ Admit(r) \/ Refuse(r) \/ Fail(r)

Spec == Init /\ [][Next]_vars

-----------------------------------------------------------------------------
(* Properties *)

\* What the code keeps of "requests exceeding the limit receive 429" (README): no window has
\* admitted requests in more milliseconds than the limit, but for the requests that were
\* delayed in flight while pipelines overtook them or the key expired.  In one millisecond any
\* number of requests may pass: they are one member.
BusyMillisecondsAreBounded ==
    \A k \in Keys, t \in Time :
        Cardinality({u \in Time : t - Window < u /\ u <= t /\ u \in admitted[k]})
            <= Limit(k) + Cardinality(Requests)

\* A sliding window by definition: when no check overtakes another and none is delayed
\* by more than Ttl - Window, a check passes exactly if the checks of the last Window
\* milliseconds, refused ones and itself included, occupy at most as many milliseconds
\* as the limit.  Removal and expiry change no decision.
DecidesByTheWindow ==
    \A r \in Requests :
        LET c == check[r]
            recent == {t \in made[c.key] : t > c.now - Window} \cup {c.now}
        IN  (c # Idle /\ clock - c.now <= Ttl - Window)
                => (Passes(r) <=> Cardinality(recent) <= Limit(c.key))

=============================================================================
