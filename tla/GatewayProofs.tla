---------------------------- MODULE GatewayProofs ----------------------------
(***************************************************************************)
(* Proofs about the gateway: the way of a request with its tenant and its  *)
(* correlation id, and the sliding window of the rate limiter.             *)
(***************************************************************************)
EXTENDS MCGateway, FiniteSetTheorems, TLAPS

-----------------------------------------------------------------------------
(* The way of a request *)

Fields == {"phase", "entry", "known", "public", "token", "prefixed", "client", "corr", "back",
           "state", "headers", "upstreamCorr", "result", "answer"}

RowsInv ==
    /\ req = [r \in Requests |-> req[r]] /\ \A r \in Requests : DOMAIN req[r] = Fields
    /\ tenantVar = [r \in Requests |-> tenantVar[r]]

\* The context of a request has a tenant from the middleware's entry to its finally, the one
\* of the request's headers, which stay as they are.
InService(r) == req[r].phase \in {"middleware", "dispatch", "handler", "finally"}
ContextInv ==
    \A r \in Requests :
        tenantVar[r] = IF InService(r) /\ req[r].headers # None THEN req[r].headers.tenant ELSE None

\* A request has an id once it has arrived, and its service took that one over.
IdInv ==
    \A r \in Requests :
        /\ req[r].phase = "new" => req[r].client = None /\ req[r].corr = None /\ req[r].answer = None
        /\ req[r].phase # "new" => req[r].corr # None
        /\ req[r].phase \in {"dispatch", "handler", "finally"} => req[r].upstreamCorr = req[r].corr

PathInv == RowsInv /\ ContextInv /\ IdInv /\ CorrelationIsKept

\* A step of a request changes its phase and the fields it names, and no other request.
LEMMA StepFacts ==
    ASSUME RowsInv, NEW r \in Requests, NEW phase, NEW fields, Path!Step(r, phase, fields)
    PROVE  /\ req' = [q \in Requests |-> req'[q]] /\ \A q \in Requests : DOMAIN req'[q] = Fields
           /\ \A q \in Requests : q # r => req'[q] = req[q]
           /\ req'[r].phase = phase
           /\ \A f \in Fields \ {"phase"} :
                 req'[r][f] = IF f \in DOMAIN fields THEN fields[f] ELSE req[r][f]
<1> DEFINE row == [f \in DOMAIN req[r] |-> IF f = "phase" THEN phase
                                           ELSE IF f \in DOMAIN fields THEN fields[f] ELSE req[r][f]]
<1>1. req' = [req EXCEPT ![r] = row]
  BY DEF Path!Step
<1>2. DOMAIN req[r] = Fields /\ "phase" \in Fields
  BY DEF RowsInv, Fields
<1>3. req'[r] = row /\ \A q \in Requests : q # r => req'[q] = req[q]
  BY <1>1 DEF RowsInv
<1>4. DOMAIN row = Fields
  BY <1>2
<1>5. row.phase = phase
  BY <1>2
<1>6. \A f \in Fields \ {"phase"} : row[f] = IF f \in DOMAIN fields THEN fields[f] ELSE req[r][f]
  BY <1>2
<1> HIDE DEF row
<1>7. req' = [q \in Requests |-> req'[q]]
  BY <1>1 DEF RowsInv
<1>8. \A q \in Requests : DOMAIN req'[q] = Fields
  BY <1>3, <1>4 DEF RowsInv
<1> QED BY <1>3, <1>5, <1>6, <1>7, <1>8

\* Steps of one request that keep its ids, its answer and, in a service, its headers.
LEMMA QuietStep ==
    ASSUME PathInv, NEW r \in Requests, NEW phase, NEW fields, Path!Step(r, phase, fields),
           req[r].phase # "new", phase # "new",
           DOMAIN fields \subseteq {"state", "headers", "prefixed", "result"},
           InService(r) => "headers" \notin DOMAIN fields,
           phase \in {"dispatch", "handler", "finally"} =>
               req[r].phase \in {"dispatch", "handler", "finally"}
    PROVE  /\ IdInv' /\ CorrelationIsKept'
           /\ req' = [q \in Requests |-> req'[q]] /\ \A q \in Requests : DOMAIN req'[q] = Fields
           /\ \A q \in Requests : q # r => req'[q] = req[q]
           /\ req'[r].phase = phase /\ (InService(r) => req'[r].headers = req[r].headers)
<1>1. /\ req' = [q \in Requests |-> req'[q]] /\ \A q \in Requests : DOMAIN req'[q] = Fields
      /\ \A q \in Requests : q # r => req'[q] = req[q]
      /\ req'[r].phase = phase
      /\ \A f \in Fields \ {"phase"} :
            req'[r][f] = IF f \in DOMAIN fields THEN fields[f] ELSE req[r][f]
  BY StepFacts DEF PathInv
<1>2. \A f \in {"client", "corr", "back", "upstreamCorr", "answer"} : req'[r][f] = req[r][f]
  BY <1>1 DEF Fields
<1>3. InService(r) => req'[r].headers = req[r].headers
  BY <1>1 DEF Fields
<1>4. /\ req'[r].client = req[r].client /\ req'[r].corr = req[r].corr /\ req'[r].back = req[r].back
      /\ req'[r].upstreamCorr = req[r].upstreamCorr /\ req'[r].answer = req[r].answer
  BY <1>2
<1>5. IdInv'
  BY <1>1, <1>4 DEF PathInv, IdInv
<1>6. CorrelationIsKept'
  BY <1>1, <1>4 DEF PathInv, CorrelationIsKept, Path!CorrelationIsKept
<1> QED BY <1>1, <1>3, <1>5, <1>6

\* A step that sets the answer: a 500 with the request's id or none, or another one with it.
LEMMA AnswerStep ==
    ASSUME PathInv, NEW r \in Requests, NEW phase, NEW fields, Path!Step(r, phase, fields),
           req[r].phase # "new", phase \in {req[r].phase, "answered"},
           DOMAIN fields \subseteq {"answer", "back"}, "answer" \in DOMAIN fields,
           "back" \in DOMAIN fields => fields["back"] \in {None, req[r].corr},
           \/ fields["answer"] = 500
           \/ "back" \in DOMAIN fields /\ fields["back"] = req[r].corr
           \/ DOMAIN fields = {"answer"} /\ fields["answer"] = req[r].answer
    PROVE  /\ IdInv' /\ CorrelationIsKept'
           /\ req' = [q \in Requests |-> req'[q]] /\ \A q \in Requests : DOMAIN req'[q] = Fields
           /\ \A q \in Requests : q # r => req'[q] = req[q]
           /\ req'[r].phase = phase /\ req'[r].headers = req[r].headers
<1>1. /\ req' = [q \in Requests |-> req'[q]] /\ \A q \in Requests : DOMAIN req'[q] = Fields
      /\ \A q \in Requests : q # r => req'[q] = req[q]
      /\ req'[r].phase = phase
      /\ \A f \in Fields \ {"phase"} :
            req'[r][f] = IF f \in DOMAIN fields THEN fields[f] ELSE req[r][f]
  BY StepFacts DEF PathInv
<1>2. /\ \A f \in {"client", "corr", "upstreamCorr", "headers"} : req'[r][f] = req[r][f]
      /\ req'[r].answer = fields["answer"]
      /\ req'[r].back = IF "back" \in DOMAIN fields THEN fields["back"] ELSE req[r].back
  BY <1>1 DEF Fields
<1>3. /\ req'[r].client = req[r].client /\ req'[r].corr = req[r].corr
      /\ req'[r].upstreamCorr = req[r].upstreamCorr /\ req'[r].headers = req[r].headers
  BY <1>2
<1>4. /\ req'[r].back \in {None, req[r].corr}
      /\ req'[r].answer \notin {None, 500} => req'[r].back # None
  BY <1>2 DEF PathInv, IdInv, CorrelationIsKept, Path!CorrelationIsKept
<1>5. IdInv'
  BY <1>1, <1>3 DEF PathInv, IdInv
<1>6. CorrelationIsKept'
  BY <1>1, <1>3, <1>4 DEF PathInv, CorrelationIsKept, Path!CorrelationIsKept
<1> QED BY <1>1, <1>3, <1>5, <1>6

\* A request that arrives takes the id it brings, or one that is nobody's.
LEMMA ArrivalStep ==
    ASSUME PathInv, NEW r \in Requests, NEW phase \in {"route", "upstream"}, NEW fields,
           Path!Step(r, phase, fields), req[r].phase = "new",
           DOMAIN fields \subseteq {"client", "corr", "headers", "prefixed"},
           "corr" \in DOMAIN fields, fields["corr"] # None,
           \/ "client" \notin DOMAIN fields /\ fields["corr"] \notin Path!Used
           \/ "client" \in DOMAIN fields /\ Path!CorrelationId(fields["client"], fields["corr"])
    PROVE  /\ IdInv' /\ CorrelationIsKept'
           /\ req' = [q \in Requests |-> req'[q]] /\ \A q \in Requests : DOMAIN req'[q] = Fields
           /\ \A q \in Requests : q # r => req'[q] = req[q]
           /\ req'[r].phase = phase
<1>1. /\ req' = [q \in Requests |-> req'[q]] /\ \A q \in Requests : DOMAIN req'[q] = Fields
      /\ \A q \in Requests : q # r => req'[q] = req[q]
      /\ req'[r].phase = phase
      /\ \A f \in Fields \ {"phase"} :
            req'[r][f] = IF f \in DOMAIN fields THEN fields[f] ELSE req[r][f]
  BY StepFacts DEF PathInv
<1> DEFINE client == IF "client" \in DOMAIN fields THEN fields["client"] ELSE None
           id == fields["corr"]
<1>2. /\ req[r].client = None /\ req[r].corr = None /\ req[r].answer = None
      /\ req[r].upstreamCorr = None /\ req[r].back = None
  BY DEF PathInv, IdInv, CorrelationIsKept, Path!CorrelationIsKept
<1>3. /\ req'[r].client = client /\ req'[r].corr = id
      /\ req'[r].back = req[r].back /\ req'[r].upstreamCorr = None /\ req'[r].answer = None
  BY <1>1, <1>2 DEF Fields
<1>4. (client = None /\ id \notin Path!Used) \/ (client # None /\ id = client)
  BY DEF Path!CorrelationId
<1>5. id \notin Path!Used => \A q \in Requests : req[q].corr # id
  BY DEF Path!Used
<1> HIDE DEF client, id
<1>6. IdInv'
  <2>1. id # None
    BY DEF id
  <2> QED BY <1>1, <1>3, <2>1 DEF PathInv, IdInv
<1>7. ASSUME NEW q \in Requests, q # r
      PROVE  /\ req'[r].corr = req'[q].corr => req'[r].corr \in {req'[r].client, req'[q].client}
             /\ req'[q].corr = req'[r].corr => req'[q].corr \in {req'[q].client, req'[r].client}
  BY <1>1, <1>3, <1>4, <1>5, <1>7
<1>8. CorrelationIsKept'
  <2>1. ASSUME NEW q \in Requests
        PROVE  /\ req'[q].upstreamCorr \in {None, req'[q].corr}
               /\ req'[q].back \in {None, req'[q].corr}
               /\ req'[q].answer \notin {None, 500} => req'[q].back # None
               /\ req'[q].client # None => req'[q].corr = req'[q].client
    <3>1. /\ req[q].upstreamCorr \in {None, req[q].corr} /\ req[q].back \in {None, req[q].corr}
          /\ req[q].answer \notin {None, 500} => req[q].back # None
          /\ req[q].client # None => req[q].corr = req[q].client
      BY DEF PathInv, CorrelationIsKept, Path!CorrelationIsKept
    <3>2. CASE q = r
      <4>1. req[r].back = None
        BY <1>2
      <4> QED BY <1>3, <1>4, <3>2, <4>1
    <3>3. CASE q # r
      BY <1>1, <3>1, <3>3
    <3> QED BY <3>2, <3>3
  <2>2. ASSUME NEW q \in Requests, NEW p \in Requests \ {q}, req'[q].corr # None,
               req'[q].corr = req'[p].corr
        PROVE  req'[q].corr \in {req'[q].client, req'[p].client}
    <3>1. CASE q # r /\ p # r
      <4>1. req'[q] = req[q] /\ req'[p] = req[p]
        BY <1>1, <3>1
      <4>2. req[q].corr # None /\ req[q].corr = req[p].corr => req[q].corr \in {req[q].client, req[p].client}
        BY DEF PathInv, CorrelationIsKept, Path!CorrelationIsKept
      <4> QED BY <2>2, <4>1, <4>2
    <3>2. CASE q = r \/ p = r
      BY <1>7, <2>2, <3>2
    <3> QED BY <3>1, <3>2
  <2> QED BY <2>1, <2>2 DEF CorrelationIsKept, Path!CorrelationIsKept
<1> QED BY <1>1, <1>6, <1>8

\* A service takes the gateway's id over.
LEMMA CorrelateStep ==
    ASSUME PathInv, NEW r \in Requests, NEW id, Path!Correlate(r, id)
    PROVE  /\ IdInv' /\ CorrelationIsKept'
           /\ req' = [q \in Requests |-> req'[q]] /\ \A q \in Requests : DOMAIN req'[q] = Fields
           /\ \A q \in Requests : q # r => req'[q] = req[q]
           /\ req'[r].phase = "dispatch" /\ req'[r].headers = req[r].headers
<1>1. /\ req' = [q \in Requests |-> req'[q]] /\ \A q \in Requests : DOMAIN req'[q] = Fields
      /\ \A q \in Requests : q # r => req'[q] = req[q]
      /\ req'[r].phase = "dispatch"
      /\ \A f \in Fields \ {"phase"} :
            req'[r][f] = IF f \in {"upstreamCorr"} THEN id ELSE req[r][f]
  <2>1. Path!Step(r, "dispatch", [upstreamCorr |-> id])
    BY DEF Path!Correlate
  <2> DEFINE fields == [upstreamCorr |-> id]
  <2>2. DOMAIN fields = {"upstreamCorr"} /\ fields["upstreamCorr"] = id
    OBVIOUS
  <2> HIDE DEF fields
  <2>3. Path!Step(r, "dispatch", fields)
    BY <2>1 DEF fields
  <2> QED BY <2>2, <2>3, StepFacts DEF PathInv
<1>2. req[r].phase = "middleware" /\ id = req[r].corr
  BY DEF Path!Correlate, Path!CorrelationId, PathInv, IdInv
<1>3. /\ req'[r].client = req[r].client /\ req'[r].corr = req[r].corr /\ req'[r].back = req[r].back
      /\ req'[r].upstreamCorr = req[r].corr /\ req'[r].answer = req[r].answer
      /\ req'[r].headers = req[r].headers
  BY <1>1, <1>2 DEF Fields
<1>4. IdInv'
  BY <1>1, <1>2, <1>3 DEF PathInv, IdInv
<1>5. CorrelationIsKept'
  BY <1>1, <1>3 DEF PathInv, CorrelationIsKept, Path!CorrelationIsKept
<1> QED BY <1>1, <1>3, <1>4, <1>5
\* A new request has neither ids nor an answer, and its context no tenant.
LEMMA PathInitially == Path!Init => PathInv
<1> SUFFICES ASSUME Path!Init PROVE PathInv
  OBVIOUS
<1> DEFINE Fresh == [phase : {"new"}, entry : Path!Entries, known : BOOLEAN, public : BOOLEAN,
                     token : Path!Claims \cup {None, Invalid}, prefixed : {TRUE},
                     client : {None}, corr : {None}, back : {None}, state : {None},
                     headers : {None}, upstreamCorr : {None}, result : {None},
                     answer : {None}]
<1>1. req \in [Requests -> Fresh] /\ tenantVar = [r \in Requests |-> None]
  BY DEF Path!Init
<1>2. ASSUME NEW x \in Fresh
      PROVE  /\ DOMAIN x = Fields
             /\ x.phase = "new" /\ x.client = None /\ x.corr = None /\ x.headers = None
             /\ x.upstreamCorr = None /\ x.answer = None /\ x.back = None
  BY DEF Fields
<1> HIDE DEF Fresh
<1>3. \A r \in Requests :
         /\ DOMAIN req[r] = Fields
         /\ req[r].phase = "new" /\ req[r].client = None /\ req[r].corr = None /\ req[r].headers = None
         /\ req[r].upstreamCorr = None /\ req[r].answer = None /\ req[r].back = None
  BY <1>1, <1>2
<1>4. RowsInv
  BY <1>1, <1>3 DEF RowsInv
<1>5. ContextInv
  BY <1>1, <1>3 DEF ContextInv, InService
<1>6. IdInv
  BY <1>3 DEF IdInv
<1>7. CorrelationIsKept
  BY <1>3 DEF CorrelationIsKept, Path!CorrelationIsKept
<1> QED BY <1>4, <1>5, <1>6, <1>7 DEF PathInv

\* What a step leaves for the context: the tenant of the one request that moves.
LEMMA ContextStep ==
    ASSUME PathInv, NEW r \in Requests,
           req' = [q \in Requests |-> req'[q]], \A q \in Requests : DOMAIN req'[q] = Fields,
           \A q \in Requests : q # r => req'[q] = req[q],
           IdInv', CorrelationIsKept',
           \/ UNCHANGED tenantVar
           \/ \E t : Path!SetTenantId(r, t),
           tenantVar'[r] = IF InService(r)' /\ req'[r].headers # None THEN req'[r].headers.tenant
                           ELSE None
    PROVE  PathInv'
<1>1. /\ tenantVar' = [q \in Requests |-> tenantVar'[q]]
      /\ \A q \in Requests : q # r => tenantVar'[q] = tenantVar[q]
  BY DEF Path!SetTenantId, PathInv, RowsInv
<1>2. RowsInv'
  BY <1>1 DEF RowsInv
<1>3. ContextInv'
  BY <1>1 DEF ContextInv, InService, PathInv
<1> QED BY <1>2, <1>3 DEF PathInv

\* Arrive and Call: a request comes to the gateway or straight to a service.
LEMMA ArrivalsKeepThePathInv ==
    ASSUME PathInv, NEW r \in Requests, NEW id \in Ids,
           \/ \E client \in Ids \cup {None} : Path!Arrive(r, client, id)
           \/ \E h \in Path!Claims \cup {None} : Path!Call(r, h, id)
    PROVE  PathInv'
<1>0. id # None
  BY IdsAssumption
<1> DEFINE Goal == PathInv'
<1>1. ASSUME NEW client \in Ids \cup {None}, Path!Arrive(r, client, id)
      PROVE  Goal
  <2> DEFINE fields == [client |-> client, corr |-> id]
  <2>1. /\ DOMAIN fields = {"client", "corr"} /\ fields["client"] = client /\ fields["corr"] = id
        /\ Path!Step(r, "route", fields) /\ req[r].phase = "new"
        /\ Path!CorrelationId(client, id) /\ UNCHANGED tenantVar
    BY <1>1 DEF Path!Arrive, Path!New
  <2> HIDE DEF fields
  <2>2. /\ IdInv' /\ CorrelationIsKept'
        /\ req' = [q \in Requests |-> req'[q]] /\ \A q \in Requests : DOMAIN req'[q] = Fields
        /\ \A q \in Requests : q # r => req'[q] = req[q]
        /\ req'[r].phase = "route"
    BY <1>0, <2>1, ArrivalStep
  <2>3. tenantVar'[r] = IF InService(r)' /\ req'[r].headers # None THEN req'[r].headers.tenant ELSE None
    BY <2>1, <2>2 DEF PathInv, ContextInv, InService
  <2> QED BY <2>1, <2>2, <2>3, ContextStep
<1>2. ASSUME NEW h \in Path!Claims \cup {None}, Path!Call(r, h, id)
      PROVE  Goal
  <2> DEFINE fields == [headers |-> h, prefixed |-> FALSE, corr |-> id]
  <2>1. /\ DOMAIN fields = {"headers", "prefixed", "corr"} /\ fields["corr"] = id
        /\ Path!Step(r, "upstream", fields) /\ req[r].phase = "new"
        /\ id \notin Path!Used /\ UNCHANGED tenantVar
    BY <1>2 DEF Path!Call, Path!New
  <2> HIDE DEF fields
  <2>2. /\ IdInv' /\ CorrelationIsKept'
        /\ req' = [q \in Requests |-> req'[q]] /\ \A q \in Requests : DOMAIN req'[q] = Fields
        /\ \A q \in Requests : q # r => req'[q] = req[q]
        /\ req'[r].phase = "upstream"
    BY <1>0, <2>1, ArrivalStep
  <2>3. tenantVar'[r] = IF InService(r)' /\ req'[r].headers # None THEN req'[r].headers.tenant ELSE None
    BY <2>1, <2>2 DEF PathInv, ContextInv, InService
  <2> QED BY <2>1, <2>2, <2>3, ContextStep
<1> HIDE DEF Goal
<1>3. Goal
  BY <1>1, <1>2
<1> QED BY <1>3 DEF Goal

\* Quiet steps that leave the contexts alone, and move a request into a service or out of it
\* only where it has no tenant there.
LEMMA QuietStepKeepsThePathInv ==
    ASSUME PathInv, NEW r \in Requests, NEW phase, NEW fields, Path!Step(r, phase, fields),
           req[r].phase # "new", phase # "new",
           DOMAIN fields \subseteq {"state", "headers", "prefixed", "result"},
           InService(r) => "headers" \notin DOMAIN fields,
           phase \in {"dispatch", "handler", "finally"} =>
               req[r].phase \in {"dispatch", "handler", "finally"},
           InService(r) <=> phase \in {"middleware", "dispatch", "handler", "finally"},
           UNCHANGED tenantVar
    PROVE  PathInv'
<1>1. /\ IdInv' /\ CorrelationIsKept'
      /\ req' = [q \in Requests |-> req'[q]] /\ \A q \in Requests : DOMAIN req'[q] = Fields
      /\ \A q \in Requests : q # r => req'[q] = req[q]
      /\ req'[r].phase = phase /\ (InService(r) => req'[r].headers = req[r].headers)
  BY QuietStep
<1>2. tenantVar'[r] = IF InService(r)' /\ req'[r].headers # None THEN req'[r].headers.tenant ELSE None
  BY <1>1 DEF PathInv, ContextInv, InService
<1> QED BY <1>1, <1>2, ContextStep

\* The same for the steps that answer a request outside of a service's middleware, or without
\* moving it.
LEMMA AnswerKeepsThePathInv ==
    ASSUME PathInv, NEW r \in Requests, NEW phase, NEW fields, Path!Step(r, phase, fields),
           req[r].phase # "new", phase = req[r].phase \/ (phase = "answered" /\ ~InService(r)),
           DOMAIN fields \subseteq {"answer", "back"}, "answer" \in DOMAIN fields,
           "back" \in DOMAIN fields => fields["back"] = req[r].corr,
           fields["answer"] = 500 \/ "back" \in DOMAIN fields,
           UNCHANGED tenantVar
    PROVE  PathInv'
<1>0. phase \in {req[r].phase, "answered"}
  OBVIOUS
<1>1. /\ IdInv' /\ CorrelationIsKept'
      /\ req' = [q \in Requests |-> req'[q]] /\ \A q \in Requests : DOMAIN req'[q] = Fields
      /\ \A q \in Requests : q # r => req'[q] = req[q]
      /\ req'[r].phase = phase /\ req'[r].headers = req[r].headers
  BY <1>0, AnswerStep
<1>2. tenantVar'[r] = IF InService(r)' /\ req'[r].headers # None THEN req'[r].headers.tenant ELSE None
  BY <1>1 DEF PathInv, ContextInv, InService
<1> QED BY <1>1, <1>2, ContextStep

\* The gateway's own answers, 401, 404 and 429, carry the request's id.
LEMMA AnsweringKeepsThePathInv ==
    ASSUME PathInv, NEW r \in Requests, NEW status, Path!Answer(r, status),
           req[r].phase # "new", ~InService(r), UNCHANGED tenantVar
    PROVE  PathInv'
<1> DEFINE fields == [answer |-> status, back |-> req[r].corr]
<1>1. /\ DOMAIN fields = {"answer", "back"} /\ fields["back"] = req[r].corr
      /\ Path!Step(r, "answered", fields)
  BY DEF Path!Answer
<1> HIDE DEF fields
<1> QED BY <1>1, AnswerKeepsThePathInv

\* A 500 of the gateway, when the service cannot be reached or does not answer in time.
LEMMA FailingKeepsThePathInv ==
    ASSUME PathInv, NEW r \in Requests, NEW phase, Path!Step(r, phase, [answer |-> 500]),
           req[r].phase # "new", phase = req[r].phase \/ (phase = "answered" /\ ~InService(r)),
           UNCHANGED tenantVar
    PROVE  PathInv'
<1> DEFINE fields == [answer |-> 500]
<1>1. DOMAIN fields = {"answer"} /\ fields["answer"] = 500 /\ Path!Step(r, phase, fields)
  OBVIOUS
<1> HIDE DEF fields
<1> QED BY <1>1, AnswerKeepsThePathInv

\* route, apply_rate_limits and proxy_request, action by action.
LEMMA GatewayKeepsThePathInv ==
    ASSUME PathInv, NEW r \in Requests, Path!Limiter(r) \/ Path!Forward(r)
    PROVE  PathInv'
<1>1. CASE Path!Route(r)
  <2>1. req[r].phase = "route" /\ ~InService(r) /\ UNCHANGED tenantVar
    BY <1>1 DEF Path!Route, InService
  <2>2. CASE \E status : Path!Answer(r, status)
    BY <2>1, <2>2, AnsweringKeepsThePathInv
  <2>3. CASE \E state : Path!Step(r, "limit", [state |-> state])
    <3>1. PICK state : Path!Step(r, "limit", [state |-> state])
      BY <2>3
    <3> DEFINE fields == [state |-> state]
    <3>2. DOMAIN fields = {"state"} /\ Path!Step(r, "limit", fields)
      BY <3>1
    <3> HIDE DEF fields
    <3> QED BY <2>1, <3>2, QuietStepKeepsThePathInv
  <2> QED BY <1>1, <2>2, <2>3 DEF Path!Route
<1>2. CASE Path!RateLimit(r)
  <2>1. req[r].phase = "limit" /\ ~InService(r) /\ UNCHANGED tenantVar
    BY <1>2 DEF Path!RateLimit, InService
  <2>2. CASE Path!Answer(r, 429)
    BY <2>1, <2>2, AnsweringKeepsThePathInv
  <2>3. CASE Path!Step(r, "proxy", [state |-> req[r].state])
    <3> DEFINE fields == [state |-> req[r].state]
    <3>1. DOMAIN fields = {"state"} /\ Path!Step(r, "proxy", fields)
      BY <2>3
    <3> HIDE DEF fields
    <3> QED BY <2>1, <3>1, QuietStepKeepsThePathInv
  <2> QED BY <1>2, <2>2, <2>3 DEF Path!RateLimit
<1>3. ASSUME NEW sent, Path!Proxy(r, sent)
      PROVE  PathInv'
  <2>1. PICK h : Path!Step(r, "upstream", [headers |-> h])
    BY <1>3 DEF Path!Proxy
  <2> DEFINE fields == [headers |-> h]
  <2>2. /\ DOMAIN fields = {"headers"} /\ Path!Step(r, "upstream", fields)
        /\ req[r].phase = "proxy" /\ ~InService(r) /\ UNCHANGED tenantVar
    BY <1>3, <2>1 DEF Path!Proxy, InService
  <2> HIDE DEF fields
  <2> QED BY <2>2, QuietStepKeepsThePathInv
<1>4. CASE Path!ProxyFails(r) \/ Path!LimitFails(r)
  BY <1>4, FailingKeepsThePathInv DEF Path!ProxyFails, Path!LimitFails, Path!Raise, InService
<1>5. CASE Path!Timeout(r)
  BY <1>5, FailingKeepsThePathInv DEF Path!Timeout, Path!Awaited, Path!Upstream
<1> QED BY <1>1, <1>2, <1>3, <1>4, <1>5 DEF Path!Limiter, Path!Forward

\* TenantMiddleware before call_next: the context gets the tenant of the headers.
LEMMA TenantMiddlewareKeepsThePathInv ==
    ASSUME PathInv, NEW r \in Requests, Path!TenantMiddleware(r)
    PROVE  PathInv'
<1> DEFINE fields == [state |-> req[r].state]
<1>1. /\ DOMAIN fields = {"state"} /\ Path!Step(r, "middleware", fields)
      /\ req[r].phase = "upstream" /\ ~InService(r)
  BY DEF Path!TenantMiddleware, InService
<1> HIDE DEF fields
<1>2. /\ IdInv' /\ CorrelationIsKept'
      /\ req' = [q \in Requests |-> req'[q]] /\ \A q \in Requests : DOMAIN req'[q] = Fields
      /\ \A q \in Requests : q # r => req'[q] = req[q]
      /\ req'[r].phase = "middleware"
  BY <1>1, QuietStep
<1>3. req'[r].headers = req[r].headers
  <2>1. "headers" \in Fields \ {"phase"} /\ "headers" \notin DOMAIN fields
    BY <1>1 DEF Fields
  <2> QED BY <1>1, <2>1, StepFacts DEF PathInv
<1>4. \/ UNCHANGED tenantVar
      \/ \E t : Path!SetTenantId(r, t)
  BY DEF Path!TenantMiddleware
<1>5. tenantVar'[r] = IF InService(r)' /\ req'[r].headers # None THEN req'[r].headers.tenant ELSE None
  <2>1. CASE req[r].headers = None
    BY <1>1, <1>3, <2>1 DEF Path!TenantMiddleware, PathInv, ContextInv
  <2>2. CASE req[r].headers # None
    BY <1>2, <1>3, <2>2 DEF Path!TenantMiddleware, Path!SetTenantId, PathInv, RowsInv, InService
  <2> QED BY <2>1, <2>2
<1> QED BY <1>2, <1>4, <1>5, ContextStep

\* And its finally: the context is empty again, and the gateway's answer keeps the id.
LEMMA FinallyKeepsThePathInv ==
    ASSUME PathInv, NEW r \in Requests, Path!Finally(r)
    PROVE  PathInv'
<1>1. req[r].phase = "finally" /\ Path!SetTenantId(r, None)
  BY DEF Path!Finally
<1>2. req[r].answer # None =>
      /\ IdInv' /\ CorrelationIsKept'
      /\ req' = [q \in Requests |-> req'[q]] /\ \A q \in Requests : DOMAIN req'[q] = Fields
      /\ \A q \in Requests : q # r => req'[q] = req[q]
      /\ req'[r].phase = "answered"
  <2> SUFFICES ASSUME req[r].answer # None PROVE
        /\ IdInv' /\ CorrelationIsKept'
        /\ req' = [q \in Requests |-> req'[q]] /\ \A q \in Requests : DOMAIN req'[q] = Fields
        /\ \A q \in Requests : q # r => req'[q] = req[q]
        /\ req'[r].phase = "answered"
    OBVIOUS
  <2> DEFINE fields == [answer |-> req[r].answer]
  <2>1. /\ DOMAIN fields = {"answer"} /\ fields["answer"] = req[r].answer
        /\ Path!Step(r, "answered", fields)
    BY DEF Path!Finally
  <2> HIDE DEF fields
  <2> QED BY <1>1, <2>1, AnswerStep
<1>3. req[r].answer = None =>
      /\ IdInv' /\ CorrelationIsKept'
      /\ req' = [q \in Requests |-> req'[q]] /\ \A q \in Requests : DOMAIN req'[q] = Fields
      /\ \A q \in Requests : q # r => req'[q] = req[q]
      /\ req'[r].phase = "answered"
  <2> SUFFICES ASSUME req[r].answer = None PROVE
        /\ IdInv' /\ CorrelationIsKept'
        /\ req' = [q \in Requests |-> req'[q]] /\ \A q \in Requests : DOMAIN req'[q] = Fields
        /\ \A q \in Requests : q # r => req'[q] = req[q]
        /\ req'[r].phase = "answered"
    OBVIOUS
  <2>1. PICK label : /\ Path!Step(r, "answered", [answer |-> req[r].result, back |-> label])
                     /\ label \in {None, req[r].corr, req[r].upstreamCorr}
                     /\ req[r].result = 500 \/ label \in {req[r].corr, req[r].upstreamCorr}
    BY DEF Path!Finally
  <2> DEFINE fields == [answer |-> req[r].result, back |-> label]
  <2>2. /\ DOMAIN fields = {"answer", "back"} /\ fields["back"] = label
        /\ fields["answer"] = req[r].result /\ Path!Step(r, "answered", fields)
    BY <2>1
  <2>3. req[r].upstreamCorr = req[r].corr
    BY <1>1 DEF PathInv, IdInv
  <2> HIDE DEF fields
  <2>4. req[r].phase # "new" /\ "answered" \in {req[r].phase, "answered"}
    BY <1>1
  <2> QED BY <2>1, <2>2, <2>3, <2>4, AnswerStep
<1>4. /\ IdInv' /\ CorrelationIsKept'
      /\ req' = [q \in Requests |-> req'[q]] /\ \A q \in Requests : DOMAIN req'[q] = Fields
      /\ \A q \in Requests : q # r => req'[q] = req[q]
      /\ req'[r].phase = "answered"
  BY <1>2, <1>3
<1>5. tenantVar'[r] = IF InService(r)' /\ req'[r].headers # None THEN req'[r].headers.tenant ELSE None
  BY <1>1, <1>4 DEF Path!SetTenantId, PathInv, RowsInv, InService
<1> QED BY <1>1, <1>4, <1>5, ContextStep

\* The middleware, the router and the handler of a service, action by action.
LEMMA ServiceKeepsThePathInv ==
    ASSUME PathInv, NEW r \in Requests, Path!Service(r)
    PROVE  PathInv'
<1>1. ASSUME NEW id \in Ids, Path!Correlate(r, id)
      PROVE  PathInv'
  <2>1. req[r].phase = "middleware" /\ UNCHANGED tenantVar
    BY <1>1 DEF Path!Correlate
  <2>2. /\ IdInv' /\ CorrelationIsKept'
        /\ req' = [q \in Requests |-> req'[q]] /\ \A q \in Requests : DOMAIN req'[q] = Fields
        /\ \A q \in Requests : q # r => req'[q] = req[q]
        /\ req'[r].phase = "dispatch" /\ req'[r].headers = req[r].headers
    BY <1>1, CorrelateStep
  <2>3. tenantVar'[r] = IF InService(r)' /\ req'[r].headers # None THEN req'[r].headers.tenant ELSE None
    BY <2>1, <2>2 DEF PathInv, ContextInv, InService
  <2> QED BY <2>1, <2>2, <2>3, ContextStep
<1>2. ASSUME NEW phase \in {"handler", "finally"}, NEW result, Path!Step(r, phase, [result |-> result]),
             req[r].phase \in {"dispatch", "handler"}, UNCHANGED tenantVar
      PROVE  PathInv'
  <2> DEFINE fields == [result |-> result]
  <2>1. DOMAIN fields = {"result"} /\ Path!Step(r, phase, fields)
    BY <1>2
  <2> HIDE DEF fields
  <2> QED BY <1>2, <2>1, QuietStepKeepsThePathInv DEF InService
<1>3. ASSUME NEW needsUser \in BOOLEAN, Path!Dispatch(r, needsUser)
      PROVE  PathInv'
  <2>1. req[r].phase \in {"dispatch", "handler"} /\ UNCHANGED tenantVar
    BY <1>3 DEF Path!Dispatch
  <2>2. \/ Path!Step(r, "finally", [result |-> 404]) \/ Path!Step(r, "finally", [result |-> 401])
        \/ Path!Step(r, "handler", [result |-> None])
    BY <1>3 DEF Path!Dispatch
  <2> QED BY <1>2, <2>1, <2>2
<1>4. CASE Path!Handle(r)
  <2>1. /\ req[r].phase \in {"dispatch", "handler"} /\ UNCHANGED tenantVar
        /\ \E phase \in {"handler", "finally"} : \E result : Path!Step(r, phase, [result |-> result])
    BY <1>4 DEF Path!Handle
  <2> QED BY <1>2, <2>1
<1> QED BY <1>1, <1>3, <1>4, TenantMiddlewareKeepsThePathInv, FinallyKeepsThePathInv DEF Path!Service

\* PathInv is inductive.
LEMMA PathInductive == Path!Spec => []PathInv
<1>1. PathInv /\ [Path!Next]_Path!vars => PathInv'
  <2> SUFFICES ASSUME PathInv, [Path!Next]_Path!vars PROVE PathInv'
    OBVIOUS
  <2>1. CASE UNCHANGED Path!vars
    BY <2>1 DEF Path!vars, PathInv, RowsInv, ContextInv, InService, IdInv, CorrelationIsKept,
                Path!CorrelationIsKept
  <2>2. CASE Path!Next
    BY <2>2, ArrivalsKeepThePathInv, GatewayKeepsThePathInv, ServiceKeepsThePathInv DEF Path!Next
  <2> QED BY <2>1, <2>2
<1> QED BY PathInitially, <1>1, PTL DEF Path!Spec

\* Values of the fields' types, for fields that a step may write.
Typed(fields) ==
    /\ DOMAIN fields \subseteq {"prefixed", "client", "corr", "back", "state", "headers",
                                "upstreamCorr", "result", "answer"}
    /\ "prefixed" \in DOMAIN fields => fields.prefixed \in BOOLEAN
    /\ \A f \in DOMAIN fields \cap {"client", "corr", "back", "upstreamCorr"} :
          fields[f] \in Ids \cup {None}
    /\ \A f \in DOMAIN fields \cap {"state", "headers"} : fields[f] \in Path!Claims \cup {None}
    /\ "result" \in DOMAIN fields => fields.result \in {None, 200, 401, 404, 500}
    /\ "answer" \in DOMAIN fields => fields.answer \in {None, 200, 401, 404, 429, 500}

\* A step that writes such values keeps the types.
LEMMA StepType ==
    ASSUME Path!TypeOK, NEW r \in Requests, NEW phase \in Path!Phases, NEW fields, Typed(fields),
           Path!Step(r, phase, fields), tenantVar' \in [Requests -> Tenants \cup {None}]
    PROVE  Path!TypeOK'
<1> DEFINE row == [f \in DOMAIN req[r] |-> IF f = "phase" THEN phase
                                           ELSE IF f \in DOMAIN fields THEN fields[f] ELSE req[r][f]]
<1>1. req' = [req EXCEPT ![r] = row]
  BY DEF Path!Step
<1>2. req[r] \in Path!Row
  BY DEF Path!TypeOK
<1>3. DOMAIN req[r] = Fields
  BY <1>2 DEF Path!Row, Fields
<1>4. row \in Path!Row
  BY <1>2, <1>3 DEF Path!Row, Fields, Typed
<1> HIDE DEF row
<1> QED BY <1>1, <1>4 DEF Path!TypeOK

\* The gateway's steps keep the types.
LEMMA GatewayType ==
    ASSUME Path!TypeOK, NEW r \in Requests,
           \/ \E id \in Ids, client \in Ids \cup {None} : Path!Arrive(r, client, id)
           \/ Path!Limiter(r) \/ Path!Forward(r)
    PROVE  Path!TypeOK'
<1>0. req[r] \in Path!Row /\ tenantVar \in [Requests -> Tenants \cup {None}]
  BY DEF Path!TypeOK
<1>1. ASSUME NEW status \in {401, 404, 429}, Path!Answer(r, status), UNCHANGED tenantVar
      PROVE  Path!TypeOK'
  <2> DEFINE f == [answer |-> status, back |-> req[r].corr]
  <2>1. Path!Step(r, "answered", f) /\ "answered" \in Path!Phases
    BY <1>1 DEF Path!Answer, Path!Phases
  <2>2. Typed(f)
    BY <1>0 DEF Typed, Path!Row
  <2> HIDE DEF f
  <2> QED BY <1>0, <1>1, <2>1, <2>2, StepType
<1>2. ASSUME NEW phase \in Path!Phases, NEW v \in Path!Claims \cup {None}, UNCHANGED tenantVar,
             Path!Step(r, phase, [state |-> v]) \/ Path!Step(r, phase, [headers |-> v])
      PROVE  Path!TypeOK'
  <2>1. Typed([state |-> v]) /\ Typed([headers |-> v])
    BY DEF Typed
  <2> QED BY <1>0, <1>2, <2>1, StepType
<1>3. ASSUME NEW phase \in Path!Phases, UNCHANGED tenantVar, Path!Step(r, phase, [answer |-> 500])
      PROVE  Path!TypeOK'
  <2>1. Typed([answer |-> 500])
    BY DEF Typed
  <2> QED BY <1>0, <1>3, <2>1, StepType
<1>4. {"route", "limit", "proxy", "upstream", "answered"} \subseteq Path!Phases
  BY DEF Path!Phases
<1>5. ASSUME NEW id \in Ids, NEW client \in Ids \cup {None}, Path!Arrive(r, client, id)
      PROVE  Path!TypeOK'
  <2> DEFINE f == [client |-> client, corr |-> id]
  <2>1. Path!Step(r, "route", f) /\ UNCHANGED tenantVar
    BY <1>5 DEF Path!Arrive
  <2>2. Typed(f)
    BY DEF Typed
  <2> HIDE DEF f
  <2> QED BY <1>0, <1>4, <2>1, <2>2, StepType
<1>6. CASE Path!Route(r)
  <2>1. UNCHANGED tenantVar
    BY <1>6 DEF Path!Route
  <2>2. \/ Path!Answer(r, 404) \/ Path!Answer(r, 401)
        \/ \E v \in Path!Claims \cup {None} : Path!Step(r, "limit", [state |-> v])
    BY <1>6 DEF Path!Route
  <2>3. ASSUME Path!Answer(r, 404) \/ Path!Answer(r, 401) PROVE Path!TypeOK'
    BY <1>1, <2>1, <2>3
  <2>4. ASSUME NEW v \in Path!Claims \cup {None}, Path!Step(r, "limit", [state |-> v])
        PROVE  Path!TypeOK'
    BY <1>2, <1>4, <2>1, <2>4
  <2> QED BY <2>2, <2>3, <2>4
<1>7. CASE Path!RateLimit(r)
  <2>1. UNCHANGED tenantVar /\ req[r].state \in Path!Claims \cup {None}
    BY <1>0, <1>7 DEF Path!RateLimit, Path!Row
  <2>2. Path!Answer(r, 429) \/ Path!Step(r, "proxy", [state |-> req[r].state])
    BY <1>7 DEF Path!RateLimit
  <2>3. ASSUME Path!Answer(r, 429) PROVE Path!TypeOK'
    BY <1>1, <2>1, <2>3
  <2>4. ASSUME Path!Step(r, "proxy", [state |-> req[r].state]) PROVE Path!TypeOK'
    BY <1>2, <1>4, <2>1, <2>4
  <2> QED BY <2>2, <2>3, <2>4
<1>8. ASSUME NEW sent \in Path!Claims \cup {None}, Path!Proxy(r, sent)
      PROVE  Path!TypeOK'
  <2>1. UNCHANGED tenantVar /\ req[r].state \in Path!Claims \cup {None}
    BY <1>0, <1>8 DEF Path!Proxy, Path!Row
  <2>2. PICK h \in {None, sent, req[r].state} : Path!Step(r, "upstream", [headers |-> h])
    BY <1>8 DEF Path!Proxy
  <2> QED BY <1>2, <1>4, <2>1, <2>2
<1>9. CASE Path!ProxyFails(r) \/ Path!LimitFails(r) \/ Path!Timeout(r)
  <2>1. UNCHANGED tenantVar /\ req[r].phase \in Path!Phases
    BY <1>0, <1>9 DEF Path!ProxyFails, Path!LimitFails, Path!Raise, Path!Timeout, Path!Row
  <2>2. \/ Path!Step(r, "answered", [answer |-> 500])
        \/ Path!Step(r, req[r].phase, [answer |-> 500])
    BY <1>9 DEF Path!ProxyFails, Path!LimitFails, Path!Raise, Path!Timeout
  <2> QED BY <1>3, <1>4, <2>1, <2>2
<1> QED BY <1>5, <1>6, <1>7, <1>8, <1>9 DEF Path!Limiter, Path!Forward

\* A service's steps keep the types.
LEMMA ServiceType ==
    ASSUME Path!TypeOK, NEW r \in Requests,
           \/ \E id \in Ids, h \in Path!Claims \cup {None} : Path!Call(r, h, id)
           \/ Path!Service(r)
    PROVE  Path!TypeOK'
<1>0. req[r] \in Path!Row /\ tenantVar \in [Requests -> Tenants \cup {None}]
  BY DEF Path!TypeOK
<1>1. {"upstream", "middleware", "dispatch", "handler", "finally", "answered"} \subseteq Path!Phases
  BY DEF Path!Phases
<1>2. ASSUME NEW id \in Ids, NEW h \in Path!Claims \cup {None}, Path!Call(r, h, id)
      PROVE  Path!TypeOK'
  <2> DEFINE f == [headers |-> h, prefixed |-> FALSE, corr |-> id]
  <2>1. Path!Step(r, "upstream", f) /\ UNCHANGED tenantVar
    BY <1>2 DEF Path!Call
  <2>2. Typed(f)
    BY DEF Typed
  <2> HIDE DEF f
  <2> QED BY <1>0, <1>1, <2>1, <2>2, StepType
<1>3. CASE Path!TenantMiddleware(r)
  <2> DEFINE f == [state |-> req[r].state]
  <2>1. Path!Step(r, "middleware", f)
    BY <1>3 DEF Path!TenantMiddleware
  <2>2. Typed(f)
    BY <1>0 DEF Typed, Path!Row
  <2>3. tenantVar' \in [Requests -> Tenants \cup {None}]
    <3>1. req[r].headers # None => req[r].headers.tenant \in Tenants
      BY <1>0 DEF Path!Row, Path!Claims
    <3> QED BY <1>0, <1>3, <3>1 DEF Path!TenantMiddleware, Path!SetTenantId
  <2> HIDE DEF f
  <2> QED BY <1>1, <2>1, <2>2, <2>3, StepType
<1>4. ASSUME NEW id \in Ids, Path!Correlate(r, id) PROVE Path!TypeOK'
  <2>1. Path!Step(r, "dispatch", [upstreamCorr |-> id]) /\ UNCHANGED tenantVar
    BY <1>4 DEF Path!Correlate
  <2>2. Typed([upstreamCorr |-> id])
    BY DEF Typed
  <2> QED BY <1>0, <1>1, <2>1, <2>2, StepType
<1>5. CASE Path!Handle(r) \/ \E needsUser \in BOOLEAN : Path!Dispatch(r, needsUser)
  <2>1. UNCHANGED tenantVar
    BY <1>5 DEF Path!Handle, Path!Dispatch
  <2>2. \E phase \in {"finally", "handler"}, v \in {None, 200, 401, 404, 500} :
           Path!Step(r, phase, [result |-> v])
    BY <1>5 DEF Path!Handle, Path!Dispatch
  <2>3. \A v \in {None, 200, 401, 404, 500} : Typed([result |-> v])
    BY DEF Typed
  <2> QED BY <1>0, <1>1, <2>1, <2>2, <2>3, StepType
<1>6. CASE Path!Finally(r)
  <2>1. tenantVar' \in [Requests -> Tenants \cup {None}]
    BY <1>0, <1>6 DEF Path!Finally, Path!SetTenantId
  <2>2. \/ Path!Step(r, "answered", [answer |-> req[r].answer])
        \/ \E label \in {None, req[r].corr, req[r].upstreamCorr} :
              Path!Step(r, "answered", [answer |-> req[r].result, back |-> label])
    BY <1>6 DEF Path!Finally
  <2>3. Typed([answer |-> req[r].answer])
    BY <1>0 DEF Typed, Path!Row
  <2>4. ASSUME NEW label \in {None, req[r].corr, req[r].upstreamCorr}
        PROVE  Typed([answer |-> req[r].result, back |-> label])
    BY <1>0 DEF Typed, Path!Row
  <2> QED BY <1>1, <2>1, <2>2, <2>3, <2>4, StepType
<1> QED BY <1>2, <1>3, <1>4, <1>5, <1>6 DEF Path!Service

\* The fields of a request, and the tenant of its task's context, keep their types, whichever
\* of gateway, middleware, dependencies and handler writes them, in every interleaving.
THEOREM PathTypeOKAlways == Path!Spec => []Path!TypeOK
<1>1. Path!Init => Path!TypeOK
  <2> SUFFICES ASSUME Path!Init PROVE Path!TypeOK
    OBVIOUS
  <2> DEFINE R == [phase : {"new"}, entry : Path!Entries, known : BOOLEAN, public : BOOLEAN,
                   token : Path!Claims \cup {None, Invalid}, prefixed : {TRUE},
                   client : {None}, corr : {None}, back : {None}, state : {None},
                   headers : {None}, upstreamCorr : {None}, result : {None},
                   answer : {None}]
  <2>1. req \in [Requests -> R]
    BY DEF Path!Init
  <2>2. ASSUME NEW x \in R PROVE x \in Path!Row
    <3>1. x.phase \in Path!Phases
      BY DEF Path!Phases
    <3>2. x = [phase |-> x.phase, entry |-> x.entry, known |-> x.known, public |-> x.public,
               token |-> x.token, prefixed |-> x.prefixed, client |-> x.client,
               corr |-> x.corr, back |-> x.back, state |-> x.state, headers |-> x.headers,
               upstreamCorr |-> x.upstreamCorr, result |-> x.result, answer |-> x.answer]
      OBVIOUS
    <3>3. /\ x.entry \in Path!Entries /\ x.known \in BOOLEAN /\ x.public \in BOOLEAN
          /\ x.token \in Path!Claims \cup {None, Invalid}
      OBVIOUS
    <3>4. /\ x.prefixed = TRUE /\ x.client = None /\ x.corr = None /\ x.back = None
          /\ x.state = None /\ x.headers = None /\ x.upstreamCorr = None
          /\ x.result = None /\ x.answer = None
      OBVIOUS
    <3> HIDE DEF R
    <3>5. /\ x.prefixed \in BOOLEAN
          /\ x.client \in Ids \cup {None} /\ x.corr \in Ids \cup {None}
          /\ x.back \in Ids \cup {None} /\ x.state \in Path!Claims \cup {None}
          /\ x.headers \in Path!Claims \cup {None} /\ x.upstreamCorr \in Ids \cup {None}
          /\ x.result \in {None, 200, 401, 404, 500}
          /\ x.answer \in {None, 200, 401, 404, 429, 500}
      BY <3>4
    <3> QED BY <3>1, <3>2, <3>3, <3>5 DEF Path!Row
  <2> HIDE DEF R
  <2>3. req \in [Requests -> Path!Row]
    BY <2>1, <2>2
  <2> QED BY <2>3 DEF Path!Init, Path!TypeOK
<1>2. Path!TypeOK /\ [Path!Next]_(Path!vars) => Path!TypeOK'
  <2> SUFFICES ASSUME Path!TypeOK, [Path!Next]_(Path!vars) PROVE Path!TypeOK'
    OBVIOUS
  <2>1. CASE UNCHANGED Path!vars
    BY <2>1 DEF Path!vars, Path!TypeOK
  <2>2. CASE Path!Next
    BY <2>2, GatewayType, ServiceType DEF Path!Next
  <2> QED BY <2>1, <2>2
<1> QED BY <1>1, <1>2, PTL DEF Path!Spec

\* Every statement of a handler runs with the tenant of its own request, and no tenant stays
\* in a context (TenantMiddleware and the ContextVar of shared/core/models/base.py), whatever
\* the number of requests, tenants and ids.
THEOREM TenantIsOwnAlways == Path!Spec => []TenantIsOwn
<1>1. PathInv => TenantIsOwn
  BY DEF PathInv, ContextInv, InService, TenantIsOwn, Path!TenantIsOwn
<1> QED BY PathInductive, <1>1, PTL

\* Gateway, service and client see the same correlation id, and no two requests share one that
\* no client gave (CorrelationIdMiddleware of shared/core/middleware, on both sides).
THEOREM CorrelationIsKeptAlways == Path!Spec => []CorrelationIsKept
<1>1. PathInv => CorrelationIsKept
  BY DEF PathInv
<1> QED BY PathInductive, <1>1, PTL

-----------------------------------------------------------------------------
(* The rate limiter *)

\* The keys' sorted sets hold milliseconds of checks; a key expires Ttl after its last pipeline,
\* so not before Ttl after any of its members; and nobody's time is ahead of the clock.
LimiterInv ==
    /\ TypeOK
    /\ \A k \in Keys : zset[k] \subseteq made[k] /\ expires[k] <= clock + Ttl
    /\ \A k \in Keys : admitted[k] \subseteq made[k]
    /\ \A k \in Keys : \A m \in made[k] : m + Ttl <= expires[k]
    /\ \A r \in Requests : check[r] # Idle => check[r].now <= clock

Busy(k, t) == {u \in Time : t - Window < u /\ u <= t /\ u \in admitted[k]}
InFlight(k, t) == {r \in Requests : check[r] # Idle /\ check[r].key = k /\ check[r].now <= t}

\* As long as the sorted set still has the busy milliseconds of a window, the limit bounds them.
\* When it has lost some, the window is over, and what is still to come was in flight then.
Whole(k, t) == Busy(k, t) \subseteq zset[k] /\ Cardinality(Busy(k, t)) <= Limit(k)
Over(k, t) ==
    /\ clock > t
    /\ Cardinality(Busy(k, t)) + Cardinality(InFlight(k, t)) <= Limit(k) + Cardinality(Requests)
WindowInv == \A k \in Keys, t \in Time : Whole(k, t) \/ Over(k, t)

\* One check at a time: what a sorted set has lost is out of the window of the check in flight,
\* or the check has been delayed by more than Ttl - Window.
Lost(k) == made[k] \ zset[k]
SerialInv ==
    /\ \A q, r \in Requests : check[q] # Idle /\ check[r] # Idle => q = r
    /\ \A k \in Keys : \A m \in Lost(k) :
          /\ m + Window <= clock
          /\ \A r \in Requests : check[r] # Idle /\ check[r].key = k =>
                m + Window <= check[r].now \/ m + Ttl <= clock
TurnsInv == LimiterInv /\ (part = "serial" => SerialInv)

\* A check that ends with its pipeline, refused or cut off, or before Redis has run it.
Ends(r) == Pipeline(r) /\ check' = [check EXCEPT ![r] = Idle] /\ UNCHANGED <<clock, admitted>>
Drops(r) ==
    /\ check[r] # Idle /\ check' = [check EXCEPT ![r] = Idle]
    /\ UNCHANGED <<clock, zset, expires, made, admitted>>

\* An error of the pipeline may come before or after its execution.
LEMMA EndsOrDrops ==
    ASSUME NEW r \in Requests, Refuse(r) \/ Fail(r)
    PROVE  Ends(r) \/ Drops(r)
BY DEF Refuse, Fail, Ends, Drops

\* What the type says of a check in flight.
LEMMA CheckInFlight ==
    ASSUME TypeOK, NEW r \in Requests, check[r] # Idle
    PROVE  /\ check[r] \in [key : Keys, tenant : Tenants \cup {None}, now : Time]
           /\ check[r].key \in Keys /\ check[r].tenant \in Tenants \cup {None} /\ check[r].now \in Time
<1>1. check[r] \in [key : Keys, tenant : Tenants \cup {None}, now : Time]
  BY DEF TypeOK
<1> QED BY <1>1

\* What check_rate_limit's pipeline leaves in its key: the members of the window and the
\* check's own millisecond.
LEMMA PipelineFacts ==
    ASSUME TypeOK, NEW r \in Requests, Pipeline(r), NEW k, k = check[r].key, NEW n, n = check[r].now
    PROVE  /\ k \in Keys /\ n \in Time
           /\ Counted(r) = {t \in zset[k] : t > n - Window} \cup {n} /\ Counted(r) \subseteq Time
           /\ zset' \in [Keys -> SUBSET Time] /\ expires' \in [Keys -> 0 .. MaxTime + Ttl]
           /\ made' \in [Keys -> SUBSET Time]
           /\ zset'[k] = Counted(r) /\ expires'[k] = clock + Ttl /\ made'[k] = made[k] \cup {n}
           /\ \A q \in Keys : q # k => zset'[q] = zset[q] /\ expires'[q] = expires[q] /\ made'[q] = made[q]
<1>1. k \in Keys /\ n \in Time
  BY CheckInFlight DEF Pipeline
<1>2. Counted(r) = {t \in zset[k] : t > n - Window} \cup {n}
  BY DEF Counted
<1>3. zset[k] \subseteq Time
  BY <1>1 DEF TypeOK
<1>4. Counted(r) \subseteq Time
  BY <1>1, <1>2, <1>3
<1>5. clock + Ttl \in 0 .. MaxTime + Ttl
  BY WindowAssumption, BoundsAssumption DEF TypeOK, Time
<1>6. /\ zset' = [zset EXCEPT ![k] = Counted(r)] /\ expires' = [expires EXCEPT ![k] = clock + Ttl]
      /\ made' = [made EXCEPT ![k] = @ \cup {n}]
  BY DEF Pipeline
<1>7. /\ zset \in [Keys -> SUBSET Time] /\ expires \in [Keys -> 0 .. MaxTime + Ttl]
      /\ made \in [Keys -> SUBSET Time]
  BY DEF TypeOK
<1>8. made' \in [Keys -> SUBSET Time]
  BY <1>1, <1>6, <1>7
<1>9. zset' \in [Keys -> SUBSET Time] /\ expires' \in [Keys -> 0 .. MaxTime + Ttl]
  BY <1>1, <1>4, <1>5, <1>6, <1>7
<1> QED BY <1>1, <1>2, <1>4, <1>6, <1>7, <1>8, <1>9

\* An admitted check counts for its key and millisecond, and goes on with the tenant, if any.
LEMMA AdmitFacts ==
    ASSUME TypeOK, NEW r \in Requests, Admit(r), NEW k, k = check[r].key, NEW n, n = check[r].now
    PROVE  /\ admitted' \in [Keys -> SUBSET Time] /\ admitted'[k] = admitted[k] \cup {n}
           /\ \A q \in Keys : q # k => admitted'[q] = admitted[q]
           /\ check' \in [Requests -> [key : Keys, tenant : Tenants \cup {None}, now : Time] \cup {Idle}]
           /\ \A q \in Requests : q # r => check'[q] = check[q]
           /\ check'[r] # Idle => check'[r].now = clock
<1>1. k \in Keys /\ n \in Time /\ check[r].tenant \in Tenants \cup {None}
  BY CheckInFlight DEF Admit, Pipeline
<1>2. admitted' = [admitted EXCEPT ![k] = @ \cup {n}] /\ admitted \in [Keys -> SUBSET Time]
  BY DEF Admit, TypeOK
<1>7. /\ admitted' \in [Keys -> SUBSET Time] /\ admitted'[k] = admitted[k] \cup {n}
      /\ \A q \in Keys : q # k => admitted'[q] = admitted[q]
  BY <1>1, <1>2
<1> DEFINE Checks == [key : Keys, tenant : Tenants \cup {None}, now : Time]
           next == IF check[r].tenant = None THEN Idle
                   ELSE [key |-> check[r].tenant, tenant |-> None, now |-> clock]
<1>8. next \in Checks \cup {Idle} /\ (next # Idle => next.now = clock)
  <2>1. clock \in Time
    BY DEF TypeOK
  <2>2. CASE check[r].tenant = None
    BY <2>2
  <2>3. CASE check[r].tenant # None
    <3>1. check[r].tenant \in Keys
      BY <1>1, <2>3 DEF Keys
    <3> QED BY <2>1, <2>3, <3>1
  <2> QED BY <2>2, <2>3
<1>9. check' = [check EXCEPT ![r] = next] /\ check \in [Requests -> Checks \cup {Idle}]
  BY DEF Admit, TypeOK
<1> HIDE DEF Checks, next
<1>10. /\ check' \in [Requests -> Checks \cup {Idle}] /\ check'[r] = next
       /\ \A q \in Requests : q # r => check'[q] = check[q]
  BY <1>8, <1>9
<1> QED BY <1>7, <1>8, <1>10 DEF Checks

\* A check that has ended is nowhere, and is not admitted.
LEMMA EndFacts ==
    ASSUME TypeOK, NEW r \in Requests, Ends(r) \/ Drops(r)
    PROVE  /\ check' \in [Requests -> [key : Keys, tenant : Tenants \cup {None}, now : Time] \cup {Idle}]
           /\ \A q \in Requests : q # r => check'[q] = check[q]
           /\ check'[r] = Idle /\ UNCHANGED admitted
<1> DEFINE Checks == [key : Keys, tenant : Tenants \cup {None}, now : Time]
<1>1. check' = [check EXCEPT ![r] = Idle] /\ check \in [Requests -> Checks \cup {Idle}]
  BY DEF Ends, Drops, TypeOK
<1> HIDE DEF Checks
<1>2. /\ check' \in [Requests -> Checks \cup {Idle}] /\ check'[r] = Idle
      /\ \A q \in Requests : q # r => check'[q] = check[q]
  BY <1>1
<1> QED BY <1>2 DEF Ends, Drops, Checks

\* A check starts with the time its gateway process reads.
LEMMA BeginFacts ==
    ASSUME TypeOK, NEW r \in Requests, NEW ip \in Addresses, NEW t \in Tenants \cup {None}, Begin(r, ip, t)
    PROVE  /\ check' \in [Requests -> [key : Keys, tenant : Tenants \cup {None}, now : Time] \cup {Idle}]
           /\ \A q \in Requests : q # r => check'[q] = check[q]
           /\ check[r] = Idle /\ check'[r].now = clock
           /\ UNCHANGED <<clock, zset, expires, made, admitted>>
<1> DEFINE Checks == [key : Keys, tenant : Tenants \cup {None}, now : Time]
           next == [key |-> ip, tenant |-> t, now |-> clock]
<1>1. check' = [check EXCEPT ![r] = next] /\ check \in [Requests -> Checks \cup {Idle}]
  BY DEF Begin, TypeOK
<1>2. next \in Checks /\ next.now = clock
  BY DEF TypeOK, Keys
<1> HIDE DEF Checks, next
<1>3. /\ check' \in [Requests -> Checks \cup {Idle}] /\ check'[r] = next
      /\ \A q \in Requests : q # r => check'[q] = check[q]
  BY <1>1, <1>2
<1> QED BY <1>2, <1>3 DEF Begin, Checks

\* Redis is empty when the limiter starts.
LEMMA LimiterInitially == Init => LimiterInv /\ WindowInv /\ \A r \in Requests : check[r] = Idle
<1> SUFFICES ASSUME Init PROVE LimiterInv /\ WindowInv /\ \A r \in Requests : check[r] = Idle
  OBVIOUS
<1>1. 0 \in Time /\ 0 \in 0 .. MaxTime + Ttl /\ Ttl \in Nat
  BY WindowAssumption, BoundsAssumption DEF Time
<1>2. TypeOK
  BY <1>1 DEF Init, TypeOK
<1>3. \A k \in Keys : admitted[k] = {}
  BY DEF Init
<1>4. LimiterInv
  BY <1>1, <1>2, <1>3 DEF Init, LimiterInv
<1>5. ASSUME NEW k \in Keys, NEW t \in Time
      PROVE  Whole(k, t)
  <2>1. Busy(k, t) = {}
    BY <1>3 DEF Busy
  <2>2. Limit(k) \in Nat
    BY WindowAssumption DEF Limit
  <2> QED BY <2>1, <2>2, FS_EmptySet DEF Whole
<1> QED BY <1>4, <1>5 DEF WindowInv, Init

\* Every action in the form the invariants need it: the clock, an expiry, the start of a check,
\* a pipeline that admits or ends, and a check that is cut off before.
LEMMA LimiterInvStep == LimiterInv /\ [Next]_vars => LimiterInv'
<1> SUFFICES ASSUME LimiterInv, [Next]_vars PROVE LimiterInv'
  OBVIOUS
<1>0. clock \in Time /\ Ttl \in Nat /\ Time \subseteq Nat
  BY WindowAssumption DEF LimiterInv, TypeOK, Time
<1>1. CASE UNCHANGED vars
  BY <1>1 DEF vars, LimiterInv, TypeOK
<1>2. CASE Tick
  <2>1. clock' = clock + 1 /\ clock' \in Time
    BY <1>2, <1>0, BoundsAssumption DEF Tick, Time
  <2>2. UNCHANGED <<zset, expires, check, made, admitted>>
    BY <1>2 DEF Tick
  <2>3. TypeOK'
    BY <2>1, <2>2 DEF LimiterInv, TypeOK
  <2>4. \A k \in Keys : expires'[k] <= clock' + Ttl
    <3>1. \A k \in Keys : expires[k] \in 0 .. MaxTime + Ttl /\ expires[k] <= clock + Ttl
      BY DEF LimiterInv, TypeOK
    <3> QED BY <1>0, <2>1, <2>2, <3>1
  <2>5. \A r \in Requests : check'[r] # Idle => check'[r].now <= clock'
    <3> SUFFICES ASSUME NEW r \in Requests, check[r] # Idle PROVE check[r].now <= clock + 1
      BY <2>1, <2>2
    <3>1. check[r].now \in Time /\ check[r].now <= clock
      BY CheckInFlight DEF LimiterInv
    <3>2. check[r].now \in Nat /\ clock \in Nat
      BY <1>0, <3>1
    <3> QED BY <3>1, <3>2
  <2> QED BY <2>2, <2>3, <2>4, <2>5 DEF LimiterInv
<1>3. ASSUME NEW k \in Keys, ExpireKey(k)
      PROVE  LimiterInv'
  <2>1. zset' = [zset EXCEPT ![k] = {}] /\ UNCHANGED <<clock, expires, check, made, admitted>>
    BY <1>3 DEF ExpireKey
  <2>2. zset' \in [Keys -> SUBSET Time] /\ \A q \in Keys : zset'[q] \subseteq zset[q]
    BY <2>1 DEF LimiterInv, TypeOK
  <2> QED BY <2>1, <2>2 DEF LimiterInv, TypeOK
<1>4. ASSUME NEW r \in Requests, NEW ip \in Addresses, NEW t \in Tenants \cup {None}, Begin(r, ip, t)
      PROVE  LimiterInv'
  <2>1. /\ check' \in [Requests -> [key : Keys, tenant : Tenants \cup {None}, now : Time] \cup {Idle}]
        /\ \A q \in Requests : q # r => check'[q] = check[q]
        /\ check'[r].now = clock /\ UNCHANGED <<clock, zset, expires, made, admitted>>
    BY <1>4, BeginFacts DEF LimiterInv
  <2>2. \A q \in Requests : check'[q] # Idle => check'[q].now <= clock'
    BY <1>0, <2>1 DEF LimiterInv
  <2> QED BY <2>1, <2>2 DEF LimiterInv, TypeOK
<1>5. ASSUME NEW r \in Requests, Admit(r) \/ Ends(r)
      PROVE  LimiterInv'
  <2> DEFINE k == check[r].key
             n == check[r].now
  <2>1. Pipeline(r) /\ check[r] # Idle /\ TypeOK /\ UNCHANGED clock
    BY <1>5 DEF Admit, Ends, Pipeline, LimiterInv
  <2>2. /\ k \in Keys /\ n \in Time
        /\ Counted(r) = {t \in zset[k] : t > n - Window} \cup {n} /\ Counted(r) \subseteq Time
        /\ zset' \in [Keys -> SUBSET Time] /\ expires' \in [Keys -> 0 .. MaxTime + Ttl]
        /\ made' \in [Keys -> SUBSET Time]
        /\ zset'[k] = Counted(r) /\ expires'[k] = clock + Ttl /\ made'[k] = made[k] \cup {n}
        /\ \A q \in Keys : q # k => zset'[q] = zset[q] /\ expires'[q] = expires[q] /\ made'[q] = made[q]
    BY <2>1, PipelineFacts
  <2>3. n <= clock
    BY <2>1 DEF LimiterInv
  <2>4. /\ admitted' \in [Keys -> SUBSET Time] /\ admitted'[k] \subseteq admitted[k] \cup {n}
        /\ \A q \in Keys : q # k => admitted'[q] = admitted[q]
        /\ check' \in [Requests -> [key : Keys, tenant : Tenants \cup {None}, now : Time] \cup {Idle}]
        /\ \A q \in Requests : q # r => check'[q] = check[q]
        /\ check'[r] # Idle => check'[r].now = clock
    <3>1. CASE Admit(r)
      BY <2>1, <3>1, AdmitFacts
    <3>2. CASE Ends(r)
      BY <2>1, <3>2, EndFacts DEF TypeOK
    <3> QED BY <1>5, <3>1, <3>2
  <2> HIDE DEF k, n
  <2>5. TypeOK'
    BY <2>1, <2>2, <2>4 DEF TypeOK
  <2>6. ASSUME NEW q \in Keys
        PROVE  /\ zset'[q] \subseteq made'[q] /\ expires'[q] <= clock' + Ttl
               /\ \A m \in made'[q] : m + Ttl <= expires'[q]
               /\ admitted'[q] \subseteq made'[q]
    <3>0. /\ zset[q] \subseteq made[q] /\ expires[q] <= clock + Ttl
          /\ \A m \in made[q] : m + Ttl <= expires[q]
          /\ admitted[q] \subseteq made[q]
          /\ made[q] \subseteq Time /\ expires[q] \in 0 .. MaxTime + Ttl
      BY DEF LimiterInv, TypeOK
    <3>1. CASE q # k
      BY <2>1, <2>2, <2>4, <3>0, <3>1
    <3>2. CASE q = k
      <4>1. \A m \in made'[q] : m + Ttl <= expires'[q]
        <5>1. ASSUME NEW m \in made[q] PROVE m + Ttl <= clock + Ttl
          BY <1>0, <3>0, BoundsAssumption DEF Time
        <5>2. n + Ttl <= clock + Ttl
          BY <1>0, <2>2, <2>3
        <5> QED BY <2>2, <3>2, <5>1, <5>2
      <4>2. zset'[q] \subseteq made'[q]
        BY <2>2, <3>0, <3>2
      <4>3. expires'[q] <= clock' + Ttl
        BY <1>0, <2>1, <2>2, <3>2
      <4>4. admitted'[q] \subseteq made'[q]
        BY <2>2, <2>4, <3>0, <3>2
      <4> QED BY <4>1, <4>2, <4>3, <4>4
    <3> QED BY <3>1, <3>2
  <2>7. \A q \in Requests : check'[q] # Idle => check'[q].now <= clock'
    BY <1>0, <2>1, <2>4 DEF LimiterInv
  <2> QED BY <2>5, <2>6, <2>7 DEF LimiterInv
<1>6. ASSUME NEW r \in Requests, Drops(r)
      PROVE  LimiterInv'
  <2>1. /\ check' \in [Requests -> [key : Keys, tenant : Tenants \cup {None}, now : Time] \cup {Idle}]
        /\ \A q \in Requests : q # r => check'[q] = check[q]
        /\ check'[r] = Idle /\ UNCHANGED <<clock, zset, expires, made, admitted>>
    BY <1>6, EndFacts DEF LimiterInv, Drops
  <2>2. \A q \in Requests : check'[q] # Idle => check'[q].now <= clock'
    BY <2>1 DEF LimiterInv
  <2> QED BY <2>1, <2>2 DEF LimiterInv, TypeOK
<1> QED BY <1>1, <1>2, <1>3, <1>4, <1>5, <1>6, EndsOrDrops DEF Next

-----------------------------------------------------------------------------
(* A window *)

\* The sets that a window counts are finite,
LEMMA BusyIsFinite ==
    ASSUME NEW k, NEW t
    PROVE  /\ IsFiniteSet(Busy(k, t)) /\ Cardinality(Busy(k, t)) \in Nat
           /\ IsFiniteSet(InFlight(k, t)) /\ Cardinality(InFlight(k, t)) \in Nat
           /\ Cardinality(InFlight(k, t)) <= Cardinality(Requests) /\ Cardinality(Requests) \in Nat
           /\ Limit(k) \in Nat
<1>1. IsFiniteSet(Time)
  BY FS_Interval, BoundsAssumption DEF Time
<1>2. Busy(k, t) \subseteq Time /\ InFlight(k, t) \subseteq Requests
  BY DEF Busy, InFlight
<1>3. Limit(k) \in Nat
  BY WindowAssumption DEF Limit
<1> QED BY <1>1, <1>2, <1>3, FS_Subset, FS_CardinalityType, RequestsAssumption

\* A window that is over stays so, when no more of its milliseconds get busy than checks of
\* its time complete.
LEMMA OverStep ==
    ASSUME NEW k, NEW t \in Time, Over(k, t), clock' \in Nat, clock \in Nat, clock' >= clock,
           Cardinality(Busy(k, t)') + Cardinality(InFlight(k, t)')
               <= Cardinality(Busy(k, t)) + Cardinality(InFlight(k, t)),
           Cardinality(Busy(k, t)') \in Nat, Cardinality(InFlight(k, t)') \in Nat
    PROVE  Over(k, t)'
<1>1. Limit(k)' = Limit(k)
  BY DEF Limit
<1>2. Time \subseteq Nat
  BY DEF Time
<1> QED BY <1>1, <1>2, BusyIsFinite DEF Over

\* before and after a step.
LEMMA BusyIsFiniteNext ==
    ASSUME NEW k, NEW t
    PROVE  /\ IsFiniteSet(Busy(k, t)') /\ Cardinality(Busy(k, t)') \in Nat
           /\ IsFiniteSet(InFlight(k, t)') /\ Cardinality(InFlight(k, t)') \in Nat
           /\ Cardinality(InFlight(k, t)') <= Cardinality(Requests)
<1>1. IsFiniteSet(Time)
  BY FS_Interval, BoundsAssumption DEF Time
<1>2. Busy(k, t)' \subseteq Time /\ InFlight(k, t)' \subseteq Requests
  BY DEF Busy, InFlight
<1> DEFINE B == Busy(k, t)'
           F == InFlight(k, t)'
<1> HIDE DEF B, F
<1>3. B \subseteq Time /\ F \subseteq Requests
  BY <1>2 DEF B, F
<1>4. /\ IsFiniteSet(B) /\ Cardinality(B) \in Nat /\ IsFiniteSet(F) /\ Cardinality(F) \in Nat
      /\ Cardinality(F) <= Cardinality(Requests)
  BY <1>1, <1>3, FS_Subset, FS_CardinalityType, RequestsAssumption
<1> QED BY <1>4 DEF B, F

\* Where a pipeline adds at most one millisecond to a window that is over, it was in flight.
LEMMA CountingStep ==
    ASSUME NEW B, NEW B2, NEW F, NEW F2, NEW n, NEW r,
           IsFiniteSet(B), IsFiniteSet(F), F2 \subseteq F,
           B2 \subseteq B \/ (B2 \subseteq B \cup {n} /\ r \in F /\ r \notin F2)
    PROVE  Cardinality(B2) + Cardinality(F2) <= Cardinality(B) + Cardinality(F)
<1>1. /\ IsFiniteSet(F2) /\ Cardinality(F2) <= Cardinality(F)
      /\ Cardinality(F2) \in Nat /\ Cardinality(F) \in Nat /\ Cardinality(B) \in Nat
  BY FS_Subset, FS_CardinalityType
<1>2. CASE B2 \subseteq B
  BY <1>1, <1>2, FS_Subset, FS_CardinalityType
<1>3. CASE B2 \subseteq B \cup {n} /\ r \in F /\ r \notin F2
  <2>1. /\ IsFiniteSet(B \cup {n}) /\ Cardinality(B \cup {n}) <= Cardinality(B) + 1
        /\ Cardinality(B \cup {n}) \in Nat
    <3>1. /\ IsFiniteSet(B \cup {n})
          /\ Cardinality(B \cup {n}) = IF n \in B THEN Cardinality(B) ELSE Cardinality(B) + 1
      BY FS_AddElement
    <3> QED BY <1>1, <3>1
  <2>2. Cardinality(B2) <= Cardinality(B \cup {n}) /\ Cardinality(B2) \in Nat
    BY <1>3, <2>1, FS_Subset, FS_CardinalityType
  <2>3. /\ IsFiniteSet(F \ {r}) /\ Cardinality(F \ {r}) = Cardinality(F) - 1
    BY <1>3, FS_RemoveElement
  <2>4. F2 \subseteq F \ {r}
    BY <1>3
  <2>5. Cardinality(F2) <= Cardinality(F) - 1
    BY <2>3, <2>4, FS_Subset
  <2> QED BY <1>1, <2>1, <2>2, <2>5
<1> QED BY <1>2, <1>3

\* What a check's pipeline does to one window of one key.
LEMMA WindowPipeline ==
    ASSUME LimiterInv, WindowInv, NEW r \in Requests, Admit(r) \/ Ends(r), NEW k \in Keys, NEW t \in Time
    PROVE  Whole(k, t)' \/ Over(k, t)'
<1> DEFINE key == check[r].key
           n == check[r].now
<1>1. Pipeline(r) /\ check[r] # Idle /\ TypeOK /\ UNCHANGED clock /\ clock \in Nat /\ n <= clock
  BY DEF Admit, Ends, Pipeline, LimiterInv, TypeOK, Time
<1>2. /\ key \in Keys /\ n \in Time
      /\ Counted(r) = {u \in zset[key] : u > n - Window} \cup {n} /\ Counted(r) \subseteq Time
      /\ zset'[key] = Counted(r) /\ \A q \in Keys : q # key => zset'[q] = zset[q]
  BY <1>1, PipelineFacts
<1>3. /\ \A q \in Requests : q # r => check'[q] = check[q]
      /\ check'[r] # Idle => check'[r].now = clock
      /\ admitted'[key] \subseteq admitted[key] \cup {n}
      /\ \A q \in Keys : q # key => admitted'[q] = admitted[q]
      /\ ~Admit(r) => admitted' = admitted
  <2>1. CASE Admit(r)
    BY <1>1, <2>1, AdmitFacts
  <2>2. CASE Ends(r)
    <3>1. admitted' = admitted
      BY <2>2 DEF Ends
    <3> QED BY <1>1, <2>2, <3>1, EndFacts
  <2> QED BY <2>1, <2>2
<1>4. t \in Nat /\ n \in Nat /\ Window \in Nat /\ Time \subseteq Nat
  BY <1>2, WindowAssumption DEF Time
<1> DEFINE inWindow == key = k /\ t - Window < n /\ n <= t /\ Admit(r)
<1>key. check[r] # Idle /\ check[r].key = key /\ check[r].now = n
  BY <1>1
<1> HIDE DEF key, n
<1>5. Busy(k, t)' \subseteq Busy(k, t) \cup {n} /\ (~inWindow => Busy(k, t)' \subseteq Busy(k, t))
  <2> SUFFICES ASSUME NEW u \in Busy(k, t)', u \notin Busy(k, t) PROVE u = n /\ inWindow
    OBVIOUS
  <2>1. u \in Time /\ t - Window < u /\ u <= t /\ u \in admitted'[k] /\ u \notin admitted[k]
    BY DEF Busy
  <2>2. k = key /\ u = n
    BY <1>3, <2>1
  <2>3. Admit(r)
    BY <1>3, <2>1
  <2> QED BY <2>1, <2>2, <2>3
<1>6. ASSUME clock > t PROVE InFlight(k, t)' \subseteq InFlight(k, t) /\ r \notin InFlight(k, t)'
  <2>1. r \notin InFlight(k, t)'
    BY <1>1, <1>3, <1>4, <1>6 DEF InFlight
  <2> QED BY <1>3, <2>1 DEF InFlight
<1>7. /\ IsFiniteSet(Busy(k, t)) /\ IsFiniteSet(InFlight(k, t))
      /\ Cardinality(Busy(k, t)) \in Nat /\ Cardinality(InFlight(k, t)) \in Nat
      /\ IsFiniteSet(Busy(k, t)') /\ Cardinality(Busy(k, t)') \in Nat
      /\ Cardinality(InFlight(k, t)') \in Nat /\ Cardinality(InFlight(k, t)') <= Cardinality(Requests)
      /\ Cardinality(Requests) \in Nat /\ Limit(k) \in Nat /\ Limit(k)' = Limit(k)
  BY BusyIsFinite, BusyIsFiniteNext DEF Limit
<1>8. CASE Over(k, t)
  <2>1. clock > t
    BY <1>8 DEF Over
  <2>2. inWindow => r \in InFlight(k, t)
    BY <1>key DEF InFlight
  <2>3. Cardinality(Busy(k, t)') + Cardinality(InFlight(k, t)')
            <= Cardinality(Busy(k, t)) + Cardinality(InFlight(k, t))
    <3> DEFINE B == Busy(k, t)  B2 == Busy(k, t)'  F == InFlight(k, t)  F2 == InFlight(k, t)'
    <3>1. /\ IsFiniteSet(B) /\ IsFiniteSet(F) /\ F2 \subseteq F
          /\ B2 \subseteq B \/ (B2 \subseteq B \cup {n} /\ r \in F /\ r \notin F2)
      BY <1>5, <1>6, <1>7, <2>1, <2>2
    <3> HIDE DEF B, B2, F, F2
    <3>2. Cardinality(B2) + Cardinality(F2) <= Cardinality(B) + Cardinality(F)
      BY <3>1, CountingStep
    <3> QED BY <3>2 DEF B, B2, F, F2
  <2> QED BY <1>1, <1>7, <1>8, <2>3, OverStep
<1>9. CASE Whole(k, t) /\ inWindow
  <2>1. Busy(k, t)' \subseteq Counted(r)
    <3>1. ASSUME NEW u \in Busy(k, t) PROVE u \in Counted(r)
      <4>1. u \in zset[k] /\ u \in Nat /\ t - Window < u
        BY <1>4, <1>9 DEF Whole, Busy
      <4> QED BY <1>2, <1>4, <1>9, <4>1
    <3> QED BY <1>2, <1>5, <3>1
  <2>2. IsFiniteSet(Counted(r)) /\ Cardinality(Counted(r)) \in Nat /\ Cardinality(Counted(r)) <= Limit(k)
    <3>1. IsFiniteSet(Time)
      BY FS_Interval, BoundsAssumption DEF Time
    <3>2. Cardinality(Counted(r)) <= Limit(k)
      BY <1>9, <1>key DEF Admit, Passes
    <3> QED BY <1>2, <3>1, <3>2, FS_Subset, FS_CardinalityType
  <2>3. Cardinality(Busy(k, t)') <= Limit(k)
    <3> DEFINE B2 == Busy(k, t)'
    <3> HIDE DEF B2
    <3>1. Cardinality(B2) <= Cardinality(Counted(r)) /\ Cardinality(B2) \in Nat
      BY <2>1, <2>2, FS_Subset, FS_CardinalityType DEF B2
    <3>2. Cardinality(B2) <= Limit(k)
      BY <1>7, <2>2, <3>1
    <3> QED BY <3>2 DEF B2
  <2> QED BY <1>2, <1>7, <1>9, <2>1, <2>3 DEF Whole
<1>10. ASSUME Whole(k, t), ~inWindow PROVE Cardinality(Busy(k, t)') <= Limit(k)
  <2> DEFINE B == Busy(k, t)  B2 == Busy(k, t)'
  <2>1. B2 \subseteq B /\ IsFiniteSet(B) /\ Cardinality(B) <= Limit(k) /\ Cardinality(B) \in Nat
    BY <1>5, <1>7, <1>10 DEF Whole
  <2> HIDE DEF B, B2
  <2>2. Cardinality(B2) <= Cardinality(B) /\ Cardinality(B2) \in Nat
    BY <2>1, FS_Subset, FS_CardinalityType
  <2>3. Cardinality(B2) <= Limit(k)
    BY <1>7, <2>1, <2>2
  <2> QED BY <2>3 DEF B2
<1>11. CASE Whole(k, t) /\ ~inWindow /\ (k # key \/ n <= t)
  <2>1. Busy(k, t)' \subseteq zset'[k]
    <3> SUFFICES ASSUME NEW u \in Busy(k, t) PROVE u \in zset'[k]
      BY <1>5, <1>11
    <3>1. u \in zset[k] /\ u \in Nat /\ t - Window < u
      BY <1>4, <1>11 DEF Whole, Busy
    <3>2. CASE k # key
      BY <1>2, <3>1, <3>2
    <3>3. CASE k = key /\ n <= t
      BY <1>2, <1>4, <3>1, <3>3
    <3> QED BY <1>11, <3>2, <3>3
  <2> QED BY <1>7, <1>10, <1>11, <2>1 DEF Whole
<1>12. CASE Whole(k, t) /\ ~inWindow /\ k = key /\ ~(n <= t)
  <2>1. clock' > t
    BY <1>1, <1>4, <1>12, <1>key
  <2> QED BY <1>7, <1>10, <1>12, <2>1 DEF Over
<1>13. Whole(k, t) \/ Over(k, t)
  BY DEF WindowInv
<1> QED BY <1>8, <1>9, <1>11, <1>12, <1>13

\* Every step keeps every window bounded: the clock, an expiry, a new check and a pipeline.
LEMMA WindowInvStep == LimiterInv /\ WindowInv /\ [Next]_vars => WindowInv'
<1> SUFFICES ASSUME LimiterInv, WindowInv, [Next]_vars, NEW k \in Keys, NEW t \in Time
             PROVE  Whole(k, t)' \/ Over(k, t)'
  BY DEF WindowInv
<1>0. /\ clock \in Nat /\ t \in Nat /\ Time \subseteq Nat /\ {Window, Ttl} \subseteq Nat
      /\ Whole(k, t) \/ Over(k, t)
  BY WindowAssumption DEF LimiterInv, TypeOK, Time, WindowInv
<1>1. CASE UNCHANGED vars
  BY <1>0, <1>1 DEF vars, Whole, Over, Busy, InFlight, Limit
<1>2. CASE Tick
  BY <1>0, <1>2 DEF Tick, Whole, Over, Busy, InFlight, Limit
<1>3. ASSUME NEW q \in Keys, ExpireKey(q)
      PROVE  Whole(k, t)' \/ Over(k, t)'
  <2>1. /\ zset' = [zset EXCEPT ![q] = {}] /\ clock >= expires[q]
        /\ UNCHANGED <<clock, expires, check, made, admitted>>
    BY <1>3 DEF ExpireKey
  <2>2. Busy(k, t)' = Busy(k, t) /\ InFlight(k, t)' = InFlight(k, t) /\ Limit(k)' = Limit(k)
    BY <2>1 DEF Busy, InFlight, Limit
  <2>3. CASE Over(k, t)
    BY <2>1, <2>2, <2>3 DEF Over
  <2>4. CASE Whole(k, t) /\ (q # k \/ Busy(k, t) = {})
    <3>1. q # k => zset'[k] = zset[k]
      BY <2>1 DEF LimiterInv, TypeOK
    <3> QED BY <2>2, <2>4, <3>1 DEF Whole
  <2>5. CASE Whole(k, t) /\ q = k /\ Busy(k, t) # {}
    <3>1. PICK u \in Busy(k, t) : TRUE
      BY <2>5
    <3>2. u \in made[k] /\ u \in Nat /\ t - Window < u
      BY <1>0, <3>1 DEF Busy, LimiterInv
    <3>3. u + Ttl <= expires[k] /\ expires[k] \in Nat
      <4>1. expires[k] \in 0 .. MaxTime + Ttl
        BY DEF LimiterInv, TypeOK
      <4> QED BY <3>2, <4>1, WindowAssumption, BoundsAssumption DEF LimiterInv
    <3>4. clock > t
      BY <1>0, <2>1, <2>5, <3>2, <3>3, TtlAssumption
    <3>5. Cardinality(Busy(k, t)) + Cardinality(InFlight(k, t)) <= Limit(k) + Cardinality(Requests)
      BY <2>5, BusyIsFinite DEF Whole
    <3> QED BY <2>1, <2>2, <3>4, <3>5 DEF Over
  <2> QED BY <1>0, <2>3, <2>4, <2>5
<1>4. ASSUME NEW r \in Requests, NEW ip \in Addresses, NEW x \in Tenants \cup {None}, Begin(r, ip, x)
      PROVE  Whole(k, t)' \/ Over(k, t)'
  <2>1. /\ \A q \in Requests : q # r => check'[q] = check[q]
        /\ check[r] = Idle /\ check'[r].now = clock
        /\ UNCHANGED <<clock, zset, expires, made, admitted>>
    BY <1>4, BeginFacts DEF LimiterInv
  <2>2. Busy(k, t)' = Busy(k, t) /\ Limit(k)' = Limit(k)
    BY <2>1 DEF Busy, Limit
  <2>3. CASE Whole(k, t)
    BY <2>1, <2>2, <2>3 DEF Whole
  <2>4. CASE Over(k, t)
    <3>1. InFlight(k, t)' = InFlight(k, t)
      <4>1. clock > t
        BY <2>4 DEF Over
      <4>2. r \notin InFlight(k, t) /\ r \notin InFlight(k, t)'
        BY <1>0, <2>1, <4>1 DEF InFlight
      <4> QED BY <2>1, <4>2 DEF InFlight
    <3> QED BY <2>1, <2>2, <2>4, <3>1 DEF Over
  <2> QED BY <1>0, <2>3, <2>4
<1>5. ASSUME NEW r \in Requests, Admit(r) \/ Ends(r)
      PROVE  Whole(k, t)' \/ Over(k, t)'
  BY <1>5, WindowPipeline
<1>6. ASSUME NEW r \in Requests, Drops(r)
      PROVE  Whole(k, t)' \/ Over(k, t)'
  <2>1. /\ \A q \in Requests : q # r => check'[q] = check[q]
        /\ check'[r] = Idle /\ UNCHANGED <<clock, zset, expires, made, admitted>>
    BY <1>6, EndFacts DEF LimiterInv, Drops
  <2>2. Busy(k, t)' = Busy(k, t) /\ Limit(k)' = Limit(k)
    BY <2>1 DEF Busy, Limit
  <2>3. CASE Whole(k, t)
    BY <2>1, <2>2, <2>3 DEF Whole
  <2>4. CASE Over(k, t)
    <3> DEFINE F == InFlight(k, t)
               F2 == InFlight(k, t)'
    <3>1. F2 \subseteq F /\ IsFiniteSet(F)
      BY <2>1, BusyIsFinite DEF InFlight
    <3> HIDE DEF F, F2
    <3>2. Cardinality(F2) <= Cardinality(F)
      BY <3>1, FS_Subset
    <3>3. Cardinality(InFlight(k, t)') <= Cardinality(InFlight(k, t))
      BY <3>2 DEF F, F2
    <3> QED BY <1>0, <2>1, <2>2, <2>4, <3>3, BusyIsFinite, BusyIsFiniteNext, OverStep
  <2> QED BY <1>0, <2>3, <2>4
<1> QED BY <1>1, <1>2, <1>3, <1>4, <1>5, <1>6, EndsOrDrops DEF Next

\* The bound on every window is inductive, given what Redis keeps.
LEMMA LimiterInductive == Spec => [](LimiterInv /\ WindowInv)
<1>1. LimiterInv /\ WindowInv /\ [Next]_vars => (LimiterInv /\ WindowInv)'
  BY LimiterInvStep, WindowInvStep
<1> QED BY LimiterInitially, <1>1, PTL DEF Spec

\* Clocks, sorted sets and checks in flight keep their types; no window's count passes its cap.
THEOREM LimiterTypeOKAlways == Spec => []TypeOK
<1>1. LimiterInv => TypeOK
  BY DEF LimiterInv
<1> QED BY <1>1, LimiterInductive, PTL

\* However checks of check_rate_limit overtake one another between time.time() and their
\* pipeline, no window has admitted requests in more milliseconds than the limit and the
\* requests that may be in flight together: for all limits, windows and numbers of requests.
THEOREM BusyMillisecondsAreBoundedAlways == Spec => []BusyMillisecondsAreBounded
<1>1. LimiterInv /\ WindowInv => BusyMillisecondsAreBounded
  <2> SUFFICES ASSUME WindowInv, NEW k \in Keys, NEW t \in Time
               PROVE  Cardinality(Busy(k, t)) <= Limit(k) + Cardinality(Requests)
    BY DEF BusyMillisecondsAreBounded, Busy
  <2>1. Whole(k, t) \/ Over(k, t)
    BY DEF WindowInv
  <2> QED BY <2>1, BusyIsFinite DEF Whole, Over
<1> QED BY LimiterInductive, <1>1, PTL

-----------------------------------------------------------------------------
(* One check at a time *)

\* A sorted set loses only what no check in flight would count, while checks do not overlap.
LEMMA SerialStep ==
    ASSUME LimiterInv, SerialInv, LimiterInv', Next,
           \A q, r \in Requests : check'[q] # Idle /\ check'[r] # Idle => q = r
    PROVE  SerialInv'
<1>0. clock \in Nat /\ {Window, Ttl} \subseteq Nat /\ Time \subseteq Nat
  BY WindowAssumption DEF LimiterInv, TypeOK, Time
<1>a. \A k \in Keys : made[k] \subseteq Nat
  BY <1>0 DEF LimiterInv, TypeOK
<1> SUFFICES ASSUME NEW k \in Keys, NEW m \in Lost(k)'
             PROVE  /\ m + Window <= clock'
                    /\ \A r \in Requests : check'[r] # Idle /\ check'[r].key = k =>
                          m + Window <= check'[r].now \/ m + Ttl <= clock'
  BY DEF SerialInv
<1> DEFINE Goal == /\ m + Window <= clock'
                   /\ \A r \in Requests : check'[r] # Idle /\ check'[r].key = k =>
                         m + Window <= check'[r].now \/ m + Ttl <= clock'
<1>1. CASE Tick
  <2>1. m \in Lost(k) /\ m \in Nat /\ clock' = clock + 1 /\ check' = check
    BY <1>1, <1>a DEF Tick, Lost
  <2> QED BY <1>0, <2>1 DEF SerialInv
<1>2. ASSUME NEW q \in Keys, ExpireKey(q) PROVE Goal
  <2>1. /\ zset' = [zset EXCEPT ![q] = {}] /\ clock >= expires[q]
        /\ UNCHANGED <<clock, expires, check, made, admitted>>
    BY <1>2 DEF ExpireKey
  <2>2. CASE m \in Lost(k)
    BY <2>1, <2>2 DEF SerialInv
  <2>3. CASE m \notin Lost(k)
    <3>1. q = k /\ m \in made[k] /\ m \in Nat
      BY <1>a, <2>1, <2>3 DEF Lost, LimiterInv, TypeOK
    <3>2. m + Ttl <= expires[k] /\ expires[k] \in Nat
      <4>1. expires[k] \in 0 .. MaxTime + Ttl
        BY DEF LimiterInv, TypeOK
      <4> QED BY <3>1, <4>1, WindowAssumption, BoundsAssumption DEF LimiterInv
    <3>3. m + Ttl <= clock
      BY <1>0, <2>1, <3>1, <3>2
    <3> QED BY <1>0, <2>1, <3>1, <3>3, TtlAssumption
  <2> QED BY <2>2, <2>3
<1>3. ASSUME NEW r \in Requests, NEW ip \in Addresses, NEW x \in Tenants \cup {None}, Begin(r, ip, x)
      PROVE  Goal
  <2>1. /\ \A q \in Requests : q # r => check'[q] = check[q]
        /\ check'[r].now = clock /\ UNCHANGED <<clock, zset, expires, made, admitted>>
    BY <1>3, BeginFacts DEF LimiterInv
  <2>2. m \in Lost(k)
    BY <2>1 DEF Lost
  <2>3. m + Window <= clock
    BY <2>2 DEF SerialInv
  <2> QED BY <2>1, <2>2, <2>3 DEF SerialInv
<1>4. ASSUME NEW r \in Requests, Admit(r) \/ Ends(r) PROVE Goal
  <2>1. Pipeline(r) /\ check[r] # Idle /\ TypeOK /\ UNCHANGED clock
    BY <1>4 DEF Admit, Ends, Pipeline, LimiterInv
  <2> DEFINE key == check[r].key
             n == check[r].now
  <2>2. /\ key \in Keys /\ n \in Time
        /\ Counted(r) = {u \in zset[key] : u > n - Window} \cup {n}
        /\ zset'[key] = Counted(r) /\ made'[key] = made[key] \cup {n}
        /\ \A q \in Keys : q # key => zset'[q] = zset[q] /\ made'[q] = made[q]
    BY <2>1, PipelineFacts
  <2>3. n <= clock
    BY <2>1 DEF LimiterInv
  <2>4. \A q \in Requests : check'[q] # Idle => check'[q].now = clock
    <3>1. \A q \in Requests : q # r => check[q] = Idle
      BY <2>1 DEF SerialInv
    <3>2. /\ \A q \in Requests : q # r => check'[q] = check[q]
          /\ check'[r] # Idle => check'[r].now = clock
      <4>1. CASE Admit(r)
        BY <2>1, <4>1, AdmitFacts
      <4>2. CASE Ends(r)
        BY <2>1, <4>2, EndFacts
      <4> QED BY <1>4, <4>1, <4>2
    <3> QED BY <3>1, <3>2
  <2> HIDE DEF key, n
  <2>5. m + Window <= clock
    <3>1. CASE m \in Lost(k)
      BY <3>1 DEF SerialInv
    <3>2. CASE m \notin Lost(k)
      <4>1. k = key /\ m \in zset[k] /\ ~(m > n - Window) /\ m \in made[k]
        BY <2>2, <3>2 DEF Lost
      <4>2. m \in Nat /\ n \in Nat
        BY <1>0, <1>a, <2>2, <4>1
      <4> QED BY <1>0, <2>3, <4>1, <4>2
    <3> QED BY <3>1, <3>2
  <2> QED BY <2>1, <2>4, <2>5
<1>5. ASSUME NEW r \in Requests, Drops(r) PROVE Goal
  <2>1. /\ \A q \in Requests : q # r => check'[q] = check[q]
        /\ check'[r] = Idle /\ UNCHANGED <<clock, zset, expires, made, admitted>>
    BY <1>5, EndFacts DEF LimiterInv, Drops
  <2>2. m \in Lost(k)
    BY <2>1 DEF Lost
  <2> QED BY <2>1, <2>2 DEF SerialInv
<1> HIDE DEF Goal
<1>6. Goal
  BY <1>1, <1>2, <1>3, <1>4, <1>5, EndsOrDrops DEF Next, Goal
<1> QED BY <1>6 DEF Goal

\* The serial invariant is inductive, whatever request, address and tenant comes next.
LEMMA TurnsInductive == TurnsSpec => []TurnsInv
<1>1. MCInit => TurnsInv
  <2> SUFFICES ASSUME MCInit PROVE TurnsInv
    OBVIOUS
  <2>1. LimiterInv /\ \A r \in Requests : check[r] = Idle
    BY LimiterInitially DEF MCInit
  <2>2. \A k \in Keys : made[k] = {}
    BY DEF MCInit, Init
  <2> QED BY <2>1, <2>2 DEF TurnsInv, SerialInv, Lost
<1>2. TurnsInv /\ [TurnsNext]_mcVars => TurnsInv'
  <2> SUFFICES ASSUME TurnsInv, [TurnsNext]_mcVars PROVE TurnsInv'
    OBVIOUS
  <2>1. CASE UNCHANGED <<vars, part>>
    BY <2>1 DEF vars, TurnsInv, LimiterInv, TypeOK, SerialInv, Lost
  <2>2. CASE Next /\ InTurn' /\ UNCHANGED part
    <3>1. LimiterInv'
      BY <2>2, LimiterInvStep DEF TurnsInv
    <3>2. ASSUME part = "serial" PROVE SerialInv'
      <4>1. \A q, r \in Requests : check'[q] # Idle /\ check'[r] # Idle => q = r
        BY <2>2, <3>2 DEF InTurn
      <4> QED BY <2>2, <3>1, <3>2, <4>1, SerialStep DEF TurnsInv
    <3> QED BY <2>2, <3>1, <3>2 DEF TurnsInv
  <2> QED BY <2>1, <2>2 DEF TurnsNext, mcVars
<1> QED BY <1>1, <1>2, PTL DEF TurnsSpec

\* When no check overtakes another, check_rate_limit decides as a sliding window over the
\* checks of the last Window milliseconds would: neither ZREMRANGEBYSCORE nor the expiry of
\* the key changes an answer, whatever the limits, the time that passes, the addresses and
\* tenants, the window and a Ttl that is not shorter.
THEOREM SerialDecidesByTheWindowAlways == TurnsSpec => []SerialDecidesByTheWindow
<1>1. TurnsInv => SerialDecidesByTheWindow
  <2> SUFFICES ASSUME LimiterInv, SerialInv, NEW r \in Requests, check[r] # Idle,
                      clock - check[r].now <= Ttl - Window
               PROVE  Passes(r) <=> Cardinality({t \in made[check[r].key] : t > check[r].now - Window}
                                                  \cup {check[r].now}) <= Limit(check[r].key)
    BY DEF TurnsInv, SerialDecidesByTheWindow, DecidesByTheWindow
  <2> DEFINE k == check[r].key
             n == check[r].now
             recent == {t \in made[k] : t > n - Window} \cup {n}
  <2>1. k \in Keys /\ n \in Time
    BY CheckInFlight DEF LimiterInv
  <2>2. /\ clock \in Nat /\ n \in Nat /\ {Window, Ttl} \subseteq Nat
        /\ made[k] \subseteq Nat /\ zset[k] \subseteq made[k]
    BY <2>1, WindowAssumption DEF LimiterInv, TypeOK, Time
  <2>3. \A m \in Lost(k) : m + Window <= n \/ m + Ttl <= clock
    BY <2>1 DEF SerialInv
  <2>4. clock - n <= Ttl - Window
    OBVIOUS
  <2>5. Counted(r) = {t \in zset[k] : t > n - Window} \cup {n}
    BY DEF Counted
  <2> HIDE DEF k, n
  <2>6. Counted(r) = recent
    <3> SUFFICES ASSUME NEW m \in made[k], m > n - Window PROVE m \in zset[k]
      BY <2>2, <2>5
    <3>1. m \in Nat
      BY <2>2
    <3>2. ~(m + Window <= n) /\ ~(m + Ttl <= clock)
      BY <2>2, <2>4, <3>1
    <3> QED BY <2>3, <3>2 DEF Lost
  <2> HIDE DEF recent
  <2>7. Passes(r) <=> Cardinality(recent) <= Limit(k)
    BY <2>6 DEF Passes, k
  <2> QED BY <2>7 DEF recent, k, n
<1> QED BY TurnsInductive, <1>1, PTL

=============================================================================
