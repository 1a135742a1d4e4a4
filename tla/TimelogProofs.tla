---------------------------- MODULE TimelogProofs ----------------------------
(***************************************************************************)
(* Proofs about the timelog service, for every set of entries, tenants,    *)
(* users and callers: what holds of any number of overlapping requests,    *)
(* and the approval workflow that requests one after the other implement.  *)
(***************************************************************************)
EXTENDS MCTimelog, SequenceTheorems, FiniteSetTheorems, TLAPS

\* What an open request may rely on when it commits, however stale its read is:
\* its row exists and belongs to the caller's tenant; it assigns the status exactly
\* if it also adds an audit record; and a decision was taken on an entry that
\* already had a trail.
TxnInv ==
    \A s \in Sessions : txn[s] # Idle =>
        LET t == txn[s] IN
        /\ entries[t.entry] # Unused
        /\ entries[t.entry].tenant = t.ctx.tenant
        /\ t.op \in StatusOps => t.ctx.user \in Users /\ t.row.status # t.seen.status
        /\ t.op \notin StatusOps => t.row.status = t.seen.status
        /\ t.op = "submit" => t.row.status = "submitted"
        /\ t.op \in {"approve", "reject"} => approvals[t.entry] # <<>>

\* Only an existing entry has a trail.
TrailInv == \A e \in EntryIds : approvals[e] # <<>> => entries[e] # Unused

IInv ==
    /\ TypeOK
    /\ TxnInv
    /\ TrailInv
    /\ TrailExplainsStatus
    /\ TrailStartsWithSubmission
    /\ TrailStaysInTenant

-----------------------------------------------------------------------------
\* A row is never the placeholder: its status tells them apart.
LEMMA UnusedIsNoRow == Unused \notin Row
BY DEF Unused, Row, Statuses

\* The computed minutes are at least one.
LEMMA MinutesType ==
    ASSUME NEW a \in Nat, NEW b \in Nat
    PROVE  Minutes(a, b) \in Int /\ Minutes(a, b) >= 1
BY BoundsAssumption DEF Minutes

\* Writing the changed columns of one row into another gives a row.
LEMMA FlushType ==
    ASSUME NEW a \in Row, NEW b \in Row, NEW c \in Row
    PROVE  Flush(a, b, c) \in Row
BY DEF Flush, Row, Column

\* The tables of the timelog service start empty.
LEMMA InitIInv == Init => IInv
<1> SUFFICES ASSUME Init PROVE IInv
  OBVIOUS
<1>1. TypeOK
  BY DEF Init, TypeOK
<1>2. TxnInv /\ TrailInv /\ TrailExplainsStatus /\ TrailStartsWithSubmission
  BY DEF Init, TxnInv, TrailInv, TrailExplainsStatus, TrailStartsWithSubmission
<1>3. TrailStaysInTenant
  BY DEF Init, TrailStaysInTenant
<1> QED BY <1>1, <1>2, <1>3 DEF IInv

\* A handler that only opens a transaction keeps the invariant, provided it leaves
\* what TxnInv says of it.
LEMMA OpenIInv ==
    ASSUME IInv, NEW s \in Sessions, NEW op \in Ops, NEW ctx \in Contexts,
           NEW e \in EntryIds, NEW row \in Row, Open(s, op, ctx, e, row),
           GetEntry(ctx, e),
           op \in StatusOps => ctx.user \in Users /\ row.status # entries[e].status,
           op \notin StatusOps => row.status = entries[e].status,
           op = "submit" => row.status = "submitted",
           op \in {"approve", "reject"} => approvals[e] # <<>>
    PROVE  IInv'
<1> DEFINE new == [op |-> op, ctx |-> ctx, entry |-> e, seen |-> entries[e],
                   row |-> row, at |-> clock]
<1>1. entries' = entries /\ approvals' = approvals /\ clock' = clock
  BY DEF Open
<1>2. txn' = [txn EXCEPT ![s] = new]
  BY DEF Open
<1>3. entries[e] \in Row
  BY DEF GetEntry, IInv, TypeOK
<1>4. new \in Txn
  BY <1>3 DEF Txn, IInv, TypeOK
<1> HIDE DEF new
<1>5. TypeOK'
  BY <1>1, <1>2, <1>4 DEF IInv, TypeOK
<1>6. TxnInv'
  <2> SUFFICES ASSUME NEW t \in Sessions, txn'[t] # Idle
               PROVE  TxnInv!(t)!2'
    BY DEF TxnInv
  <2>1. CASE t = s
    BY <2>1, <1>1, <1>2 DEF new, TxnInv, IInv, TypeOK, GetEntry
  <2>2. CASE t # s
    BY <2>2, <1>1, <1>2 DEF TxnInv, IInv, TypeOK
  <2> QED BY <2>1, <2>2
<1>7. (TrailInv /\ TrailExplainsStatus /\ TrailStartsWithSubmission /\ TrailStaysInTenant)'
  BY <1>1 DEF IInv, TrailInv, TrailExplainsStatus, TrailStartsWithSubmission, TrailStaysInTenant
<1> QED BY <1>5, <1>6, <1>7 DEF IInv

\* Every handler that reads an entry leaves the invariant intact: one step per
\* handler, each by OpenIInv.
LEMMA RequestIInv ==
    ASSUME IInv, NEW s \in Sessions, NEW ctx \in Contexts, NEW e \in EntryIds,
           Request(s, ctx, e)
    PROVE  IInv'
<1> USE DEF Ops, StatusOps
<1>0. /\ ctx.user \in Users \cup {NoUser}
      /\ GetEntry(ctx, e) => entries[e] \in Row
      /\ clock \in Times
  BY ContextsAssumption DEF GetEntry, IInv, TypeOK, Times
<1>1. ASSUME NEW d \in Durations, UpdateEntry(s, ctx, e, d)
      PROVE  IInv'
  <2> DEFINE row == [entries[e] EXCEPT !.duration = d]
  <2>1. GetEntry(ctx, e) /\ Open(s, "update", ctx, e, row)
    BY <1>1 DEF UpdateEntry
  <2>2. row \in Row /\ row.status = entries[e].status
    BY <1>0, <2>1, BoundsAssumption DEF Row
  <2> HIDE DEF row
  <2> QED BY <2>1, <2>2, OpenIInv
<1>2. ASSUME DeleteEntry(s, ctx, e)
      PROVE  IInv'
  <2> DEFINE row == [entries[e] EXCEPT !.deleted = TRUE]
  <2>1. GetEntry(ctx, e) /\ Open(s, "delete", ctx, e, row)
    BY <1>2 DEF DeleteEntry
  <2>2. row \in Row /\ row.status = entries[e].status
    BY <1>0, <2>1 DEF Row
  <2> HIDE DEF row
  <2> QED BY <2>1, <2>2, OpenIInv
<1>3. ASSUME StartTimer(s, ctx, e)
      PROVE  IInv'
  <2> DEFINE row == [entries[e] EXCEPT !.started = clock]
  <2>1. GetEntry(ctx, e) /\ Open(s, "start", ctx, e, row)
    BY <1>3 DEF StartTimer
  <2>2. row \in Row /\ row.status = entries[e].status
    BY <1>0, <2>1 DEF Row
  <2> HIDE DEF row
  <2> QED BY <2>1, <2>2, OpenIInv
<1>4. ASSUME NEW t \in EndTimes \cup {clock}, StopTimer(s, ctx, e, t)
      PROVE  IInv'
  <2> DEFINE m == Minutes(entries[e].started, t)
             row == [entries[e] EXCEPT !.ended = t, !.duration = m]
  <2>1. GetEntry(ctx, e) /\ Open(s, "stop", ctx, e, row)
    BY <1>4 DEF StopTimer
  <2>2. t \in Nat /\ t \in Times
    BY <1>4, BoundsAssumption DEF IInv, TypeOK, Times
  <2>3. m \in 1 .. Int4Max
    <3>1. entries[e].started \in Nat /\ m <= Int4Max
      BY <1>0, <1>4, <2>1 DEF StopTimer, Row, Times
    <3>2. m \in Int /\ m >= 1
      <4> HIDE DEF m
      <4>1. \A a, b \in Nat : Minutes(a, b) \in Int /\ Minutes(a, b) >= 1
        BY MinutesType
      <4> QED BY <3>1, <2>2, <4>1 DEF m
    <3> HIDE DEF m
    <3> QED BY <3>1, <3>2, BoundsAssumption
  <2> HIDE DEF m
  <2>4. row \in Row /\ row.status = entries[e].status
    BY <1>0, <2>1, <2>2, <2>3 DEF Row
  <2> HIDE DEF row
  <2> QED BY <2>1, <2>4, OpenIInv
<1>5. ASSUME SubmitEntry(s, ctx, e)
      PROVE  IInv'
  <2> DEFINE row == [entries[e] EXCEPT !.status = "submitted"]
  <2>1. /\ GetEntry(ctx, e) /\ Open(s, "submit", ctx, e, row)
        /\ ctx.user \in Users /\ entries[e].status = "draft"
    BY <1>0, <1>5 DEF SubmitEntry, Authenticated
  <2>2. row \in Row /\ row.status = "submitted"
    BY <1>0, <2>1 DEF Row, Statuses
  <2> HIDE DEF row
  <2> QED BY <2>1, <2>2, OpenIInv
<1>6. ASSUME ApproveEntry(s, ctx, e)
      PROVE  IInv'
  <2> DEFINE row == [entries[e] EXCEPT !.status = "approved"]
  <2>1. /\ GetEntry(ctx, e) /\ Open(s, "approve", ctx, e, row)
        /\ ctx.user \in Users /\ entries[e].status = "submitted"
    BY <1>0, <1>6 DEF ApproveEntry, Authenticated
  <2>2. row \in Row /\ row.status = "approved"
    BY <1>0, <2>1 DEF Row, Statuses
  <2>3. approvals[e] # <<>>
    BY <2>1 DEF IInv, TrailExplainsStatus, GetEntry
  <2> HIDE DEF row
  <2> QED BY <2>1, <2>2, <2>3, OpenIInv
<1>7. ASSUME RejectEntry(s, ctx, e)
      PROVE  IInv'
  <2> DEFINE row == [entries[e] EXCEPT !.status = "rejected"]
  <2>1. /\ GetEntry(ctx, e) /\ Open(s, "reject", ctx, e, row)
        /\ ctx.user \in Users /\ entries[e].status = "submitted"
    BY <1>0, <1>7 DEF RejectEntry, Authenticated
  <2>2. row \in Row /\ row.status = "rejected"
    BY <1>0, <2>1 DEF Row, Statuses
  <2>3. approvals[e] # <<>>
    BY <2>1 DEF IInv, TrailExplainsStatus, GetEntry
  <2> HIDE DEF row
  <2> QED BY <2>1, <2>2, <2>3, OpenIInv
<1> QED BY <1>1, <1>2, <1>3, <1>4, <1>5, <1>6, <1>7 DEF Request

\* A new draft has no trail, and no open request can be about it.
LEMMA CreateIInv ==
    ASSUME IInv, NEW ctx \in Contexts, NEW e \in EntryIds, NEW d \in Durations,
           CreateEntry(ctx, e, d)
    PROVE  IInv'
<1> DEFINE row == [tenant |-> ctx.tenant, user |-> ctx.user, status |-> "draft",
                   started |-> NoTime, ended |-> NoTime, duration |-> d,
                   deleted |-> FALSE]
<1>1. /\ entries[e] = Unused /\ entries' = [entries EXCEPT ![e] = row]
      /\ approvals' = approvals /\ txn' = txn /\ clock' = clock
  BY DEF CreateEntry
<1>2. row \in Row
  BY ContextsAssumption, BoundsAssumption
  DEF CreateEntry, Authenticated, Row, Statuses, Times
<1>3. row.status = "draft"
  OBVIOUS
<1> HIDE DEF row
<1>4. row # Unused
  BY <1>2, UnusedIsNoRow
<1>5. approvals[e] = <<>>
  BY <1>1 DEF IInv, TrailInv
<1>6. TypeOK'
  BY <1>1, <1>2 DEF IInv, TypeOK
<1>7. TxnInv'
  <2> SUFFICES ASSUME NEW t \in Sessions, txn'[t] # Idle
               PROVE  TxnInv!(t)!2'
    BY DEF TxnInv
  <2>1. txn[t] \in Txn /\ txn[t].entry \in EntryIds /\ entries[txn[t].entry] # Unused
    BY <1>1 DEF IInv, TypeOK, TxnInv, Txn
  <2>2. entries'[txn[t].entry] = entries[txn[t].entry]
    BY <1>1, <2>1 DEF IInv, TypeOK
  <2> QED BY <1>1, <2>1, <2>2 DEF IInv, TxnInv
<1>8. TrailInv' /\ TrailStartsWithSubmission'
  BY <1>1, <1>4, <1>5 DEF IInv, TypeOK, TrailInv, TrailStartsWithSubmission
<1>9. TrailExplainsStatus'
  BY <1>1, <1>3, <1>5 DEF IInv, TypeOK, TrailExplainsStatus
<1>10. TrailStaysInTenant'
  <2> SUFFICES ASSUME NEW x \in EntryIds, NEW i \in 1 .. Len(approvals[x])
               PROVE  entries'[x] # Unused /\ approvals[x][i].tenant = entries'[x].tenant
    BY <1>1 DEF TrailStaysInTenant
  <2>1. entries[x] # Unused /\ approvals[x][i].tenant = entries[x].tenant
    BY DEF IInv, TrailStaysInTenant
  <2> QED BY <1>1, <2>1 DEF IInv, TypeOK
<1> QED BY <1>6, <1>7, <1>8, <1>9, <1>10 DEF IInv

\* What a record added at the end of a trail does to it.
LEMMA AddRecord ==
    ASSUME NEW S, NEW q \in Seq(S), NEW x \in S
    PROVE  /\ q \o <<x>> \in Seq(S)
           /\ Len(q \o <<x>>) = Len(q) + 1
           /\ q \o <<x>> # <<>>
           /\ (q \o <<x>>)[Len(q \o <<x>>)] = x
           /\ \A i \in 1 .. Len(q) : (q \o <<x>>)[i] = q[i]
OBVIOUS

\* The commit, whatever was committed since the request read its row: a status and
\* its record land together, any other request leaves both alone.
LEMMA CommitIInv ==
    ASSUME IInv, NEW s \in Sessions, Commit(s)
    PROVE  IInv'
<1> DEFINE t == txn[s]
           e == txn[s].entry
           f == Flush(txn[s].seen, txn[s].row, entries[txn[s].entry])
           r == ApprovalOf(txn[s])
<1>1. /\ t \in Txn /\ e \in EntryIds /\ t # Idle
      /\ t.row \in Row /\ t.seen \in Row /\ t.ctx \in Contexts /\ t.at \in Nat
  BY DEF Commit, IInv, TypeOK, Txn
<1>2. entries[e] # Unused /\ entries[e] \in Row
  BY <1>1 DEF IInv, TypeOK, TxnInv
<1>3. f \in Row /\ f # Unused
  <2>1. f \in Row
    BY <1>1, <1>2, FlushType
  <2> QED BY <2>1, UnusedIsNoRow
<1>4. /\ f.tenant = entries[e].tenant
      /\ t.op \in StatusOps => f.status = t.row.status
      /\ t.op \notin StatusOps => f.status = entries[e].status
  BY <1>1 DEF Flush, Column, IInv, TxnInv
<1>5. t.op \in StatusOps =>
        /\ r \in Approval
        /\ r.action = t.row.status
        /\ r.tenant = entries[e].tenant
  <2> SUFFICES ASSUME t.op \in StatusOps
               PROVE  /\ r \in Approval /\ r.action = t.row.status
                      /\ r.tenant = entries[e].tenant
    OBVIOUS
  <2>1. t.ctx.user \in Users /\ t.ctx.tenant = entries[e].tenant
    BY <1>1 DEF IInv, TxnInv
  <2>2. t.ctx.tenant \in Tenants /\ t.row.status \in Statuses
    BY <1>1, ContextsAssumption DEF Row
  <2> QED BY <1>1, <2>1, <2>2 DEF ApprovalOf, Approval
<1>6. /\ entries' = [entries EXCEPT ![e] = f]
      /\ txn' = [txn EXCEPT ![s] = Idle]
      /\ clock' = clock
      /\ approvals' = [approvals EXCEPT ![e] = @ \o Recorded(t)]
  BY DEF Commit
<1>7. /\ entries'[e] = f
      /\ \A x \in EntryIds : x # e => entries'[x] = entries[x] /\ approvals'[x] = approvals[x]
      /\ approvals[e] \in Seq(Approval)
  BY <1>1, <1>6 DEF IInv, TypeOK
<1>8. t.op \notin StatusOps => approvals'[e] = approvals[e]
  BY <1>1, <1>6, <1>7 DEF Recorded, IInv, TypeOK
<1>9. t.op \in StatusOps => approvals'[e] = approvals[e] \o <<r>>
  BY <1>1, <1>6 DEF Recorded, IInv, TypeOK
<1>10. \A x \in Sessions : x # s => txn'[x] = txn[x]
  BY <1>6 DEF IInv, TypeOK
<1>11. txn'[s] = Idle
  BY <1>6 DEF IInv, TypeOK
<1> HIDE DEF t, e, f, r
<1>12. approvals'[e] \in Seq(Approval) /\ (approvals[e] # <<>> => approvals'[e] # <<>>)
  <2>1. CASE t.op \in StatusOps
    <3>1. r \in Approval /\ approvals[e] \in Seq(Approval) /\ approvals'[e] = approvals[e] \o <<r>>
      BY <2>1, <1>5, <1>7, <1>9
    <3> QED BY <3>1, AddRecord
  <2>2. CASE t.op \notin StatusOps
    BY <2>2, <1>7, <1>8
  <2> QED BY <2>1, <2>2
<1>13. TypeOK'
  <2>1. entries' \in [EntryIds -> Row \cup {Unused}]
    BY <1>1, <1>3, <1>6 DEF IInv, TypeOK
  <2>2. approvals' \in [EntryIds -> Seq(Approval)]
    BY <1>6, <1>7, <1>12 DEF IInv, TypeOK
  <2>3. txn' \in [Sessions -> Txn \cup {Idle}] /\ clock' \in Nat
    BY <1>6 DEF IInv, TypeOK
  <2> QED BY <2>1, <2>2, <2>3 DEF TypeOK
<1>14. TxnInv'
  <2> SUFFICES ASSUME NEW x \in Sessions, txn'[x] # Idle
               PROVE  TxnInv!(x)!2'
    BY DEF TxnInv
  <2>1. txn'[x] = txn[x] /\ txn[x] \in Txn /\ txn[x].entry \in EntryIds
    BY <1>10, <1>11 DEF IInv, TypeOK, Txn
  <2>2. /\ entries'[txn[x].entry] # Unused
        /\ entries'[txn[x].entry].tenant = entries[txn[x].entry].tenant
        /\ approvals[txn[x].entry] # <<>> => approvals'[txn[x].entry] # <<>>
    BY <1>3, <1>4, <1>7, <1>12, <2>1 DEF IInv, TxnInv
  <2> QED BY <2>1, <2>2 DEF IInv, TxnInv
<1>15. TrailInv'
  BY <1>3, <1>7 DEF IInv, TrailInv
<1>16. TrailExplainsStatus'
  <2>1. CASE t.op \in StatusOps
    BY <2>1, <1>4, <1>5, <1>7, <1>9, AddRecord DEF IInv, TrailExplainsStatus
  <2>2. CASE t.op \notin StatusOps
    BY <2>2, <1>2, <1>4, <1>7, <1>8 DEF IInv, TrailExplainsStatus
  <2> QED BY <2>1, <2>2
<1>17. TrailStartsWithSubmission'
  <2>1. CASE t.op \notin StatusOps
    BY <2>1, <1>7, <1>8 DEF IInv, TrailStartsWithSubmission
  <2>2. CASE t.op \in StatusOps /\ approvals[e] # <<>>
    <3>1. Len(approvals[e]) \in Nat /\ Len(approvals[e]) >= 1
      BY <2>2, <1>7
    <3>2. approvals'[e][1] = approvals[e][1]
      BY <3>1, <2>2, <1>5, <1>7, <1>9, AddRecord
    <3> QED BY <3>2, <2>2, <1>1, <1>7 DEF IInv, TrailStartsWithSubmission
  <2>3. CASE t.op \in StatusOps /\ approvals[e] = <<>>
    <3>1. t.row.status = "submitted"
      BY <2>3, <1>1 DEF IInv, TxnInv, StatusOps, t, e
    <3>2. approvals'[e][1] = r
      BY <2>3, <1>9
    <3> QED BY <3>1, <3>2, <2>3, <1>5, <1>7 DEF IInv, TrailStartsWithSubmission
  <2> QED BY <2>1, <2>2, <2>3
<1>18. TrailStaysInTenant'
  <2> SUFFICES ASSUME NEW x \in EntryIds, NEW i \in 1 .. Len(approvals'[x])
               PROVE  entries'[x] # Unused /\ approvals'[x][i].tenant = entries'[x].tenant
    BY DEF TrailStaysInTenant
  <2>1. CASE x # e \/ t.op \notin StatusOps
    BY <2>1, <1>3, <1>4, <1>7, <1>8 DEF IInv, TrailStaysInTenant
  <2>2. CASE x = e /\ t.op \in StatusOps /\ i \in 1 .. Len(approvals[e])
    <3>1. approvals'[e][i] = approvals[e][i]
      BY <2>2, <1>5, <1>7, <1>9, AddRecord
    <3> QED BY <3>1, <2>2, <1>1, <1>3, <1>4, <1>7 DEF IInv, TrailStaysInTenant
  <2>3. CASE x = e /\ t.op \in StatusOps /\ i \notin 1 .. Len(approvals[e])
    <3>1. Len(approvals[e]) \in Nat /\ Len(approvals'[e]) = Len(approvals[e]) + 1
      BY <2>3, <1>5, <1>7, <1>9, AddRecord
    <3>2. i = Len(approvals'[e])
      BY <3>1, <2>3
    <3>3. approvals'[e][i] = r
      BY <3>2, <2>3, <1>5, <1>7, <1>9, AddRecord
    <3> QED BY <3>3, <2>3, <1>3, <1>4, <1>5, <1>7
  <2> QED BY <2>1, <2>2, <2>3
<1> QED BY <1>13, <1>14, <1>15, <1>16, <1>17, <1>18 DEF IInv

\* Rolling back forgets the request; time only moves the clock.
LEMMA RollbackIInv ==
    ASSUME IInv, NEW s \in Sessions, Rollback(s)
    PROVE  IInv'
<1>1. /\ txn' = [txn EXCEPT ![s] = Idle]
      /\ entries' = entries /\ approvals' = approvals /\ clock' = clock
  BY DEF Rollback
<1>2. TypeOK' /\ TxnInv'
  BY <1>1 DEF IInv, TypeOK, TxnInv
<1> QED
  BY <1>1, <1>2 DEF IInv, TrailInv, TrailExplainsStatus, TrailStartsWithSubmission,
                    TrailStaysInTenant

\* A step that leaves the tables alone keeps the invariant.
LEMMA SameTablesIInv ==
    ASSUME IInv, UNCHANGED <<entries, approvals, txn>>, clock' \in Nat
    PROVE  IInv'
BY DEF IInv, TypeOK, TxnInv, TrailInv, TrailExplainsStatus, TrailStartsWithSubmission,
       TrailStaysInTenant

\* The invariant is inductive: one step per kind of action.
LEMMA NextIInv == IInv /\ [Next]_vars => IInv'
<1> SUFFICES ASSUME IInv, [Next]_vars PROVE IInv'
  OBVIOUS
<1>1. ASSUME NEW ctx \in Contexts, NEW e \in EntryIds, NEW d \in Durations,
             CreateEntry(ctx, e, d)
      PROVE  IInv'
  BY <1>1, CreateIInv
<1>2. ASSUME NEW s \in Sessions, NEW ctx \in Contexts, NEW e \in EntryIds,
             Request(s, ctx, e)
      PROVE  IInv'
  BY <1>2, RequestIInv
<1>3. ASSUME NEW s \in Sessions, Commit(s) PROVE IInv'
  BY <1>3, CommitIInv
<1>4. ASSUME NEW s \in Sessions, Rollback(s) PROVE IInv'
  BY <1>4, RollbackIInv
<1>5. CASE Tick
  <2>1. clock' \in Nat /\ UNCHANGED <<entries, approvals, txn>>
    BY <1>5 DEF Tick, IInv, TypeOK
  <2> QED BY <2>1, SameTablesIInv
<1>6. CASE UNCHANGED vars
  <2>1. clock' \in Nat /\ UNCHANGED <<entries, approvals, txn>>
    BY <1>6 DEF vars, IInv, TypeOK
  <2> QED BY <2>1, SameTablesIInv
<1> QED BY <1>1, <1>2, <1>3, <1>4, <1>5, <1>6 DEF Next

\* Under any overlap of requests the service's tables keep the inductive invariant.
THEOREM Invariance == Spec => []IInv
<1>1. Init => IInv
  BY InitIInv
<1>2. IInv /\ [Next]_vars => IInv'
  BY NextIInv
<1> QED BY <1>1, <1>2, PTL DEF Spec

\* Rows, trails and open requests keep their types: no handler, with any body,
\* leaves a duration below one minute or beyond its column.
THEOREM TypeCorrectness == Spec => []TypeOK
<1>1. IInv => TypeOK
  BY DEF IInv
<1> QED BY <1>1, Invariance, PTL

\* However many submissions, decisions, edits and timers overlap, an entry's status
\* is the action of the record committed last in its audit trail.
THEOREM TrailExplainsStatusAlways == Spec => []TrailExplainsStatus
<1>1. IInv => TrailExplainsStatus
  BY DEF IInv
<1> QED BY <1>1, Invariance, PTL

\* No entry is decided on without having been submitted.
THEOREM TrailStartsWithSubmissionAlways == Spec => []TrailStartsWithSubmission
<1>1. IInv => TrailStartsWithSubmission
  BY DEF IInv
<1> QED BY <1>1, Invariance, PTL

\* A trail never holds a record of another tenant.
THEOREM TrailStaysInTenantAlways == Spec => []TrailStaysInTenant
<1>1. IInv => TrailStaysInTenant
  BY DEF IInv
<1> QED BY <1>1, Invariance, PTL

-----------------------------------------------------------------------------
(* The order of the stamps *)

\* No stamp is in the future.
StampsInv ==
    /\ \A e \in EntryIds : \A i \in 1 .. Len(approvals[e]) :
          approvals[e][i].at \in Nat /\ approvals[e][i].at <= clock
    /\ \A s \in Sessions : txn[s] # Idle => txn[s].at \in Nat /\ txn[s].at <= clock

\* The open requests whose transactions began before `at`.
Late(at) == {s \in Sessions : txn[s] # Idle /\ txn[s].at < at}

\* Who has overtaken a record and who still may are fewer than the sessions: of those open
\* when it was committed, it was one.
OvertakingInv ==
    \A e \in EntryIds : \A i \in 1 .. Len(approvals[e]) :
        Cardinality(Overtaken(e, i)) + Cardinality(Late(approvals[e][i].at)) < Cardinality(Sessions)

OrderInv == IInv /\ StampsInv /\ OvertakingInv

\* The records committed since are some of a finite trail.
LEMMA OvertakenIsFinite ==
    ASSUME NEW e, NEW i \in Nat, Len(approvals[e]) \in Nat
    PROVE  IsFiniteSet(Overtaken(e, i)) /\ Cardinality(Overtaken(e, i)) \in Nat
<1>1. IsFiniteSet(i + 1 .. Len(approvals[e]))
  BY FS_Interval
<1>2. Overtaken(e, i) \subseteq i + 1 .. Len(approvals[e])
  BY DEF Overtaken
<1>3. IsFiniteSet(Overtaken(e, i))
  BY <1>1, <1>2, FS_Subset
<1> QED BY <1>3, FS_CardinalityType

\* The transactions that are still open are some of the sessions.
LEMMA LateIsFinite ==
    ASSUME NEW at
    PROVE  /\ IsFiniteSet(Late(at)) /\ Cardinality(Late(at)) \in Nat
           /\ Cardinality(Sessions) \in Nat
<1>1. Late(at) \subseteq Sessions
  BY DEF Late
<1>2. IsFiniteSet(Late(at))
  BY <1>1, SessionsAssumption, FS_Subset
<1> QED BY <1>2, SessionsAssumption, FS_CardinalityType

\* A step that commits nothing adds nobody to those who may overtake: a transaction that
\* begins is stamped with the clock.
LEMMA QuietOrder ==
    ASSUME OrderInv, IInv', UNCHANGED approvals, clock' >= clock, clock' \in Nat,
           \A s \in Sessions : \/ txn'[s] = txn[s] \/ txn'[s] = Idle
                               \/ txn'[s].at = clock
    PROVE  OrderInv'
<1>1. clock \in Nat /\ approvals \in [EntryIds -> Seq(Approval)]
  BY DEF OrderInv, IInv, TypeOK
<1>2. StampsInv'
  <2>1. ASSUME NEW e \in EntryIds, NEW i \in 1 .. Len(approvals[e])
        PROVE  approvals[e][i].at \in Nat /\ approvals[e][i].at <= clock'
    BY <1>1 DEF OrderInv, StampsInv
  <2>2. ASSUME NEW s \in Sessions, txn'[s] # Idle
        PROVE  txn'[s].at \in Nat /\ txn'[s].at <= clock'
    BY <1>1, <2>2 DEF OrderInv, StampsInv
  <2> QED BY <2>1, <2>2 DEF StampsInv
<1>3. ASSUME NEW e \in EntryIds, NEW i \in 1 .. Len(approvals[e])
      PROVE  Cardinality(Overtaken(e, i)') + Cardinality(Late(approvals[e][i].at)') < Cardinality(Sessions)
  <2> DEFINE at == approvals[e][i].at
  <2>1. at \in Nat /\ at <= clock
    BY DEF OrderInv, StampsInv
  <2>2. Cardinality(Overtaken(e, i)) + Cardinality(Late(at)) < Cardinality(Sessions)
    BY DEF OrderInv, OvertakingInv
  <2> HIDE DEF at
  <2>3. Overtaken(e, i)' = Overtaken(e, i)
    BY DEF Overtaken
  <2>4. {s \in Sessions : txn'[s] # Idle /\ txn'[s].at < at} \subseteq Late(at)
    BY <1>1, <2>1 DEF Late
  <2>5. Len(approvals[e]) \in Nat
    BY <1>1
  <2>6. /\ IsFiniteSet(Late(at)) /\ Cardinality(Late(at)) \in Nat
        /\ Cardinality(Overtaken(e, i)) \in Nat /\ Cardinality(Sessions) \in Nat
    <3>1. IsFiniteSet(Late(at)) /\ Cardinality(Late(at)) \in Nat /\ Cardinality(Sessions) \in Nat
      BY LateIsFinite
    <3>2. Cardinality(Overtaken(e, i)) \in Nat
      BY <2>5, OvertakenIsFinite
    <3> QED BY <3>1, <3>2
  <2> DEFINE new == {s \in Sessions : txn'[s] # Idle /\ txn'[s].at < at}
  <2>7. Cardinality(new) <= Cardinality(Late(at)) /\ Cardinality(new) \in Nat
    <3> HIDE DEF new
    <3> QED BY <2>4, <2>6, FS_Subset, FS_CardinalityType DEF new
  <2>8. Late(approvals[e][i].at)' = new
    BY DEF Late, at
  <2> HIDE DEF new
  <2> QED BY <2>2, <2>3, <2>6, <2>7, <2>8
<1>4. OvertakingInv'
  BY <1>3 DEF OvertakingInv
<1> QED BY <1>2, <1>4 DEF OrderInv

\* The session that commits is no longer among those that may overtake; its own record can
\* be overtaken by the other sessions only.
LEMMA CommitOrder ==
    ASSUME OrderInv, IInv', NEW s \in Sessions, Commit(s)
    PROVE  OrderInv'
<1>a. txn[s] \in Txn /\ txn[s] # Idle
  BY DEF Commit, OrderInv, IInv, TypeOK
<1>b. PICK t \in Txn : t = txn[s]
  BY <1>a
<1>c. PICK e \in EntryIds : e = t.entry
  BY DEF Txn
<1> DEFINE r == ApprovalOf(t)
<1>1. /\ t.at \in Nat /\ t.at <= clock /\ clock \in Nat
      /\ r.at = t.at
  BY <1>a, <1>b DEF OrderInv, IInv, TypeOK, Txn, StampsInv, ApprovalOf
<1>2. /\ clock' = clock /\ txn' = [txn EXCEPT ![s] = Idle]
      /\ approvals' = [approvals EXCEPT ![e] = @ \o Recorded(t)]
      /\ approvals \in [EntryIds -> Seq(Approval)]
      /\ txn'[s] = Idle /\ \A q \in Sessions \ {s} : txn'[q] = txn[q]
  BY <1>b, <1>c DEF Commit, OrderInv, IInv, TypeOK
<1>3. \/ approvals' = approvals
      \/ /\ \A x \in EntryIds : x # e => approvals'[x] = approvals[x]
         /\ approvals'[e] = approvals[e] \o <<r>>
  <2>1. approvals' = [approvals EXCEPT ![e] = @ \o <<r>>] \/ approvals' = [approvals EXCEPT ![e] = @ \o <<>>]
    BY <1>2 DEF Recorded
  <2>2. approvals[e] \in Seq(Approval)
    BY <1>1, <1>2
  <2>3. approvals[e] \o <<>> = approvals[e]
    BY <2>2
  <2> HIDE DEF r
  <2> QED BY <1>2, <2>1, <2>3
<1>4. CASE approvals' = approvals
  <2>1. /\ UNCHANGED approvals /\ clock' >= clock /\ clock' \in Nat
        /\ \A q \in Sessions : txn'[q] = txn[q] \/ txn'[q] = Idle \/ txn'[q].at = clock
    BY <1>1, <1>2, <1>4
  <2> QED BY <2>1, QuietOrder
<1>5. CASE /\ \A x \in EntryIds : x # e => approvals'[x] = approvals[x]
           /\ approvals'[e] = approvals[e] \o <<r>>
  <2> DEFINE n == Len(approvals[e])
  <2>1. /\ n \in Nat /\ Len(approvals'[e]) = n + 1
        /\ \A i \in 1 .. n : approvals'[e][i] = approvals[e][i]
        /\ approvals'[e][n + 1] = r
    <3>1. approvals[e] \in Seq(Approval)
      BY <1>1, <1>2
    <3> HIDE DEF r
    <3> QED BY <1>5, <3>1
  <2> HIDE DEF n
  <2>2. StampsInv'
    <3>1. ASSUME NEW x \in EntryIds, NEW i \in 1 .. Len(approvals'[x])
          PROVE  approvals'[x][i].at \in Nat /\ approvals'[x][i].at <= clock
      <4>1. CASE x # e
        BY <1>5, <4>1 DEF OrderInv, StampsInv
      <4>2. CASE x = e /\ i \in 1 .. n
        BY <2>1, <4>2 DEF OrderInv, StampsInv, n
      <4>3. CASE x = e /\ i = n + 1
        BY <1>1, <2>1, <4>3
      <4> QED BY <2>1, <4>1, <4>2, <4>3
    <3>2. ASSUME NEW q \in Sessions, txn'[q] # Idle PROVE txn'[q].at \in Nat /\ txn'[q].at <= clock
      BY <1>2, <3>2 DEF OrderInv, StampsInv
    <3> QED BY <1>2, <3>1, <3>2 DEF StampsInv
  <2>3. ASSUME NEW at \in Nat
        PROVE  /\ Late(at)' \subseteq Late(at) \ {s}
               /\ Cardinality(Late(at)') \in Nat /\ Cardinality(Late(at)') <= Cardinality(Late(at))
               /\ Cardinality(Late(at)) \in Nat
               /\ t.at < at => Cardinality(Late(at)') <= Cardinality(Late(at)) - 1
    <3> DEFINE new == {q \in Sessions : txn'[q] # Idle /\ txn'[q].at < at}
    <3>1. new \subseteq Late(at) \ {s}
      BY <1>2 DEF Late
    <3>2. IsFiniteSet(Late(at)) /\ Cardinality(Late(at)) \in Nat
      BY SessionsAssumption, FS_Subset, FS_CardinalityType DEF Late
    <3>3. t.at < at => s \in Late(at)
      BY <1>a, <1>b DEF Late
    <3> HIDE DEF new
    <3>a. PICK old : old = Late(at)
      OBVIOUS
    <3>b. /\ IsFiniteSet(old \ {s})
          /\ Cardinality(old \ {s}) = IF s \in old THEN Cardinality(old) - 1 ELSE Cardinality(old)
      BY <3>2, <3>a, FS_RemoveElement
    <3>4. /\ IsFiniteSet(Late(at) \ {s})
          /\ Cardinality(Late(at) \ {s}) <= Cardinality(Late(at))
          /\ s \in Late(at) => Cardinality(Late(at) \ {s}) = Cardinality(Late(at)) - 1
      BY <3>2, <3>a, <3>b
    <3>5. Cardinality(new) <= Cardinality(Late(at) \ {s}) /\ Cardinality(new) \in Nat
      BY <3>1, <3>4, FS_Subset, FS_CardinalityType
    <3>6. Late(at)' = new
      BY DEF Late, new
    <3>7. Cardinality(Late(at) \ {s}) \in Nat
      BY <3>4, FS_CardinalityType
    <3> QED BY <3>1, <3>2, <3>3, <3>4, <3>5, <3>6, <3>7
  <2>4. ASSUME NEW x \in EntryIds, NEW i \in 1 .. Len(approvals'[x])
        PROVE  Cardinality(Overtaken(x, i)') + Cardinality(Late(approvals[x][i].at)') < Cardinality(Sessions)
    <3>0. Cardinality(Sessions) \in Nat
      BY SessionsAssumption, FS_CardinalityType
    <3>1. CASE x # e
      <4>0. PICK at : at = approvals[x][i].at
        OBVIOUS
      <4>1. approvals'[x] = approvals[x] /\ at \in Nat /\ Len(approvals[x]) \in Nat
        BY <1>2, <1>5, <3>1, <4>0 DEF OrderInv, StampsInv
      <4>2. Cardinality(Overtaken(x, i)) + Cardinality(Late(at)) < Cardinality(Sessions)
        BY <4>0, <4>1 DEF OrderInv, OvertakingInv
      <4>3. Overtaken(x, i)' = Overtaken(x, i)
        BY <4>1 DEF Overtaken
      <4>4. Cardinality(Overtaken(x, i)) \in Nat
        BY <4>1, OvertakenIsFinite
      <4>5. Late(approvals[x][i].at)' = Late(at)'
        BY <4>0, <4>1
      <4>6. /\ Cardinality(Late(at)') <= Cardinality(Late(at))
            /\ Cardinality(Late(at)) \in Nat /\ Cardinality(Late(at)') \in Nat
        BY <2>3, <4>1
      <4> QED BY <3>0, <4>2, <4>3, <4>4, <4>5, <4>6
    <3>2. CASE x = e /\ i \in 1 .. n
      <4>0. PICK at : at = approvals[e][i].at
        OBVIOUS
      <4>0a. PICK old : old = Overtaken(e, i)
        OBVIOUS
      <4>1. at \in Nat /\ approvals'[e][i].at = at /\ i \in Nat
        BY <2>1, <3>2, <4>0 DEF OrderInv, StampsInv, n
      <4>2. Cardinality(old) + Cardinality(Late(at)) < Cardinality(Sessions)
        BY <3>2, <4>0, <4>0a DEF OrderInv, OvertakingInv, n
      <4>3. IsFiniteSet(old) /\ Cardinality(old) \in Nat
        BY <2>1, <4>0a, <4>1, OvertakenIsFinite DEF n
      <4>4. Overtaken(e, i)' = {j \in i + 1 .. n + 1 : approvals'[e][j].at < at}
        BY <2>1, <4>1 DEF Overtaken
      <4>5. old = {j \in i + 1 .. n : approvals[e][j].at < at}
        BY <4>0, <4>0a DEF Overtaken, n
      <4>6. {j \in i + 1 .. n : approvals'[e][j].at < at} = old
        <5>1. \A j \in i + 1 .. n : approvals'[e][j] = approvals[e][j]
          BY <2>1, <4>1
        <5> QED BY <4>5, <5>1
      <4> HIDE DEF r
      <4>7. CASE r.at < at
        <5>1. Overtaken(e, i)' = old \cup {n + 1}
          BY <2>1, <3>2, <4>4, <4>6, <4>7
        <5>2. Cardinality(old \cup {n + 1}) \in Nat /\ Cardinality(old \cup {n + 1}) <= Cardinality(old) + 1
          <6>1. /\ IsFiniteSet(old \cup {n + 1})
                /\ Cardinality(old \cup {n + 1}) = IF n + 1 \in old THEN Cardinality(old) ELSE Cardinality(old) + 1
            BY <4>3, FS_AddElement
          <6> QED BY <4>3, <6>1
        <5>3. /\ Cardinality(Late(at)') <= Cardinality(Late(at)) - 1
              /\ Cardinality(Late(at)) \in Nat /\ Cardinality(Late(at)') \in Nat
          BY <1>1, <2>3, <4>1, <4>7
        <5>4. Late(approvals[x][i].at)' = Late(at)'
          BY <3>2, <4>1
        <5>5. Overtaken(x, i)' = Overtaken(e, i)'
          BY <3>2
        <5> QED BY <3>0, <4>2, <4>3, <5>1, <5>2, <5>3, <5>4, <5>5
      <4>8. CASE ~(r.at < at)
        <5>1. Overtaken(e, i)' = old
          BY <2>1, <3>2, <4>4, <4>6, <4>8
        <5>2. /\ Cardinality(Late(at)') <= Cardinality(Late(at))
              /\ Cardinality(Late(at)) \in Nat /\ Cardinality(Late(at)') \in Nat
          BY <2>3, <4>1
        <5>3. Late(approvals[x][i].at)' = Late(at)'
          BY <3>2, <4>1
        <5>4. Overtaken(x, i)' = Overtaken(e, i)'
          BY <3>2
        <5> QED BY <3>0, <4>2, <4>3, <5>1, <5>2, <5>3, <5>4
      <4> QED BY <4>7, <4>8
    <3>3. CASE x = e /\ i = n + 1
      <4>1. Overtaken(x, i)' = {}
        BY <2>1, <3>3 DEF Overtaken
      <4>2. Cardinality({}) = 0
        BY FS_EmptySet
      <4>3. approvals'[x][i].at \in Nat
        BY <1>1, <2>1, <3>3
      <4>4. Late(approvals[x][i].at)' \subseteq Sessions \ {s}
        BY <1>2 DEF Late
      <4>5. IsFiniteSet(Sessions \ {s}) /\ Cardinality(Sessions \ {s}) = Cardinality(Sessions) - 1
        BY SessionsAssumption, FS_RemoveElement
      <4>6. Cardinality(Late(approvals[x][i].at)') <= Cardinality(Sessions) - 1
        BY <4>4, <4>5, FS_Subset
      <4>7. Cardinality(Late(approvals[x][i].at)') \in Nat
        BY <4>4, <4>5, FS_Subset, FS_CardinalityType
      <4> QED BY <3>0, <4>1, <4>2, <4>6, <4>7
    <3>4. x # e \/ (x = e /\ i \in 1 .. n) \/ (x = e /\ i = n + 1)
      <4> QED BY <2>1
    <3> QED BY <3>1, <3>2, <3>3, <3>4
  <2>5. OvertakingInv'
    BY <2>4 DEF OvertakingInv
  <2> QED BY <2>2, <2>5 DEF OrderInv
<1> QED BY <1>3, <1>4, <1>5

\* Every step keeps the order of the stamps: commits by CommitOrder, all others by QuietOrder.
LEMMA OrderStep == OrderInv /\ [Next]_vars => OrderInv'
<1> SUFFICES ASSUME OrderInv, [Next]_vars PROVE OrderInv'
  OBVIOUS
<1>0. /\ clock \in Nat /\ txn \in [Sessions -> Txn \cup {Idle}]
      /\ IInv'
  BY NextIInv DEF OrderInv, IInv, TypeOK
<1>1. ASSUME NEW ctx \in Contexts, NEW e \in EntryIds, NEW d \in Durations, CreateEntry(ctx, e, d)
      PROVE  OrderInv'
  BY <1>0, <1>1, QuietOrder DEF CreateEntry
<1>2. ASSUME NEW s \in Sessions, NEW ctx \in Contexts, NEW e \in EntryIds, Request(s, ctx, e)
      PROVE  OrderInv'
  <2>1. PICK op, row : Open(s, op, ctx, e, row)
    BY <1>2 DEF Request, UpdateEntry, DeleteEntry, StartTimer, StopTimer, SubmitEntry,
                ApproveEntry, RejectEntry
  <2>2. UNCHANGED <<approvals, clock>>
    BY <2>1 DEF Open
  <2>3. \A q \in Sessions : txn'[q] = txn[q] \/ txn'[q].at = clock
    BY <1>0, <2>1 DEF Open
  <2> QED BY <1>0, <2>2, <2>3, QuietOrder
<1>3. ASSUME NEW s \in Sessions, Commit(s) PROVE OrderInv'
  BY <1>0, <1>3, CommitOrder
<1>4. ASSUME NEW s \in Sessions, Rollback(s) PROVE OrderInv'
  BY <1>0, <1>4, QuietOrder DEF Rollback
<1>5. CASE Tick
  BY <1>0, <1>5, QuietOrder DEF Tick
<1>6. CASE UNCHANGED vars
  BY <1>0, <1>6, QuietOrder DEF vars
<1> QED BY <1>1, <1>2, <1>3, <1>4, <1>5, <1>6 DEF Next

\* However many requests overlap, a record of a trail is overtaken in created_at by fewer
\* later ones than there are sessions: with one session the stamps are in order.
THEOREM TrailDisorderIsBoundedAlways == Spec => []TrailDisorderIsBounded
<1>1. Init => OrderInv
  <2> SUFFICES ASSUME Init PROVE OrderInv
    OBVIOUS
  <2>1. \A e \in EntryIds : approvals[e] = <<>> /\ 1 .. Len(approvals[e]) = {}
    BY DEF Init
  <2>2. StampsInv /\ OvertakingInv
    BY <2>1 DEF Init, StampsInv, OvertakingInv
  <2> QED BY <2>2, InitIInv DEF OrderInv
<1>2. OrderInv => TrailDisorderIsBounded
  <2> SUFFICES ASSUME OrderInv, NEW e \in EntryIds, NEW i \in 1 .. Len(approvals[e])
               PROVE  Cardinality(Overtaken(e, i)) < Cardinality(Sessions)
    BY DEF TrailDisorderIsBounded
  <2>1. Cardinality(Overtaken(e, i)) + Cardinality(Late(approvals[e][i].at)) < Cardinality(Sessions)
    BY DEF OrderInv, OvertakingInv
  <2>2. approvals[e] \in Seq(Approval)
    BY DEF OrderInv, IInv, TypeOK
  <2>3. Len(approvals[e]) \in Nat /\ i \in Nat
    BY <2>2
  <2>4. /\ Cardinality(Overtaken(e, i)) \in Nat /\ Cardinality(Late(approvals[e][i].at)) \in Nat
        /\ Cardinality(Sessions) \in Nat
    BY <2>3, OvertakenIsFinite, LateIsFinite
  <2> QED BY <2>1, <2>4
<1> QED BY <1>1, <1>2, OrderStep, PTL DEF Spec

-----------------------------------------------------------------------------
(* Requests one after the other *)

\* An open request holds the row as it still is, and has read it as the handler demands.
SerialTxn(t) ==
    /\ t.seen = entries[t.entry] /\ ~t.seen.deleted
    /\ t.row.deleted <=> t.op = "delete"
    /\ t.op \in {"delete", "submit"} => t.seen.status = "draft"
    /\ t.op \in {"approve", "reject"} => t.seen.status = "submitted"
    /\ t.op = "approve" => t.row.status = "approved"
    /\ t.op = "reject" => t.row.status = "rejected"

OneAtATime == \A s, q \in Sessions : txn[s] # Idle /\ txn[q] # Idle => s = q

SerialInv ==
    /\ OneAtATime
    /\ \A s \in Sessions : txn[s] # Idle => SerialTxn(txn[s])

MCInv == IInv /\ (atOnce = 1 => SerialInv)

\* With at most one open request, any two are the same.
LEMMA AtMostOne ==
    ASSUME Cardinality({s \in Sessions : txn'[s] # Idle}) <= 1
    PROVE  OneAtATime'
<1> DEFINE S == {s \in Sessions : txn'[s] # Idle}
<1>1. IsFiniteSet(S) /\ Cardinality(S) <= 1
  BY SessionsAssumption, FS_Subset
<1>2. ASSUME NEW s \in S, NEW q \in S, s # q PROVE FALSE
  <2> HIDE DEF S
  <2>1. Cardinality({s, q}) = 2 /\ {s, q} \subseteq S
    <3>1. IsFiniteSet({s}) /\ Cardinality({s}) = 1
      BY FS_Singleton
    <3>2. {s, q} = {s} \cup {q} /\ q \notin {s}
      BY <1>2
    <3>3. Cardinality({s} \cup {q}) = 2
      <4>1. Cardinality({s} \cup {q}) = Cardinality({s}) + 1
        BY <3>1, <3>2, FS_AddElement
      <4> QED BY <3>1, <4>1
    <3>4. Cardinality({s, q}) = 2
      BY <3>2, <3>3
    <3>5. {s, q} \subseteq S
      OBVIOUS
    <3> QED BY <3>4, <3>5
  <2>2. Cardinality({s, q}) <= Cardinality(S) /\ Cardinality(S) \in Nat
    BY <1>1, <2>1, FS_Subset, FS_CardinalityType
  <2> QED BY <1>1, <2>1, <2>2
<1> QED BY <1>2 DEF OneAtATime

\* What each handler has checked and assigned when its transaction is open.
Assigned(op, e, row) ==
    /\ row.deleted <=> op = "delete"
    /\ op \in {"delete", "submit"} => entries[e].status = "draft"
    /\ op \in {"approve", "reject"} => entries[e].status = "submitted"
    /\ op = "approve" => row.status = "approved"
    /\ op = "reject" => row.status = "rejected"

\* Every handler opens its transaction so.
LEMMA RequestFacts ==
    ASSUME IInv, NEW s \in Sessions, NEW ctx \in Contexts, NEW e \in EntryIds, Request(s, ctx, e)
    PROVE  \E op, row : op \in Ops /\ Open(s, op, ctx, e, row) /\ GetEntry(ctx, e) /\ Assigned(op, e, row)
<1> DEFINE Opened(op, row) ==
               op \in Ops /\ Open(s, op, ctx, e, row) /\ GetEntry(ctx, e) /\ Assigned(op, e, row)
<1> SUFFICES \E op, row : Opened(op, row)
  OBVIOUS
<1>0. GetEntry(ctx, e) => entries[e] \in Row /\ ~entries[e].deleted
  BY DEF GetEntry, IInv, TypeOK
<1>1. ASSUME NEW d \in Durations, UpdateEntry(s, ctx, e, d)
      PROVE  Opened("update", [entries[e] EXCEPT !.duration = d])
  BY <1>0, <1>1 DEF UpdateEntry, Row, Assigned, Ops
<1>2. ASSUME DeleteEntry(s, ctx, e)
      PROVE  Opened("delete", [entries[e] EXCEPT !.deleted = TRUE])
  BY <1>0, <1>2 DEF DeleteEntry, Row, Assigned, Ops
<1>3. ASSUME StartTimer(s, ctx, e)
      PROVE  Opened("start", [entries[e] EXCEPT !.started = clock])
  BY <1>0, <1>3 DEF StartTimer, Row, Assigned, Ops
<1>4. ASSUME NEW t \in EndTimes \cup {clock}, StopTimer(s, ctx, e, t)
      PROVE  Opened("stop", [entries[e] EXCEPT !.ended = t, !.duration = Minutes(entries[e].started, t)])
  <2> DEFINE m == Minutes(entries[e].started, t)
             row == [entries[e] EXCEPT !.ended = t, !.duration = m]
  <2>1. GetEntry(ctx, e) /\ Open(s, "stop", ctx, e, row)
    BY <1>4 DEF StopTimer
  <2> HIDE DEF m
  <2>2. ~row.deleted
    BY <1>0, <2>1 DEF Row
  <2> HIDE DEF row
  <2>3. Opened("stop", row)
    BY <2>1, <2>2 DEF Assigned, Ops
  <2> QED BY <2>3 DEF row, m
<1>5. ASSUME SubmitEntry(s, ctx, e)
      PROVE  Opened("submit", [entries[e] EXCEPT !.status = "submitted"])
  BY <1>0, <1>5 DEF SubmitEntry, Row, Assigned, Ops, StatusOps
<1>6. ASSUME ApproveEntry(s, ctx, e)
      PROVE  Opened("approve", [entries[e] EXCEPT !.status = "approved"])
  BY <1>0, <1>6 DEF ApproveEntry, Row, Assigned, Ops, StatusOps
<1>7. ASSUME RejectEntry(s, ctx, e)
      PROVE  Opened("reject", [entries[e] EXCEPT !.status = "rejected"])
  BY <1>0, <1>7 DEF RejectEntry, Row, Assigned, Ops, StatusOps
<1> HIDE DEF Opened
<1> QED BY <1>1, <1>2, <1>3, <1>4, <1>5, <1>6, <1>7 DEF Request

\* A request that opens its transaction alone has read what is there.
LEMMA OpenSerial ==
    ASSUME IInv, SerialInv, OneAtATime', NEW s \in Sessions, NEW op \in Ops, NEW ctx, NEW e \in EntryIds,
           NEW row, Open(s, op, ctx, e, row), GetEntry(ctx, e), Assigned(op, e, row)
    PROVE  SerialInv'
<1> DEFINE new == [op |-> op, ctx |-> ctx, entry |-> e, seen |-> entries[e],
                   row |-> row, at |-> clock]
<1>1. /\ UNCHANGED <<entries, approvals, clock>> /\ clock \in Nat
      /\ txn'[s] = new
  BY DEF Open, IInv, TypeOK
<1>2. SerialTxn(txn[s])'
  BY <1>1 DEF SerialTxn, Assigned, SerialInv, GetEntry
<1> HIDE DEF new
<1>3. \A q \in Sessions : txn'[q] # Idle => SerialTxn(txn[q])'
  <2> SUFFICES ASSUME NEW q \in Sessions, txn'[q] # Idle PROVE SerialTxn(txn[q])'
    OBVIOUS
  <2>1. q = s \/ txn'[q] = txn[q]
    BY DEF Open, IInv, TypeOK
  <2>2. CASE q = s
    BY <1>1, <1>2, <2>2
  <2>3. CASE txn'[q] = txn[q]
    BY <1>1, <2>3 DEF SerialInv, SerialTxn
  <2> QED BY <2>1, <2>2, <2>3
<1> QED BY <1>3 DEF SerialInv

\* The row a commit leaves when nothing has changed since it was read.
LEMMA SerialFlush ==
    ASSUME NEW seen \in Row, NEW row
    PROVE  /\ Flush(seen, row, seen).status = row.status
           /\ Flush(seen, row, seen).deleted = row.deleted
BY DEF Flush, Column

\* A commit without overlap leaves no request open.
LEMMA CommitSerial ==
    ASSUME IInv, SerialInv, NEW s \in Sessions, Commit(s)
    PROVE  SerialInv'
<1>1. txn[s] # Idle /\ txn' = [txn EXCEPT ![s] = Idle]
  BY DEF Commit
<1>2. \A q \in Sessions : txn'[q] = Idle
  BY <1>1 DEF SerialInv, OneAtATime, IInv, TypeOK
<1> QED BY <1>2 DEF SerialInv, OneAtATime

\* A new draft, a rollback and the clock.
LEMMA OtherSerial ==
    ASSUME IInv, SerialInv,
           \A s \in Sessions : txn'[s] = txn[s] \/ txn'[s] = Idle,
           \A e \in EntryIds : entries'[e] = entries[e] \/ entries[e] = Unused
    PROVE  SerialInv'
<1>1. ASSUME NEW s \in Sessions, txn'[s] # Idle PROVE SerialTxn(txn[s])'
  <2>1. /\ txn'[s] = txn[s] /\ SerialTxn(txn[s]) /\ txn[s] \in Txn
        /\ entries[txn[s].entry] # Unused /\ txn[s].entry \in EntryIds
    BY <1>1 DEF SerialInv, IInv, TxnInv, TypeOK, Txn
  <2>2. entries'[txn[s].entry] = entries[txn[s].entry]
    BY <2>1
  <2> QED BY <2>1, <2>2 DEF SerialTxn
<1>2. OneAtATime'
  BY DEF SerialInv, OneAtATime
<1> QED BY <1>1, <1>2 DEF SerialInv

\* No step, one request at a time, breaks the serial invariant.
LEMMA SerialInvStep == MCInv /\ [MCNext]_mcVars => MCInv'
<1> SUFFICES ASSUME MCInv, [MCNext]_mcVars PROVE MCInv'
  OBVIOUS
<1>1. IInv'
  <2>1. [Next]_vars
    BY DEF MCNext, mcVars
  <2> QED BY <2>1, NextIInv DEF MCInv
<1>2. ASSUME atOnce' = 1 PROVE SerialInv'
  <2>1. SerialInv /\ atOnce = 1 /\ clock \in Nat /\ txn \in [Sessions -> Txn \cup {Idle}]
    BY <1>2 DEF MCNext, mcVars, MCInv, IInv, TypeOK
  <2>2. CASE UNCHANGED mcVars
    BY <2>1, <2>2, OtherSerial DEF mcVars, vars, MCInv
  <2>3. CASE MCNext
    <3>1. OneAtATime'
      <4>1. Cardinality({s \in Sessions : txn'[s] # Idle}) <= 1
        BY <2>1, <2>3 DEF MCNext
      <4> QED BY <4>1, AtMostOne
    <3>2. ASSUME NEW s \in Sessions, NEW ctx \in Contexts, NEW e \in EntryIds, Request(s, ctx, e)
          PROVE  SerialInv'
      <4>1. PICK op, row : op \in Ops /\ Open(s, op, ctx, e, row) /\ GetEntry(ctx, e) /\ Assigned(op, e, row)
        BY <3>2, RequestFacts DEF MCInv
      <4> QED BY <2>1, <3>1, <4>1, OpenSerial DEF MCInv
    <3>3. ASSUME NEW ctx \in Contexts, NEW e \in EntryIds, NEW d \in Durations, CreateEntry(ctx, e, d)
          PROVE  SerialInv'
      <4>1. /\ UNCHANGED <<approvals, txn, clock>>
            /\ \A x \in EntryIds : entries'[x] = entries[x] \/ entries[x] = Unused
        BY <3>3 DEF CreateEntry, MCInv, IInv, TypeOK
      <4> QED BY <2>1, <4>1, OtherSerial DEF MCInv
    <3>4. ASSUME NEW s \in Sessions, Rollback(s) PROVE SerialInv'
      <4>1. UNCHANGED <<entries, approvals, clock>> /\ \A q \in Sessions : txn'[q] = txn[q] \/ txn'[q] = Idle
        BY <2>1, <3>4 DEF Rollback
      <4> QED BY <2>1, <4>1, OtherSerial DEF MCInv
    <3>5. CASE Tick
      BY <2>1, <3>5, OtherSerial DEF Tick, MCInv
    <3>6. ASSUME NEW s \in Sessions, Commit(s) PROVE SerialInv'
      BY <2>1, <3>6, CommitSerial DEF MCInv
    <3> QED BY <2>3, <3>2, <3>3, <3>4, <3>5, <3>6 DEF MCNext, Next
  <2> QED BY <2>2, <2>3
<1> QED BY <1>1, <1>2 DEF MCInv

\* Requests one after the other keep both invariants.
LEMMA MCInductive == MCSpec => []MCInv
<1>1. MCInit => MCInv
  <2> SUFFICES ASSUME MCInit PROVE MCInv
    OBVIOUS
  <2>1. IInv
    BY InitIInv DEF MCInit
  <2>2. SerialInv
    BY DEF MCInit, Init, SerialInv, OneAtATime
  <2> QED BY <2>1, <2>2 DEF MCInv
<1> QED BY <1>1, SerialInvStep, PTL DEF MCSpec

-----------------------------------------------------------------------------
(* The workflow *)

\* Where an entry is in its life, and the actions of its trail.
PhaseOf(row) == IF row = Unused THEN "unused" ELSE IF row.deleted THEN "withdrawn" ELSE row.status
Actions(records) == [i \in 1 .. Len(records) |-> records[i].action]

\* The actions of a trail with one more record are those before and the record's.
LEMMA ActionsOfOneMore ==
    ASSUME NEW old \in Seq(Approval), NEW r \in Approval
    PROVE  Actions(old \o <<r>>) = Append(Actions(old), r.action)
<1> DEFINE new == old \o <<r>>
           n == Len(old)
           acts == Actions(old)
<1>1. n \in Nat /\ Len(new) = n + 1 /\ new[n + 1] = r /\ \A i \in 1 .. n : new[i] = old[i]
  BY AddRecord
<1>2. ASSUME NEW i \in 1 .. n PROVE old[i].action \in Statuses
  <2>1. old[i] \in Approval
    BY ElementOfSeq
  <2> QED BY <2>1 DEF Approval
<1>3. acts \in [1 .. n -> Statuses]
  BY <1>2 DEF Actions
<1>4. acts \in Seq(Statuses) /\ Len(acts) = n
  BY <1>1, <1>3
<1>5. r.action \in Statuses
  BY DEF Approval
<1> HIDE DEF new, acts
<1>6. Append(acts, r.action) = [i \in 1 .. n + 1 |-> Append(acts, r.action)[i]]
  BY <1>1, <1>4, <1>5, AppendProperties
<1>7. \A i \in 1 .. n + 1 : Append(acts, r.action)[i] = new[i].action
  <2> SUFFICES ASSUME NEW i \in 1 .. n + 1 PROVE Append(acts, r.action)[i] = new[i].action
    OBVIOUS
  <2>1. CASE i = n + 1
    BY <1>1, <1>4, <1>5, <2>1, AppendProperties
  <2>2. CASE i \in 1 .. n
    <3>1. Append(acts, r.action)[i] = acts[i]
      BY <1>4, <1>5, <2>2, AppendProperties
    <3>2. acts[i] = old[i].action
      BY <2>2 DEF acts, Actions
    <3> QED BY <1>1, <2>2, <3>1, <3>2
  <2>3. n \in Nat /\ i \in 1 .. n + 1
    BY <1>1
  <2>4. i = n + 1 \/ i \in 1 .. n
    <3> HIDE DEF n
    <3> QED BY <2>3
  <2> QED BY <2>1, <2>2, <2>4
<1>8. Actions(new) = [i \in 1 .. n + 1 |-> new[i].action]
  BY <1>1 DEF Actions
<1>9. Actions(new) = Append(acts, r.action)
  BY <1>6, <1>7, <1>8
<1> QED BY <1>9 DEF new, acts

\* Steps that change no entry's phase and no trail leave the workflow alone.
LEMMA WorkflowStutter ==
    ASSUME \A e \in EntryIds : PhaseOf(entries'[e]) = PhaseOf(entries[e]), UNCHANGED approvals
    PROVE  WorkflowStep
<1>1. /\ [e \in EntryIds |-> PhaseOf(entries'[e])] = [e \in EntryIds |-> PhaseOf(entries[e])]
      /\ [e \in EntryIds |-> Actions(approvals'[e])] = [e \in EntryIds |-> Actions(approvals[e])]
  OBVIOUS
<1>2. UNCHANGED Workflow!awVars
  BY <1>1 DEF Workflow!awVars, PhaseOf, Actions
<1> QED BY <1>2 DEF WorkflowStep

\* The phase of one entry changes, and its trail stays: a creation or a withdrawal.
LEMMA WorkflowPhase ==
    ASSUME NEW e \in EntryIds, UNCHANGED approvals,
           \A x \in EntryIds : x # e => entries'[x] = entries[x],
           \/ PhaseOf(entries[e]) = "unused" /\ PhaseOf(entries'[e]) = "draft"
           \/ PhaseOf(entries[e]) = "draft" /\ PhaseOf(entries'[e]) = "withdrawn"
    PROVE  WorkflowStep
<1> DEFINE ph == [x \in EntryIds |-> PhaseOf(entries[x])]
           ph2 == [x \in EntryIds |-> PhaseOf(entries'[x])]
           tr == [x \in EntryIds |-> Actions(approvals[x])]
           tr2 == [x \in EntryIds |-> Actions(approvals'[x])]
<1>1. tr2 = tr /\ ph2 = [ph EXCEPT ![e] = PhaseOf(entries'[e])] /\ ph[e] = PhaseOf(entries[e])
  OBVIOUS
<1>2. \/ /\ ph[e] = "unused" /\ ph2 = [ph EXCEPT ![e] = "draft"] /\ tr2 = tr
      \/ /\ ph[e] = "draft" /\ ph2 = [ph EXCEPT ![e] = "withdrawn"] /\ tr2 = tr
  BY <1>1
<1>3. Workflow!Create(e) \/ Workflow!Withdraw(e)
  BY <1>2 DEF Workflow!Create, Workflow!Withdraw, PhaseOf, Actions
<1> QED BY <1>3 DEF WorkflowStep, Workflow!Next

\* The phase of one entry moves along an arrow, and its trail gets the record.
LEMMA WorkflowTransition ==
    ASSUME NEW e \in EntryIds, NEW to, NEW r \in Approval, r.action = to, approvals[e] \in Seq(Approval),
           \A x \in EntryIds : x # e => entries'[x] = entries[x] /\ approvals'[x] = approvals[x],
           approvals'[e] = approvals[e] \o <<r>>, PhaseOf(entries'[e]) = to,
           <<PhaseOf(entries[e]), to>> \in
               {<<"draft", "submitted">>, <<"submitted", "approved">>, <<"submitted", "rejected">>}
    PROVE  WorkflowStep
<1> DEFINE ph == [x \in EntryIds |-> PhaseOf(entries[x])]
           ph2 == [x \in EntryIds |-> PhaseOf(entries'[x])]
           tr == [x \in EntryIds |-> Actions(approvals[x])]
           tr2 == [x \in EntryIds |-> Actions(approvals'[x])]
<1>1. ph2 = [ph EXCEPT ![e] = to] /\ ph[e] = PhaseOf(entries[e])
  OBVIOUS
<1>2. Actions(approvals'[e]) = Append(tr[e], to) /\ tr[e] = Actions(approvals[e])
  BY ActionsOfOneMore
<1>3. tr2 = [tr EXCEPT ![e] = Append(tr[e], to)]
  <2>1. tr2 = [tr EXCEPT ![e] = Actions(approvals'[e])]
    OBVIOUS
  <2> QED BY <1>2, <2>1
<1>4. ASSUME NEW from, PhaseOf(entries[e]) = from PROVE Workflow!Transition(e, from, to)
  <2>1. ph[e] = from /\ ph2 = [ph EXCEPT ![e] = to] /\ tr2 = [tr EXCEPT ![e] = Append(tr[e], to)]
    BY <1>1, <1>3, <1>4
  <2> QED BY <2>1 DEF Workflow!Transition, PhaseOf, Actions
<1>5. \/ Workflow!Transition(e, "draft", "submitted")
      \/ Workflow!Transition(e, "submitted", "approved")
      \/ Workflow!Transition(e, "submitted", "rejected")
  BY <1>4
<1> QED BY <1>5 DEF WorkflowStep, Workflow!Next

\* What a commit does to the workflow when nobody overtook its request.
LEMMA CommitWorkflow ==
    ASSUME IInv, SerialInv, NEW s \in Sessions, Commit(s)
    PROVE  WorkflowStep
<1> DEFINE t == txn[s]
           e == txn[s].entry
           r == ApprovalOf(txn[s])
           f == Flush(t.seen, t.row, entries[e])
<1>1. /\ t \in Txn /\ e \in EntryIds /\ t # Idle /\ SerialTxn(t)
      /\ t.ctx \in Contexts /\ t.row \in Row /\ t.op \in Ops /\ t.at \in Nat /\ t.seen \in Row
  BY DEF Commit, IInv, TypeOK, Txn, SerialInv
<1>2. /\ t.seen = entries[e] /\ ~t.seen.deleted /\ (t.row.deleted <=> t.op = "delete")
      /\ t.op \in {"delete", "submit"} => t.seen.status = "draft"
      /\ t.op \in {"approve", "reject"} => t.seen.status = "submitted"
      /\ t.op = "approve" => t.row.status = "approved"
      /\ t.op = "reject" => t.row.status = "rejected"
  BY <1>1 DEF SerialTxn
<1>3. /\ entries' = [entries EXCEPT ![e] = f] /\ entries'[e] = f
      /\ approvals \in [EntryIds -> Seq(Approval)]
      /\ approvals' = [approvals EXCEPT ![e] = @ \o Recorded(t)]
  BY <1>1 DEF Commit, IInv, TypeOK
<1>4. /\ t.op \in StatusOps => t.ctx.user \in Users
      /\ t.op \notin StatusOps => t.row.status = t.seen.status
      /\ t.op = "submit" => t.row.status = "submitted"
  BY <1>1 DEF IInv, TxnInv
<1>5. f.status = t.row.status /\ f.deleted = t.row.deleted /\ f # Unused
  <2>1. f.status = t.row.status /\ f.deleted = t.row.deleted
    BY <1>1, <1>2, SerialFlush
  <2>2. f \in Row
    BY <1>1, <1>2, FlushType
  <2> HIDE DEF f
  <2> QED BY <2>1, <2>2, UnusedIsNoRow
<1>6. t.op \in StatusOps => r \in Approval /\ r.action = t.row.status
  <2> SUFFICES ASSUME t.op \in StatusOps PROVE r \in Approval /\ r.action = t.row.status
    OBVIOUS
  <2>1. t.ctx.tenant \in Tenants /\ t.row.status \in Statuses
    BY <1>1, ContextsAssumption DEF Row
  <2> QED BY <1>1, <1>4, <2>1 DEF ApprovalOf, Approval
<1>7. /\ \A x \in EntryIds : x # e => entries'[x] = entries[x] /\ approvals'[x] = approvals[x]
      /\ approvals[e] \in Seq(Approval) /\ approvals'[e] = approvals[e] \o Recorded(t)
  BY <1>1, <1>3 DEF IInv, TypeOK
<1>8. Recorded(t) = IF t.op \in StatusOps THEN <<r>> ELSE <<>>
  BY DEF Recorded
<1>9. entries[e] # Unused /\ t.seen.status \in Statuses
  BY <1>1 DEF IInv, TxnInv, Row
<1> HIDE DEF t, e, r, f
<1>10. PhaseOf(entries[e]) = t.seen.status
  BY <1>2, <1>9 DEF PhaseOf
<1>11. PhaseOf(entries'[e]) = IF t.op = "delete" THEN "withdrawn" ELSE t.row.status
  BY <1>2, <1>3, <1>5 DEF PhaseOf
<1>12. CASE t.op \in StatusOps
  <2>1. <<PhaseOf(entries[e]), t.row.status>> \in
            {<<"draft", "submitted">>, <<"submitted", "approved">>, <<"submitted", "rejected">>}
    BY <1>2, <1>4, <1>10, <1>12 DEF StatusOps
  <2>2. PhaseOf(entries'[e]) = t.row.status /\ approvals'[e] = approvals[e] \o <<r>>
    BY <1>7, <1>8, <1>11, <1>12 DEF StatusOps
  <2> QED BY <1>1, <1>6, <1>7, <1>12, <2>1, <2>2, WorkflowTransition DEF e
<1>13. CASE t.op \notin StatusOps
  <2>1. approvals' = approvals
    <3>1. approvals'[e] = approvals[e]
      BY <1>7, <1>8, <1>13
    <3> QED BY <1>3, <1>7, <3>1
  <2>2. CASE t.op = "delete"
    BY <1>1, <1>2, <1>7, <1>10, <1>11, <2>1, <2>2, WorkflowPhase DEF e
  <2>3. CASE t.op # "delete"
    <3>1. PhaseOf(entries'[e]) = PhaseOf(entries[e])
      BY <1>4, <1>10, <1>11, <1>13, <2>3
    <3> QED BY <1>7, <2>1, <3>1, WorkflowStutter
  <2> QED BY <2>2, <2>3
<1> QED BY <1>12, <1>13

\* Every step of requests one after the other is a step of the workflow, or none.
LEMMA SerialStepsFollowTheWorkflow == MCInv /\ [MCNext]_mcVars => [atOnce = 1 => WorkflowStep]_mcVars
<1> SUFFICES ASSUME MCInv, MCNext, atOnce = 1 PROVE WorkflowStep
  <2>1. [MCNext]_mcVars => MCNext \/ UNCHANGED mcVars
    OBVIOUS
  <2> QED BY <2>1
<1>0. IInv /\ SerialInv
  BY DEF MCInv
<1>1. ASSUME NEW s \in Sessions, NEW ctx \in Contexts, NEW e \in EntryIds, Request(s, ctx, e)
      PROVE  WorkflowStep
  <2>1. PICK op, row : Open(s, op, ctx, e, row)
    BY <1>0, <1>1, RequestFacts
  <2>2. UNCHANGED <<entries, approvals>>
    BY <2>1 DEF Open
  <2> QED BY <2>2, WorkflowStutter
<1>2. ASSUME NEW ctx \in Contexts, NEW e \in EntryIds, NEW d \in Durations, CreateEntry(ctx, e, d)
      PROVE  WorkflowStep
  <2> DEFINE row == [tenant |-> ctx.tenant, user |-> ctx.user, status |-> "draft",
                     started |-> NoTime, ended |-> NoTime, duration |-> d, deleted |-> FALSE]
  <2>1. entries[e] = Unused /\ entries' = [entries EXCEPT ![e] = row] /\ UNCHANGED approvals
    BY <1>2 DEF CreateEntry
  <2>2. ~row.deleted /\ row.status = "draft" /\ row # Unused
    <3>1. ~row.deleted /\ row.status = "draft"
      OBVIOUS
    <3>2. Unused.status # "draft"
      BY DEF Unused
    <3> HIDE DEF row
    <3> QED BY <3>1, <3>2
  <2> HIDE DEF row
  <2>3. entries'[e] = row /\ \A x \in EntryIds : x # e => entries'[x] = entries[x]
    BY <1>0, <2>1 DEF IInv, TypeOK
  <2>4. PhaseOf(entries[e]) = "unused" /\ PhaseOf(entries'[e]) = "draft"
    BY <2>1, <2>2, <2>3 DEF PhaseOf
  <2> QED BY <2>1, <2>3, <2>4, WorkflowPhase
<1>3. ASSUME NEW s \in Sessions, Commit(s) PROVE WorkflowStep
  BY <1>0, <1>3, CommitWorkflow
<1>4. ASSUME NEW s \in Sessions, Rollback(s) PROVE WorkflowStep
  BY <1>4, WorkflowStutter DEF Rollback
<1>5. CASE Tick
  BY <1>5, WorkflowStutter DEF Tick
<1> QED BY <1>1, <1>2, <1>3, <1>4, <1>5 DEF MCNext, Next

\* Every request that runs alone takes its entry along one arrow of "draft -> submitted ->
\* approved | rejected" and leaves its record, or creates, edits or withdraws a draft: the
\* handlers implement ApprovalWorkflow, for any entries, callers and durations.
THEOREM SerialWorkflowAlways == MCSpec => SerialWorkflow
<1>1. MCInit => Workflow!Init
  <2> SUFFICES ASSUME Init PROVE Workflow!Init
    BY DEF MCInit
  <2>1. \A e \in EntryIds : entries[e] = Unused /\ approvals[e] = <<>>
    BY DEF Init
  <2>2. [e \in EntryIds |-> [i \in 1 .. Len(approvals[e]) |-> approvals[e][i].action]] = [e \in EntryIds |-> <<>>]
    BY <2>1
  <2> QED BY <2>1, <2>2 DEF Workflow!Init
<1>2. MCInv /\ [MCNext]_mcVars => [atOnce = 1 => WorkflowStep]_mcVars
  BY SerialStepsFollowTheWorkflow
<1> QED BY <1>1, <1>2, MCInductive, PTL DEF MCSpec, SerialWorkflow

=============================================================================
