--------------------------- MODULE ResourcesProofs ---------------------------
(***************************************************************************)
(* Proofs about the resources service: who decides on leave requests, and  *)
(* how far above 100 % an allocation can get, for every set of rows,       *)
(* people, dates and requests that overlap.                                *)
(***************************************************************************)
EXTENDS MCResources, Induction

-----------------------------------------------------------------------------
(* The state *)

\* A row is never the placeholder, nor a transaction the idle session.
LEMMA PlaceholdersDiffer ==
    /\ Unused \notin AllocRow /\ Unused \notin LeaveRow
    /\ \A t \in AllocTxn \cup LeaveTxn : t # Idle /\ t.op # "idle"
BY DEF Unused, AllocRow, LeaveRow, AllocTxn, LeaveTxn, Idle

\* A commit writes rows, column by column.
LEMMA FlushAlloc ==
    ASSUME NEW a \in AllocRow, NEW b \in AllocRow, NEW c \in AllocRow
    PROVE  /\ Flush(a, b, c) \in AllocRow
           /\ Flush(a, b, c).tenant = Column(a.tenant, b.tenant, c.tenant)
           /\ Flush(a, b, c).user = Column(a.user, b.user, c.user)
           /\ Flush(a, b, c).pct = Column(a.pct, b.pct, c.pct)
           /\ Flush(a, b, c).start = Column(a.start, b.start, c.start)
           /\ Flush(a, b, c).end = Column(a.end, b.end, c.end)
           /\ Flush(a, b, c).deleted = Column(a.deleted, b.deleted, c.deleted)
<1> DEFINE row == [tenant |-> Column(a.tenant, b.tenant, c.tenant),
                   user |-> Column(a.user, b.user, c.user),
                   pct |-> Column(a.pct, b.pct, c.pct),
                   start |-> Column(a.start, b.start, c.start),
                   end |-> Column(a.end, b.end, c.end),
                   deleted |-> Column(a.deleted, b.deleted, c.deleted)]
<1>1. Flush(a, b, c) = row
  BY DEF Flush, AllocRow
<1>2. row \in AllocRow
  BY DEF AllocRow, Column
<1> QED BY <1>1, <1>2

\* The same of leave requests.
LEMMA FlushLeave ==
    ASSUME NEW a \in LeaveRow, NEW b \in LeaveRow, NEW c \in LeaveRow
    PROVE  /\ Flush(a, b, c) \in LeaveRow
           /\ Flush(a, b, c).tenant = Column(a.tenant, b.tenant, c.tenant)
           /\ Flush(a, b, c).user = Column(a.user, b.user, c.user)
           /\ Flush(a, b, c).approver = Column(a.approver, b.approver, c.approver)
           /\ Flush(a, b, c).status = Column(a.status, b.status, c.status)
<1> DEFINE row == [tenant |-> Column(a.tenant, b.tenant, c.tenant),
                   user |-> Column(a.user, b.user, c.user),
                   approver |-> Column(a.approver, b.approver, c.approver),
                   status |-> Column(a.status, b.status, c.status)]
<1>1. Flush(a, b, c) = row
  BY DEF Flush, LeaveRow
<1>2. row \in LeaveRow
  BY DEF LeaveRow, Column
<1> QED BY <1>1, <1>2

\* What a PATCH leaves out, the row keeps.
LEMMA PatchedRow ==
    ASSUME NEW row \in AllocRow, NEW b \in UpdateBodies
    PROVE  [row EXCEPT !.pct = Given(b.pct, @), !.end = Given(b.end, @)] \in AllocRow
<1>1. b.pct \in 0 .. 100 \cup {None} /\ b.end \in Days \cup {None}
  BY BodiesAssumption DEF Patch
<1>2. Given(b.pct, row.pct) \in 0 .. 100 /\ Given(b.end, row.end) \in Days \cup {None}
  BY <1>1 DEF Given, AllocRow
<1> QED BY <1>2 DEF AllocRow

\* An end date, or the lack of one, is a number.
LEMMA EndType ==
    ASSUME NEW row \in AllocRow
    PROVE  row.end \in Int
<1>1. \A d \in Days \cup {None} : d \in Int
  BY DaysAssumption DEF None
<1>2. row.end \in Days \cup {None}
  BY DEF AllocRow
<1> QED BY <1>1, <1>2

\* The state is of its type in every reachable state.
LEMMA InitType == Init => TypeOK
BY DEF Init, TypeOK

\* Who calls is a user of a tenant.
LEMMA CallerType ==
    ASSUME NEW ctx \in Contexts
    PROVE  ctx.tenant \in Tenants /\ ctx.user \in Users
BY ContextsAssumption

\* Opening a transaction of its type keeps the type of the state.
LEMMA OpenType ==
    ASSUME TypeOK, NEW s \in Sessions, NEW op, NEW id, NEW seen, NEW row,
           Open(s, op, id, seen, row),
           [op |-> op, id |-> id, seen |-> seen, row |-> row] \in AllocTxn \cup LeaveTxn
    PROVE  /\ TypeOK' /\ txn[s] = Idle /\ allocs' = allocs /\ leaves' = leaves
           /\ txn'[s] \in AllocTxn \cup LeaveTxn
           /\ txn'[s].op = op /\ txn'[s].id = id /\ txn'[s].seen = seen /\ txn'[s].row = row
           /\ \A r \in Sessions \ {s} : txn'[r] = txn[r]
<1> DEFINE t == [op |-> op, id |-> id, seen |-> seen, row |-> row]
<1>1. t.op = op /\ t.id = id /\ t.seen = seen /\ t.row = row
  OBVIOUS
<1>2. t \in AllocTxn \cup LeaveTxn
  OBVIOUS
<1>3. txn[s] = Idle /\ txn' = [txn EXCEPT ![s] = t] /\ allocs' = allocs /\ leaves' = leaves
  BY DEF Open
<1> HIDE DEF t
<1>4. txn'[s] = t /\ \A r \in Sessions \ {s} : txn'[r] = txn[r]
  BY <1>3 DEF TypeOK
<1>5. TypeOK'
  BY <1>2, <1>3 DEF TypeOK
<1> QED BY <1>1, <1>2, <1>3, <1>4, <1>5

\* A manager of the tenant took the decision.
Decider(tenant, approver) ==
    \E ctx \in Contexts : ctx.user = approver /\ ctx.tenant = tenant /\ IsManager(ctx)

\* What a handler has read and assigned when it opens its transaction.
OpensCreate(t) ==
    /\ t \in AllocTxn /\ t.op = "create" /\ allocs[t.id] = Unused /\ t.row = t.seen
    /\ \A r \in Sessions : txn[r] # Idle => txn[r].id # t.id
    /\ CheckOverAllocation(t.row.tenant, t.row, {})

OpensChange(t) ==
    /\ t \in AllocTxn /\ t.op \in {"check", "update", "delete"}
    /\ allocs[t.id] # Unused /\ allocs[t.id] = t.seen
    /\ t.row.tenant = t.seen.tenant /\ t.row.user = t.seen.user /\ t.row.start = t.seen.start
    /\ t.op # "delete" => t.row.deleted = t.seen.deleted
    /\ t.op = "delete" => t.row.pct = t.seen.pct /\ t.row.end = t.seen.end /\ t.row.deleted
    /\ t.op = "update" => t.row.pct = t.seen.pct

OpensLeave(t) ==
    /\ t \in LeaveTxn /\ t.op = "leave"
    /\ leaves[t.id] # Unused /\ leaves[t.id] = t.seen
    /\ t.row.tenant = t.seen.tenant /\ t.row.user = t.seen.user
    /\ Decider(t.seen.tenant, t.row.approver)

\* Every handler opens its transaction on what it has read.
LEMMA RequestOpens ==
    ASSUME TypeOK, NEW s \in Sessions, NEW ctx \in Contexts, Request(s, ctx)
    PROVE  /\ TypeOK' /\ txn[s] = Idle /\ allocs' = allocs /\ leaves' = leaves
           /\ txn'[s] # Idle /\ \A r \in Sessions \ {s} : txn'[r] = txn[r]
           /\ OpensCreate(txn'[s]) \/ OpensChange(txn'[s]) \/ OpensLeave(txn'[s])
<1> DEFINE Goal == /\ TypeOK' /\ txn[s] = Idle /\ allocs' = allocs /\ leaves' = leaves
                   /\ txn'[s] # Idle /\ \A r \in Sessions \ {s} : txn'[r] = txn[r]
                   /\ OpensCreate(txn'[s]) \/ OpensChange(txn'[s]) \/ OpensLeave(txn'[s])
<1>1. ASSUME NEW a \in AllocIds, NEW b \in CreateBodies, CreateAllocation(s, ctx, a, b)
      PROVE  Goal
  <2> DEFINE row == [tenant |-> ctx.tenant, user |-> b.user, pct |-> b.pct,
                     start |-> b.start, end |-> b.end, deleted |-> FALSE]
             t == [op |-> "create", id |-> a, seen |-> row, row |-> row]
  <2>1. /\ allocs[a] = Unused /\ \A r \in Sessions : txn[r] # Idle => txn[r].id # a
        /\ CheckOverAllocation(ctx.tenant, row, {}) /\ Open(s, "create", a, row, row)
    BY <1>1 DEF CreateAllocation
  <2>2. row \in AllocRow /\ row.tenant = ctx.tenant
    BY CallerType, BodiesAssumption DEF AllocRow, Body
  <2> HIDE DEF row
  <2>3. t \in AllocTxn
    BY <2>2 DEF AllocTxn
  <2>4. [op |-> "create", id |-> a, seen |-> row, row |-> row] \in AllocTxn \cup LeaveTxn
    BY <2>3
  <2>5. /\ TypeOK' /\ txn[s] = Idle /\ allocs' = allocs /\ leaves' = leaves
        /\ txn'[s] \in AllocTxn \cup LeaveTxn
        /\ txn'[s].op = "create" /\ txn'[s].id = a /\ txn'[s].seen = row /\ txn'[s].row = row
        /\ \A r \in Sessions \ {s} : txn'[r] = txn[r]
    BY <2>1, <2>4, OpenType
  <2>6. txn'[s] \in AllocTxn
    BY <2>5 DEF AllocTxn, LeaveTxn
  <2>7. OpensCreate(txn'[s])
    BY <2>1, <2>2, <2>5, <2>6 DEF OpensCreate
  <2> QED BY <2>5, <2>7, PlaceholdersDiffer
<1>2. ASSUME NEW a \in AllocIds, NEW b \in UpdateBodies, UpdateAllocation(s, ctx, a, b)
      PROVE  Goal
  <2> DEFINE op == IF b.pct = None THEN "update" ELSE "check"
             seen == allocs[a]
             row == [seen EXCEPT !.pct = Given(b.pct, @), !.end = Given(b.end, @)]
  <2>1. allocs[a] # Unused /\ Open(s, op, a, seen, row)
    BY <1>2 DEF UpdateAllocation, FindAlloc
  <2>2. seen \in AllocRow
    BY <2>1 DEF TypeOK
  <2> HIDE DEF seen
  <2>3. row \in AllocRow
    BY <2>2, PatchedRow
  <2>4. /\ row.tenant = seen.tenant /\ row.user = seen.user /\ row.start = seen.start
        /\ row.deleted = seen.deleted
        /\ op = "update" => row.pct = seen.pct
    BY <2>2 DEF AllocRow, Given
  <2>5. op \in {"check", "update"} /\ (op = "update" => b.pct = None)
    OBVIOUS
  <2> HIDE DEF row, op
  <2>6. [op |-> op, id |-> a, seen |-> seen, row |-> row] \in AllocTxn
    BY <2>2, <2>3, <2>5 DEF AllocTxn
  <2>7. [op |-> op, id |-> a, seen |-> seen, row |-> row] \in AllocTxn \cup LeaveTxn
    BY <2>6
  <2>8. /\ TypeOK' /\ txn[s] = Idle /\ allocs' = allocs /\ leaves' = leaves
        /\ txn'[s] \in AllocTxn \cup LeaveTxn
        /\ txn'[s].op = op /\ txn'[s].id = a /\ txn'[s].seen = seen /\ txn'[s].row = row
        /\ \A r \in Sessions \ {s} : txn'[r] = txn[r]
    BY <2>1, <2>7, OpenType
  <2>9. txn'[s] \in AllocTxn
    BY <2>5, <2>8 DEF AllocTxn, LeaveTxn
  <2>10. OpensChange(txn'[s])
    BY <2>1, <2>4, <2>5, <2>8, <2>9 DEF OpensChange, seen
  <2> QED BY <2>8, <2>10, PlaceholdersDiffer
<1>3. ASSUME NEW a \in AllocIds, DeleteAllocation(s, ctx, a)
      PROVE  Goal
  <2> DEFINE seen == allocs[a]  row == [seen EXCEPT !.deleted = TRUE]
  <2>1. allocs[a] # Unused /\ Open(s, "delete", a, seen, row)
    BY <1>3 DEF DeleteAllocation, FindAlloc
  <2>2. seen \in AllocRow
    BY <2>1 DEF TypeOK
  <2> HIDE DEF seen
  <2>3. /\ row \in AllocRow
        /\ row.tenant = seen.tenant /\ row.user = seen.user /\ row.start = seen.start
        /\ row.pct = seen.pct /\ row.end = seen.end /\ row.deleted
    BY <2>2 DEF AllocRow
  <2> HIDE DEF row
  <2>6. [op |-> "delete", id |-> a, seen |-> seen, row |-> row] \in AllocTxn
    BY <2>2, <2>3 DEF AllocTxn
  <2>7. [op |-> "delete", id |-> a, seen |-> seen, row |-> row] \in AllocTxn \cup LeaveTxn
    BY <2>6
  <2>8. /\ TypeOK' /\ txn[s] = Idle /\ allocs' = allocs /\ leaves' = leaves
        /\ txn'[s] \in AllocTxn \cup LeaveTxn
        /\ txn'[s].op = "delete" /\ txn'[s].id = a /\ txn'[s].seen = seen /\ txn'[s].row = row
        /\ \A r \in Sessions \ {s} : txn'[r] = txn[r]
    BY <2>1, <2>7, OpenType
  <2>9. txn'[s] \in AllocTxn
    BY <2>8 DEF AllocTxn, LeaveTxn
  <2>10. OpensChange(txn'[s])
    BY <2>1, <2>3, <2>8, <2>9 DEF OpensChange, seen
  <2> QED BY <2>8, <2>10, PlaceholdersDiffer
<1>4. ASSUME NEW l \in LeaveIds, NEW status \in {"approved", "rejected"}, IsManager(ctx), FindLeave(ctx, l),
             Open(s, "leave", l, leaves[l], [leaves[l] EXCEPT !.status = status, !.approver = ctx.user])
      PROVE  Goal
  <2> DEFINE seen == leaves[l]
             row == [seen EXCEPT !.status = status, !.approver = ctx.user]
  <2>1. leaves[l] # Unused /\ leaves[l].tenant = ctx.tenant /\ Open(s, "leave", l, seen, row)
    BY <1>4 DEF FindLeave
  <2>2. seen \in LeaveRow
    BY <2>1 DEF TypeOK
  <2> HIDE DEF seen
  <2>3. /\ row \in LeaveRow
        /\ row.tenant = seen.tenant /\ row.user = seen.user /\ row.approver = ctx.user
    BY <2>2, CallerType DEF LeaveRow
  <2> HIDE DEF row
  <2>6. [op |-> "leave", id |-> l, seen |-> seen, row |-> row] \in LeaveTxn
    BY <2>2, <2>3 DEF LeaveTxn
  <2>7. [op |-> "leave", id |-> l, seen |-> seen, row |-> row] \in AllocTxn \cup LeaveTxn
    BY <2>6
  <2>8. /\ TypeOK' /\ txn[s] = Idle /\ allocs' = allocs /\ leaves' = leaves
        /\ txn'[s] \in AllocTxn \cup LeaveTxn
        /\ txn'[s].op = "leave" /\ txn'[s].id = l /\ txn'[s].seen = seen /\ txn'[s].row = row
        /\ \A r \in Sessions \ {s} : txn'[r] = txn[r]
    BY <2>1, <2>7, OpenType
  <2>9. txn'[s] \in LeaveTxn
    BY <2>8 DEF AllocTxn, LeaveTxn
  <2>10. Decider(seen.tenant, row.approver)
    BY <1>4, <2>1, <2>3 DEF Decider, seen
  <2>11. OpensLeave(txn'[s])
    BY <2>1, <2>3, <2>8, <2>9, <2>10 DEF OpensLeave, seen
  <2> QED BY <2>8, <2>11, PlaceholdersDiffer
<1> HIDE DEF Goal
<1>5. ASSUME NEW l \in LeaveIds, ApproveLeave(s, ctx, l) PROVE Goal
  BY <1>4, <1>5 DEF ApproveLeave
<1>6. ASSUME NEW l \in LeaveIds, RejectLeave(s, ctx, l) PROVE Goal
  BY <1>4, <1>6 DEF RejectLeave
<1>7. Goal
  BY <1>1, <1>2, <1>3, <1>5, <1>6 DEF Request
<1> QED BY <1>7 DEF Goal

\* The type of what is in hand, by its operation.
LEMMA TxnType ==
    ASSUME TypeOK, NEW s \in Sessions
    PROVE  /\ txn[s] = Idle \/ txn[s] \in AllocTxn \/ txn[s] \in LeaveTxn
           /\ txn[s] # Idle <=> txn[s].op # "idle"
           /\ txn[s].op = "leave" <=> txn[s] \in LeaveTxn
           /\ txn[s].op \in {"create", "check", "checked", "update", "delete"} <=> txn[s] \in AllocTxn
BY DEF TypeOK, AllocTxn, LeaveTxn, Idle

-----------------------------------------------------------------------------
(* Open changes of allocations *)

\* What an open change may rely on, whatever has been committed since it read: the key of a
\* new row is nobody else's; a row it changes is there, of the same person and tenant and with
\* the same start; and a deletion changes nothing else.
RelyAlloc(s) ==
    LET t == txn[s] IN
    /\ t.op = "create" =>
        /\ allocs[t.id] = Unused /\ t.row = t.seen
        /\ \A r \in Sessions \ {s} : txn[r].op \notin {"idle", "leave"} => txn[r].id # t.id
    /\ t.op \in {"check", "checked", "update", "delete"} =>
        /\ allocs[t.id] # Unused
        /\ t.row.tenant = t.seen.tenant /\ allocs[t.id].tenant = t.seen.tenant
        /\ t.row.user = t.seen.user /\ allocs[t.id].user = t.seen.user
        /\ t.row.start = t.seen.start /\ allocs[t.id].start = t.seen.start
        /\ t.op = "delete" => t.row.pct = t.seen.pct /\ t.row.end = t.seen.end /\ t.row.deleted
        /\ t.op # "delete" => t.row.deleted = t.seen.deleted
        /\ t.op = "update" => t.row.pct = t.seen.pct

AllocInv == TypeOK /\ \A s \in Sessions : txn[s] # Idle => RelyAlloc(s)

\* The row that a commit of an allocation leaves behind.
Written(s) ==
    IF txn[s].op = "create" THEN txn[s].row
    ELSE Flush(txn[s].seen, txn[s].row, allocs[txn[s].id])

\* Its commit writes that row and no other.
LEMMA CommitAlloc ==
    ASSUME AllocInv, NEW s \in Sessions, Commit(s), txn[s].op # "leave"
    PROVE  LET t == txn[s] IN
           /\ t \in AllocTxn /\ t.op \in {"create", "checked", "update", "delete"} /\ RelyAlloc(s)
           /\ t.id \in AllocIds /\ t.row \in AllocRow /\ t.seen \in AllocRow
           /\ Written(s) \in AllocRow /\ Written(s) # Unused
           /\ allocs'[t.id] = Written(s)
           /\ \A a \in AllocIds \ {t.id} : allocs'[a] = allocs[a]
           /\ txn'[s] = Idle /\ \A r \in Sessions \ {s} : txn'[r] = txn[r]
           /\ leaves' = leaves /\ TypeOK'
           /\ t.op # "create" =>
                /\ allocs[t.id] \in AllocRow
                /\ Written(s).tenant = allocs[t.id].tenant
                /\ Written(s).user = allocs[t.id].user
                /\ Written(s).start = allocs[t.id].start
                /\ Written(s).pct = Column(t.seen.pct, t.row.pct, allocs[t.id].pct)
                /\ Written(s).end = Column(t.seen.end, t.row.end, allocs[t.id].end)
                /\ Written(s).deleted = Column(t.seen.deleted, t.row.deleted, allocs[t.id].deleted)
<1> DEFINE t == txn[s]  a == t.id  row == Written(s)
<1>1. t.op \in {"create", "checked", "update", "delete"}
  BY DEF Commit
<1>2. t \in AllocTxn /\ t # Idle
  BY <1>1, TxnType DEF AllocInv, Idle
<1>3. a \in AllocIds /\ t.row \in AllocRow /\ t.seen \in AllocRow /\ RelyAlloc(s)
  BY <1>2 DEF AllocTxn, AllocInv
<1>4. t.op # "create" =>
        /\ allocs[a] \in AllocRow /\ row \in AllocRow
        /\ row.tenant = allocs[a].tenant /\ row.user = allocs[a].user
        /\ row.start = allocs[a].start
        /\ row.pct = Column(t.seen.pct, t.row.pct, allocs[a].pct)
        /\ row.end = Column(t.seen.end, t.row.end, allocs[a].end)
        /\ row.deleted = Column(t.seen.deleted, t.row.deleted, allocs[a].deleted)
  <2> SUFFICES ASSUME t.op # "create"
               PROVE  <1>4!2
    OBVIOUS
  <2>1. allocs[a] \in AllocRow
    BY <1>1, <1>3 DEF RelyAlloc, AllocInv, TypeOK
  <2>2. row = Flush(t.seen, t.row, allocs[a])
    BY DEF Written
  <2>3. /\ row \in AllocRow
        /\ row.tenant = Column(t.seen.tenant, t.row.tenant, allocs[a].tenant)
        /\ row.user = Column(t.seen.user, t.row.user, allocs[a].user)
        /\ row.pct = Column(t.seen.pct, t.row.pct, allocs[a].pct)
        /\ row.start = Column(t.seen.start, t.row.start, allocs[a].start)
        /\ row.end = Column(t.seen.end, t.row.end, allocs[a].end)
        /\ row.deleted = Column(t.seen.deleted, t.row.deleted, allocs[a].deleted)
    BY <1>3, <2>1, <2>2, FlushAlloc
  <2>4. t.row.tenant = t.seen.tenant /\ t.row.user = t.seen.user /\ t.row.start = t.seen.start
    BY <1>1, <1>3 DEF RelyAlloc
  <2> HIDE DEF row, t, a
  <2> QED BY <2>1, <2>3, <2>4 DEF Column
<1>5. row \in AllocRow
  BY <1>3, <1>4 DEF Written
<1>6. row # Unused
  BY <1>5, PlaceholdersDiffer
<1>7. /\ allocs' = [allocs EXCEPT ![a] = row] /\ leaves' = leaves
      /\ txn' = [txn EXCEPT ![s] = Idle]
  BY <1>1 DEF Commit, Written
<1> HIDE DEF row
<1>8. allocs'[a] = row /\ \A b \in AllocIds \ {a} : allocs'[b] = allocs[b]
  BY <1>3, <1>7 DEF AllocInv, TypeOK
<1>9. txn'[s] = Idle /\ \A r \in Sessions \ {s} : txn'[r] = txn[r]
  BY <1>7 DEF AllocInv, TypeOK
<1>10. TypeOK'
  BY <1>3, <1>5, <1>7 DEF AllocInv, TypeOK
<1>11. leaves' = leaves /\ TypeOK'
  BY <1>7, <1>10
<1> USE DEF row
<1> QED BY <1>1, <1>2, <1>3, <1>4, <1>5, <1>6, <1>8, <1>9, <1>11, Zenon

\* That keeps what the others rely on.
LEMMA CommitAllocInv ==
    ASSUME AllocInv, NEW s \in Sessions, Commit(s), txn[s].op # "leave"
    PROVE  AllocInv'
<1> DEFINE a == txn[s].id  row == Written(s)
<1>1. /\ txn[s].op \in {"create", "checked", "update", "delete"} /\ RelyAlloc(s) /\ a \in AllocIds
      /\ row # Unused /\ allocs'[a] = row
      /\ \A b \in AllocIds \ {a} : allocs'[b] = allocs[b]
      /\ txn'[s] = Idle /\ \A r \in Sessions \ {s} : txn'[r] = txn[r]
      /\ TypeOK'
      /\ txn[s].op # "create" => row.tenant = allocs[a].tenant /\ row.user = allocs[a].user
                                                               /\ row.start = allocs[a].start
  BY CommitAlloc
<1> HIDE DEF row
<1>3. ASSUME NEW r \in Sessions, txn'[r] # Idle PROVE RelyAlloc(r)'
  <2>1. r # s /\ txn'[r] = txn[r] /\ RelyAlloc(r)
    BY <1>1, <1>3 DEF AllocInv
  <2>2. CASE txn[r].op = "create"
    <3>1. txn[r].id # a
      BY <1>1, <2>1, <2>2 DEF RelyAlloc
    <3>2. txn[r].id \in AllocIds
      BY <2>2, TxnType DEF AllocInv, AllocTxn
    <3>3. \A q \in Sessions : txn'[q].op \notin {"idle", "leave"} => txn'[q] = txn[q]
      BY <1>1 DEF Idle
    <3> QED BY <1>1, <2>1, <2>2, <3>1, <3>2, <3>3 DEF RelyAlloc
  <2>3. CASE txn[r].op \in {"check", "checked", "update", "delete"}
    <3>1. txn[s].op = "create" => txn[r].id # a
      BY <1>1, <2>1, <2>3 DEF RelyAlloc
    <3>2. txn[r].id \in AllocIds
      BY <2>3, TxnType DEF AllocInv, AllocTxn
    <3>3. CASE txn[r].id = a
      BY <1>1, <2>1, <2>3, <3>1, <3>3 DEF RelyAlloc
    <3>4. CASE txn[r].id # a
      BY <1>1, <2>1, <2>3, <3>2, <3>4 DEF RelyAlloc
    <3> QED BY <3>3, <3>4
  <2>4. CASE txn[r].op \notin {"create", "check", "checked", "update", "delete"}
    BY <2>1, <2>4 DEF RelyAlloc
  <2> QED BY <2>2, <2>3, <2>4
<1> QED BY <1>1, <1>3 DEF AllocInv

\* While no allocation is written and nothing opens, the others go on as before.
LEMMA CloseAllocInv ==
    ASSUME AllocInv, TypeOK', allocs' = allocs,
           \A r \in Sessions : txn'[r] = Idle \/ txn'[r] = txn[r]
    PROVE  AllocInv'
<1> SUFFICES ASSUME NEW r \in Sessions, txn'[r] # Idle PROVE RelyAlloc(r)'
  BY DEF AllocInv
<1>1. txn'[r] = txn[r] /\ \A q \in Sessions : txn'[q].op \notin {"idle", "leave"} => txn'[q] = txn[q]
  BY DEF Idle
<1> QED BY <1>1 DEF AllocInv, RelyAlloc

\* A transaction that opens relies on what it has just read.
LEMMA OpenAllocInv ==
    ASSUME AllocInv, TypeOK', allocs' = allocs, NEW s \in Sessions, txn[s] = Idle,
           \A r \in Sessions \ {s} : txn'[r] = txn[r],
           OpensCreate(txn'[s]) \/ OpensChange(txn'[s]) \/ OpensLeave(txn'[s])
    PROVE  AllocInv'
<1>0. \A q \in Sessions \ {s} : txn'[q].op # "idle" => txn[q] # Idle /\ txn'[q] = txn[q]
  BY DEF Idle
<1>1. RelyAlloc(s)'
  <2>1. CASE OpensCreate(txn'[s])
    BY <1>0, <2>1 DEF RelyAlloc, OpensCreate
  <2>2. CASE OpensChange(txn'[s])
    BY <2>2 DEF RelyAlloc, OpensChange
  <2>3. CASE OpensLeave(txn'[s])
    BY <2>3 DEF RelyAlloc, OpensLeave
  <2> QED BY <2>1, <2>2, <2>3
<1>2. ASSUME NEW r \in Sessions \ {s}, txn'[r] # Idle PROVE RelyAlloc(r)'
  <2>1. txn'[r] = txn[r] /\ RelyAlloc(r)
    BY <1>2 DEF AllocInv
  <2>2. ASSUME txn[r].op = "create"
        PROVE  txn'[s].op \notin {"idle", "leave"} => txn'[s].id # txn[r].id
    <3>1. allocs[txn[r].id] = Unused /\ txn[r] # Idle
      BY <2>1, <2>2 DEF RelyAlloc, Idle
    <3>2. CASE OpensCreate(txn'[s])
      BY <3>1, <3>2 DEF OpensCreate
    <3>3. CASE OpensChange(txn'[s])
      BY <3>1, <3>3 DEF OpensChange
    <3>4. CASE OpensLeave(txn'[s])
      BY <3>4 DEF OpensLeave
    <3> QED BY <3>2, <3>3, <3>4
  <2>3. \A q \in Sessions : q # s /\ txn'[q].op \notin {"idle", "leave"} => txn'[q] = txn[q]
    BY <1>0
  <2> QED BY <2>1, <2>2, <2>3 DEF RelyAlloc
<1> QED BY <1>1, <1>2 DEF AllocInv

\* The guard of an update, once passed, changes nothing that was read.
LEMMA CheckAllocInv ==
    ASSUME AllocInv, NEW s \in Sessions, CheckUpdate(s)
    PROVE  /\ AllocInv' /\ txn[s].op = "check" /\ txn'[s].op = "checked"
           /\ txn[s] \in AllocTxn /\ txn'[s] \in AllocTxn /\ RelyAlloc(s)
           /\ txn'[s].id = txn[s].id /\ txn'[s].seen = txn[s].seen /\ txn'[s].row = txn[s].row
           /\ allocs' = allocs /\ leaves' = leaves
           /\ \A r \in Sessions \ {s} : txn'[r] = txn[r]
<1> DEFINE t == [txn[s] EXCEPT !.op = "checked"]
<1>1. /\ txn[s].op = "check" /\ txn' = [txn EXCEPT ![s] = t]
      /\ allocs' = allocs /\ leaves' = leaves
  BY DEF CheckUpdate
<1>2. txn[s] \in AllocTxn /\ txn[s] # Idle
  BY <1>1, TxnType DEF AllocInv, Idle
<1>3. RelyAlloc(s)
  BY <1>2 DEF AllocInv
<1>4. t \in AllocTxn /\ t.op = "checked" /\ t.id = txn[s].id /\ t.seen = txn[s].seen /\ t.row = txn[s].row
  BY <1>2 DEF AllocTxn
<1> HIDE DEF t
<1>5. txn'[s] = t /\ \A r \in Sessions \ {s} : txn'[r] = txn[r]
  BY <1>1 DEF AllocInv, TypeOK
<1>6. TypeOK'
  BY <1>1, <1>4 DEF AllocInv, TypeOK
<1>7. ASSUME NEW r \in Sessions, txn'[r] # Idle PROVE RelyAlloc(r)'
  <2>1. RelyAlloc(r)
    BY <1>2, <1>5, <1>7 DEF AllocInv
  <2>2. \A q \in Sessions : txn'[q].op \notin {"idle", "leave"} =>
            txn[q].op \notin {"idle", "leave"} /\ txn'[q].id = txn[q].id
    BY <1>1, <1>4, <1>5
  <2> QED BY <1>1, <1>4, <1>5, <2>1, <2>2 DEF RelyAlloc
<1> QED BY <1>1, <1>2, <1>3, <1>4, <1>5, <1>6, <1>7 DEF AllocInv

-----------------------------------------------------------------------------
(* Decisions on leave requests *)

\* An open decision may rely on this at its commit, whoever has decided meanwhile: the request
\* of its tenant is there, a manager decides, and a decision it has read was not taken back.
RelyLeave(s) ==
    LET t == txn[s] IN
    t.op = "leave" =>
        /\ leaves[t.id] # Unused
        /\ t.row.tenant = t.seen.tenant /\ t.row.user = t.seen.user
        /\ Decider(leaves[t.id].tenant, t.row.approver)
        /\ Decider(leaves[t.id].tenant, t.seen.approver) =>
               Decider(leaves[t.id].tenant, leaves[t.id].approver)

Decided ==
    \A l \in LeaveIds : (leaves[l] # Unused /\ leaves[l].status # "pending") =>
                             Decider(leaves[l].tenant, leaves[l].approver)

IInv ==
    /\ TypeOK
    /\ \A s \in Sessions : txn[s] # Idle => RelyAlloc(s) /\ RelyLeave(s)
    /\ Decided

\* The commit of a decision writes its row and no other.
LEMMA CommitLeave ==
    ASSUME IInv, NEW s \in Sessions, Commit(s), txn[s].op = "leave"
    PROVE  IInv'
<1> DEFINE t == txn[s]  l == txn[s].id  row == Flush(txn[s].seen, txn[s].row, leaves[txn[s].id])
<1>1. t \in LeaveTxn /\ RelyLeave(s)
  BY TxnType DEF IInv, Idle
<1>2. l \in LeaveIds /\ t.seen \in LeaveRow /\ t.row \in LeaveRow /\ leaves[l] \in LeaveRow
  BY <1>1 DEF LeaveTxn, RelyLeave, IInv, TypeOK
<1>3. /\ row \in LeaveRow
      /\ row.tenant = Column(t.seen.tenant, t.row.tenant, leaves[l].tenant)
      /\ row.approver = Column(t.seen.approver, t.row.approver, leaves[l].approver)
      /\ row.status = Column(t.seen.status, t.row.status, leaves[l].status)
  BY <1>2, FlushLeave
<1>4. leaves' = [leaves EXCEPT ![l] = row] /\ allocs' = allocs /\ txn' = [txn EXCEPT ![s] = Idle]
  BY DEF Commit
<1> HIDE DEF row
<1>5. row.tenant = leaves[l].tenant /\ Decider(row.tenant, row.approver)
  BY <1>1, <1>3 DEF RelyLeave, Column
<1>6. TypeOK'
  BY <1>2, <1>3, <1>4 DEF IInv, TypeOK
<1>7. leaves'[l] = row /\ row # Unused /\ \A k \in LeaveIds \ {l} : leaves'[k] = leaves[k]
  BY <1>2, <1>3, <1>4, PlaceholdersDiffer DEF IInv, TypeOK
<1>8. txn'[s] = Idle /\ \A r \in Sessions \ {s} : txn'[r] = txn[r]
  BY <1>4 DEF IInv, TypeOK
<1> HIDE DEF l, t
<1>9. ASSUME NEW r \in Sessions, txn'[r].op = "leave" PROVE RelyLeave(r)'
  <2>1. r # s /\ txn'[r] = txn[r] /\ txn[r].op = "leave"
    BY <1>8, <1>9 DEF Idle
  <2>2. RelyLeave(r) /\ txn[r] \in LeaveTxn
    BY <2>1, TxnType DEF IInv, Idle
  <2>3. txn[r].id \in LeaveIds
    BY <2>2 DEF LeaveTxn
  <2>4. CASE txn[r].id = l
    BY <1>5, <1>7, <2>1, <2>2, <2>4 DEF RelyLeave, Decider
  <2>5. CASE txn[r].id # l
    BY <1>7, <2>1, <2>2, <2>3, <2>5 DEF RelyLeave, Decider
  <2> QED BY <2>4, <2>5
<1>10. ASSUME NEW k \in LeaveIds, leaves'[k] # Unused, leaves'[k].status # "pending"
       PROVE  Decider(leaves'[k].tenant, leaves'[k].approver)
  BY <1>5, <1>7, <1>10 DEF IInv, Decided
<1>11. AllocInv'
  <2>1. AllocInv
    BY DEF IInv, AllocInv
  <2>2. \A r \in Sessions : txn'[r] = Idle \/ txn'[r] = txn[r]
    BY <1>8
  <2> QED BY <1>4, <1>6, <2>1, <2>2, CloseAllocInv
<1>12. \A r \in Sessions : RelyLeave(r)'
  BY <1>9 DEF RelyLeave
<1> QED BY <1>10, <1>11, <1>12 DEF IInv, AllocInv, Decided, Decider

\* Commits of allocations and everything else leave the decisions alone.
LEMMA LeavesStand ==
    ASSUME IInv, AllocInv', leaves' = leaves,
           \A r \in Sessions : txn'[r] # txn[r] => txn'[r].op # "leave" \/ OpensLeave(txn'[r])
    PROVE  IInv'
<1>1. ASSUME NEW r \in Sessions, txn'[r].op = "leave" PROVE RelyLeave(r)'
  <2>1. CASE txn'[r] = txn[r]
    BY <1>1, <2>1 DEF IInv, RelyLeave, Decider, Idle
  <2>2. CASE OpensLeave(txn'[r])
    BY <2>2 DEF OpensLeave, RelyLeave, Decider
  <2> QED BY <1>1, <2>1, <2>2
<1>2. \A r \in Sessions : RelyLeave(r)'
  BY <1>1 DEF RelyLeave
<1> QED BY <1>2 DEF IInv, AllocInv, Decided, Decider

\* A new leave request is pending.
LEMMA CreateLeaveIInv ==
    ASSUME IInv, NEW ctx \in Contexts, NEW l \in LeaveIds, CreateLeave(ctx, l)
    PROVE  IInv'
<1> DEFINE row == [tenant |-> ctx.tenant, user |-> ctx.user, approver |-> None, status |-> "pending"]
<1>1. row \in LeaveRow /\ row.status = "pending"
  BY CallerType DEF LeaveRow
<1>2. /\ leaves[l] = Unused /\ leaves' = [leaves EXCEPT ![l] = row]
      /\ allocs' = allocs /\ txn' = txn
  BY DEF CreateLeave
<1> HIDE DEF row
<1>3. TypeOK'
  BY <1>1, <1>2 DEF IInv, TypeOK
<1>4. AllocInv'
  <2>1. AllocInv
    BY DEF IInv, AllocInv
  <2> QED BY <1>2, <1>3, <2>1, CloseAllocInv
<1>5. leaves'[l] = row /\ \A k \in LeaveIds \ {l} : leaves'[k] = leaves[k]
  BY <1>2 DEF IInv, TypeOK
<1>6. ASSUME NEW r \in Sessions, txn[r].op = "leave" PROVE RelyLeave(r)'
  <2>1. RelyLeave(r) /\ txn[r] \in LeaveTxn
    BY <1>6, TxnType DEF IInv, Idle
  <2>2. txn[r].id \in LeaveIds \ {l}
    BY <1>2, <1>6, <2>1 DEF RelyLeave, LeaveTxn
  <2> QED BY <1>2, <1>5, <2>1, <2>2 DEF RelyLeave, Decider
<1>7. \A r \in Sessions : RelyLeave(r)'
  BY <1>2, <1>6 DEF RelyLeave
<1>8. Decided'
  BY <1>1, <1>5 DEF IInv, Decided, Decider
<1> QED BY <1>4, <1>7, <1>8 DEF IInv, AllocInv

\* Every step of the service keeps the invariant.
LEMMA NextIInv == IInv /\ [Next]_vars => IInv'
<1> SUFFICES ASSUME IInv, [Next]_vars PROVE IInv'
  OBVIOUS
<1>0. TypeOK /\ AllocInv
  BY DEF IInv, AllocInv
<1>1. ASSUME NEW s \in Sessions, NEW ctx \in Contexts, Request(s, ctx) PROVE IInv'
  <2>1. /\ TypeOK' /\ txn[s] = Idle /\ allocs' = allocs /\ leaves' = leaves
        /\ \A r \in Sessions \ {s} : txn'[r] = txn[r]
        /\ OpensCreate(txn'[s]) \/ OpensChange(txn'[s]) \/ OpensLeave(txn'[s])
    BY <1>0, <1>1, RequestOpens
  <2>2. AllocInv'
    BY <1>0, <2>1, OpenAllocInv
  <2>3. txn'[s].op # "leave" \/ OpensLeave(txn'[s])
    BY <2>1 DEF OpensCreate, OpensChange
  <2> QED BY <2>1, <2>2, <2>3, LeavesStand
<1>2. ASSUME NEW s \in Sessions, CheckUpdate(s) PROVE IInv'
  <2>1. /\ AllocInv' /\ txn'[s].op = "checked" /\ leaves' = leaves
        /\ \A r \in Sessions \ {s} : txn'[r] = txn[r]
    BY <1>0, <1>2, CheckAllocInv
  <2> QED BY <2>1, LeavesStand
<1>3. ASSUME NEW s \in Sessions, Commit(s), txn[s].op # "leave" PROVE IInv'
  <2>1. /\ leaves' = leaves /\ txn'[s] = Idle /\ \A r \in Sessions \ {s} : txn'[r] = txn[r]
    BY <1>0, <1>3, CommitAlloc
  <2>2. AllocInv'
    BY <1>0, <1>3, CommitAllocInv
  <2> QED BY <2>1, <2>2, LeavesStand DEF Idle
<1>4. ASSUME NEW s \in Sessions, Rollback(s) PROVE IInv'
  <2>1. allocs' = allocs /\ leaves' = leaves /\ txn' = [txn EXCEPT ![s] = Idle]
    BY <1>4 DEF Rollback
  <2>2. TypeOK' /\ \A r \in Sessions : txn'[r] = Idle \/ txn'[r] = txn[r]
    BY <1>0, <2>1 DEF TypeOK
  <2>3. AllocInv'
    BY <1>0, <2>1, <2>2, CloseAllocInv
  <2> QED BY <2>1, <2>2, <2>3, LeavesStand DEF Idle
<1>5. ASSUME UNCHANGED vars PROVE IInv'
  <2>1. allocs' = allocs /\ leaves' = leaves /\ txn' = txn
    BY <1>5 DEF vars
  <2>2. TypeOK'
    BY <1>0, <2>1 DEF TypeOK
  <2>3. AllocInv'
    BY <1>0, <2>1, <2>2, CloseAllocInv
  <2> QED BY <2>1, <2>3, LeavesStand
<1> QED BY <1>1, <1>2, <1>3, <1>4, <1>5, CommitLeave, CreateLeaveIInv DEF Next

\* The service starts with empty tables.
LEMMA InitIInv == Init => IInv
<1> SUFFICES ASSUME Init PROVE IInv
  OBVIOUS
<1> QED BY InitType DEF Init, IInv, Decided

\* Allocations, leave requests and open requests keep their types, whatever overlaps: a commit
\* that writes by column leaves a row of the table.
THEOREM ResourcesTypeOKAlways == Spec => []TypeOK
<1>1. IInv => TypeOK
  BY DEF IInv
<1> QED BY <1>1, InitIInv, NextIInv, PTL DEF Spec

\* Whoever approves or rejects a leave request, however requests overlap and whatever decision
\* comes later, is a manager of its tenant: approver and decision never drift apart, although
\* approve_leave_request and reject_leave_request look at no status and write by column.
THEOREM DecisionIsVisibleAlways == Spec => []DecisionIsVisible
<1>1. IInv => DecisionIsVisible
  <2> SUFFICES ASSUME IInv, NEW l \in LeaveIds, leaves[l] # Unused, leaves[l].status # "pending"
               PROVE  DecisionIsVisible!(l)!2
    BY DEF DecisionIsVisible
  <2>1. PICK ctx \in Contexts : /\ ctx.user = leaves[l].approver
                                /\ ctx.tenant = leaves[l].tenant /\ IsManager(ctx)
    BY DEF IInv, Decided, Decider
  <2>2. l \in ListLeaves(ctx)
    BY <2>1 DEF ListLeaves
  <2> QED BY <2>1, <2>2 DEF ListLeaves
<1> QED BY <1>1, InitIInv, NextIInv, PTL DEF Spec
-----------------------------------------------------------------------------
(* How much can be allocated *)

\* A row counts on a day.
OnDay(row, d) == row.start <= d /\ (row.end = None \/ row.end >= d)

\* The allocations that count for a user of a tenant on a day.
Active(a, tenant, u, d) ==
    /\ a \notin moved /\ allocs[a] # Unused /\ allocs[a].tenant = tenant /\ allocs[a].user = u
    /\ ~allocs[a].deleted /\ OnDay(allocs[a], d)

\* A change that has passed the guard and will count on that day.
Approved(s, tenant, u, d) ==
    LET t == txn[s] IN
    /\ \/ t.op = "create"
       \/ t.op = "checked" /\ (t.row.pct # t.seen.pct \/ t.row.end # t.seen.end)
    /\ t.row.tenant = tenant /\ t.row.user = u /\ OnDay(t.row, d)

\* How many changes can have passed the guard without seeing each other.
Slots == IF part = "serial" /\ Sessions # {} THEN 1 ELSE Cardinality(Sessions)

\* A weight for every allocation: no less than it has, no less than any approved change is
\* about to give it, and in sum 100 for every request that can be in flight.
Percentages == 0 .. 100
Weighs(w, tenant, u, d) ==
    /\ \A a \in AllocIds : Active(a, tenant, u, d) => allocs[a].pct <= w[a]
    /\ \A s \in Sessions : Approved(s, tenant, u, d) => txn[s].row.pct <= w[txn[s].id]
    /\ SumFunctionOnSet(w, AllocIds) <= 100 * Slots

WeightInv ==
    \A tenant \in Tenants, u \in Users, d \in Days :
        \E w \in [AllocIds -> Percentages] : Weighs(w, tenant, u, d)

\* One after the other, a change still has what it read; when requests overlap, an allocation
\* that has not been moved to later days ends no later than it did when it was read.
EndsInv ==
    \A s \in Sessions : txn[s].op \in {"check", "checked", "update", "delete"} =>
        /\ part = "serial" => allocs[txn[s].id] = txn[s].seen
        /\ txn[s].id \notin moved => ~Later(allocs[txn[s].id].end, txn[s].seen.end)

MCInv ==
    /\ part \in {"serial", "overlap", "leaves"}
    /\ IInv
    /\ InPart
    /\ moved \subseteq AllocIds
    /\ EndsInv
    /\ WeightInv

\* The rows that others are working on are fewer than the slots.
LEMMA OthersAreFewer ==
    ASSUME NEW s \in Sessions, part = "serial" => \A r \in Sessions \ {s} : txn[r] = Idle
    PROVE  LET Others == {r \in Sessions \ {s} : txn[r] # Idle}
               B == {txn[r].id : r \in Others}
           IN  IsFiniteSet(B) /\ Cardinality(B) \in Nat /\ Slots \in Nat /\ Cardinality(B) + 1 <= Slots
<1> DEFINE Others == {r \in Sessions \ {s} : txn[r] # Idle}
           f == [r \in Others |-> txn[r].id]
           B == {txn[r].id : r \in Others}
<1>1. IsFiniteSet(Sessions) /\ Cardinality(Sessions) \in Nat
  BY FinitenessAssumption, FS_CardinalityType
<1>2. IsFiniteSet(Sessions \ {s}) /\ Cardinality(Sessions \ {s}) = Cardinality(Sessions) - 1
  BY <1>1, FS_RemoveElement
<1>3. IsFiniteSet(Others) /\ Cardinality(Others) <= Cardinality(Sessions \ {s})
  BY <1>2, FS_Subset
<1>4. f \in Surjection(Others, B)
  BY DEF Surjection
<1> HIDE DEF f
<1>5. IsFiniteSet(B) /\ Cardinality(B) <= Cardinality(Others)
  BY <1>3, <1>4, FS_Surjection
<1>6. Cardinality(B) \in Nat /\ Cardinality(Others) \in Nat
  BY <1>3, <1>5, FS_CardinalityType
<1>7. CASE part = "serial"
  <2>1. Others = {}
    BY <1>7
  <2>2. Cardinality(Others) = 0
    BY <2>1, FS_EmptySet
  <2>3. Slots = 1
    BY <1>7 DEF Slots
  <2> HIDE DEF Others, B
  <2> QED BY <1>5, <1>6, <2>2, <2>3 DEF B, Others
<1>8. CASE part # "serial"
  <2>1. Slots = Cardinality(Sessions)
    BY <1>8 DEF Slots
  <2> QED BY <1>1, <1>2, <1>3, <1>5, <1>6, <2>1
<1> QED BY <1>7, <1>8

\* The guard's query finds everything else that counts on a day of the new row.
LEMMA GuardSees ==
    ASSUME AllocInv, NEW tenant \in Tenants, NEW u \in Users, NEW d \in Days,
           NEW row \in AllocRow, row.tenant = tenant, row.user = u, OnDay(row, d), row.end # None,
           NEW a \in AllocIds, NEW exclude \in SUBSET {a}, exclude = {} => allocs[a] = Unused,
           NEW b \in AllocIds \ {a}, Active(b, tenant, u, d)
    PROVE  b \in Overlapping(tenant, row, exclude)
<1>1. allocs[b] \in AllocRow
  BY DEF Active, AllocInv, TypeOK
<1>2. /\ d \in Int /\ row.start \in Int /\ row.end \in Int
      /\ allocs[b].start \in Int /\ allocs[b].end \in Int
  BY <1>1, DaysAssumption DEF AllocRow, None
<1>3. /\ allocs[b] # Unused /\ allocs[b].user = row.user /\ allocs[b].tenant = tenant
      /\ ~allocs[b].deleted /\ b \in AllocIds \ exclude
  BY DEF Active
<1>4. /\ row.start <= d /\ row.end >= d /\ allocs[b].start <= d
      /\ allocs[b].end = None \/ allocs[b].end >= d
  BY DEF Active, OnDay
<1>5. (allocs[b].end = None \/ allocs[b].end >= row.start) /\ allocs[b].start <= row.end
  BY <1>2, <1>4
<1> QED BY <1>3, <1>5 DEF Overlapping

\* A weighing with the new row at its percentage and everybody else's pending change at 100:
\* what the guard has seen adds up to 100, and what it cannot see is in other hands.
LEMMA Reweigh ==
    ASSUME AllocInv, NEW s \in Sessions,
           part = "serial" => \A r \in Sessions \ {s} : txn[r] = Idle,
           NEW tenant \in Tenants, NEW u \in Users, NEW d \in Days,
           NEW row \in AllocRow, row.tenant = tenant, row.user = u, OnDay(row, d),
           NEW a \in AllocIds, NEW exclude \in SUBSET {a}, exclude = {} => allocs[a] = Unused,
           CheckOverAllocation(tenant, row, exclude),
           ~Approved(s, tenant, u, d),
           Active(a, tenant, u, d) => allocs[a].pct <= row.pct,
           \A r \in Sessions : (Approved(r, tenant, u, d) /\ txn[r].id = a) =>
                                   txn[r].row.pct <= row.pct
    PROVE  \E v \in [AllocIds -> Percentages] : row.pct <= v[a] /\ Weighs(v, tenant, u, d)
<1> DEFINE B == {txn[r].id : r \in {r \in Sessions \ {s} : txn[r] # Idle}}
           has == [b \in AllocIds |-> IF allocs[b] = Unused THEN 0 ELSE allocs[b].pct]
           counts == [b \in AllocIds |-> IF Active(b, tenant, u, d) THEN allocs[b].pct ELSE 0]
           v == [b \in AllocIds |-> IF b = a THEN row.pct ELSE
                                    IF b \in B THEN 100 ELSE counts[b]]
           O == Overlapping(tenant, row, exclude)
           rest == AllocIds \ {a}
<1>1. IsFiniteSet(B) /\ Cardinality(B) \in Nat /\ Slots \in Nat /\ Cardinality(B) + 1 <= Slots
  BY OthersAreFewer
<1>2. row.end # None /\ SumFunctionOnSet(has, O) + row.pct <= 100
  BY DEF CheckOverAllocation, Total
<1>3. \A b \in rest : Active(b, tenant, u, d) => b \in O
  BY <1>2, GuardSees
<1>4. \A b \in AllocIds : /\ allocs[b] # Unused => allocs[b].pct \in 0 .. 100
                          /\ has[b] \in Nat /\ counts[b] \in 0 .. 100 /\ counts[b] <= has[b]
  <2>1. \A b \in AllocIds : allocs[b] # Unused => allocs[b].pct \in 0 .. 100
    BY DEF AllocInv, TypeOK, AllocRow
  <2> QED BY <2>1 DEF Active
<1>5. row.pct \in 0 .. 100
  BY DEF AllocRow
<1>6. O \subseteq AllocIds /\ rest \subseteq AllocIds
  BY DEF Overlapping
<1>7. IsFiniteSet(AllocIds) /\ IsFiniteSet(O) /\ IsFiniteSet(rest) /\ IsFiniteSet(rest \cap O)
  BY <1>6, FinitenessAssumption, FS_Subset
<1>8. \A b \in rest \ O : counts[b] = 0
  BY <1>3
<1>9. v \in [AllocIds -> Percentages] /\ \A b \in AllocIds : v[b] \in Nat
  BY <1>4, <1>5 DEF Percentages
<1>10. /\ v[a] = row.pct
       /\ \A b \in rest \cap B : v[b] = 100
       /\ \A b \in rest \ B : v[b] = counts[b]
  OBVIOUS
<1> HIDE DEF has, O, v
<1>11. SumFunctionOnSet(counts, rest) = SumFunctionOnSet(counts, rest \cap O)
  <2>1. \A b \in rest : counts[b] \in Int
    BY <1>4
  <2>2. \A b \in rest \ (rest \cap O) : counts[b] = 0
    BY <1>8
  <2> HIDE DEF counts
  <2> QED BY <1>7, <2>1, <2>2, SumOutside
<1>12. \A b \in AllocIds : Active(b, tenant, u, d) => allocs[b].pct = counts[b]
  OBVIOUS
<1> HIDE DEF counts, rest, B
<1>13. SumFunctionOnSet(counts, rest \cap O) <= SumFunctionOnSet(counts, O)
  BY <1>4, <1>6, <1>7, SumOfPart
<1>14. SumFunctionOnSet(counts, O) <= SumFunctionOnSet(has, O) + 0 * Cardinality(O \cap {})
  <2>1. \A b \in O : has[b] \in Nat /\ counts[b] \in Nat
    BY <1>4, <1>6
  <2>2. \A b \in O \ {} : counts[b] <= has[b]
    BY <1>4, <1>6
  <2>3. \A b \in O \cap {} : counts[b] <= has[b] + 0
    OBVIOUS
  <2> QED BY <1>7, <2>1, <2>2, <2>3, SumRaised
<1>15. SumFunctionOnSet(v, rest) <= SumFunctionOnSet(counts, rest) + 100 * Cardinality(rest \cap B)
  <2>1. \A b \in rest : counts[b] \in Nat /\ v[b] \in Nat
    BY <1>4, <1>6, <1>9
  <2>2. \A b \in rest \ B : v[b] <= counts[b]
    BY <1>10, <2>1
  <2>3. \A b \in rest \cap B : v[b] <= counts[b] + 100
    BY <1>10, <2>1
  <2> QED BY <1>7, <2>1, <2>2, <2>3, SumRaised
<1>16. Cardinality(rest \cap B) \in Nat /\ Cardinality(rest \cap B) <= Cardinality(B)
  <2>1. IsFiniteSet(rest \cap B) /\ Cardinality(rest \cap B) <= Cardinality(B)
    BY <1>1, FS_Subset
  <2> QED BY <2>1, FS_CardinalityType
<1>17. SumFunctionOnSet(v, AllocIds) = row.pct + SumFunctionOnSet(v, rest)
  <2>1. \A b \in AllocIds : v[b] \in Int
    BY <1>9
  <2>2. SumFunctionOnSet(v, AllocIds) = v[a] + SumFunctionOnSet(v, AllocIds \ {a})
    BY <1>7, <2>1, SumRemove
  <2> QED BY <1>10, <2>2 DEF rest
<1>18. Cardinality(O \cap {}) = 0
  BY FS_EmptySet, O \cap {} = {}
<1>19. /\ SumFunctionOnSet(v, rest) \in Int /\ SumFunctionOnSet(counts, rest) \in Int
       /\ SumFunctionOnSet(counts, rest \cap O) \in Int /\ SumFunctionOnSet(counts, O) \in Int
       /\ SumFunctionOnSet(has, O) \in Int
  <2>1. 0 \in Int /\ \A m, n \in Int : m + n \in Int
    OBVIOUS
  <2>2. \A b \in AllocIds : counts[b] \in Int /\ has[b] \in Int /\ v[b] \in Int
    BY <1>4, <1>9
  <2>3. SumFunctionOnSet(v, rest) \in Int
    BY <1>6, <1>7, <2>1, <2>2, SumType
  <2>4. SumFunctionOnSet(counts, rest) \in Int
    BY <1>6, <1>7, <2>1, <2>2, SumType
  <2>5. SumFunctionOnSet(counts, rest \cap O) \in Int
    BY <1>6, <1>7, <2>1, <2>2, SumType
  <2>6. SumFunctionOnSet(counts, O) \in Int
    BY <1>6, <1>7, <2>1, <2>2, SumType
  <2>7. SumFunctionOnSet(has, O) \in Int
    BY <1>6, <1>7, <2>1, <2>2, SumType
  <2> QED BY <2>3, <2>4, <2>5, <2>6, <2>7
<1>20. SumFunctionOnSet(v, AllocIds) <= 100 * Slots
  <2>1. SumFunctionOnSet(v, rest) <= 100 - row.pct + 100 * Cardinality(B)
    BY <1>1, <1>2, <1>5, <1>11, <1>13, <1>14, <1>15, <1>16, <1>18, <1>19
  <2> QED BY <1>1, <1>5, <1>17, <1>19, <2>1
<1>21. \A b \in AllocIds : Active(b, tenant, u, d) => allocs[b].pct <= v[b]
  <2>1. \A b \in AllocIds : allocs[b] # Unused => allocs[b].pct <= 100 /\ allocs[b].pct \in Int
    BY <1>4
  <2> QED BY <1>10, <1>12, <2>1 DEF rest, Active
<1>22. \A r \in Sessions : Approved(r, tenant, u, d) => txn[r].row.pct <= v[txn[r].id]
  <2> SUFFICES ASSUME NEW r \in Sessions, Approved(r, tenant, u, d)
               PROVE  txn[r].row.pct <= v[txn[r].id]
    OBVIOUS
  <2>1. txn[r] \in AllocTxn /\ txn[r] # Idle
    BY TxnType DEF Approved, AllocInv, Idle
  <2>2. txn[r].id \in AllocIds /\ txn[r].row.pct \in 0 .. 100
    BY <2>1 DEF AllocTxn, AllocRow
  <2>3. r # s
    OBVIOUS
  <2>4. txn[r].id \in B
    BY <2>1, <2>3 DEF B
  <2> QED BY <1>10, <2>2, <2>4 DEF rest
<1>23. row.pct <= v[a]
  BY <1>5, <1>10
<1> QED BY <1>9, <1>20, <1>21, <1>22, <1>23 DEF Weighs

\* A change that passes the guard can be weighed in.
LEMMA ApproveWeight ==
    ASSUME AllocInv, WeightInv, allocs' = allocs, part' = part, moved \subseteq moved',
           NEW s \in Sessions,
           part = "serial" => \A r \in Sessions \ {s} : txn[r] = Idle,
           txn[s].op \notin {"create", "checked"},
           \A r \in Sessions \ {s} : txn'[r] = txn[r],
           txn'[s] \in AllocTxn, NEW exclude \in SUBSET {txn'[s].id},
           exclude = {} => allocs[txn'[s].id] = Unused,
           CheckOverAllocation(txn'[s].row.tenant, txn'[s].row, exclude)
    PROVE  WeightInv'
<1>0. PICK a \in AllocIds, row \in AllocRow : txn'[s].id = a /\ txn'[s].row = row
  BY DEF AllocTxn
<1>1. row.pct \in 0 .. 100
  BY DEF AllocRow
<1>2. Slots' = Slots
  BY DEF Slots
<1>3. ASSUME NEW tenant \in Tenants, NEW u \in Users, NEW d \in Days,
             NEW w \in [AllocIds -> Percentages], Weighs(w, tenant, u, d),
             Approved(s, tenant, u, d)' => row.pct <= w[a]
      PROVE  Weighs(w, tenant, u, d)'
  <2>1. \A b \in AllocIds : Active(b, tenant, u, d)' => allocs'[b].pct <= w[b]
    BY <1>3 DEF Weighs, Active
  <2>2. ASSUME NEW r \in Sessions, Approved(r, tenant, u, d)'
        PROVE  txn'[r].row.pct <= w[txn'[r].id]
    <3>1. CASE r = s
      BY <1>0, <1>3, <2>2, <3>1
    <3>2. CASE r # s
      BY <1>3, <2>2, <3>2 DEF Weighs, Approved
    <3> QED BY <3>1, <3>2
  <2> QED BY <1>2, <1>3, <2>1, <2>2 DEF Weighs
<1>4. ASSUME NEW tenant \in Tenants, NEW u \in Users, NEW d \in Days
      PROVE  \E w \in [AllocIds -> Percentages] : Weighs(w, tenant, u, d)'
  <2>1. PICK w \in [AllocIds -> Percentages] : Weighs(w, tenant, u, d)
    BY DEF WeightInv
  <2>2. w[a] \in 0 .. 100
    BY DEF Percentages
  <2>3. CASE row.pct <= w[a] \/ ~Approved(s, tenant, u, d)'
    BY <1>3, <2>1, <2>3
  <2>4. CASE row.pct > w[a] /\ Approved(s, tenant, u, d)'
    <3>1. row.tenant = tenant /\ row.user = u /\ OnDay(row, d)
      BY <1>0, <2>4 DEF Approved
    <3>2. ~Approved(s, tenant, u, d)
      BY DEF Approved
    <3>3. Active(a, tenant, u, d) => allocs[a].pct <= row.pct
      <4> SUFFICES ASSUME Active(a, tenant, u, d) PROVE allocs[a].pct <= row.pct
        OBVIOUS
      <4>1. allocs[a].pct \in 0 .. 100
        BY DEF Active, AllocInv, TypeOK, AllocRow
      <4>2. allocs[a].pct <= w[a]
        BY <2>1 DEF Weighs
      <4>3. row.pct > w[a]
        BY <2>4
      <4>5. row.pct \in Int
        BY <1>1
      <4>6. w[a] \in Int
        BY <2>2
      <4>7. allocs[a].pct \in Int
        BY <4>1
      <4>8. w[a] < row.pct
        BY <4>3, <4>5, <4>6
      <4> QED BY <4>2, <4>5, <4>6, <4>7, <4>8
    <3>4. ASSUME NEW r \in Sessions, Approved(r, tenant, u, d), txn[r].id = a
          PROVE  txn[r].row.pct <= row.pct
      <4>1. txn[r] \in AllocTxn
        BY <3>4, TxnType DEF Approved, AllocInv
      <4>2. txn[r].row.pct \in 0 .. 100
        BY <4>1 DEF AllocTxn, AllocRow
      <4>3. txn[r].row.pct <= w[a]
        BY <2>1, <3>4 DEF Weighs
      <4>4. row.pct > w[a]
        BY <2>4
      <4>5. row.pct \in Int
        BY <1>1
      <4>6. w[a] \in Int
        BY <2>2
      <4>7. txn[r].row.pct \in Int
        BY <4>2
      <4>8. w[a] < row.pct
        BY <4>4, <4>5, <4>6
      <4> QED BY <4>3, <4>5, <4>6, <4>7, <4>8
    <3>5. exclude \in SUBSET {a} /\ (exclude = {} => allocs[a] = Unused)
          /\ CheckOverAllocation(tenant, row, exclude)
      BY <1>0, <3>1
    <3>6. PICK v \in [AllocIds -> Percentages] : row.pct <= v[a] /\ Weighs(v, tenant, u, d)
      BY <1>1, <3>1, <3>2, <3>3, <3>4, <3>5, Reweigh
    <3> QED BY <1>3, <3>6
  <2> QED BY <1>1, <2>2, <2>3, <2>4
<1> QED BY <1>4 DEF WeightInv

\* While no allocation is written and nothing passes the guard, the weights stay.
LEMMA WeightsStand ==
    ASSUME WeightInv, allocs' = allocs, part' = part, moved \subseteq moved',
           \A r \in Sessions : txn'[r] = txn[r] \/ \A tenant \in Tenants, u \in Users, d \in Days :
                                                       ~Approved(r, tenant, u, d)'
    PROVE  WeightInv'
<1>1. Slots' = Slots
  BY DEF Slots
<1>2. ASSUME NEW tenant \in Tenants, NEW u \in Users, NEW d \in Days
      PROVE  \E w \in [AllocIds -> Percentages] : Weighs(w, tenant, u, d)'
  <2>1. PICK w \in [AllocIds -> Percentages] : Weighs(w, tenant, u, d)
    BY DEF WeightInv
  <2>2. \A b \in AllocIds : Active(b, tenant, u, d)' => allocs'[b].pct <= w[b]
    BY <2>1 DEF Weighs, Active
  <2>3. \A r \in Sessions : Approved(r, tenant, u, d)' => txn'[r].row.pct <= w[txn'[r].id]
    BY <2>1 DEF Weighs, Approved
  <2> QED BY <1>1, <2>1, <2>2, <2>3 DEF Weighs
<1> QED BY <1>2 DEF WeightInv

\* A commit gives an allocation no more than its weight: either the percentage that was
\* approved for the days it was approved for, or the one that it had.
LEMMA CommitWeight ==
    ASSUME MCInv, NEW s \in Sessions, Commit(s), txn[s].op # "leave", part' = part,
           moved' = moved \cup Unlooked
    PROVE  WeightInv'
<1> DEFINE t == txn[s]  a == txn[s].id  row == Written(s)
<1>1. /\ t \in AllocTxn /\ t.op \in {"create", "checked", "update", "delete"} /\ RelyAlloc(s)
      /\ a \in AllocIds /\ t.row \in AllocRow /\ t.seen \in AllocRow
      /\ row # Unused /\ row \in AllocRow /\ allocs'[a] = row
      /\ \A b \in AllocIds \ {a} : allocs'[b] = allocs[b]
      /\ txn'[s] = Idle /\ \A r \in Sessions \ {s} : txn'[r] = txn[r]
      /\ t.op # "create" =>
           /\ allocs[a] \in AllocRow
           /\ row.tenant = allocs[a].tenant /\ row.user = allocs[a].user
           /\ row.start = allocs[a].start
           /\ row.pct = Column(t.seen.pct, t.row.pct, allocs[a].pct)
           /\ row.end = Column(t.seen.end, t.row.end, allocs[a].end)
           /\ row.deleted = Column(t.seen.deleted, t.row.deleted, allocs[a].deleted)
  <2>1. AllocInv
    BY DEF MCInv, IInv, AllocInv
  <2> QED BY <2>1, CommitAlloc
<1>2. t.op = "create" => row = t.row
  BY DEF Written
<1>3. Slots' = Slots
  BY DEF Slots
<1>4. t # Idle /\ part # "leaves"
  BY <1>1 DEF Idle, MCInv, InPart
<1> HIDE DEF row
<1>5. t.op # "create" =>
        /\ t.row.tenant = t.seen.tenant /\ allocs[a].tenant = t.seen.tenant
        /\ t.row.user = t.seen.user /\ allocs[a].user = t.seen.user
        /\ t.row.start = t.seen.start /\ allocs[a].start = t.seen.start
        /\ t.op = "delete" => t.row.pct = t.seen.pct /\ t.row.end = t.seen.end /\ t.row.deleted
        /\ t.op # "delete" => t.row.deleted = t.seen.deleted
        /\ t.op = "update" => t.row.pct = t.seen.pct
        /\ allocs[a] # Unused
  BY <1>1 DEF RelyAlloc
<1>6. t.op # "create" =>
        /\ part = "serial" => allocs[a] = t.seen
        /\ a \notin moved => ~Later(allocs[a].end, t.seen.end)
  BY <1>1 DEF MCInv, EndsInv
<1>6a. ASSUME t.op # "create", a \notin moved', ~(part = "serial" /\ t.op = "checked")
       PROVE  a \notin moved /\ ~Later(row.end, allocs[a].end)
  <2>1. a \notin Unlooked /\ a \notin moved
    BY <1>6a
  <2>2. CASE part = "serial"
    <3>1. \A r \in Sessions : txn[r].op # "checked"
      BY <1>1, <1>6a, <2>2 DEF MCInv, InPart, Idle
    <3>2. Guarded = {}
      BY <3>1 DEF Guarded
    <3>3. a \notin Extended
      BY <2>1, <2>2, <3>2 DEF Unlooked
    <3> QED BY <1>1, <1>5, <1>6a, <2>1, <3>3 DEF Extended
  <2>3. CASE part # "serial"
    <3>1. a \notin Extended
      BY <2>1, <2>3 DEF Unlooked
    <3> QED BY <1>1, <1>5, <1>6a, <2>1, <3>1 DEF Extended
  <2> QED BY <2>2, <2>3
<1>6b. ASSUME NEW d \in Days, NEW r1 \in AllocRow, NEW r2 \in AllocRow,
              r1.start = r2.start, OnDay(r1, d), ~Later(r1.end, r2.end)
       PROVE  OnDay(r2, d)
  <2>1. d \in Int /\ r1.end \in Int /\ r2.end \in Int
    BY DaysAssumption DEF AllocRow, None
  <2> QED BY <1>6b, <2>1 DEF OnDay, Later
<1> HIDE DEF t, a
<1>7. ASSUME NEW b \in AllocIds, b = a,
             NEW tenant \in Tenants, NEW u \in Users, NEW d \in Days,
             NEW w \in [AllocIds -> Percentages], Weighs(w, tenant, u, d),
             Active(b, tenant, u, d)'
      PROVE  row.pct <= w[b]
  <2>1. row.tenant = tenant /\ row.user = u /\ ~row.deleted /\ OnDay(row, d) /\ a \notin moved'
    BY <1>1, <1>7 DEF Active
  <2>2. ASSUME Approved(s, tenant, u, d) PROVE t.row.pct <= w[b]
    BY <1>7, <2>2 DEF Weighs, t, a
  <2>3. ASSUME Active(b, tenant, u, d) PROVE allocs[a].pct <= w[b]
    BY <1>7, <2>3 DEF Weighs
  <2>4. CASE t.op = "create"
    BY <1>2, <2>1, <2>2, <2>4 DEF Approved, t
  <2>5. t.op # "create" => ~allocs[a].deleted
    <3> SUFFICES ASSUME t.op # "create" PROVE ~allocs[a].deleted
      OBVIOUS
    <3>1. t.row.deleted \in BOOLEAN /\ t.seen.deleted \in BOOLEAN /\ allocs[a].deleted \in BOOLEAN
      BY <1>1 DEF AllocRow
    <3>2. t.op = "delete" => t.row.deleted
      BY <1>5
    <3>3. t.op # "delete" => t.row.deleted = t.seen.deleted
      BY <1>1, <1>5
    <3>4. ~Column(t.seen.deleted, t.row.deleted, allocs[a].deleted)
      BY <1>1, <2>1
    <3> QED BY <3>1, <3>2, <3>3, <3>4 DEF Column
  <2>6. CASE t.op # "create" /\ OnDay(allocs[a], d) /\ row.pct = allocs[a].pct
    <3>1. a \notin moved
      BY <2>1, moved' = moved \cup Unlooked
    <3>2. Active(b, tenant, u, d)
      BY <1>1, <1>5, <1>7, <2>1, <2>5, <2>6, <3>1 DEF Active
    <3> QED BY <2>3, <2>6, <3>2
  <2>7. CASE t.op = "checked" /\ OnDay(t.row, d) /\ row.pct = t.row.pct
                              /\ (t.row.pct # t.seen.pct \/ t.row.end # t.seen.end)
    <3>1. t.row.tenant = tenant /\ t.row.user = u
      BY <1>1, <1>5, <2>1, <2>7
    <3>2. Approved(s, tenant, u, d)
      BY <2>7, <3>1 DEF Approved, t
    <3> QED BY <2>2, <2>7, <3>2
  <2>8. CASE t.op \in {"update", "delete"}
    <3>1. row.pct = allocs[a].pct
      BY <1>1, <1>5, <2>8 DEF Column
    <3>2. ~Later(row.end, allocs[a].end)
      BY <1>6a, <2>1, <2>8
    <3>3. OnDay(allocs[a], d)
      BY <1>1, <1>6b, <2>1, <2>8, <3>2
    <3> QED BY <2>6, <2>8, <3>1, <3>3
  <2>9. CASE t.op = "checked" /\ part = "serial"
    <3>1. row.pct = t.row.pct /\ row.end = t.row.end /\ allocs[a] = t.seen
      BY <1>1, <1>6, <2>9 DEF Column
    <3>2. OnDay(t.row, d)
      BY <1>1, <1>5, <2>1, <2>9, <3>1 DEF OnDay
    <3>3. CASE t.row.pct = t.seen.pct /\ t.row.end = t.seen.end
      BY <1>5, <2>6, <2>9, <3>1, <3>2, <3>3 DEF OnDay
    <3> QED BY <2>7, <2>9, <3>1, <3>2, <3>3
  <2>10. CASE t.op = "checked" /\ part # "serial"
    <3>1. a \notin moved /\ ~Later(row.end, allocs[a].end) /\ ~Later(allocs[a].end, t.seen.end)
      BY <1>6, <1>6a, <2>1, <2>10
    <3>2. OnDay(allocs[a], d)
      BY <1>1, <1>6b, <2>1, <2>10, <3>1
    <3>3. CASE t.row.pct = t.seen.pct
      <4>1. row.pct = allocs[a].pct
        BY <1>1, <2>10, <3>3 DEF Column
      <4> QED BY <2>6, <2>10, <3>2, <4>1
    <3>4. CASE t.row.pct # t.seen.pct
      <4>1. row.pct = t.row.pct
        BY <1>1, <2>10, <3>4 DEF Column
      <4>2. t.row.start = row.start /\ t.row.start = allocs[a].start /\ t.seen.start = t.row.start
        BY <1>1, <1>5, <2>10
      <4>3. OnDay(t.seen, d)
        BY <1>1, <1>6b, <2>10, <3>1, <3>2, <4>2
      <4>4. OnDay(t.row, d)
        BY <1>1, <2>1, <2>10, <4>2, <4>3 DEF OnDay, Column
      <4> QED BY <2>7, <2>10, <3>4, <4>1, <4>4
    <3> QED BY <3>3, <3>4
  <2> QED BY <1>1, <2>4, <2>8, <2>9, <2>10
<1>8. ASSUME NEW tenant \in Tenants, NEW u \in Users, NEW d \in Days
      PROVE  \E w \in [AllocIds -> Percentages] : Weighs(w, tenant, u, d)'
  <2>1. PICK w \in [AllocIds -> Percentages] : Weighs(w, tenant, u, d)
    BY DEF MCInv, WeightInv
  <2>2. ASSUME NEW b \in AllocIds, Active(b, tenant, u, d)' PROVE allocs'[b].pct <= w[b]
    <3>1. CASE b = a
      BY <1>1, <1>7, <2>1, <2>2, <3>1
    <3>2. CASE b # a
      BY <1>1, <2>1, <2>2, <3>2 DEF Weighs, Active
    <3> QED BY <3>1, <3>2
  <2>3. ASSUME NEW r \in Sessions, Approved(r, tenant, u, d)'
        PROVE  txn'[r].row.pct <= w[txn'[r].id]
    <3>1. r # s
      BY <1>1, <2>3 DEF Approved, Idle
    <3> QED BY <1>1, <2>1, <2>3, <3>1 DEF Weighs, Approved
  <2> QED BY <1>3, <2>1, <2>2, <2>3 DEF Weighs
<1> QED BY <1>8 DEF WeightInv

\* Open changes still have what they read, in the sense of EndsInv.
LEMMA NextEnds == MCInv /\ PartsNext => EndsInv'
<1> SUFFICES ASSUME MCInv, PartsNext PROVE EndsInv'
  OBVIOUS
<1>0. /\ TypeOK /\ AllocInv /\ IInv /\ InPart /\ InPart' /\ part' = part /\ EndsInv
      /\ moved' = moved \cup Unlooked /\ moved \subseteq moved'
  BY DEF MCInv, IInv, AllocInv, PartsNext
<1>1. ASSUME allocs' = allocs, \A r \in Sessions : txn'[r] = Idle \/ txn'[r] = txn[r]
      PROVE  EndsInv'
  BY <1>0, <1>1 DEF EndsInv, Idle
<1>2. ASSUME NEW ctx \in Contexts, NEW l \in LeaveIds, CreateLeave(ctx, l) PROVE EndsInv'
  BY <1>1, <1>2 DEF CreateLeave
<1>3. ASSUME NEW s \in Sessions, NEW ctx \in Contexts, Request(s, ctx) PROVE EndsInv'
  <2>1. /\ allocs' = allocs /\ \A r \in Sessions \ {s} : txn'[r] = txn[r]
        /\ OpensCreate(txn'[s]) \/ OpensChange(txn'[s]) \/ OpensLeave(txn'[s])
    BY <1>0, <1>3, RequestOpens
  <2>2. txn'[s].op \in {"check", "checked", "update", "delete"} => allocs[txn'[s].id] = txn'[s].seen
    BY <2>1 DEF OpensCreate, OpensChange, OpensLeave
  <2>3. txn'[s].op \in {"check", "checked", "update", "delete"} =>
          ~Later(allocs[txn'[s].id].end, txn'[s].seen.end)
    <3> SUFFICES ASSUME txn'[s].op \in {"check", "checked", "update", "delete"}
                 PROVE  ~Later(allocs[txn'[s].id].end, txn'[s].seen.end)
      OBVIOUS
    <3>1. OpensChange(txn'[s])
      BY <2>1 DEF OpensCreate, OpensLeave
    <3>2. txn'[s].seen \in AllocRow
      BY <3>1 DEF OpensChange, AllocTxn
    <3>3. txn'[s].seen.end \in Int
      BY <3>2, EndType
    <3> QED BY <2>2, <3>3 DEF Later
  <2> QED BY <1>0, <2>1, <2>2, <2>3 DEF EndsInv
<1>4. ASSUME NEW s \in Sessions, CheckUpdate(s) PROVE EndsInv'
  <2>1. /\ txn[s].op = "check" /\ allocs' = allocs /\ \A r \in Sessions \ {s} : txn'[r] = txn[r]
        /\ txn'[s].id = txn[s].id /\ txn'[s].seen = txn[s].seen
    BY <1>0, <1>4, CheckAllocInv
  <2> QED BY <1>0, <2>1 DEF EndsInv
<1>5. ASSUME NEW s \in Sessions, Commit(s), txn[s].op # "leave" PROVE EndsInv'
  <2> SUFFICES ASSUME NEW r \in Sessions, txn'[r].op \in {"check", "checked", "update", "delete"}
               PROVE  /\ part = "serial" => allocs'[txn'[r].id] = txn'[r].seen
                      /\ txn'[r].id \notin moved' => ~Later(allocs'[txn'[r].id].end, txn'[r].seen.end)
    BY <1>0 DEF EndsInv
  <2> DEFINE t == txn[s]  a == txn[s].id  row == Written(s)
  <2>1. /\ t.op \in {"create", "checked", "update", "delete"} /\ RelyAlloc(s)
        /\ allocs'[a] = row /\ \A b \in AllocIds \ {a} : allocs'[b] = allocs[b]
        /\ txn'[s] = Idle /\ \A q \in Sessions \ {s} : txn'[q] = txn[q]
        /\ a \in AllocIds /\ row \in AllocRow
    BY <1>0, <1>5, CommitAlloc
  <2>2. r # s /\ txn'[r] = txn[r] /\ t # Idle /\ txn[r] # Idle
    BY <2>1 DEF Idle
  <2>3. part # "serial"
    BY <1>0, <2>2 DEF InPart
  <2>4. txn[r].id \in AllocIds /\ RelyAlloc(r) /\ txn[r].seen \in AllocRow
    BY <1>0, <2>2, TxnType DEF AllocTxn, AllocInv
  <2> HIDE DEF row
  <2>5. CASE txn[r].id = a /\ a \notin moved'
    <3>1. a \notin moved /\ a \notin Extended
      BY <1>0, <2>3, <2>5 DEF Unlooked
    <3>2. allocs[a] # Unused
      BY <2>2, <2>4, <2>5 DEF RelyAlloc
    <3>3. ~Later(row.end, allocs[a].end)
      BY <2>1, <3>1, <3>2 DEF Extended
    <3>4. ~Later(allocs[a].end, txn[r].seen.end)
      BY <1>0, <2>2, <2>5, <3>1 DEF EndsInv
    <3>5. allocs[a] \in AllocRow
      BY <1>0, <2>1, <3>2 DEF TypeOK
    <3>6. row.end \in Int /\ allocs[a].end \in Int /\ txn[r].seen.end \in Int
      BY <2>1, <2>4, <3>5, EndType
    <3>7. ~Later(row.end, txn[r].seen.end)
      BY <3>3, <3>4, <3>6 DEF Later
    <3> QED BY <2>1, <2>2, <2>3, <2>5, <3>7
  <2>6. CASE txn[r].id # a
    <3>1. allocs'[txn[r].id] = allocs[txn[r].id]
      BY <2>1, <2>4, <2>6
    <3> QED BY <1>0, <2>2, <2>3, <3>1 DEF EndsInv
  <2>7. CASE txn[r].id = a /\ a \in moved'
    BY <2>2, <2>3, <2>7
  <2> QED BY <2>5, <2>6, <2>7
<1>6. ASSUME NEW s \in Sessions, Commit(s) \/ Rollback(s),
             Commit(s) => txn[s].op = "leave"
      PROVE  EndsInv'
  <2>1. allocs' = allocs /\ txn' = [txn EXCEPT ![s] = Idle]
    BY <1>6 DEF Commit, Rollback
  <2> QED BY <1>0, <1>1, <2>1 DEF TypeOK
<1> QED BY <1>2, <1>3, <1>4, <1>5, <1>6 DEF PartsNext, Next

\* Every change that can still push somebody up has been weighed in.
LEMMA NextWeights ==
    ASSUME MCInv, PartsNext
    PROVE  WeightInv'
<1>0. /\ TypeOK /\ AllocInv /\ InPart /\ InPart' /\ part' = part /\ WeightInv
      /\ moved' = moved \cup Unlooked /\ moved \subseteq moved'
  BY DEF MCInv, IInv, AllocInv, PartsNext
<1>1. ASSUME allocs' = allocs, \A r \in Sessions : txn'[r] = Idle \/ txn'[r] = txn[r]
      PROVE  WeightInv'
  BY <1>0, <1>1, WeightsStand DEF Approved, Idle
<1>2. ASSUME NEW ctx \in Contexts, NEW l \in LeaveIds, CreateLeave(ctx, l) PROVE WeightInv'
  BY <1>1, <1>2 DEF CreateLeave
<1>3. ASSUME NEW s \in Sessions, NEW ctx \in Contexts, Request(s, ctx) PROVE WeightInv'
  <2>1. /\ txn[s] = Idle /\ txn'[s] # Idle /\ allocs' = allocs
        /\ \A r \in Sessions \ {s} : txn'[r] = txn[r]
        /\ OpensCreate(txn'[s]) \/ OpensChange(txn'[s]) \/ OpensLeave(txn'[s])
    BY <1>0, <1>3, RequestOpens
  <2>2. part = "serial" => \A r \in Sessions \ {s} : txn[r] = Idle
    BY <1>0, <2>1 DEF InPart
  <2>3. CASE OpensCreate(txn'[s])
    <3>1. /\ txn'[s] \in AllocTxn /\ allocs[txn'[s].id] = Unused
          /\ CheckOverAllocation(txn'[s].row.tenant, txn'[s].row, {})
      BY <2>3 DEF OpensCreate
    <3>2. txn[s].op \notin {"create", "checked"} /\ {} \in SUBSET {txn'[s].id}
      BY <2>1 DEF Idle
    <3> QED BY <1>0, <2>1, <2>2, <3>1, <3>2, ApproveWeight
  <2>4. CASE OpensChange(txn'[s]) \/ OpensLeave(txn'[s])
    <3>1. txn'[s].op \notin {"create", "checked"}
      BY <2>4 DEF OpensChange, OpensLeave
    <3>2. \A tenant \in Tenants, u \in Users, d \in Days : ~Approved(s, tenant, u, d)'
      BY <3>1 DEF Approved
    <3> QED BY <1>0, <2>1, <3>2, WeightsStand
  <2> QED BY <2>1, <2>3, <2>4
<1>4. ASSUME NEW s \in Sessions, CheckUpdate(s) PROVE WeightInv'
  <2>1. /\ txn[s].op = "check" /\ allocs' = allocs /\ \A r \in Sessions \ {s} : txn'[r] = txn[r]
        /\ txn'[s] \in AllocTxn /\ txn'[s].id = txn[s].id /\ txn'[s].row = txn[s].row
    BY <1>0, <1>4, CheckAllocInv
  <2>2. CheckOverAllocation(txn[s].row.tenant, txn[s].row, {txn[s].id})
    BY <1>4 DEF CheckUpdate
  <2>3. CheckOverAllocation(txn'[s].row.tenant, txn'[s].row, {txn'[s].id})
    BY <2>1, <2>2
  <2>4. part = "serial" => \A r \in Sessions \ {s} : txn[r] = Idle
    BY <1>0, <2>1 DEF InPart, Idle
  <2>5. {txn'[s].id} \in SUBSET {txn'[s].id} /\ {txn'[s].id} # {} /\ txn[s].op \notin {"create", "checked"}
    BY <2>1
  <2> QED BY <1>0, <2>1, <2>3, <2>4, <2>5, ApproveWeight
<1>5. ASSUME NEW s \in Sessions, Commit(s), txn[s].op # "leave" PROVE WeightInv'
  BY <1>0, <1>5, CommitWeight
<1>6. ASSUME NEW s \in Sessions, Commit(s) \/ Rollback(s),
             Commit(s) => txn[s].op = "leave"
      PROVE  WeightInv'
  <2>1. allocs' = allocs /\ txn' = [txn EXCEPT ![s] = Idle]
    BY <1>6 DEF Commit, Rollback
  <2> QED BY <1>0, <1>1, <2>1 DEF TypeOK
<1> QED BY <1>2, <1>3, <1>4, <1>5, <1>6 DEF PartsNext, Next

\* Every step keeps the invariant.
LEMMA NextMCInv ==
    MCInv /\ [PartsNext]_mcVars => MCInv'
<1> SUFFICES ASSUME MCInv, [PartsNext]_mcVars PROVE MCInv'
  OBVIOUS
<1>1. CASE PartsNext
  <2>1. IInv'
    BY <1>1, NextIInv DEF MCInv, PartsNext
  <2>2. InPart' /\ part' = part /\ moved' \subseteq AllocIds
    BY <1>1 DEF MCInv, PartsNext, Unlooked, Extended
  <2> QED BY <1>1, <2>1, <2>2, NextEnds, NextWeights DEF MCInv
<1>2. CASE UNCHANGED mcVars
  <2>1. allocs' = allocs /\ leaves' = leaves /\ txn' = txn /\ part' = part /\ moved' = moved
    BY <1>2 DEF mcVars, vars
  <2>2. IInv'
    BY <2>1, NextIInv DEF MCInv, vars
  <2>3. InPart' /\ EndsInv'
    BY <2>1 DEF MCInv, InPart, EndsInv
  <2>4. WeightInv'
    BY <2>1, WeightsStand DEF MCInv
  <2> QED BY <2>1, <2>2, <2>3, <2>4 DEF MCInv
<1> QED BY <1>1, <1>2

\* Nothing is allocated, and no weight is needed, at the start.
LEMMA InitMCInv == MCInit => MCInv
<1> SUFFICES ASSUME MCInit PROVE MCInv
  OBVIOUS
<1>1. Init /\ part \in {"serial", "overlap", "leaves"} /\ IInv
  BY InitIInv DEF MCInit
<1>2. InPart /\ EndsInv /\ moved \subseteq AllocIds
  BY <1>1 DEF MCInit, Init, InPart, EndsInv, Idle
<1>3. Slots \in Nat
  BY FinitenessAssumption, FS_CardinalityType DEF Slots
<1>4. WeightInv
  <2> DEFINE w == [a \in AllocIds |-> 0]
  <2>1. w \in [AllocIds -> Percentages] /\ \A a \in AllocIds : w[a] \in {0}
    BY DEF Percentages
  <2> HIDE DEF w
  <2>2. 0 \in {0} /\ \A m, n \in {0} : m + n \in {0}
    OBVIOUS
  <2>3. SumFunctionOnSet(w, AllocIds) \in {0}
    BY <2>1, <2>2, FinitenessAssumption, SumType
  <2>4. SumFunctionOnSet(w, AllocIds) <= 100 * Slots
    BY <1>3, <2>3
  <2>5. ASSUME NEW tenant \in Tenants, NEW u \in Users, NEW d \in Days
        PROVE  Weighs(w, tenant, u, d)
    BY <1>1, <2>4 DEF Weighs, Active, Approved, Init, Idle
  <2> QED BY <2>1, <2>5 DEF WeightInv
<1> QED BY <1>1, <1>2, <1>4 DEF MCInv

\* The invariant holds in every reachable state.
LEMMA MCInvariance ==
    PartsSpec => []MCInv
<1>1. MCInv /\ [PartsNext]_mcVars => MCInv'
  BY NextMCInv
<1> QED BY <1>1, InitMCInv, PTL DEF PartsSpec

\* What a list adds up to is no more than the weights do.
LEMMA LoadIsBounded ==
    ASSUME MCInv, NEW ctx \in Contexts, NEW u \in Users, NEW d \in Days
    PROVE  Load(ctx, u, d, moved) \in Int /\ Load(ctx, u, d, moved) <= 100 * Slots
<1> DEFINE has == [a \in AllocIds |-> IF allocs[a] = Unused THEN 0 ELSE allocs[a].pct]
           L == {a \in ListAllocations(ctx, u) \ moved :
                    allocs[a].start <= d /\ (allocs[a].end = None \/ allocs[a].end >= d)}
<1>1. PICK w \in [AllocIds -> Percentages] : Weighs(w, ctx.tenant, u, d)
  BY CallerType DEF MCInv, WeightInv
<1>2. L \subseteq AllocIds /\ \A a \in L : Active(a, ctx.tenant, u, d)
  BY DEF ListAllocations, FindAlloc, Active, OnDay
<1>3. Load(ctx, u, d, moved) = SumFunctionOnSet(has, L)
  BY DEF Load, Total
<1>4. \A a \in AllocIds : has[a] \in Nat /\ w[a] \in Nat
  BY DEF MCInv, IInv, TypeOK, AllocRow, Percentages
<1>5. \A a \in L : has[a] <= w[a]
  BY <1>1, <1>2 DEF Weighs, Active
<1> HIDE DEF has, L
<1>6. IsFiniteSet(AllocIds) /\ IsFiniteSet(L)
  BY <1>2, FinitenessAssumption, FS_Subset
<1>7. SumFunctionOnSet(has, L) <= SumFunctionOnSet(w, L) + 0 * Cardinality(L \cap {})
  <2>1. /\ \A a \in L : w[a] \in Nat /\ has[a] \in Nat
        /\ \A a \in L \ {} : has[a] <= w[a]
        /\ \A a \in L \cap {} : has[a] <= w[a] + 0
    BY <1>2, <1>4, <1>5
  <2> QED BY <1>6, <2>1, SumRaised
<1>8. SumFunctionOnSet(w, L) <= SumFunctionOnSet(w, AllocIds)
  BY <1>2, <1>4, <1>6, SumOfPart
<1>9. Cardinality(L \cap {}) = 0
  BY FS_EmptySet, L \cap {} = {}
<1>10. /\ SumFunctionOnSet(has, L) \in Int /\ SumFunctionOnSet(w, L) \in Int
       /\ SumFunctionOnSet(w, AllocIds) \in Int
  <2>1. 0 \in Int /\ \A m, n \in Int : m + n \in Int
    OBVIOUS
  <2>2. \A a \in AllocIds : has[a] \in Int /\ w[a] \in Int
    BY <1>4
  <2>3. SumFunctionOnSet(has, L) \in Int
    BY <1>2, <1>6, <2>1, <2>2, SumType
  <2>4. SumFunctionOnSet(w, L) \in Int
    BY <1>2, <1>6, <2>1, <2>2, SumType
  <2>5. SumFunctionOnSet(w, AllocIds) \in Int
    BY <1>6, <2>1, <2>2, SumType
  <2> QED BY <2>3, <2>4, <2>5
<1>11. Slots \in Nat /\ SumFunctionOnSet(w, AllocIds) <= 100 * Slots
  BY <1>1, FinitenessAssumption, FS_CardinalityType DEF Weighs, Slots
<1> QED BY <1>3, <1>7, <1>8, <1>9, <1>10, <1>11

\* Requests one after the other never allocate anybody above 100 % on any day, whatever dates
\* they move and whatever bodies clients send, as far as _check_over_allocation is run: a PATCH
\* without a percentage that moves an allocation to later days is what it does not see.
THEOREM SerialNeverOverallocatedAlways ==
    PartsSpec => []SerialNeverOverallocated
<1>1. MCInv => SerialNeverOverallocated
  <2> SUFFICES ASSUME MCInv, part = "serial", NEW ctx \in Contexts, NEW u \in Users, NEW d \in Days
               PROVE  Load(ctx, u, d, moved) <= 100
    BY DEF SerialNeverOverallocated
  <2>1. Slots \in {0, 1}
    BY FS_EmptySet DEF Slots
  <2> QED BY <2>1, LoadIsBounded
<1> QED BY <1>1, MCInvariance, PTL

\* Requests that overlap can each pass the guard of create_allocation or update_allocation
\* without seeing the others, but nobody gets above 100 % times the requests in flight,
\* allocations apart that have been moved to later days: whatever else PATCHes change.
THEOREM ExcessIsBoundedAlways ==
    PartsSpec => []ExcessIsBounded
<1>1. MCInv => ExcessIsBounded
  <2> SUFFICES ASSUME MCInv, NEW ctx \in Contexts, NEW u \in Users, NEW d \in Days
               PROVE  Load(ctx, u, d, moved) <= 100 * Cardinality(Sessions)
    BY DEF ExcessIsBounded
  <2>1. Cardinality(Sessions) \in Nat /\ (Sessions # {} => Cardinality(Sessions) # 0)
    BY FinitenessAssumption, FS_CardinalityType, FS_EmptySet
  <2>2. Slots \in Nat /\ Slots <= Cardinality(Sessions)
    BY <2>1 DEF Slots
  <2> QED BY <2>1, <2>2, LoadIsBounded
<1> QED BY <1>1, MCInvariance, PTL


=============================================================================
