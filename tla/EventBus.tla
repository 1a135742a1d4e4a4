------------------------------ MODULE EventBus ------------------------------
(***************************************************************************)
(* The event bus: EventPublisher and EventConsumer over Redis Streams      *)
(* (src/shared/events).  The consumer group of one service is modelled     *)
(* with the processes that run its loop; all of them read under the same   *)
(* consumer name.  Redis itself (XADD, XREADGROUP, XACK, XAUTOCLAIM) is    *)
(* external and modelled from these calls.                                 *)
(*                                                                         *)
(* Faults are the crash or the stop of a process, a handler that raises, a *)
(* reply of Redis that is lost after the command took effect, and a group  *)
(* that cannot be created.                                                 *)
(***************************************************************************)
EXTENDS Integers, Sequences, FiniteSets

CONSTANTS
    Streams, Procs,
    Types,          \* event types that are published
    Handlers,       \* event types the consumer has registered
    BatchSize,      \* count of XREADGROUP and XAUTOCLAIM, per stream
    MaxLen,         \* maxlen of XADD
    MaxPublished,   \* bound: events per stream
    MaxFaults       \* bound: faults in a behaviour

ASSUME HandlersAssumption == Handlers \subseteq Types
ASSUME StreamsAssumption == IsFiniteSet(Streams)
ASSUME NumbersAssumption ==
    /\ {BatchSize, MaxLen} \subseteq Nat \ {0}
    /\ {MaxPublished, MaxFaults} \subseteq Nat

Msgs == Streams \X (1 .. MaxPublished)

VARIABLES
    groups,     \* the streams on which the group exists
    log,        \* per stream, the types of the entries ever added
    trimmed,    \* per stream, how many of the oldest are gone
    delivered,  \* per stream, the group's last-delivered entry
    pending,    \* the group's pending entries list
    loop,       \* where each process is: "down", "read", "handle", "ack", "reclaim"
    batch,      \* what each process has read and not yet dealt with
    done,       \* auxiliary: the messages whose handler returned, in that order
    faults      \* auxiliary: how many faults there were

vars == <<groups, log, trimmed, delivered, pending, loop, batch, done, faults>>
redis == <<groups, log, trimmed, delivered, pending>>

TypeOK ==
    /\ groups \subseteq Streams
    /\ \A st \in Streams : log[st] \in Seq(Types) /\ Len(log[st]) <= MaxPublished
    /\ trimmed \in [Streams -> 0 .. MaxPublished]
    /\ delivered \in [Streams -> 0 .. MaxPublished]
    /\ pending \subseteq Msgs
    /\ loop \in [Procs -> {"down", "read", "handle", "ack", "reclaim"}]
    /\ \A p \in Procs :
        /\ batch[p] \in Seq(Msgs)
        /\ batch[p] # <<>> <=> loop[p] \in {"handle", "ack"}
    /\ done \in Seq(Msgs)
    /\ faults \in 0 .. MaxFaults

Init ==
    /\ groups = {}
    /\ log = [st \in Streams |-> <<>>]
    /\ trimmed = [st \in Streams |-> 0]
    /\ delivered = [st \in Streams |-> 0]
    /\ pending = {}
    /\ loop = [p \in Procs |-> "down"]
    /\ batch = [p \in Procs |-> <<>>]
    /\ done = <<>>
    /\ faults = 0

Type(m) == log[m[1]][m[2]]
Registered(m) == Type(m) \in Handlers
Gone(m) == m[2] <= trimmed[m[1]]

Fault == faults < MaxFaults /\ faults' = faults + 1

-----------------------------------------------------------------------------
\* EventPublisher.publish.  With approximate=True, Redis keeps at least MaxLen of the
\* entries and removes none, some or all of the older ones.
Publish(st, type) ==
    /\ Len(log[st]) < MaxPublished
    /\ log' = [log EXCEPT ![st] = Append(@, type)]
    /\ \E n \in trimmed[st] .. MaxPublished :
        /\ n = trimmed[st] \/ n <= Len(log[st]) + 1 - MaxLen
        /\ trimmed' = [trimmed EXCEPT ![st] = n]
    /\ UNCHANGED <<groups, delivered, pending, loop, batch, done, faults>>

\* Plausible slip: the group is created at the end of the stream ("$").
Start_AtEnd(p) ==
    /\ loop[p] = "down"
    /\ loop' = [loop EXCEPT ![p] = "read"]
    /\ groups' = Streams
    /\ delivered' = [st \in Streams |-> Len(log[st])]
    /\ UNCHANGED <<log, trimmed, pending, batch, done, faults>>

\* start(): _ensure_groups creates a missing group at entry 0 and leaves others alone.
Start(p) ==
    /\ loop[p] = "down"
    /\ loop' = [loop EXCEPT ![p] = "read"]
    /\ groups' = Streams
    /\ UNCHANGED <<log, trimmed, delivered, pending, batch, done, faults>>

\* ... for each stream on its own: an error is logged like that of a group that exists, and
\* until the next start nothing creates the group.
StartFails(p) ==
    /\ loop[p] = "down"
    /\ Fault
    /\ loop' = [loop EXCEPT ![p] = "read"]
    /\ \E created \in SUBSET Streams : groups' = groups \cup created
    /\ UNCHANGED <<log, trimmed, delivered, pending, batch, done>>

\* Up to here ">" asks for nothing: the group is past it, or it is gone.
Passed(st) == IF delivered[st] < trimmed[st] THEN trimmed[st] ELSE delivered[st]

\* What XREADGROUP returns of one stream: the oldest of the other entries.
Chunk(st) ==
    LET unread == Len(log[st]) - Passed(st)
    IN  [i \in 1 .. (IF unread < BatchSize THEN unread ELSE BatchSize) |-> <<st, Passed(st) + i>>]

\* ... and of all streams, in the order of the request.
Chunks(order) ==
    LET msgs[i \in 0 .. Cardinality(Streams)] ==
            IF i = 0 THEN <<>> ELSE msgs[i - 1] \o Chunk(order[i])
    IN  msgs[Cardinality(Streams)]

\* XREADGROUP moves these messages into the pending list.
Deliver(S) ==
    /\ pending' = pending \cup S
    /\ delivered' = [st \in Streams |->
           LET ids == {m[2] : m \in {x \in S : x[1] = st}}
           IN  IF ids = {} THEN delivered[st] ELSE CHOOSE i \in ids : \A j \in ids : i >= j]
    /\ UNCHANGED <<groups, log, trimmed>>

Elems(seq) == {seq[i] : i \in DOMAIN seq}

\* The top of the loop: messages of one stream, or of several in the order of the
\* request; none when nothing came within block_ms.
Read(p) ==
    /\ loop[p] = "read" /\ groups = Streams
    /\ \E order \in [1 .. Cardinality(Streams) -> Streams] :
        /\ \A st \in Streams : \E i \in DOMAIN order : order[i] = st
        /\ Deliver(Elems(Chunks(order)))
        /\ batch' = [batch EXCEPT ![p] = Chunks(order)]
        /\ loop' = [loop EXCEPT ![p] = IF Chunks(order) = <<>> THEN "reclaim" ELSE "handle"]
    /\ UNCHANGED <<done, faults>>

\* NOGROUP, whatever the other streams have: "Consumer error", a pause, and the loop starts over.
ReadRefused(p) == loop[p] = "read" /\ groups # Streams /\ UNCHANGED vars

\* The reply is lost: the same.
ReadFails(p) ==
    /\ loop[p] = "read" /\ groups = Streams
    /\ Fault
    /\ Deliver(UNION {Elems(Chunk(st)) : st \in Streams})
    /\ UNCHANGED <<loop, batch, done>>

\* The loop goes on with the rest of its batch.
NextMessage(p) ==
    /\ batch' = [batch EXCEPT ![p] = Tail(@)]
    /\ loop' = [loop EXCEPT ![p] = IF Len(batch[p]) = 1 THEN "reclaim" ELSE "handle"]

\* _handle_message: the registered handler returns, or there is none.
Handle(p) ==
    /\ loop[p] = "handle"
    /\ done' = IF Registered(Head(batch[p])) THEN Append(done, Head(batch[p])) ELSE done
    /\ loop' = [loop EXCEPT ![p] = "ack"]
    /\ UNCHANGED <<redis, batch, faults>>

\* Plausible slip: a message is acknowledged even if its handler raised.
HandleFails_Acks(p) ==
    /\ loop[p] = "handle" /\ Registered(Head(batch[p]))
    /\ Fault /\ NextMessage(p)
    /\ pending' = pending \ {Head(batch[p])}
    /\ UNCHANGED <<groups, log, trimmed, delivered, done>>

\* ... or it raises, which is logged.
HandleFails(p) ==
    /\ loop[p] = "handle"
    /\ Registered(Head(batch[p]))
    /\ Fault
    /\ NextMessage(p)
    /\ UNCHANGED <<redis, done>>

\* Plausible slip: only messages that have a handler are acknowledged.
Ack_OnlyHandled(p) ==
    /\ loop[p] = "ack"
    /\ pending' = pending \ {m \in {Head(batch[p])} : Registered(m)}
    /\ NextMessage(p)
    /\ UNCHANGED <<groups, log, trimmed, delivered, done, faults>>

\* XACK
Ack(p) ==
    /\ loop[p] = "ack"
    /\ pending' = pending \ {Head(batch[p])}
    /\ NextMessage(p)
    /\ UNCHANGED <<groups, log, trimmed, delivered, done, faults>>

\* XACK raises before or after it took effect.
AckFails(p) ==
    /\ loop[p] = "ack"
    /\ Fault
    /\ pending' \in {pending, pending \ {Head(batch[p])}}
    /\ NextMessage(p)
    /\ UNCHANGED <<groups, log, trimmed, delivered, done>>

\* Plausible slip: the loop handles what it claims, though it may be in hand already.
Reclaim_Handles(p) ==
    /\ loop[p] = "reclaim"
    /\ \E m \in pending : batch' = [batch EXCEPT ![p] = <<m>>]
    /\ loop' = [loop EXCEPT ![p] = "handle"]
    /\ UNCHANGED <<redis, done, faults>>

\* _reclaim_stale.  The claimed messages stay pending under the same name, what
\* XAUTOCLAIM returns is discarded, and it drops entries that were trimmed.
Reclaim(p) ==
    /\ loop[p] = "reclaim"
    /\ \E stale \in SUBSET pending :
        /\ \A st \in Streams : Cardinality({m \in stale : m[1] = st}) <= BatchSize
        /\ pending' = pending \ {m \in stale : Gone(m)}
    /\ loop' = [loop EXCEPT ![p] = "read"]
    /\ UNCHANGED <<groups, log, trimmed, delivered, batch, done, faults>>

\* Plausible slip: the restarted process still has its batch.
Crash_KeepsBatch(p) ==
    /\ loop[p] # "down" /\ Fault
    /\ loop' = [loop EXCEPT ![p] = "down"]
    /\ UNCHANGED <<redis, batch, done>>

\* The process dies or its task is cancelled, which leaves _handle_message too.
Crash(p) ==
    /\ loop[p] # "down"
    /\ Fault
    /\ loop' = [loop EXCEPT ![p] = "down"]
    /\ batch' = [batch EXCEPT ![p] = <<>>]
    /\ UNCHANGED <<redis, done>>

\* stop(), possibly during the iteration before: the loop ends at its top.
Stop(p) ==
    /\ loop[p] = "read"
    /\ Fault
    /\ loop' = [loop EXCEPT ![p] = "down"]
    /\ UNCHANGED <<redis, batch, done>>

Step(p) == Start(p) \/ Read(p) \/ Handle(p) \/ Ack(p) \/ Reclaim(p)

Next ==
    \/ \E st \in Streams, type \in Types : Publish(st, type)
    \/ \E p \in Procs : Step(p)
    \/ \E p \in Procs : StartFails(p) \/ ReadRefused(p) \/ ReadFails(p) \/ HandleFails(p)
                        \/ AckFails(p) \/ Crash(p) \/ Stop(p)

\* asyncio runs the loop whenever it can go on, and a supervisor restarts the process.
Spec == Init /\ [][Next]_vars /\ \A p \in Procs : WF_vars(Step(p))

-----------------------------------------------------------------------------
(* Properties *)

\* XREADGROUP with ">" and the discarded result of XAUTOCLAIM together make delivery
\* at most once: no crash, lost reply or second process has a handler run twice for
\* the same message.
HandledAtMostOnce == \A i, j \in DOMAIN done : done[i] = done[j] => i = j

\* A message that the group has passed over was handled, has no handler, is still
\* pending, or fell to maxlen: XACK never hides a message that was not dealt with.
NothingIsSkipped ==
    \A m \in Msgs : m[2] <= delivered[m[1]] =>
        \/ m \in Elems(done) \/ m \in pending
        \/ ~Registered(m) \/ Gone(m)

\* While one process is all there is, handlers run in the order of publication, whatever fails.
HandledInOrder ==
    \A i, j \in DOMAIN done : (i < j /\ done[i][1] = done[j][1]) => done[i][2] < done[j][2]

\* Without faults, and as long as nothing is trimmed, every event with a handler is handled.
EventsAreHandled ==
    [](faults = 0 /\ \A st \in Streams : trimmed[st] = 0) =>
        \A m \in Msgs : (m[2] <= Len(log[m[1]]) /\ Registered(m)) ~> (m \in Elems(done))

\* Without faults no message stays pending for ever, whether it has a handler or not: the
\* loop acknowledges all of its batch before it reads on.
PendingIsResolved ==
    [](faults = 0) => \A m \in Msgs : (m \in pending) ~> (m \notin pending)

=============================================================================
