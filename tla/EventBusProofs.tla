--------------------------- MODULE EventBusProofs ---------------------------
(***************************************************************************)
(* Proofs about EventBus: whatever crashes, raises or is lost, no handler  *)
(* runs twice for a message, and no message is passed over in silence.     *)
(***************************************************************************)
EXTENDS MCEventBus, Induction, SequenceTheorems

-----------------------------------------------------------------------------
(* The invariant *)

\* The ids of one stream increase along the sequence.
Increasing(seq) ==
    \A i, j \in DOMAIN seq : (i < j /\ seq[i][1] = seq[j][1]) => seq[i][2] < seq[j][2]

Tables ==
    /\ log = [st \in Streams |-> log[st]]
    /\ batch = [p \in Procs |-> batch[p]]

\* The group has passed, and Redis has trimmed, entries that exist.
LogInv == \A st \in Streams : delivered[st] <= Len(log[st]) /\ trimmed[st] <= Len(log[st])

\* What is in hand or done was delivered, each message to one process.
DeliveredInv ==
    /\ \A m \in Elems(done) : m[2] <= delivered[m[1]]
    /\ \A p \in Procs : \A m \in Elems(batch[p]) : m[2] <= delivered[m[1]]
    /\ \A p \in Procs : Increasing(batch[p])
    /\ \A p, q \in Procs : p # q => Elems(batch[p]) \cap Elems(batch[q]) = {}

\* Of what a process has in hand, the head is done when its acknowledgement is due, and
\* nothing else is.
ProgressInv ==
    \A p \in Procs :
        /\ \A i \in DOMAIN batch[p] : loop[p] = "handle" \/ i > 1 => batch[p][i] \notin Elems(done)
        /\ loop[p] = "ack" => (Registered(batch[p][1]) => batch[p][1] \in Elems(done))

BusInv ==
    TypeOK /\ Tables /\ LogInv /\ DeliveredInv /\ ProgressInv /\ HandledAtMostOnce /\ NothingIsSkipped

\* What is done or in hand are messages.
LEMMA ElementsAreMessages ==
    ASSUME BusInv
    PROVE  /\ Elems(done) \subseteq Msgs
           /\ \A p \in Procs : batch[p] \in Seq(Msgs) /\ Elems(batch[p]) \subseteq Msgs
<1>1. \A seq \in Seq(Msgs) : Elems(seq) \subseteq Msgs
  <2>1. \A seq \in Seq(Msgs) : DOMAIN seq = 1 .. Len(seq)
    OBVIOUS
  <2> QED BY <2>1, ElementOfSeq DEF Elems
<1>2. done \in Seq(Msgs) /\ \A p \in Procs : batch[p] \in Seq(Msgs)
  BY DEF BusInv, TypeOK
<1> QED BY <1>1, <1>2

-----------------------------------------------------------------------------
(* What XREADGROUP returns *)

\* How many entries of a stream it returns.
Size(st) ==
    LET unread == Len(log[st]) - Passed(st)
    IN  IF unread <= 0 THEN 0 ELSE IF unread < BatchSize THEN unread ELSE BatchSize

\* The messages it returns of one stream follow the group's position and the trimmed ones.
LEMMA ChunkFacts ==
    ASSUME TypeOK, LogInv, NEW st \in Streams
    PROVE  /\ Chunk(st) \in Seq(Msgs) /\ Len(Chunk(st)) = Size(st) /\ Size(st) \in Nat
           /\ \A i \in 1 .. Size(st) : Chunk(st)[i] = <<st, Passed(st) + i>>
           /\ Passed(st) \in Nat /\ delivered[st] <= Passed(st) /\ trimmed[st] <= Passed(st)
           /\ Passed(st) + Size(st) <= Len(log[st])
           /\ \A i \in 1 .. Passed(st) : i <= delivered[st] \/ i <= trimmed[st]
<1>1. /\ Len(log[st]) \in Nat /\ Len(log[st]) <= MaxPublished /\ MaxPublished \in Nat
      /\ delivered[st] \in Nat /\ trimmed[st] \in Nat
      /\ delivered[st] <= Len(log[st]) /\ trimmed[st] <= Len(log[st])
      /\ BatchSize \in Nat \ {0}
  BY NumbersAssumption DEF TypeOK, LogInv
<1>2. /\ Passed(st) \in Nat /\ delivered[st] <= Passed(st) /\ trimmed[st] <= Passed(st)
      /\ Passed(st) <= Len(log[st])
      /\ \A i \in 1 .. Passed(st) : i <= delivered[st] \/ i <= trimmed[st]
  BY <1>1 DEF Passed
<1>3. Size(st) \in Nat /\ Passed(st) + Size(st) <= Len(log[st])
  BY <1>1, <1>2 DEF Size
<1>4. Chunk(st) = [i \in 1 .. Size(st) |-> <<st, Passed(st) + i>>]
  BY <1>1, <1>2 DEF Chunk, Size
<1>5. \A i \in 1 .. Size(st) : <<st, Passed(st) + i>> \in Msgs
  BY <1>1, <1>2, <1>3 DEF Msgs
<1>6. Chunk(st) \in Seq(Msgs) /\ Len(Chunk(st)) = Size(st)
  <2>1. Chunk(st) \in [1 .. Size(st) -> Msgs]
    BY <1>4, <1>5
  <2> QED BY <1>3, <2>1
<1>7. \A i \in 1 .. Size(st) : Chunk(st)[i] = <<st, Passed(st) + i>>
  BY <1>4
<1> QED BY <1>2, <1>3, <1>6, <1>7

\* The definition of Chunks is a recursion over the streams of the request.
LEMMA ChunksRecursion ==
    ASSUME NEW order
    PROVE  \E msgs : /\ msgs = [i \in 0 .. Cardinality(Streams) |->
                               IF i = 0 THEN <<>> ELSE msgs[i - 1] \o Chunk(order[i])]
                     /\ Chunks(order) = msgs[Cardinality(Streams)]
<1> DEFINE N == Cardinality(Streams)
           Longer(msgs, i) == msgs \o Chunk(order[i])
           Found == {n \in Nat : \E msgs : msgs = [i \in 0 .. n |->
                               IF i = 0 THEN <<>> ELSE Longer(msgs[i - 1], i)]}
<1> HIDE DEF Longer
<1>1. 0 \in Found
  <2> DEFINE g == [i \in 0 .. 0 |-> <<>>]
  <2>1. g = [i \in 0 .. 0 |-> IF i = 0 THEN <<>> ELSE Longer(g[i - 1], i)]
    OBVIOUS
  <2> QED BY <2>1
<1>2. ASSUME NEW n \in Nat, n \in Found PROVE n + 1 \in Found
  <2>1. PICK g : g = [i \in 0 .. n |-> IF i = 0 THEN <<>> ELSE Longer(g[i - 1], i)]
    BY <1>2
  <2> DEFINE h == [i \in 0 .. n + 1 |->
                   IF i = n + 1 THEN Longer(g[n], n + 1) ELSE g[i]]
  <2>2. h = [i \in 0 .. n + 1 |-> IF i = 0 THEN <<>> ELSE Longer(h[i - 1], i)]
    BY <2>1
  <2> HIDE DEF h
  <2>3. \E m : m = [i \in 0 .. n + 1 |-> IF i = 0 THEN <<>> ELSE Longer(m[i - 1], i)]
    BY <2>2
  <2> QED BY <2>3
<1> HIDE DEF Found
<1>3. N \in Nat
  BY StreamsAssumption, FS_CardinalityType
<1>4. N \in Found
  BY <1>1, <1>2, <1>3, SetInduction
<1>5. \E msgs : msgs = [i \in 0 .. N |-> IF i = 0 THEN <<>> ELSE Longer(msgs[i - 1], i)]
  BY <1>4 DEF Found
<1> DEFINE msgs == CHOOSE g : g = [i \in 0 .. N |->
                                    IF i = 0 THEN <<>> ELSE Longer(g[i - 1], i)]
<1>6. msgs = [i \in 0 .. N |-> IF i = 0 THEN <<>> ELSE Longer(msgs[i - 1], i)]
  BY <1>5
<1>7. Chunks(order) = msgs[N]
  BY DEF Chunks, Longer
<1> HIDE DEF msgs
<1> QED BY <1>6, <1>7 DEF Longer

\* One more stream's entries at the end.
LEMMA AppendedChunk ==
    ASSUME TypeOK, LogInv, NEW a \in Seq(Msgs), Increasing(a), NEW st \in Streams,
           \A m \in Elems(a) : m[1] # st
    PROVE  /\ a \o Chunk(st) \in Seq(Msgs) /\ Increasing(a \o Chunk(st))
           /\ Elems(a \o Chunk(st)) = Elems(a) \cup Elems(Chunk(st))
<1> DEFINE c == Chunk(st)
<1>1. /\ c \in Seq(Msgs) /\ Len(c) = Size(st) /\ Passed(st) \in Nat
      /\ \A i \in 1 .. Size(st) : c[i] = <<st, Passed(st) + i>>
  BY ChunkFacts
<1> HIDE DEF c
<1>6. \A i \in 1 .. Len(a) : a[i][1] # st
  BY DEF Elems
<1>2. /\ a \o c \in Seq(Msgs) /\ Len(a \o c) = Len(a) + Len(c)
      /\ \A i \in 1 .. Len(a) : (a \o c)[i] = a[i]
      /\ \A i \in 1 .. Len(c) : (a \o c)[Len(a) + i] = c[i]
      /\ \A i \in 1 .. Len(a) + Len(c) :
            i \in 1 .. Len(a) \/ (i - Len(a) \in 1 .. Len(c) /\ (a \o c)[i] = c[i - Len(a)])
  <2>1. Len(a) \in Nat /\ Len(c) \in Nat
    BY <1>1
  <2>2. a \o c \in Seq(Msgs) /\ Len(a \o c) = Len(a) + Len(c)
    BY <1>1, ConcatProperties
  <2>3. \A i \in 1 .. Len(a) + Len(c) : (a \o c)[i] = IF i <= Len(a) THEN a[i] ELSE c[i - Len(a)]
    BY <1>1, ConcatProperties
  <2> QED BY <2>1, <2>2, <2>3
<1>3. Elems(a \o c) = Elems(a) \cup Elems(c)
  <2>1. Range(a \o c) = Range(a) \cup Range(c)
    BY <1>1, RangeConcatenation
  <2> QED BY <2>1 DEF Elems, Range
<1>4. ASSUME NEW i \in 1 .. Len(a \o c), NEW j \in 1 .. Len(a \o c), i < j,
             (a \o c)[i][1] = (a \o c)[j][1]
      PROVE  (a \o c)[i][2] < (a \o c)[j][2]
  <2> DEFINE ac == a \o c
  <2>1. Len(a) \in Nat /\ Len(c) = Size(st) /\ Size(st) \in Nat /\ Len(ac) = Len(a) + Len(c)
    BY <1>1, <1>2
  <2>2. CASE j \in 1 .. Len(a)
    <3>1. i \in 1 .. Len(a) /\ ac[i] = a[i] /\ ac[j] = a[j]
      BY <1>2, <1>4, <2>1, <2>2
    <3>2. i \in DOMAIN a /\ j \in DOMAIN a
      BY <2>2, <3>1
    <3> QED BY <1>4, <3>1, <3>2 DEF Increasing
  <2>3. CASE j \notin 1 .. Len(a)
    <3> HIDE DEF ac
    <3>1. j - Len(a) \in 1 .. Size(st) /\ ac[j] = c[j - Len(a)]
      BY <1>2, <1>4, <2>1, <2>3 DEF ac
    <3>2. ac[j] = <<st, Passed(st) + (j - Len(a))>>
      BY <1>1, <3>1
    <3>3. i \notin 1 .. Len(a)
      BY <1>2, <1>4, <1>6, <3>2 DEF ac
    <3>4. i - Len(a) \in 1 .. Size(st) /\ ac[i] = c[i - Len(a)]
      BY <1>2, <1>4, <2>1, <3>3 DEF ac
    <3>5. ac[i] = <<st, Passed(st) + (i - Len(a))>>
      BY <1>1, <3>4
    <3>6. ac[i][2] < ac[j][2]
      BY <1>1, <1>4, <2>1, <3>2, <3>5
    <3> QED BY <3>6 DEF ac
  <2> QED BY <2>2, <2>3
<1>5. Increasing(a \o c)
  <2>1. DOMAIN (a \o c) = 1 .. Len(a \o c)
    BY <1>2
  <2> QED BY <1>4, <2>1 DEF Increasing
<1> QED BY <1>2, <1>3, <1>5 DEF c

\* XREADGROUP returns the chunk of each stream, and the entries of each in their order.
LEMMA ChunksFacts ==
    ASSUME TypeOK, LogInv, NEW order \in [1 .. Cardinality(Streams) -> Streams],
           \A st \in Streams : \E i \in DOMAIN order : order[i] = st
    PROVE  /\ Chunks(order) \in Seq(Msgs) /\ Increasing(Chunks(order))
           /\ Elems(Chunks(order)) = UNION {Elems(Chunk(st)) : st \in Streams}
<1> DEFINE N == Cardinality(Streams)
<1>1. N \in Nat
  BY StreamsAssumption, FS_CardinalityType
<1>2. \A i, j \in 1 .. N : order[i] = order[j] => i = j
  <2>1. order \in Surjection(1 .. N, Streams)
    BY DEF Surjection
  <2>2. IsFiniteSet(1 .. N) /\ Cardinality(1 .. N) = N
    BY <1>1, FS_Interval
  <2>3. order \in Injection(1 .. N, Streams)
    BY <2>1, <2>2, FS_Surjection
  <2> QED BY <2>3 DEF Injection, IsInjective
<1>3. PICK msgs : /\ msgs = [i \in 0 .. N |-> IF i = 0 THEN <<>> ELSE msgs[i - 1] \o Chunk(order[i])]
                  /\ Chunks(order) = msgs[N]
  BY ChunksRecursion
<1>4. msgs[0] = <<>> /\ \A i \in 0 .. N - 1 : msgs[i + 1] = msgs[i] \o Chunk(order[i + 1])
  BY <1>1, <1>3
<1> HIDE DEF N
<1>5. \A st \in Streams : \A m \in Elems(Chunk(st)) : m[1] = st
  BY ChunkFacts DEF Elems
<1> DEFINE Upto(i) == /\ msgs[i] \in Seq(Msgs) /\ Increasing(msgs[i])
                      /\ \A m : m \in Elems(msgs[i]) <=> \E j \in 1 .. i : m \in Elems(Chunk(order[j]))
           Good == {i \in Nat : i <= N => Upto(i)}
<1>6. 0 \in Good
  <2>1. msgs[0] = <<>> /\ <<>> \in Seq(Msgs) /\ DOMAIN <<>> = {} /\ 1 .. 0 = {}
    BY <1>4
  <2>2. Increasing(<<>>) /\ Elems(<<>>) = {}
    BY <2>1 DEF Increasing, Elems
  <2>3. Upto(0)
    BY <2>1, <2>2
  <2> QED BY <2>3
<1>7. ASSUME NEW i \in Nat, i \in Good PROVE i + 1 \in Good
  <2> SUFFICES ASSUME i + 1 <= N PROVE Upto(i + 1)
    OBVIOUS
  <2>1. Upto(i) /\ i \in 0 .. N - 1 /\ i + 1 \in 1 .. N
    BY <1>1, <1>7
  <2>2. order[i + 1] \in Streams /\ \A j \in 1 .. i : order[j] \in Streams /\ order[j] # order[i + 1]
    BY <1>1, <1>2, <2>1 DEF N
  <2>3. \A m \in Elems(msgs[i]) : m[1] # order[i + 1]
    BY <1>5, <2>1, <2>2
  <2>4. /\ msgs[i + 1] \in Seq(Msgs) /\ Increasing(msgs[i + 1])
        /\ Elems(msgs[i + 1]) = Elems(msgs[i]) \cup Elems(Chunk(order[i + 1]))
    BY <1>4, <2>1, <2>2, <2>3, AppendedChunk
  <2>5. \A j : j \in 1 .. i + 1 <=> j \in 1 .. i \/ j = i + 1
    BY <2>1
  <2> QED BY <2>1, <2>4, <2>5
<1> HIDE DEF Good
<1>8. N \in Good
  BY <1>1, <1>6, <1>7, SetInduction
<1>9. Upto(N)
  BY <1>1, <1>8 DEF Good
<1>10. Elems(msgs[N]) = UNION {Elems(Chunk(st)) : st \in Streams}
  BY <1>9 DEF N
<1> QED BY <1>3, <1>9, <1>10 DEF N

\* The messages that XREADGROUP returns of all streams.
Returned == UNION {Elems(Chunk(st)) : st \in Streams}

\* They are the entries between the group's old position and its new one that are not gone.
LEMMA DeliverFacts ==
    ASSUME TypeOK, LogInv, Deliver(Returned)
    PROVE  /\ log' = log /\ trimmed' = trimmed /\ pending' = pending \cup Returned
           /\ delivered' \in [Streams -> 0 .. MaxPublished]
           /\ \A st \in Streams : delivered[st] <= delivered'[st] /\ delivered'[st] <= Len(log[st])
           /\ Returned \subseteq Msgs
           /\ \A m \in Returned : delivered[m[1]] < m[2] /\ m[2] <= delivered'[m[1]]
           /\ \A m \in Msgs : m[2] <= delivered'[m[1]] =>
                 m[2] <= delivered[m[1]] \/ m \in Returned \/ Gone(m)
<1> DEFINE ids(st) == {m[2] : m \in {x \in Returned : x[1] = st}}
           last(st) == CHOOSE i \in ids(st) : \A j \in ids(st) : i >= j
<1>1. /\ log' = log /\ trimmed' = trimmed /\ pending' = pending \cup Returned
      /\ delivered' = [st \in Streams |-> IF ids(st) = {} THEN delivered[st] ELSE last(st)]
  BY DEF Deliver
<1>11. ASSUME NEW st \in Streams
       PROVE  Elems(Chunk(st)) = {<<st, Passed(st) + i>> : i \in 1 .. Size(st)}
  <2>1. /\ Chunk(st) \in Seq(Msgs) /\ Len(Chunk(st)) = Size(st)
        /\ \A i \in 1 .. Size(st) : Chunk(st)[i] = <<st, Passed(st) + i>>
    BY ChunkFacts
  <2>2. DOMAIN Chunk(st) = 1 .. Size(st)
    BY <2>1
  <2> QED BY <2>1, <2>2 DEF Elems
<1>2. \A m \in Returned : \E st \in Streams : \E i \in 1 .. Size(st) : m = <<st, Passed(st) + i>>
  BY <1>11 DEF Returned
<1>3. ASSUME NEW st \in Streams, NEW i \in 1 .. Size(st)
      PROVE  <<st, Passed(st) + i>> \in Returned
  <2>1. <<st, Passed(st) + i>> \in Elems(Chunk(st))
    BY <1>11
  <2> QED BY <2>1 DEF Returned
<1>4. \A st \in Streams : ids(st) = {Passed(st) + i : i \in 1 .. Size(st)}
  <2> SUFFICES ASSUME NEW st \in Streams PROVE ids(st) = {Passed(st) + i : i \in 1 .. Size(st)}
    OBVIOUS
  <2>1. ids(st) \subseteq {Passed(st) + i : i \in 1 .. Size(st)}
    BY <1>2
  <2>2. ASSUME NEW i \in 1 .. Size(st) PROVE Passed(st) + i \in ids(st)
    <3>1. <<st, Passed(st) + i>> \in {x \in Returned : x[1] = st}
      BY <1>3
    <3> QED BY <3>1
  <2> QED BY <2>1, <2>2
<1> HIDE DEF ids
<1>5. ASSUME NEW st \in Streams
      PROVE  delivered'[st] = IF Size(st) = 0 THEN delivered[st] ELSE Passed(st) + Size(st)
  <2>1. Size(st) \in Nat /\ Passed(st) \in Nat
    BY ChunkFacts
  <2>2. CASE Size(st) = 0
    BY <1>1, <1>4, <2>2
  <2>3. CASE Size(st) # 0
    <3>1. Passed(st) + Size(st) \in ids(st) /\ \A j \in ids(st) : j \in Nat /\ Passed(st) + Size(st) >= j
      BY <1>4, <2>1, <2>3
    <3>2. last(st) \in ids(st) /\ \A j \in ids(st) : last(st) >= j
      BY <3>1
    <3>3. last(st) = Passed(st) + Size(st)
      BY <3>1, <3>2
    <3> QED BY <1>1, <2>3, <3>1, <3>3
  <2> QED BY <2>2, <2>3
<1> HIDE DEF last
<1>6. \A st \in Streams : /\ delivered[st] \in Nat /\ trimmed[st] \in Nat
                          /\ Len(log[st]) \in Nat /\ Len(log[st]) <= MaxPublished
                          /\ delivered[st] <= Len(log[st])
  BY DEF TypeOK, LogInv
<1>7. \A st \in Streams : delivered[st] <= delivered'[st] /\ delivered'[st] <= Len(log[st])
  BY <1>5, <1>6, ChunkFacts
<1>8. delivered' \in [Streams -> 0 .. MaxPublished]
  <2>1. \A st \in Streams : delivered'[st] \in Nat
    BY <1>5, <1>6, ChunkFacts
  <2>2. \A st \in Streams : delivered'[st] \in 0 .. MaxPublished
    BY <1>6, <1>7, <2>1, NumbersAssumption
  <2> QED BY <1>1, <2>2
<1>9. ASSUME NEW m \in Returned
      PROVE  m \in Msgs /\ delivered[m[1]] < m[2] /\ m[2] <= delivered'[m[1]]
  <2>4. PICK st \in Streams : \E i \in 1 .. Size(st) : m = <<st, Passed(st) + i>>
    BY <1>2
  <2>1. PICK i \in 1 .. Size(st) : m = <<st, Passed(st) + i>>
    BY <2>4
  <2>2. delivered'[st] = Passed(st) + Size(st) /\ Passed(st) \in Nat /\ Size(st) \in Nat
    BY <1>5, ChunkFacts
  <2>3. delivered[st] <= Passed(st) /\ Passed(st) + Size(st) <= Len(log[st])
    BY ChunkFacts
  <2> QED BY <1>6, <2>1, <2>2, <2>3, NumbersAssumption DEF Msgs
<1>10. ASSUME NEW m \in Msgs, m[2] <= delivered'[m[1]], ~(m[2] <= delivered[m[1]]), ~Gone(m)
       PROVE  m \in Returned
  <2>1. PICK st \in Streams, i \in 1 .. MaxPublished : m = <<st, i>>
    BY DEF Msgs
  <2>2. i \in Nat /\ i > 0 /\ Passed(st) \in Nat /\ Size(st) \in Nat
    BY ChunkFacts
  <2>3. i > Passed(st)
    <3>1. i \notin 1 .. Passed(st)
      BY <1>10, <2>1, ChunkFacts DEF Gone
    <3> QED BY <2>2, <3>1
  <2>4. i <= Passed(st) + Size(st) /\ Size(st) # 0
    BY <1>5, <1>6, <1>10, <2>1, <2>2
  <2>5. i - Passed(st) \in 1 .. Size(st) /\ i = Passed(st) + (i - Passed(st))
    BY <2>2, <2>3, <2>4
  <2>6. <<st, Passed(st) + (i - Passed(st))>> \in Returned
    BY <1>3, <2>5
  <2> QED BY <2>1, <2>5, <2>6
<1> QED BY <1>1, <1>7, <1>8, <1>9, <1>10

-----------------------------------------------------------------------------
(* The steps *)

\* The bus starts without messages.
LEMMA BusInitInv == Init => BusInv
<1> SUFFICES ASSUME Init PROVE BusInv
  OBVIOUS
<1> USE DEF Init
<1>1. TypeOK
  <2>1. MaxPublished \in Nat /\ MaxFaults \in Nat /\ <<>> \in Seq(Msgs) /\ <<>> \in Seq(Types)
    BY NumbersAssumption
  <2> QED BY <2>1 DEF TypeOK
<1>2. Tables /\ LogInv
  BY DEF Tables, LogInv
<1>3. DeliveredInv /\ ProgressInv /\ HandledAtMostOnce
  <2>1. Elems(<<>>) = {} /\ Increasing(<<>>)
    BY DEF Elems, Increasing
  <2> QED BY <2>1 DEF DeliveredInv, ProgressInv, HandledAtMostOnce
<1>4. NothingIsSkipped
  BY DEF NothingIsSkipped, Msgs
<1> QED BY <1>1, <1>2, <1>3, <1>4 DEF BusInv

\* A publication adds an entry the group has not passed, and trims some it may have.
LEMMA PublishInv ==
    ASSUME BusInv, NEW st \in Streams, NEW type \in Types, Publish(st, type)
    PROVE  BusInv'
<1>1. PICK n \in trimmed[st] .. MaxPublished :
          /\ n = trimmed[st] \/ n <= Len(log[st]) + 1 - MaxLen
          /\ trimmed' = [trimmed EXCEPT ![st] = n]
  BY DEF Publish
<1>2. /\ Len(log[st]) < MaxPublished /\ log' = [log EXCEPT ![st] = Append(log[st], type)]
      /\ UNCHANGED <<delivered, pending, loop, batch, done, faults>>
  BY DEF Publish
<1>3. \A s \in Streams : /\ log[s] \in Seq(Types) /\ Len(log[s]) \in Nat /\ Len(log[s]) <= MaxPublished
                         /\ delivered[s] \in Nat /\ trimmed[s] \in Nat
                         /\ delivered[s] <= Len(log[s]) /\ trimmed[s] <= Len(log[s])
  BY DEF BusInv, TypeOK, LogInv
<1>4. \A s \in Streams : trimmed'[s] \in 0 .. MaxPublished /\ trimmed[s] <= trimmed'[s]
  BY <1>1, <1>3, NumbersAssumption DEF BusInv, TypeOK
<1>5. /\ log'[st] \in Seq(Types) /\ Len(log'[st]) = Len(log[st]) + 1
      /\ \A i \in 1 .. Len(log[st]) : log'[st][i] = log[st][i]
  BY <1>2, <1>3 DEF BusInv, Tables
<1>6. \A s \in Streams : s # st => log'[s] = log[s]
  BY <1>2 DEF BusInv, Tables
<1>7. TypeOK' /\ Tables'
  <2>1. \A s \in Streams : log'[s] \in Seq(Types) /\ Len(log'[s]) <= MaxPublished
    BY <1>2, <1>3, <1>5, <1>6, NumbersAssumption
  <2>2. trimmed' \in [Streams -> 0 .. MaxPublished]
    BY <1>1, <1>4 DEF BusInv, TypeOK
  <2>3. log' = [s \in Streams |-> log'[s]]
    BY <1>2 DEF BusInv, Tables
  <2>4. groups' \subseteq Streams
    BY DEF Publish, BusInv, TypeOK
  <2> QED BY <1>2, <2>1, <2>2, <2>3, <2>4 DEF BusInv, TypeOK, Tables
<1>8. LogInv'
  <2>1. trimmed'[st] <= Len(log'[st])
    BY <1>1, <1>3, <1>5, NumbersAssumption DEF BusInv, TypeOK
  <2>2. \A s \in Streams : s # st => trimmed'[s] = trimmed[s]
    BY <1>1 DEF BusInv, TypeOK
  <2> QED BY <1>2, <1>3, <1>5, <1>6, <2>1, <2>2 DEF LogInv
<1>9. ASSUME NEW m \in Msgs, m[2] <= delivered[m[1]] PROVE Registered(m)' <=> Registered(m)
  <2>1. m[1] \in Streams /\ m[2] \in 1 .. Len(log[m[1]])
    BY <1>3, <1>9, NumbersAssumption DEF Msgs
  <2>2. log'[m[1]][m[2]] = log[m[1]][m[2]]
    BY <1>5, <1>6, <2>1
  <2> QED BY <2>2 DEF Registered, Type
<1>10. DeliveredInv' /\ HandledAtMostOnce'
  <2>1. delivered' = delivered /\ batch' = batch /\ done' = done
    BY <1>2
  <2>2. DeliveredInv /\ HandledAtMostOnce
    BY DEF BusInv
  <2>3. Elems(done)' = Elems(done) /\ \A p \in Procs : Elems(batch[p])' = Elems(batch[p])
    BY <2>1 DEF Elems
  <2>4. \A p \in Procs : Increasing(batch[p])' <=> Increasing(batch[p])
    BY <2>1 DEF Increasing
  <2>5. DeliveredInv'
    BY <2>1, <2>2, <2>3, <2>4 DEF DeliveredInv
  <2>6. HandledAtMostOnce'
    BY <2>1, <2>2 DEF HandledAtMostOnce
  <2> QED BY <2>5, <2>6
<1>11. ProgressInv'
  <2>1. ASSUME NEW p \in Procs, loop[p] = "ack"
        PROVE  batch[p][1] \in Msgs /\ batch[p][1][2] <= delivered[batch[p][1][1]]
    <3>1. batch[p] \in Seq(Msgs) /\ batch[p] # <<>>
      BY <2>1 DEF BusInv, TypeOK
    <3>2. 1 \in DOMAIN batch[p] /\ batch[p][1] \in Msgs
      BY <3>1
    <3> QED BY <3>2 DEF BusInv, DeliveredInv, Elems
  <2> QED BY <1>2, <1>9, <2>1 DEF BusInv, ProgressInv, Elems
<1>12. NothingIsSkipped'
  <2> SUFFICES ASSUME NEW m \in Msgs, m[2] <= delivered[m[1]]
               PROVE  m \in Elems(done) \/ m \in pending \/ ~Registered(m)' \/ Gone(m)'
    BY <1>2 DEF NothingIsSkipped, Elems
  <2>1. Gone(m) => Gone(m)'
    BY <1>3, <1>4, NumbersAssumption DEF Gone, Msgs
  <2> QED BY <1>9, <2>1 DEF BusInv, NothingIsSkipped
<1> QED BY <1>7, <1>8, <1>10, <1>11, <1>12 DEF BusInv

\* The group moves on to what it returned, all of which becomes pending.
LEMMA DeliverInv ==
    ASSUME BusInv, Deliver(Returned), done' = done
    PROVE  /\ LogInv' /\ NothingIsSkipped'
           /\ \A m \in Elems(done) : m[2] <= delivered'[m[1]]
           /\ \A p \in Procs : \A m \in Elems(batch[p]) : m[2] <= delivered'[m[1]]
<1>1. TypeOK /\ LogInv
  BY DEF BusInv
<1>2. /\ log' = log /\ trimmed' = trimmed /\ pending' = pending \cup Returned
      /\ \A st \in Streams : delivered[st] <= delivered'[st] /\ delivered'[st] <= Len(log[st])
      /\ delivered' \in [Streams -> 0 .. MaxPublished]
      /\ \A m \in Msgs : m[2] <= delivered'[m[1]] =>
            m[2] <= delivered[m[1]] \/ m \in Returned \/ Gone(m)
  BY <1>1, DeliverFacts
<1>3. LogInv'
  BY <1>1, <1>2 DEF LogInv
<1>4. NothingIsSkipped'
  BY <1>2 DEF BusInv, NothingIsSkipped, Registered, Type, Gone
<1>5. ASSUME NEW m \in Msgs, m[2] <= delivered[m[1]] PROVE m[2] <= delivered'[m[1]]
  BY <1>1, <1>2, <1>5, NumbersAssumption DEF Msgs, TypeOK
<1>6. Elems(done) \subseteq Msgs /\ \A p \in Procs : Elems(batch[p]) \subseteq Msgs
  BY ElementsAreMessages
<1> QED BY <1>3, <1>4, <1>5, <1>6 DEF BusInv, DeliveredInv

\* A read takes new messages in hand, and no other process has them.
LEMMA ReadInv == ASSUME BusInv, NEW p \in Procs, Read(p) PROVE BusInv'
<1>1. PICK order \in [1 .. Cardinality(Streams) -> Streams] :
          /\ \A st \in Streams : \E i \in DOMAIN order : order[i] = st
          /\ Deliver(Elems(Chunks(order)))
          /\ batch' = [batch EXCEPT ![p] = Chunks(order)]
          /\ loop' = [loop EXCEPT ![p] = IF Chunks(order) = <<>> THEN "reclaim" ELSE "handle"]
  BY DEF Read
<1>2. loop[p] = "read" /\ UNCHANGED <<done, faults>>
  BY DEF Read
<1>3. TypeOK /\ LogInv /\ Tables
  BY DEF BusInv
<1> DEFINE new == Chunks(order)
<1>4. new \in Seq(Msgs) /\ Increasing(new) /\ Elems(new) = Returned
  BY <1>1, <1>3, ChunksFacts DEF Returned
<1>5. Deliver(Returned)
  BY <1>1, <1>4
<1> HIDE DEF new
<1>6. /\ batch'[p] = new /\ \A q \in Procs : q # p => batch'[q] = batch[q] /\ loop'[q] = loop[q]
      /\ loop'[p] = IF new = <<>> THEN "reclaim" ELSE "handle"
  BY <1>1, <1>3 DEF Tables, TypeOK, new
<1>7. /\ log' = log /\ trimmed' = trimmed /\ pending' = pending \cup Returned
      /\ delivered' \in [Streams -> 0 .. MaxPublished] /\ Returned \subseteq Msgs
      /\ \A m \in Returned : delivered[m[1]] < m[2] /\ m[2] <= delivered'[m[1]]
  BY <1>3, <1>5, DeliverFacts
<1>8. /\ LogInv' /\ NothingIsSkipped'
      /\ \A m \in Elems(done) : m[2] <= delivered'[m[1]]
      /\ \A q \in Procs : \A m \in Elems(batch[q]) : m[2] <= delivered'[m[1]]
  BY <1>2, <1>5, DeliverInv
<1>9. \A m \in Returned : m \notin Elems(done) /\ \A q \in Procs : m \notin Elems(batch[q])
  <2>1. ASSUME NEW m \in Msgs, m[2] <= delivered[m[1]] PROVE m \notin Returned
    BY <1>3, <1>7, <2>1, NumbersAssumption DEF Msgs, TypeOK
  <2> QED BY <2>1, ElementsAreMessages DEF BusInv, DeliveredInv
<1>10. TypeOK' /\ Tables'
  <2>1. batch' = [q \in Procs |-> batch'[q]]
    BY <1>1, <1>3 DEF Tables
  <2>2. loop' \in [Procs -> {"down", "read", "handle", "ack", "reclaim"}]
    BY <1>1, <1>3 DEF TypeOK
  <2>3. ASSUME NEW q \in Procs
        PROVE  batch'[q] \in Seq(Msgs) /\ (batch'[q] # <<>> <=> loop'[q] \in {"handle", "ack"})
    <3>1. CASE q = p
      BY <1>4, <1>6, <3>1
    <3>2. CASE q # p
      <4>1. batch[q] \in Seq(Msgs) /\ (batch[q] # <<>> <=> loop[q] \in {"handle", "ack"})
        BY <1>3 DEF TypeOK
      <4>2. batch'[q] = batch[q] /\ loop'[q] = loop[q]
        BY <1>6, <3>2
      <4> QED BY <4>1, <4>2
    <3> QED BY <3>1, <3>2
  <2>4. pending' \subseteq Msgs
    BY <1>3, <1>7 DEF TypeOK
  <2>5. groups' \subseteq Streams
    BY <1>3, <1>5 DEF Deliver, TypeOK
  <2> QED BY <1>2, <1>3, <1>7, <2>1, <2>2, <2>3, <2>4, <2>5 DEF TypeOK, Tables
<1>11. DeliveredInv'
  <2>1. \A q \in Procs : \A m \in Elems(batch'[q]) : m[2] <= delivered'[m[1]]
    BY <1>4, <1>6, <1>7, <1>8
  <2>2. \A q \in Procs : Increasing(batch'[q])
    BY <1>4, <1>6 DEF BusInv, DeliveredInv
  <2>3. \A q, r \in Procs : q # r => Elems(batch'[q]) \cap Elems(batch'[r]) = {}
    BY <1>4, <1>6, <1>9 DEF BusInv, DeliveredInv
  <2>4. \A q : Increasing(batch[q])' = Increasing(batch'[q]) /\ Elems(batch[q])' = Elems(batch'[q])
    BY DEF Increasing, Elems
  <2> QED BY <1>2, <1>8, <2>1, <2>2, <2>3, <2>4 DEF DeliveredInv, Elems
<1>12. ProgressInv'
  <2>1. ASSUME NEW i \in DOMAIN new PROVE new[i] \notin Elems(done)
    BY <1>4, <1>9 DEF Elems
  <2> QED BY <1>2, <1>6, <1>7, <2>1 DEF BusInv, ProgressInv, Registered, Type, Elems
<1> QED BY <1>2, <1>8, <1>10, <1>11, <1>12 DEF BusInv, HandledAtMostOnce

\* A read whose reply is lost leaves its messages pending, in no one's hands.
LEMMA ReadFailsInv == ASSUME BusInv, NEW p \in Procs, ReadFails(p) PROVE BusInv'
<1>1. Deliver(Returned) /\ UNCHANGED <<loop, batch, done>> /\ faults' \in 0 .. MaxFaults
  BY NumbersAssumption DEF ReadFails, Returned, Fault, BusInv, TypeOK
<1>2. TypeOK /\ LogInv
  BY DEF BusInv
<1>3. /\ log' = log /\ trimmed' = trimmed /\ pending' = pending \cup Returned
      /\ delivered' \in [Streams -> 0 .. MaxPublished] /\ Returned \subseteq Msgs
  BY <1>1, <1>2, DeliverFacts
<1>4. /\ LogInv' /\ NothingIsSkipped'
      /\ \A m \in Elems(done) : m[2] <= delivered'[m[1]]
      /\ \A q \in Procs : \A m \in Elems(batch[q]) : m[2] <= delivered'[m[1]]
  BY <1>1, DeliverInv
<1>5. TypeOK' /\ Tables'
  <2>1. pending' \subseteq Msgs
    BY <1>2, <1>3 DEF TypeOK
  <2>2. groups' \subseteq Streams
    BY <1>1, <1>2 DEF Deliver, TypeOK
  <2> QED BY <1>1, <1>3, <2>1, <2>2 DEF BusInv, TypeOK, Tables
<1>6. ProgressInv' /\ HandledAtMostOnce'
  BY <1>1, <1>3 DEF BusInv, ProgressInv, HandledAtMostOnce, Elems, Registered, Type
<1>7. DeliveredInv'
  <2>1. Elems(done)' = Elems(done) /\ \A q : Elems(batch[q])' = Elems(batch[q])
    BY <1>1 DEF Elems
  <2>2. \A q \in Procs : Increasing(batch[q])'
    BY <1>1 DEF BusInv, DeliveredInv, Increasing
  <2> QED BY <1>4, <2>1, <2>2 DEF BusInv, DeliveredInv
<1> QED BY <1>4, <1>5, <1>6, <1>7 DEF BusInv

\* Of a nonempty sequence, the tail is what comes after the first element.
LEMMA TailFacts ==
    ASSUME NEW seq \in Seq(Msgs), seq # <<>>
    PROVE  /\ Tail(seq) \in Seq(Msgs) /\ Len(Tail(seq)) = Len(seq) - 1
           /\ DOMAIN Tail(seq) = 1 .. Len(seq) - 1
           /\ \A i \in 1 .. Len(seq) - 1 : i + 1 \in DOMAIN seq /\ Tail(seq)[i] = seq[i + 1]
           /\ 1 \in DOMAIN seq /\ Head(seq) = seq[1] /\ Len(seq) \in Nat
           /\ Len(seq) = 1 <=> Tail(seq) = <<>>
           /\ Elems(Tail(seq)) \subseteq Elems(seq)
           /\ Increasing(seq) => Increasing(Tail(seq))
<1>1. /\ Tail(seq) \in Seq(Msgs) /\ Len(Tail(seq)) = Len(seq) - 1
      /\ DOMAIN Tail(seq) = 1 .. Len(seq) - 1 /\ DOMAIN seq = 1 .. Len(seq) /\ Len(seq) \in Nat \ {0}
  BY EmptySeq, HeadTailProperties
<1>2. \A i \in 1 .. Len(seq) - 1 : i + 1 \in DOMAIN seq /\ Tail(seq)[i] = seq[i + 1]
  BY <1>1, HeadTailProperties
<1>3. 1 \in DOMAIN seq /\ Head(seq) = seq[1]
  BY <1>1
<1>4. Len(seq) = 1 <=> Tail(seq) = <<>>
  <2>1. Len(<<>>) = 0 /\ (Tail(seq) # <<>> => Len(Tail(seq)) # 0)
    BY <1>1, EmptySeq
  <2> QED BY <1>1, <2>1
<1>5. Elems(Tail(seq)) \subseteq Elems(seq)
  BY <1>1, <1>2 DEF Elems
<1>6. Increasing(seq) => Increasing(Tail(seq))
  BY <1>1, <1>2 DEF Increasing
<1> QED BY <1>1, <1>2, <1>3, <1>4, <1>5, <1>6

\* The loop goes on with the rest of a batch: the head stays pending, or it was dealt with.
LEMMA NextMessageInv ==
    ASSUME BusInv, NEW p \in Procs, loop[p] \in {"handle", "ack"}, NextMessage(p),
           UNCHANGED <<groups, log, trimmed, delivered, done>>, faults' \in 0 .. MaxFaults,
           pending' \in {pending, pending \ {Head(batch[p])}},
           pending' = pending \/ loop[p] = "ack"
    PROVE  BusInv'
<1>1. /\ batch[p] \in Seq(Msgs) /\ batch[p] # <<>> /\ Increasing(batch[p])
      /\ batch' = [batch EXCEPT ![p] = Tail(batch[p])]
      /\ loop' = [loop EXCEPT ![p] = IF Len(batch[p]) = 1 THEN "reclaim" ELSE "handle"]
  BY DEF BusInv, TypeOK, DeliveredInv, NextMessage
<1>2. /\ batch'[p] = Tail(batch[p]) /\ \A q \in Procs : q # p => batch'[q] = batch[q] /\ loop'[q] = loop[q]
      /\ loop'[p] = IF Len(batch[p]) = 1 THEN "reclaim" ELSE "handle"
  BY <1>1 DEF BusInv, Tables, TypeOK
<1>11. /\ batch'[p] \in Seq(Msgs) /\ (Len(batch[p]) = 1 <=> batch'[p] = <<>>)
       /\ DOMAIN batch'[p] = 1 .. Len(batch[p]) - 1 /\ Len(batch[p]) \in Nat
       /\ \A i \in 1 .. Len(batch[p]) - 1 : i + 1 \in DOMAIN batch[p] /\ batch'[p][i] = batch[p][i + 1]
  <2>1. batch[p] \in Seq(Msgs) /\ batch[p] # <<>>
    BY <1>1
  <2>2. LET b == batch[p]
        IN  /\ Tail(b) \in Seq(Msgs) /\ (Len(b) = 1 <=> Tail(b) = <<>>)
            /\ DOMAIN Tail(b) = 1 .. Len(b) - 1 /\ Len(b) \in Nat
            /\ \A i \in 1 .. Len(b) - 1 : i + 1 \in DOMAIN b /\ Tail(b)[i] = b[i + 1]
    BY <2>1, TailFacts
  <2>3. batch'[p] = Tail(batch[p])
    BY <1>2
  <2> QED BY <2>2, <2>3
<1>3. TypeOK' /\ Tables'
  <2>1. batch' = [q \in Procs |-> batch'[q]]
    BY <1>1 DEF BusInv, Tables
  <2>2. loop' \in [Procs -> {"down", "read", "handle", "ack", "reclaim"}]
    BY <1>1 DEF BusInv, TypeOK
  <2>3. batch'[p] \in Seq(Msgs) /\ (batch'[p] # <<>> <=> loop'[p] \in {"handle", "ack"})
    BY <1>2, <1>11
  <2>4. \A q \in Procs : batch'[q] \in Seq(Msgs) /\ (batch'[q] # <<>> <=> loop'[q] \in {"handle", "ack"})
    BY <1>2, <2>3 DEF BusInv, TypeOK
  <2>5. pending' \subseteq Msgs
    BY DEF BusInv, TypeOK
  <2> QED BY <2>1, <2>2, <2>4, <2>5 DEF BusInv, TypeOK, Tables
<1>4. LogInv' /\ HandledAtMostOnce'
  BY DEF BusInv, LogInv, HandledAtMostOnce
<1>5. \A q : Elems(batch[q])' = Elems(batch'[q]) /\ Increasing(batch[q])' = Increasing(batch'[q])
  BY DEF Elems, Increasing
<1>6. Elems(done)' = Elems(done) /\ \A m : Registered(m)' = Registered(m) /\ Gone(m)' = Gone(m)
  BY DEF Elems, Registered, Type, Gone
<1>7. Elems(batch'[p]) \subseteq Elems(batch[p]) /\ Increasing(batch'[p])
  BY <1>1, <1>2, TailFacts
<1>8. DeliveredInv'
  BY <1>2, <1>5, <1>6, <1>7 DEF BusInv, DeliveredInv
<1>9. ProgressInv'
  <2>1. ASSUME NEW i \in DOMAIN batch'[p] PROVE batch'[p][i] \notin Elems(done)
    <3>1. i \in 1 .. Len(batch[p]) - 1 /\ Len(batch[p]) \in Nat
      BY <1>11
    <3>2. i + 1 \in DOMAIN batch[p] /\ i + 1 > 1 /\ batch'[p][i] = batch[p][i + 1]
      BY <1>11, <3>1
    <3> QED BY <3>2 DEF BusInv, ProgressInv
  <2> QED BY <1>2, <1>6, <2>1 DEF BusInv, ProgressInv
<1>10. NothingIsSkipped'
  <2>1. loop[p] = "ack" => Head(batch[p]) \in Elems(done) \/ ~Registered(Head(batch[p]))
    BY <1>1, TailFacts DEF BusInv, ProgressInv
  <2> QED BY <1>6, <2>1 DEF BusInv, NothingIsSkipped
<1> QED BY <1>3, <1>4, <1>8, <1>9, <1>10 DEF BusInv

\* A handler runs for a message that no handler ran for.
LEMMA HandleInv == ASSUME BusInv, NEW p \in Procs, Handle(p) PROVE BusInv'
<1> DEFINE m == Head(batch[p])
<1>1. /\ loop[p] = "handle" /\ loop' = [loop EXCEPT ![p] = "ack"]
      /\ done' = IF Registered(m) THEN Append(done, m) ELSE done
      /\ UNCHANGED <<groups, log, trimmed, delivered, pending, batch, faults>>
  BY DEF Handle, redis
<1>2. /\ batch[p] \in Seq(Msgs) /\ batch[p] # <<>> /\ done \in Seq(Msgs)
  BY <1>1 DEF BusInv, TypeOK
<1>3. 1 \in DOMAIN batch[p] /\ m = batch[p][1] /\ m \in Msgs /\ m \in Elems(batch[p])
  BY <1>2, TailFacts, ElementsAreMessages DEF Elems
<1>4. m \notin Elems(done) /\ m[2] <= delivered[m[1]]
  BY <1>1, <1>3 DEF BusInv, ProgressInv, DeliveredInv
<1> HIDE DEF m
<1>5. /\ done' \in Seq(Msgs)
      /\ Elems(done') = IF Registered(m) THEN Elems(done) \cup {m} ELSE Elems(done)
      /\ \A i, j \in DOMAIN done' : done'[i] = done'[j] => i = j
  <2>1. CASE ~Registered(m)
    BY <1>1, <1>2, <2>1 DEF BusInv, HandledAtMostOnce
  <2>2. CASE Registered(m)
    <3>1. /\ done' \in Seq(Msgs) /\ Len(done) \in Nat /\ DOMAIN done = 1 .. Len(done)
          /\ DOMAIN done' = 1 .. Len(done) + 1
          /\ done'[Len(done) + 1] = m /\ \A i \in 1 .. Len(done) : done'[i] = done[i]
      BY <1>1, <1>2, <1>3, <2>2, AppendProperties
    <3>2. Elems(done') = Elems(done) \cup {m}
      BY <3>1 DEF Elems
    <3>3. \A i \in 1 .. Len(done) : done[i] # m
      BY <1>4, <3>1 DEF Elems
    <3>4. \A i, j \in DOMAIN done' : done'[i] = done'[j] => i = j
      BY <3>1, <3>3 DEF BusInv, HandledAtMostOnce
    <3> QED BY <2>2, <3>1, <3>2, <3>4
  <2> QED BY <2>1, <2>2
<1>6. \A q \in Procs : q # p => m \notin Elems(batch[q])
  BY <1>3 DEF BusInv, DeliveredInv
<1>7. \A i \in DOMAIN batch[p] : i > 1 => batch[p][i] # m
  <2>1. ASSUME NEW i \in DOMAIN batch[p], i > 1 PROVE batch[p][i] # m
    <3>1. batch[p][1][1] = batch[p][i][1] => batch[p][1][2] < batch[p][i][2]
      BY <1>3, <2>1 DEF BusInv, DeliveredInv, Increasing
    <3>2. m[2] \in Nat
      BY <1>3, NumbersAssumption DEF Msgs
    <3> QED BY <1>3, <3>1, <3>2
  <2> QED BY <2>1
<1>8. TypeOK' /\ Tables'
  BY <1>1, <1>5 DEF BusInv, TypeOK, Tables
<1>9. LogInv' /\ HandledAtMostOnce' /\ NothingIsSkipped'
  <2>1. Elems(done) \subseteq Elems(done') /\ Elems(done)' = Elems(done')
    BY <1>5 DEF Elems
  <2> QED BY <1>1, <1>5, <2>1 DEF BusInv, LogInv, HandledAtMostOnce, NothingIsSkipped, Registered,
                                  Type, Gone
<1>10. DeliveredInv'
  <2>1. Elems(done)' = Elems(done') /\ \A q : Elems(batch[q])' = Elems(batch[q])
    BY <1>1 DEF Elems
  <2>2. \A q \in Procs : Increasing(batch[q])'
    BY <1>1 DEF BusInv, DeliveredInv, Increasing
  <2>3. \A c \in Elems(done') : c[2] <= delivered[c[1]]
    BY <1>4, <1>5 DEF BusInv, DeliveredInv
  <2> QED BY <1>1, <2>1, <2>2, <2>3 DEF BusInv, DeliveredInv
<1>11. ProgressInv'
  <2>1. Elems(done)' = Elems(done') /\ \A c : Registered(c)' = Registered(c)
    BY <1>1 DEF Elems, Registered, Type
  <2>2. /\ loop'[p] = "ack" /\ \A q \in Procs : q # p => loop'[q] = loop[q]
    BY <1>1 DEF BusInv, TypeOK
  <2>3. ASSUME NEW q \in Procs, NEW i \in DOMAIN batch[q], loop'[q] = "handle" \/ i > 1
        PROVE  batch[q][i] \notin Elems(done')
    <3>1. batch[q][i] \notin Elems(done)
      BY <1>1, <2>2, <2>3 DEF BusInv, ProgressInv
    <3>2. batch[q][i] # m
      BY <1>6, <1>7, <2>2, <2>3 DEF Elems
    <3> QED BY <1>5, <3>1, <3>2
  <2>4. ASSUME NEW q \in Procs, loop'[q] = "ack", Registered(batch[q][1])
        PROVE  batch[q][1] \in Elems(done')
    BY <1>3, <1>5, <2>2, <2>4 DEF BusInv, ProgressInv
  <2> QED BY <1>1, <2>1, <2>3, <2>4 DEF ProgressInv
<1> QED BY <1>8, <1>9, <1>10, <1>11 DEF BusInv

\* A step of a process outside its batch: nothing is in its hands after it.
LEMMA LoopInv ==
    ASSUME BusInv, NEW p \in Procs, NEW next \in {"down", "read"},
           loop' = [loop EXCEPT ![p] = next], batch' = [batch EXCEPT ![p] = <<>>],
           UNCHANGED <<log, trimmed, delivered, done>>, faults' \in 0 .. MaxFaults,
           groups' \subseteq Streams,
           pending' \subseteq pending, \A m \in pending : m \in pending' \/ Gone(m)
    PROVE  BusInv'
<1>1. /\ batch'[p] = <<>> /\ loop'[p] = next
      /\ \A q \in Procs : q # p => batch'[q] = batch[q] /\ loop'[q] = loop[q]
  BY DEF BusInv, Tables, TypeOK
<1>2. <<>> \in Seq(Msgs) /\ Elems(<<>>) = {} /\ Increasing(<<>>) /\ DOMAIN <<>> = {}
  BY DEF Elems, Increasing
<1>3. TypeOK' /\ Tables'
  <2>1. batch' = [q \in Procs |-> batch'[q]]
    BY DEF BusInv, Tables
  <2>2. loop' \in [Procs -> {"down", "read", "handle", "ack", "reclaim"}]
    BY DEF BusInv, TypeOK
  <2>3. \A q \in Procs : batch'[q] \in Seq(Msgs) /\ (batch'[q] # <<>> <=> loop'[q] \in {"handle", "ack"})
    BY <1>1, <1>2 DEF BusInv, TypeOK
  <2>4. pending' \subseteq Msgs
    BY DEF BusInv, TypeOK
  <2> QED BY <2>1, <2>2, <2>3, <2>4 DEF BusInv, TypeOK, Tables
<1>4. LogInv' /\ HandledAtMostOnce'
  BY DEF BusInv, LogInv, HandledAtMostOnce
<1>5. \A q : Elems(batch[q])' = Elems(batch'[q]) /\ Increasing(batch[q])' = Increasing(batch'[q])
  BY DEF Elems, Increasing
<1>6. Elems(done)' = Elems(done) /\ \A m : Registered(m)' = Registered(m) /\ Gone(m)' = Gone(m)
  BY DEF Elems, Registered, Type, Gone
<1>7. DeliveredInv'
  BY <1>1, <1>2, <1>5, <1>6 DEF BusInv, DeliveredInv
<1>8. ProgressInv'
  BY <1>1, <1>2, <1>6 DEF BusInv, ProgressInv
<1>9. NothingIsSkipped'
  BY <1>6 DEF BusInv, NothingIsSkipped
<1> QED BY <1>3, <1>4, <1>7, <1>8, <1>9 DEF BusInv

\* A process that is starting, at the top of its loop, reclaiming or down has nothing in hand.
LEMMA EmptyHanded ==
    ASSUME BusInv, NEW p \in Procs, loop[p] \in {"down", "read", "reclaim"}
    PROVE  batch = [batch EXCEPT ![p] = <<>>]
BY DEF BusInv, TypeOK, Tables

\* A fault counts.
LEMMA FaultFacts == ASSUME BusInv, Fault PROVE faults' \in 0 .. MaxFaults
BY NumbersAssumption DEF BusInv, TypeOK, Fault

\* Every step keeps the invariant.
LEMMA BusNextInv == BusInv /\ [Next]_vars => BusInv'
<1> SUFFICES ASSUME BusInv, [Next]_vars PROVE BusInv'
  OBVIOUS
<1> DEFINE Goal == BusInv'
<1>1. faults \in 0 .. MaxFaults /\ groups \subseteq Streams
  BY DEF BusInv, TypeOK
<1>2. ASSUME NEW p \in Procs, Start(p) \/ StartFails(p) PROVE Goal
  <2>1. /\ loop[p] = "down" /\ loop' = [loop EXCEPT ![p] = "read"]
        /\ UNCHANGED <<log, trimmed, delivered, pending, batch, done>> /\ groups' \subseteq Streams
    BY <1>1, <1>2 DEF Start, StartFails
  <2>2. faults' \in 0 .. MaxFaults
    <3>1. faults' = faults \/ Fault
      BY <1>2 DEF Start, StartFails
    <3> QED BY <1>1, <3>1, FaultFacts
  <2>3. batch' = [batch EXCEPT ![p] = <<>>]
    BY <2>1, EmptyHanded
  <2> QED BY <2>1, <2>2, <2>3, LoopInv
<1>3. ASSUME NEW p \in Procs, Reclaim(p) PROVE Goal
  <2>1. PICK stale \in SUBSET pending : pending' = pending \ {m \in stale : Gone(m)}
    BY <1>3 DEF Reclaim
  <2>2. /\ loop[p] = "reclaim" /\ loop' = [loop EXCEPT ![p] = "read"]
        /\ UNCHANGED <<groups, log, trimmed, delivered, batch, done, faults>>
    BY <1>3 DEF Reclaim
  <2>3. batch' = [batch EXCEPT ![p] = <<>>]
    BY <2>2, EmptyHanded
  <2>4. pending' \subseteq pending /\ \A m \in pending : m \in pending' \/ Gone(m)
    BY <2>1
  <2> QED BY <1>1, <2>2, <2>3, <2>4, LoopInv
<1>4. ASSUME NEW p \in Procs, Crash(p) PROVE Goal
  <2>1. /\ loop' = [loop EXCEPT ![p] = "down"] /\ batch' = [batch EXCEPT ![p] = <<>>]
        /\ UNCHANGED <<redis, done>> /\ Fault
    BY <1>4 DEF Crash
  <2>2. UNCHANGED <<groups, log, trimmed, delivered, pending, done>>
    BY <2>1 DEF redis
  <2> QED BY <1>1, <2>1, <2>2, FaultFacts, LoopInv
<1>5. ASSUME NEW p \in Procs, Stop(p) PROVE Goal
  <2>1. /\ loop[p] = "read" /\ loop' = [loop EXCEPT ![p] = "down"]
        /\ UNCHANGED <<redis, batch, done>> /\ Fault
    BY <1>5 DEF Stop
  <2>2. UNCHANGED <<groups, log, trimmed, delivered, pending, batch, done>>
    BY <2>1 DEF redis
  <2>3. batch' = [batch EXCEPT ![p] = <<>>]
    BY <2>1, <2>2, EmptyHanded
  <2> QED BY <1>1, <2>1, <2>2, <2>3, FaultFacts, LoopInv
<1>6. ASSUME NEW p \in Procs, Ack(p) PROVE Goal
  BY <1>1, <1>6, NextMessageInv DEF Ack
<1>7. ASSUME NEW p \in Procs, HandleFails(p) PROVE Goal
  <2>1. /\ loop[p] = "handle" /\ NextMessage(p) /\ Fault
        /\ UNCHANGED <<groups, log, trimmed, delivered, pending, done>>
    BY <1>7 DEF HandleFails, redis
  <2> QED BY <2>1, FaultFacts, NextMessageInv
<1>8. ASSUME NEW p \in Procs, AckFails(p) PROVE Goal
  BY <1>8, FaultFacts, NextMessageInv DEF AckFails
<1>9. ASSUME NEW st \in Streams, NEW type \in Types, Publish(st, type) PROVE Goal
  BY <1>9, PublishInv
<1>10. ASSUME NEW p \in Procs, Read(p) \/ ReadFails(p) \/ Handle(p) PROVE Goal
  BY <1>10, ReadInv, ReadFailsInv, HandleInv
<1>11. ASSUME UNCHANGED vars PROVE Goal
  <2>1. UNCHANGED <<groups, log, trimmed, delivered, pending, loop, batch, done, faults>>
    BY <1>11 DEF vars
  <2>2. TypeOK' /\ Tables' /\ LogInv' /\ HandledAtMostOnce'
    BY <2>1 DEF BusInv, TypeOK, Tables, LogInv, HandledAtMostOnce
  <2>3. DeliveredInv'
    BY <2>1 DEF BusInv, DeliveredInv, Elems, Increasing
  <2>4. ProgressInv' /\ NothingIsSkipped'
    BY <2>1 DEF BusInv, ProgressInv, NothingIsSkipped, Elems, Registered, Type, Gone
  <2> QED BY <2>2, <2>3, <2>4 DEF BusInv
<1> HIDE DEF Goal
<1>12. ASSUME Next PROVE Goal
  BY <1>2, <1>3, <1>4, <1>5, <1>6, <1>7, <1>8, <1>9, <1>10, <1>11, <1>12
     DEF Next, Step, ReadRefused
<1>13. Goal
  BY <1>11, <1>12
<1> QED BY <1>13 DEF Goal

\* The inductive invariant of the bus.
LEMMA BusInvAlways == Spec => []BusInv
BY BusInitInv, BusNextInv, PTL DEF Spec

\* The bus's state has its types; a process has messages in hand exactly while it deals with them.
THEOREM BusTypeOKAlways == Spec => []TypeOK
BY BusInvAlways, PTL DEF BusInv

\* Whatever crashes, is stopped, raises or loses a reply, and however many processes share the
\* group: no handler runs twice for the same message.
THEOREM HandledAtMostOnceAlways == Spec => []HandledAtMostOnce
<1>1. BusInv => HandledAtMostOnce
  BY DEF BusInv
<1> QED BY <1>1, BusInvAlways, PTL

\* A message that the group has passed over was handled, has no handler, is pending, or fell to
\* maxlen.
THEOREM NothingIsSkippedAlways == Spec => []NothingIsSkipped
<1>1. BusInv => NothingIsSkipped
  BY DEF BusInv
<1> QED BY <1>1, BusInvAlways, PTL

-----------------------------------------------------------------------------
(* The order of one process *)

\* Message j of a process is still to be handled.
Waits(p, j) == loop[p] = "handle" \/ j > 1

\* The only process runs its handlers in order, and what it has in hand comes later.
AloneInv ==
    part = "streams" =>
        /\ \A p \in Procs \ {p1} : loop[p] = "down"
        /\ HandledInOrder
        /\ \A i \in DOMAIN done : \A p \in Procs : \A j \in DOMAIN batch[p] :
              done[i][1] = batch[p][j][1] /\ Waits(p, j) => done[i][2] < batch[p][j][2]

\* Only a handler that returns makes a message done.
LEMMA OnlyHandleDoes ==
    ASSUME [Next]_vars
    PROVE  done' = done \/ \E p \in Procs : Handle(p)
BY DEF Next, Step, vars, redis, Publish, Start, Read, Deliver, Ack, Reclaim, ReadFails, HandleFails,
       AckFails, Crash, Stop, NextMessage, StartFails, ReadRefused

\* What a process has in hand it had before, or it is new to the group.
LEMMA HandsStep ==
    ASSUME BusInv, [Next]_vars, done' = done, NEW p \in Procs, NEW j \in DOMAIN batch'[p],
           Waits(p, j)'
    PROVE  \/ \E k \in DOMAIN batch[p] : Waits(p, k) /\ batch'[p][j] = batch[p][k]
           \/ batch'[p][j][2] > delivered[batch'[p][j][1]]
<1> DEFINE Goal == \/ \E k \in DOMAIN batch[p] : Waits(p, k) /\ batch'[p][j] = batch[p][k]
                   \/ batch'[p][j][2] > delivered[batch'[p][j][1]]
<1>1. TypeOK /\ LogInv /\ Tables
  BY DEF BusInv
<1>2. ASSUME batch'[p] = batch[p], loop'[p] = "handle" => loop[p] = "handle" PROVE Goal
  BY <1>2 DEF Waits
<1>3. ASSUME NEW q \in Procs, Read(q) PROVE Goal
  <2>1. PICK order \in [1 .. Cardinality(Streams) -> Streams] :
            /\ \A st \in Streams : \E i \in DOMAIN order : order[i] = st
            /\ Deliver(Elems(Chunks(order)))
            /\ batch' = [batch EXCEPT ![q] = Chunks(order)]
            /\ loop' = [loop EXCEPT ![q] = IF Chunks(order) = <<>> THEN "reclaim" ELSE "handle"]
    BY <1>3 DEF Read
  <2>2. Chunks(order) \in Seq(Msgs) /\ Elems(Chunks(order)) = Returned
    BY <1>1, <2>1, ChunksFacts DEF Returned
  <2>3. \A m \in Returned : m \in Msgs /\ delivered[m[1]] < m[2]
    BY <1>1, <2>1, <2>2, DeliverFacts
  <2>4. CASE q # p
    BY <1>1, <1>2, <2>1, <2>4 DEF Tables, TypeOK
  <2>5. CASE q = p
    <3>1. batch'[p] = Chunks(order)
      BY <1>1, <2>1, <2>5 DEF Tables
    <3>2. batch'[p][j] \in Returned
      BY <2>2, <3>1 DEF Elems
    <3> QED BY <1>1, <2>3, <3>2, NumbersAssumption DEF TypeOK, Msgs
  <2> QED BY <2>4, <2>5
<1>4. ASSUME NEW q \in Procs, NextMessage(q), loop[q] \in {"handle", "ack"} PROVE Goal
  <2>1. /\ batch' = [batch EXCEPT ![q] = Tail(batch[q])]
        /\ loop' = [loop EXCEPT ![q] = IF Len(batch[q]) = 1 THEN "reclaim" ELSE "handle"]
    BY <1>4 DEF NextMessage
  <2>2. CASE q # p
    BY <1>1, <1>2, <2>1, <2>2 DEF Tables, TypeOK
  <2>3. CASE q = p
    <3>1. batch[p] \in Seq(Msgs) /\ batch[p] # <<>>
      BY <1>1, <1>4, <2>3 DEF TypeOK
    <3>2. batch'[p] = Tail(batch[p])
      BY <1>1, <2>1, <2>3 DEF Tables
    <3>3. j \in 1 .. Len(batch[p]) - 1 /\ Len(batch[p]) \in Nat
      BY <3>1, <3>2, TailFacts
    <3>4. j + 1 \in DOMAIN batch[p] /\ batch'[p][j] = batch[p][j + 1] /\ j + 1 > 1
      BY <3>1, <3>2, <3>3, TailFacts
    <3> QED BY <3>4 DEF Waits
  <2> QED BY <2>2, <2>3
<1>5. ASSUME NEW q \in Procs, Start(q) \/ StartFails(q) \/ Reclaim(q) \/ Stop(q) PROVE Goal
  <2>1. batch' = batch /\ loop'[q] \in {"read", "down"} /\ loop' = [loop EXCEPT ![q] = loop'[q]]
    BY <1>1, <1>5 DEF Start, StartFails, Reclaim, Stop, TypeOK
  <2> QED BY <1>1, <1>2, <2>1 DEF TypeOK
<1>6. ASSUME NEW q \in Procs, Crash(q) PROVE Goal
  <2>1. batch' = [batch EXCEPT ![q] = <<>>] /\ loop' = [loop EXCEPT ![q] = "down"]
    BY <1>6 DEF Crash
  <2>2. q # p
    BY <1>1, <2>1 DEF Tables
  <2> QED BY <1>1, <1>2, <2>1, <2>2 DEF Tables, TypeOK
<1>7. ASSUME NEW q \in Procs, Handle(q) PROVE Goal
  <2>1. batch' = batch /\ loop' = [loop EXCEPT ![q] = "ack"]
    BY <1>7 DEF Handle
  <2> QED BY <1>1, <1>2, <2>1 DEF TypeOK
<1>8. ASSUME UNCHANGED <<loop, batch>> PROVE Goal
  BY <1>2, <1>8
<1> HIDE DEF Goal
<1>9. ASSUME NEW q \in Procs, ReadFails(q) \/ Ack(q) \/ HandleFails(q) \/ AckFails(q) PROVE Goal
  BY <1>4, <1>8, <1>9 DEF ReadFails, Ack, HandleFails, AckFails
<1>10. Goal
  BY <1>3, <1>5, <1>6, <1>7, <1>8, <1>9 DEF Next, Step, Publish, ReadRefused, vars
<1> QED BY <1>10 DEF Goal

\* Alone, the process handles the first of what it has in hand, which comes after what is done.
LEMMA AloneStep ==
    ASSUME BusInv, AloneInv, Next, Fits', part' = part
    PROVE  AloneInv'
<1> SUFFICES ASSUME part = "streams" PROVE AloneInv'
  BY DEF AloneInv
<1>1. part' = "streams" /\ Fits' /\ BusInv'
  BY BusNextInv
<1>2. \A p \in Procs \ {p1} : loop[p] = "down" /\ loop'[p] = "down"
  BY <1>1 DEF AloneInv, Fits
<1>3. /\ HandledInOrder
      /\ \A i \in DOMAIN done : \A p \in Procs : \A j \in DOMAIN batch[p] :
            done[i][1] = batch[p][j][1] /\ Waits(p, j) => done[i][2] < batch[p][j][2]
  BY <1>1 DEF AloneInv
<1>4. done \in Seq(Msgs) /\ \A p \in Procs : batch[p] \in Seq(Msgs)
  BY DEF BusInv, TypeOK
<1> SUFFICES /\ HandledInOrder'
             /\ \A i \in DOMAIN done' : \A p \in Procs : \A j \in DOMAIN batch'[p] :
                   done'[i][1] = batch'[p][j][1] /\ Waits(p, j)' => done'[i][2] < batch'[p][j][2]
  BY <1>2 DEF AloneInv
<1>5. CASE done' = done
  <2>1. HandledInOrder'
    BY <1>3, <1>5 DEF HandledInOrder
  <2>2. ASSUME NEW i \in DOMAIN done, NEW p \in Procs, NEW j \in DOMAIN batch'[p],
               done[i][1] = batch'[p][j][1], Waits(p, j)'
        PROVE  done[i][2] < batch'[p][j][2]
    <3>1. done[i] \in Msgs /\ done[i][2] <= delivered[done[i][1]]
      BY ElementsAreMessages DEF BusInv, DeliveredInv, Elems
    <3>2. CASE \E k \in DOMAIN batch[p] : Waits(p, k) /\ batch'[p][j] = batch[p][k]
      BY <1>3, <2>2, <3>2
    <3>3. CASE batch'[p][j][2] > delivered[batch'[p][j][1]]
      <4>1. batch'[p] \in Seq(Msgs)
        BY <1>1 DEF BusInv, TypeOK
      <4>2. batch'[p][j] \in Msgs
        BY <4>1
      <4>3. batch'[p][j][2] \in Nat /\ done[i][2] \in Nat /\ delivered[done[i][1]] \in Nat
        <5>1. delivered \in [Streams -> 0 .. MaxPublished]
          BY DEF BusInv, TypeOK
        <5>2. \A m \in Msgs : m[1] \in Streams /\ m[2] \in Nat
          BY NumbersAssumption DEF Msgs
        <5> QED BY <3>1, <4>2, <5>1, <5>2, NumbersAssumption
      <4> QED BY <2>2, <3>1, <3>3, <4>3
    <3> QED BY <1>5, <2>2, <3>2, <3>3, HandsStep
  <2> QED BY <1>5, <2>1, <2>2
<1>6. CASE done' # done
  <2>1. PICK p \in Procs : Handle(p)
    BY <1>6, OnlyHandleDoes
  <2> DEFINE m == Head(batch[p])
  <2>2. /\ loop[p] = "handle" /\ loop' = [loop EXCEPT ![p] = "ack"] /\ batch' = batch
        /\ done' = Append(done, m)
    BY <1>6, <2>1 DEF Handle
  <2>3. batch[p] # <<>> /\ p = p1
    BY <1>2, <2>2 DEF BusInv, TypeOK
  <2>4. 1 \in DOMAIN batch[p] /\ m = batch[p][1] /\ m \in Msgs
    BY <1>4, <2>3, TailFacts, ElementsAreMessages DEF Elems
  <2> HIDE DEF m
  <2>5. /\ Len(done) \in Nat /\ DOMAIN done = 1 .. Len(done) /\ DOMAIN done' = 1 .. Len(done) + 1
        /\ done'[Len(done) + 1] = m /\ \A i \in 1 .. Len(done) : done'[i] = done[i]
    BY <1>4, <2>2, <2>4, AppendProperties
  <2>6. \A i \in DOMAIN done : done[i][1] = m[1] => done[i][2] < m[2]
    BY <1>3, <2>2, <2>4 DEF Waits
  <2>7. ASSUME NEW i \in DOMAIN done', NEW j \in DOMAIN done', i < j, done'[i][1] = done'[j][1]
        PROVE  done'[i][2] < done'[j][2]
    <3>1. i \in DOMAIN done /\ done'[i] = done[i]
      BY <2>5, <2>7
    <3>2. CASE j = Len(done) + 1
      BY <2>5, <2>6, <2>7, <3>1, <3>2
    <3>3. CASE j # Len(done) + 1
      <4>1. j \in DOMAIN done /\ done'[j] = done[j]
        BY <2>5, <3>3
      <4> QED BY <1>3, <2>7, <3>1, <4>1 DEF HandledInOrder
    <3> QED BY <3>2, <3>3
  <2>8. ASSUME NEW i \in DOMAIN done', NEW q \in Procs, NEW j \in DOMAIN batch[q],
               done'[i][1] = batch[q][j][1], loop'[q] = "handle" \/ j > 1
        PROVE  done'[i][2] < batch[q][j][2]
    <3>1. q = p
      BY <1>2, <2>3, <2>8 DEF BusInv, TypeOK
    <3>2. loop'[p] = "ack"
      BY <2>2 DEF BusInv, TypeOK
    <3>3. j > 1
      BY <2>8, <3>1, <3>2
    <3>4. CASE i = Len(done) + 1
      <4>1. Increasing(batch[p])
        BY DEF BusInv, DeliveredInv
      <4>2. done'[i] = batch[p][1]
        BY <2>4, <2>5, <3>4
      <4> QED BY <2>4, <2>8, <3>1, <3>3, <4>1, <4>2 DEF Increasing
    <3>5. CASE i # Len(done) + 1
      <4>1. i \in DOMAIN done /\ done'[i] = done[i]
        BY <2>5, <3>5
      <4> QED BY <1>3, <2>2, <2>8, <3>1, <4>1 DEF Waits
    <3> QED BY <3>4, <3>5
  <2>9. HandledInOrder'
    BY <2>7 DEF HandledInOrder
  <2> QED BY <2>2, <2>8, <2>9 DEF Waits
<1> QED BY <1>5, <1>6

\* The one process of a group runs its handlers in the order of publication, whatever fails.
THEOREM AloneInOrderAlways == MCSpec => []AloneInOrder
<1>1. MCInit => Init /\ AloneInv
  BY DEF MCInit, Init, AloneInv, HandledInOrder
<1>2. AloneInv => AloneInOrder
  BY DEF AloneInv, AloneInOrder
<1>3. [Within(Next)]_mcVars => [Next]_vars
  BY DEF Within, mcVars, vars
<1>4. BusInv /\ AloneInv /\ [Within(Next)]_mcVars => AloneInv'
  <2>1. ASSUME UNCHANGED mcVars, AloneInv PROVE AloneInv'
    BY <2>1 DEF mcVars, vars, AloneInv, HandledInOrder, Waits
  <2>2. Within(Next) => Next /\ Fits' /\ part' = part
    BY DEF Within
  <2> QED BY <2>1, <2>2, AloneStep
<1> QED BY <1>1, <1>2, <1>3, <1>4, BusInitInv, BusNextInv, PTL DEF MCSpec

=============================================================================
