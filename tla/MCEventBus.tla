------------------------------ MODULE MCEventBus -----------------------------
(* EventBus on small instances: one stream with two processes, or two streams *)
(* with one process, which `part` tells apart.                                *)
EXTENDS EventBus

CONSTANTS p1, s1    \* the only process, the only stream

VARIABLE part

mcVars == <<vars, part>>

MCInit == Init /\ part \in {"processes", "streams"}

Fits ==
    IF part = "processes" THEN \A st \in Streams \ {s1} : log[st] = <<>>
    ELSE /\ \A p \in Procs \ {p1} : loop[p] = "down"
         /\ \A st \in Streams : Len(log[st]) <= 2

Within(action) == action /\ UNCHANGED part /\ Fits'

MCSpec == /\ MCInit /\ [][Within(Next)]_mcVars
          /\ \A p \in Procs : WF_mcVars(Within(Step(p)))

\* The one process of a group runs its handlers in the order of publication, although a
\* failed message is passed over and the rest of its batch goes on.
AloneInOrder == part = "streams" => HandledInOrder

==============================================================================
