\* Two processes on a stream, or one on two; crashes, lost replies, failing handlers, trimming.
CONSTANTS
    p1 = p1
    s1 = "events:projects"
    Streams = {"events:projects", "events:timelog"}
    Procs = {p1, p2}
    Types = {"task.assigned", "task.created"}
    Handlers = {"task.assigned"}
    BatchSize = 2
    MaxLen = 1
    MaxPublished = 3
    MaxFaults = 2
SPECIFICATION MCSpec
INVARIANTS
    TypeOK
    HandledAtMostOnce
    NothingIsSkipped
    AloneInOrder
PROPERTIES
    EventsAreHandled
    PendingIsResolved
