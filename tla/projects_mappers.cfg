\* The models as they are, whose relationships SQLAlchemy cannot resolve.
CONSTANTS
    ClientIds = {c1}
    ProjectIds = {p1}
    MilestoneIds = {m1}
    TaskIds = {t1}
    CommentIds = {k1}
    Statuses = {"pending", "done"}
    Sessions = {s1}
    MappersConfigure = FALSE
    None = None
SPECIFICATION Spec
INVARIANT RequestsAreServed
CHECK_DEADLOCK FALSE
