\* Three tasks of a project, or a row of every table; attachments; notifications; preferences.
CONSTANTS
    None = None
    ClientIds = {c1}
    ProjectIds = {p1}
    MilestoneIds = {m1}
    TaskIds = {t1, t2, t3}
    CommentIds = {k1}
    Statuses = {"pending", "done"}
    MappersConfigure = TRUE
    Sessions = {s1, s2}
    AttachmentIds = {a1}
    Contents = {x, y}
    NotificationIds = {n1, n2}
    PreferenceIds = {q1, q2}
    Users = {"ann", "bob"}
    MaxTime = 3
SPECIFICATION MCSpec
SYMMETRY MCSymmetry
INVARIANTS
    ContentTypeOK
    SubtasksFormAForest
    NothingIsStranded
    ConfirmedFilesExist
PROPERTIES
    DoneTasksAreStamped
    MarksStay
    NotificationsOnlyAdvance
CHECK_DEADLOCK FALSE
