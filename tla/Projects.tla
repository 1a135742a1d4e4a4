------------------------------ MODULE Projects ------------------------------
(***************************************************************************)
(* Clients, projects, milestones, tasks and comments: the repositories of  *)
(* project_repo.py and the routers clients, projects and tasks.  The five  *)
(* repositories have one shape, so the tables are one function of the kind *)
(* of row.  A request reads its row (the actions named after the           *)
(* handlers), then its INSERT or UPDATE reaches the database (Commit);     *)
(* between the two other requests commit.  An UPDATE writes the columns    *)
(* whose value differs from the one loaded, and no others.  One tenant's   *)
(* rows are modelled: those of other tenants are not found by any lookup.  *)
(***************************************************************************)
EXTENDS Integers

CONSTANTS
    ClientIds, ProjectIds, MilestoneIds, TaskIds, CommentIds,
    Statuses,            \* free text in the code; "done" is the one it looks at, and
                         \* "pending" a default
    Sessions,
    MappersConfigure,    \* SQLAlchemy resolves the relationships of models/project.py
    None

ASSUME StatusAssumption == {"done", "pending"} \subseteq Statuses
ASSUME MappersAssumption == MappersConfigure \in BOOLEAN

Kinds == {"client", "project", "milestone", "task", "comment"}
Ids == [client |-> ClientIds, project |-> ProjectIds, milestone |-> MilestoneIds,
        task |-> TaskIds, comment |-> CommentIds]

\* Rows; `completed` and `deleted` say whether completed_at and deleted_at are set.
Client == [active : BOOLEAN, deleted : BOOLEAN]
Project == [status : Statuses, deleted : BOOLEAN]
Milestone == [project : ProjectIds, status : Statuses, deleted : BOOLEAN]
Task == [project : ProjectIds, milestone : MilestoneIds \cup {None}, parent : TaskIds \cup {None},
         status : Statuses, completed : BOOLEAN, deleted : BOOLEAN]
Comment == [task : TaskIds, deleted : BOOLEAN]

Idle == [op |-> "idle"]
Failed == [op |-> "failed"]

VARIABLES
    db,     \* the tables: db[kind][id] is a row or None
    txn     \* what each session is about to write

vars == <<db, txn>>

\* The rows of a kind, soft-deleted ones included.
Rows(kind) == {i \in Ids[kind] : db[kind][i] # None}

TypeOK ==
    /\ \A i \in Rows("client") : db["client"][i] \in Client
    /\ \A i \in Rows("project") : db["project"][i] \in Project
    /\ \A i \in Rows("milestone") : db["milestone"][i] \in Milestone
    /\ \A i \in Rows("task") : db["task"][i] \in Task
    /\ \A i \in Rows("comment") : db["comment"][i] \in Comment

Init ==
    /\ db = [k \in Kinds |-> [i \in Ids[k] |-> None]]
    /\ txn = [s \in Sessions |-> Idle]

-----------------------------------------------------------------------------
(* Repositories *)

\* get: a row of the tenant that is not soft-deleted
Get(kind, i) == i \in Rows(kind) /\ ~db[kind][i].deleted

\* A session's statements wait for its commit; a mapper that cannot be configured fails
\* the first use of any model.
Begin(s, t) ==
    /\ txn[s] = Idle
    /\ txn' = [txn EXCEPT ![s] = IF MappersConfigure THEN t ELSE Failed]
    /\ UNCHANGED db

Create(s, kind, row) == Begin(s, [op |-> "insert", kind |-> kind, row |-> row])

\* Plausible slip: the UPDATE writes the row as it was loaded, with the changes.
Changed_All(row, updates) ==
    [c \in DOMAIN row |-> IF c \in DOMAIN updates THEN updates[c] ELSE row[c]]

\* setattr for each item and flush: the columns that differ from what was loaded
Changed(row, updates) ==
    [c \in {d \in DOMAIN updates : updates[d] # row[d]} |-> updates[c]]

Update(s, kind, i, updates) ==
    Begin(s, [op |-> "update", kind |-> kind, id |-> i, set |-> Changed(db[kind][i], updates)])

SoftDelete(s, kind, i) == Get(kind, i) /\ Update(s, kind, i, [deleted |-> TRUE])

-----------------------------------------------------------------------------
(* Handlers *)

CreateClient(s) == txn[s] = Idle /\ Create(s, "client", [active |-> TRUE, deleted |-> FALSE])
UpdateClient(s, c, active) ==
    Get("client", c) /\ Update(s, "client", c, [active |-> active])
DeleteClient(s, c) == SoftDelete(s, "client", c)

\* client_id is not looked up and has no foreign key: it is left out.
CreateProject(s, status) ==
    txn[s] = Idle /\ Create(s, "project", [status |-> status, deleted |-> FALSE])
UpdateProject(s, p, status) ==
    Get("project", p) /\ Update(s, "project", p, [status |-> status])
DeleteProject(s, p) == SoftDelete(s, "project", p)   \* milestones and tasks stay

CreateMilestone(s, p) ==
    /\ Get("project", p)
    /\ Create(s, "milestone", [project |-> p, status |-> "pending", deleted |-> FALSE])
UpdateMilestone(s, p, m, status) ==
    /\ Get("milestone", m) /\ db["milestone"][m].project = p
    /\ Update(s, "milestone", m, [status |-> status])
DeleteMilestone(s, p, m) ==
    /\ Get("milestone", m) /\ db["milestone"][m].project = p
    /\ SoftDelete(s, "milestone", m)

\* Project, milestone and parent are left to the foreign keys.
CreateTask(s, p, m, parent, status) ==
    /\ txn[s] = Idle
    /\ Create(s, "task", [project |-> p, milestone |-> m, parent |-> parent, status |-> status,
                          completed |-> FALSE, deleted |-> FALSE])

\* Plausible slip: PATCH may move a task below another one.
TaskUpdate_Parent ==
    {[status |-> x] : x \in Statuses} \cup {[milestone |-> m] : m \in MilestoneIds}
    \cup {[parent |-> t] : t \in TaskIds}

\* The bodies of PATCH /tasks/{id}, without the fields that are None.
TaskUpdate ==
    {[status |-> x] : x \in Statuses} \cup {[milestone |-> m] : m \in MilestoneIds}
    \cup {[status |-> x, milestone |-> m] : x \in Statuses, m \in MilestoneIds}

\* Plausible slip: == for !=.
Completing_Swapped(t, body) ==
    "status" \in DOMAIN body /\ body.status = "done" /\ db["task"][t].status = "done"

\* completed_at is set when the status turns to done, by the row this request loaded.
Completing(t, body) ==
    "status" \in DOMAIN body /\ body.status = "done" /\ db["task"][t].status # "done"

UpdateTask(s, t, body) ==
    /\ Get("task", t)
    /\ Update(s, "task", t,
              [c \in DOMAIN body \cup (IF Completing(t, body) THEN {"completed"} ELSE {}) |->
                  IF c = "completed" THEN TRUE ELSE body[c]])
DeleteTask(s, t) == SoftDelete(s, "task", t)

\* The task is left to the foreign key.
CreateComment(s, t) == txn[s] = Idle /\ Create(s, "comment", [task |-> t, deleted |-> FALSE])
DeleteComment(s, c) == SoftDelete(s, "comment", c)

-----------------------------------------------------------------------------
(* Commit *)

ForeignKeys(kind, row) ==
    /\ kind \in {"milestone", "task"} => row.project \in Rows("project")
    /\ kind = "task" => /\ row.milestone \in Rows("milestone") \cup {None}
                        /\ row.parent \in Rows("task") \cup {None}
    /\ kind = "comment" => row.task \in Rows("task")

Store(kind, i, row) ==
    /\ ForeignKeys(kind, row)
    /\ db' = [db EXCEPT ![kind][i] = row]

Insert(x) ==
    /\ x.op = "insert"
    /\ \E i \in Ids[x.kind] \ Rows(x.kind) : Store(x.kind, i, x.row)

UpdateRow(x) ==
    /\ x.op = "update"
    /\ LET row == db[x.kind][x.id] IN
         Store(x.kind, x.id, [c \in DOMAIN row |-> IF c \in DOMAIN x.set THEN x.set[c] ELSE row[c]])

\* flush and session.commit()
Commit(s) ==
    /\ Insert(txn[s]) \/ UpdateRow(txn[s])
    /\ txn' = [txn EXCEPT ![s] = Idle]

\* The request fails, on a foreign key or otherwise; the session is closed uncommitted.
Rollback(s) ==
    /\ txn[s] # Idle
    /\ txn' = [txn EXCEPT ![s] = Idle]
    /\ UNCHANGED db

ClientRequest(s) ==
    \/ CreateClient(s)
    \/ \E c \in ClientIds : DeleteClient(s, c) \/ \E a \in BOOLEAN : UpdateClient(s, c, a)

ProjectRequest(s) ==
    \/ \E x \in Statuses : CreateProject(s, x)
    \/ \E p \in ProjectIds :
        \/ DeleteProject(s, p)
        \/ CreateMilestone(s, p)
        \/ \E x \in Statuses : UpdateProject(s, p, x)
        \/ \E m \in MilestoneIds : \/ DeleteMilestone(s, p, m)
                                   \/ \E x \in Statuses : UpdateMilestone(s, p, m, x)

TaskRequest(s) ==
    \/ \E p \in ProjectIds, m \in MilestoneIds \cup {None}, q \in TaskIds \cup {None},
          x \in Statuses : CreateTask(s, p, m, q, x)
    \/ \E t \in TaskIds : \/ DeleteTask(s, t)
                          \/ CreateComment(s, t)
                          \/ \E body \in TaskUpdate : UpdateTask(s, t, body)
    \/ \E c \in CommentIds : DeleteComment(s, c)

Next ==
    \E s \in Sessions :
        \/ txn[s] = Idle /\ (ClientRequest(s) \/ ProjectRequest(s) \/ TaskRequest(s))
        \/ Commit(s) \/ Rollback(s)

Spec == Init /\ [][Next]_vars

-----------------------------------------------------------------------------
(* Properties *)

\* Subtasks form a forest: a parent is named when a task is created and never again
\* (TaskUpdate has no parent_task_id), so no task is above itself at any distance.
SubtasksFormAForest ==
    \A S \in (SUBSET Rows("task")) \ {{}} : \E t \in S : db["task"][t].parent \notin S

\* A PATCH that turns a task to done leaves it with completed_at, although it looks at the
\* status it loaded and another PATCH may have changed it since (update_task).
DoneTasksAreStamped ==
    [][\A t \in Rows("task") :
          db["task"][t].status # "done" /\ db'["task"][t].status = "done" =>
              db'["task"][t].completed]_vars

\* What is deleted stays deleted, and completed_at stays set: a PATCH that loaded its row
\* before an overlapping DELETE or PATCH committed takes back neither, although its session
\* still holds the row without them (update and soft_delete of the repositories).
MarksStay ==
    [][\A k \in Kinds : \A i \in Rows(k) :
          /\ db'[k][i] # None
          /\ db[k][i].deleted => db'[k][i].deleted
          /\ k = "task" /\ db[k][i].completed => db'[k][i].completed]_vars

\* "Full CRUD for clients, projects, milestones, tasks, ..." (README): the service can
\* serve its requests.
RequestsAreServed == \A s \in Sessions : txn[s] # Failed

=============================================================================
