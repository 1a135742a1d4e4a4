---------------------------- MODULE ContentProofs ----------------------------
(***************************************************************************)
(* Proofs about attachments, notifications and the projects service, for   *)
(* every set of rows, users and sessions.                                  *)
(***************************************************************************)
EXTENDS MCContent, TLAPS

-----------------------------------------------------------------------------
(* Attachments *)

\* What a session carries from one step of its request to the next.
FileRequest ==
    {Files!Idle}
    \cup [step : {"head", "confirm"}, id : AttachmentIds, claim : Contents \cup {None}]
    \cup [step : {"remove", "forget"}, id : AttachmentIds]

FilesTypeInv == Files!TypeOK /\ request \in [Sessions -> FileRequest]

\* A request works on a record; one that is about to delete it has removed the object, and
\* one that is about to confirm it has seen the object or somebody removed it since.
FileRequestInv ==
    \A s \in Sessions : request[s] # Files!Idle =>
        /\ record[request[s].id] # None
        /\ request[s].step = "forget" => history[request[s].id] # "kept"
        /\ request[s].step = "confirm" /\ history[request[s].id] = "kept" =>
              object[request[s].id] # None

\* A record is deleted after some request removed its object, and the object stays away
\* until a late PUT.
DeletionInv ==
    \A a \in AttachmentIds :
        /\ record[a] # None /\ record[a].deleted => history[a] # "kept"
        /\ history[a] = "removed" => object[a] = None

FilesInv == FilesTypeInv /\ FileRequestInv /\ DeletionInv /\ ConfirmedFilesExist

\* Init and every step of a handler, of MinIO or of its clients keep the invariant.
LEMMA FilesInitInv == Files!Init => FilesInv
BY DEF Files!Init, FilesInv, FilesTypeInv, FileRequestInv, DeletionInv, Files!TypeOK,
       FileRequest, ConfirmedFilesExist, Files!ConfirmedFilesExist, Files!Idle

\* Presigning, uploading, confirming and deleting keep the invariant of attachments.
LEMMA FilesNextInv == FilesInv /\ [Files!Next]_(Files!vars) => FilesInv'
<1> SUFFICES ASSUME FilesInv, [Files!Next]_(Files!vars) PROVE FilesInv'
  OBVIOUS
<1> USE NoneAssumption DEF FilesInv, FilesTypeInv, FileRequestInv, DeletionInv, Files!TypeOK, FileRequest,
    ConfirmedFilesExist, Files!ConfirmedFilesExist, Files!Idle, Files!Record
<1>1. ASSUME NEW a \in AttachmentIds, Files!InitiateUpload(a)
      PROVE  FilesInv'
  BY <1>1 DEF Files!InitiateUpload
<1>2. ASSUME NEW a \in AttachmentIds, Files!Expire(a)
      PROVE  FilesInv'
  BY <1>2 DEF Files!Expire
<1>3. ASSUME NEW a \in AttachmentIds, NEW x \in Contents, Files!Put(a, x)
      PROVE  FilesInv'
  BY <1>3 DEF Files!Put
<1>4. ASSUME NEW s \in Sessions, Files!Head(s)
      PROVE  FilesInv'
  BY <1>4 DEF Files!Head, Files!ObjectExists
<1>5. ASSUME NEW s \in Sessions, Files!FailedHead(s) \/ Files!Crash(s)
      PROVE  FilesInv'
  BY <1>5 DEF Files!FailedHead, Files!Crash
<1>6. ASSUME NEW s \in Sessions, Files!Confirm(s)
      PROVE  FilesInv'
  BY <1>6 DEF Files!Confirm
<1>7. ASSUME NEW s \in Sessions, Files!RemoveObject(s)
      PROVE  FilesInv'
  BY <1>7 DEF Files!RemoveObject
<1>8. ASSUME NEW s \in Sessions, Files!SoftDelete(s)
      PROVE  FilesInv'
  <2> DEFINE a == request[s].id
  <2>1. /\ a \in AttachmentIds /\ record[a] \in Files!Record
        /\ record' = [record EXCEPT ![a] = [record[a] EXCEPT !.deleted = TRUE]]
        /\ history[a] # "kept"
    BY <1>8 DEF Files!SoftDelete
  <2>2. [record[a] EXCEPT !.deleted = TRUE] \in Files!Record
    BY <2>1
  <2>3. /\ request' = [request EXCEPT ![s] = Files!Idle]
        /\ UNCHANGED <<object, put, confirmed, history>>
    BY <1>8 DEF Files!SoftDelete
  <2> HIDE DEF a, Files!Record
  <2>4. FilesTypeInv'
    BY <2>1, <2>2, <2>3
  <2> QED BY <2>1, <2>2, <2>3, <2>4
<1>9. ASSUME NEW s \in Sessions, NEW a \in AttachmentIds, Files!DeleteAttachment(s, a)
      PROVE  FilesInv'
  BY <1>9 DEF Files!DeleteAttachment, Files!Start, Files!Get
<1>10. ASSUME NEW s \in Sessions, NEW a \in AttachmentIds, NEW x \in Contents \cup {None},
              Files!ConfirmUpload(s, a, x)
       PROVE  FilesInv'
  <2> DEFINE claim == Files!Column(a, x)
  <2>1. claim \in Contents \cup {None}
    BY DEF Files!Column
  <2>2. /\ request' = [request EXCEPT ![s] = [step |-> "head", id |-> a, claim |-> claim]]
        /\ record[a] # None /\ UNCHANGED <<record, object, put, confirmed, history>>
    BY <1>10 DEF Files!ConfirmUpload, Files!Start, Files!Get
  <2> HIDE DEF claim
  <2> QED BY <2>1, <2>2
<1>11. CASE UNCHANGED Files!vars
  BY <1>11 DEF Files!vars
<1> QED
  BY <1>1, <1>2, <1>3, <1>4, <1>5, <1>6, <1>7, <1>8, <1>9, <1>10, <1>11 DEF Files!Next

\* The inductive invariant of attachments.
LEMMA FilesInvAlways == Files!Spec => []FilesInv
BY FilesInitInv, FilesNextInv, PTL DEF Files!Spec

\* Whenever a request dies and however uploads, confirmations and deletions overlap, no
\* object is left behind a deleted record, except by a PUT after delete_object.
THEOREM NothingIsStrandedAlways == Files!Spec => []NothingIsStranded
<1>1. FilesInv => NothingIsStranded
  BY DEF FilesInv, DeletionInv, FilesTypeInv, Files!TypeOK, NothingIsStranded, Files!NothingIsStranded
<1> QED BY <1>1, FilesInvAlways, PTL

\* What confirm_upload answered 201 for is in the bucket until a deletion reaches MinIO,
\* although the HEAD and the commit are two steps.
THEOREM ConfirmedFilesExistAlways == Files!Spec => []ConfirmedFilesExist
<1>1. FilesInv => ConfirmedFilesExist
  BY DEF FilesInv
<1> QED BY <1>1, FilesInvAlways, PTL

-----------------------------------------------------------------------------
(* Notifications and preferences *)

\* What a session is about to write.
InboxRequest ==
    {Inbox!Idle}
    \cup [op : {"mark"}, id : NotificationIds, at : 1 .. MaxTime]
    \cup [op : {"all"}, user : Users, at : 1 .. MaxTime]
    \cup [op : {"delete"}, id : NotificationIds]
    \cup [op : {"prefs"}, user : Users, id : PreferenceIds \cup {None},
          set : {<< >>} \cup Inbox!PreferenceUpdate]

\* The tables hold rows; what updates the row of some preferences has found it there.
InboxInv ==
    /\ notes \in [NotificationIds -> {None, Inbox!Gone} \cup Inbox!Notification]
    /\ prefs \in [PreferenceIds -> {None} \cup Inbox!Preference]
    /\ now \in 1 .. MaxTime
    /\ inboxTxn \in [Sessions -> InboxRequest]
    /\ \A s \in Sessions :
          inboxTxn[s].op = "prefs" /\ inboxTxn[s].id # None => prefs[inboxTxn[s].id] # None

\* The inbox starts without notifications.
LEMMA InboxInitInv == Inbox!Init => InboxInv
BY ClockAssumption DEF Inbox!Init, InboxInv, InboxRequest, Inbox!Idle

\* A body that passes Complete turns a row of preferences into a row.
LEMMA MergeType ==
    ASSUME NEW row \in Inbox!Preference, NEW x \in InboxRequest, x.op = "prefs", Inbox!Complete(x)
    PROVE  Inbox!Merge(row, x.set) \in Inbox!Preference
<1>1. x.set \in {<< >>} \cup {[email |-> b] : b \in BOOLEAN} \cup {[inapp |-> b] : b \in BOOLEAN}
  BY DEF InboxRequest, Inbox!Idle, Inbox!PreferenceUpdate, Inbox!Complete
<1>2. CASE x.set = << >>
  BY <1>2 DEF Inbox!Merge, Inbox!Preference
<1>3. CASE x.set \in {[email |-> b] : b \in BOOLEAN}
  BY <1>3 DEF Inbox!Merge, Inbox!Preference
<1>4. CASE x.set \in {[inapp |-> b] : b \in BOOLEAN}
  BY <1>4 DEF Inbox!Merge, Inbox!Preference
<1> QED BY <1>1, <1>2, <1>3, <1>4

\* A handler reads and leaves the tables alone.
LEMMA InboxBeginInv ==
    ASSUME InboxInv, NEW s \in Sessions, NEW t \in InboxRequest, Inbox!Begin(s, t),
           t.op = "prefs" /\ t.id # None => prefs[t.id] # None
    PROVE  InboxInv'
BY DEF InboxInv, Inbox!Begin

\* Handlers and deliveries keep the invariant of notifications.
LEMMA InboxNextInv == InboxInv /\ [Inbox!Next]_(Inbox!vars) => InboxInv'
<1> SUFFICES ASSUME InboxInv, [Inbox!Next]_(Inbox!vars) PROVE InboxInv'
  OBVIOUS
<1>1. CASE Inbox!Tick
  BY <1>1, ClockAssumption DEF Inbox!Tick, InboxInv
<1>2. ASSUME NEW n \in NotificationIds, NEW u \in Users, Inbox!Deliver(n, u)
      PROVE  InboxInv'
  BY <1>2 DEF Inbox!Deliver, InboxInv, Inbox!Notification
<1>3. ASSUME NEW s \in Sessions, Inbox!CommitNote(s)
      PROVE  InboxInv'
  <2> DEFINE x == inboxTxn[s]
  <2>1. x \in InboxRequest /\ inboxTxn' = [inboxTxn EXCEPT ![s] = Inbox!Idle]
        /\ UNCHANGED <<prefs, now>>
    BY <1>3 DEF Inbox!CommitNote, InboxInv
  <2>2. notes' \in [NotificationIds -> {None, Inbox!Gone} \cup Inbox!Notification]
    <3>1. CASE x.op = "mark" /\ Inbox!StoreRead(x)
      <4>1. x.id \in NotificationIds /\ x.at \in 1 .. MaxTime
        BY <2>1, <3>1 DEF InboxRequest, Inbox!Idle
      <4>2. notes[x.id] \in Inbox!Notification
        BY <3>1, <4>1 DEF Inbox!StoreRead, Inbox!Rows, InboxInv
      <4>3. [notes[x.id] EXCEPT !.read = TRUE, !.at = x.at] \in Inbox!Notification
        BY <4>1, <4>2 DEF Inbox!Notification
      <4>4. notes' = [notes EXCEPT ![x.id] = [notes[x.id] EXCEPT !.read = TRUE, !.at = x.at]]
        BY <3>1, <4>1, <4>2 DEF Inbox!StoreRead, InboxInv, Inbox!Notification
      <4> QED BY <4>3, <4>4 DEF InboxInv
    <3>2. CASE x.op = "all" /\ Inbox!StoreAllRead(x)
      <4>1. x.at \in 1 .. MaxTime
        BY <2>1, <3>2 DEF InboxRequest, Inbox!Idle
      <4>2. ASSUME NEW n \in Inbox!Rows
            PROVE  [notes[n] EXCEPT !.read = TRUE, !.at = x.at] \in Inbox!Notification
        BY <4>1 DEF Inbox!Rows, Inbox!Notification, InboxInv
      <4> QED BY <3>2, <4>2 DEF Inbox!StoreAllRead, InboxInv
    <3>3. CASE x.op = "delete" /\ Inbox!StoreDelete(x)
      BY <3>3 DEF Inbox!StoreDelete, InboxInv
    <3> QED BY <1>3, <3>1, <3>2, <3>3 DEF Inbox!CommitNote
  <2> QED BY <2>1, <2>2 DEF InboxInv, InboxRequest, Inbox!Idle
<1>4. ASSUME NEW s \in Sessions, Inbox!CommitPrefs(s)
      PROVE  InboxInv'
  <2> DEFINE x == inboxTxn[s]
  <2>1. /\ x \in InboxRequest /\ x.op = "prefs" /\ Inbox!Complete(x)
        /\ inboxTxn' = [inboxTxn EXCEPT ![s] = Inbox!Idle]
        /\ UNCHANGED <<notes, now>>
    BY <1>4 DEF Inbox!CommitPrefs, InboxInv
  <2>2. x.user \in Users /\ x.id \in PreferenceIds \cup {None}
    BY <2>1 DEF InboxRequest, Inbox!Idle
  <2>3. \E p \in PreferenceIds, row \in Inbox!Preference : prefs' = [prefs EXCEPT ![p] = row]
    <3>1. CASE x.id = None
      <4>1. PICK p \in PreferenceIds :
                prefs' = [prefs EXCEPT ![p] = Inbox!Merge(Inbox!Default(x.user), x.set)]
        BY <1>4, <3>1 DEF Inbox!CommitPrefs
      <4>2. Inbox!Default(x.user) \in Inbox!Preference
        BY <2>2 DEF Inbox!Default, Inbox!Preference
      <4> QED BY <2>1, <4>1, <4>2, MergeType
    <3>2. CASE x.id # None
      <4>1. prefs[x.id] \in Inbox!Preference
        BY <2>1, <2>2, <3>2 DEF InboxInv
      <4>2. prefs' = [prefs EXCEPT ![x.id] = Inbox!Merge(prefs[x.id], x.set)]
        BY <1>4, <3>2 DEF Inbox!CommitPrefs
      <4> QED BY <2>1, <2>2, <3>2, <4>1, <4>2, MergeType
    <3> QED BY <3>1, <3>2
  <2>4. /\ prefs' \in [PreferenceIds -> {None} \cup Inbox!Preference]
        /\ \A p \in PreferenceIds : prefs[p] # None => prefs'[p] # None
    BY <2>3, NoneAssumption DEF InboxInv
  <2> QED BY <2>1, <2>4 DEF InboxInv, InboxRequest, Inbox!Idle
<1>5. ASSUME NEW s \in Sessions, Inbox!Rollback(s)
      PROVE  InboxInv'
  BY <1>5 DEF Inbox!Rollback, InboxInv, InboxRequest, Inbox!Idle
<1>6. ASSUME NEW s \in Sessions, NEW u \in Users, Inbox!MarkAllRead(s, u)
      PROVE  InboxInv'
  <2> DEFINE t == [op |-> "all", user |-> u, at |-> now]
  <2>1. t \in InboxRequest
    BY DEF InboxRequest, InboxInv
  <2> QED BY <1>6, <2>1, InboxBeginInv DEF Inbox!MarkAllRead
<1>7. ASSUME NEW s \in Sessions, NEW u \in Users, NEW n \in NotificationIds, Inbox!MarkRead(s, u, n)
      PROVE  InboxInv'
  <2> DEFINE t == [op |-> "mark", id |-> n, at |-> now]
  <2>1. t \in InboxRequest
    BY DEF InboxRequest, InboxInv
  <2> QED BY <1>7, <2>1, InboxBeginInv DEF Inbox!MarkRead
<1>8. ASSUME NEW s \in Sessions, NEW u \in Users, NEW n \in NotificationIds,
             Inbox!DeleteNotification(s, u, n)
      PROVE  InboxInv'
  <2> DEFINE t == [op |-> "delete", id |-> n]
  <2>1. t \in InboxRequest
    BY DEF InboxRequest
  <2> QED BY <1>8, <2>1, InboxBeginInv DEF Inbox!DeleteNotification
<1>9. ASSUME NEW s \in Sessions, NEW u \in Users, NEW b \in {<< >>} \cup Inbox!PreferenceUpdate,
             Inbox!Begin(s, [op |-> "prefs", user |-> u, id |-> Inbox!GetOrCreate(u), set |-> b])
      PROVE  InboxInv'
  <2> DEFINE t == [op |-> "prefs", user |-> u, id |-> Inbox!GetOrCreate(u), set |-> b]
  <2>1. \/ Inbox!GetOrCreate(u) = None
        \/ Inbox!GetOrCreate(u) \in PreferenceIds /\ prefs[Inbox!GetOrCreate(u)] # None
    BY DEF Inbox!GetOrCreate, Inbox!OwnRows, Inbox!PrefRows
  <2>2. t \in InboxRequest
    BY <2>1 DEF InboxRequest
  <2> QED BY <1>9, <2>1, <2>2, InboxBeginInv
<1>10. CASE UNCHANGED Inbox!vars
  BY <1>10 DEF Inbox!vars, InboxInv
<1> QED
  BY <1>1, <1>2, <1>3, <1>4, <1>5, <1>6, <1>7, <1>8, <1>9, <1>10
  DEF Inbox!Next, Inbox!GetPreferences, Inbox!UpdatePreferences

\* The inductive invariant of notifications.
LEMMA InboxInvAlways == Inbox!Spec => []InboxInv
BY InboxInitInv, InboxNextInv, PTL DEF Inbox!Spec

\* mark_read, mark_all_read and delete_notification, in every overlap, take a notification
\* from unread to read to gone and never back.
THEOREM NotificationsOnlyAdvanceAlways == Inbox!Spec => NotificationsOnlyAdvance
<1> DEFINE Advances(n) ==
        /\ notes[n] = Inbox!Gone => notes'[n] = Inbox!Gone
        /\ n \in Inbox!Rows => notes'[n] = Inbox!Gone \/ (notes[n].read => notes'[n].read)
<1>1. ASSUME InboxInv, [Inbox!Next]_(Inbox!vars), NEW n \in NotificationIds
      PROVE  Advances(n)
  <2>1. CASE notes' = notes
    BY <2>1
  <2>2. ASSUME NEW m \in NotificationIds, NEW u \in Users, Inbox!Deliver(m, u)
        PROVE  Advances(n)
    BY <2>2, <1>1, NoneAssumption DEF Inbox!Deliver, InboxInv, Inbox!Rows
  <2>3. ASSUME NEW s \in Sessions, Inbox!CommitNote(s)
        PROVE  Advances(n)
    <3> DEFINE x == inboxTxn[s]
    <3>1. notes \in [NotificationIds -> {None, Inbox!Gone} \cup Inbox!Notification]
      BY <1>1 DEF InboxInv
    <3>2. x.op = "mark" => x.id \in NotificationIds
      BY <1>1 DEF InboxInv, InboxRequest, Inbox!Idle
    <3>3. x.op = "delete" => x.id \in NotificationIds
      BY <1>1 DEF InboxInv, InboxRequest, Inbox!Idle
    <3>4. \/ x.op = "mark" /\ Inbox!StoreRead(x)
          \/ x.op = "all" /\ Inbox!StoreAllRead(x)
          \/ x.op = "delete" /\ Inbox!StoreDelete(x)
      BY <2>3 DEF Inbox!CommitNote
    <3> HIDE DEF x
    <3>5. CASE x.op = "mark" /\ Inbox!StoreRead(x)
      BY <3>1, <3>2, <3>5 DEF Inbox!StoreRead, Inbox!Rows, Inbox!Notification
    <3>6. CASE x.op = "all" /\ Inbox!StoreAllRead(x)
      BY <3>1, <3>6 DEF Inbox!StoreAllRead, Inbox!Rows, Inbox!Notification
    <3>7. CASE x.op = "delete" /\ Inbox!StoreDelete(x)
      BY <3>1, <3>3, <3>7 DEF Inbox!StoreDelete
    <3> QED BY <3>4, <3>5, <3>6, <3>7
  <2>4. ASSUME NEW s \in Sessions,
               \/ Inbox!CommitPrefs(s) \/ Inbox!Rollback(s)
               \/ \E u \in Users :
                   \/ Inbox!MarkAllRead(s, u) \/ Inbox!GetPreferences(s, u)
                   \/ \E m \in NotificationIds : Inbox!MarkRead(s, u, m) \/ Inbox!DeleteNotification(s, u, m)
                   \/ \E b \in Inbox!PreferenceUpdate : Inbox!UpdatePreferences(s, u, b)
        PROVE  notes' = notes
    BY <2>4 DEF Inbox!CommitPrefs, Inbox!Rollback, Inbox!MarkAllRead, Inbox!MarkRead,
       Inbox!DeleteNotification, Inbox!GetPreferences, Inbox!UpdatePreferences, Inbox!Begin
  <2>5. Inbox!Tick \/ UNCHANGED Inbox!vars => notes' = notes
    BY DEF Inbox!Tick, Inbox!vars
  <2> HIDE DEF Advances
  <2> QED
    BY <1>1, <2>1, <2>2, <2>3, <2>4, <2>5 DEF Inbox!Next
<1>2. InboxInv /\ [Inbox!Next]_(Inbox!vars) => [\A n \in NotificationIds : Advances(n)]_(Inbox!vars)
  BY <1>1
<1> QED
  BY <1>2, InboxInvAlways, PTL DEF Inbox!Spec, NotificationsOnlyAdvance, Inbox!NotificationsOnlyAdvance

-----------------------------------------------------------------------------
(* Projects *)

RowsOf ==
    [client |-> Client, project |-> Project, milestone |-> Milestone, task |-> Task, comment |-> Comment]

ColumnsOf ==
    [client    |-> [active |-> BOOLEAN, deleted |-> BOOLEAN],
     project   |-> [status |-> Statuses, deleted |-> BOOLEAN],
     milestone |-> [project |-> ProjectIds, status |-> Statuses, deleted |-> BOOLEAN],
     task      |-> [project |-> ProjectIds, milestone |-> MilestoneIds \cup {None},
                    parent |-> TaskIds \cup {None}, status |-> Statuses,
                    completed |-> BOOLEAN, deleted |-> BOOLEAN],
     comment   |-> [task |-> TaskIds, deleted |-> BOOLEAN]]

\* A row with some columns overwritten, as UpdateRow does it.
Overlay(row, set) == [c \in DOMAIN row |-> IF c \in DOMAIN set THEN set[c] ELSE row[c]]

\* What an UPDATE may write to the rows of a kind: values of their columns, no parent among
\* them; and nobody clears completed_at or deleted_at.
Patch(kind, set) ==
    /\ \A c \in DOMAIN set : c \in DOMAIN ColumnsOf[kind] /\ set[c] \in ColumnsOf[kind][c]
    /\ "parent" \notin DOMAIN set
    /\ \A c \in {"completed", "deleted"} \cap DOMAIN set : set[c] = TRUE

Inserting(t, kind) ==
    \E row \in RowsOf[kind] : t = [op |-> "insert", kind |-> kind, row |-> row]

\* The row to update is there, and an UPDATE that turns a task to done stamps it, unless the
\* task has its stamp already.
Updating(t, kind) ==
    \E i \in Rows(kind) : \E set :
        /\ t = [op |-> "update", kind |-> kind, id |-> i, set |-> set]
        /\ Patch(kind, set)
        /\ kind = "task" /\ "status" \in DOMAIN set /\ set["status"] = "done" =>
               "completed" \in DOMAIN set \/ db["task"][i].completed

ProjectsInv ==
    /\ db = [k \in Kinds |-> db[k]]
    /\ \A k \in Kinds : db[k] \in [Ids[k] -> RowsOf[k] \cup {None}]
    /\ txn = [s \in Sessions |-> txn[s]]
    /\ \A s \in Sessions :
          txn[s] \in {Idle, Failed} \/ \E k \in Kinds : Inserting(txn[s], k) \/ Updating(txn[s], k)
    /\ \A t \in Rows("task") : db["task"][t].parent \in Rows("task") \cup {None}

\* The placeholder is no row, of any kind.
LEMMA NoneIsNoRow == \A k \in Kinds : None \notin RowsOf[k]
BY NoneAssumption DEF Kinds, RowsOf

\* A row has the columns of its kind and values of their types.
LEMMA RowColumns ==
    ASSUME NEW k \in Kinds, NEW row
    PROVE  row \in RowsOf[k] <=> /\ row = [c \in DOMAIN ColumnsOf[k] |-> row[c]]
                                 /\ \A c \in DOMAIN ColumnsOf[k] : row[c] \in ColumnsOf[k][c]
<1>1. CASE k = "client"
  BY <1>1 DEF RowsOf, ColumnsOf, Client
<1>2. CASE k = "project"
  BY <1>2 DEF RowsOf, ColumnsOf, Project
<1>3. CASE k = "milestone"
  BY <1>3 DEF RowsOf, ColumnsOf, Milestone
<1>4. CASE k = "task"
  BY <1>4 DEF RowsOf, ColumnsOf, Task
<1>5. CASE k = "comment"
  BY <1>5 DEF RowsOf, ColumnsOf, Comment
<1> QED BY <1>1, <1>2, <1>3, <1>4, <1>5 DEF Kinds

\* An UPDATE with a patch leaves a row.
LEMMA PatchedRow ==
    ASSUME NEW k \in Kinds, NEW row \in RowsOf[k], NEW set, Patch(k, set)
    PROVE  Overlay(row, set) \in RowsOf[k]
<1> DEFINE new == Overlay(row, set)
<1>1. DOMAIN row = DOMAIN ColumnsOf[k] /\ \A c \in DOMAIN ColumnsOf[k] : row[c] \in ColumnsOf[k][c]
  BY RowColumns
<1>2. new = [c \in DOMAIN ColumnsOf[k] |-> new[c]]
  BY <1>1 DEF Overlay
<1>3. \A c \in DOMAIN ColumnsOf[k] : new[c] \in ColumnsOf[k][c]
  BY <1>1 DEF Overlay, Patch
<1> HIDE DEF new
<1>4. new \in RowsOf[k] <=> /\ new = [c \in DOMAIN ColumnsOf[k] |-> new[c]]
                            /\ \A c \in DOMAIN ColumnsOf[k] : new[c] \in ColumnsOf[k][c]
  BY RowColumns
<1>5. new \in RowsOf[k]
  BY <1>2, <1>3, <1>4
<1> QED BY <1>5 DEF new

\* No project, task or column exists at first.
LEMMA ProjectsInitInv == Init => ProjectsInv /\ SubtasksFormAForest
<1> SUFFICES ASSUME Init PROVE ProjectsInv /\ SubtasksFormAForest
  OBVIOUS
<1>1. \A k \in Kinds : db[k] = [i \in Ids[k] |-> None]
  BY DEF Init
<1>2. db = [k \in Kinds |-> db[k]]
  BY DEF Init
<1>3. Rows("task") = {}
  BY <1>1 DEF Rows, Kinds
<1>4. txn = [s \in Sessions |-> Idle]
  BY DEF Init
<1>5. \A k \in Kinds : db[k] \in [Ids[k] -> RowsOf[k] \cup {None}]
  BY <1>1
<1>6. txn = [s \in Sessions |-> txn[s]] /\ \A s \in Sessions : txn[s] = Idle
  BY <1>4
<1>7. SubtasksFormAForest
  BY <1>3 DEF SubtasksFormAForest
<1>8. ProjectsInv
  BY <1>2, <1>3, <1>5, <1>6 DEF ProjectsInv
<1> QED BY <1>7, <1>8

\* What a commit does to the tables: one row is added, or one row that is there gets the
\* columns of a patch.
Inserted(kind, i, row) ==
    /\ i \in Ids[kind] \ Rows(kind) /\ row \in RowsOf[kind]
    /\ ForeignKeys(kind, row)
    /\ db' = [db EXCEPT ![kind][i] = row]

Updated(kind, i, set) ==
    /\ i \in Rows(kind) /\ Patch(kind, set)
    /\ db' = [db EXCEPT ![kind][i] = Overlay(db[kind][i], set)]

\* One row is written, and every other stays.
Stored(k, i, row) ==
    /\ db' = [x \in Kinds |-> db'[x]]
    /\ \A x \in Kinds : db'[x] \in [Ids[x] -> RowsOf[x] \cup {None}]
    /\ db'[k][i] = row
    /\ \A x \in Kinds : \A j \in Ids[x] : x # k \/ j # i => db'[x][j] = db[x][j]
    /\ Rows(k)' = Rows(k) \cup {i}
    /\ \A x \in Kinds \ {k} : Rows(x)' = Rows(x)

\* Writing a row changes that row of that table.
LEMMA StoreRow ==
    ASSUME ProjectsInv, NEW k \in Kinds, NEW i \in Ids[k], NEW row \in RowsOf[k],
           db' = [db EXCEPT ![k][i] = row]
    PROVE  Stored(k, i, row)
<1>1. db' = [db EXCEPT ![k] = [db[k] EXCEPT ![i] = row]]
  BY DEF ProjectsInv
<1>2. /\ db' = [x \in Kinds |-> db'[x]]
      /\ db'[k] = [db[k] EXCEPT ![i] = row]
      /\ \A x \in Kinds \ {k} : db'[x] = db[x]
  BY <1>1 DEF ProjectsInv
<1>3. db'[k] \in [Ids[k] -> RowsOf[k] \cup {None}]
  BY <1>2 DEF ProjectsInv
<1>4. row # None
  BY NoneIsNoRow
<1> QED
  BY <1>2, <1>3, <1>4 DEF Stored, ProjectsInv, Rows

\* A commit is one of the two, by what the session held.
LEMMA CommitStores ==
    ASSUME ProjectsInv, NEW s \in Sessions, Commit(s)
    PROVE  \E k \in Kinds :
              \/ \E i \in Ids[k], row \in RowsOf[k] : Inserted(k, i, row) /\ txn[s].op = "insert"
              \/ \E i \in Rows(k) : \E set :
                     /\ Updated(k, i, set)
                     /\ Updating(txn[s], k)
                     /\ txn[s].id = i /\ txn[s].set = set
<1>1. PICK k \in Kinds : Inserting(txn[s], k) \/ Updating(txn[s], k)
  BY DEF ProjectsInv, Commit, Insert, UpdateRow, Idle, Failed
<1>2. CASE Inserting(txn[s], k)
  <2>1. PICK row \in RowsOf[k] : txn[s] = [op |-> "insert", kind |-> k, row |-> row]
    BY <1>2 DEF Inserting
  <2> QED BY <2>1 DEF Commit, Insert, UpdateRow, Store, Inserted
<1>3. CASE Updating(txn[s], k)
  <2>0. PICK i \in Rows(k) : \E set :
            /\ txn[s] = [op |-> "update", kind |-> k, id |-> i, set |-> set]
            /\ Patch(k, set)
    BY <1>3 DEF Updating
  <2>1. PICK set :
            /\ txn[s] = [op |-> "update", kind |-> k, id |-> i, set |-> set]
            /\ Patch(k, set)
    BY <2>0
  <2>2. UpdateRow(txn[s])
    BY <2>1 DEF Commit, Insert
  <2>3. db' = [db EXCEPT ![k][i] = Overlay(db[k][i], set)]
    BY <2>1, <2>2 DEF UpdateRow, Store, Overlay
  <2>4. Updated(k, i, set) /\ txn[s].id = i /\ txn[s].set = set
    BY <2>1, <2>3 DEF Updated
  <2> QED BY <1>3, <2>4
<1> QED BY <1>1, <1>2, <1>3

\* A row that gets the columns of a patch is a row still.
LEMMA UpdatedStores ==
    ASSUME ProjectsInv, NEW k \in Kinds, NEW i, NEW set, Updated(k, i, set)
    PROVE  /\ i \in Ids[k] /\ db[k][i] \in RowsOf[k]
           /\ Overlay(db[k][i], set) \in RowsOf[k]
           /\ Stored(k, i, Overlay(db[k][i], set))
<1> DEFINE row == Overlay(db[k][i], set)
<1>1. i \in Ids[k] /\ db[k][i] \in RowsOf[k] /\ row \in RowsOf[k]
  BY PatchedRow DEF Updated, ProjectsInv, Rows
<1>2. db' = [db EXCEPT ![k][i] = row]
  BY DEF Updated
<1> HIDE DEF row
<1>3. Stored(k, i, row)
  BY <1>1, <1>2, StoreRow
<1> QED BY <1>1, <1>3 DEF row

\* A new row is the only one that is written.
LEMMA InsertedStores ==
    ASSUME ProjectsInv, NEW k \in Kinds, NEW i \in Ids[k], NEW row \in RowsOf[k],
           Inserted(k, i, row)
    PROVE  Stored(k, i, row)
BY StoreRow DEF Inserted

\* What an open request relies on survives the commits of the others: rows stay, and so
\* do completed_at and deleted_at.
LEMMA CommitKeepsRows ==
    ASSUME ProjectsInv, NEW s \in Sessions, Commit(s)
    PROVE  /\ \A k \in Kinds : Rows(k) \subseteq Rows(k)'
           /\ \A i \in Rows("task") : db["task"][i].completed => db'["task"][i].completed
           /\ \A i \in Rows("task") : db'["task"][i].parent = db["task"][i].parent
           /\ \A k \in Kinds : \A i \in Rows(k) : db[k][i].deleted => db'[k][i].deleted
<1>1. ASSUME NEW k \in Kinds, NEW i \in Ids[k], NEW row \in RowsOf[k], Inserted(k, i, row)
      PROVE  /\ \A x \in Kinds : Rows(x) \subseteq Rows(x)'
             /\ \A x \in Kinds : \A j \in Rows(x) : db'[x][j] = db[x][j]
  <2>1. /\ \A x \in Kinds : \A j \in Ids[x] : x # k \/ j # i => db'[x][j] = db[x][j]
        /\ Rows(k)' = Rows(k) \cup {i}
        /\ \A x \in Kinds \ {k} : Rows(x)' = Rows(x)
    <3>1. Stored(k, i, row)
      BY <1>1, InsertedStores
    <3> QED BY <3>1 DEF Stored
  <2>2. \A x \in Kinds : Rows(x) \subseteq Rows(x)'
    BY <2>1
  <2>3. ASSUME NEW x \in Kinds, NEW j \in Rows(x)
        PROVE  db'[x][j] = db[x][j]
    <3>1. j \in Ids[x] /\ (x # k \/ j # i)
      BY <1>1 DEF Inserted, Rows
    <3> QED BY <2>1, <3>1
  <2> QED BY <2>2, <2>3
<1>2. ASSUME NEW k \in Kinds, NEW i, NEW set, Updated(k, i, set)
      PROVE  /\ \A x \in Kinds : Rows(x) \subseteq Rows(x)'
             /\ \A j \in Rows("task") :
                   /\ db["task"][j].completed => db'["task"][j].completed
                   /\ db'["task"][j].parent = db["task"][j].parent
             /\ \A x \in Kinds : \A j \in Rows(x) : db[x][j].deleted => db'[x][j].deleted
  <2>1. /\ i \in Ids[k] /\ db[k][i] \in RowsOf[k]
        /\ Overlay(db[k][i], set) \in RowsOf[k]
    BY <1>2, UpdatedStores
  <2>2. /\ \A x \in Kinds : \A j \in Ids[x] : x # k \/ j # i => db'[x][j] = db[x][j]
        /\ db'[k][i] = Overlay(db[k][i], set)
        /\ Rows(k)' = Rows(k) \cup {i}
        /\ \A x \in Kinds \ {k} : Rows(x)' = Rows(x)
    <3>1. Stored(k, i, Overlay(db[k][i], set))
      BY <1>2, UpdatedStores
    <3> QED BY <3>1 DEF Stored
  <2>3. ASSUME k = "task"
        PROVE  /\ db["task"][i].completed => db'["task"][i].completed
               /\ db'["task"][i].parent = db["task"][i].parent
    <3>1. db["task"][i] \in Task
      BY <2>1, <2>3 DEF RowsOf
    <3> QED BY <1>2, <2>2, <2>3, <3>1 DEF Updated, Patch, Overlay, Task
  <2>4. \A x \in Kinds : Rows(x) \subseteq Rows(x)'
    BY <2>2
  <2>5. ASSUME NEW x \in Kinds, NEW j \in Rows(x), k # x \/ j # i
        PROVE  db'[x][j] = db[x][j]
    <3>1. j \in Ids[x]
      BY DEF Rows
    <3> QED BY <2>2, <2>5, <3>1
  <2>6. db[k][i].deleted => db'[k][i].deleted
    <3>1. "deleted" \in DOMAIN db[k][i]
      <4>1. \A row \in Client \cup Project \cup Milestone \cup Task \cup Comment : "deleted" \in DOMAIN row
        BY DEF Client, Project, Milestone, Task, Comment
      <4>2. RowsOf[k] \in {Client, Project, Milestone, Task, Comment}
        BY DEF RowsOf, Kinds
      <4>3. db[k][i] \in Client \cup Project \cup Milestone \cup Task \cup Comment
        BY <2>1, <4>2
      <4> QED BY <4>1, <4>3
    <3>2. "deleted" \in DOMAIN set => set["deleted"] = TRUE
      BY <1>2 DEF Updated, Patch
    <3> QED BY <2>2, <3>1, <3>2 DEF Overlay
  <2>7. "task" \in Kinds
    BY DEF Kinds
  <2> QED BY <2>3, <2>4, <2>5, <2>6, <2>7
<1>3. "task" \in Kinds
  BY DEF Kinds
<1> QED
  BY <1>1, <1>2, <1>3, CommitStores

\* Steps that leave the tables alone: handlers up to the commit, and rollbacks.
LEMMA SessionInv ==
    ASSUME ProjectsInv, db' = db, txn' = [x \in Sessions |-> txn'[x]],
           \A x \in Sessions : \/ txn'[x] \in {Idle, Failed, txn[x]}
                               \/ \E k \in Kinds : Inserting(txn'[x], k) \/ Updating(txn'[x], k)
    PROVE  ProjectsInv'
<1>1. \A k \in Kinds : Rows(k)' = Rows(k)
  BY DEF Rows
<1>2. \A x \in Sessions :
         \/ txn'[x] \in {Idle, Failed}
         \/ \E k \in Kinds : Inserting(txn'[x], k) \/ Updating(txn'[x], k)
  <2> SUFFICES ASSUME NEW x \in Sessions, txn'[x] = txn[x]
               PROVE  \/ txn[x] \in {Idle, Failed}
                      \/ \E k \in Kinds : Inserting(txn[x], k) \/ Updating(txn[x], k)
    OBVIOUS
  <2> QED BY DEF ProjectsInv
<1>3. ASSUME NEW x \in Sessions, NEW k \in Kinds, Updating(txn'[x], k)
      PROVE  Updating(txn[x], k)'
  <2>1. PICK i \in Rows(k) : \E set :
            /\ txn'[x] = [op |-> "update", kind |-> k, id |-> i, set |-> set]
            /\ Patch(k, set)
            /\ k = "task" /\ "status" \in DOMAIN set /\ set["status"] = "done" =>
                   "completed" \in DOMAIN set \/ db["task"][i].completed
    BY <1>3 DEF Updating
  <2>2. i \in Rows(k)' /\ db'["task"][i] = db["task"][i]
    BY <1>1, <2>1
  <2> QED BY <2>1, <2>2 DEF Updating
<1>4. ASSUME NEW x \in Sessions, NEW k \in Kinds
      PROVE  Inserting(txn'[x], k) => Inserting(txn[x], k)'
  BY DEF Inserting
<1>5. \A i \in Rows("task")' : db'["task"][i].parent \in Rows("task")' \cup {None}
  BY <1>1 DEF ProjectsInv, Kinds
<1>6. \A x \in Sessions :
         txn'[x] \in {Idle, Failed} \/ \E k \in Kinds : Inserting(txn[x], k)' \/ Updating(txn[x], k)'
  BY <1>2, <1>3, <1>4
<1> QED BY <1>5, <1>6 DEF ProjectsInv

\* A handler reads, and leaves the tables and the other sessions alone.
LEMMA BeginInv ==
    ASSUME ProjectsInv, NEW s \in Sessions, NEW t, Begin(s, t),
           \E k \in Kinds : Inserting(t, k) \/ Updating(t, k)
    PROVE  ProjectsInv'
<1>1. db' = db /\ \E t1 \in {t, Failed} : txn' = [txn EXCEPT ![s] = t1]
  BY DEF Begin
<1>2. txn' = [x \in Sessions |-> txn'[x]]
  BY <1>1 DEF ProjectsInv
<1>3. \A x \in Sessions : \/ txn'[x] \in {Idle, Failed, txn[x]}
                          \/ \E k \in Kinds : Inserting(txn'[x], k) \/ Updating(txn'[x], k)
  BY <1>1 DEF ProjectsInv
<1> QED BY <1>1, <1>2, <1>3, SessionInv

\* POST
LEMMA CreateInv ==
    ASSUME ProjectsInv, NEW s \in Sessions, NEW k \in Kinds, NEW row \in RowsOf[k], Create(s, k, row)
    PROVE  ProjectsInv'
BY BeginInv DEF Create, Inserting

\* PATCH and DELETE: the columns that differ from the row loaded are a patch if the body is.
LEMMA UpdateInv ==
    ASSUME ProjectsInv, NEW s \in Sessions, NEW k \in Kinds, NEW i, Get(k, i), NEW updates,
           Update(s, k, i, updates), Patch(k, updates),
           k = "task" /\ "status" \in DOMAIN updates /\ updates["status"] = "done"
               /\ db[k][i].status # "done" => "completed" \in DOMAIN updates
    PROVE  ProjectsInv'
<1> DEFINE set == Changed(db[k][i], updates)
           t == [op |-> "update", kind |-> k, id |-> i, set |-> set]
<1>1. i \in Rows(k) /\ db[k][i] \in RowsOf[k]
  BY DEF Get, Rows, ProjectsInv
<1>2. /\ DOMAIN set \subseteq DOMAIN updates
      /\ \A c \in DOMAIN set : set[c] = updates[c] /\ set[c] # db[k][i][c]
      /\ \A c \in DOMAIN updates : c \notin DOMAIN set => db[k][i][c] = updates[c]
  BY DEF Changed
<1> HIDE DEF set
<1>3. Patch(k, set)
  BY <1>2 DEF Patch
<1>4. ASSUME k = "task", "status" \in DOMAIN set, set["status"] = "done"
      PROVE  "completed" \in DOMAIN set \/ db["task"][i].completed
  BY <1>2, <1>4 DEF Patch
<1>5. Updating(t, k)
  BY <1>1, <1>3, <1>4 DEF Updating
<1>6. Begin(s, t)
  BY DEF Update, set
<1> QED BY <1>5, <1>6, BeginInv

\* soft_delete, an update of one column, keeps the invariant of projects and tasks.
LEMMA SoftDeleteInv ==
    ASSUME ProjectsInv, NEW s \in Sessions, NEW k \in Kinds, NEW i, SoftDelete(s, k, i)
    PROVE  ProjectsInv'
<1> DEFINE updates == [deleted |-> TRUE]
<1>1. DOMAIN updates = {"deleted"} /\ updates["deleted"] = TRUE
  OBVIOUS
<1>2. Get(k, i) /\ Update(s, k, i, updates)
  BY DEF SoftDelete
<1> HIDE DEF updates
<1>3. Patch(k, updates)
  <2>1. "deleted" \in DOMAIN ColumnsOf[k] /\ ColumnsOf[k]["deleted"] = BOOLEAN
    BY DEF ColumnsOf, Kinds
  <2> QED BY <1>1, <2>1 DEF Patch
<1> QED BY <1>1, <1>2, <1>3, UpdateInv

\* Every handler keeps the invariant: the row it inserts is a row, the body it applies a patch.
LEMMA ProjectRequestInv ==
    ASSUME ProjectsInv, NEW s \in Sessions,
           txn[s] = Idle /\ (ClientRequest(s) \/ ProjectRequest(s) \/ TaskRequest(s))
    PROVE  ProjectsInv'
<1>1. CASE CreateClient(s)
  <2>1. [active |-> TRUE, deleted |-> FALSE] \in RowsOf["client"] /\ "client" \in Kinds
    BY DEF RowsOf, Client, Kinds
  <2> QED BY <1>1, <2>1, CreateInv DEF CreateClient
<1>2. ASSUME NEW c \in ClientIds, NEW a \in BOOLEAN, UpdateClient(s, c, a)
      PROVE  ProjectsInv'
  <2>1. Patch("client", [active |-> a]) /\ "client" \in Kinds
    BY DEF Patch, ColumnsOf, Kinds
  <2>2. Get("client", c) /\ Update(s, "client", c, [active |-> a])
    BY <1>2 DEF UpdateClient
  <2> QED BY <2>1, <2>2, UpdateInv
<1>3. ASSUME NEW x \in Statuses, CreateProject(s, x)
      PROVE  ProjectsInv'
  <2>1. [status |-> x, deleted |-> FALSE] \in RowsOf["project"] /\ "project" \in Kinds
    BY DEF RowsOf, Project, Kinds
  <2> QED BY <1>3, <2>1, CreateInv DEF CreateProject
<1>4. ASSUME NEW p \in ProjectIds, CreateMilestone(s, p)
      PROVE  ProjectsInv'
  <2>1. /\ [project |-> p, status |-> "pending", deleted |-> FALSE] \in RowsOf["milestone"]
        /\ "milestone" \in Kinds
    BY StatusAssumption DEF RowsOf, Milestone, Kinds
  <2> QED BY <1>4, <2>1, CreateInv DEF CreateMilestone
<1>5. ASSUME NEW k \in Kinds, NEW i, NEW x \in Statuses, k \in {"project", "milestone"}, Get(k, i),
             Update(s, k, i, [status |-> x])
      PROVE  ProjectsInv'
  <2>1. Patch(k, [status |-> x])
    BY <1>5 DEF Patch, ColumnsOf
  <2> QED BY <1>5, <2>1, UpdateInv
<1>6. ASSUME NEW p \in ProjectIds, NEW m \in MilestoneIds \cup {None}, NEW q \in TaskIds \cup {None},
             NEW x \in Statuses, CreateTask(s, p, m, q, x)
      PROVE  ProjectsInv'
  <2>1. /\ [project |-> p, milestone |-> m, parent |-> q, status |-> x,
            completed |-> FALSE, deleted |-> FALSE] \in RowsOf["task"]
        /\ "task" \in Kinds
    BY DEF RowsOf, Task, Kinds
  <2> QED BY <1>6, <2>1, CreateInv DEF CreateTask
<1>7. ASSUME NEW t \in TaskIds, CreateComment(s, t)
      PROVE  ProjectsInv'
  <2>1. [task |-> t, deleted |-> FALSE] \in RowsOf["comment"] /\ "comment" \in Kinds
    BY DEF RowsOf, Comment, Kinds
  <2> QED BY <1>7, <2>1, CreateInv DEF CreateComment
<1>8. ASSUME NEW t \in TaskIds, NEW body \in TaskUpdate, UpdateTask(s, t, body)
      PROVE  ProjectsInv'
  <2> DEFINE updates == [c \in DOMAIN body \cup (IF Completing(t, body) THEN {"completed"} ELSE {}) |->
                           IF c = "completed" THEN TRUE ELSE body[c]]
  <2>1. /\ DOMAIN body \subseteq {"status", "milestone"}
        /\ "status" \in DOMAIN body => body["status"] \in Statuses
        /\ "milestone" \in DOMAIN body => body["milestone"] \in MilestoneIds
    BY DEF TaskUpdate
  <2>2. /\ DOMAIN updates \subseteq DOMAIN body \cup {"completed"}
        /\ "completed" \in DOMAIN updates => updates["completed"] = TRUE
        /\ \A c \in DOMAIN body : c \in DOMAIN updates /\ updates[c] = body[c]
        /\ Completing(t, body) => "completed" \in DOMAIN updates
    BY <2>1
  <2>3. Get("task", t) /\ Update(s, "task", t, updates)
    BY <1>8 DEF UpdateTask
  <2> HIDE DEF updates
  <2>4. Patch("task", updates) /\ "task" \in Kinds
    <3>1. /\ {"status", "milestone", "completed"} \subseteq DOMAIN ColumnsOf["task"]
          /\ ColumnsOf["task"]["status"] = Statuses
          /\ MilestoneIds \subseteq ColumnsOf["task"]["milestone"]
          /\ TRUE \in ColumnsOf["task"]["completed"]
      BY DEF ColumnsOf
    <3> QED BY <2>1, <2>2, <3>1 DEF Patch, Kinds
  <2>5. "status" \in DOMAIN updates /\ updates["status"] = "done" /\ db["task"][t].status # "done"
            => "completed" \in DOMAIN updates
    BY <2>1, <2>2 DEF Completing
  <2> QED BY <2>2, <2>3, <2>4, <2>5, UpdateInv
<1>9. ASSUME NEW k \in Kinds, NEW i, SoftDelete(s, k, i)
      PROVE  ProjectsInv'
  BY <1>9, SoftDeleteInv
<1>10. Kinds = {"client", "project", "milestone", "task", "comment"}
  BY DEF Kinds
<1>11. CASE ClientRequest(s)
  BY <1>1, <1>2, <1>9, <1>10, <1>11 DEF ClientRequest, DeleteClient
<1>12. CASE ProjectRequest(s)
  BY <1>3, <1>4, <1>5, <1>9, <1>10, <1>12
  DEF ProjectRequest, DeleteProject, UpdateProject, DeleteMilestone, UpdateMilestone
<1>13. CASE TaskRequest(s)
  BY <1>6, <1>7, <1>8, <1>9, <1>10, <1>13 DEF TaskRequest, DeleteTask, DeleteComment
<1> QED BY <1>11, <1>12, <1>13

\* A commit leaves what the other sessions rely on, and parents that exist.
LEMMA CommitInv ==
    ASSUME ProjectsInv, NEW s \in Sessions, Commit(s)
    PROVE  ProjectsInv'
<1>1. /\ \A k \in Kinds : Rows(k) \subseteq Rows(k)'
      /\ \A i \in Rows("task") : db["task"][i].completed => db'["task"][i].completed
      /\ \A i \in Rows("task") : db'["task"][i].parent = db["task"][i].parent
  BY CommitKeepsRows
<1>2. txn' = [txn EXCEPT ![s] = Idle]
  BY DEF Commit
<1>3. txn' = [x \in Sessions |-> txn'[x]]
  BY <1>2 DEF ProjectsInv
<1>4. ASSUME NEW x \in Sessions, NEW k \in Kinds, Updating(txn[x], k), txn'[x] = txn[x]
      PROVE  Updating(txn[x], k)'
  <2>1. PICK i \in Rows(k) : \E set :
            /\ txn[x] = [op |-> "update", kind |-> k, id |-> i, set |-> set]
            /\ Patch(k, set)
            /\ k = "task" /\ "status" \in DOMAIN set /\ set["status"] = "done" =>
                   "completed" \in DOMAIN set \/ db["task"][i].completed
    BY <1>4 DEF Updating
  <2>2. i \in Rows(k)' /\ (k = "task" /\ db["task"][i].completed => db'["task"][i].completed)
    BY <1>1, <2>1
  <2> QED BY <1>4, <2>1, <2>2 DEF Updating
<1>5. \A x \in Sessions :
         txn'[x] \in {Idle, Failed} \/ \E k \in Kinds : Inserting(txn[x], k)' \/ Updating(txn[x], k)'
  <2> SUFFICES ASSUME NEW x \in Sessions
               PROVE  txn'[x] \in {Idle, Failed} \/ \E k \in Kinds : Inserting(txn[x], k)' \/ Updating(txn[x], k)'
    OBVIOUS
  <2>1. CASE x = s
    BY <1>2, <2>1 DEF ProjectsInv
  <2>2. CASE x # s
    <3>1. txn'[x] = txn[x]
      BY <1>2, <2>2 DEF ProjectsInv
    <3>2. txn[x] \in {Idle, Failed} \/ \E k \in Kinds : Inserting(txn[x], k) \/ Updating(txn[x], k)
      BY DEF ProjectsInv
    <3> QED BY <1>4, <3>1, <3>2 DEF Inserting
  <2> QED BY <2>1, <2>2
<1>6. /\ db' = [x \in Kinds |-> db'[x]]
      /\ \A x \in Kinds : db'[x] \in [Ids[x] -> RowsOf[x] \cup {None}]
  <2>1. ASSUME NEW k \in Kinds, NEW i \in Ids[k], NEW row \in RowsOf[k], Inserted(k, i, row)
        PROVE  <1>6
    <3>1. Stored(k, i, row)
      BY <2>1, InsertedStores
    <3> QED BY <3>1 DEF Stored
  <2>2. ASSUME NEW k \in Kinds, NEW i, NEW set, Updated(k, i, set)
        PROVE  <1>6
    <3>1. Stored(k, i, Overlay(db[k][i], set))
      BY <2>2, UpdatedStores
    <3> QED BY <3>1 DEF Stored
  <2> QED BY <2>1, <2>2, CommitStores
<1>7. \A i \in Rows("task")' : db'["task"][i].parent \in Rows("task")' \cup {None}
  <2>1. Rows("task") \subseteq Rows("task")'
    BY <1>1 DEF Kinds
  <2>2. ASSUME NEW k \in Kinds, NEW j \in Ids[k], NEW row \in RowsOf[k], Inserted(k, j, row)
        PROVE  <1>7
    <3>1. /\ db'[k][j] = row
          /\ Rows(k)' = Rows(k) \cup {j}
          /\ \A x \in Kinds \ {k} : Rows(x)' = Rows(x)
      <4>1. Stored(k, j, row)
        BY <2>2, InsertedStores
      <4> QED BY <4>1 DEF Stored
    <3>2. k = "task" => row.parent \in Rows("task") \cup {None}
      BY <2>2 DEF Inserted, ForeignKeys
    <3>3. \A i \in Rows("task") : db'["task"][i].parent \in Rows("task")' \cup {None}
      BY <1>1, <2>1 DEF ProjectsInv
    <3> QED BY <2>1, <3>1, <3>2, <3>3 DEF Kinds
  <2>3. ASSUME NEW k \in Kinds, NEW j, NEW set, Updated(k, j, set)
        PROVE  <1>7
    <3>1. Rows("task")' = Rows("task")
      <4>1. j \in Rows(k) /\ Stored(k, j, Overlay(db[k][j], set))
        BY <2>3, UpdatedStores DEF Updated
      <4>2. Rows(k)' = Rows(k) \cup {j} /\ \A x \in Kinds \ {k} : Rows(x)' = Rows(x)
        BY <4>1 DEF Stored
      <4> QED BY <4>1, <4>2 DEF Kinds
    <3> QED BY <1>1, <3>1 DEF ProjectsInv
  <2> QED BY <2>2, <2>3, CommitStores
<1> QED BY <1>3, <1>5, <1>6, <1>7 DEF ProjectsInv

\* Every request to the projects service keeps its invariant.
LEMMA ProjectsNextInv == ProjectsInv /\ [Next]_vars => ProjectsInv'
<1> SUFFICES ASSUME ProjectsInv, [Next]_vars PROVE ProjectsInv'
  OBVIOUS
<1>1. ASSUME NEW s \in Sessions, Rollback(s)
      PROVE  ProjectsInv'
  <2>1. db' = db /\ txn' = [txn EXCEPT ![s] = Idle]
    BY <1>1 DEF Rollback
  <2>2. txn' = [x \in Sessions |-> txn'[x]] /\ \A x \in Sessions : txn'[x] \in {Idle, txn[x]}
    BY <2>1 DEF ProjectsInv
  <2> QED BY <2>1, <2>2, SessionInv
<1>2. CASE UNCHANGED vars
  BY <1>2, SessionInv DEF vars, ProjectsInv
<1> QED
  BY <1>1, <1>2, ProjectRequestInv, CommitInv DEF Next

\* The inductive invariant of projects and tasks.
LEMMA ProjectsInvAlways == Spec => []ProjectsInv
BY ProjectsInitInv, ProjectsNextInv, PTL DEF Spec

\* Only a commit changes the tables.
LEMMA OnlyCommitStores ==
    ASSUME [Next]_vars, db' # db
    PROVE  \E s \in Sessions : Commit(s)
BY DEF Next, vars, Rollback, ClientRequest, ProjectRequest, TaskRequest, CreateClient, UpdateClient,
   DeleteClient, CreateProject, UpdateProject, DeleteProject, CreateMilestone, UpdateMilestone,
   DeleteMilestone, CreateTask, UpdateTask, DeleteTask, CreateComment, DeleteComment, SoftDelete,
   Create, Update, Begin

\* A new task is nobody's parent yet, and no other task changes its parent.
LEMMA ForestStep ==
    ASSUME ProjectsInv, SubtasksFormAForest, [Next]_vars
    PROVE  SubtasksFormAForest'
<1>1. CASE db' = db
  BY <1>1 DEF SubtasksFormAForest, Rows
<1>2. CASE db' # db
  <2>1. PICK s \in Sessions : Commit(s)
    BY <1>2, OnlyCommitStores
  <2>2. \A i \in Rows("task") : db'["task"][i].parent = db["task"][i].parent
    BY <2>1, CommitKeepsRows
  <2>3. CASE Rows("task")' = Rows("task")
    BY <2>2, <2>3 DEF SubtasksFormAForest
  <2>4. ASSUME NEW t \in Ids["task"] \ Rows("task"), Rows("task")' = Rows("task") \cup {t},
               db'["task"][t].parent \in Rows("task") \cup {None}
        PROVE  SubtasksFormAForest'
    <3> SUFFICES ASSUME NEW S \in (SUBSET Rows("task")') \ {{}}
                 PROVE  \E u \in S : db'["task"][u].parent \notin S
      BY DEF SubtasksFormAForest
    <3>1. CASE S \ {t} = {}
      <4>1. S = {t} /\ t # None
        BY <3>1, NoneAssumption DEF Ids
      <4> QED BY <2>4, <4>1
    <3>2. CASE S \ {t} # {}
      <4>1. S \ {t} \subseteq Rows("task")
        BY <2>4
      <4>2. PICK u \in S \ {t} : db["task"][u].parent \notin S \ {t}
        BY <3>2, <4>1 DEF SubtasksFormAForest
      <4>3. db'["task"][u].parent = db["task"][u].parent /\ db["task"][u].parent # t
        <5>1. u \in Rows("task") /\ db["task"][u].parent \in Rows("task") \cup {None}
          BY <4>1, <4>2 DEF ProjectsInv
        <5>2. t # None /\ t \notin Rows("task")
          BY NoneAssumption DEF Ids
        <5> QED BY <2>2, <5>1, <5>2
      <4> QED BY <4>2, <4>3
    <3> QED BY <3>1, <3>2
  <2>5. ASSUME NEW k \in Kinds, NEW i \in Ids[k], NEW row \in RowsOf[k], Inserted(k, i, row)
        PROVE  SubtasksFormAForest'
    <3>1. /\ db'[k][i] = row
          /\ Rows(k)' = Rows(k) \cup {i}
          /\ \A x \in Kinds \ {k} : Rows(x)' = Rows(x)
      <4>1. Stored(k, i, row)
        BY <2>5, InsertedStores
      <4> QED BY <4>1 DEF Stored
    <3>2. CASE k = "task"
      BY <2>4, <2>5, <3>1, <3>2 DEF Inserted, ForeignKeys
    <3>3. CASE k # "task"
      BY <2>3, <3>1, <3>3 DEF Kinds
    <3> QED BY <3>2, <3>3
  <2>6. ASSUME NEW k \in Kinds, NEW j, NEW set, Updated(k, j, set)
        PROVE  Rows("task")' = Rows("task")
    <3>1. j \in Rows(k) /\ Stored(k, j, Overlay(db[k][j], set))
      BY <2>6, UpdatedStores DEF Updated
    <3>2. Rows(k)' = Rows(k) \cup {j} /\ \A x \in Kinds \ {k} : Rows(x)' = Rows(x)
      BY <3>1 DEF Stored
    <3> QED BY <3>1, <3>2 DEF Kinds
  <2> QED BY <2>1, <2>3, <2>5, <2>6, CommitStores
<1> QED BY <1>1, <1>2

\* However creations, updates and deletions of tasks overlap, no task is above itself, at any
\* distance, and this for any number of tasks.
THEOREM SubtasksFormAForestAlways == Spec => []SubtasksFormAForest
BY ProjectsInitInv, ProjectsInvAlways, ForestStep, PTL DEF Spec

\* update_task decides by the status it loaded; the column it writes, or the stamp that is
\* there, makes every task that turns to done a stamped one all the same.
THEOREM DoneTasksAreStampedAlways == Spec => DoneTasksAreStamped
<1> DEFINE Stamps == \A t \in Rows("task") :
        db["task"][t].status # "done" /\ db'["task"][t].status = "done" => db'["task"][t].completed
<1>1. ASSUME ProjectsInv, [Next]_vars
      PROVE  Stamps
  <2> SUFFICES ASSUME NEW t \in Rows("task"),
                      db["task"][t].status # "done", db'["task"][t].status = "done"
               PROVE  db'["task"][t].completed
    OBVIOUS
  <2>1. PICK s \in Sessions : Commit(s)
    BY <1>1, OnlyCommitStores
  <2>2. \A i \in Rows("task") : db["task"][i].completed => db'["task"][i].completed
    BY <1>1, <2>1, CommitKeepsRows
  <2>3. t \in Ids["task"] /\ "task" \in Kinds
    BY DEF Rows, Kinds
  <2>4. ASSUME NEW k \in Kinds, NEW i \in Ids[k], NEW row \in RowsOf[k], Inserted(k, i, row)
        PROVE  FALSE
    <3>1. Stored(k, i, row)
      BY <1>1, <2>4, InsertedStores
    <3>2. \A x \in Kinds : \A j \in Ids[x] : x # k \/ j # i => db'[x][j] = db[x][j]
      BY <3>1 DEF Stored
    <3>3. k # "task" \/ t # i
      BY <2>4 DEF Inserted
    <3> QED BY <2>3, <3>2, <3>3
  <2>5. ASSUME NEW k \in Kinds, NEW i \in Rows(k), NEW set, Updated(k, i, set),
               Updating(txn[s], k), txn[s].id = i, txn[s].set = set
        PROVE  db'["task"][t].completed
    <3>1. /\ i \in Ids[k] /\ db[k][i] \in RowsOf[k]
          /\ Overlay(db[k][i], set) \in RowsOf[k]
      BY <1>1, <2>5, UpdatedStores
    <3>2. Stored(k, i, Overlay(db[k][i], set))
      BY <1>1, <2>5, UpdatedStores
    <3>3. /\ db'[k][i] = Overlay(db[k][i], set)
          /\ \A x \in Kinds : \A j \in Ids[x] : x # k \/ j # i => db'[x][j] = db[x][j]
      BY <3>2 DEF Stored
    <3>4. k = "task" /\ t = i
      BY <2>3, <3>3
    <3>5. db[k][i] \in Task
      BY <3>1, <3>4 DEF RowsOf
    <3>6. "status" \in DOMAIN set /\ set["status"] = "done"
      BY <3>3, <3>4, <3>5 DEF Overlay, Task
    <3>7. "completed" \in DOMAIN set \/ db["task"][i].completed
      BY <2>5, <3>4, <3>6 DEF Updating
    <3>8. "completed" \in DOMAIN set => set["completed"] = TRUE
      BY <2>5 DEF Updated, Patch
    <3> QED BY <2>2, <3>3, <3>4, <3>5, <3>7, <3>8 DEF Overlay, Task
  <2> QED BY <1>1, <2>1, <2>4, <2>5, CommitStores
<1>2. ProjectsInv /\ [Next]_vars => [Stamps]_vars
  BY <1>1
<1> QED BY <1>2, ProjectsInvAlways, PTL DEF Spec, DoneTasksAreStamped

\* No PATCH takes back an overlapping DELETE or the completion of a task, on any of the five
\* tables and for any number of rows and requests: the UPDATE of a repository leaves out what
\* it loaded and did not change.
THEOREM MarksStayAlways == Spec => MarksStay
<1> DEFINE Stay == \A k \in Kinds : \A i \in Rows(k) :
        /\ db'[k][i] # None
        /\ db[k][i].deleted => db'[k][i].deleted
        /\ k = "task" /\ db[k][i].completed => db'[k][i].completed
<1>1. ASSUME ProjectsInv, [Next]_vars
      PROVE  Stay
  <2>1. CASE db' = db
    BY <2>1 DEF Rows
  <2>2. CASE db' # db
    <3>1. PICK s \in Sessions : Commit(s)
      BY <1>1, <2>2, OnlyCommitStores
    <3>2. /\ \A k \in Kinds : Rows(k) \subseteq Rows(k)'
          /\ \A i \in Rows("task") : db["task"][i].completed => db'["task"][i].completed
          /\ \A k \in Kinds : \A i \in Rows(k) : db[k][i].deleted => db'[k][i].deleted
      BY <1>1, <3>1, CommitKeepsRows
    <3>3. \A k \in Kinds : \A i \in Rows(k) : db'[k][i] # None
      BY <3>2 DEF Rows
    <3> QED BY <3>2, <3>3
  <2> QED BY <2>1, <2>2
<1>2. ProjectsInv /\ [Next]_vars => [Stay]_vars
  BY <1>1
<1> QED BY <1>2, ProjectsInvAlways, PTL DEF Spec, MarksStay

\* The columns of all the tables keep the types that the migrations give them.
THEOREM ContentTypeOKAlways == Spec /\ Files!Spec /\ Inbox!Spec => []ContentTypeOK
<1>1. ProjectsInv => TypeOK
  BY DEF ProjectsInv, TypeOK, RowsOf, Rows, Kinds
<1>2. FilesInv => Files!TypeOK
  BY DEF FilesInv, FilesTypeInv
<1>3. InboxInv => Inbox!TypeOK
  BY DEF InboxInv, Inbox!TypeOK, Inbox!Rows, Inbox!PrefRows
<1>4. ProjectsInv /\ FilesInv /\ InboxInv => ContentTypeOK
  BY <1>1, <1>2, <1>3 DEF ContentTypeOK
<1> QED BY <1>4, ProjectsInvAlways, FilesInvAlways, InboxInvAlways, PTL

=============================================================================
