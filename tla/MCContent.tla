------------------------------ MODULE MCContent ------------------------------
(* Projects, its attachments and the notification service on small           *)
(* instances.  They share no table, so they are explored side by side and    *)
(* not in each other's states: `part` says what a behaviour is about.        *)
EXTENDS Projects, TLC

CONSTANTS AttachmentIds, Contents, NotificationIds, PreferenceIds, Users, MaxTime

VARIABLES part, record, object, put, request, confirmed, history, notes, prefs, inboxTxn, now

Files == INSTANCE Attachments
Inbox == INSTANCE Notifications WITH txn <- inboxTxn

fileVars == <<record, object, put, request, confirmed, history>>
inboxVars == <<notes, prefs, inboxTxn, now>>
\* None, the null, is neither a key nor a content nor a row; a clock shows some time.
ASSUME NoneAssumption ==
    /\ None \notin Contents \cup Files!Record
    /\ None \notin {Inbox!Gone} \cup Inbox!Notification \cup Inbox!Preference
    /\ None \notin Client \cup Project \cup Milestone \cup Task \cup Comment
    /\ None \notin TaskIds \cup PreferenceIds
ASSUME ClockAssumption == MaxTime \in Nat \ {0}

mcVars == <<vars, fileVars, inboxVars, part>>

MCSymmetry == Permutations(TaskIds) \cup Permutations(Sessions)

MCInit ==
    /\ Init /\ Files!Init /\ Inbox!Init
    /\ part \in {"tasks", "tables", "files", "inbox", "preferences"}

\* Bounds.  "tasks": all the tasks, on one project and no milestone.  "tables": one row of
\* every table, and clients, which nothing refers to, on their own.
Open == {txn[s] : s \in {x \in Sessions : txn[x] # Idle}}
NewTasks == {t.row : t \in {u \in Open : u.kind = "task" /\ u.op = "insert"}}
Used == {k \in Kinds : Rows(k) # {}} \cup {t.kind : t \in Open}
Fits ==
    IF part = "tasks"
    THEN /\ \A t \in Open : \/ t.kind = "project" /\ t.op = "insert"
                            \/ t.kind = "task" /\ (t.op = "update" => "milestone" \notin DOMAIN t.set)
         /\ \A row \in NewTasks : row.milestone = None
    ELSE /\ \A row \in NewTasks : row.parent = None /\ Rows("task") = {}
         /\ "client" \in Used => Used = {"client"}

\* "inbox": notifications.  "preferences": those of users, at one time.
InboxFits ==
    LET open == {s \in Sessions : inboxTxn[s] # Inbox!Idle}
    IN  /\ part = "preferences" => now = 1 /\ Inbox!Rows = {}
        /\ part # "preferences" => \A s \in open : inboxTxn[s].op # "prefs"

MCNext ==
    /\ UNCHANGED part
    /\ \/ part \in {"tasks", "tables"} /\ Next /\ Fits' /\ UNCHANGED <<fileVars, inboxVars>>
       \/ part = "files" /\ Files!Next /\ UNCHANGED <<vars, inboxVars>>
       \/ part \in {"inbox", "preferences"} /\ Inbox!Next /\ InboxFits'
          /\ UNCHANGED <<vars, fileVars>>

MCSpec == MCInit /\ [][MCNext]_mcVars

-----------------------------------------------------------------------------
(* Properties of the services, and the columns of their tables *)

\* Rows have the columns and the types that the migrations give them, NOT NULL ones included.
ContentTypeOK == TypeOK /\ Files!TypeOK /\ Inbox!TypeOK

\* A deletion that dies half-way leaves no object that no record leads to.
NothingIsStranded == Files!NothingIsStranded

\* What confirm_upload confirmed is in the bucket until it is deleted.
ConfirmedFilesExist == Files!ConfirmedFilesExist

\* Unread, read, gone: never back, in every overlap.
NotificationsOnlyAdvance == Inbox!NotificationsOnlyAdvance

=============================================================================
