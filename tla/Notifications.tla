---------------------------- MODULE Notifications ----------------------------
(***************************************************************************)
(* Notifications and preferences: routers notifications and preferences.   *)
(* A request reads (the actions named after the handlers) and writes at    *)
(* its commit (Commit); in between other requests commit.  Nothing in the  *)
(* repository creates notifications, so Deliver stands for whatever does.  *)
(* One tenant is modelled: no lookup finds the rows of others.             *)
(***************************************************************************)
EXTENDS Integers

CONSTANTS
    NotificationIds, PreferenceIds,
    Users, Sessions,
    MaxTime,           \* bound of the clock
    None

Notification == [user : Users, read : BOOLEAN, at : (1 .. MaxTime) \cup {None}]
Gone == [deleted |-> TRUE]

\* quiet: quiet_hours_start, None or a time of the day
Preference == [user : Users, email : BOOLEAN, inapp : BOOLEAN, quiet : {None}]

Idle == [op |-> "idle"]

VARIABLES
    notes,    \* the table notifications: a row, None or Gone
    prefs,    \* the table notification_preferences: a row or None
    txn,      \* what each session is about to write
    now       \* the clock

vars == <<notes, prefs, txn, now>>

Rows == {n \in NotificationIds : notes[n] \notin {None, Gone}}
PrefRows == {p \in PreferenceIds : prefs[p] # None}

TypeOK ==
    /\ \A n \in Rows : notes[n] \in Notification
    /\ \A p \in PrefRows : prefs[p] \in Preference
    /\ now \in 1 .. MaxTime

Init ==
    /\ notes = [n \in NotificationIds |-> None]
    /\ prefs = [p \in PreferenceIds |-> None]
    /\ txn = [s \in Sessions |-> Idle]
    /\ now = 1

Tick ==
    /\ now < MaxTime
    /\ now' = now + 1
    /\ UNCHANGED <<notes, prefs, txn>>

Deliver(n, u) ==
    /\ notes[n] = None
    /\ notes' = [notes EXCEPT ![n] = [user |-> u, read |-> FALSE, at |-> None]]
    /\ UNCHANGED <<prefs, txn, now>>

-----------------------------------------------------------------------------
(* Handlers of notifications *)

Begin(s, t) ==
    /\ txn[s] = Idle
    /\ txn' = [txn EXCEPT ![s] = t]
    /\ UNCHANGED <<notes, prefs, now>>

\* The lookups of get_notification, mark_read and delete_notification.
Get(u, n) == n \in Rows /\ notes[n].user = u

\* POST /notifications/{id}/read; one that is read already is left alone.
MarkRead(s, u, n) ==
    Get(u, n) /\ ~notes[n].read /\ Begin(s, [op |-> "mark", id |-> n, at |-> now])

MarkAllRead(s, u) ==
    txn[s] = Idle /\ Begin(s, [op |-> "all", user |-> u, at |-> now])

DeleteNotification(s, u, n) ==
    Get(u, n) /\ Begin(s, [op |-> "delete", id |-> n])

-----------------------------------------------------------------------------
(* Handlers of preferences *)

\* Bodies of PUT and PATCH, as the schema lets them pass: booleans may be null and quiet
\* hours are text.
PreferenceUpdate ==
    {[email |-> b] : b \in BOOLEAN \cup {None}} \cup {[inapp |-> b] : b \in BOOLEAN \cup {None}}
    \cup {[quiet |-> "22:00"]}

OwnRows(u) == {p \in PrefRows : prefs[p].user = u}

\* _get_or_create_prefs: the row to write to, or None when the session is to insert one
GetOrCreate(u) == IF OwnRows(u) = {} THEN None ELSE CHOOSE p \in OwnRows(u) : TRUE

\* GET /preferences
GetPreferences(s, u) ==
    /\ txn[s] = Idle
    /\ Begin(s, [op |-> "prefs", user |-> u, id |-> GetOrCreate(u), set |-> << >>])

\* PUT and PATCH /preferences are the same.
UpdatePreferences(s, u, body) ==
    /\ txn[s] = Idle
    /\ Begin(s, [op |-> "prefs", user |-> u, id |-> GetOrCreate(u), set |-> body])

-----------------------------------------------------------------------------
(* Commit *)

\* Plausible slip: the row is merged, and comes back when it is gone.
StoreRead_Merge(x) ==
    notes' = [notes EXCEPT ![x.id] =
        [user |-> IF x.id \in Rows THEN notes[x.id].user ELSE CHOOSE u \in Users : TRUE,
         read |-> TRUE, at |-> x.at]]

\* The UPDATE of one row fails when the row is gone.
StoreRead(x) ==
    /\ x.id \in Rows
    /\ notes' = [notes EXCEPT ![x.id].read = TRUE, ![x.id].at = x.at]

\* One UPDATE of the rows that are unread when it runs.
StoreAllRead(x) ==
    notes' = [n \in NotificationIds |->
        IF n \in Rows /\ notes[n].user = x.user /\ ~notes[n].read
        THEN [notes[n] EXCEPT !.read = TRUE, !.at = x.at] ELSE notes[n]]

StoreDelete(x) == notes' = [notes EXCEPT ![x.id] = Gone]

CommitNote(s) ==
    LET x == txn[s] IN
    /\ \/ x.op = "mark" /\ StoreRead(x)
       \/ x.op = "all" /\ StoreAllRead(x)
       \/ x.op = "delete" /\ StoreDelete(x)
    /\ txn' = [txn EXCEPT ![s] = Idle]
    /\ UNCHANGED <<prefs, now>>

\* uq_notif_prefs_user
Unique(x) == x.id # None \/ OwnRows(x.user) = {}

\* Plausible slip: the columns are nullable.
Complete_Nullable(x) == "quiet" \notin DOMAIN x.set

\* The database takes neither null in a column that is NOT NULL nor text for a Time.
Complete(x) ==
    /\ "email" \in DOMAIN x.set => x.set.email # None
    /\ "inapp" \in DOMAIN x.set => x.set.inapp # None
    /\ "quiet" \notin DOMAIN x.set

\* Defaults of the model, under the fields of the body.
Merge(row, set) == [c \in DOMAIN row |-> IF c \in DOMAIN set THEN set[c] ELSE row[c]]
Default(u) == [user |-> u, email |-> TRUE, inapp |-> TRUE, quiet |-> None]

CommitPrefs(s) ==
    LET x == txn[s] IN
    /\ x.op = "prefs"
    /\ Unique(x) /\ Complete(x)
    /\ \/ /\ x.id = None
          /\ \E p \in PreferenceIds \ PrefRows :
                prefs' = [prefs EXCEPT ![p] = Merge(Default(x.user), x.set)]
       \/ x.id # None /\ prefs' = [prefs EXCEPT ![x.id] = Merge(@, x.set)]
    /\ txn' = [txn EXCEPT ![s] = Idle]
    /\ UNCHANGED <<notes, now>>

\* The request ends without a commit: refused, or dead.
Rollback(s) ==
    /\ txn[s] # Idle
    /\ txn' = [txn EXCEPT ![s] = Idle]
    /\ UNCHANGED <<notes, prefs, now>>

Next ==
    \/ Tick
    \/ \E n \in NotificationIds, u \in Users : Deliver(n, u)
    \/ \E s \in Sessions :
        \/ CommitNote(s) \/ CommitPrefs(s) \/ Rollback(s)
        \/ \E u \in Users : \/ MarkAllRead(s, u)
                            \/ \E n \in NotificationIds : \/ MarkRead(s, u, n)
                                                          \/ DeleteNotification(s, u, n)
                            \/ GetPreferences(s, u)
                            \/ \E b \in PreferenceUpdate : UpdatePreferences(s, u, b)

Spec == Init /\ [][Next]_vars

-----------------------------------------------------------------------------
(* Properties *)

\* A notification goes from unread to read to gone and never back: neither a read-all nor a
\* mark_read that loaded it earlier makes it unread or brings it back.
NotificationsOnlyAdvance ==
    [][\A n \in NotificationIds :
          /\ notes[n] = Gone => notes'[n] = Gone
          /\ n \in Rows => notes'[n] = Gone \/ (notes[n].read => notes'[n].read)]_vars

=============================================================================
