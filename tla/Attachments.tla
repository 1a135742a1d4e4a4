----------------------------- MODULE Attachments -----------------------------
(***************************************************************************)
(* File attachments: routers/attachments.py against MinIO (storage.py).    *)
(* The client asks for a presigned PUT URL, uploads to MinIO itself and    *)
(* confirms; record and object live in two systems, and a request can die  *)
(* between its steps on them.                                              *)
(***************************************************************************)
EXTENDS Integers

CONSTANTS
    AttachmentIds,
    Contents,        \* what a file can hold, told apart by its SHA-256
    Sessions,
    None

Record == [deleted : BOOLEAN, checksum : Contents \cup {None}]
Idle == [step |-> "idle"]

VARIABLES
    record,   \* the table attachments: a row or None
    object,   \* the bucket: the content under the row's storage_key, or None
    put,      \* the attachments whose presigned PUT URL has not expired
    request,  \* the step each session is at
    confirmed,\* auxiliary: attachments that a confirmation was answered with 201 for
    history   \* auxiliary: "kept", "removed" after delete_object, "late" after a PUT past it

vars == <<record, object, put, request, confirmed, history>>

TypeOK ==
    /\ record \in [AttachmentIds -> Record \cup {None}]
    /\ object \in [AttachmentIds -> Contents \cup {None}]
    /\ put \subseteq AttachmentIds
    /\ confirmed \subseteq AttachmentIds
    /\ history \in [AttachmentIds -> {"kept", "removed", "late"}]

Init ==
    /\ record = [a \in AttachmentIds |-> None]
    /\ object = [a \in AttachmentIds |-> None]
    /\ put = {}
    /\ request = [s \in Sessions |-> Idle]
    /\ confirmed = {}
    /\ history = [a \in AttachmentIds |-> "kept"]

Get(a) == record[a] # None /\ ~record[a].deleted

-----------------------------------------------------------------------------
(* MinIO and its clients *)

\* A PUT to the presigned URL, again and again until it expires.
Put(a, content) ==
    /\ a \in put
    /\ object' = [object EXCEPT ![a] = content]
    /\ history' = [history EXCEPT ![a] = IF @ = "removed" THEN "late" ELSE @]
    /\ UNCHANGED <<record, put, request, confirmed>>

\* expire_seconds have passed.
Expire(a) ==
    /\ a \in put
    /\ put' = put \ {a}
    /\ UNCHANGED <<record, object, request, confirmed, history>>

-----------------------------------------------------------------------------
(* Handlers *)

\* POST /attachments/upload: the URL leaves after the commit of the pending record.
InitiateUpload(a) ==
    /\ record[a] = None
    /\ record' = [record EXCEPT ![a] = [deleted |-> FALSE, checksum |-> None]]
    /\ put' = put \cup {a}
    /\ UNCHANGED <<object, request, confirmed, history>>

Start(s, x) ==
    /\ request' = [request EXCEPT ![s] = x]
    /\ UNCHANGED <<record, object, put, confirmed, history>>

\* What the commit writes of a claimed checksum: nothing, if the row loaded has it.
Column(a, claim) == IF claim = record[a].checksum THEN None ELSE claim

\* POST /attachments, up to the HEAD
ConfirmUpload(s, a, claim) ==
    /\ request[s] = Idle /\ Get(a)
    /\ Start(s, [step |-> "head", id |-> a, claim |-> Column(a, claim)])

\* Plausible slip: the answer of the HEAD is not looked at.
ObjectExists_Unchecked(a) == TRUE

\* object_exists: the HEAD; every failure counts as absence (FailedHead).
ObjectExists(a) == object[a] # None

Head(s) ==
    /\ request[s].step = "head"
    /\ ObjectExists(request[s].id)
    /\ request' = [request EXCEPT ![s].step = "confirm"]
    /\ UNCHANGED <<record, object, put, confirmed, history>>

FailedHead(s) ==
    /\ request[s].step = "head"
    /\ request' = [request EXCEPT ![s] = Idle]
    /\ UNCHANGED <<record, object, put, confirmed, history>>

\* The rest of confirm_upload: the checksum the client claims, if there is a column to write,
\* and the commit.
Confirm(s) ==
    /\ request[s].step = "confirm"
    /\ LET a == request[s].id IN
         /\ record' = IF request[s].claim = None THEN record
                      ELSE [record EXCEPT ![a].checksum = request[s].claim]
         /\ confirmed' = confirmed \cup {a}
    /\ request' = [request EXCEPT ![s] = Idle]
    /\ UNCHANGED <<object, put, history>>

\* DELETE /attachments/{id}
DeleteAttachment(s, a) ==
    request[s] = Idle /\ Get(a) /\ Start(s, [step |-> "remove", id |-> a])

RemoveObject(s) ==
    /\ request[s].step = "remove"
    /\ object' = [object EXCEPT ![request[s].id] = None]
    /\ history' = [history EXCEPT ![request[s].id] = "removed"]
    /\ request' = [request EXCEPT ![s].step = "forget"]
    /\ UNCHANGED <<record, put, confirmed>>

\* Plausible slip: the record is deleted first.
SoftDelete_First(s) ==
    /\ request[s].step = "remove"
    /\ record' = [record EXCEPT ![request[s].id].deleted = TRUE]
    /\ UNCHANGED <<object, put, request, confirmed, history>>

\* soft_delete and commit, after the object is gone
SoftDelete(s) ==
    /\ request[s].step = "forget"
    /\ record' = [record EXCEPT ![request[s].id].deleted = TRUE]
    /\ request' = [request EXCEPT ![s] = Idle]
    /\ UNCHANGED <<object, put, confirmed, history>>

\* The request dies; its session is rolled back, MinIO keeps what was done to it.
Crash(s) ==
    /\ request[s] # Idle
    /\ request' = [request EXCEPT ![s] = Idle]
    /\ UNCHANGED <<record, object, put, confirmed, history>>

Next ==
    \/ \E a \in AttachmentIds : InitiateUpload(a) \/ Expire(a) \/ \E x \in Contents : Put(a, x)
    \/ \E s \in Sessions :
        \/ Head(s) \/ FailedHead(s) \/ Confirm(s) \/ RemoveObject(s) \/ SoftDelete(s) \/ Crash(s)
        \/ \E a \in AttachmentIds : DeleteAttachment(s, a)
        \/ \E a \in AttachmentIds, x \in Contents \cup {None} : ConfirmUpload(s, a, x)

Spec == Init /\ [][Next]_vars

-----------------------------------------------------------------------------
(* Properties *)

\* Whatever dies in between, the object of a deleted attachment is gone, unless the client
\* uploaded it once more after delete_object: delete_attachment removes the object first,
\* so that a half-done deletion can be repeated through the record.
NothingIsStranded ==
    \A a \in AttachmentIds :
        record[a] # None /\ object[a] # None /\ history[a] # "late" => ~record[a].deleted

\* Confirmation means there is a file: until some deletion reaches MinIO, every attachment
\* that confirm_upload answered 201 for has its object.
ConfirmedFilesExist ==
    \A a \in confirmed : history[a] = "kept" => object[a] # None

=============================================================================
