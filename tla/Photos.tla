-------------------------------- MODULE Photos --------------------------------
(***************************************************************************)
(* Photos of categories and items: SetPhoto and RemovePhoto of the two     *)
(* services, the image columns of their rows, the objects in MinIO         *)
(* (pkg/storage) and the check of the bucket that the first upload makes.  *)
(* Beside them run the update forms and the deletions of the rows.         *)
(*                                                                         *)
(* A request is the sequence of its queries and calls, its script.  An     *)
(* object's key is the request that uploaded it (keys are unique), or a    *)
(* member of Stored, uploaded before.  A query or a call that fails may    *)
(* have had its effect.  MinIO is external.                                *)
(***************************************************************************)
EXTENDS Naturals, Sequences

CONSTANTS
    Categories, Items,  \* the rows that may have a photo
    Stored,             \* keys of objects uploaded before
    Images,             \* what the rows may point at to begin with
    Requests,
    Scenarios,          \* bound: what they ask for, together
    Link,               \* an image_url from outside, without an image_key
    None,
    MaxFaults           \* bound: failures and crashes in a behaviour

Rows == Categories \cup Items
Keys == Stored \cup Requests
Ops == {"upload", "remove", "form", "delete"}

\* sound: the file is an image of a known type and not too large.
Request == [op : Ops, on : Rows, sound : BOOLEAN]

ASSUME PhotosAssumption ==
    /\ Categories \cap Items = {} /\ Stored \cap Requests = {}
    /\ Images \subseteq [Rows -> Stored \cup {Link, None}]
    /\ \A f \in Images, d, e \in Rows : d # e /\ f[d] \in Stored => f[d] # f[e]
    /\ Scenarios \subseteq [Requests -> Request]
    /\ Link \notin Keys /\ None \notin Keys /\ Link # None
    /\ MaxFaults \in Nat

VARIABLES
    req,        \* req[q]: what request q asks for
    outcome,    \* outcome[q]: idle, running, ok or failed
    todo,       \* todo[q]: the rest of q's script
    old,        \* old[q]: the image of the row as q loaded it
    live,       \* the rows that are not deleted
    image,      \* image[e]: image_key, Link or None
    objects,    \* keys in the bucket
    bucket,     \* none, private or public (everybody may read)
    once,       \* ensureOnce: new, running or done
    ensureErr,  \* the check failed
    beside,     \* history: pairs of requests for one row that overlapped
    untold,     \* history: rows whose image changed after the last menu event
    faults

rowVars == <<live, image, untold>>
storeVars == <<objects, bucket, once, ensureErr>>
vars == <<req, outcome, todo, old, rowVars, storeVars, beside, faults>>

Init ==
    /\ req \in Scenarios
    /\ outcome = [q \in Requests |-> "idle"]
    /\ todo = [q \in Requests |-> <<>>]
    /\ old = [q \in Requests |-> None]
    /\ live = Rows
    /\ image \in Images
    /\ objects = {image[e] : e \in Rows} \cap Keys
    /\ bucket \in IF objects = {} THEN {"none", "private", "public"} ELSE {"public"}
    /\ once = "new" /\ ensureErr = FALSE
    /\ beside = {} /\ untold = {}
    /\ faults = 0

Fault == faults < MaxFaults /\ faults' = faults + 1
NoFault == UNCHANGED faults

-----------------------------------------------------------------------------
(* The scripts, after the permission.                                      *)

\* Mutant: the old photo is deleted before the new one is recorded.
CleanFirst == <<"load", "ensure", "put", "clean", "set", "publish">>
SetCategoryPhoto == <<"load", "ensure", "put", "set", "clean", "publish">>

\* Mutant: the object is forgotten.
ClearOnly == <<"load", "clear", "publish">>
RemoveCategoryPhoto == <<"load", "clear", "clean", "publish">>

SetItemPhoto == <<"load", "ensure", "put", "set", "clean", "publish">>
RemoveItemPhoto == <<"load", "clear", "clean", "publish">>

\* The form and the deletion of a row (Catalogue has the rest of them).
SaveForm == <<"load", "write">>
DeleteRow == <<"hide">>

Script(r) ==
    CASE r.op = "upload" -> IF r.on \in Categories THEN SetCategoryPhoto ELSE SetItemPhoto
      [] r.op = "remove" -> IF r.on \in Categories THEN RemoveCategoryPhoto ELSE RemoveItemPhoto
      [] r.op = "form" -> SaveForm
      [] r.op = "delete" -> DeleteRow

Running(q) == outcome[q] = "running"

\* Requests for photos that run on the row that q asks for.
Overlapping(q) ==
    {r \in Requests \ {q} : Running(r) /\ req[r].on = req[q].on
                            /\ {req[q].op, req[r].op} \subseteq {"upload", "remove"}}

Arrive(q, rows, op) ==
    /\ outcome[q] = "idle"
    /\ req[q].on \in rows /\ req[q].op = op
    /\ outcome' = [outcome EXCEPT ![q] = "running"]
    /\ todo' = [todo EXCEPT ![q] = Script(req[q])]
    /\ beside' = beside \cup {{q, r} : r \in Overlapping(q)}
    /\ UNCHANGED <<req, old, rowVars, storeVars, faults>>

UploadCategoryPhoto(q) == Arrive(q, Categories, "upload")
DeleteCategoryPhoto(q) == Arrive(q, Categories, "remove")
UploadItemPhoto(q) == Arrive(q, Items, "upload")
DeleteItemPhoto(q) == Arrive(q, Items, "remove")
PutForm(q) == Arrive(q, Rows, "form")
DropRow(q) == Arrive(q, Rows, "delete")

At(q, step) == Running(q) /\ Head(todo[q]) = step

Continue(q) ==
    /\ todo' = [todo EXCEPT ![q] = Tail(@)]
    /\ outcome' = [outcome EXCEPT ![q] = IF Len(todo[q]) = 1 THEN "ok" ELSE @]

Fail(q) ==
    /\ todo' = [todo EXCEPT ![q] = <<>>]
    /\ outcome' = [outcome EXCEPT ![q] = "failed"]

-----------------------------------------------------------------------------
(* The rows.                                                               *)

IsLive(q) == req[q].on \in live

\* GetByID.
Load(q) ==
    /\ At(q, "load")
    /\ IF IsLive(q)
       THEN Continue(q) /\ old' = [old EXCEPT ![q] = image[req[q].on]]
       ELSE Fail(q) /\ UNCHANGED old
    /\ UNCHANGED <<req, rowVars, storeVars, beside, faults>>

\* The image columns of q's row become i, and kiosks have not heard of it.
Point(q, i) ==
    /\ image' = [image EXCEPT ![req[q].on] = i]
    /\ untold' = IF image[req[q].on] = i THEN untold ELSE untold \cup {req[q].on}

Keep == UNCHANGED <<image, untold>>

\* SetImage.  After an error the new object is deleted again.
Rollback(q) == todo' = [todo EXCEPT ![q] = <<"rollback">>] /\ UNCHANGED outcome

SetImage(q) ==
    /\ At(q, "set")
    /\ \/ IsLive(q) /\ Point(q, q) /\ Continue(q) /\ NoFault
       \/ ~IsLive(q) /\ Keep /\ Rollback(q) /\ NoFault
       \/ Fault /\ Rollback(q) /\ (Keep \/ (IsLive(q) /\ Point(q, q)))
    /\ UNCHANGED <<req, old, live, storeVars, beside>>

ClearImage(q) ==
    /\ At(q, "clear")
    /\ \/ IsLive(q) /\ Point(q, None) /\ Continue(q) /\ NoFault
       \/ ~IsLive(q) /\ Keep /\ Fail(q) /\ NoFault
       \/ Fault /\ Fail(q) /\ (Keep \/ (IsLive(q) /\ Point(q, None)))
    /\ UNCHANGED <<req, old, live, storeVars, beside>>

\* Mutant: the form writes the whole row back.
WriteAll(q) ==
    /\ At(q, "write")
    /\ IF IsLive(q) THEN Continue(q) /\ Point(q, old[q]) ELSE Fail(q) /\ Keep
    /\ UNCHANGED <<req, old, live, storeVars, beside, faults>>

\* The form does not write the image columns.
Write(q) ==
    /\ At(q, "write")
    /\ IF IsLive(q) THEN Continue(q) ELSE Fail(q)
    /\ UNCHANGED <<req, old, rowVars, storeVars, beside, faults>>

\* The row keeps its image, and the bucket the object.
Hide(q) ==
    /\ At(q, "hide")
    /\ IF IsLive(q) THEN Continue(q) ELSE Fail(q)
    /\ live' = live \ {req[q].on}
    /\ UNCHANGED <<req, old, image, untold, storeVars, beside, faults>>

\* PublishMenuUpdated: the event concerns all restaurants, or is lost.
Publish(q) ==
    /\ At(q, "publish")
    /\ Continue(q)
    /\ \/ NoFault /\ untold' = untold \ {req[q].on}
       \/ Fault /\ UNCHANGED untold
    /\ UNCHANGED <<req, old, live, image, storeVars, beside>>

-----------------------------------------------------------------------------
(* The bucket: one request checks it, the others wait for it.              *)

\* Mutant: a flag instead of the once, which an error leaves set.
LeftChecking(q) ==
    /\ once' = "running" /\ ensureErr' = TRUE
    /\ Fail(q)

\* The error is kept.
Broken(q) ==
    /\ once' = "done" /\ ensureErr' = TRUE
    /\ Fail(q)

BucketExists(q) ==
    /\ At(q, "ensure") /\ once = "new"
    /\ \/ /\ NoFault /\ once' = "running" /\ UNCHANGED <<ensureErr, outcome>>
          /\ todo' = [todo EXCEPT ![q] = IF bucket = "none"
                                         THEN <<"make", "policy">> \o Tail(@)
                                         ELSE <<"policy">> \o Tail(@)]
       \/ Fault /\ Broken(q)
    /\ UNCHANGED <<req, old, rowVars, objects, bucket, beside>>

MakeBucket(q) ==
    /\ At(q, "make")
    /\ \/ NoFault /\ Continue(q) /\ bucket' = "private" /\ UNCHANGED <<once, ensureErr>>
       \/ Fault /\ Broken(q) /\ bucket' \in {bucket, "private"}
    /\ UNCHANGED <<req, old, rowVars, objects, beside>>

SetBucketPolicy(q) ==
    /\ At(q, "policy")
    /\ \/ NoFault /\ Continue(q) /\ bucket' = "public" /\ once' = "done" /\ UNCHANGED ensureErr
       \/ Fault /\ Broken(q) /\ bucket' \in {bucket, "public"}
    /\ UNCHANGED <<req, old, rowVars, objects, beside>>

Ensured(q) ==
    /\ At(q, "ensure") /\ once = "done"
    /\ IF ensureErr THEN Fail(q) ELSE Continue(q)
    /\ UNCHANGED <<req, old, rowVars, storeVars, beside, faults>>

-----------------------------------------------------------------------------
(* The objects.                                                            *)

Upload(q) ==
    /\ At(q, "put")
    /\ \/ req[q].sound /\ NoFault /\ Continue(q) /\ objects' = objects \cup {q}
       \/ req[q].sound /\ Fault /\ Fail(q) /\ objects' \in {objects, objects \cup {q}}
       \/ ~req[q].sound /\ NoFault /\ Fail(q) /\ UNCHANGED objects
    /\ UNCHANGED <<req, old, rowVars, bucket, once, ensureErr, beside>>

\* RemoveObject; nobody looks at its error.
Delete(key) ==
    \/ NoFault /\ objects' = objects \ {key}
    \/ Fault /\ UNCHANGED objects

DeleteOld(q) ==
    /\ At(q, "clean")
    /\ Continue(q)
    /\ Delete(old[q])
    /\ UNCHANGED <<req, old, rowVars, bucket, once, ensureErr, beside>>

DeleteNew(q) ==
    /\ At(q, "rollback")
    /\ Fail(q)
    /\ Delete(q)
    /\ UNCHANGED <<req, old, rowVars, bucket, once, ensureErr, beside>>

-----------------------------------------------------------------------------
\* The process dies and is started again.
Crash ==
    /\ Fault
    /\ \E q \in Requests : Running(q)
    /\ outcome' = [q \in Requests |-> IF Running(q) THEN "failed" ELSE outcome[q]]
    /\ todo' = [q \in Requests |-> <<>>]
    /\ once' = "new" /\ ensureErr' = FALSE
    /\ UNCHANGED <<req, old, rowVars, objects, bucket, beside>>

Arrives(q) ==
    \/ UploadCategoryPhoto(q) \/ DeleteCategoryPhoto(q)
    \/ UploadItemPhoto(q) \/ DeleteItemPhoto(q)
    \/ PutForm(q) \/ DropRow(q)

Handles(q) ==
    \/ Load(q) \/ SetImage(q) \/ ClearImage(q) \/ Write(q) \/ Hide(q) \/ Publish(q)
    \/ BucketExists(q) \/ MakeBucket(q) \/ SetBucketPolicy(q) \/ Ensured(q)
    \/ Upload(q) \/ DeleteOld(q) \/ DeleteNew(q)

Next == (\E q \in Requests : Arrives(q) \/ Handles(q)) \/ Crash

Spec == Init /\ [][Next]_vars

\* A handler that can take a step takes it: queries and calls are answered.
FairSpec == Spec /\ \A q \in Requests : WF_vars(Handles(q))

-----------------------------------------------------------------------------
(* Properties.                                                             *)

TypeOK ==
    /\ req \in [Requests -> Request]
    /\ outcome \in [Requests -> {"idle", "running", "ok", "failed"}]
    /\ \A q \in Requests : Running(q) <=> todo[q] # <<>>
    /\ old \in [Requests -> Keys \cup {Link, None}]
    /\ live \subseteq Rows /\ untold \subseteq Rows
    /\ image \in [Rows -> Keys \cup {Link, None}]
    /\ objects \subseteq Keys
    /\ bucket \in {"none", "private", "public"}
    /\ once \in {"new", "running", "done"} /\ ensureErr \in BOOLEAN
    /\ beside \subseteq SUBSET Requests
    /\ faults \in 0..MaxFaults

\* A row points at an object that is there.  The exception is an upload that
\* was answered with an error although its SetImage had taken effect: its
\* object has been deleted again.
PointsAtObject ==
    \A e \in Rows : image[e] \in Keys \ objects =>
        image[e] \in Requests /\ outcome[image[e]] = "failed"

\* An object no row points at is being worked on, or was uploaded beside
\* another request for the same row, unless something has failed.
OrphansExplained ==
    \A k \in objects :
        \/ \E e \in Rows : image[e] = k
        \/ \E q \in Requests : Running(q) /\ (q = k \/ old[q] = k)
        \/ \E q \in Requests : {q, k} \in beside
        \/ faults > 0

\* An image is replaced or removed by a request for a photo only, also while
\* a form that was loaded before is saved.
ReplacedOnPurpose ==
    [][\A e \in Rows : image'[e] # image[e] =>
          \E q \in Requests : /\ todo'[q] # todo[q] /\ req[q].on = e
                              /\ req[q].op \in {"upload", "remove"}]_vars

\* What a row points at can be read by kiosks: the bucket is public.
PhotoServed == \A e \in Rows : image[e] \in Keys => bucket = "public"

\* A change of an image that kiosks have not been told of is about to be
\* announced, unless something has failed.
ChangeIsTold ==
    \A e \in untold :
        \/ \E q \in Requests : Running(q) /\ req[q].on = e /\ req[q].op \in {"upload", "remove"}
        \/ faults > 0

\* Typed; what rows point at is there and served, and changes are told of.
PhotosInv == TypeOK /\ PointsAtObject /\ PhotoServed /\ ChangeIsTold

\* Every request ends: none waits forever for the check of the bucket.
RequestsEnd == \A q \in Requests : Running(q) ~> ~Running(q)

=============================================================================
