------------------------------ MODULE Uploader ------------------------------
(***************************************************************************)
(* The in-memory multipart uploader, src/uploader.go, over the bucket it   *)
(* stores completed objects in.                                            *)
(*                                                                         *)
(* Every operation holds the coarse lock u.mu, so it is one action, except *)
(* a completion: it keeps u.mu through storage.PutObject, whose merge and  *)
(* commit are two critical sections of the backend between which others    *)
(* may change the bucket.  `completing` is that completion, and u.mu is    *)
(* held while there is one.                                                *)
(*                                                                         *)
(* The ETag of a part is the MD5 of its body: a body stands for its ETag.  *)
(* Requests that are refused change nothing and appear only as guards.     *)
(***************************************************************************)
EXTENDS Integers, Sequences, TLC

CONSTANTS
    Buckets,     \* bucket names
    Keys,        \* object keys
    Bodies,      \* contents of a part
    Metas,       \* values of one metadata header
    NoMeta,      \* the header is not in the metadata map
    NoPart,      \* a nil entry of mpu.parts
    NoUpload,    \* the ID is not in bucketUploads.uploads
    NoEntry,     \* the key is not in bucketUploads.objectIndex
    NoObject,    \* the key is not in the bucket
    NoBucket,    \* the bucket does not exist
    Nothing,     \* no completion is under way
    MaxUploads,  \* bound on the upload IDs issued
    MaxPart,     \* bound on part numbers, for MaxUploadPartNumber
    MaxInput     \* bound on the parts named by a complete request

ASSUME BoundAssumption == MaxUploads \in Nat /\ MaxPart \in Nat /\ MaxInput \in Nat

VARIABLES
    storage,      \* the backend's buckets and what they hold
    uploads,      \* bucketUploads.uploads of each bucket, by upload ID
    objectIndex,  \* bucketUploads.objectIndex of each bucket: the IDs of a key
    lastID,       \* u.uploadID
    completing,   \* the completion that holds u.mu
    completed     \* history: the completions that succeeded, in order

vars == <<storage, uploads, objectIndex, lastID, completing, completed>>

-----------------------------------------------------------------------------
(* Types.                                                                  *)

UploadIDs == 1..MaxUploads

\* parts is mpu.parts: the part with number n is at index n of the slice, here n + 1.
Upload == [object : Keys, meta : Metas \cup {NoMeta}, parts : Seq(Bodies \cup {NoPart})]

CompletedPart == [number : Nat, etag : Bodies]

Stored == [content : Seq(Bodies), meta : Metas \cup {NoMeta}]

Completion == [bucket : Buckets, key : Keys, id : UploadIDs,
               input : Seq(CompletedPart), content : Seq(Bodies)]

\* The nil values are not values of what they are missing from.
ASSUME NilAssumption ==
    /\ NoPart \notin Bodies
    /\ NoMeta \notin Metas
    /\ NoUpload \notin Upload
    /\ NoEntry \notin Seq(UploadIDs)
    /\ Nothing \notin Completion

TypeOK ==
    /\ storage \in [Buckets -> [Keys -> Stored \cup {NoObject}] \cup {NoBucket}]
    /\ uploads \in [Buckets -> [UploadIDs -> Upload \cup {NoUpload}]]
    /\ objectIndex \in [Buckets -> [Keys -> Seq(UploadIDs) \cup {NoEntry}]]
    /\ lastID \in 0..MaxUploads
    /\ completing \in Completion \cup {Nothing}
    /\ completed \in Seq(Completion)

-----------------------------------------------------------------------------

Unlocked == completing = Nothing

\* getUnlocked: the ID must be in the bucket, under the object it was made for.
Holds(b, k, id) ==
    /\ uploads[b][id] # NoUpload
    /\ uploads[b][id].object = k

\* A header the new metadata lacks is carried over from the existing object.
Merge(new, existing) == IF new = NoMeta THEN existing ELSE new

\* Bug: a new upload goes to the front of its key.
AddInFront(b, k, id, upload) ==
    /\ uploads' = [uploads EXCEPT ![b][id] = upload]
    /\ objectIndex' = [objectIndex EXCEPT ![b][k] = IF @ = NoEntry THEN <<id>> ELSE <<id>> \o @]

\* bucketUploads.add
Add(b, k, id, upload) ==
    /\ uploads' = [uploads EXCEPT ![b][id] = upload]
    /\ objectIndex' = [objectIndex EXCEPT ![b][k] = IF @ = NoEntry THEN <<id>> ELSE Append(@, id)]

\* Bug: forget the index when an upload ends.
RemoveFromMapOnly(b, id) ==
    /\ uploads' = [uploads EXCEPT ![b][id] = NoUpload]
    /\ UNCHANGED objectIndex

\* Bug: keep the upload after it was stored.
RemoveNothing(b, id) == UNCHANGED <<uploads, objectIndex>>

\* bucketUploads.remove: a key with no upload left leaves the index.  The search
\* for the upload ends at the last of the key if it is none of them.
Remove(b, id) ==
    LET k == uploads[b][id].object
        ids == objectIndex[b][k]
        found == CHOOSE i \in DOMAIN ids :
                    IF \E j \in DOMAIN ids : ids[j] = id THEN ids[i] = id ELSE i = Len(ids) IN
    /\ uploads' = [uploads EXCEPT ![b][id] = NoUpload]
    /\ objectIndex' =
          IF ids = NoEntry THEN objectIndex
          ELSE [objectIndex EXCEPT ![b][k] =
                   IF Len(ids) = 1 THEN NoEntry
                   ELSE SubSeq(ids, 1, found - 1) \o SubSeq(ids, found + 1, Len(ids))]

-----------------------------------------------------------------------------
(* Operations.                                                             *)

\* Bug: upload IDs follow the uploads in progress, so an ended one's is reused.
CreateReusingIDs(b, k, meta) ==
    LET id == CHOOSE i \in UploadIDs : \A c \in Buckets : uploads[c][i] = NoUpload IN
    /\ Unlocked /\ storage[b] # NoBucket
    /\ \E i \in UploadIDs : \A c \in Buckets : uploads[c][i] = NoUpload
    /\ lastID' = id
    /\ Add(b, k, id, [object |-> k, meta |-> meta, parts |-> <<>>])
    /\ UNCHANGED <<storage, completing, completed>>

\* initiateMultipartUpload: the handler checks the bucket, the uploader does not.
CreateMultipartUpload(b, k, meta) ==
    /\ Unlocked /\ storage[b] # NoBucket
    /\ lastID < MaxUploads
    /\ lastID' = lastID + 1
    /\ Add(b, k, lastID + 1, [object |-> k, meta |-> meta, parts |-> <<>>])
    /\ UNCHANGED <<storage, completing, completed>>

\* Bug: the slice is made anew when it grows.
SetPartAnew(parts, n, body) ==
    IF n >= Len(parts)
    THEN [i \in 1..(n + 1) |-> IF i = n + 1 THEN body ELSE NoPart]
    ELSE [parts EXCEPT ![n + 1] = body]

\* The slice grows with nils up to the part; a part sent again is overwritten.
SetPart(parts, n, body) ==
    LET grown == IF n >= Len(parts)
                 THEN parts \o [i \in 1..(n - Len(parts) + 1) |-> NoPart] ELSE parts
    IN [grown EXCEPT ![n + 1] = body]

\* Bug: store a part while a completion holds u.mu.
UploadPartUnlocked(b, k, id, n, body) ==
    /\ Holds(b, k, id)
    /\ uploads' = [uploads EXCEPT ![b][id].parts = SetPart(@, n, body)]
    /\ UNCHANGED <<storage, objectIndex, lastID, completing, completed>>

\* The body is read before u.mu is taken.
UploadPart(b, k, id, n, body) ==
    /\ Unlocked /\ Holds(b, k, id)
    /\ uploads' = [uploads EXCEPT ![b][id].parts = SetPart(@, n, body)]
    /\ UNCHANGED <<storage, objectIndex, lastID, completing, completed>>

AbortMultipartUpload(b, k, id) ==
    /\ Unlocked /\ Holds(b, k, id)
    /\ Remove(b, id)
    /\ UNCHANGED <<storage, lastID, completing, completed>>

\* partIDs sorts the numbers it collects, so what partsAreSorted is given to
\* check is always sorted.
PartIDs(input) == SortSeq([i \in DOMAIN input |-> input[i].number], <)

PartsAreSorted(input) ==
    \A i \in 1..(Len(input) - 1) : PartIDs(input)[i] <= PartIDs(input)[i + 1]

\* Bug: take the part whatever ETag the client names.
NamesAnyPart(parts, p) == p.number < Len(parts) /\ parts[p.number + 1] # NoPart

\* Bug: take a number below the highest for a part that was uploaded.
NamesUnsentPart(parts, p) == p.number < Len(parts)

\* The part a complete request names was uploaded, with that ETag.
NamesPart(parts, p) == p.number < Len(parts) /\ parts[p.number + 1] = p.etag

\* The checks of a completion, its body, and the merge of storage.PutObject.
\* The merge writes into mpu.Meta itself.
CompleteMultipartUpload(b, k, id, input) ==
    LET parts == uploads[b][id].parts
        content == [i \in DOMAIN input |-> parts[input[i].number + 1]]
        existing == IF storage[b] = NoBucket THEN NoObject ELSE storage[b][k] IN
    /\ Unlocked /\ Holds(b, k, id)
    /\ Len(input) <= Len(parts)
    /\ PartsAreSorted(input)
    /\ \A i \in DOMAIN input : NamesPart(parts, input[i])
    /\ completing' = [bucket |-> b, key |-> k, id |-> id, input |-> input, content |-> content]
    /\ uploads' = IF existing = NoObject THEN uploads
                  ELSE [uploads EXCEPT ![b][id].meta = Merge(@, existing.meta)]
    /\ UNCHANGED <<storage, objectIndex, lastID, completed>>

\* Bug: remove the upload although the object was not stored.
CompletePutRemovingFirst ==
    LET c == completing IN
    /\ completing # Nothing
    /\ completing' = Nothing
    /\ Remove(c.bucket, c.id)
    /\ IF storage[c.bucket] = NoBucket THEN UNCHANGED <<storage, completed>>
       ELSE /\ storage' = [storage EXCEPT ![c.bucket][c.key] =
                   [content |-> c.content, meta |-> uploads[c.bucket][c.id].meta]]
            /\ completed' = Append(completed, c)
    /\ UNCHANGED lastID

\* The commit of storage.PutObject and the return: the upload is removed if the
\* object was stored, and kept if the backend refused it.
CompletePut ==
    LET c == completing IN
    /\ completing # Nothing
    /\ completing' = Nothing
    /\ \/ /\ storage[c.bucket] = NoBucket
          /\ UNCHANGED <<storage, uploads, objectIndex, completed>>
       \/ /\ storage[c.bucket] # NoBucket
          /\ storage' = [storage EXCEPT ![c.bucket][c.key] =
                 [content |-> c.content, meta |-> uploads[c.bucket][c.id].meta]]
          /\ completed' = Append(completed, c)
          /\ Remove(c.bucket, c.id)
    /\ UNCHANGED lastID

-----------------------------------------------------------------------------
(* The buckets, which do not tell the uploader what happens to them.       *)

CreateBucket(b) ==
    /\ storage[b] = NoBucket
    /\ storage' = [storage EXCEPT ![b] = [k \in Keys |-> NoObject]]
    /\ UNCHANGED <<uploads, objectIndex, lastID, completing, completed>>

\* Plain or forced.
DeleteBucket(b) ==
    /\ storage[b] # NoBucket
    /\ storage' = [storage EXCEPT ![b] = NoBucket]
    /\ UNCHANGED <<uploads, objectIndex, lastID, completing, completed>>

\* Another client's PutObject; its content does not matter here.
PutObject(b, k, meta) ==
    /\ storage[b] # NoBucket
    /\ storage' = [storage EXCEPT ![b][k] = [content |-> <<>>, meta |-> meta]]
    /\ UNCHANGED <<uploads, objectIndex, lastID, completing, completed>>

DeleteObject(b, k) ==
    /\ storage[b] # NoBucket
    /\ storage' = [storage EXCEPT ![b][k] = NoObject]
    /\ UNCHANGED <<uploads, objectIndex, lastID, completing, completed>>

-----------------------------------------------------------------------------

\* What a client may send: putMultipartUploadPart refuses part 0, a complete
\* request may name it, or no part at all.
Inputs == UNION {[1..n -> [number : 0..MaxPart, etag : Bodies]] : n \in 0..MaxInput}

Init ==
    /\ storage = [b \in Buckets |-> NoBucket]
    /\ uploads = [b \in Buckets |-> [id \in UploadIDs |-> NoUpload]]
    /\ objectIndex = [b \in Buckets |-> [k \in Keys |-> NoEntry]]
    /\ lastID = 0
    /\ completing = Nothing
    /\ completed = <<>>

Next ==
    \/ \E b \in Buckets :
          \/ CreateBucket(b)
          \/ DeleteBucket(b)
          \/ \E k \in Keys :
                \/ DeleteObject(b, k)
                \/ \E meta \in Metas \cup {NoMeta} :
                      PutObject(b, k, meta) \/ CreateMultipartUpload(b, k, meta)
                \/ \E id \in UploadIDs :
                      \/ \E n \in 1..MaxPart, body \in Bodies : UploadPart(b, k, id, n, body)
                      \/ AbortMultipartUpload(b, k, id)
                      \/ \E input \in Inputs : CompleteMultipartUpload(b, k, id, input)
    \/ CompletePut

Spec == Init /\ [][Next]_vars

-----------------------------------------------------------------------------
(* Safety.                                                                 *)

\* What objectIndex has under a key.
UploadsOf(b, k) == IF objectIndex[b][k] = NoEntry THEN <<>> ELSE objectIndex[b][k]

\* The two indexes of a bucket agree: objectIndex lists under each key exactly
\* the uploads of that key, each once, in the order they were initiated, and has
\* no empty entry.  ListMultipartUploads reads the first upload of an entry
\* unchecked, and remove trusts that an upload it ends is in both.
IndexMatchesUploads ==
    \A b \in Buckets, k \in Keys :
        LET ids == UploadsOf(b, k) IN
        /\ objectIndex[b][k] # <<>>
        /\ {ids[i] : i \in DOMAIN ids} = {id \in UploadIDs : Holds(b, k, id)}
        /\ \A i, j \in DOMAIN ids : i < j => ids[i] < ids[j]

\* An upload creates at most one object: a completion that was stored ended the
\* upload, and one that failed and is retried was not stored.
CompletedOnce ==
    \A i, j \in DOMAIN completed : completed[i].id = completed[j].id => i = j

\* What a completion stores is what its client named, part by part: a part that
\* was overwritten after the client got its ETag fails the completion instead of
\* being stored in its place.
CompletedAsNamed ==
    \A i \in DOMAIN completed :
        completed[i].content = [j \in DOMAIN completed[i].input |-> completed[i].input[j].etag]

\* While a completion waits for the backend, its upload and its parts stay as
\* they were when it checked them, so the upload it removes is the one it stored.
CompletingIsHeld ==
    completing # Nothing =>
        /\ Holds(completing.bucket, completing.key, completing.id)
        /\ \A i \in DOMAIN completing.input :
              NamesPart(uploads[completing.bucket][completing.id].parts, completing.input[i])

-----------------------------------------------------------------------------
(* Action properties.                                                      *)

\* An upload that was completed or aborted never comes back: an ID that appears
\* is one never issued before, to any bucket.
EndedStaysEnded ==
    [][\A b \in Buckets, id \in UploadIDs :
          uploads[b][id] = NoUpload /\ uploads'[b][id] # NoUpload => lastID < id]_vars

\* Until it ends, an upload keeps every part it was sent: growing the slice loses
\* none, and a part changes only by being sent again, one part at a time.
PartsAreKept ==
    [][\A b \in Buckets, id \in UploadIDs :
          uploads[b][id] # NoUpload /\ uploads'[b][id] # NoUpload =>
             LET PartAt(parts, i) == IF i \in DOMAIN parts THEN parts[i] ELSE NoPart
                 Differs(i) == PartAt(uploads'[b][id].parts, i) # PartAt(uploads[b][id].parts, i)
                 Changed == {i \in 1..(MaxPart + 1) : Differs(i)} IN
             \A i, j \in Changed : i = j /\ PartAt(uploads'[b][id].parts, i) # NoPart]_vars

\* An upload ends only by an abort or by its object being stored: a completion
\* that the backend refuses can be retried.
EndsOnlyWhenStored ==
    [][\A b \in Buckets, id \in UploadIDs :
          uploads[b][id] # NoUpload /\ uploads'[b][id] = NoUpload =>
             \/ \E k \in Keys : AbortMultipartUpload(b, k, id)
             \/ completed' = Append(completed, completing) /\ completing.id = id]_vars

-----------------------------------------------------------------------------
(* Documented behaviour that the code does not have.                       *)

\* "The list of parts was not in ascending order. Parts list must be specified
\* in order by part number" (src/error.go:60): no completion is stored whose
\* parts are out of order.
CompletedInPartOrder ==
    \A i \in DOMAIN completed : \A j \in 1..(Len(completed[i].input) - 1) :
        completed[i].input[j].number <= completed[i].input[j + 1].number

=============================================================================
