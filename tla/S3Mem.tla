------------------------------- MODULE S3Mem -------------------------------
(***************************************************************************)
(* The in-memory, versioned backend: src/backend/s3mem/backend.go,         *)
(* bucket.go and versionid.go, with the helpers CopyObject and             *)
(* MergeMetadata of src/backend.go that its writes go through.             *)
(*                                                                         *)
(* One critical section of db.lock is one action.  Two kinds of calls span *)
(* several actions:                                                        *)
(*   - a PutObject reads the current object for its metadata in one        *)
(*     section and stores the new object in a later one; a CopyObject adds *)
(*     a HeadObject and a GetObject of the source before them;             *)
(*   - a DeleteMulti(Versions) holds the write lock for its whole batch    *)
(*     and is one action per entry, under `lock`.                          *)
(*                                                                         *)
(* A call that returns an error changes nothing, so a request that fails   *)
(* in its first section is a stutter and appears only as a guard.  A panic *)
(* ends its call too: net/http recovers it and the deferred unlock runs.   *)
(***************************************************************************)
EXTENDS Integers, Sequences

CONSTANTS
    Buckets,     \* bucket names
    Keys,        \* object keys
    Clients,     \* concurrent requests
    Bodies,      \* object contents
    Metas,       \* values of one metadata header
    NoMeta,      \* the header is not in the metadata map
    NoBody,      \* the nil body of a delete marker
    NoData,      \* bucketObject.data is nil
    NoObject,    \* the key is not in bucket.objects
    NoClient,    \* no batch holds db.lock
    MaxVersion,  \* bound on the version IDs issued
    MaxBatch     \* bound on the length of a multi-delete

\* A version ID is its position in the db-wide counter of versionGenerator.
Written == [id : Nat, body : Bodies, meta : Metas \cup {NoMeta}, deleteMarker : {FALSE}]
Marker  == [id : Nat, body : {NoBody}, meta : {NoMeta}, deleteMarker : {TRUE}]
Version == Written \cup Marker

\* A bucketObject: `data` is the current version, `versions` the archived ones.
Object == [data : Version \cup {NoData}, versions : SUBSET Version]

\* The constants that stand for nil are no values of the types they are missing from.
ASSUME NilAssumption ==
    /\ NoData \notin Version
    /\ NoObject \notin Object
    /\ NoClient \notin Clients
    /\ NoMeta \notin Metas
    /\ NoBody \notin Bodies

\* The two bounds are natural numbers.
ASSUME BoundAssumption == MaxVersion \in Nat /\ MaxBatch \in Nat

VARIABLES
    versioning,   \* db.buckets: "Absent", or the bucket's versioning status
    objects,      \* bucket.objects of each bucket
    lastVersion,  \* the counter of db.versionGenerator
    lock,         \* the client whose batch holds db.lock across actions
    call,         \* what each client's call has left to do, with its locals
    acked         \* history: every version whose ID a put has ever returned

vars == <<versioning, objects, lastVersion, lock, call, acked>>

-----------------------------------------------------------------------------
(* Types.                                                                  *)

Statuses == {"Absent", "None", "Enabled", "Suspended"}

Entry == [key : Keys, id : Nat]   \* an ObjectID; id = 0 when it has no VersionID

Idle == [step |-> "idle"]

\* A CopyObject past the handler's HeadObject.
CopyCall == [step : {"copy"}, srcBucket : Buckets, srcKey : Keys,
             bucket : Buckets, key : Keys, meta : Metas \cup {NoMeta}]

\* A PutObject that has read its body.
MergeCall == [step : {"merge"}, bucket : Buckets, key : Keys,
              body : Bodies, meta : Metas \cup {NoMeta}]

\* A PutObject past MergeMetadata; `asked` and `seen` are history: the metadata
\* before the merge, and the version the merge read (0 when it read none).
PutCall == [step : {"put"}, bucket : Buckets, key : Keys,
            body : Bodies, meta : Metas \cup {NoMeta},
            asked : Metas \cup {NoMeta}, seen : Nat]

\* A multi-delete and the entries it has yet to delete.
DeleteCall == [step : {"delete"}, bucket : Buckets, batch : Seq(Entry) \ {<<>>}]

Call == {Idle} \cup CopyCall \cup MergeCall \cup PutCall \cup DeleteCall

Acked == [bucket : Buckets, key : Keys, version : Version]

TypeOK ==
    /\ versioning \in [Buckets -> Statuses]
    /\ objects \in [Buckets -> [Keys -> Object \cup {NoObject}]]
    /\ lastVersion \in 0..MaxVersion
    /\ lock \in Clients \cup {NoClient}
    /\ call \in [Clients -> Call]
    /\ acked \subseteq Acked

-----------------------------------------------------------------------------
(* Reads.                                                                  *)

Exists(b) == versioning[b] # "Absent"

\* Every version the bucket stores for the key, current and archived.
VersionsAt(b, k) ==
    IF objects[b][k] = NoObject THEN {}
    ELSE objects[b][k].versions \cup ({objects[b][k].data} \ {NoData})

\* How GetObject and HeadObject end.  Neither tests obj.data for nil before it
\* reads obj.data.deleteMarker.
GetObject(b, k) ==
    CASE ~Exists(b)                        -> "NoSuchBucket"
      [] Exists(b) /\ objects[b][k] = NoObject -> "NoSuchKey"
      [] OTHER -> IF objects[b][k].data = NoData THEN "panic"
                  ELSE IF objects[b][k].data.deleteMarker THEN "NoSuchKey"
                  ELSE "ok"

\* The version GetObjectVersion and HeadObjectVersion find, NoData if none.
GetObjectVersion(b, k, id) ==
    IF Exists(b) /\ \E v \in VersionsAt(b, k) : v.id = id
    THEN CHOOSE v \in VersionsAt(b, k) : v.id = id
    ELSE NoData

\* A header the new metadata lacks is carried over from the existing metadata.
Merge(new, existing) == IF new = NoMeta THEN existing ELSE new

-----------------------------------------------------------------------------
(* The critical sections of bucket.go.                                     *)

Unlocked == lock = NoClient

\* bucketObject of a key, a fresh one if the key is absent.
ObjectAt(b, k) ==
    IF objects[b][k] = NoObject THEN [data |-> NoData, versions |-> {}]
    ELSE objects[b][k]

\* Bug: archive a current version without testing that there is one.
ArchiveNil(b, k) ==
    IF versioning[b] = "Enabled"
    THEN ObjectAt(b, k).versions \cup {ObjectAt(b, k).data}
    ELSE ObjectAt(b, k).versions

\* Bug: replace the current version without archiving it.
ArchiveNothing(b, k) == ObjectAt(b, k).versions

\* The archived versions once the current one has been replaced.
Archive(b, k) ==
    IF versioning[b] = "Enabled" /\ ObjectAt(b, k).data # NoData
    THEN ObjectAt(b, k).versions \cup {ObjectAt(b, k).data}
    ELSE ObjectAt(b, k).versions

NextVersion == lastVersion + 1

\* Bug: archive the new version and leave the old one current.
PutBehind(b, k, item) ==
    /\ lastVersion < MaxVersion
    /\ lastVersion' = NextVersion
    /\ objects' = [objects EXCEPT ![b][k] =
           IF ObjectAt(b, k).data = NoData \/ versioning[b] # "Enabled"
           THEN [data |-> item, versions |-> Archive(b, k)]
           ELSE [data |-> ObjectAt(b, k).data,
                 versions |-> ObjectAt(b, k).versions \cup {item}]]

\* Bug: an unversioned overwrite keeps the version ID of what it overwrites.
PutInPlace(b, k, item) ==
    /\ lastVersion < MaxVersion
    /\ lastVersion' = NextVersion
    /\ objects' = [objects EXCEPT ![b][k] =
           [data |-> IF versioning[b] = "Enabled" \/ ObjectAt(b, k).data = NoData
                     THEN item ELSE [item EXCEPT !.id = ObjectAt(b, k).data.id],
            versions |-> Archive(b, k)]]

\* bucket.put: the item is always new, whatever the versioning status.
Put(b, k, item) ==
    /\ lastVersion < MaxVersion
    /\ lastVersion' = NextVersion
    /\ objects' = [objects EXCEPT ![b][k] = [data |-> item, versions |-> Archive(b, k)]]

\* A key with nothing left is deleted from bucket.objects.
Shrink(o) == IF o.data = NoData /\ o.versions = {} THEN NoObject ELSE o

DeleteMarker == [id |-> NextVersion, body |-> NoBody, meta |-> NoMeta, deleteMarker |-> TRUE]

\* bucket.rm: an absent key is not an error, an Enabled bucket gets a delete
\* marker, any other bucket loses the current version.
Rm(b, k) ==
    \/ /\ objects[b][k] = NoObject
       /\ UNCHANGED <<objects, lastVersion>>
    \/ /\ objects[b][k] # NoObject
       /\ versioning[b] = "Enabled"
       /\ Put(b, k, DeleteMarker)
    \/ /\ objects[b][k] # NoObject
       /\ versioning[b] # "Enabled"
       /\ objects' = [objects EXCEPT ![b][k] = 
           Shrink([data |-> NoData, versions |-> @.versions])]
       /\ UNCHANGED lastVersion

\* Bug: leave the key in bucket.objects when its last version goes.
WithoutKept(o, id) ==
    IF o.data # NoData /\ o.data.id = id THEN [o EXCEPT !.data = NoData]
    ELSE [o EXCEPT !.versions = {v \in @ : v.id # id}]

\* An object without the version: no archived version replaces the current one.
Without(o, id) ==
    IF o.data # NoData /\ o.data.id = id
    THEN Shrink([data |-> NoData, versions |-> o.versions])
    ELSE Shrink([data |-> o.data, versions |-> {v \in o.versions : v.id # id}])

\* bucket.rmVersion: an unknown key or version is not an error.
RmVersion(b, k, id) ==
    /\ objects' = IF objects[b][k] = NoObject THEN objects
                  ELSE [objects EXCEPT ![b][k] = Without(@, id)]
    /\ UNCHANGED lastVersion

-----------------------------------------------------------------------------
(* Operations of one critical section.                                     *)

\* Bug: every bucket numbers its versions from the start.
CreateBucketRenumbering(b) ==
    /\ Unlocked /\ ~Exists(b)
    /\ versioning' = [versioning EXCEPT ![b] = "None"]
    /\ lastVersion' = 0
    /\ UNCHANGED <<objects, lock, call, acked>>

CreateBucket(b) ==
    /\ Unlocked /\ ~Exists(b)
    /\ versioning' = [versioning EXCEPT ![b] = "None"]
    /\ UNCHANGED <<objects, lastVersion, lock, call, acked>>

\* Bug: with its last bucket the database starts to count from the beginning.
DropBucketRestarting(b) ==
    /\ versioning' = [versioning EXCEPT ![b] = "Absent"]
    /\ objects' = [objects EXCEPT ![b] = [k \in Keys |-> NoObject]]
    /\ lastVersion' = IF \E other \in Buckets \ {b} : Exists(other) THEN lastVersion ELSE 0
    /\ UNCHANGED <<lock, call, acked>>

\* The bucket and all it stores leave db.buckets; what its clients were told stays said.
DropBucket(b) ==
    /\ versioning' = [versioning EXCEPT ![b] = "Absent"]
    /\ objects' = [objects EXCEPT ![b] = [k \in Keys |-> NoObject]]
    /\ UNCHANGED <<lastVersion, lock, call, acked>>

DeleteBucket(b) ==
    /\ Unlocked /\ Exists(b)
    /\ \A k \in Keys : objects[b][k] = NoObject
    /\ DropBucket(b)

ForceDeleteBucket(b) ==
    /\ Unlocked /\ Exists(b)
    /\ DropBucket(b)

\* Bug: suspending makes the bucket look as if it had never been versioned.
SetVersioningNone(b, enabled) ==
    /\ Unlocked /\ Exists(b)
    /\ versioning' = [versioning EXCEPT ![b] = IF enabled THEN "Enabled" ELSE "None"]
    /\ UNCHANGED <<objects, lastVersion, lock, call, acked>>

\* A request with MFA delete is refused before the lock.
SetVersioningConfiguration(b, enabled) ==
    /\ Unlocked /\ Exists(b)
    /\ versioning' = [versioning EXCEPT ![b] =
           IF enabled THEN "Enabled" ELSE IF @ = "Enabled" THEN "Suspended" ELSE @]
    /\ UNCHANGED <<objects, lastVersion, lock, call, acked>>

DeleteObject(b, k) ==
    /\ Unlocked /\ Exists(b)
    /\ Rm(b, k)
    /\ UNCHANGED <<versioning, lock, call, acked>>

DeleteObjectVersion(b, k, id) ==
    /\ Unlocked /\ Exists(b)
    /\ RmVersion(b, k, id)
    /\ UNCHANGED <<versioning, lock, call, acked>>

-----------------------------------------------------------------------------
(* PutObject and CopyObject.                                               *)

Begin(c, new) ==
    /\ call[c] = Idle
    /\ call' = [call EXCEPT ![c] = new]
    /\ UNCHANGED <<versioning, objects, lastVersion, lock, acked>>

\* The body is read into memory before any lock.
PutObject(c, b, k, body, meta) ==
    Begin(c, [step |-> "merge", bucket |-> b, key |-> k, body |-> body, meta |-> meta])

\* The handler reads the source's metadata with HeadObject before it copies.
CopyObject(c, sb, sk, b, k, meta) ==
    /\ Unlocked
    /\ GetObject(sb, sk) = "ok"
    /\ Begin(c, [step |-> "copy", srcBucket |-> sb, srcKey |-> sk, bucket |-> b, key |-> k,
                 meta |-> Merge(meta, objects[sb][sk].data.meta)])

\* backend.go CopyObject: the body comes from a second read of the source.
CopyRead(c) ==
    /\ Unlocked /\ call[c].step = "copy"
    /\ LET src == objects[call[c].srcBucket][call[c].srcKey] IN
       call' = [call EXCEPT ![c] =
           IF GetObject(@.srcBucket, @.srcKey) = "ok"
           THEN [step |-> "merge", bucket |-> @.bucket, key |-> @.key,
                 body |-> src.data.body, meta |-> @.meta]
           ELSE Idle]
    /\ UNCHANGED <<versioning, objects, lastVersion, lock, acked>>

\* Bug: the existing metadata overrides the metadata of the request.
MergeMetadataOverriding(c) ==
    /\ Unlocked /\ call[c].step = "merge"
    /\ LET found == GetObject(call[c].bucket, call[c].key)
           cur   == objects[call[c].bucket][call[c].key] IN
       call' = [call EXCEPT ![c] =
           IF found = "panic" THEN Idle
           ELSE [step |-> "put", bucket |-> @.bucket, key |-> @.key, body |-> @.body,
                 meta |-> IF found = "ok" THEN Merge(cur.data.meta, @.meta) ELSE @.meta,
                 asked |-> @.meta,
                 seen |-> IF found = "ok" THEN cur.data.id ELSE 0]]
    /\ UNCHANGED <<versioning, objects, lastVersion, lock, acked>>

\* No error of GetObject is returned: a missing bucket is noticed by the put.
MergeMetadata(c) ==
    /\ Unlocked /\ call[c].step = "merge"
    /\ LET found == GetObject(call[c].bucket, call[c].key)
           cur   == objects[call[c].bucket][call[c].key] IN
       call' = [call EXCEPT ![c] =
           IF found = "panic" THEN Idle
           ELSE [step |-> "put", bucket |-> @.bucket, key |-> @.key, body |-> @.body,
                 meta |-> IF found = "ok" THEN Merge(@.meta, cur.data.meta) ELSE @.meta,
                 asked |-> @.meta,
                 seen |-> IF found = "ok" THEN cur.data.id ELSE 0]]
    /\ UNCHANGED <<versioning, objects, lastVersion, lock, acked>>

\* The locked half of PutObject; the version ID is returned only when Enabled.
PutCommit(c) ==
    /\ Unlocked /\ call[c].step = "put"
    /\ call' = [call EXCEPT ![c] = Idle]
    /\ LET b == call[c].bucket
           k == call[c].key
           item == [id |-> NextVersion, body |-> call[c].body, meta |-> call[c].meta,
                    deleteMarker |-> FALSE] IN
       \/ /\ ~Exists(b)
          /\ UNCHANGED <<objects, lastVersion, acked>>
       \/ /\ Exists(b)
          /\ Put(b, k, item)
          /\ acked' = IF versioning[b] = "Enabled"
                      THEN acked \cup {[bucket |-> b, key |-> k, version |-> item]}
                      ELSE acked
    /\ UNCHANGED <<versioning, lock>>

-----------------------------------------------------------------------------
(* DeleteMulti and DeleteMultiVersions.                                    *)

Batches == UNION {[1..n -> [key : Keys, id : 0..lastVersion]] : n \in 1..MaxBatch}

DeleteMultiVersions(c, b, batch) ==
    /\ Unlocked /\ Exists(b)
    /\ call[c] = Idle
    /\ lastVersion + Len(batch) <= MaxVersion   \* a bound, so that the batch can end
    /\ lock' = c
    /\ call' = [call EXCEPT ![c] = [step |-> "delete", bucket |-> b, batch |-> batch]]
    /\ UNCHANGED <<versioning, objects, lastVersion, acked>>

\* The next entry of the batch: rmVersion if it has a version ID, rm if not.
\* The lock is released after the last one.
DeleteNext(c) ==
    /\ lock = c /\ call[c].step = "delete"
    /\ LET b == call[c].bucket
           e == Head(call[c].batch)
           rest == Tail(call[c].batch) IN
       /\ \/ e.id = 0 /\ Rm(b, e.key)
          \/ e.id # 0 /\ RmVersion(b, e.key, e.id)
       /\ call' = [call EXCEPT ![c] =
              IF rest = <<>> THEN Idle ELSE [step |-> "delete", bucket |-> b, batch |-> rest]]
       /\ lock' = IF rest = <<>> THEN NoClient ELSE lock
    /\ UNCHANGED <<versioning, acked>>

-----------------------------------------------------------------------------

Init ==
    /\ versioning = [b \in Buckets |-> "Absent"]
    /\ objects = [b \in Buckets |-> [k \in Keys |-> NoObject]]
    /\ lastVersion = 0
    /\ lock = NoClient
    /\ call = [c \in Clients |-> Idle]
    /\ acked = {}

BucketNext ==
    \E b \in Buckets :
        \/ CreateBucket(b)
        \/ DeleteBucket(b)
        \/ ForceDeleteBucket(b)
        \/ \E enabled \in BOOLEAN : SetVersioningConfiguration(b, enabled)
        \/ \E k \in Keys : DeleteObject(b, k)
        \/ \E k \in Keys, id \in 1..lastVersion : DeleteObjectVersion(b, k, id)

CallNext ==
    \E c \in Clients :
        \/ \E b \in Buckets, k \in Keys :
              \/ \E body \in Bodies, meta \in Metas \cup {NoMeta} : PutObject(c, b, k, body, meta)
              \/ \E sb \in Buckets, sk \in Keys, meta \in Metas \cup {NoMeta} :
                    CopyObject(c, sb, sk, b, k, meta)
        \/ \E b \in Buckets, batch \in Batches : DeleteMultiVersions(c, b, batch)
        \/ CopyRead(c)
        \/ MergeMetadata(c)
        \/ PutCommit(c)
        \/ DeleteNext(c)

Next == BucketNext \/ CallNext

Spec == Init /\ [][Next]_vars

-----------------------------------------------------------------------------
(* Safety.                                                                 *)

\* A version ID names one version in the whole database: versions of different
\* buckets or keys never share one, nor do two of the same key.  GetObjectVersion
\* and the version-id-marker of ListBucketVersions rely on it.
VersionIdsUnique ==
    \A b1, b2 \in Buckets : \A k1, k2 \in Keys :
        \A v \in VersionsAt(b1, k1) : \A w \in VersionsAt(b2, k2) :
            v.id = w.id => b1 = b2 /\ k1 = k2 /\ v = w

\* The current version is newer than every archived one, in every versioning
\* status and after any deletions: bucketObjectIterator walks the archive in ID
\* order and the current version last, so this is what makes its walk, and the
\* pages that ListBucketVersions cuts from it, list each version once and in the
\* order of writing.
CurrentIsNewest ==
    \A b \in Buckets, k \in Keys :
        objects[b][k] # NoObject /\ objects[b][k].data # NoData =>
            \A v \in objects[b][k].versions : v.id < objects[b][k].data.id

\* A key is in bucket.objects only if a version of it is stored: DeleteBucket
\* decides on objects.Len(), so an empty leftover would make a bucket with
\* nothing in it undeletable, and one that is missing would let data go.
NoEmptyObject ==
    \A b \in Buckets, k \in Keys : objects[b][k] # NoObject => VersionsAt(b, k) # {}

\* As long as versioning was never enabled on a bucket, it archives nothing, has
\* no delete markers, and a stored key has a current version: GetObject,
\* HeadObject and the merge of PutObject cannot reach their nil dereference.
NeverVersionedIsPlain ==
    \A b \in Buckets, k \in Keys :
        versioning[b] = "None" /\ objects[b][k] # NoObject =>
            /\ objects[b][k].versions = {}
            /\ GetObject(b, k) = "ok"

\* A version ID that a client was ever given never comes to name other content,
\* another key or another bucket, though the version was overwritten, deleted by its
\* ID or lost with its bucket, and the bucket created again: a client that kept the
\* ID reads its version or none.
AckedNamesOneVersion ==
    \A a \in acked : \A b \in Buckets, k \in Keys : \A v \in VersionsAt(b, k) :
        v.id = a.version.id => a = [bucket |-> b, key |-> k, version |-> v]

\* PutObject merges metadata in one critical section and stores in another.  If
\* the version it merged from is still current when it stores, the new metadata
\* is the request's over that version's: only a racing write can make it stale.
UnracedMerge ==
    \A c \in Clients : call[c].step = "put" =>
        LET o == objects[call[c].bucket][call[c].key] IN
        o # NoObject /\ o.data # NoData /\ o.data.id = call[c].seen
            => call[c].meta = Merge(call[c].asked, o.data.meta)

-----------------------------------------------------------------------------
(* Action properties.                                                      *)

RemovesById(b, k, id) ==
    \/ DeleteObjectVersion(b, k, id)
    \/ \E c \in Clients :
          /\ DeleteNext(c)
          /\ call[c].bucket = b
          /\ Head(call[c].batch) = [key |-> k, id |-> id]

\* A stored version disappears only with its bucket, when a delete names its ID,
\* or when it is the current version of a bucket that is not Enabled.  Put and
\* DeleteObject on an Enabled bucket keep everything, and no operation of any
\* status drops an archived version it was not asked to.
VersionsLeaveOnlyWhenAsked ==
    [][\A b \in Buckets, k \in Keys : \A v \in VersionsAt(b, k) \ VersionsAt(b, k)' :
          \/ versioning'[b] = "Absent"
          \/ versioning[b] # "Enabled" /\ v = objects[b][k].data
          \/ RemovesById(b, k, v.id)]_vars

\* A version that appears is new: its ID was never issued before.  Nothing
\* deleted comes back, and no stored version changes its content or its key.
VersionsAreFresh ==
    [][\A b \in Buckets, k \in Keys : \A v \in VersionsAt(b, k)' \ VersionsAt(b, k) :
          lastVersion < v.id /\ v.id <= lastVersion']_vars

-----------------------------------------------------------------------------
(* Documented behaviour that the code does not have.                       *)

\* "GetObject must return a gofakes3.ErrNoSuchKey error if the object does not
\* exist" (src/backend.go:188): it always ends with an object or an error.
GetObjectReturns ==
    \A b \in Buckets, k \in Keys : GetObject(b, k) # "panic"

\* "If versioning has been enabled on a bucket, but subsequently suspended,
\* GetObjectVersion should still return the object version" (src/backend.go:273):
\* a version whose ID a client was given is returned until a delete names the ID or
\* the bucket goes.
AckedVersionsRetrievable ==
    [][\A a \in acked :
          LET returned == GetObjectVersion(a.bucket, a.key, a.version.id) = a.version IN
          returned /\ ~returned' =>
              \/ versioning'[a.bucket] = "Absent"
              \/ RemovesById(a.bucket, a.key, a.version.id)]_vars

=============================================================================
