------------------------------- MODULE S3Bolt -------------------------------
(***************************************************************************)
(* The backend that keeps its objects in a bolt database,                  *)
(* src/backend/s3bolt/backend.go and schema.go, with the helpers           *)
(* CopyObject and MergeMetadata of src/backend.go.                         *)
(*                                                                         *)
(* An S3 bucket is a bolt bucket; a further bolt bucket, _meta, has the    *)
(* creation date of each.  bolt (external) runs one writing transaction at *)
(* a time, undoes it when its function returns an error, and shows readers *)
(* the last one that committed.  So a transaction is one action, one that  *)
(* fails changes nothing, and a restart finds some state of `data`,        *)
(* `metaBucket` and `dates` again: the initial states are any database.    *)
(***************************************************************************)
EXTENDS Naturals

CONSTANTS
    Buckets,    \* bucket names
    Keys,       \* object keys
    Clients,    \* concurrent requests
    Bodies,     \* object contents
    Metas,      \* values of one metadata header
    Dates,      \* what the time source may say
    NoMeta,     \* the header is not in the metadata map
    NoObject,   \* the key is not in the bolt bucket
    NoBucket,   \* there is no such bolt bucket
    NoDate,     \* the bucket has no metadata
    NoWrite     \* the client is not writing

VARIABLES
    data,        \* the bolt bucket of each S3 bucket
    metaBucket,  \* the _meta bucket exists
    dates,       \* the entries bucket/<name> of _meta
    call         \* what each client's call has left to do, with its locals

vars == <<data, metaBucket, dates, call>>

-----------------------------------------------------------------------------
(* Types.                                                                  *)

Headers == Metas \cup {NoMeta}

boltObject == [body : Bodies, meta : Headers]

Contents == [Keys -> boltObject \cup {NoObject}]

\* A CopyObject past the handler's HeadObject.
CopyCall == [step : {"copy"}, srcBucket : Buckets, srcKey : Keys,
             bucket : Buckets, key : Keys, meta : Headers]

\* A PutObject that has read its body; then, one that has merged its metadata.
PutCall == [step : {"merge", "put"}, bucket : Buckets, key : Keys,
            body : Bodies, meta : Headers]

\* The nil values are not values of what they are missing from.
ASSUME BoltAssumption ==
    /\ NoObject \notin boltObject
    /\ NoBucket \notin Contents
    /\ NoWrite \notin CopyCall \cup PutCall
    /\ NoDate \notin Dates

BoltTypeOK ==
    /\ data \in [Buckets -> Contents \cup {NoBucket}]
    /\ metaBucket \in BOOLEAN
    /\ dates \in [Buckets -> Dates \cup {NoDate}]
    /\ call \in [Clients -> CopyCall \cup PutCall \cup {NoWrite}]

-----------------------------------------------------------------------------
(* Buckets.                                                                *)

Exists(b) == data[b] # NoBucket

\* createS3Bucket and deleteS3Bucket; a writing transaction makes the _meta bucket.
CreateS3Bucket(b, date) ==
    /\ metaBucket' = TRUE
    /\ dates' = [dates EXCEPT ![b] = date]

DeleteS3Bucket(b) ==
    /\ metaBucket' = TRUE
    /\ dates' = [dates EXCEPT ![b] = NoDate]

\* Bug: keep what was written before the bucket was found to exist.
CreateBucketKeepsDate(b, date) ==
    /\ CreateS3Bucket(b, date)
    /\ data' = [data EXCEPT ![b] = IF @ = NoBucket THEN [k \in Keys |-> NoObject] ELSE @]
    /\ UNCHANGED call

\* The date is written first, and undone if the bucket exists.
CreateBucket(b, date) ==
    /\ ~Exists(b)
    /\ CreateS3Bucket(b, date)
    /\ data' = [data EXCEPT ![b] = [k \in Keys |-> NoObject]]
    /\ UNCHANGED call

RemoveBucket(b) ==
    /\ DeleteS3Bucket(b)
    /\ data' = [data EXCEPT ![b] = NoBucket]
    /\ UNCHANGED call

DeleteBucket(b) ==
    /\ Exists(b) /\ \A k \in Keys : data[b][k] = NoObject
    /\ RemoveBucket(b)

\* Bug: leave the metadata of the bucket.
ForceDeleteBucketKeepsDate(b) ==
    /\ Exists(b)
    /\ data' = [data EXCEPT ![b] = NoBucket]
    /\ UNCHANGED <<metaBucket, dates, call>>

ForceDeleteBucket(b) == Exists(b) /\ RemoveBucket(b)

\* The creation dates that ListBuckets may report: now, for a bucket without
\* metadata or a database without a _meta bucket.
ListBuckets ==
    [b \in {c \in Buckets : Exists(c)} |->
        IF metaBucket /\ dates[b] # NoDate THEN {dates[b]} ELSE Dates]

-----------------------------------------------------------------------------
(* Objects.                                                                *)

\* How HeadObject and GetObject end.
GetObject(b, k) ==
    CASE ~Exists(b)                             -> "NoSuchBucket"
      [] Exists(b) /\ data[b][k] = NoObject     -> "NoSuchKey"
      [] OTHER                                  -> "ok"

\* A header the new metadata lacks is carried over from the existing metadata.
Merge(new, existing) == IF new = NoMeta THEN existing ELSE new

\* ReadAll has read the body; had it failed, nothing would have happened.
PutObject(c, b, k, body, meta) ==
    /\ call[c] = NoWrite
    /\ call' = [call EXCEPT ![c] =
           [step |-> "merge", bucket |-> b, key |-> k, body |-> body, meta |-> meta]]
    /\ UNCHANGED <<data, metaBucket, dates>>

\* A transaction of its own reads the object that is about to be replaced; that
\* there is no such object or bucket is no error.
MergeMetadata(c) ==
    LET w == call[c] IN
    /\ w # NoWrite /\ w.step = "merge"
    /\ call' = [call EXCEPT ![c] =
           [step |-> "put", bucket |-> w.bucket, key |-> w.key, body |-> w.body,
            meta |-> IF GetObject(w.bucket, w.key) = "ok"
                     THEN Merge(w.meta, data[w.bucket][w.key].meta) ELSE w.meta]]
    /\ UNCHANGED <<data, metaBucket, dates>>

\* Bug: make the bucket that is gone.
PutMakesBucket(c) ==
    LET w == call[c] IN
    /\ w # NoWrite /\ w.step = "put"
    /\ data' = [data EXCEPT ![w.bucket] = [k \in Keys |->
           IF k = w.key THEN [body |-> w.body, meta |-> w.meta]
           ELSE IF @ = NoBucket THEN NoObject ELSE @[k]]]
    /\ call' = [call EXCEPT ![c] = NoWrite]
    /\ UNCHANGED <<metaBucket, dates>>

\* The second transaction, which finds out whether the bucket is still there.
Put(c) ==
    LET w == call[c] IN
    /\ w # NoWrite /\ w.step = "put"
    /\ data' = IF Exists(w.bucket)
               THEN [data EXCEPT ![w.bucket][w.key] = [body |-> w.body, meta |-> w.meta]]
               ELSE data
    /\ call' = [call EXCEPT ![c] = NoWrite]
    /\ UNCHANGED <<metaBucket, dates>>

\* The handler's HeadObject of the source.
CopyObject(c, sb, sk, b, k, meta) ==
    /\ call[c] = NoWrite
    /\ GetObject(sb, sk) = "ok"
    /\ call' = [call EXCEPT ![c] =
           [step |-> "copy", srcBucket |-> sb, srcKey |-> sk, bucket |-> b, key |-> k,
            meta |-> Merge(meta, data[sb][sk].meta)]]
    /\ UNCHANGED <<data, metaBucket, dates>>

\* The helper's GetObject has the contents in memory when it returns.
CopyRead(c) ==
    LET r == call[c] IN
    /\ r # NoWrite /\ r.step = "copy"
    /\ call' = [call EXCEPT ![c] =
           IF GetObject(r.srcBucket, r.srcKey) = "ok"
           THEN [step |-> "merge", bucket |-> r.bucket, key |-> r.key,
                 body |-> data[r.srcBucket][r.srcKey].body, meta |-> r.meta]
           ELSE NoWrite]
    /\ UNCHANGED <<data, metaBucket, dates>>

\* DeleteObject and DeleteMulti: all of the keys in one transaction.
DeleteMulti(b, ks) ==
    /\ Exists(b)
    /\ data' = [data EXCEPT ![b] = [k \in Keys |-> IF k \in ks THEN NoObject ELSE @[k]]]
    /\ UNCHANGED <<metaBucket, dates, call>>

-----------------------------------------------------------------------------
(* The specification.                                                      *)

\* A legacy database has no _meta bucket, or buckets without metadata.
Init ==
    /\ data \in [Buckets -> Contents \cup {NoBucket}]
    /\ metaBucket \in BOOLEAN
    /\ dates \in [Buckets -> Dates \cup {NoDate}]
    /\ \A b \in Buckets : dates[b] # NoDate => metaBucket /\ Exists(b)
    /\ call = [c \in Clients |-> NoWrite]

Next ==
    \/ \E b \in Buckets, date \in Dates : CreateBucket(b, date)
    \/ \E b \in Buckets : DeleteBucket(b) \/ ForceDeleteBucket(b)
    \/ \E b \in Buckets, ks \in SUBSET Keys : DeleteMulti(b, ks)
    \/ \E c \in Clients, b \in Buckets, k \in Keys, meta \in Headers :
          \/ \E body \in Bodies : PutObject(c, b, k, body, meta)
          \/ \E sb \in Buckets, sk \in Keys : CopyObject(c, sb, sk, b, k, meta)
    \/ \E c \in Clients : MergeMetadata(c) \/ Put(c) \/ CopyRead(c)

Spec == Init /\ [][Next]_vars

-----------------------------------------------------------------------------
(* Properties.                                                             *)

Store == INSTANCE ObjectStore WITH store <- data, pending <- call

\* The database is the object store the interface promises: its transactions are
\* each one step of it, although a put is two of them and the bucket may be
\* deleted, and created again, between them.
ImplementsStore == Store!StoreSpec

\* A bucket gets a creation date with which it is listed for as long as it lives,
\* whoever tries to create it again; a bucket of an older database has none, and
\* what an earlier bucket of the name left is not taken for it.
DatedForLife ==
    [][\A b \in Buckets :
          data'[b] # NoBucket =>
              IF Exists(b) THEN ListBuckets'[b] = ListBuckets[b]
              ELSE \E date \in Dates : ListBuckets'[b] = {date}]_vars

\* There is metadata of existing buckets only, and only in a _meta bucket.
NoStrayMetadata ==
    \A b \in Buckets : dates[b] # NoDate => metaBucket /\ Exists(b)

=============================================================================
