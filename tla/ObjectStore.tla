----------------------------- MODULE ObjectStore -----------------------------
(***************************************************************************)
(* What the Backend interface of src/backend.go promises to clients that   *)
(* ask for no versions: a map from the keys of a bucket to objects, in     *)
(* which each write shows at once.                                         *)
(*                                                                         *)
(* A write is two steps, since MergeMetadata reads the object that it      *)
(* replaces before the backend stores the new one, and a copy is four: the *)
(* metadata of the source, then its body, then the write.  Nothing is      *)
(* promised about what other clients do in between.                        *)
(***************************************************************************)

CONSTANTS
    Buckets, Keys, Clients, Bodies, Metas,
    NoMeta,      \* the header is not in the metadata map
    NoObject,    \* the key has no object
    NoBucket,    \* the bucket does not exist
    NoWrite      \* the client is not writing

VARIABLES
    store,    \* what a read of each key of each bucket finds
    pending   \* the write each client has under way

storeVars == <<store, pending>>

Headers == Metas \cup {NoMeta}

Stored == [body : Bodies, meta : Headers]

Write == [step : {"merge", "put"}, bucket : Buckets, key : Keys, body : Bodies, meta : Headers]

Copy == [step : {"copy"}, srcBucket : Buckets, srcKey : Keys,
         bucket : Buckets, key : Keys, meta : Headers]

StoreTypeOK ==
    /\ store \in [Buckets -> [Keys -> Stored \cup {NoObject}] \cup {NoBucket}]
    /\ pending \in [Clients -> Write \cup Copy \cup {NoWrite}]

Visible(b, k) == store[b] # NoBucket /\ store[b][k] # NoObject

Over(new, existing) == IF new = NoMeta THEN existing ELSE new

-----------------------------------------------------------------------------

CreateBucketIn(b) ==
    /\ store[b] = NoBucket
    /\ store' = [store EXCEPT ![b] = [k \in Keys |-> NoObject]]
    /\ UNCHANGED pending

\* A plain or a forced deletion.
DropBucketOf(b) ==
    /\ store[b] # NoBucket
    /\ store' = [store EXCEPT ![b] = NoBucket]
    /\ UNCHANGED pending

\* The keys of a deletion that go at once, of which a read found some object.
Vanish(b, ks) ==
    /\ store[b] # NoBucket
    /\ \E k \in ks : Visible(b, k)
    /\ store' = [store EXCEPT ![b] = [k \in Keys |-> IF k \in ks THEN NoObject ELSE store[b][k]]]
    /\ UNCHANGED pending

BeginWrite(c, b, k, body, meta) ==
    /\ pending[c] = NoWrite
    /\ pending' = [pending EXCEPT ![c] =
           [step |-> "merge", bucket |-> b, key |-> k, body |-> body, meta |-> meta]]
    /\ UNCHANGED store

\* A copy starts with the metadata of an object that is there.
BeginCopy(c, sb, sk, b, k, meta) ==
    /\ pending[c] = NoWrite
    /\ Visible(sb, sk)
    /\ pending' = [pending EXCEPT ![c] =
           [step |-> "copy", srcBucket |-> sb, srcKey |-> sk, bucket |-> b, key |-> k,
            meta |-> Over(meta, store[sb][sk].meta)]]
    /\ UNCHANGED store

\* What a copy writes is the body of its source, whole and of one moment.
FetchBody(c) ==
    /\ pending[c] # NoWrite /\ pending[c].step = "copy"
    /\ Visible(pending[c].srcBucket, pending[c].srcKey)
    /\ pending' = [pending EXCEPT ![c] =
           [step |-> "merge", bucket |-> pending[c].bucket, key |-> pending[c].key,
            body |-> store[pending[c].srcBucket][pending[c].srcKey].body,
            meta |-> pending[c].meta]]
    /\ UNCHANGED store

\* The metadata of the object under the key, if there is one, completes that of
\* the request.
Inherit(c) ==
    LET w == pending[c] IN
    /\ w # NoWrite /\ w.step = "merge"
    /\ pending' = [pending EXCEPT ![c] =
           [step |-> "put", bucket |-> w.bucket, key |-> w.key, body |-> w.body,
            meta |-> IF Visible(w.bucket, w.key)
                     THEN Over(w.meta, store[w.bucket][w.key].meta) ELSE w.meta]]
    /\ UNCHANGED store

\* The new object replaces the old one as a whole.
Commit(c) ==
    LET w == pending[c] IN
    /\ w # NoWrite /\ w.step = "put"
    /\ store[w.bucket] # NoBucket
    /\ store' = [store EXCEPT ![w.bucket] =
           [store[w.bucket] EXCEPT ![w.key] = [body |-> w.body, meta |-> w.meta]]]
    /\ pending' = [pending EXCEPT ![c] = NoWrite]

\* A write fails, and leaves the store as it was, only when the source of the
\* copy or the bucket to write to is gone, or when it has no object to merge with:
\* a write to a bucket that exists is never lost once it has merged.
Fail(c) ==
    LET w == pending[c] IN
    /\ w # NoWrite
    /\ \/ w.step = "copy" /\ ~Visible(w.srcBucket, w.srcKey)
       \/ w.step = "merge" /\ ~Visible(w.bucket, w.key)
       \/ w.step = "put" /\ store[w.bucket] = NoBucket
    /\ pending' = [pending EXCEPT ![c] = NoWrite]
    /\ UNCHANGED store

-----------------------------------------------------------------------------

\* A store may be opened with objects in it.
StoreInit ==
    /\ store \in [Buckets -> [Keys -> Stored \cup {NoObject}] \cup {NoBucket}]
    /\ pending = [c \in Clients |-> NoWrite]

StoreNext ==
    \/ \E b \in Buckets : CreateBucketIn(b) \/ DropBucketOf(b)
    \/ \E b \in Buckets, ks \in SUBSET Keys : Vanish(b, ks)
    \/ \E c \in Clients, b \in Buckets, k \in Keys, meta \in Headers :
          \/ \E body \in Bodies : BeginWrite(c, b, k, body, meta)
          \/ \E sb \in Buckets, sk \in Keys : BeginCopy(c, sb, sk, b, k, meta)
    \/ \E c \in Clients : FetchBody(c) \/ Inherit(c) \/ Commit(c) \/ Fail(c)

StoreSpec == StoreInit /\ [][StoreNext]_storeVars

=============================================================================
