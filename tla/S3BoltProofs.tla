---------------------------- MODULE S3BoltProofs ----------------------------
(***************************************************************************)
(* The bolt backend implements the object store, and keeps the metadata of *)
(* its buckets in step with them, for any buckets, keys, clients, bodies   *)
(* and headers.                                                            *)
(*                                                                         *)
(* The inductive invariant is BoltTypeOK with NoStrayMetadata: the types   *)
(* are needed to know that a step of a call changes its field of `call`,   *)
(* and that a created bucket has no date of an earlier one.                *)
(***************************************************************************)
EXTENDS S3Bolt, TLAPS

Inv == BoltTypeOK /\ NoStrayMetadata

\* A merged header is one of the two.
LEMMA MergeType ==
    ASSUME NEW new \in Headers, NEW existing \in Headers
    PROVE  Merge(new, existing) \in Headers
BY DEF Merge

\* The object that a successful GetObject finds.
LEMMA FoundType ==
    ASSUME BoltTypeOK, NEW b \in Buckets, NEW k \in Keys, GetObject(b, k) = "ok"
    PROVE  /\ data[b] # NoBucket /\ data[b][k] # NoObject
           /\ data[b][k] \in boltObject
BY DEF BoltTypeOK, GetObject, Exists, Contents

-----------------------------------------------------------------------------

LEMMA InitInv == Init => Inv
BY DEF Init, Inv, BoltTypeOK, NoStrayMetadata

LEMMA NextInv == Inv /\ [Next]_vars => Inv'
<1> SUFFICES ASSUME Inv, [Next]_vars PROVE Inv'
  OBVIOUS
<1> USE DEF Inv, BoltTypeOK, NoStrayMetadata, Exists
<1>1. ASSUME NEW b \in Buckets, NEW date \in Dates, CreateBucket(b, date) PROVE Inv'
  BY <1>1, BoltAssumption DEF CreateBucket, CreateS3Bucket, Contents
<1>2. ASSUME NEW b \in Buckets, DeleteBucket(b) \/ ForceDeleteBucket(b) PROVE Inv'
  BY <1>2, BoltAssumption DEF DeleteBucket, ForceDeleteBucket, RemoveBucket, DeleteS3Bucket
<1>3. ASSUME NEW b \in Buckets, NEW ks \in SUBSET Keys, DeleteMulti(b, ks) PROVE Inv'
  BY <1>3, BoltAssumption DEF DeleteMulti, Contents
<1>4. ASSUME NEW c \in Clients, NEW b \in Buckets, NEW k \in Keys, NEW meta \in Headers,
             NEW body \in Bodies, PutObject(c, b, k, body, meta)
      PROVE  Inv'
  <2>1. [step |-> "merge", bucket |-> b, key |-> k, body |-> body, meta |-> meta] \in PutCall
    BY DEF PutCall
  <2>2. call' \in [Clients -> CopyCall \cup PutCall \cup {NoWrite}]
    BY <1>4, <2>1 DEF PutObject
  <2> QED
    BY <1>4, <2>2 DEF PutObject
<1>5. ASSUME NEW c \in Clients, NEW b \in Buckets, NEW k \in Keys, NEW meta \in Headers,
             NEW sb \in Buckets, NEW sk \in Keys, CopyObject(c, sb, sk, b, k, meta)
      PROVE  Inv'
  <2>1. Merge(meta, data[sb][sk].meta) \in Headers
    BY <1>5, FoundType, MergeType DEF CopyObject, boltObject
  <2>2. [step |-> "copy", srcBucket |-> sb, srcKey |-> sk, bucket |-> b, key |-> k,
         meta |-> Merge(meta, data[sb][sk].meta)] \in CopyCall
    BY <2>1 DEF CopyCall
  <2>3. call' \in [Clients -> CopyCall \cup PutCall \cup {NoWrite}]
    BY <1>5, <2>2 DEF CopyObject
  <2> QED
    BY <1>5, <2>3 DEF CopyObject
<1>6. ASSUME NEW c \in Clients, MergeMetadata(c) PROVE Inv'
  <2> DEFINE w == call[c]
             meta == IF GetObject(w.bucket, w.key) = "ok"
                     THEN Merge(w.meta, data[w.bucket][w.key].meta) ELSE w.meta
  <2>1. w \in PutCall
    BY <1>6 DEF MergeMetadata, CopyCall
  <2>2. meta \in Headers
    BY <2>1, FoundType, MergeType DEF PutCall, boltObject
  <2>3. [step |-> "put", bucket |-> w.bucket, key |-> w.key, body |-> w.body, meta |-> meta]
           \in PutCall
    BY <2>1, <2>2 DEF PutCall
  <2>4. call' \in [Clients -> CopyCall \cup PutCall \cup {NoWrite}]
    BY <1>6, <2>3 DEF MergeMetadata
  <2> QED
    BY <1>6, <2>4 DEF MergeMetadata
<1>7. ASSUME NEW c \in Clients, Put(c) PROVE Inv'
  <2>1. call[c] \in PutCall
    BY <1>7 DEF Put, CopyCall
  <2>2. [body |-> call[c].body, meta |-> call[c].meta] \in boltObject
    BY <2>1 DEF PutCall, boltObject
  <2>3. call[c].bucket \in Buckets /\ call[c].key \in Keys
    BY <2>1 DEF PutCall
  <2>4. data' \in [Buckets -> Contents \cup {NoBucket}]
    BY <1>7, <2>2, <2>3 DEF Put, Contents
  <2>5. \A b \in Buckets : data'[b] = NoBucket => data[b] = NoBucket
    BY <1>7, <2>2, <2>3, BoltAssumption DEF Put, Contents
  <2>6. call' \in [Clients -> CopyCall \cup PutCall \cup {NoWrite}]
    BY <1>7 DEF Put
  <2> QED
    BY <1>7, <2>4, <2>5, <2>6 DEF Put
<1>8. ASSUME NEW c \in Clients, CopyRead(c) PROVE Inv'
  <2> DEFINE r == call[c]
  <2>1. r \in CopyCall
    BY <1>8 DEF CopyRead, PutCall
  <2>2. GetObject(r.srcBucket, r.srcKey) = "ok" =>
            [step |-> "merge", bucket |-> r.bucket, key |-> r.key,
             body |-> data[r.srcBucket][r.srcKey].body, meta |-> r.meta] \in PutCall
    BY <2>1, FoundType DEF CopyCall, PutCall, boltObject
  <2>3. call' \in [Clients -> CopyCall \cup PutCall \cup {NoWrite}]
    BY <1>8, <2>2 DEF CopyRead
  <2> QED
    BY <1>8, <2>3 DEF CopyRead
<1>9. CASE UNCHANGED vars
  BY <1>9 DEF vars
<1> QED
  BY <1>1, <1>2, <1>3, <1>4, <1>5, <1>6, <1>7, <1>8, <1>9 DEF Next

\* Every database, also one of an older version, stays well formed.
THEOREM BoltTypeCorrect == Spec => []BoltTypeOK
<1>1. Inv => BoltTypeOK
  BY DEF Inv
<1> QED
  BY InitInv, NextInv, <1>1, PTL DEF Spec

\* DeleteBucket and ForceDeleteBucket leave no metadata behind.
THEOREM MetadataHasBucket == Spec => []NoStrayMetadata
<1>1. Inv => NoStrayMetadata
  BY DEF Inv
<1> QED
  BY InitInv, NextInv, <1>1, PTL DEF Spec

-----------------------------------------------------------------------------
(* The refinement.                                                         *)

LEMMA InitRefines == Init => Store!StoreInit
BY DEF Init, Contents, boltObject, Headers,
       Store!StoreInit, Store!Stored, Store!Headers

LEMMA NextRefines == Inv /\ [Next]_vars => [Store!StoreNext]_<<data, call>>
<1> SUFFICES ASSUME Inv, [Next]_vars
             PROVE  Store!StoreNext \/ UNCHANGED <<data, call>>
  OBVIOUS
<1> USE DEF Inv, Exists
<1>1. ASSUME NEW b \in Buckets, NEW date \in Dates, CreateBucket(b, date)
      PROVE  Store!StoreNext
  <2>1. Store!CreateBucketIn(b)
    BY <1>1 DEF CreateBucket, Store!CreateBucketIn
  <2> QED
    BY <2>1 DEF Store!StoreNext
<1>2. ASSUME NEW b \in Buckets, DeleteBucket(b) \/ ForceDeleteBucket(b)
      PROVE  Store!StoreNext
  <2>1. Store!DropBucketOf(b)
    BY <1>2 DEF DeleteBucket, ForceDeleteBucket, RemoveBucket, Store!DropBucketOf
  <2> QED
    BY <2>1 DEF Store!StoreNext
<1>3. ASSUME NEW b \in Buckets, NEW ks \in SUBSET Keys, DeleteMulti(b, ks)
      PROVE  Store!StoreNext \/ UNCHANGED <<data, call>>
  <2>1. CASE \E k \in ks : Store!Visible(b, k)
    <3>1. Store!Vanish(b, ks)
      BY <1>3, <2>1 DEF DeleteMulti, Store!Vanish
    <3> QED
      BY <3>1 DEF Store!StoreNext
  <2>2. CASE ~ \E k \in ks : Store!Visible(b, k)
    <3>1. \A k \in ks : data[b][k] = NoObject
      BY <1>3, <2>2 DEF DeleteMulti, Store!Visible
    <3>2. [k \in Keys |-> IF k \in ks THEN NoObject ELSE data[b][k]] = data[b]
      BY <1>3, <3>1 DEF DeleteMulti, BoltTypeOK, Contents
    <3> QED
      BY <1>3, <3>2 DEF DeleteMulti, BoltTypeOK
  <2> QED
    BY <2>1, <2>2
<1>4. ASSUME NEW c \in Clients, NEW b \in Buckets, NEW k \in Keys, NEW meta \in Headers,
             NEW body \in Bodies, PutObject(c, b, k, body, meta)
      PROVE  Store!StoreNext
  <2>1. Store!BeginWrite(c, b, k, body, meta)
    BY <1>4 DEF PutObject, Store!BeginWrite
  <2> QED
    BY <2>1 DEF Store!StoreNext, Headers, Store!Headers
<1>5. ASSUME NEW c \in Clients, NEW b \in Buckets, NEW k \in Keys, NEW meta \in Headers,
             NEW sb \in Buckets, NEW sk \in Keys, CopyObject(c, sb, sk, b, k, meta)
      PROVE  Store!StoreNext
  <2>1. Store!BeginCopy(c, sb, sk, b, k, meta)
    BY <1>5, FoundType DEF CopyObject, Merge, Store!BeginCopy, Store!Visible, Store!Over
  <2> QED
    BY <2>1 DEF Store!StoreNext, Headers, Store!Headers
<1>6. ASSUME NEW c \in Clients, MergeMetadata(c) PROVE Store!StoreNext
  <2>1. Store!Inherit(c)
    BY <1>6 DEF MergeMetadata, GetObject, Merge, Store!Inherit, Store!Visible, Store!Over
  <2> QED
    BY <2>1 DEF Store!StoreNext
<1>7. ASSUME NEW c \in Clients, Put(c) PROVE Store!StoreNext
  <2>1. CASE data[call[c].bucket] # NoBucket
    <3>1. data' = [data EXCEPT ![call[c].bucket] =
              [data[call[c].bucket] EXCEPT ![call[c].key] =
                  [body |-> call[c].body, meta |-> call[c].meta]]]
      BY <1>7, <2>1 DEF Put
    <3>2. Store!Commit(c)
      BY <1>7, <2>1, <3>1 DEF Put, Store!Commit
    <3> QED
      BY <3>2 DEF Store!StoreNext
  <2>2. CASE data[call[c].bucket] = NoBucket
    <3>1. Store!Fail(c)
      BY <1>7, <2>2 DEF Put, Store!Fail
    <3> QED
      BY <3>1 DEF Store!StoreNext
  <2> QED
    BY <2>1, <2>2
<1>8. ASSUME NEW c \in Clients, CopyRead(c) PROVE Store!StoreNext
  <2>1. CASE GetObject(call[c].srcBucket, call[c].srcKey) = "ok"
    <3>1. Store!FetchBody(c)
      BY <1>8, <2>1 DEF CopyRead, GetObject, Store!FetchBody, Store!Visible
    <3> QED
      BY <3>1 DEF Store!StoreNext
  <2>2. CASE GetObject(call[c].srcBucket, call[c].srcKey) # "ok"
    <3>1. Store!Fail(c)
      BY <1>8, <2>2 DEF CopyRead, GetObject, Store!Fail, Store!Visible
    <3> QED
      BY <3>1 DEF Store!StoreNext
  <2> QED
    BY <2>1, <2>2
<1>9. CASE UNCHANGED vars
  BY <1>9 DEF vars
<1> QED
  BY <1>1, <1>2, <1>3, <1>4, <1>5, <1>6, <1>7, <1>8, <1>9 DEF Next

\* The bolt backend behaves as the object store: to clients, each write of any
\* number of them shows at once and whole, and is refused only if its source or
\* its bucket is gone.
THEOREM BoltImplementsStore == Spec => ImplementsStore
<1>1. Spec => []Inv
  BY InitInv, NextInv, PTL DEF Spec
<1>2. Inv /\ [Next]_vars => [Store!StoreNext]_(Store!storeVars)
  BY NextRefines DEF Store!storeVars
<1> QED
  BY <1>1, <1>2, InitRefines, PTL DEF Spec, ImplementsStore, Store!StoreSpec

-----------------------------------------------------------------------------
(* Creation dates.                                                         *)

\* A step of the backend dates a bucket that it makes, and no other.
LEMMA NextDates ==
    ASSUME Inv, [Next]_vars, NEW b \in Buckets, data'[b] # NoBucket
    PROVE  IF Exists(b) THEN dates'[b] = dates[b] ELSE metaBucket' /\ dates'[b] \in Dates
<1> USE DEF Inv, BoltTypeOK, Exists
<1>1. ASSUME NEW a \in Buckets, NEW date \in Dates, CreateBucket(a, date)
      PROVE  IF Exists(b) THEN dates'[b] = dates[b] ELSE metaBucket' /\ dates'[b] \in Dates
  BY <1>1 DEF CreateBucket, CreateS3Bucket
<1>2. ASSUME NEW a \in Buckets, DeleteBucket(a) \/ ForceDeleteBucket(a)
      PROVE  IF Exists(b) THEN dates'[b] = dates[b] ELSE metaBucket' /\ dates'[b] \in Dates
  BY <1>2 DEF DeleteBucket, ForceDeleteBucket, RemoveBucket, DeleteS3Bucket
<1>3. ASSUME NEW a \in Buckets, NEW ks \in SUBSET Keys, DeleteMulti(a, ks)
      PROVE  IF Exists(b) THEN dates'[b] = dates[b] ELSE metaBucket' /\ dates'[b] \in Dates
  BY <1>3 DEF DeleteMulti
<1>4. ASSUME NEW c \in Clients, Put(c)
      PROVE  IF Exists(b) THEN dates'[b] = dates[b] ELSE metaBucket' /\ dates'[b] \in Dates
  <2>1. call[c].bucket \in Buckets
    BY <1>4 DEF Put, PutCall, CopyCall
  <2> QED
    BY <1>4, <2>1 DEF Put
<1>5. CASE UNCHANGED <<data, metaBucket, dates>>
  BY <1>5
<1> QED
  BY <1>1, <1>2, <1>3, <1>4, <1>5
     DEF Next, vars, PutObject, CopyObject, MergeMetadata, CopyRead

LEMMA DatesListed ==
    ASSUME Inv, Inv', NEW b \in Buckets, data'[b] # NoBucket,
           IF Exists(b) THEN dates'[b] = dates[b] ELSE metaBucket' /\ dates'[b] \in Dates
    PROVE  IF Exists(b) THEN ListBuckets'[b] = ListBuckets[b]
           ELSE \E date \in Dates : ListBuckets'[b] = {date}
<1> USE DEF Inv, NoStrayMetadata, Exists, ListBuckets
<1>1. CASE Exists(b)
  BY <1>1
<1>2. CASE ~Exists(b)
  BY <1>2, BoltAssumption
<1> QED
  BY <1>1, <1>2

\* A bucket's creation date is given once.
THEOREM BucketsAreDated == Spec => DatedForLife
<1>1. Inv /\ Inv' /\ [Next]_vars =>
        [\A b \in Buckets :
            data'[b] # NoBucket =>
                IF Exists(b) THEN ListBuckets'[b] = ListBuckets[b]
                ELSE \E date \in Dates : ListBuckets'[b] = {date}]_vars
  BY NextDates, DatesListed
<1> QED
  BY <1>1, InitInv, NextInv, PTL DEF Spec, DatedForLife

=============================================================================
