---------------------------- MODULE S3MemProofs ----------------------------
(***************************************************************************)
(* Theorems about S3Mem, for every set of buckets, keys, clients, bodies   *)
(* and metadata values and every bound; at the end, that it implements the *)
(* object store (S3MemStore), over KeyInv: the types say what GetObject    *)
(* can find, and that an absent bucket stores nothing is why a new one     *)
(* shows nothing.                                                          *)
(***************************************************************************)
EXTENDS S3MemStore, SequenceTheorems, TLAPS

-----------------------------------------------------------------------------
(* Type correctness.                                                       *)

\* bucket.object returns a bucketObject, whether the key is present or not.
LEMMA ObjectAtType ==
    ASSUME TypeOK, NEW b \in Buckets, NEW k \in Keys
    PROVE  /\ ObjectAt(b, k) \in Object
           /\ Archive(b, k) \subseteq Version
  BY DEF TypeOK, ObjectAt, Archive, Object

\* GetObject succeeds only on a current version that is not a delete marker.
LEMMA GetObjectFinds ==
    ASSUME TypeOK, NEW b \in Buckets, NEW k \in Keys, GetObject(b, k) = "ok"
    PROVE  /\ objects[b][k] \in Object
           /\ objects[b][k].data \in Written
  BY DEF TypeOK, GetObject, Object, Version, Marker

\* Storing an object, or nothing, under one key keeps the type of the map.
LEMMA SetObjectType ==
    ASSUME TypeOK, NEW b \in Buckets, NEW k \in Keys,
           NEW o \in Object \cup {NoObject},
           objects' = [objects EXCEPT ![b][k] = o]
    PROVE  objects' \in [Buckets -> [Keys -> Object \cup {NoObject}]]
  BY DEF TypeOK

\* bucket.put keeps the types, given a version to store.
LEMMA PutType ==
    ASSUME TypeOK, NEW b \in Buckets, NEW k \in Keys,
           NEW item \in Version, Put(b, k, item)
    PROVE  /\ objects' \in [Buckets -> [Keys -> Object \cup {NoObject}]]
           /\ lastVersion' \in 0..MaxVersion
  <1>1. [data |-> item, versions |-> Archive(b, k)] \in Object
    BY ObjectAtType DEF Object
  <1>2. QED
    BY <1>1, BoundAssumption DEF Put, NextVersion, TypeOK

\* A new version carries the next ID; so does a new delete marker.
LEMMA NextVersionType ==
    ASSUME TypeOK
    PROVE  NextVersion \in Nat /\ DeleteMarker \in Version
  BY BoundAssumption DEF TypeOK, NextVersion, DeleteMarker, Version, Marker

\* bucket.rm keeps the types.
LEMMA RmType ==
    ASSUME TypeOK, NEW b \in Buckets, NEW k \in Keys, Rm(b, k)
    PROVE  /\ objects' \in [Buckets -> [Keys -> Object \cup {NoObject}]]
           /\ lastVersion' \in 0..MaxVersion
  <1>1. CASE objects[b][k] = NoObject
    BY <1>1 DEF Rm, TypeOK
  <1>2. CASE objects[b][k] # NoObject /\ versioning[b] = "Enabled"
    BY <1>2, PutType, NextVersionType DEF Rm
  <1>3. CASE objects[b][k] # NoObject /\ versioning[b] # "Enabled"
    <2>1. Shrink([data |-> NoData, versions |-> objects[b][k].versions]) \in Object \cup {NoObject}
      BY <1>3 DEF TypeOK, Shrink, Object
    <2>2. UNCHANGED lastVersion
      BY <1>3 DEF Rm
    <2>3. objects' = [objects EXCEPT ![b][k] =
              Shrink([data |-> NoData, versions |-> objects[b][k].versions])]
      BY <1>3 DEF Rm
    <2>4. QED
      BY <2>1, <2>2, <2>3, SetObjectType DEF TypeOK
  <1>4. QED
    BY <1>1, <1>2, <1>3

\* rmVersion keeps the type of the object it works on.
LEMMA WithoutType ==
    ASSUME NEW o \in Object, NEW id
    PROVE  Without(o, id) \in Object \cup {NoObject}
  <1>1. [data |-> NoData, versions |-> o.versions] \in Object
    BY DEF Object
  <1>2. [data |-> o.data, versions |-> {v \in o.versions : v.id # id}] \in Object
    BY DEF Object
  <1>3. QED
    BY <1>1, <1>2 DEF Without, Shrink

\* bucket.rmVersion keeps the types.
LEMMA RmVersionType ==
    ASSUME TypeOK, NEW b \in Buckets, NEW k \in Keys, NEW id, RmVersion(b, k, id)
    PROVE  /\ objects' \in [Buckets -> [Keys -> Object \cup {NoObject}]]
           /\ lastVersion' \in 0..MaxVersion
  <1>1. CASE objects[b][k] = NoObject
    BY <1>1 DEF RmVersion, TypeOK
  <1>2. CASE objects[b][k] # NoObject
    <2>1. Without(objects[b][k], id) \in Object \cup {NoObject}
      BY <1>2, WithoutType DEF TypeOK
    <2>2. QED
      BY <1>2, <2>1 DEF RmVersion, TypeOK
  <1>3. QED
    BY <1>1, <1>2

\* Every operation of the backend keeps the types: a step of a bucket operation.
LEMMA BucketNextType ==
    TypeOK /\ BucketNext => TypeOK'
  <1> SUFFICES ASSUME TypeOK, NEW b \in Buckets,
                      \/ CreateBucket(b)
                      \/ DeleteBucket(b)
                      \/ ForceDeleteBucket(b)
                      \/ \E enabled \in BOOLEAN : SetVersioningConfiguration(b, enabled)
                      \/ \E k \in Keys : DeleteObject(b, k)
                      \/ \E k \in Keys, id \in 1..lastVersion : DeleteObjectVersion(b, k, id)
               PROVE  TypeOK'
    BY DEF BucketNext
  <1>1. CASE CreateBucket(b)
    BY <1>1 DEF CreateBucket, TypeOK, Statuses
  <1>2. CASE DeleteBucket(b) \/ ForceDeleteBucket(b)
    <2>1. DropBucket(b)
      BY <1>2 DEF DeleteBucket, ForceDeleteBucket
    <2>2. QED
      BY <2>1 DEF DropBucket, TypeOK, Statuses
  <1>3. ASSUME NEW enabled \in BOOLEAN, SetVersioningConfiguration(b, enabled)
        PROVE  TypeOK'
    BY <1>3 DEF SetVersioningConfiguration, TypeOK, Statuses
  <1>4. ASSUME NEW k \in Keys, DeleteObject(b, k)
        PROVE  TypeOK'
    BY <1>4, RmType DEF DeleteObject, TypeOK
  <1>5. ASSUME NEW k \in Keys, NEW id \in 1..lastVersion, DeleteObjectVersion(b, k, id)
        PROVE  TypeOK'
    BY <1>5, RmVersionType DEF DeleteObjectVersion, TypeOK
  <1>6. QED
    BY <1>1, <1>2, <1>3, <1>4, <1>5

\* A call that starts or moves on keeps the types if its new record is a Call.
LEMMA CallStepType ==
    ASSUME TypeOK, NEW c \in Clients, NEW new \in Call,
           call' = [call EXCEPT ![c] = new],
           UNCHANGED <<versioning, objects, lastVersion, lock, acked>>
    PROVE  TypeOK'
  BY DEF TypeOK

\* The record of a call at each step of it.
LEMMA CallSteps ==
    ASSUME TypeOK, NEW c \in Clients
    PROVE  /\ call[c].step = "copy" => call[c] \in CopyCall
           /\ call[c].step = "merge" => call[c] \in MergeCall
           /\ call[c].step = "put" => call[c] \in PutCall
           /\ call[c].step = "delete" => call[c] \in DeleteCall
  BY DEF TypeOK, Call, Idle, CopyCall, MergeCall, PutCall, DeleteCall

\* A step of a call keeps the types.
LEMMA CallNextType ==
    TypeOK /\ CallNext => TypeOK'
  <1> SUFFICES ASSUME TypeOK, NEW c \in Clients,
                      \/ \E b \in Buckets, k \in Keys :
                            \/ \E body \in Bodies, meta \in Metas \cup {NoMeta} :
                                  PutObject(c, b, k, body, meta)
                            \/ \E sb \in Buckets, sk \in Keys, meta \in Metas \cup {NoMeta} :
                                  CopyObject(c, sb, sk, b, k, meta)
                      \/ \E b \in Buckets, batch \in Batches : DeleteMultiVersions(c, b, batch)
                      \/ CopyRead(c)
                      \/ MergeMetadata(c)
                      \/ PutCommit(c)
                      \/ DeleteNext(c)
               PROVE  TypeOK'
    BY DEF CallNext
  <1>1. ASSUME NEW b \in Buckets, NEW k \in Keys, NEW body \in Bodies,
               NEW meta \in Metas \cup {NoMeta}, PutObject(c, b, k, body, meta)
        PROVE  TypeOK'
    <2> DEFINE new == [step |-> "merge", bucket |-> b, key |-> k, body |-> body, meta |-> meta]
    <2>1. new \in Call
      BY DEF Call, MergeCall
    <2>2. QED
      BY <1>1, <2>1, CallStepType DEF PutObject, Begin
  <1>2. ASSUME NEW b \in Buckets, NEW k \in Keys, NEW sb \in Buckets, NEW sk \in Keys,
               NEW meta \in Metas \cup {NoMeta}, CopyObject(c, sb, sk, b, k, meta)
        PROVE  TypeOK'
    <2> DEFINE merged == Merge(meta, objects[sb][sk].data.meta)
               new == [step |-> "copy", srcBucket |-> sb, srcKey |-> sk,
                       bucket |-> b, key |-> k, meta |-> merged]
    <2>1. merged \in Metas \cup {NoMeta}
      BY <1>2, GetObjectFinds DEF CopyObject, Merge, Written
    <2>2. new \in Call
      BY <2>1 DEF Call, CopyCall
    <2>3. QED
      BY <1>2, <2>2, CallStepType DEF CopyObject, Begin
  <1>3. ASSUME NEW b \in Buckets, NEW batch \in Batches, DeleteMultiVersions(c, b, batch)
        PROVE  TypeOK'
    <2> DEFINE new == [step |-> "delete", bucket |-> b, batch |-> batch]
    <2>1. batch \in Seq(Entry) \ {<<>>}
      <3>1. PICK n \in 1..MaxBatch : batch \in [1..n -> [key : Keys, id : 0..lastVersion]]
        BY DEF Batches
      <3>2. batch \in [1..n -> Entry]
        BY <3>1, BoundAssumption DEF Entry, TypeOK
      <3>3. batch \in Seq(Entry) /\ Len(batch) = n
        BY <3>2
      <3>4. QED
        BY <3>3
    <2>2. new \in Call
      BY <2>1 DEF Call, DeleteCall
    <2>3. QED
      BY <1>3, <2>2 DEF DeleteMultiVersions, TypeOK
  <1>4. CASE CopyRead(c)
    <2> DEFINE old == call[c]
               src == objects[old.srcBucket][old.srcKey]
               new == IF GetObject(old.srcBucket, old.srcKey) = "ok"
                      THEN [step |-> "merge", bucket |-> old.bucket, key |-> old.key,
                            body |-> src.data.body, meta |-> old.meta]
                      ELSE Idle
    <2>1. old \in CopyCall
      BY <1>4, CallSteps DEF CopyRead
    <2>2. new \in Call
      <3>1. CASE GetObject(old.srcBucket, old.srcKey) = "ok"
        <4>1. src.data \in Written
          BY <2>1, <3>1, GetObjectFinds DEF CopyCall
        <4>2. QED
          BY <2>1, <3>1, <4>1 DEF CopyCall, Written, Call, MergeCall
      <3>2. CASE GetObject(old.srcBucket, old.srcKey) # "ok"
        BY <3>2 DEF Call
      <3>3. QED
        BY <3>1, <3>2
    <2>3. call' = [call EXCEPT ![c] = new]
      BY <1>4 DEF CopyRead
    <2>4. QED
      BY <1>4, <2>2, <2>3, CallStepType DEF CopyRead
  <1>5. CASE MergeMetadata(c)
    <2> DEFINE old == call[c]
               found == GetObject(old.bucket, old.key)
               cur == objects[old.bucket][old.key]
               new == IF found = "panic" THEN Idle
                      ELSE [step |-> "put", bucket |-> old.bucket, key |-> old.key,
                            body |-> old.body,
                            meta |-> IF found = "ok" THEN Merge(old.meta, cur.data.meta)
                                     ELSE old.meta,
                            asked |-> old.meta,
                            seen |-> IF found = "ok" THEN cur.data.id ELSE 0]
    <2>1. old \in MergeCall
      BY <1>5, CallSteps DEF MergeMetadata
    <2>2. new \in Call
      <3>1. CASE found = "ok"
        <4>1. cur.data \in Written
          BY <2>1, <3>1, GetObjectFinds DEF MergeCall
        <4>2. Merge(old.meta, cur.data.meta) \in Metas \cup {NoMeta}
          BY <2>1, <4>1 DEF Merge, MergeCall, Written
        <4>3. QED
          BY <2>1, <3>1, <4>1, <4>2 DEF MergeCall, Written, Call, PutCall
      <3>2. CASE found # "ok"
        BY <2>1, <3>2 DEF MergeCall, Call, PutCall
      <3>3. QED
        BY <3>1, <3>2
    <2>3. call' = [call EXCEPT ![c] = new]
      BY <1>5 DEF MergeMetadata
    <2>4. QED
      BY <1>5, <2>2, <2>3, CallStepType DEF MergeMetadata
  <1>6. CASE PutCommit(c)
    <2> DEFINE b == call[c].bucket
               k == call[c].key
               item == [id |-> NextVersion, body |-> call[c].body, meta |-> call[c].meta,
                        deleteMarker |-> FALSE]
    <2>1. call[c] \in PutCall
      BY <1>6, CallSteps DEF PutCommit
    <2>2. b \in Buckets /\ k \in Keys /\ item \in Version
      BY <2>1, NextVersionType DEF PutCall, Version, Written
    <2>3. call' \in [Clients -> Call] /\ UNCHANGED <<versioning, lock>>
      BY <1>6 DEF PutCommit, TypeOK, Call
    <2>4. CASE UNCHANGED <<objects, lastVersion, acked>>
      BY <2>3, <2>4 DEF TypeOK
    <2>5. CASE /\ Put(b, k, item)
               /\ acked' = IF versioning[b] = "Enabled"
                           THEN acked \cup {[bucket |-> b, key |-> k, version |-> item]}
                           ELSE acked
      <3> HIDE DEF item, b, k
      <3>1. [bucket |-> b, key |-> k, version |-> item] \in Acked
        BY <2>2 DEF Acked
      <3>2. acked' \subseteq Acked
        BY <2>5, <3>1 DEF TypeOK
      <3>3. QED
        BY <2>2, <2>3, <2>5, <3>2, PutType DEF TypeOK
    <2>6. QED
      BY <1>6, <2>4, <2>5 DEF PutCommit
  <1>7. CASE DeleteNext(c)
    <2> DEFINE b == call[c].bucket
               e == Head(call[c].batch)
               rest == Tail(call[c].batch)
    <2>1. call[c] \in DeleteCall
      BY <1>7, CallSteps DEF DeleteNext
    <2>2. b \in Buckets /\ e \in Entry /\ rest \in Seq(Entry)
      BY <2>1, HeadTailProperties DEF DeleteCall
    <2>3. (IF rest = <<>> THEN Idle ELSE [step |-> "delete", bucket |-> b, batch |-> rest]) \in Call
      BY <2>1, <2>2 DEF DeleteCall, Call
    <2>4. call' \in [Clients -> Call] /\ lock' \in Clients \cup {NoClient}
      BY <1>7, <2>3 DEF DeleteNext, TypeOK
    <2>5. UNCHANGED <<versioning, acked>>
      BY <1>7 DEF DeleteNext
    <2>6. CASE Rm(b, e.key)
      BY <2>2, <2>4, <2>5, <2>6, RmType DEF Entry, TypeOK
    <2>7. CASE RmVersion(b, e.key, e.id)
      BY <2>2, <2>4, <2>5, <2>7, RmVersionType DEF Entry, TypeOK
    <2>8. QED
      BY <1>7, <2>6, <2>7 DEF DeleteNext
  <1>8. QED
    BY <1>1, <1>2, <1>3, <1>4, <1>5, <1>6, <1>7

\* Every operation of the backend, in every interleaving, keeps the types: in
\* particular what GetObject hands to CopyObject and MergeMetadata is a stored
\* object's body and metadata, never those of a delete marker.
THEOREM TypeCorrect == Spec => []TypeOK
  <1>1. Init => TypeOK
    BY BoundAssumption DEF Init, TypeOK, Statuses, Call
  <1>2. TypeOK /\ [Next]_vars => TypeOK'
    <2>1. TypeOK /\ UNCHANGED vars => TypeOK'
      BY DEF vars, TypeOK
    <2>2. QED
      BY <2>1, BucketNextType, CallNextType DEF Next
  <1>3. QED
    BY <1>1, <1>2, PTL DEF Spec


-----------------------------------------------------------------------------
(* Version IDs.                                                            *)

\* Every version stored has an ID the generator has issued.
IdsIssued ==
    \A b \in Buckets, k \in Keys : \A v \in VersionsAt(b, k) : v.id <= lastVersion

\* The inductive invariant of the version IDs: freshness of the next ID is what
\* makes the IDs unique and the current version the newest after a put.
IdInv == TypeOK /\ IdsIssued /\ VersionIdsUnique /\ CurrentIsNewest

\* The key keeps only versions it had, in the place they had.
Shrinks(b, k) ==
    \/ objects'[b][k] = NoObject
    \/ /\ objects[b][k] # NoObject
       /\ objects'[b][k] \in Object
       /\ objects'[b][k].data \in {NoData, objects[b][k].data}
       /\ objects'[b][k].versions \subseteq objects[b][k].versions

\* A version with the next ID becomes current under the key, and nothing else changes.
Stores(b, k, item) ==
    /\ item.id = NextVersion
    /\ lastVersion' = NextVersion
    /\ objects' = [objects EXCEPT ![b][k] = [data |-> item, versions |-> Archive(b, k)]]

\* What a step does to the stored versions.
Effect ==
    \/ /\ UNCHANGED lastVersion
       /\ \A b \in Buckets, k \in Keys : Shrinks(b, k)
    \/ \E b \in Buckets, k \in Keys : \E item \in Version : Stores(b, k, item)

\* A step that leaves the objects alone shrinks every key, trivially.
LEMMA UnchangedShrinks ==
    ASSUME TypeOK, UNCHANGED <<objects, lastVersion>>
    PROVE  Effect
  BY DEF TypeOK, Effect, Shrinks, Object

\* Replacing one key's object by one with less in it shrinks every key.
LEMMA SetObjectShrinks ==
    ASSUME TypeOK, NEW b \in Buckets, NEW k \in Keys, objects[b][k] # NoObject,
           NEW d \in {NoData, objects[b][k].data}, NEW vs \in SUBSET objects[b][k].versions,
           objects' = [objects EXCEPT ![b][k] = Shrink([data |-> d, versions |-> vs])],
           UNCHANGED lastVersion
    PROVE  Effect
  <1> DEFINE o == [data |-> d, versions |-> vs]
  <1>1. o \in Object /\ Shrink(o) \in {o, NoObject}
    BY DEF TypeOK, Object, Shrink
  <1>2. objects'[b][k] = Shrink(o)
    BY DEF TypeOK
  <1>3. Shrinks(b, k)
    BY <1>1, <1>2 DEF Shrinks
  <1>4. ASSUME NEW b2 \in Buckets, NEW k2 \in Keys, ~(b2 = b /\ k2 = k)
        PROVE  Shrinks(b2, k2)
    <2>1. objects'[b2][k2] = objects[b2][k2]
      BY <1>4 DEF TypeOK
    <2>2. objects[b2][k2] \in Object \cup {NoObject}
      BY DEF TypeOK
    <2>3. QED
      BY <2>1, <2>2 DEF Shrinks, Object
  <1>5. QED
    BY <1>3, <1>4 DEF Effect

\* bucket.rm stores a delete marker or removes the current version.
LEMMA RmEffect ==
    ASSUME TypeOK, NEW b \in Buckets, NEW k \in Keys, Rm(b, k)
    PROVE  Effect
  <1>1. CASE objects[b][k] = NoObject
    BY <1>1, UnchangedShrinks DEF Rm
  <1>2. CASE objects[b][k] # NoObject /\ versioning[b] = "Enabled"
    <2>1. Stores(b, k, DeleteMarker)
      BY <1>2 DEF Rm, Put, Stores, DeleteMarker
    <2>2. QED
      BY <2>1, NextVersionType DEF Effect
  <1>3. CASE objects[b][k] # NoObject /\ versioning[b] # "Enabled"
    <2>1. objects[b][k].versions \in SUBSET objects[b][k].versions
      OBVIOUS
    <2>2. /\ objects' = [objects EXCEPT ![b][k] =
                  Shrink([data |-> NoData, versions |-> objects[b][k].versions])]
          /\ UNCHANGED lastVersion
      BY <1>3 DEF Rm
    <2>3. QED
      BY <1>3, <2>1, <2>2, SetObjectShrinks
  <1>4. QED
    BY <1>1, <1>2, <1>3

\* bucket.rmVersion removes one version, current or archived.
LEMMA RmVersionEffect ==
    ASSUME TypeOK, NEW b \in Buckets, NEW k \in Keys, NEW id, RmVersion(b, k, id)
    PROVE  Effect
  <1>1. CASE objects[b][k] = NoObject
    BY <1>1, UnchangedShrinks DEF RmVersion
  <1>2. CASE objects[b][k] # NoObject
    <2> DEFINE o == objects[b][k]
    <2>1. objects' = [objects EXCEPT ![b][k] = Without(o, id)] /\ UNCHANGED lastVersion
      BY <1>2 DEF RmVersion
    <2>2. CASE o.data # NoData /\ o.data.id = id
      <3>1. Without(o, id) = Shrink([data |-> NoData, versions |-> o.versions])
        BY <2>2 DEF Without
      <3>2. o.versions \in SUBSET o.versions
        OBVIOUS
      <3>3. QED
        BY <1>2, <2>1, <3>1, <3>2, SetObjectShrinks
    <2>3. CASE ~(o.data # NoData /\ o.data.id = id)
      <3>1. Without(o, id) = Shrink([data |-> o.data, versions |-> {v \in o.versions : v.id # id}])
        BY <2>3 DEF Without
      <3>2. {v \in o.versions : v.id # id} \in SUBSET o.versions
        OBVIOUS
      <3>3. QED
        BY <1>2, <2>1, <3>1, <3>2, SetObjectShrinks
    <2>4. QED
      BY <2>2, <2>3
  <1>3. QED
    BY <1>1, <1>2

\* A dropped bucket keeps nothing.
LEMMA DropBucketEffect ==
    ASSUME TypeOK, NEW b \in Buckets, DropBucket(b)
    PROVE  Effect
  <1>1. ASSUME NEW b2 \in Buckets, NEW k \in Keys
        PROVE  Shrinks(b2, k)
    <2>1. objects'[b2][k] = NoObject \/ objects'[b2][k] = objects[b2][k]
      BY DEF DropBucket, TypeOK
    <2>2. objects[b2][k] \in Object \cup {NoObject}
      BY DEF TypeOK
    <2>3. QED
      BY <2>1, <2>2 DEF Shrinks, Object
  <1>2. QED
    BY <1>1 DEF DropBucket, Effect

\* Every step either stores one new version or only removes versions.
LEMMA NextEffect ==
    TypeOK /\ [Next]_vars => Effect
  <1> SUFFICES ASSUME TypeOK, [Next]_vars PROVE Effect
    OBVIOUS
  <1>1. CASE UNCHANGED vars
    BY <1>1, UnchangedShrinks DEF vars
  <1>2. CASE BucketNext
    <2>1. PICK b \in Buckets :
              \/ CreateBucket(b)
              \/ DeleteBucket(b)
              \/ ForceDeleteBucket(b)
              \/ \E enabled \in BOOLEAN : SetVersioningConfiguration(b, enabled)
              \/ \E k \in Keys : DeleteObject(b, k)
              \/ \E k \in Keys, id \in 1..lastVersion : DeleteObjectVersion(b, k, id)
      BY <1>2 DEF BucketNext
    <2>2. CASE CreateBucket(b) \/ \E enabled \in BOOLEAN : SetVersioningConfiguration(b, enabled)
      BY <2>2, UnchangedShrinks DEF CreateBucket, SetVersioningConfiguration
    <2>3. CASE DeleteBucket(b) \/ ForceDeleteBucket(b)
      BY <2>3, DropBucketEffect DEF DeleteBucket, ForceDeleteBucket
    <2>4. CASE \E k \in Keys : DeleteObject(b, k)
      BY <2>4, RmEffect DEF DeleteObject
    <2>5. CASE \E k \in Keys, id \in 1..lastVersion : DeleteObjectVersion(b, k, id)
      BY <2>5, RmVersionEffect DEF DeleteObjectVersion
    <2>6. QED
      BY <2>1, <2>2, <2>3, <2>4, <2>5
  <1>3. CASE CallNext
    <2>1. PICK c \in Clients :
              \/ \E b \in Buckets, k \in Keys :
                    \/ \E body \in Bodies, meta \in Metas \cup {NoMeta} :
                          PutObject(c, b, k, body, meta)
                    \/ \E sb \in Buckets, sk \in Keys, meta \in Metas \cup {NoMeta} :
                          CopyObject(c, sb, sk, b, k, meta)
              \/ \E b \in Buckets, batch \in Batches : DeleteMultiVersions(c, b, batch)
              \/ CopyRead(c)
              \/ MergeMetadata(c)
              \/ PutCommit(c)
              \/ DeleteNext(c)
      BY <1>3 DEF CallNext
    <2>2. CASE PutCommit(c)
      <3> DEFINE item == [id |-> NextVersion, body |-> call[c].body, meta |-> call[c].meta,
                          deleteMarker |-> FALSE]
      <3>1. call[c] \in PutCall
        BY <2>2, CallSteps DEF PutCommit
      <3>2. call[c].bucket \in Buckets /\ call[c].key \in Keys /\ item \in Version
        BY <3>1, NextVersionType DEF PutCall, Version, Written
      <3>3. UNCHANGED <<objects, lastVersion>> \/ Put(call[c].bucket, call[c].key, item)
        BY <2>2 DEF PutCommit
      <3>4. ASSUME Put(call[c].bucket, call[c].key, item)
            PROVE  Stores(call[c].bucket, call[c].key, item)
        BY <3>4 DEF Put, Stores
      <3>5. QED
        BY <3>2, <3>3, <3>4, UnchangedShrinks DEF Effect
    <2>3. CASE DeleteNext(c)
      <3>1. call[c] \in DeleteCall
        BY <2>3, CallSteps DEF DeleteNext
      <3>2. call[c].bucket \in Buckets /\ Head(call[c].batch) \in Entry
        BY <3>1, HeadTailProperties DEF DeleteCall
      <3>3. QED
        BY <2>3, <3>2, RmEffect, RmVersionEffect DEF DeleteNext, Entry
    <2>4. CASE ~PutCommit(c) /\ ~DeleteNext(c)
      <3>1. UNCHANGED <<objects, lastVersion>>
        BY <2>1, <2>4 DEF PutObject, CopyObject, Begin, DeleteMultiVersions, CopyRead, MergeMetadata
      <3>2. QED
        BY <3>1, UnchangedShrinks
    <2>5. QED
      BY <2>2, <2>3, <2>4
  <1>4. QED
    BY <1>1, <1>2, <1>3 DEF Next


\* A version is stored after a step if it was stored before, under the same key,
\* or if it is the one the step stores.
LEMMA VersionsAfter ==
    ASSUME TypeOK, NEW b \in Buckets, NEW k \in Keys
    PROVE  /\ Shrinks(b, k) => VersionsAt(b, k)' \subseteq VersionsAt(b, k)
           /\ \A b0 \in Buckets, k0 \in Keys, item \in Version :
                 Stores(b0, k0, item) =>
                    VersionsAt(b, k)' \subseteq VersionsAt(b, k)
                        \cup (IF b = b0 /\ k = k0 THEN {item} ELSE {})
  <1>1. ASSUME Shrinks(b, k)
        PROVE  VersionsAt(b, k)' \subseteq VersionsAt(b, k)
    BY <1>1 DEF Shrinks, VersionsAt
  <1>2. ASSUME NEW b0 \in Buckets, NEW k0 \in Keys, NEW item \in Version, Stores(b0, k0, item)
        PROVE  VersionsAt(b, k)' \subseteq VersionsAt(b, k)
                   \cup (IF b = b0 /\ k = k0 THEN {item} ELSE {})
    <2>1. CASE b = b0 /\ k = k0
      <3>1. objects'[b][k] = [data |-> item, versions |-> Archive(b, k)]
        BY <1>2, <2>1 DEF Stores, TypeOK
      <3>2. [data |-> item, versions |-> Archive(b, k)] # NoObject
        BY NilAssumption, ObjectAtType DEF Object
      <3>3. VersionsAt(b, k)' \subseteq Archive(b, k) \cup {item}
        BY <3>1, <3>2 DEF VersionsAt
      <3>4. Archive(b, k) \subseteq VersionsAt(b, k)
        BY DEF Archive, ObjectAt, VersionsAt
      <3>5. QED
        BY <2>1, <3>3, <3>4
    <2>2. CASE ~(b = b0 /\ k = k0)
      <3>1. objects'[b][k] = objects[b][k]
        BY <1>2, <2>2 DEF Stores, TypeOK
      <3>2. QED
        BY <3>1 DEF VersionsAt
    <2>3. QED
      BY <2>1, <2>2
  <1>3. QED
    BY <1>1, <1>2

\* Every stored version is a Version.
LEMMA VersionsAtType ==
    ASSUME TypeOK, NEW b \in Buckets, NEW k \in Keys
    PROVE  VersionsAt(b, k) \subseteq Version
  BY DEF TypeOK, VersionsAt, Object

\* The next ID is above every ID stored, so a step that stores keeps IDs issued.
LEMMA IdsIssuedStep ==
    ASSUME TypeOK, TypeOK', Effect, IdsIssued
    PROVE  IdsIssued'
  <1> SUFFICES ASSUME NEW b \in Buckets, NEW k \in Keys, NEW v \in VersionsAt(b, k)'
               PROVE  v.id <= lastVersion'
    BY DEF IdsIssued
  <1>1. CASE UNCHANGED lastVersion /\ Shrinks(b, k)
    BY <1>1, VersionsAfter DEF IdsIssued
  <1>2. ASSUME NEW b0 \in Buckets, NEW k0 \in Keys, NEW item \in Version, Stores(b0, k0, item)
        PROVE  v.id <= lastVersion'
    <2>1. v \in VersionsAt(b, k) \/ v = item
      BY <1>2, VersionsAfter
    <2>2. CASE v \in VersionsAt(b, k)
      <3>1. v.id <= lastVersion /\ v.id \in Nat
        BY <2>2, VersionsAtType DEF IdsIssued, Version, Written, Marker
      <3>2. lastVersion' = lastVersion + 1 /\ lastVersion \in Nat
        BY <1>2, BoundAssumption DEF Stores, NextVersion, TypeOK
      <3>3. QED
        BY <3>1, <3>2
    <2>3. CASE v = item
      BY <1>2, <2>3 DEF Stores, NextVersion, TypeOK
    <2>4. QED
      BY <2>1, <2>2, <2>3
  <1>3. QED
    BY <1>1, <1>2 DEF Effect

\* A removal makes no two IDs equal; a version stored has a larger ID than all.
LEMMA UniqueStep ==
    ASSUME TypeOK, TypeOK', Effect, IdsIssued, VersionIdsUnique
    PROVE  VersionIdsUnique'
  <1> SUFFICES ASSUME NEW b1 \in Buckets, NEW b2 \in Buckets, NEW k1 \in Keys, NEW k2 \in Keys,
                      NEW v \in VersionsAt(b1, k1)', NEW w \in VersionsAt(b2, k2)', v.id = w.id
               PROVE  b1 = b2 /\ k1 = k2 /\ v = w
    BY DEF VersionIdsUnique
  <1>1. CASE \A b \in Buckets, k \in Keys : Shrinks(b, k)
    BY <1>1, VersionsAfter DEF VersionIdsUnique
  <1>2. ASSUME NEW b0 \in Buckets, NEW k0 \in Keys, NEW item \in Version, Stores(b0, k0, item)
        PROVE  b1 = b2 /\ k1 = k2 /\ v = w
    <2>1. \A b \in Buckets, k \in Keys : \A u \in VersionsAt(b, k) : u.id # item.id
      BY <1>2, VersionsAtType DEF IdsIssued, Stores, NextVersion, TypeOK, Version, Written, Marker
    <2>2. v \in VersionsAt(b1, k1) \/ (v = item /\ b1 = b0 /\ k1 = k0)
      BY <1>2, VersionsAfter
    <2>3. w \in VersionsAt(b2, k2) \/ (w = item /\ b2 = b0 /\ k2 = k0)
      BY <1>2, VersionsAfter
    <2>4. QED
      BY <2>1, <2>2, <2>3 DEF VersionIdsUnique
  <1>3. QED
    BY <1>1, <1>2 DEF Effect

\* A put archives what was current below the new version.
LEMMA NewestStep ==
    ASSUME TypeOK, TypeOK', Effect, IdsIssued, CurrentIsNewest
    PROVE  CurrentIsNewest'
  <1> SUFFICES ASSUME NEW b \in Buckets, NEW k \in Keys,
                      objects'[b][k] # NoObject, objects'[b][k].data # NoData,
                      NEW v \in objects'[b][k].versions
               PROVE  v.id < objects'[b][k].data.id
    BY DEF CurrentIsNewest
  <1>1. CASE Shrinks(b, k)
    BY <1>1 DEF Shrinks, CurrentIsNewest
  <1>2. ASSUME NEW b0 \in Buckets, NEW k0 \in Keys, NEW item \in Version, Stores(b0, k0, item)
        PROVE  v.id < objects'[b][k].data.id
    <2>1. CASE b = b0 /\ k = k0
      <3>1. objects'[b][k] = [data |-> item, versions |-> Archive(b, k)]
        BY <1>2, <2>1 DEF Stores, TypeOK
      <3>2. v \in VersionsAt(b, k)
        BY <3>1 DEF Archive, ObjectAt, VersionsAt
      <3>3. v.id <= lastVersion /\ v.id \in Nat
        BY <3>2, VersionsAtType DEF IdsIssued, Version, Written, Marker
      <3>4. item.id = lastVersion + 1
        BY <1>2 DEF Stores, NextVersion
      <3>5. QED
        BY <3>1, <3>3, <3>4 DEF TypeOK
    <2>2. CASE ~(b = b0 /\ k = k0)
      <3>1. objects'[b][k] = objects[b][k]
        BY <1>2, <2>2 DEF Stores, TypeOK
      <3>2. QED
        BY <3>1 DEF CurrentIsNewest
    <2>3. QED
      BY <2>1, <2>2
  <1>3. QED
    BY <1>1, <1>2 DEF Effect

\* The version IDs: issued before they are stored, never stored twice, and
\* smaller in the archive than the current one's.
LEMMA IdInvariant == Spec => []IdInv
  <1>1. Init => IdInv
    <2>1. Init => TypeOK
      BY BoundAssumption DEF Init, TypeOK, Statuses, Call
    <2>2. Init => \A b \in Buckets, k \in Keys : VersionsAt(b, k) = {} /\ objects[b][k] = NoObject
      BY DEF Init, VersionsAt
    <2>3. QED
      BY <2>1, <2>2 DEF IdInv, IdsIssued, VersionIdsUnique, CurrentIsNewest
  <1>2. IdInv /\ [Next]_vars => IdInv'
    <2> SUFFICES ASSUME IdInv, [Next]_vars PROVE IdInv'
      OBVIOUS
    <2>1. TypeOK'
      <3>1. TypeOK /\ UNCHANGED vars => TypeOK'
        BY DEF vars, TypeOK
      <3>2. QED
        BY <3>1, BucketNextType, CallNextType DEF IdInv, Next
    <2>2. Effect
      BY NextEffect DEF IdInv
    <2>3. QED
      BY <2>1, <2>2, IdsIssuedStep, UniqueStep, NewestStep DEF IdInv
  <1>3. QED
    BY <1>1, <1>2, PTL DEF Spec

\* A version ID names one version in the whole database, whatever mix of puts,
\* deletions, status changes and bucket re-creations ran before.
THEOREM IdsNameOneVersion == Spec => []VersionIdsUnique
  BY IdInvariant, PTL DEF IdInv

\* The current version of a key is newer than every archived one: bucketObjectIterator,
\* archive first and current version last, lists the versions in the order of writing.
THEOREM CurrentNewest == Spec => []CurrentIsNewest
  BY IdInvariant, PTL DEF IdInv

\* No step brings a removed version back or changes a stored one: what appears
\* under a key has an ID issued in that very step.
THEOREM FreshVersions == Spec => VersionsAreFresh
  <1> DEFINE Fresh == \A b \in Buckets, k \in Keys :
                         \A v \in VersionsAt(b, k)' \ VersionsAt(b, k) :
                            lastVersion < v.id /\ v.id <= lastVersion'
  <1>1. TypeOK /\ [Next]_vars => [Fresh]_vars
    <2> SUFFICES ASSUME TypeOK, [Next]_vars, NEW b \in Buckets, NEW k \in Keys,
                        NEW v \in VersionsAt(b, k)' \ VersionsAt(b, k)
                 PROVE  lastVersion < v.id /\ v.id <= lastVersion'
      OBVIOUS
    <2>1. ~Shrinks(b, k)
      BY VersionsAfter
    <2>2. PICK b0 \in Buckets, k0 \in Keys, item \in Version : Stores(b0, k0, item)
      BY <2>1, NextEffect DEF Effect
    <2>3. v = item
      BY <2>2, VersionsAfter
    <2>4. QED
      BY <2>2, <2>3 DEF Stores, NextVersion, TypeOK
  <1>2. QED
    BY <1>1, TypeCorrect, PTL DEF Spec, VersionsAreFresh

-----------------------------------------------------------------------------
(* What a step does to one key.                                            *)

\* put, or rm in an Enabled bucket, gives the key a new current version.
Replaces(b, k, item) ==
    /\ Exists(b)
    /\ UNCHANGED versioning
    /\ item \in Version
    /\ item.id = NextVersion /\ lastVersion' = NextVersion
    /\ objects'[b][k] = [data |-> item, versions |-> Archive(b, k)]
    /\ item.deleteMarker => versioning[b] = "Enabled"

\* rm in any other bucket takes the current version away, rmVersion the one it names.
Loses(b, k) ==
    /\ objects[b][k] # NoObject
    /\ UNCHANGED versioning
    /\ \/ /\ versioning[b] # "Enabled"
          /\ objects'[b][k] = Shrink([data |-> NoData, versions |-> objects[b][k].versions])
       \/ \E id : RemovesById(b, k, id) /\ objects'[b][k] = Without(objects[b][k], id)

\* The key keeps what it has, and its bucket exists as before: it was created, or
\* its versioning was set.
Keeps(b, k) ==
    /\ objects'[b][k] = objects[b][k]
    /\ versioning'[b] = "None" => versioning[b] \in {"None", "Absent"}
    /\ versioning'[b] = "Absent" => versioning[b] = "Absent"

KeyStep(b, k) ==
    \/ Keeps(b, k)
    \/ versioning'[b] = "Absent" /\ objects'[b][k] = NoObject
    \/ \E item : Replaces(b, k, item)
    \/ Loses(b, k)

\* A step on one key, which leaves the others as they are.
LEMMA RmKeyStep ==
    ASSUME TypeOK, NEW b0 \in Buckets, NEW k0 \in Keys, Rm(b0, k0), UNCHANGED versioning,
           NEW b \in Buckets, NEW k \in Keys
    PROVE  KeyStep(b, k)
  <1>1. CASE objects[b0][k0] = NoObject \/ ~(b = b0 /\ k = k0)
    <2>1. objects'[b][k] = objects[b][k]
      BY <1>1 DEF Rm, Put, TypeOK
    <2>2. QED
      BY <2>1 DEF KeyStep, Keeps
  <1>2. CASE objects[b0][k0] # NoObject /\ b = b0 /\ k = k0 /\ versioning[b] = "Enabled"
    <2>1. Put(b, k, DeleteMarker)
      BY <1>2 DEF Rm
    <2>2. objects'[b][k] = [data |-> DeleteMarker, versions |-> Archive(b, k)]
      BY <2>1 DEF Put, TypeOK
    <2>3. DeleteMarker \in Version /\ DeleteMarker.id = NextVersion
      BY NextVersionType DEF DeleteMarker
    <2>4. Replaces(b, k, DeleteMarker)
      BY <1>2, <2>1, <2>2, <2>3 DEF Replaces, Exists, Put
    <2>5. QED
      BY <2>4 DEF KeyStep
  <1>3. CASE objects[b0][k0] # NoObject /\ b = b0 /\ k = k0 /\ versioning[b] # "Enabled"
    <2>1. objects'[b][k] = Shrink([data |-> NoData, versions |-> objects[b][k].versions])
      BY <1>3 DEF Rm, TypeOK
    <2>2. QED
      BY <1>3, <2>1 DEF KeyStep, Loses
  <1>4. QED
    BY <1>1, <1>2, <1>3

LEMMA RmVersionKeyStep ==
    ASSUME TypeOK, NEW b0 \in Buckets, NEW k0 \in Keys, NEW id, RmVersion(b0, k0, id),
           RemovesById(b0, k0, id), UNCHANGED versioning, NEW b \in Buckets, NEW k \in Keys
    PROVE  KeyStep(b, k)
  <1>1. CASE objects[b0][k0] = NoObject \/ ~(b = b0 /\ k = k0)
    <2>1. objects'[b][k] = objects[b][k]
      BY <1>1 DEF RmVersion, TypeOK
    <2>2. QED
      BY <2>1 DEF KeyStep, Keeps
  <1>2. CASE objects[b0][k0] # NoObject /\ b = b0 /\ k = k0
    <2>1. objects'[b][k] = Without(objects[b][k], id)
      BY <1>2 DEF RmVersion, TypeOK
    <2>2. QED
      BY <1>2, <2>1 DEF KeyStep, Loses
  <1>3. QED
    BY <1>1, <1>2

\* Every step of the backend is one of these for every key.
LEMMA NextKeyStep ==
    ASSUME TypeOK, [Next]_vars, NEW b \in Buckets, NEW k \in Keys
    PROVE  KeyStep(b, k)
  <1>1. CASE UNCHANGED <<versioning, objects>>
    BY <1>1 DEF KeyStep, Keeps
  <1>2. ASSUME NEW a \in Buckets, CreateBucket(a)
        PROVE  KeyStep(b, k)
    BY <1>2 DEF CreateBucket, Exists, TypeOK, KeyStep, Keeps
  <1>3. ASSUME NEW a \in Buckets, DeleteBucket(a) \/ ForceDeleteBucket(a)
        PROVE  KeyStep(b, k)
    <2>1. DropBucket(a)
      BY <1>3 DEF DeleteBucket, ForceDeleteBucket
    <2>2. QED
      BY <2>1 DEF DropBucket, TypeOK, KeyStep, Keeps
  <1>4. ASSUME NEW a \in Buckets, NEW enabled \in BOOLEAN, SetVersioningConfiguration(a, enabled)
        PROVE  KeyStep(b, k)
    BY <1>4 DEF SetVersioningConfiguration, Exists, TypeOK, KeyStep, Keeps
  <1>5. ASSUME NEW a \in Buckets, NEW j \in Keys, DeleteObject(a, j)
        PROVE  KeyStep(b, k)
    BY <1>5, RmKeyStep DEF DeleteObject
  <1>6. ASSUME NEW a \in Buckets, NEW j \in Keys, NEW id \in 1..lastVersion,
               DeleteObjectVersion(a, j, id)
        PROVE  KeyStep(b, k)
    <2>1. RmVersion(a, j, id) /\ RemovesById(a, j, id) /\ UNCHANGED versioning
      BY <1>6 DEF DeleteObjectVersion, RemovesById
    <2>2. QED
      BY <2>1, RmVersionKeyStep
  <1>7. ASSUME NEW c \in Clients, PutCommit(c)
        PROVE  KeyStep(b, k)
    <2> DEFINE item == [id |-> NextVersion, body |-> call[c].body, meta |-> call[c].meta,
                        deleteMarker |-> FALSE]
               b0 == call[c].bucket
               k0 == call[c].key
    <2>1. call[c] \in PutCall
      BY <1>7, CallSteps DEF PutCommit
    <2>2. b0 \in Buckets /\ k0 \in Keys /\ item \in Version /\ item.id = NextVersion
      BY <2>1, NextVersionType DEF PutCall, Version, Written
    <2>3. UNCHANGED versioning
      BY <1>7 DEF PutCommit
    <2>4. CASE UNCHANGED objects
      BY <1>1, <2>3, <2>4
    <2>5. CASE Exists(b0) /\ Put(b0, k0, item)
      <3>1. CASE b = b0 /\ k = k0
        <4>1. objects'[b][k] = [data |-> item, versions |-> Archive(b, k)]
          BY <2>5, <3>1 DEF Put, TypeOK
        <4>2. ~item.deleteMarker
          OBVIOUS
        <4> HIDE DEF item
        <4>3. Replaces(b, k, item)
          BY <2>2, <2>3, <2>5, <3>1, <4>1, <4>2 DEF Replaces, Put
        <4>4. QED
          BY <4>3 DEF KeyStep
      <3>2. CASE ~(b = b0 /\ k = k0)
        <4>1. objects'[b][k] = objects[b][k]
          BY <2>5, <3>2 DEF Put, TypeOK
        <4>2. QED
          BY <2>3, <4>1 DEF KeyStep, Keeps
      <3>3. QED
        BY <3>1, <3>2
    <2>6. QED
      BY <1>7, <2>4, <2>5 DEF PutCommit
  <1>8. ASSUME NEW c \in Clients, DeleteNext(c)
        PROVE  KeyStep(b, k)
    <2> DEFINE e == Head(call[c].batch)
               b0 == call[c].bucket
    <2>1. call[c] \in DeleteCall
      BY <1>8, CallSteps DEF DeleteNext
    <2>2. b0 \in Buckets /\ e \in Entry
      BY <2>1, HeadTailProperties DEF DeleteCall
    <2>3. e.key \in Keys /\ e = [key |-> e.key, id |-> e.id] /\ UNCHANGED versioning
      BY <1>8, <2>2 DEF Entry, DeleteNext
    <2>4. CASE Rm(b0, e.key)
      BY <2>2, <2>3, <2>4, RmKeyStep
    <2>5. CASE RmVersion(b0, e.key, e.id)
      <3>1. RemovesById(b0, e.key, e.id)
        BY <1>8, <2>3 DEF RemovesById
      <3> HIDE DEF e, b0
      <3>2. QED
        BY <2>2, <2>3, <2>5, <3>1, RmVersionKeyStep
    <2>6. QED
      BY <1>8, <2>4, <2>5 DEF DeleteNext
  <1>9. CASE UNCHANGED vars
    BY <1>1, <1>9 DEF vars
  <1>10. CASE BucketNext
    BY <1>10, <1>2, <1>3, <1>4, <1>5, <1>6 DEF BucketNext
  <1>11. CASE CallNext
    <2>1. PICK c \in Clients : PutCommit(c) \/ DeleteNext(c) \/ UNCHANGED <<versioning, objects>>
      BY <1>11 DEF CallNext, PutObject, CopyObject, Begin, DeleteMultiVersions, CopyRead, MergeMetadata
    <2>2. QED
      BY <1>1, <1>7, <1>8, <2>1
  <1>12. QED
    BY <1>9, <1>10, <1>11 DEF Next

-----------------------------------------------------------------------------
(* What a key holds.                                                       *)

\* A bucket that is not there stores nothing: CreateBucket starts from nothing.
AbsentIsEmpty ==
    \A b \in Buckets, k \in Keys : ~Exists(b) => objects[b][k] = NoObject

LEMMA AbsentStep ==
    ASSUME TypeOK, [Next]_vars, AbsentIsEmpty
    PROVE  AbsentIsEmpty'
  <1> SUFFICES ASSUME NEW b \in Buckets, NEW k \in Keys, versioning'[b] = "Absent"
               PROVE  objects'[b][k] = NoObject
    BY DEF AbsentIsEmpty, Exists
  <1>1. KeyStep(b, k)
    BY NextKeyStep
  <1>2. QED
    BY <1>1 DEF KeyStep, Keeps, Replaces, Loses, AbsentIsEmpty, Exists

\* What a deletion leaves under a key is not empty: Shrink drops the key instead.
LEMMA ShrinkLeavesSome ==
    ASSUME NEW d, NEW vs, Shrink([data |-> d, versions |-> vs]) # NoObject
    PROVE  /\ Shrink([data |-> d, versions |-> vs]) = [data |-> d, versions |-> vs]
           /\ d # NoData \/ vs # {}
  BY DEF Shrink

LEMMA WithoutLeavesSome ==
    ASSUME NEW o \in Object, NEW id, Without(o, id) # NoObject
    PROVE  /\ \/ /\ o.data # NoData /\ o.data.id = id
                 /\ Without(o, id) = [data |-> NoData, versions |-> o.versions]
              \/ /\ ~(o.data # NoData /\ o.data.id = id)
                 /\ Without(o, id) = [data |-> o.data,
                                      versions |-> {v \in o.versions : v.id # id}]
           /\ Without(o, id).data # NoData \/ Without(o, id).versions # {}
  <1>1. CASE o.data # NoData /\ o.data.id = id
    BY <1>1, ShrinkLeavesSome DEF Without
  <1>2. CASE ~(o.data # NoData /\ o.data.id = id)
    <2> DEFINE vs == {v \in o.versions : v.id # id}
    <2>1. Without(o, id) = Shrink([data |-> o.data, versions |-> vs])
      BY <1>2 DEF Without
    <2> HIDE DEF vs
    <2>2. Without(o, id) = [data |-> o.data, versions |-> vs] /\ (o.data # NoData \/ vs # {})
      BY <2>1, ShrinkLeavesSome
    <2>3. QED
      BY <1>2, <2>2 DEF vs
  <1>3. QED
    BY <1>1, <1>2

LEMMA NoEmptyStep ==
    ASSUME TypeOK, [Next]_vars, NoEmptyObject
    PROVE  NoEmptyObject'
  <1> SUFFICES ASSUME NEW b \in Buckets, NEW k \in Keys, objects'[b][k] # NoObject
               PROVE  objects'[b][k].data # NoData \/ objects'[b][k].versions # {}
    BY DEF NoEmptyObject, VersionsAt
  <1>1. KeyStep(b, k)
    BY NextKeyStep
  <1>2. CASE Keeps(b, k)
    BY <1>2 DEF Keeps, NoEmptyObject, VersionsAt
  <1>3. CASE \E item : Replaces(b, k, item)
    BY <1>3, NilAssumption DEF Replaces
  <1>4. CASE Loses(b, k)
    <2>1. objects[b][k] \in Object
      BY <1>4 DEF Loses, TypeOK
    <2>2. CASE objects'[b][k] = Shrink([data |-> NoData, versions |-> objects[b][k].versions])
      BY <2>2, ShrinkLeavesSome
    <2>3. CASE \E id : objects'[b][k] = Without(objects[b][k], id)
      BY <2>1, <2>3, WithoutLeavesSome
    <2>4. QED
      BY <1>4, <2>2, <2>3 DEF Loses
  <1>5. QED
    BY <1>1, <1>2, <1>3, <1>4 DEF KeyStep

\* GetObject on a key with a current version that is no delete marker.
LEMMA GetObjectOk ==
    ASSUME NEW b \in Buckets, NEW k \in Keys, Exists(b), objects[b][k] # NoObject
    PROVE  GetObject(b, k) = "ok" <=>
               objects[b][k].data # NoData /\ ~objects[b][k].data.deleteMarker
  BY DEF GetObject

LEMMA PlainStep ==
    ASSUME TypeOK, [Next]_vars, AbsentIsEmpty, NeverVersionedIsPlain
    PROVE  NeverVersionedIsPlain'
  <1> SUFFICES ASSUME NEW b \in Buckets, NEW k \in Keys,
                      versioning'[b] = "None", objects'[b][k] # NoObject
               PROVE  /\ objects'[b][k].versions = {}
                      /\ objects'[b][k].data # NoData
                      /\ ~objects'[b][k].data.deleteMarker
    BY DEF NeverVersionedIsPlain, GetObject, Exists
  <1>1. KeyStep(b, k)
    BY NextKeyStep
  <1>2. ASSUME versioning[b] = "None", objects[b][k] # NoObject
        PROVE  /\ objects[b][k].versions = {}
               /\ objects[b][k].data # NoData
               /\ ~objects[b][k].data.deleteMarker
    BY <1>2, GetObjectOk DEF NeverVersionedIsPlain, Exists
  <1>3. CASE Keeps(b, k)
    BY <1>2, <1>3 DEF Keeps, AbsentIsEmpty, Exists
  <1>4. ASSUME NEW item, Replaces(b, k, item)
        PROVE  /\ objects'[b][k].versions = {}
               /\ objects'[b][k].data # NoData
               /\ ~objects'[b][k].data.deleteMarker
    <2>1. versioning[b] = "None" /\ item \in Version /\ ~item.deleteMarker
      BY <1>4 DEF Replaces, Version, Written, Marker
    <2>2. Archive(b, k) = {}
      BY <1>2, <2>1 DEF Archive, ObjectAt
    <2>3. QED
      BY <1>4, <2>1, <2>2, NilAssumption DEF Replaces
  <1>5. CASE Loses(b, k)
    <2>1. objects[b][k] \in Object /\ objects[b][k].versions = {} /\ versioning[b] = "None"
      BY <1>2, <1>5 DEF Loses, TypeOK
    <2>2. CASE objects'[b][k] = Shrink([data |-> NoData, versions |-> objects[b][k].versions])
      BY <2>1, <2>2 DEF Shrink
    <2>3. CASE \E id : objects'[b][k] = Without(objects[b][k], id)
      <3>1. PICK id : objects'[b][k] = Without(objects[b][k], id)
        BY <2>3
      <3>2. objects'[b][k].data = objects[b][k].data /\ objects'[b][k].versions = {}
        BY <2>1, <3>1, WithoutLeavesSome
      <3>3. QED
        BY <1>2, <1>5, <2>1, <3>2 DEF Loses
    <2>4. QED
      BY <1>5, <2>2, <2>3 DEF Loses
  <1>6. QED
    BY <1>1, <1>3, <1>4, <1>5 DEF KeyStep

\* What a key holds is never nothing, and stays a plain object until versioning is
\* enabled.  That an absent bucket is empty is what a new bucket starts from.
KeyInv == TypeOK /\ AbsentIsEmpty /\ NoEmptyObject /\ NeverVersionedIsPlain

LEMMA KeyInvariant == Spec => []KeyInv
  <1>1. Init => KeyInv
    <2>1. Init => TypeOK
      BY BoundAssumption DEF Init, TypeOK, Statuses, Call
    <2>2. Init => \A b \in Buckets, k \in Keys : objects[b][k] = NoObject
      BY DEF Init
    <2>3. QED
      BY <2>1, <2>2 DEF KeyInv, AbsentIsEmpty, NoEmptyObject, NeverVersionedIsPlain
  <1>2. KeyInv /\ TypeOK' /\ [Next]_vars => KeyInv'
    BY AbsentStep, NoEmptyStep, PlainStep DEF KeyInv
  <1>3. QED
    BY <1>1, <1>2, TypeCorrect, PTL DEF Spec

\* A key is in bucket.objects only if a version of it is stored: what DeleteBucket
\* counts with objects.Len() is data.
THEOREM NoEmptyObjects == Spec => []NoEmptyObject
  BY KeyInvariant, PTL DEF KeyInv

\* Until versioning is enabled on a bucket, each of its keys has a current version
\* that is no delete marker and no archive: GetObject cannot reach obj.data = nil.
THEOREM NeverVersionedPlain == Spec => []NeverVersionedIsPlain
  BY KeyInvariant, PTL DEF KeyInv

\* A stored version leaves with its bucket, as the current version of a bucket that
\* is not Enabled, or because a deletion named its ID: no put, no status change and
\* no other client's batch takes one away.
THEOREM LeaveOnlyWhenAsked == Spec => VersionsLeaveOnlyWhenAsked
  <1> DEFINE Asked == \A b \in Buckets, k \in Keys :
                         \A v \in VersionsAt(b, k) \ VersionsAt(b, k)' :
                            \/ versioning'[b] = "Absent"
                            \/ versioning[b] # "Enabled" /\ v = objects[b][k].data
                            \/ RemovesById(b, k, v.id)
  <1>1. TypeOK /\ [Next]_vars => [Asked]_vars
    <2> SUFFICES ASSUME TypeOK, [Next]_vars, NEW b \in Buckets, NEW k \in Keys,
                        NEW v \in VersionsAt(b, k) \ VersionsAt(b, k)'
                 PROVE  \/ versioning'[b] = "Absent"
                        \/ versioning[b] # "Enabled" /\ v = objects[b][k].data
                        \/ RemovesById(b, k, v.id)
      OBVIOUS
    <2>1. KeyStep(b, k)
      BY NextKeyStep
    <2>2. /\ objects[b][k] # NoObject
          /\ objects[b][k] \in Object
          /\ v # NoData
          /\ v \in objects[b][k].versions \/ v = objects[b][k].data
      BY NilAssumption DEF VersionsAt, TypeOK, Object
    <2>3. objects'[b][k] # objects[b][k]
      BY DEF VersionsAt
    <2>4. ASSUME objects'[b][k] # NoObject
          PROVE  v \notin objects'[b][k].versions /\ v # objects'[b][k].data
      BY <2>2, <2>4 DEF VersionsAt
    <2>5. ASSUME NEW item, Replaces(b, k, item)
          PROVE  versioning[b] # "Enabled" /\ v = objects[b][k].data
      <3>1. [data |-> item, versions |-> Archive(b, k)] # NoObject
        BY <2>5, NilAssumption, ObjectAtType DEF Replaces, Object
      <3>2. v \notin Archive(b, k)
        BY <2>4, <2>5, <3>1 DEF Replaces
      <3>3. QED
        BY <2>2, <3>2 DEF Archive, ObjectAt
    <2>6. ASSUME objects'[b][k] = Shrink([data |-> NoData, versions |-> objects[b][k].versions])
          PROVE  v = objects[b][k].data
      <3>1. CASE objects'[b][k] = NoObject
        <4>1. [data |-> NoData, versions |-> objects[b][k].versions] # NoObject
          BY <2>2, NilAssumption DEF Object
        <4>2. objects[b][k].versions = {}
          BY <2>6, <3>1, <4>1 DEF Shrink
        <4>3. QED
          BY <2>2, <4>2
      <3>2. CASE objects'[b][k] # NoObject
        BY <2>2, <2>4, <2>6, <3>2, ShrinkLeavesSome
      <3>3. QED
        BY <3>1, <3>2
    <2>7. ASSUME NEW id, objects'[b][k] = Without(objects[b][k], id)
          PROVE  v.id = id
      <3> DEFINE o == objects[b][k]
      <3>1. CASE o.data # NoData /\ o.data.id = id
        <4>1. objects'[b][k] = Shrink([data |-> NoData, versions |-> o.versions])
          BY <2>7, <3>1 DEF Without
        <4>2. v = o.data
          BY <2>6, <4>1
        <4>3. QED
          BY <3>1, <4>2
      <3>2. CASE ~(o.data # NoData /\ o.data.id = id)
        <4> DEFINE kept == [data |-> o.data, versions |-> {w \in o.versions : w.id # id}]
        <4>1. objects'[b][k] = Shrink(kept)
          BY <2>7, <3>2 DEF Without
        <4>2. kept # NoObject
          BY <2>2, NilAssumption DEF Object
        <4>3. CASE objects'[b][k] = NoObject
          <5>1. o.data = NoData /\ {w \in o.versions : w.id # id} = {}
            BY <4>1, <4>2, <4>3 DEF Shrink
          <5>2. QED
            BY <2>2, <5>1
        <4>4. CASE objects'[b][k] # NoObject
          <5>1. objects'[b][k] = kept
            BY <4>1, <4>4 DEF Shrink
          <5>2. QED
            BY <2>2, <2>4, <4>4, <5>1
        <4>5. QED
          BY <4>3, <4>4
      <3>3. QED
        BY <3>1, <3>2
    <2>8. CASE objects'[b][k] = NoObject /\ versioning'[b] = "Absent"
      BY <2>8
    <2>9. CASE Loses(b, k)
      BY <2>6, <2>7, <2>9 DEF Loses
    <2>10. QED
      BY <2>1, <2>3, <2>5, <2>8, <2>9 DEF KeyStep, Keeps
  <1>2. QED
    BY <1>1, TypeCorrect, PTL DEF Spec, VersionsLeaveOnlyWhenAsked

-----------------------------------------------------------------------------
(* What a put returned, and what it merged.                                *)

\* Every version has an ID from 1: 0 stands for none in an ObjectID.
IdsPositive ==
    \A b \in Buckets, k \in Keys : \A v \in VersionsAt(b, k) : v.id >= 1

\* A put returns an ID the generator has issued.
AckedIssued == \A a \in acked : a.version.id <= lastVersion

\* A put merged from a version the generator had issued.
SeenIssued == \A c \in Clients : call[c].step = "put" => call[c].seen <= lastVersion

\* What a step acknowledges is what it stores.
Acknowledges(b, k, item) ==
    /\ Stores(b, k, item)
    /\ acked' \subseteq acked \cup {[bucket |-> b, key |-> k, version |-> item]}

LEMMA AckedStep ==
    ASSUME TypeOK, [Next]_vars
    PROVE  \/ acked' \subseteq acked
           \/ \E b \in Buckets, k \in Keys, item \in Version : Acknowledges(b, k, item)
  <1>1. CASE UNCHANGED vars
    BY <1>1 DEF vars
  <1>2. CASE BucketNext
    BY <1>2 DEF BucketNext, CreateBucket, DeleteBucket, ForceDeleteBucket, DropBucket,
                SetVersioningConfiguration, DeleteObject, DeleteObjectVersion
  <1>3. ASSUME NEW c \in Clients, PutCommit(c)
        PROVE  \/ acked' \subseteq acked
               \/ \E b \in Buckets, k \in Keys, item \in Version : Acknowledges(b, k, item)
    <2> DEFINE item == [id |-> NextVersion, body |-> call[c].body, meta |-> call[c].meta,
                        deleteMarker |-> FALSE]
               b0 == call[c].bucket
               k0 == call[c].key
    <2>1. call[c] \in PutCall
      BY <1>3, CallSteps DEF PutCommit
    <2>2. b0 \in Buckets /\ k0 \in Keys /\ item \in Version /\ item.id = NextVersion
      BY <2>1, NextVersionType DEF PutCall, Version, Written
    <2>3. \/ UNCHANGED acked
          \/ /\ Put(b0, k0, item)
             /\ acked' \subseteq acked \cup {[bucket |-> b0, key |-> k0, version |-> item]}
      BY <1>3 DEF PutCommit
    <2> HIDE DEF item, b0, k0
    <2>4. QED
      BY <2>2, <2>3 DEF Acknowledges, Stores, Put
  <1>4. CASE CallNext
    <2>1. PICK c \in Clients : PutCommit(c) \/ acked' \subseteq acked
      BY <1>4 DEF CallNext, PutObject, CopyObject, Begin, DeleteMultiVersions, CopyRead,
                  MergeMetadata, DeleteNext
    <2>2. QED
      BY <1>3, <2>1
  <1>5. QED
    BY <1>1, <1>2, <1>4 DEF Next

\* IDs are issued from 1 on.
LEMMA IdsPositiveStep ==
    ASSUME TypeOK, Effect, IdsPositive
    PROVE  IdsPositive'
  <1> SUFFICES ASSUME NEW b \in Buckets, NEW k \in Keys, NEW v \in VersionsAt(b, k)'
               PROVE  v.id >= 1
    BY DEF IdsPositive
  <1>1. CASE Shrinks(b, k)
    BY <1>1, VersionsAfter DEF IdsPositive
  <1>2. ASSUME NEW b0 \in Buckets, NEW k0 \in Keys, NEW item \in Version, Stores(b0, k0, item)
        PROVE  v.id >= 1
    <2>1. v \in VersionsAt(b, k) \/ v = item
      BY <1>2, VersionsAfter
    <2>2. item.id >= 1
      BY <1>2 DEF Stores, NextVersion, TypeOK
    <2>3. QED
      BY <2>1, <2>2 DEF IdsPositive
  <1>3. QED
    BY <1>1, <1>2 DEF Effect

\* The counter never goes back.
LEMMA CounterGrows ==
    ASSUME TypeOK, Effect
    PROVE  lastVersion' \in Int /\ lastVersion <= lastVersion'
  BY DEF TypeOK, Effect, Stores, NextVersion

\* An acknowledged ID is below the next one, and a new acknowledgement names the only
\* version with its ID.
LEMMA AckedNamesStep ==
    ASSUME TypeOK, TypeOK', [Next]_vars, Effect, IdsIssued, AckedIssued, AckedNamesOneVersion
    PROVE  AckedIssued' /\ AckedNamesOneVersion'
  <1> SUFFICES ASSUME NEW a \in acked'
               PROVE  /\ a.version.id <= lastVersion'
                      /\ \A b \in Buckets, k \in Keys : \A v \in VersionsAt(b, k)' :
                            v.id = a.version.id => a = [bucket |-> b, key |-> k, version |-> v]
    BY DEF AckedIssued, AckedNamesOneVersion
  <1>1. lastVersion \in Int /\ lastVersion' \in Int /\ lastVersion <= lastVersion'
    BY CounterGrows DEF TypeOK
  <1>2. CASE a \in acked
    <2>1. a.version.id \in Int /\ a.version.id <= lastVersion
      <3>1. a.version \in Version
        BY <1>2 DEF TypeOK, Acked
      <3>2. a.version.id \in Nat
        BY <3>1 DEF Version, Written, Marker
      <3>3. QED
        BY <1>2, <3>2 DEF AckedIssued
    <2>2. ASSUME NEW b \in Buckets, NEW k \in Keys, NEW v \in VersionsAt(b, k)',
                 v.id = a.version.id
          PROVE  a = [bucket |-> b, key |-> k, version |-> v]
      <3>1. v \in VersionsAt(b, k)
        <4>1. CASE Shrinks(b, k)
          BY <4>1, VersionsAfter
        <4>2. ASSUME NEW b0 \in Buckets, NEW k0 \in Keys, NEW item \in Version,
                     Stores(b0, k0, item)
              PROVE  v \in VersionsAt(b, k)
          <5>1. v # item
            BY <2>1, <2>2, <4>2, <1>1 DEF Stores, NextVersion
          <5>2. QED
            BY <4>2, <5>1, VersionsAfter
        <4>3. QED
          BY <4>1, <4>2 DEF Effect
      <3>2. QED
        BY <1>2, <2>2, <3>1 DEF AckedNamesOneVersion
    <2>3. QED
      BY <1>1, <2>1, <2>2
  <1>3. CASE a \notin acked
    <2>1. PICK b0 \in Buckets, k0 \in Keys, item \in Version : Acknowledges(b0, k0, item)
      BY <1>3, AckedStep
    <2>2. a = [bucket |-> b0, key |-> k0, version |-> item] /\ Stores(b0, k0, item)
      BY <1>3, <2>1 DEF Acknowledges
    <2>3. item.id = lastVersion + 1 /\ lastVersion' = lastVersion + 1
      BY <2>2 DEF Stores, NextVersion
    <2>4. ASSUME NEW b \in Buckets, NEW k \in Keys, NEW v \in VersionsAt(b, k)',
                 v.id = item.id
          PROVE  v = item /\ b = b0 /\ k = k0
      <3>1. v \notin VersionsAt(b, k)
        BY <1>1, <2>3, <2>4 DEF IdsIssued
      <3>2. QED
        BY <2>2, <3>1, VersionsAfter
    <2>5. QED
      BY <1>1, <2>2, <2>3, <2>4
  <1>4. QED
    BY <1>2, <1>3

\* A call that waits to store waited before the step, or merged in it.
LEMMA PutCallStep ==
    ASSUME TypeOK, [Next]_vars, NEW c \in Clients, call'[c].step = "put"
    PROVE  call'[c] = call[c] \/ MergeMetadata(c)
  <1>1. CASE UNCHANGED call
    BY <1>1
  <1>2. ASSUME NEW d \in Clients, NEW new, call' = [call EXCEPT ![d] = new], new.step # "put"
        PROVE  call'[c] = call[c]
    BY <1>2 DEF TypeOK
  <1>3. ASSUME NEW d \in Clients, MergeMetadata(d)
        PROVE  call'[c] = call[c] \/ MergeMetadata(c)
    BY <1>3 DEF MergeMetadata, TypeOK
  <1>4. ASSUME NEW d \in Clients, CopyRead(d)
        PROVE  call'[c] = call[c]
    <2> DEFINE old == call[d]
               new == IF GetObject(old.srcBucket, old.srcKey) = "ok"
                      THEN [step |-> "merge", bucket |-> old.bucket, key |-> old.key,
                            body |-> objects[old.srcBucket][old.srcKey].data.body,
                            meta |-> old.meta]
                      ELSE Idle
    <2>1. new.step # "put" /\ call' = [call EXCEPT ![d] = new]
      BY <1>4 DEF CopyRead, Idle
    <2> HIDE DEF new
    <2>2. QED
      BY <1>2, <2>1
  <1>5. ASSUME NEW d \in Clients, PutCommit(d)
        PROVE  call'[c] = call[c]
    BY <1>2, <1>5 DEF PutCommit, Idle
  <1>6. ASSUME NEW d \in Clients, DeleteNext(d)
        PROVE  call'[c] = call[c]
    <2> DEFINE rest == Tail(call[d].batch)
               new == IF rest = <<>> THEN Idle
                      ELSE [step |-> "delete", bucket |-> call[d].bucket, batch |-> rest]
    <2>1. new.step # "put" /\ call' = [call EXCEPT ![d] = new]
      BY <1>6 DEF DeleteNext, Idle
    <2> HIDE DEF new
    <2>2. QED
      BY <1>2, <2>1
  <1>7. CASE BucketNext
    BY <1>1, <1>7 DEF BucketNext, CreateBucket, DeleteBucket, ForceDeleteBucket, DropBucket,
                      SetVersioningConfiguration, DeleteObject, DeleteObjectVersion
  <1>8. CASE CallNext
    <2>1. PICK d \in Clients :
             \/ \E b \in Buckets, k \in Keys :
                   \/ \E body \in Bodies, meta \in Metas \cup {NoMeta} :
                         PutObject(d, b, k, body, meta)
                   \/ \E sb \in Buckets, sk \in Keys, meta \in Metas \cup {NoMeta} :
                         CopyObject(d, sb, sk, b, k, meta)
             \/ \E b \in Buckets, batch \in Batches : DeleteMultiVersions(d, b, batch)
             \/ CopyRead(d)
             \/ MergeMetadata(d)
             \/ PutCommit(d)
             \/ DeleteNext(d)
      BY <1>8 DEF CallNext
    <2>2. ASSUME NEW b \in Buckets, NEW k \in Keys, NEW body, NEW meta,
                 PutObject(d, b, k, body, meta)
          PROVE  call'[c] = call[c]
      BY <1>2, <2>2 DEF PutObject, Begin
    <2>3. ASSUME NEW b \in Buckets, NEW k \in Keys, NEW sb \in Buckets, NEW sk \in Keys,
                 NEW meta, CopyObject(d, sb, sk, b, k, meta)
          PROVE  call'[c] = call[c]
      BY <1>2, <2>3 DEF CopyObject, Begin
    <2>4. ASSUME NEW b \in Buckets, NEW batch, DeleteMultiVersions(d, b, batch)
          PROVE  call'[c] = call[c]
      BY <1>2, <2>4 DEF DeleteMultiVersions
    <2>5. QED
      BY <1>3, <1>4, <1>5, <1>6, <2>1, <2>2, <2>3, <2>4
  <1>9. QED
    BY <1>1, <1>7, <1>8 DEF Next, vars

\* What the metadata of a put is, right after the merge.
LEMMA MergedFrom ==
    ASSUME TypeOK, NEW c \in Clients, MergeMetadata(c), call'[c].step = "put"
    PROVE  LET b == call'[c].bucket
               k == call'[c].key IN
           /\ b \in Buckets /\ k \in Keys
           /\ UNCHANGED <<objects, lastVersion>>
           /\ \/ /\ GetObject(b, k) = "ok"
                 /\ call'[c].seen = objects[b][k].data.id
                 /\ call'[c].meta = Merge(call'[c].asked, objects[b][k].data.meta)
              \/ call'[c].seen = 0
  <1>1. call[c] \in MergeCall
    BY CallSteps DEF MergeMetadata
  <1>2. QED
    BY <1>1 DEF MergeMetadata, MergeCall, TypeOK, Idle

\* The version a merge read keeps its ID to itself: a later current version of the key
\* has a larger one.
LEMMA MergeStep ==
    ASSUME TypeOK, TypeOK', [Next]_vars, Effect, IdsIssued, IdsPositive, SeenIssued, UnracedMerge
    PROVE  SeenIssued' /\ UnracedMerge'
  <1> SUFFICES ASSUME NEW c \in Clients, call'[c].step = "put"
               PROVE  LET o == objects'[call'[c].bucket][call'[c].key] IN
                      /\ call'[c].seen <= lastVersion'
                      /\ o # NoObject /\ o.data # NoData /\ o.data.id = call'[c].seen
                            => call'[c].meta = Merge(call'[c].asked, o.data.meta)
    BY DEF SeenIssued, UnracedMerge
  <1> DEFINE b == call'[c].bucket
             k == call'[c].key
  <1>1. lastVersion \in Nat /\ lastVersion' \in Int /\ lastVersion <= lastVersion'
    BY CounterGrows DEF TypeOK
  <1>2. CASE call'[c] = call[c]
    <2>1. call[c] \in PutCall /\ call[c].seen <= lastVersion
      BY <1>2, CallSteps DEF SeenIssued
    <2>2. b \in Buckets /\ k \in Keys /\ call'[c].seen \in Nat /\ call'[c].seen <= lastVersion
      BY <1>2, <2>1 DEF PutCall
    <2>3. ASSUME objects'[b][k] # NoObject, objects'[b][k].data # NoData,
                 objects'[b][k].data.id = call'[c].seen
          PROVE  objects[b][k] # NoObject /\ objects[b][k].data = objects'[b][k].data
      <3>1. CASE Shrinks(b, k)
        BY <2>3, <3>1 DEF Shrinks
      <3>2. ASSUME NEW b0 \in Buckets, NEW k0 \in Keys, NEW item \in Version,
                   Stores(b0, k0, item)
            PROVE  objects'[b][k] = objects[b][k]
        <4>1. CASE b = b0 /\ k = k0
          <5>1. objects'[b][k].data.id = lastVersion + 1
            BY <2>2, <3>2, <4>1 DEF Stores, NextVersion, TypeOK
          <5>2. QED
            BY <1>1, <2>2, <2>3, <5>1
        <4>2. CASE ~(b = b0 /\ k = k0)
          BY <2>2, <3>2, <4>2 DEF Stores, TypeOK
        <4>3. QED
          BY <4>1, <4>2
      <3>3. QED
        BY <2>2, <2>3, <3>1, <3>2 DEF Effect
    <2>4. QED
      BY <1>1, <1>2, <2>2, <2>3 DEF UnracedMerge
  <1>3. CASE MergeMetadata(c)
    <2>1. /\ b \in Buckets /\ k \in Keys
          /\ UNCHANGED <<objects, lastVersion>>
          /\ \/ /\ GetObject(b, k) = "ok"
                /\ call'[c].seen = objects[b][k].data.id
                /\ call'[c].meta = Merge(call'[c].asked, objects[b][k].data.meta)
             \/ call'[c].seen = 0
      BY <1>3, MergedFrom
    <2> HIDE DEF b, k
    <2>2. CASE call'[c].seen = 0
      <3>1. ASSUME objects[b][k] # NoObject, objects[b][k].data # NoData
            PROVE  objects[b][k].data.id # 0
        BY <2>1, <3>1 DEF IdsPositive, VersionsAt
      <3>2. QED
        BY <1>1, <2>1, <2>2, <3>1 DEF b, k
    <2>3. CASE /\ GetObject(b, k) = "ok"
               /\ call'[c].seen = objects[b][k].data.id
               /\ call'[c].meta = Merge(call'[c].asked, objects[b][k].data.meta)
      <3>1. objects[b][k].data \in VersionsAt(b, k)
        BY <2>1, <2>3 DEF GetObject, VersionsAt
      <3>2. call'[c].seen <= lastVersion
        BY <2>1, <2>3, <3>1 DEF IdsIssued
      <3>3. QED
        BY <2>1, <2>3, <3>2 DEF b, k
    <2>4. QED
      BY <2>1, <2>2, <2>3
  <1>4. QED
    BY <1>2, <1>3, PutCallStep

\* What the clients know of the store: acknowledged and merged-from versions carry IDs
\* already issued, so the IDs of later versions cannot be mistaken for theirs.
ClientInv == IdInv /\ IdsPositive /\ AckedIssued /\ AckedNamesOneVersion
                   /\ SeenIssued /\ UnracedMerge

LEMMA ClientInvariant == Spec => []ClientInv
  <1>1. Init => IdsPositive /\ AckedIssued /\ AckedNamesOneVersion /\ SeenIssued /\ UnracedMerge
    <2>1. Init => \A b \in Buckets, k \in Keys : VersionsAt(b, k) = {}
      BY DEF Init, VersionsAt
    <2>2. Init => \A c \in Clients : call[c].step # "put"
      BY DEF Init, Idle
    <2>3. Init => acked = {}
      BY DEF Init
    <2>4. QED
      BY <2>1, <2>2, <2>3 DEF IdsPositive, AckedIssued, AckedNamesOneVersion, SeenIssued, UnracedMerge
  <1>2. ClientInv /\ IdInv' /\ [Next]_vars => ClientInv'
    <2> SUFFICES ASSUME ClientInv, IdInv', [Next]_vars PROVE ClientInv'
      OBVIOUS
    <2>1. Effect
      BY NextEffect DEF ClientInv, IdInv
    <2>2. QED
      BY <2>1, IdsPositiveStep, AckedNamesStep, MergeStep DEF ClientInv, IdInv
  <1>3. QED
    BY <1>1, <1>2, IdInvariant, PTL DEF Spec, ClientInv

\* What a client was told is never forgotten, not with the bucket and not by a deletion.
AckedIsKept == [][acked \subseteq acked']_vars

\* No action takes an acknowledgement back.
LEMMA AckedKeptStep ==
    ASSUME [Next]_vars
    PROVE  acked \subseteq acked'
  <1>1. CASE UNCHANGED vars
    BY <1>1 DEF vars
  <1>2. CASE BucketNext
    BY <1>2 DEF BucketNext, CreateBucket, DeleteBucket, ForceDeleteBucket, DropBucket,
                SetVersioningConfiguration, DeleteObject, DeleteObjectVersion
  <1>3. ASSUME NEW c \in Clients, PutCommit(c)
        PROVE  acked \subseteq acked'
    BY <1>3 DEF PutCommit
  <1>4. CASE CallNext
    <2>1. PICK c \in Clients : PutCommit(c) \/ UNCHANGED acked
      BY <1>4 DEF CallNext, PutObject, CopyObject, Begin, DeleteMultiVersions, CopyRead,
                  MergeMetadata, DeleteNext
    <2>2. QED
      BY <1>3, <2>1
  <1>5. QED
    BY <1>1, <1>2, <1>4 DEF Next

\* An ID that a put ever returned never comes to name other content, another key or
\* another bucket; and acked keeps all of them, so this is also said of the versions
\* that were overwritten, deleted by ID or dropped with their bucket since.
THEOREM AckedNamesOne == Spec => []AckedNamesOneVersion /\ AckedIsKept
  <1>1. Spec => []AckedNamesOneVersion
    BY ClientInvariant, PTL DEF ClientInv
  <1>2. Spec => AckedIsKept
    BY AckedKeptStep, PTL DEF Spec, AckedIsKept
  <1>3. QED
    BY <1>1, <1>2

\* A put whose merge read the version that is still current stores the request's
\* metadata over that version's: between MergeMetadata and the put only a write to the
\* same key, never another key's or another bucket's, makes the merge stale.
THEOREM MergeUnraced == Spec => []UnracedMerge
  BY ClientInvariant, PTL DEF ClientInv

-----------------------------------------------------------------------------
(* The object store: what clients see of a state.                          *)

\* The store and the writes that clients see.
Shown  == [b \in Buckets |-> FoundIn(b)]
Writes == [c \in Clients |-> WriteOf(c)]

-----------------------------------------------------------------------------
(* What a state shows.                                                     *)

\* An object is found exactly where GetObject succeeds.
LEMMA FoundStored ==
    ASSUME TypeOK, NEW b \in Buckets, NEW k \in Keys
    PROVE  /\ Found(b, k) \in Store!Stored \cup {NoObject}
           /\ Found(b, k) # NoObject <=> GetObject(b, k) = "ok"
           /\ GetObject(b, k) = "ok" => Exists(b)
  <1>1. CASE GetObject(b, k) = "ok"
    <2>1. Found(b, k) \in Store!Stored
      BY <1>1, GetObjectFinds DEF Found, Written, Store!Stored, Store!Headers
    <2>2. QED
      BY <1>1, <2>1, StoreAssumption DEF GetObject
  <1>2. CASE GetObject(b, k) # "ok"
    BY <1>2 DEF Found
  <1>3. QED
    BY <1>1, <1>2

\* A bucket is shown exactly if it exists, an object exactly if GetObject finds it.
LEMMA ShownHas ==
    ASSUME TypeOK, NEW b \in Buckets, NEW k \in Keys
    PROVE  /\ Shown[b] = NoBucket <=> ~Exists(b)
           /\ Exists(b) => Shown[b][k] = Found(b, k)
           /\ Store!Visible(b, k) <=> GetObject(b, k) = "ok"
           /\ GetObject(b, k) = "ok" =>
                 Shown[b][k] = [body |-> objects[b][k].data.body,
                                meta |-> objects[b][k].data.meta]
  <1>1. Exists(b) => FoundIn(b) \in [Keys -> Store!Stored \cup {NoObject}]
    BY FoundStored DEF FoundIn
  <1>2. Shown[b] = NoBucket <=> ~Exists(b)
    BY <1>1, StoreAssumption DEF Shown, FoundIn
  <1>3. Exists(b) => Shown[b][k] = Found(b, k)
    BY DEF Shown, FoundIn
  <1>4. Store!Visible(b, k) <=> Shown[b] # NoBucket /\ Shown[b][k] # NoObject
    BY DEF Store!Visible, Shown
  <1>5. Store!Visible(b, k) <=> GetObject(b, k) = "ok"
    BY <1>2, <1>3, <1>4, FoundStored
  <1>6. QED
    BY <1>2, <1>3, <1>5, FoundStored DEF Found

\* Only a write that has not ended is one.
LEMMA WritesHave ==
    ASSUME TypeOK, NEW c \in Clients
    PROVE  /\ Writes[c] = WriteOf(c)
           /\ call[c] = Idle => WriteOf(c) = NoWrite
           /\ call[c].step = "delete" => WriteOf(c) = NoWrite
           /\ call[c].step = "copy" => WriteOf(c) # NoWrite /\ WriteOf(c) = call[c]
           /\ call[c].step = "merge" => WriteOf(c) # NoWrite /\ WriteOf(c) = call[c]
           /\ call[c].step = "put" =>
                 /\ WriteOf(c) # NoWrite
                 /\ WriteOf(c) = [step |-> "put", bucket |-> call[c].bucket, key |-> call[c].key,
                                  body |-> call[c].body, meta |-> call[c].meta]
  <1>1. Writes[c] = WriteOf(c)
    BY DEF Writes
  <1>2. call[c] = Idle \/ call[c].step = "delete" => WriteOf(c) = NoWrite
    BY DEF WriteOf, Idle
  <1>3. CASE call[c].step = "copy"
    <2>1. call[c] \in CopyCall /\ WriteOf(c) = call[c]
      BY <1>3, CallSteps DEF WriteOf, CopyCall
    <2>2. call[c] \in Store!Copy
      BY <2>1 DEF CopyCall, Store!Copy, Store!Headers
    <2>3. QED
      BY <1>1, <1>3, <2>1, <2>2, StoreAssumption DEF Idle
  <1>4. CASE call[c].step = "merge"
    <2>1. call[c] \in MergeCall /\ WriteOf(c) = call[c]
      BY <1>4, CallSteps DEF WriteOf, MergeCall
    <2>2. call[c] \in Store!Write
      BY <2>1 DEF MergeCall, Store!Write, Store!Headers
    <2>3. QED
      BY <1>1, <1>4, <2>1, <2>2, StoreAssumption DEF Idle
  <1>5. CASE call[c].step = "put"
    <2>1. /\ call[c] \in PutCall
          /\ WriteOf(c) = [step |-> "put", bucket |-> call[c].bucket, key |-> call[c].key,
                           body |-> call[c].body, meta |-> call[c].meta]
      BY <1>5, CallSteps DEF WriteOf
    <2>2. WriteOf(c) \in Store!Write
      BY <2>1 DEF PutCall, Store!Write, Store!Headers
    <2>3. QED
      BY <1>1, <1>5, <2>1, <2>2, StoreAssumption DEF Idle
  <1>6. QED
    BY <1>1, <1>2, <1>3, <1>4, <1>5

-----------------------------------------------------------------------------
(* What a step changes of what is shown.                                   *)

\* A step that leaves versioning and objects shows the same store.
LEMMA ShownSame ==
    ASSUME UNCHANGED <<versioning, objects>>
    PROVE  UNCHANGED Shown
  BY DEF Shown, FoundIn, Found, GetObject, Exists

\* A step that changes one bucket at most.
LEMMA ShownOne ==
    ASSUME NEW b0 \in Buckets,
           \A b \in Buckets \ {b0} : objects'[b] = objects[b] /\ versioning'[b] = versioning[b]
    PROVE  Shown' = [Shown EXCEPT ![b0] = FoundIn(b0)']
  <1>1. ASSUME NEW b \in Buckets \ {b0}
        PROVE  FoundIn(b)' = FoundIn(b)
    BY <1>1 DEF FoundIn, Found, GetObject, Exists
  <1>2. QED
    BY <1>1 DEF Shown

\* A step that changes one call at most.
LEMMA WritesOne ==
    ASSUME TypeOK, NEW c \in Clients, NEW new, call' = [call EXCEPT ![c] = new]
    PROVE  /\ call'[c] = new
           /\ Writes' = [Writes EXCEPT ![c] = WriteOf(c)']
  <1>1. ASSUME NEW d \in Clients \ {c}
        PROVE  WriteOf(d)' = WriteOf(d)
    <2>1. call'[d] = call[d]
      BY <1>1 DEF TypeOK
    <2>2. QED
      BY <2>1 DEF WriteOf
  <1>2. QED
    BY <1>1 DEF Writes, TypeOK

LEMMA WritesSame ==
    ASSUME UNCHANGED call
    PROVE  UNCHANGED Writes
  BY DEF Writes, WriteOf

\* What deletions erase: the key shows nothing afterwards, or what it showed before.
Erases(b, k) ==
    /\ UNCHANGED versioning
    /\ \A a \in Buckets, j \in Keys : ~(a = b /\ j = k) => objects'[a][j] = objects[a][j]
    /\ Found(b, k)' \in {NoObject, Found(b, k)}

\* No deletion uncovers an older version: with the current one gone, obj.data is nil,
\* or is a delete marker.
LEMMA RmErases ==
    ASSUME KeyInv, NEW b \in Buckets, NEW k \in Keys, Rm(b, k), UNCHANGED versioning
    PROVE  Erases(b, k)
  <1> USE DEF KeyInv
  <1>1. \A a \in Buckets, j \in Keys : ~(a = b /\ j = k) => objects'[a][j] = objects[a][j]
    BY DEF Rm, Put, TypeOK
  <1>2. CASE objects[b][k] = NoObject
    <2>1. Found(b, k)' = Found(b, k)
      BY <1>2 DEF Rm, Found, GetObject, Exists
    <2>2. QED
      BY <1>1, <2>1 DEF Erases
  <1>3. CASE objects[b][k] # NoObject /\ versioning[b] = "Enabled"
    <2>1. objects'[b][k] = [data |-> DeleteMarker, versions |-> Archive(b, k)]
      BY <1>3 DEF Rm, Put, TypeOK
    <2>2. DeleteMarker.deleteMarker
      BY DEF DeleteMarker
    <2>3. Found(b, k)' = NoObject
      BY <2>1, <2>2 DEF Found, GetObject
    <2>4. QED
      BY <1>1, <2>3 DEF Erases
  <1>4. CASE objects[b][k] # NoObject /\ versioning[b] # "Enabled"
    <2>1. objects'[b][k] = Shrink([data |-> NoData, versions |-> objects[b][k].versions])
      BY <1>4 DEF Rm, TypeOK
    <2>2. Found(b, k)' = NoObject
      BY <2>1 DEF Shrink, Found, GetObject
    <2>3. QED
      BY <1>1, <2>2 DEF Erases
  <1>5. QED
    BY <1>2, <1>3, <1>4

LEMMA RmVersionErases ==
    ASSUME KeyInv, NEW b \in Buckets, NEW k \in Keys, NEW id, RmVersion(b, k, id),
           UNCHANGED versioning
    PROVE  Erases(b, k)
  <1> USE DEF KeyInv
  <1>1. \A a \in Buckets, j \in Keys : ~(a = b /\ j = k) => objects'[a][j] = objects[a][j]
    BY DEF RmVersion, TypeOK
  <1>2. CASE objects[b][k] = NoObject
    <2>1. Found(b, k)' = Found(b, k)
      BY <1>2 DEF RmVersion, Found, GetObject, Exists
    <2>2. QED
      BY <1>1, <2>1 DEF Erases
  <1>3. CASE objects[b][k] # NoObject
    <2> DEFINE o == objects[b][k]
    <2>1. objects'[b][k] = Without(o, id) /\ o \in Object
      BY <1>3 DEF RmVersion, TypeOK
    <2>2. CASE objects'[b][k] = NoObject \/ objects'[b][k].data = NoData
      <3>1. Found(b, k)' = NoObject
        BY <2>2 DEF Found, GetObject
      <3>2. QED
        BY <1>1, <3>1 DEF Erases
    <2>3. CASE ~(objects'[b][k] = NoObject \/ objects'[b][k].data = NoData)
      <3>1. objects'[b][k].data = o.data
        BY <2>1, <2>3, WithoutLeavesSome
      <3>2. Found(b, k)' = Found(b, k)
        BY <1>3, <2>3, <3>1 DEF Found, GetObject, Exists
      <3>3. QED
        BY <1>1, <3>2 DEF Erases
    <2>4. QED
      BY <2>2, <2>3
  <1>4. QED
    BY <1>2, <1>3

\* An erasure of one key is a Vanish of the store, or nothing.
LEMMA ErasesRefines ==
    ASSUME KeyInv, NEW b \in Buckets, NEW k \in Keys, Erases(b, k), UNCHANGED Writes
    PROVE  Store!StoreNext \/ UNCHANGED <<Shown, Writes>>
  <1> USE DEF KeyInv
  <1>1. ASSUME NEW j \in Keys, j # k
        PROVE  Found(b, j)' = Found(b, j)
    BY <1>1 DEF Erases, Found, GetObject, Exists
  <1>2. \A a \in Buckets \ {b} : FoundIn(a)' = FoundIn(a)
    <2> SUFFICES ASSUME NEW a \in Buckets \ {b}
                 PROVE  FoundIn(a)' = FoundIn(a)
      OBVIOUS
    <2>1. ASSUME NEW j \in Keys
          PROVE  Found(a, j)' = Found(a, j)
      BY <2>1 DEF Erases, Found, GetObject, Exists
    <2>2. QED
      BY <2>1 DEF FoundIn, Erases, Exists
  <1>3. CASE Found(b, k)' = Found(b, k)
    <2>1. FoundIn(b)' = FoundIn(b)
      BY <1>1, <1>3 DEF FoundIn, Erases, Exists
    <2>2. UNCHANGED Shown
      BY <1>2, <2>1 DEF Shown
    <2>3. QED
      BY <2>2
  <1>4. CASE Found(b, k)' # Found(b, k)
    <2>1. Found(b, k)' = NoObject /\ Found(b, k) # NoObject
      BY <1>4 DEF Erases
    <2>2. Exists(b) /\ Store!Visible(b, k) /\ Shown[b] # NoBucket
      BY <2>1, FoundStored, ShownHas
    <2>3. FoundIn(b)' = [j \in Keys |-> IF j \in {k} THEN NoObject ELSE Shown[b][j]]
      <3>1. ASSUME NEW j \in Keys
            PROVE  Found(b, j)' = IF j \in {k} THEN NoObject ELSE Shown[b][j]
        <4>1. Shown[b][j] = Found(b, j)
          BY <2>2, ShownHas
        <4>2. QED
          BY <1>1, <2>1, <4>1
      <3>2. FoundIn(b)' = [j \in Keys |-> Found(b, j)']
        BY <2>2 DEF FoundIn, Erases, Exists
      <3>3. QED
        BY <3>1, <3>2
    <2>4. Shown' = [Shown EXCEPT ![b] =
                       [j \in Keys |-> IF j \in {k} THEN NoObject ELSE Shown[b][j]]]
      BY <1>2, <2>3 DEF Shown
    <2>5. Store!Vanish(b, {k})
      BY <2>2, <2>4 DEF Store!Vanish, Shown, Writes
    <2>6. {k} \in SUBSET Keys
      OBVIOUS
    <2>7. QED
      BY <2>5, <2>6 DEF Store!StoreNext
  <1>5. QED
    BY <1>3, <1>4

-----------------------------------------------------------------------------
(* The refinement, by operation.                                           *)

LEMMA CreateRefines ==
    ASSUME KeyInv, NEW b \in Buckets, CreateBucket(b)
    PROVE  Store!StoreNext
  <1> USE DEF KeyInv
  <1>1. ASSUME NEW k \in Keys
        PROVE  Found(b, k)' = NoObject
    BY <1>1 DEF CreateBucket, AbsentIsEmpty, Found, GetObject
  <1>2. FoundIn(b)' = [k \in Keys |-> NoObject]
    BY <1>1 DEF CreateBucket, FoundIn, Exists, TypeOK
  <1>3. Shown' = [Shown EXCEPT ![b] = [k \in Keys |-> NoObject]]
    BY <1>2, ShownOne DEF CreateBucket, TypeOK
  <1>4. Shown[b] = NoBucket /\ UNCHANGED Writes
    BY WritesSame DEF CreateBucket, Shown, FoundIn
  <1>5. Store!CreateBucketIn(b)
    BY <1>3, <1>4 DEF Store!CreateBucketIn, Shown, Writes
  <1>6. QED
    BY <1>5 DEF Store!StoreNext

LEMMA DropRefines ==
    ASSUME KeyInv, NEW b \in Buckets, Exists(b), DropBucket(b)
    PROVE  Store!StoreNext
  <1> USE DEF KeyInv
  <1>1. FoundIn(b)' = NoBucket
    BY DEF DropBucket, FoundIn, Exists, TypeOK
  <1>2. Shown' = [Shown EXCEPT ![b] = NoBucket]
    BY <1>1, ShownOne DEF DropBucket, TypeOK
  <1>3. Shown[b] # NoBucket
    <2>1. FoundIn(b) \in [Keys -> Store!Stored \cup {NoObject}]
      BY FoundStored DEF FoundIn
    <2>2. QED
      BY <2>1, StoreAssumption DEF Shown
  <1>4. UNCHANGED Writes
    BY WritesSame DEF DropBucket
  <1>5. Store!DropBucketOf(b)
    BY <1>2, <1>3, <1>4 DEF Store!DropBucketOf, Shown, Writes
  <1>6. QED
    BY <1>5 DEF Store!StoreNext

\* Changing the status hides nothing and shows nothing.
LEMMA StatusRefines ==
    ASSUME KeyInv, NEW b \in Buckets, NEW enabled \in BOOLEAN,
           SetVersioningConfiguration(b, enabled)
    PROVE  UNCHANGED <<Shown, Writes>>
  <1>1. ASSUME NEW a \in Buckets
        PROVE  Exists(a)' = Exists(a)
    BY DEF KeyInv, SetVersioningConfiguration, Exists, TypeOK
  <1>2. UNCHANGED objects /\ UNCHANGED call
    BY DEF SetVersioningConfiguration
  <1>3. UNCHANGED Shown
    BY <1>1, <1>2 DEF Shown, FoundIn, Found, GetObject
  <1>4. QED
    BY <1>2, <1>3, WritesSame

LEMMA PutRefines ==
    ASSUME KeyInv, NEW c \in Clients, NEW b \in Buckets, NEW k \in Keys, NEW body \in Bodies,
           NEW meta \in Metas \cup {NoMeta}, PutObject(c, b, k, body, meta)
    PROVE  Store!StoreNext
  <1> USE DEF KeyInv
  <1> DEFINE new == [step |-> "merge", bucket |-> b, key |-> k, body |-> body, meta |-> meta]
  <1>1. call[c] = Idle /\ call' = [call EXCEPT ![c] = new] /\ UNCHANGED <<versioning, objects>>
    BY DEF PutObject, Begin
  <1>2. WriteOf(c)' = new
    BY <1>1 DEF WriteOf, TypeOK
  <1>3. Writes' = [Writes EXCEPT ![c] = new]
    BY <1>1, <1>2, WritesOne
  <1>4. Writes[c] = NoWrite /\ UNCHANGED Shown
    BY <1>1, WritesHave, ShownSame
  <1>5. Store!BeginWrite(c, b, k, body, meta)
    BY <1>3, <1>4 DEF Store!BeginWrite, Shown, Writes
  <1>6. QED
    BY <1>5 DEF Store!StoreNext, Store!Headers

LEMMA CopyRefines ==
    ASSUME KeyInv, NEW c \in Clients, NEW b \in Buckets, NEW k \in Keys, NEW sb \in Buckets,
           NEW sk \in Keys, NEW meta \in Metas \cup {NoMeta}, CopyObject(c, sb, sk, b, k, meta)
    PROVE  Store!StoreNext
  <1> USE DEF KeyInv
  <1> DEFINE new == [step |-> "copy", srcBucket |-> sb, srcKey |-> sk, bucket |-> b, key |-> k,
                     meta |-> Merge(meta, objects[sb][sk].data.meta)]
             newIn == [step |-> "copy", srcBucket |-> sb, srcKey |-> sk, bucket |-> b, key |-> k,
                       meta |-> Store!Over(meta, Shown[sb][sk].meta)]
  <1>1. call[c] = Idle /\ call' = [call EXCEPT ![c] = new] /\ UNCHANGED <<versioning, objects>>
    BY DEF CopyObject, Begin
  <1>2. GetObject(sb, sk) = "ok"
    BY DEF CopyObject
  <1>3. Store!Visible(sb, sk) /\ Shown[sb][sk].meta = objects[sb][sk].data.meta
    <2>1. Shown[sb][sk] = [body |-> objects[sb][sk].data.body, meta |-> objects[sb][sk].data.meta]
      BY <1>2, ShownHas
    <2>2. Store!Visible(sb, sk)
      BY <1>2, ShownHas
    <2>3. QED
      BY <2>1, <2>2
  <1>4. new = newIn
    BY <1>3 DEF Merge, Store!Over
  <1>5. WriteOf(c)' = new
    BY <1>1 DEF WriteOf, TypeOK
  <1>6. Writes' = [Writes EXCEPT ![c] = newIn]
    BY <1>1, <1>4, <1>5, WritesOne
  <1>7. Writes[c] = NoWrite /\ UNCHANGED Shown
    BY <1>1, WritesHave, ShownSame
  <1>8. Store!BeginCopy(c, sb, sk, b, k, meta)
    BY <1>3, <1>6, <1>7 DEF Store!BeginCopy, Shown, Writes
  <1>9. QED
    BY <1>8 DEF Store!StoreNext, Store!Headers

\* A write that ends without storing, when the store it sees lacks what it needs.
LEMMA FailRefines ==
    ASSUME KeyInv, NEW c \in Clients, call' = [call EXCEPT ![c] = Idle],
           UNCHANGED <<versioning, objects>>,
           \/ call[c].step = "copy" /\ GetObject(call[c].srcBucket, call[c].srcKey) # "ok"
           \/ call[c].step = "merge" /\ GetObject(call[c].bucket, call[c].key) # "ok"
           \/ call[c].step = "put" /\ ~Exists(call[c].bucket)
    PROVE  Store!StoreNext
  <1> USE DEF KeyInv
  <1>1. WriteOf(c)' = NoWrite
    BY DEF WriteOf, TypeOK, Idle
  <1>2. Writes' = [Writes EXCEPT ![c] = NoWrite] /\ UNCHANGED Shown
    BY <1>1, WritesOne, ShownSame
  <1> DEFINE w == Writes[c]
  <1>3. w # NoWrite
    BY WritesHave
  <1>4. \/ w.step = "copy" /\ ~Store!Visible(w.srcBucket, w.srcKey)
        \/ w.step = "merge" /\ ~Store!Visible(w.bucket, w.key)
        \/ w.step = "put" /\ Shown[w.bucket] = NoBucket
    <2>1. CASE call[c].step = "copy" /\ GetObject(call[c].srcBucket, call[c].srcKey) # "ok"
      <3>1. w = call[c] /\ call[c] \in CopyCall
        BY <2>1, WritesHave, CallSteps
      <3>2. QED
        BY <2>1, <3>1, ShownHas DEF CopyCall
    <2>2. CASE call[c].step = "merge" /\ GetObject(call[c].bucket, call[c].key) # "ok"
      <3>1. w = call[c] /\ call[c] \in MergeCall
        BY <2>2, WritesHave, CallSteps
      <3>2. QED
        BY <2>2, <3>1, ShownHas DEF MergeCall
    <2>3. CASE call[c].step = "put" /\ ~Exists(call[c].bucket)
      <3>1. w.bucket = call[c].bucket /\ w.step = "put" /\ call[c] \in PutCall
        BY <2>3, WritesHave, CallSteps
      <3>2. QED
        BY <2>3, <3>1 DEF PutCall, Shown, FoundIn
    <2>4. QED
      BY <2>1, <2>2, <2>3
  <1>5. Store!Fail(c)
    BY <1>2, <1>3, <1>4 DEF Store!Fail, Shown, Writes
  <1>6. QED
    BY <1>5 DEF Store!StoreNext

\* The body of a copy comes from the source as the second read finds it.
LEMMA CopyReadRefines ==
    ASSUME KeyInv, NEW c \in Clients, CopyRead(c)
    PROVE  Store!StoreNext
  <1> USE DEF KeyInv
  <1> DEFINE old == call[c]
             src == objects[old.srcBucket][old.srcKey]
             new == [step |-> "merge", bucket |-> old.bucket, key |-> old.key,
                     body |-> src.data.body, meta |-> old.meta]
  <1>1. old \in CopyCall /\ old.step = "copy" /\ UNCHANGED <<versioning, objects>>
    BY CallSteps DEF CopyRead
  <1>2. old.srcBucket \in Buckets /\ old.srcKey \in Keys
    BY <1>1 DEF CopyCall
  <1>3. CASE GetObject(old.srcBucket, old.srcKey) = "ok"
    <2>1. call' = [call EXCEPT ![c] = new]
      BY <1>3 DEF CopyRead
    <2>2. WriteOf(c)' = new
      BY <2>1 DEF WriteOf, TypeOK
    <2>3. Writes' = [Writes EXCEPT ![c] = new] /\ UNCHANGED Shown
      BY <1>1, <2>1, <2>2, WritesOne, ShownSame
    <2>4. Writes[c] = old /\ Writes[c] # NoWrite
      BY <1>1, WritesHave
    <2>5. Store!Visible(old.srcBucket, old.srcKey)
      BY <1>2, <1>3, ShownHas
    <2>6. Shown[old.srcBucket][old.srcKey] = [body |-> src.data.body, meta |-> src.data.meta]
      BY <1>2, <1>3, ShownHas
    <2>7. new = [step |-> "merge", bucket |-> Writes[c].bucket, key |-> Writes[c].key,
                 body |-> Shown[Writes[c].srcBucket][Writes[c].srcKey].body,
                 meta |-> Writes[c].meta]
      BY <2>4, <2>6
    <2> HIDE DEF old, new
    <2>8. Store!FetchBody(c)
      BY <1>1, <2>3, <2>4, <2>5, <2>7 DEF Store!FetchBody, Shown, Writes
    <2>9. QED
      BY <2>8 DEF Store!StoreNext
  <1>4. CASE GetObject(old.srcBucket, old.srcKey) # "ok"
    <2>1. call' = [call EXCEPT ![c] = Idle]
      BY <1>4 DEF CopyRead
    <2>2. QED
      BY <1>1, <1>4, <2>1, FailRefines
  <1>5. QED
    BY <1>3, <1>4

\* A merge whose GetObject panics ends the write: a read finds no object there.
LEMMA MergeRefines ==
    ASSUME KeyInv, NEW c \in Clients, MergeMetadata(c)
    PROVE  Store!StoreNext
  <1> USE DEF KeyInv
  <1> DEFINE old == call[c]
             found == GetObject(old.bucket, old.key)
             cur == objects[old.bucket][old.key]
             new == [step |-> "put", bucket |-> old.bucket, key |-> old.key, body |-> old.body,
                     meta |-> IF found = "ok" THEN Merge(old.meta, cur.data.meta) ELSE old.meta,
                     asked |-> old.meta,
                     seen |-> IF found = "ok" THEN cur.data.id ELSE 0]
             newIn == [step |-> "put", bucket |-> old.bucket, key |-> old.key, body |-> old.body,
                       meta |-> IF Store!Visible(old.bucket, old.key)
                                THEN Store!Over(old.meta, Shown[old.bucket][old.key].meta)
                                ELSE old.meta]
  <1>1. old \in MergeCall /\ old.step = "merge" /\ UNCHANGED <<versioning, objects>>
    BY CallSteps DEF MergeMetadata
  <1>2. old.bucket \in Buckets /\ old.key \in Keys
    BY <1>1 DEF MergeCall
  <1>3. CASE found = "panic"
    <2>1. call' = [call EXCEPT ![c] = Idle]
      BY <1>3 DEF MergeMetadata
    <2>2. QED
      BY <1>1, <1>3, <2>1, FailRefines
  <1>4. CASE found # "panic"
    <2>1. call' = [call EXCEPT ![c] = new]
      BY <1>4 DEF MergeMetadata
    <2>2. Store!Visible(old.bucket, old.key) <=> found = "ok"
      BY <1>2, ShownHas
    <2>3. found = "ok" => Shown[old.bucket][old.key] =
                             [body |-> cur.data.body, meta |-> cur.data.meta]
      BY <1>2, ShownHas
    <2>4. new.meta = newIn.meta
      BY <2>2, <2>3 DEF Merge, Store!Over
    <2>5. WriteOf(c)' = [step |-> "put", bucket |-> old.bucket, key |-> old.key,
                         body |-> old.body, meta |-> new.meta]
      BY <2>1 DEF WriteOf, TypeOK
    <2>6. WriteOf(c)' = newIn
      BY <2>4, <2>5
    <2> HIDE DEF new, newIn
    <2>7. Writes' = [Writes EXCEPT ![c] = newIn] /\ UNCHANGED Shown
      BY <1>1, <2>1, <2>6, WritesOne, ShownSame
    <2>8. Writes[c] = old /\ Writes[c] # NoWrite
      BY <1>1, WritesHave
    <2> HIDE DEF old
    <2>9. Store!Inherit(c)
      BY <1>1, <2>7, <2>8 DEF Store!Inherit, Shown, Writes, newIn
    <2>10. QED
      BY <2>9 DEF Store!StoreNext
  <1>5. QED
    BY <1>3, <1>4

\* In every versioning status the new object is what the next read finds.
LEMMA PutShows ==
    ASSUME KeyInv, NEW b \in Buckets, NEW k \in Keys, NEW item \in Version,
           ~item.deleteMarker, Exists(b), UNCHANGED versioning, Put(b, k, item)
    PROVE  /\ Shown[b] # NoBucket
           /\ Shown' = [Shown EXCEPT ![b] =
                 [Shown[b] EXCEPT ![k] = [body |-> item.body, meta |-> item.meta]]]
  <1> USE DEF KeyInv
  <1>1. objects'[b][k] = [data |-> item, versions |-> Archive(b, k)]
    BY DEF Put, TypeOK
  <1>2. objects'[b][k] # NoObject
    BY <1>1, NilAssumption, ObjectAtType DEF Object
  <1>3. Found(b, k)' = [body |-> item.body, meta |-> item.meta]
    BY <1>1, <1>2, NilAssumption DEF Found, GetObject, Exists
  <1>4. ASSUME NEW j \in Keys, j # k
        PROVE  Found(b, j)' = Found(b, j)
    <2>1. objects'[b][j] = objects[b][j]
      BY <1>4 DEF Put, TypeOK
    <2>2. QED
      BY <2>1 DEF Found, GetObject, Exists
  <1>5. Shown[b] # NoBucket /\ Shown[b] = [j \in Keys |-> Found(b, j)]
    BY ShownHas DEF Shown, FoundIn
  <1>6. FoundIn(b)' = [j \in Keys |-> Found(b, j)']
    BY DEF FoundIn, Exists
  <1>7. FoundIn(b)' = [Shown[b] EXCEPT ![k] = [body |-> item.body, meta |-> item.meta]]
    BY <1>3, <1>4, <1>5, <1>6
  <1>8. Shown' = [Shown EXCEPT ![b] = FoundIn(b)']
    <2>1. \A a \in Buckets \ {b} : objects'[a] = objects[a] /\ versioning'[a] = versioning[a]
      BY DEF Put, TypeOK
    <2>2. QED
      BY <2>1, ShownOne
  <1>9. QED
    BY <1>5, <1>7, <1>8

LEMMA CommitRefines ==
    ASSUME KeyInv, NEW c \in Clients, PutCommit(c)
    PROVE  Store!StoreNext
  <1> USE DEF KeyInv
  <1> DEFINE b == call[c].bucket
             k == call[c].key
             item == [id |-> NextVersion, body |-> call[c].body, meta |-> call[c].meta,
                      deleteMarker |-> FALSE]
  <1>1. /\ call[c] \in PutCall /\ call[c].step = "put"
        /\ UNCHANGED versioning /\ call' = [call EXCEPT ![c] = Idle]
    BY CallSteps DEF PutCommit
  <1>2. b \in Buckets /\ k \in Keys /\ item \in Version
    BY <1>1, NextVersionType DEF PutCall, Version, Written
  <1>3. CASE ~Exists(b)
    <2>1. UNCHANGED objects
      BY <1>3 DEF PutCommit
    <2>2. QED
      BY <1>1, <1>3, <2>1, FailRefines
  <1>4. CASE Exists(b)
    <2>1. Put(b, k, item)
      BY <1>4 DEF PutCommit
    <2>2. Writes' = [Writes EXCEPT ![c] = NoWrite]
      <3>1. WriteOf(c)' = NoWrite
        BY <1>1 DEF WriteOf, TypeOK, Idle
      <3>2. QED
        BY <1>1, <3>1, WritesOne
    <2>3. /\ Writes[c] # NoWrite /\ Writes[c].step = "put"
          /\ Writes[c].bucket = b /\ Writes[c].key = k
          /\ Writes[c].body = item.body /\ Writes[c].meta = item.meta
      BY <1>1, WritesHave
    <2>4. ~item.deleteMarker
      OBVIOUS
    <2> HIDE DEF b, k, item
    <2>5. /\ Shown[b] # NoBucket
          /\ Shown' = [Shown EXCEPT ![b] =
                [Shown[b] EXCEPT ![k] = [body |-> item.body, meta |-> item.meta]]]
      BY <1>1, <1>2, <1>4, <2>1, <2>4, PutShows
    <2>6. Shown' = [Shown EXCEPT ![Writes[c].bucket] =
              [Shown[Writes[c].bucket] EXCEPT ![Writes[c].key] =
                  [body |-> Writes[c].body, meta |-> Writes[c].meta]]]
      BY <2>3, <2>5
    <2>7. Store!Commit(c)
      BY <2>2, <2>3, <2>5, <2>6 DEF Store!Commit, Shown, Writes
    <2>8. QED
      BY <2>7 DEF Store!StoreNext
  <1>5. QED
    BY <1>3, <1>4

\* Each entry of a batch is a deletion of its own to the clients that wait for the lock.
LEMMA DeleteNextRefines ==
    ASSUME KeyInv, NEW c \in Clients, DeleteNext(c)
    PROVE  Store!StoreNext \/ UNCHANGED <<Shown, Writes>>
  <1> USE DEF KeyInv
  <1> DEFINE b == call[c].bucket
             e == Head(call[c].batch)
             rest == Tail(call[c].batch)
             new == IF rest = <<>> THEN Idle ELSE [step |-> "delete", bucket |-> b, batch |-> rest]
  <1>1. call[c] \in DeleteCall /\ call[c].step = "delete" /\ UNCHANGED versioning
    BY CallSteps DEF DeleteNext
  <1>2. b \in Buckets /\ e \in Entry
    BY <1>1, HeadTailProperties DEF DeleteCall
  <1>3. UNCHANGED Writes
    <2>1. call' = [call EXCEPT ![c] = new]
      BY DEF DeleteNext
    <2>2. new = Idle \/ new.step = "delete"
      OBVIOUS
    <2> HIDE DEF new
    <2>3. WriteOf(c)' = NoWrite
      BY <2>1, <2>2 DEF WriteOf, TypeOK, Idle
    <2>4. Writes[c] = NoWrite
      BY <1>1, WritesHave
    <2>5. Writes' = [Writes EXCEPT ![c] = NoWrite]
      BY <2>1, <2>3, WritesOne
    <2>6. QED
      BY <2>4, <2>5 DEF Writes
  <1>4. CASE Rm(b, e.key)
    BY <1>1, <1>2, <1>3, <1>4, RmErases, ErasesRefines DEF Entry
  <1>5. CASE RmVersion(b, e.key, e.id)
    BY <1>1, <1>2, <1>3, <1>5, RmVersionErases, ErasesRefines DEF Entry
  <1>6. QED
    BY <1>4, <1>5 DEF DeleteNext

LEMMA StartBatchRefines ==
    ASSUME KeyInv, NEW c \in Clients, NEW b \in Buckets, NEW batch \in Batches,
           DeleteMultiVersions(c, b, batch)
    PROVE  UNCHANGED <<Shown, Writes>>
  <1> USE DEF KeyInv
  <1> DEFINE new == [step |-> "delete", bucket |-> b, batch |-> batch]
  <1>1. call[c] = Idle /\ call' = [call EXCEPT ![c] = new] /\ UNCHANGED <<versioning, objects>>
    BY DEF DeleteMultiVersions
  <1>2. WriteOf(c)' = NoWrite
    BY <1>1 DEF WriteOf, TypeOK
  <1>3. Writes[c] = NoWrite /\ UNCHANGED Shown
    BY <1>1, WritesHave, ShownSame
  <1>4. Writes' = [Writes EXCEPT ![c] = NoWrite]
    BY <1>1, <1>2, WritesOne
  <1>5. QED
    BY <1>3, <1>4 DEF Writes

-----------------------------------------------------------------------------

LEMMA BucketNextRefines ==
    ASSUME KeyInv, BucketNext
    PROVE  Store!StoreNext \/ UNCHANGED <<Shown, Writes>>
  <1>1. ASSUME NEW b \in Buckets, NEW k \in Keys, DeleteObject(b, k)
        PROVE  Store!StoreNext \/ UNCHANGED <<Shown, Writes>>
    BY <1>1, RmErases, ErasesRefines, WritesSame DEF DeleteObject
  <1>2. ASSUME NEW b \in Buckets, NEW k \in Keys, NEW id \in 1..lastVersion,
               DeleteObjectVersion(b, k, id)
        PROVE  Store!StoreNext \/ UNCHANGED <<Shown, Writes>>
    BY <1>2, RmVersionErases, ErasesRefines, WritesSame DEF DeleteObjectVersion
  <1>3. QED
    BY <1>1, <1>2, CreateRefines, DropRefines, StatusRefines
       DEF BucketNext, DeleteBucket, ForceDeleteBucket

LEMMA NextRefines == KeyInv /\ [Next]_vars => [Store!StoreNext]_<<Shown, Writes>>
  <1>1. KeyInv /\ UNCHANGED vars => UNCHANGED <<Shown, Writes>>
    BY ShownSame, WritesSame DEF vars
  <1>2. KeyInv /\ CallNext => Store!StoreNext \/ UNCHANGED <<Shown, Writes>>
    BY PutRefines, CopyRefines, StartBatchRefines, CopyReadRefines, MergeRefines,
       CommitRefines, DeleteNextRefines DEF CallNext
  <1>3. QED
    BY <1>1, <1>2, BucketNextRefines DEF Next

LEMMA InitRefines == Init => Store!StoreInit
  <1> SUFFICES ASSUME Init PROVE Store!StoreInit
    OBVIOUS
  <1>1. \A b \in Buckets : FoundIn(b) = NoBucket
    BY DEF Init, FoundIn, Exists
  <1>2. \A c \in Clients : WriteOf(c) = NoWrite
    BY DEF Init, WriteOf, Idle
  <1>3. QED
    BY <1>1, <1>2 DEF Store!StoreInit

\* To clients that name no version the backend is the plain map, whatever the status
\* of its buckets and however calls interleave: each write shows at once and whole,
\* a deletion uncovers nothing, and a write is refused only if its source or its
\* bucket is gone, or its merge met a key with no object to show.
THEOREM MemImplementsStore == Spec => ImplementsStore
  <1>1. KeyInv /\ [Next]_vars => [Store!StoreNext]_(Store!storeVars)
    BY NextRefines DEF Store!storeVars, Shown, Writes
  <1>2. QED
    BY <1>1, KeyInvariant, InitRefines, PTL DEF Spec, ImplementsStore, Store!StoreSpec

=============================================================================
