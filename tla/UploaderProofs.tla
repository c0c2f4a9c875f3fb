--------------------------- MODULE UploaderProofs ---------------------------
(***************************************************************************)
(* Theorems about Uploader, for every set of buckets, keys, bodies and     *)
(* metadata values and every bound: the two indexes agree, an upload       *)
(* creates at most one object, and that is the object its client named.    *)
(* Of UploadListing, at the end: pages of any size are in order and leave  *)
(* nothing out, as long as the upload that a page begins at is there.      *)
(***************************************************************************)
EXTENDS UploadListing, RecursionProofs, SequenceTheorems, TLAPS

-----------------------------------------------------------------------------
(* The slices that the uploader changes.                                   *)

\* Taking one entry out of a slice, as bucketUploads.remove does.
LEMMA TakenOut ==
    ASSUME NEW S, NEW ids \in Seq(S), NEW at \in 1..Len(ids)
    PROVE  LET rest == SubSeq(ids, 1, at - 1) \o SubSeq(ids, at + 1, Len(ids))
           IN  /\ rest \in Seq(S)
               /\ Len(rest) = Len(ids) - 1
               /\ \A i \in 1..(Len(ids) - 1) :
                     rest[i] = IF i < at THEN ids[i] ELSE ids[i + 1]
<1> DEFINE left == SubSeq(ids, 1, at - 1)
           right == SubSeq(ids, at + 1, Len(ids))
<1>1. Len(ids) \in Nat /\ \A i \in 1..Len(ids) : ids[i] \in S
  BY LenProperties, ElementOfSeq
<1>2. /\ left \in Seq(S) /\ Len(left) = at - 1
      /\ \A i \in 1..(at - 1) : left[i] = ids[i]
  <2>1. \A i \in 1..(at - 1) : ids[i] \in S
    BY <1>1
  <2>2. 1 \in Int /\ at - 1 \in Int
    BY <1>1
  <2> QED
    BY <1>1, <2>1, <2>2, SubSeqProperties
<1>3. /\ right \in Seq(S) /\ Len(right) = Len(ids) - at
      /\ \A i \in 1..(Len(ids) - at) : right[i] = ids[at + i]
  <2>1. \A i \in (at + 1)..Len(ids) : ids[i] \in S
    BY <1>1
  <2>2. at + 1 \in Int /\ Len(ids) \in Int
    BY <1>1
  <2>3. /\ right \in Seq(S)
        /\ Len(right) = IF at + 1 <= Len(ids) THEN Len(ids) - (at + 1) + 1 ELSE 0
        /\ \A i \in 1..(Len(ids) - (at + 1) + 1) : right[i] = ids[(at + 1) + i - 1]
    BY <2>1, <2>2, SubSeqProperties
  <2> QED
    BY <1>1, <2>3
<1> HIDE DEF left, right
<1>4. /\ left \o right \in Seq(S)
      /\ Len(left \o right) = Len(left) + Len(right)
      /\ \A i \in 1..(Len(left) + Len(right)) :
            (left \o right)[i] = IF i <= Len(left) THEN left[i] ELSE right[i - Len(left)]
  BY <1>2, <1>3, ConcatProperties
<1>5. \A i \in 1..(Len(ids) - 1) :
         (left \o right)[i] = IF i < at THEN ids[i] ELSE ids[i + 1]
  <2> TAKE i \in 1..(Len(ids) - 1)
  <2>1. CASE i < at
    BY <1>1, <1>2, <1>3, <1>4, <2>1
  <2>2. CASE ~(i < at)
    <3>1. i - (at - 1) \in 1..(Len(ids) - at) /\ at + (i - (at - 1)) = i + 1
      BY <1>1, <2>2
    <3>2. right[i - (at - 1)] = ids[i + 1]
      BY <1>3, <3>1
    <3> QED
      BY <1>1, <1>2, <1>3, <1>4, <2>2, <3>2
  <2> QED
    BY <2>1, <2>2
<1>6. Len(left \o right) = Len(ids) - 1
  BY <1>1, <1>2, <1>3, <1>4
<1> QED
  BY <1>4, <1>5, <1>6 DEF left, right

\* Growing the slice of parts and setting one keeps the others.
LEMMA SetPartKeeps ==
    ASSUME NEW parts \in Seq(Bodies \cup {NoPart}), NEW n \in Nat, NEW body \in Bodies
    PROVE  LET new == SetPart(parts, n, body)
               grown == IF n + 1 > Len(parts) THEN n + 1 ELSE Len(parts)
           IN  /\ new \in Seq(Bodies \cup {NoPart})
               /\ Len(new) = grown
               /\ new[n + 1] = body
               /\ \A i \in 1..grown : i # n + 1 =>
                     new[i] = IF i <= Len(parts) THEN parts[i] ELSE NoPart
<1> DEFINE S == Bodies \cup {NoPart}
           nils == [i \in 1..(n - Len(parts) + 1) |-> NoPart]
<1>1. Len(parts) \in Nat
  BY LenProperties
<1>2. CASE n >= Len(parts)
  <2>1. /\ nils \in Seq(S) /\ Len(nils) = n - Len(parts) + 1
        /\ \A i \in 1..(n - Len(parts) + 1) : nils[i] = NoPart
    BY <1>1, <1>2
  <2>2. SetPart(parts, n, body) = [(parts \o nils) EXCEPT ![n + 1] = body]
    BY <1>2 DEF SetPart
  <2> DEFINE all == parts \o nils
  <2> HIDE DEF nils
  <2>3. /\ all \in Seq(S)
        /\ Len(all) = Len(parts) + Len(nils)
        /\ \A i \in 1..(Len(parts) + Len(nils)) :
              all[i] = IF i <= Len(parts) THEN parts[i] ELSE nils[i - Len(parts)]
    BY <2>1, ConcatProperties
  <2> HIDE DEF all
  <2>4. Len(all) = n + 1
    BY <1>1, <2>1, <2>3
  <2>5. ASSUME NEW i \in 1..(n + 1)
        PROVE  all[i] = IF i <= Len(parts) THEN parts[i] ELSE NoPart
    <3>1. CASE i <= Len(parts)
      BY <1>1, <1>2, <2>1, <2>3, <3>1
    <3>2. CASE ~(i <= Len(parts))
      <4>1. i - Len(parts) \in 1..(n - Len(parts) + 1) /\ i \in 1..(Len(parts) + Len(nils))
        BY <1>1, <1>2, <2>1, <3>2
      <4> QED
        BY <2>1, <2>3, <3>2, <4>1
    <3> QED
      BY <3>1, <3>2
  <2>6. /\ [all EXCEPT ![n + 1] = body] \in Seq(S)
        /\ Len([all EXCEPT ![n + 1] = body]) = n + 1
        /\ \A i \in 1..(n + 1) :
              [all EXCEPT ![n + 1] = body][i] = IF i = n + 1 THEN body ELSE all[i]
    BY <2>3, <2>4, ExceptSeq
  <2>7. SetPart(parts, n, body) = [all EXCEPT ![n + 1] = body]
    BY <2>2 DEF all
  <2>8. (IF n + 1 > Len(parts) THEN n + 1 ELSE Len(parts)) = n + 1
    BY <1>1, <1>2
  <2> QED
    BY <2>5, <2>6, <2>7, <2>8
<1>3. CASE ~(n >= Len(parts))
  <2>1. SetPart(parts, n, body) = [parts EXCEPT ![n + 1] = body]
    BY <1>3 DEF SetPart
  <2>2. n + 1 \in 1..Len(parts)
    BY <1>1, <1>3
  <2>3. /\ SetPart(parts, n, body) \in Seq(S)
        /\ Len(SetPart(parts, n, body)) = Len(parts)
        /\ \A i \in 1..Len(parts) : SetPart(parts, n, body)[i] =
              IF i = n + 1 THEN body ELSE parts[i]
    BY <2>1, <2>2, ExceptSeq
  <2> QED
    BY <1>1, <1>3, <2>2, <2>3
<1> QED
  BY <1>2, <1>3

-----------------------------------------------------------------------------
(* The inductive invariant.                                                *)

\* Every ID in use was issued, to one bucket.
IssuedOnce ==
    \A b \in Buckets, id \in UploadIDs :
        uploads[b][id] # NoUpload =>
            /\ id <= lastID
            /\ \A c \in Buckets : uploads[c][id] # NoUpload => c = b

\* A completion that was stored had an ID, and ended its upload.
CompletedIsEnded ==
    \A i \in DOMAIN completed :
        /\ completed[i].id <= lastID
        /\ \A b \in Buckets : uploads[b][completed[i].id] = NoUpload

\* The completion under way has the content that its client named.
CompletingAsNamed ==
    completing # Nothing =>
        completing.content = [j \in DOMAIN completing.input |-> completing.input[j].etag]

IInv ==
    /\ TypeOK
    /\ IndexMatchesUploads
    /\ IssuedOnce
    /\ CompletedIsEnded
    /\ CompletedOnce
    /\ CompletingIsHeld
    /\ CompletingAsNamed
    /\ CompletedAsNamed

UploadsType == [Buckets -> [UploadIDs -> Upload \cup {NoUpload}]]

IndexType == [Buckets -> [Keys -> Seq(UploadIDs) \cup {NoEntry}]]

\* The uploads of a key, whether or not it has an entry.
LEMMA UploadsOfType ==
    ASSUME TypeOK, NEW b \in Buckets, NEW k \in Keys
    PROVE  UploadsOf(b, k) \in Seq(UploadIDs)
<1>1. <<>> \in Seq(UploadIDs)
  BY EmptySeq
<1> QED
  BY <1>1 DEF TypeOK, UploadsOf

\* What the history has.
LEMMA CompletedType ==
    ASSUME TypeOK, NEW i \in DOMAIN completed
    PROVE  completed[i] \in Completion /\ completed[i].id \in UploadIDs
<1>1. completed \in Seq(Completion)
  BY DEF TypeOK
<1>2. completed[i] \in Completion
  BY <1>1, LenProperties, ElementOfSeq
<1> QED
  BY <1>2 DEF Completion

-----------------------------------------------------------------------------
(* The two indexes.                                                        *)

\* What bucketUploads.add does to each entry of the two indexes.
LEMMA AddEffect ==
    ASSUME TypeOK, NEW b \in Buckets, NEW k \in Keys, NEW id \in UploadIDs,
           NEW upload \in Upload, Add(b, k, id, upload)
    PROVE  /\ uploads' \in UploadsType
           /\ objectIndex' \in IndexType
           /\ \A a \in Buckets, i \in UploadIDs :
                 uploads'[a][i] = IF a = b /\ i = id THEN upload ELSE uploads[a][i]
           /\ \A a \in Buckets, j \in Keys :
                 objectIndex'[a][j] = IF a = b /\ j = k THEN Append(UploadsOf(b, k), id)
                                      ELSE objectIndex[a][j]
<1>1. /\ uploads' \in UploadsType
      /\ \A a \in Buckets, i \in UploadIDs :
            uploads'[a][i] = IF a = b /\ i = id THEN upload ELSE uploads[a][i]
  BY DEF TypeOK, Add, UploadsType
<1>2. /\ UploadsOf(b, k) \in Seq(UploadIDs)
      /\ Append(UploadsOf(b, k), id) \in Seq(UploadIDs)
  BY UploadsOfType, AppendProperties
<1>3. (IF objectIndex[b][k] = NoEntry THEN <<id>> ELSE Append(objectIndex[b][k], id))
      = Append(UploadsOf(b, k), id)
  <2>1. <<>> \in Seq(UploadIDs) /\ <<id>> \in Seq(UploadIDs)
    BY EmptySeq
  <2>2. Append(<<>>, id) = <<id>>
    BY <2>1, AppendIsConcat, ConcatEmptySeq
  <2> QED
    BY <2>2 DEF UploadsOf
<1>4. objectIndex' = [objectIndex EXCEPT ![b][k] = Append(UploadsOf(b, k), id)]
  BY <1>3 DEF Add
<1>5. /\ objectIndex' \in IndexType
      /\ \A a \in Buckets, j \in Keys :
            objectIndex'[a][j] = IF a = b /\ j = k THEN Append(UploadsOf(b, k), id)
                                 ELSE objectIndex[a][j]
  BY <1>2, <1>4 DEF TypeOK, IndexType
<1> QED
  BY <1>1, <1>5

\* ... and bucketUploads.remove, which finds the upload under its key.
LEMMA RemoveEffect ==
    ASSUME TypeOK, IndexMatchesUploads, NEW b \in Buckets, NEW k \in Keys,
           NEW id \in UploadIDs, Holds(b, k, id), Remove(b, id)
    PROVE  /\ uploads' \in UploadsType
           /\ objectIndex' \in IndexType
           /\ \A a \in Buckets, i \in UploadIDs :
                 uploads'[a][i] = IF a = b /\ i = id THEN NoUpload ELSE uploads[a][i]
           /\ \A a \in Buckets, j \in Keys :
                 ~(a = b /\ j = k) => objectIndex'[a][j] = objectIndex[a][j]
           /\ objectIndex[b][k] \in Seq(UploadIDs)
           /\ \E at \in 1..Len(objectIndex[b][k]) :
                 LET ids == objectIndex[b][k]
                 IN  /\ ids[at] = id
                     /\ objectIndex'[b][k] =
                           IF Len(ids) = 1 THEN NoEntry
                           ELSE SubSeq(ids, 1, at - 1) \o SubSeq(ids, at + 1, Len(ids))
<1> DEFINE ids == objectIndex[b][k]
           at == CHOOSE i \in DOMAIN ids :
                    IF \E j \in DOMAIN ids : ids[j] = id THEN ids[i] = id ELSE i = Len(ids)
           rest == SubSeq(ids, 1, at - 1) \o SubSeq(ids, at + 1, Len(ids))
<1>1. /\ uploads' \in UploadsType
      /\ \A a \in Buckets, i \in UploadIDs :
            uploads'[a][i] = IF a = b /\ i = id THEN NoUpload ELSE uploads[a][i]
  BY DEF TypeOK, Remove, UploadsType
<1>2. ids # NoEntry /\ ids \in Seq(UploadIDs) /\ \E j \in DOMAIN ids : ids[j] = id
  <2>1. id \in {UploadsOf(b, k)[i] : i \in DOMAIN UploadsOf(b, k)}
    BY DEF IndexMatchesUploads
  <2>2. ids # NoEntry
    BY <2>1 DEF UploadsOf
  <2> QED
    BY <2>1, <2>2 DEF UploadsOf, TypeOK
<1>3. DOMAIN ids = 1..Len(ids)
  BY <1>2, LenProperties
<1>4. at \in 1..Len(ids) /\ ids[at] = id
  BY <1>2, <1>3
<1>5. uploads[b][id].object = k
  BY DEF Holds
<1>6. objectIndex' = [objectIndex EXCEPT ![b][k] = IF Len(ids) = 1 THEN NoEntry ELSE rest]
  BY <1>2, <1>5 DEF Remove
<1> HIDE DEF at
<1>7. rest \in Seq(UploadIDs)
  BY <1>2, <1>4, TakenOut
<1>8. /\ objectIndex' \in IndexType
      /\ \A a \in Buckets, j \in Keys :
            objectIndex'[a][j] = IF a = b /\ j = k
                                 THEN IF Len(ids) = 1 THEN NoEntry ELSE rest
                                 ELSE objectIndex[a][j]
  BY <1>6, <1>7 DEF TypeOK, IndexType
<1> QED
  BY <1>1, <1>2, <1>4, <1>8

\* The entry of one key: IndexMatchesUploads says it of every key.
Matched(b, k) ==
    LET ids == UploadsOf(b, k) IN
    /\ objectIndex[b][k] # <<>>
    /\ {ids[i] : i \in DOMAIN ids} = {id \in UploadIDs : Holds(b, k, id)}
    /\ \A i, j \in DOMAIN ids : i < j => ids[i] < ids[j]

\* An entry that no step touches.
LEMMA SameEntry ==
    ASSUME NEW b \in Buckets, NEW k \in Keys, Matched(b, k),
           objectIndex'[b][k] = objectIndex[b][k],
           \A id \in UploadIDs : Holds(b, k, id)' <=> Holds(b, k, id)
    PROVE  Matched(b, k)'
<1>1. UploadsOf(b, k)' = UploadsOf(b, k)
  BY DEF UploadsOf
<1> QED
  BY <1>1 DEF Matched

\* Steps that leave each upload under its key.
LEMMA SameIndex ==
    ASSUME TypeOK, IndexMatchesUploads, UNCHANGED objectIndex,
           \A b \in Buckets, k \in Keys, id \in UploadIDs : Holds(b, k, id)' <=> Holds(b, k, id)
    PROVE  IndexMatchesUploads'
<1> SUFFICES ASSUME NEW b \in Buckets, NEW k \in Keys
             PROVE  Matched(b, k)'
  BY DEF IndexMatchesUploads, Matched
<1>1. Matched(b, k)
  BY DEF IndexMatchesUploads, Matched
<1> QED
  BY <1>1, SameEntry

\* A new upload goes to the end of its key, and its ID is larger than the others.
LEMMA AddIndex ==
    ASSUME TypeOK, IndexMatchesUploads, IssuedOnce, lastID < MaxUploads,
           NEW b \in Buckets, NEW k \in Keys, NEW upload \in Upload, upload.object = k,
           Add(b, k, lastID + 1, upload)
    PROVE  IndexMatchesUploads'
<1> DEFINE id == lastID + 1
           ids == UploadsOf(b, k)
<1>1. id \in UploadIDs /\ lastID \in Nat
  BY BoundAssumption DEF TypeOK, UploadIDs
<1>2. \A a \in Buckets : uploads[a][id] = NoUpload
  BY <1>1 DEF IssuedOnce
<1>3. /\ \A a \in Buckets, i \in UploadIDs :
            uploads'[a][i] = IF a = b /\ i = id THEN upload ELSE uploads[a][i]
      /\ \A a \in Buckets, j \in Keys :
            objectIndex'[a][j] = IF a = b /\ j = k THEN Append(ids, id) ELSE objectIndex[a][j]
  BY <1>1, AddEffect
<1>4. \A a \in Buckets, j \in Keys, i \in UploadIDs :
         Holds(a, j, i)' <=> Holds(a, j, i) \/ (a = b /\ j = k /\ i = id)
  BY <1>1, <1>2, <1>3, NilAssumption DEF Holds
<1> SUFFICES ASSUME NEW a \in Buckets, NEW j \in Keys
             PROVE  Matched(a, j)'
  BY DEF IndexMatchesUploads, Matched
<1>5. Matched(a, j)
  BY DEF IndexMatchesUploads, Matched
<1>6. CASE ~(a = b /\ j = k)
  BY <1>3, <1>4, <1>5, <1>6, SameEntry
<1>7. CASE a = b /\ j = k
  <2>1. ids \in Seq(UploadIDs) /\ Len(ids) \in Nat /\ DOMAIN ids = 1..Len(ids)
    BY UploadsOfType, LenProperties
  <2> DEFINE new == Append(ids, id)
  <2>2. /\ new \in Seq(UploadIDs) /\ new # <<>>
        /\ Len(new) = Len(ids) + 1
        /\ \A i \in 1..Len(ids) : new[i] = ids[i]
        /\ new[Len(ids) + 1] = id
    BY <1>1, <2>1, AppendProperties
  <2>3. DOMAIN new = 1..(Len(ids) + 1)
    BY <2>2, LenProperties
  <2> HIDE DEF new
  <2>4. UploadsOf(b, k)' = new /\ objectIndex'[b][k] = new
    <3>1. objectIndex'[b][k] = new
      BY <1>3 DEF new
    <3>2. new # NoEntry
      BY <2>2, NilAssumption
    <3> QED
      BY <3>1, <3>2 DEF UploadsOf
  <2>5. {new[i] : i \in DOMAIN new} = {ids[i] : i \in DOMAIN ids} \cup {id}
    BY <2>1, <2>2, <2>3
  <2>6. {i \in UploadIDs : Holds(b, k, i)'} = {i \in UploadIDs : Holds(b, k, i)} \cup {id}
    BY <1>1, <1>4
  <2>7. \A i \in DOMAIN ids : ids[i] \in UploadIDs /\ ids[i] < id
    <3> TAKE i \in DOMAIN ids
    <3>1. ids[i] \in UploadIDs /\ Holds(b, k, ids[i])
      BY <1>5, <1>7 DEF Matched
    <3>2. ids[i] <= lastID
      BY <3>1 DEF Holds, IssuedOnce
    <3> QED
      BY <1>1, <3>1, <3>2 DEF UploadIDs
  <2>8. \A i, l \in DOMAIN new : i < l => new[i] < new[l]
    <3> SUFFICES ASSUME NEW i \in DOMAIN new, NEW l \in DOMAIN new, i < l
                 PROVE  new[i] < new[l]
      OBVIOUS
    <3>1. i \in 1..Len(ids) /\ new[i] = ids[i]
      BY <2>1, <2>2, <2>3
    <3>2. CASE l = Len(ids) + 1
      BY <2>1, <2>2, <2>7, <3>1, <3>2
    <3>3. CASE l # Len(ids) + 1
      <4>1. l \in 1..Len(ids) /\ new[l] = ids[l]
        BY <2>1, <2>2, <2>3, <3>3
      <4> QED
        BY <1>5, <1>7, <2>1, <3>1, <4>1 DEF Matched
    <3> QED
      BY <3>2, <3>3
  <2>9. {ids[i] : i \in DOMAIN ids} = {i \in UploadIDs : Holds(b, k, i)}
    BY <1>5, <1>7 DEF Matched
  <2>10. {UploadsOf(b, k)'[i] : i \in DOMAIN UploadsOf(b, k)'} = {i \in UploadIDs : Holds(b, k, i)'}
    BY <2>4, <2>5, <2>6, <2>9
  <2>11. \A i, l \in DOMAIN UploadsOf(b, k)' : i < l => UploadsOf(b, k)'[i] < UploadsOf(b, k)'[l]
    BY <2>4, <2>8
  <2> QED
    BY <1>7, <2>2, <2>4, <2>10, <2>11 DEF Matched
<1> QED
  BY <1>6, <1>7

\* An upload that ends leaves the others of its key in their order, and no empty
\* entry.
LEMMA RemoveIndex ==
    ASSUME TypeOK, IndexMatchesUploads, NEW b \in Buckets, NEW k \in Keys,
           NEW id \in UploadIDs, Holds(b, k, id), Remove(b, id)
    PROVE  IndexMatchesUploads'
<1> DEFINE ids == objectIndex[b][k]
<1>1. PICK at \in 1..Len(ids) :
         /\ ids[at] = id
         /\ objectIndex'[b][k] = IF Len(ids) = 1 THEN NoEntry
                                 ELSE SubSeq(ids, 1, at - 1) \o SubSeq(ids, at + 1, Len(ids))
  BY RemoveEffect
<1>2. /\ \A a \in Buckets, i \in UploadIDs :
            uploads'[a][i] = IF a = b /\ i = id THEN NoUpload ELSE uploads[a][i]
      /\ \A a \in Buckets, j \in Keys :
            ~(a = b /\ j = k) => objectIndex'[a][j] = objectIndex[a][j]
      /\ ids \in Seq(UploadIDs)
  BY RemoveEffect
<1>3. \A a \in Buckets, j \in Keys, i \in UploadIDs :
         Holds(a, j, i)' <=> Holds(a, j, i) /\ ~(a = b /\ i = id)
  BY <1>2 DEF Holds
<1>4. \A j \in Keys : Holds(b, j, id) => j = k
  BY DEF Holds
<1> SUFFICES ASSUME NEW a \in Buckets, NEW j \in Keys
             PROVE  Matched(a, j)'
  BY DEF IndexMatchesUploads, Matched
<1>5. Matched(a, j)
  BY DEF IndexMatchesUploads, Matched
<1>6. CASE ~(a = b /\ j = k)
  BY <1>2, <1>3, <1>4, <1>5, <1>6, SameEntry
<1>7. CASE a = b /\ j = k
  <2>1. UploadsOf(b, k) = ids
    BY <1>2, NilAssumption DEF UploadsOf
  <2>2. Len(ids) \in Nat /\ DOMAIN ids = 1..Len(ids)
    BY <1>2, LenProperties
  <2>3. /\ {ids[i] : i \in 1..Len(ids)} = {i \in UploadIDs : Holds(b, k, i)}
        /\ \A i, l \in 1..Len(ids) : i < l => ids[i] < ids[l]
    BY <1>5, <1>7, <2>1, <2>2 DEF Matched
  <2>4. \A i \in 1..Len(ids) : ids[i] \in Nat
    BY <1>2, ElementOfSeq, BoundAssumption DEF UploadIDs
  <2>5. CASE Len(ids) = 1
    <3>1. objectIndex'[b][k] = NoEntry /\ UploadsOf(b, k)' = <<>>
      BY <1>1, <2>5 DEF UploadsOf
    <3>2. NoEntry # <<>> /\ DOMAIN <<>> = {}
      <4>1. <<>> \in Seq(UploadIDs) /\ Len(<<>>) = 0
        BY EmptySeq
      <4>2. DOMAIN <<>> = 1..0
        BY <4>1, LenProperties
      <4>3. NoEntry # <<>>
        BY <4>1, NilAssumption
      <4>4. 1..0 = {}
        OBVIOUS
      <4> QED
        BY <4>2, <4>3, <4>4, Zenon
    <3>3. \A i \in UploadIDs : Holds(b, k, i) => i = id
      BY <1>1, <2>3, <2>5
    <3>4. \A i \in UploadIDs : ~Holds(b, k, i)'
      BY <1>3, <3>3
    <3>5. /\ {UploadsOf(b, k)'[i] : i \in DOMAIN UploadsOf(b, k)'} = {i \in UploadIDs : Holds(b, k, i)'}
          /\ \A i, l \in DOMAIN UploadsOf(b, k)' : i < l => UploadsOf(b, k)'[i] < UploadsOf(b, k)'[l]
      <4>1. DOMAIN UploadsOf(b, k)' = {}
        BY <3>1, <3>2
      <4> QED
        BY <3>4, <4>1
    <3> QED
      BY <1>7, <3>1, <3>2, <3>5 DEF Matched
  <2>6. CASE Len(ids) # 1
    <3> DEFINE rest == SubSeq(ids, 1, at - 1) \o SubSeq(ids, at + 1, Len(ids))
    <3>1. objectIndex'[b][k] = rest
      BY <1>1, <2>6
    <3>2. /\ rest \in Seq(UploadIDs)
          /\ Len(rest) = Len(ids) - 1
          /\ \A i \in 1..(Len(ids) - 1) : rest[i] = IF i < at THEN ids[i] ELSE ids[i + 1]
      BY <1>2, TakenOut
    <3> HIDE DEF rest
    <3>3. DOMAIN rest = 1..(Len(ids) - 1)
      BY <3>2, LenProperties
    <3>4. rest # <<>> /\ UploadsOf(b, k)' = rest
      <4>1. Len(rest) # 0 /\ rest # NoEntry
        BY <2>2, <2>6, <3>2, NilAssumption
      <4> QED
        BY <3>1, <4>1, EmptySeq DEF UploadsOf
    <3>5. \A i, l \in DOMAIN rest : i < l => rest[i] < rest[l]
      <4> SUFFICES ASSUME NEW i \in DOMAIN rest, NEW l \in DOMAIN rest, i < l
                   PROVE  rest[i] < rest[l]
        OBVIOUS
      <4> DEFINE from(n) == IF n < at THEN n ELSE n + 1
      <4>1. /\ from(i) \in 1..Len(ids) /\ from(l) \in 1..Len(ids) /\ from(i) < from(l)
        BY <2>2, <3>3
      <4>2. rest[i] = ids[from(i)] /\ rest[l] = ids[from(l)]
        BY <3>2, <3>3
      <4> HIDE DEF from
      <4> QED
        BY <2>3, <4>1, <4>2
    <3>6. \A i \in DOMAIN rest : rest[i] \in UploadIDs /\ Holds(b, k, rest[i]) /\ rest[i] # id
      <4> SUFFICES ASSUME NEW i \in DOMAIN rest
                   PROVE  rest[i] \in UploadIDs /\ Holds(b, k, rest[i]) /\ rest[i] # id
        OBVIOUS
      <4>1. PICK l \in 1..Len(ids) : l # at /\ rest[i] = ids[l]
        <5>1. CASE i < at
          BY <1>1, <2>2, <3>2, <3>3, <5>1
        <5>2. CASE ~(i < at)
          <6>1. i + 1 \in 1..Len(ids) /\ i + 1 # at /\ rest[i] = ids[i + 1]
            BY <1>1, <2>2, <3>2, <3>3, <5>2
          <6> QED
            BY <6>1
        <5> QED
          BY <5>1, <5>2
      <4>2. ids[l] # ids[at]
        <5>1. l < at \/ at < l
          BY <4>1
        <5> QED
          BY <1>1, <2>3, <2>4, <5>1
      <4> QED
        BY <1>1, <2>3, <4>1, <4>2
    <3>7. \A i \in UploadIDs : Holds(b, k, i) /\ i # id => \E l \in DOMAIN rest : rest[l] = i
      <4> SUFFICES ASSUME NEW i \in UploadIDs, Holds(b, k, i), i # id
                   PROVE  \E l \in DOMAIN rest : rest[l] = i
        OBVIOUS
      <4>1. PICK m \in 1..Len(ids) : ids[m] = i
        BY <2>3
      <4>2. CASE m < at
        <5>1. m \in DOMAIN rest /\ rest[m] = i
          BY <1>1, <2>2, <3>2, <3>3, <4>1, <4>2
        <5> QED
          BY <5>1
      <4>3. CASE ~(m < at)
        <5>1. m - 1 \in DOMAIN rest /\ ~(m - 1 < at) /\ (m - 1) + 1 = m
          BY <1>1, <2>2, <3>3, <4>1, <4>3
        <5> QED
          BY <3>2, <3>3, <4>1, <5>1
      <4> QED
        BY <4>2, <4>3
    <3>8. {rest[i] : i \in DOMAIN rest} = {i \in UploadIDs : Holds(b, k, i)'}
      BY <1>3, <3>6, <3>7
    <3>9. {UploadsOf(b, k)'[i] : i \in DOMAIN UploadsOf(b, k)'} = {i \in UploadIDs : Holds(b, k, i)'}
      BY <3>4, <3>8
    <3>10. \A i, l \in DOMAIN UploadsOf(b, k)' : i < l => UploadsOf(b, k)'[i] < UploadsOf(b, k)'[l]
      BY <3>4, <3>5
    <3> QED
      BY <1>7, <3>1, <3>4, <3>9, <3>10 DEF Matched
  <2> QED
    BY <2>5, <2>6
<1> QED
  BY <1>6, <1>7

-----------------------------------------------------------------------------
(* The steps.                                                              *)

\* Steps of the buckets, which do not touch the uploader.
LEMMA BucketStep ==
    ASSUME IInv, storage' \in [Buckets -> [Keys -> Stored \cup {NoObject}] \cup {NoBucket}],
           UNCHANGED <<uploads, objectIndex, lastID, completing, completed>>
    PROVE  IInv'
<1>1. TypeOK'
  BY DEF IInv, TypeOK
<1>2. IndexMatchesUploads'
  BY DEF IInv, IndexMatchesUploads, UploadsOf, Holds
<1> QED
  BY <1>1, <1>2 DEF IInv, IssuedOnce, CompletedIsEnded, CompletedOnce, CompletingIsHeld,
     CompletingAsNamed, CompletedAsNamed, Holds

\* An upload's record keeps its type when its parts or its metadata change.
LEMMA FieldType ==
    ASSUME TypeOK, NEW b \in Buckets, NEW id \in UploadIDs, uploads[b][id] # NoUpload
    PROVE  /\ uploads[b][id] \in Upload
           /\ uploads[b][id].parts \in Seq(Bodies \cup {NoPart})
           /\ \A parts \in Seq(Bodies \cup {NoPart}) :
                 [uploads[b][id] EXCEPT !.parts = parts] \in Upload
           /\ \A meta \in Metas \cup {NoMeta} : [uploads[b][id] EXCEPT !.meta = meta] \in Upload
<1>1. uploads[b][id] \in Upload
  BY DEF TypeOK
<1> QED
  BY <1>1 DEF Upload

SetsRecord(b, id, upload) == uploads' = [uploads EXCEPT ![b][id] = upload]

\* Steps that change the record of one upload, but not the key it is for.
LEMMA RecordStep ==
    ASSUME IInv, NEW b \in Buckets, NEW id \in UploadIDs, uploads[b][id] # NoUpload,
           NEW upload \in Upload, upload.object = uploads[b][id].object,
           SetsRecord(b, id, upload), UNCHANGED <<objectIndex, lastID, completed>>
    PROVE  /\ uploads' \in UploadsType
           /\ \A a \in Buckets, i \in UploadIDs :
                 uploads'[a][i] = IF a = b /\ i = id THEN upload ELSE uploads[a][i]
           /\ IndexMatchesUploads' /\ IssuedOnce' /\ CompletedIsEnded'
           /\ CompletedOnce' /\ CompletedAsNamed'
<1>1. /\ uploads' \in UploadsType
      /\ \A a \in Buckets, i \in UploadIDs :
            uploads'[a][i] = IF a = b /\ i = id THEN upload ELSE uploads[a][i]
  BY DEF IInv, TypeOK, UploadsType, SetsRecord
<1>2. upload # NoUpload
  BY NilAssumption
<1>3. \A a \in Buckets, k \in Keys, i \in UploadIDs : Holds(a, k, i)' <=> Holds(a, k, i)
  BY <1>1, <1>2 DEF Holds
<1>4. IndexMatchesUploads'
  BY <1>3, SameIndex DEF IInv
<1>5. IssuedOnce'
  BY <1>1, <1>2 DEF IInv, IssuedOnce
<1>6. CompletedIsEnded'
  <2>1. completed' = completed /\ lastID' = lastID
    OBVIOUS
  <2>2. \A i \in DOMAIN completed : \A a \in Buckets :
           /\ completed[i].id \in UploadIDs /\ completed[i].id <= lastID
           /\ uploads[a][completed[i].id] = NoUpload
    BY CompletedType DEF IInv, CompletedIsEnded
  <2>3. \A i \in DOMAIN completed : \A a \in Buckets : uploads'[a][completed[i].id] = NoUpload
    BY <1>1, <2>2
  <2> QED
    BY <2>1, <2>2, <2>3 DEF CompletedIsEnded
<1>7. CompletedOnce' /\ CompletedAsNamed'
  BY DEF IInv, CompletedOnce, CompletedAsNamed
<1> QED
  BY <1>1, <1>4, <1>5, <1>6, <1>7

\* A part that is uploaded, and a completion's merge, set one record.
LEMMA UploadPartRecord ==
    ASSUME TypeOK, NEW b \in Buckets, NEW k \in Keys, NEW id \in UploadIDs,
           NEW n \in 1..MaxPart, NEW body \in Bodies, UploadPart(b, k, id, n, body)
    PROVE  \E upload \in Upload :
              /\ SetsRecord(b, id, upload)
              /\ upload.object = uploads[b][id].object
              /\ upload.parts = SetPart(uploads[b][id].parts, n, body)
<1> DEFINE parts == SetPart(uploads[b][id].parts, n, body)
           upload == [uploads[b][id] EXCEPT !.parts = parts]
<1>1. uploads[b][id] # NoUpload
  BY DEF UploadPart, Holds
<1>2. parts \in Seq(Bodies \cup {NoPart})
  <2>1. n \in Nat
    BY BoundAssumption
  <2> QED
    BY <1>1, <2>1, FieldType, SetPartKeeps
<1>3. upload \in Upload /\ upload.object = uploads[b][id].object /\ upload.parts = parts
  BY <1>1, <1>2, FieldType DEF Upload
<1>4. SetsRecord(b, id, upload)
  BY DEF SetsRecord, UploadPart
<1> HIDE DEF upload
<1> QED
  BY <1>3, <1>4

LEMMA CompleteRecord ==
    ASSUME TypeOK, NEW b \in Buckets, NEW k \in Keys, NEW id \in UploadIDs,
           NEW input \in Inputs, CompleteMultipartUpload(b, k, id, input)
    PROVE  \E upload \in Upload :
              /\ SetsRecord(b, id, upload)
              /\ upload.object = uploads[b][id].object
              /\ upload.parts = uploads[b][id].parts
<1> DEFINE existing == IF storage[b] = NoBucket THEN NoObject ELSE storage[b][k]
           upload == IF existing = NoObject THEN uploads[b][id]
                     ELSE [uploads[b][id] EXCEPT !.meta = Merge(@, existing.meta)]
<1>1. /\ uploads[b][id] # NoUpload
      /\ uploads' = IF existing = NoObject THEN uploads
                    ELSE [uploads EXCEPT ![b][id].meta = Merge(@, existing.meta)]
  BY DEF CompleteMultipartUpload, Holds
<1>2. /\ upload \in Upload
      /\ upload.object = uploads[b][id].object
      /\ upload.parts = uploads[b][id].parts
  <2>1. uploads[b][id] \in Upload
    BY <1>1, FieldType
  <2>2. existing # NoObject => existing.meta \in Metas \cup {NoMeta}
    BY DEF TypeOK, Stored
  <2>3. existing # NoObject =>
           Merge(uploads[b][id].meta, existing.meta) \in Metas \cup {NoMeta}
    BY <2>1, <2>2 DEF Merge, Upload
  <2> HIDE DEF existing
  <2> QED
    BY <2>1, <2>3 DEF Upload
<1>3. SetsRecord(b, id, upload)
  <2>1. CASE existing = NoObject
    <3>1. upload = uploads[b][id] /\ uploads' = uploads
      BY <1>1, <2>1
    <3> HIDE DEF upload
    <3> QED
      BY <3>1 DEF TypeOK, SetsRecord
  <2>2. CASE existing # NoObject
    BY <1>1, <2>2 DEF SetsRecord
  <2> QED
    BY <2>1, <2>2
<1> HIDE DEF upload, existing
<1> QED
  BY <1>2, <1>3

LEMMA CreateStep ==
    ASSUME IInv, NEW b \in Buckets, NEW k \in Keys, NEW meta \in Metas \cup {NoMeta},
           CreateMultipartUpload(b, k, meta)
    PROVE  IInv'
<1> DEFINE upload == [object |-> k, meta |-> meta, parts |-> <<>>]
<1> USE DEF CreateMultipartUpload
<1>1. upload \in Upload /\ upload.object = k
  BY EmptySeq DEF Upload
<1>2. lastID \in Nat /\ lastID + 1 \in UploadIDs /\ lastID' \in 0..MaxUploads /\ lastID' = lastID + 1
  BY BoundAssumption DEF IInv, TypeOK, UploadIDs
<1> HIDE DEF upload
<1>3. Add(b, k, lastID + 1, upload)
  BY DEF upload
<1>4. /\ uploads' \in UploadsType /\ objectIndex' \in IndexType
      /\ \A a \in Buckets, i \in UploadIDs :
            uploads'[a][i] = IF a = b /\ i = lastID + 1 THEN upload ELSE uploads[a][i]
  BY <1>1, <1>2, <1>3, AddEffect DEF IInv
<1>5. \A a \in Buckets : uploads[a][lastID + 1] = NoUpload
  BY <1>2 DEF IInv, IssuedOnce
<1>6. TypeOK'
  BY <1>2, <1>4 DEF IInv, TypeOK, UploadsType, IndexType
<1>7. IndexMatchesUploads'
  BY <1>1, <1>3, AddIndex DEF IInv
<1>8. IssuedOnce'
  <2> SUFFICES ASSUME NEW a \in Buckets, NEW i \in UploadIDs, uploads'[a][i] # NoUpload
               PROVE  /\ i <= lastID + 1
                      /\ \A c \in Buckets : uploads'[c][i] # NoUpload => c = a
    BY <1>2 DEF IssuedOnce
  <2>1. CASE i = lastID + 1
    BY <1>2, <1>4, <1>5, <2>1
  <2>2. CASE i # lastID + 1
    <3>1. i <= lastID /\ \A c \in Buckets : uploads[c][i] # NoUpload => c = a
      BY <1>4, <2>2 DEF IInv, IssuedOnce
    <3> QED
      BY <1>2, <1>4, <2>2, <3>1 DEF UploadIDs
  <2> QED
    BY <2>1, <2>2
<1>9. CompletedIsEnded'
  <2> SUFFICES ASSUME NEW i \in DOMAIN completed
               PROVE  /\ completed[i].id <= lastID + 1
                      /\ \A a \in Buckets : uploads'[a][completed[i].id] = NoUpload
    BY <1>2 DEF CompletedIsEnded
  <2>1. /\ completed[i].id \in UploadIDs /\ completed[i].id <= lastID
        /\ \A a \in Buckets : uploads[a][completed[i].id] = NoUpload
    BY CompletedType DEF IInv, CompletedIsEnded
  <2>2. completed[i].id <= lastID + 1 /\ completed[i].id # lastID + 1
    BY <1>2, <2>1 DEF UploadIDs
  <2> QED
    BY <1>4, <2>1, <2>2
<1> QED
  BY <1>6, <1>7, <1>8, <1>9 DEF IInv, CompletedOnce, CompletingIsHeld, CompletingAsNamed,
     CompletedAsNamed, Unlocked

LEMMA UploadPartStep ==
    ASSUME IInv, NEW b \in Buckets, NEW k \in Keys, NEW id \in UploadIDs,
           NEW n \in 1..MaxPart, NEW body \in Bodies, UploadPart(b, k, id, n, body)
    PROVE  IInv'
<1>1. PICK upload \in Upload : SetsRecord(b, id, upload) /\ upload.object = uploads[b][id].object
  BY UploadPartRecord DEF IInv
<1>2. /\ Unlocked /\ uploads[b][id] # NoUpload
      /\ UNCHANGED <<storage, objectIndex, lastID, completing, completed>>
  BY DEF UploadPart, Holds
<1>3. /\ uploads' \in UploadsType
      /\ IndexMatchesUploads' /\ IssuedOnce' /\ CompletedIsEnded'
      /\ CompletedOnce' /\ CompletedAsNamed'
  BY <1>1, <1>2, RecordStep
<1>4. TypeOK'
  BY <1>2, <1>3 DEF IInv, TypeOK, UploadsType
<1> QED
  BY <1>2, <1>3, <1>4 DEF IInv, CompletingIsHeld, CompletingAsNamed, Unlocked

\* What the end of an upload leaves of the invariant.
LEMMA RemoveStep ==
    ASSUME IInv, NEW b \in Buckets, NEW k \in Keys, NEW id \in UploadIDs,
           Holds(b, k, id), Remove(b, id), UNCHANGED lastID
    PROVE  /\ uploads' \in UploadsType /\ objectIndex' \in IndexType
           /\ \A a \in Buckets, i \in UploadIDs :
                 uploads'[a][i] = IF a = b /\ i = id THEN NoUpload ELSE uploads[a][i]
           /\ IndexMatchesUploads' /\ IssuedOnce'
<1>1. /\ uploads' \in UploadsType /\ objectIndex' \in IndexType
      /\ \A a \in Buckets, i \in UploadIDs :
            uploads'[a][i] = IF a = b /\ i = id THEN NoUpload ELSE uploads[a][i]
  BY RemoveEffect DEF IInv
<1>2. IndexMatchesUploads'
  BY RemoveIndex DEF IInv
<1>3. IssuedOnce'
  BY <1>1 DEF IInv, IssuedOnce
<1> QED
  BY <1>1, <1>2, <1>3

LEMMA AbortStep ==
    ASSUME IInv, NEW b \in Buckets, NEW k \in Keys, NEW id \in UploadIDs,
           AbortMultipartUpload(b, k, id)
    PROVE  IInv'
<1> USE DEF AbortMultipartUpload
<1>1. /\ uploads' \in UploadsType /\ objectIndex' \in IndexType
      /\ \A a \in Buckets, i \in UploadIDs :
            uploads'[a][i] = IF a = b /\ i = id THEN NoUpload ELSE uploads[a][i]
      /\ IndexMatchesUploads' /\ IssuedOnce'
  BY RemoveStep
<1>2. TypeOK'
  BY <1>1 DEF IInv, TypeOK, UploadsType, IndexType
<1>3. CompletedIsEnded'
  BY <1>1, CompletedType DEF IInv, CompletedIsEnded
<1> QED
  BY <1>1, <1>2, <1>3 DEF IInv, CompletedOnce, CompletingIsHeld, CompletingAsNamed,
     CompletedAsNamed, Unlocked

\* A complete request is a slice of parts.
LEMMA InputType ==
    ASSUME NEW input \in Inputs
    PROVE  /\ input \in Seq(CompletedPart)
           /\ DOMAIN input = 1..Len(input)
           /\ \A i \in DOMAIN input : input[i].number \in Nat /\ input[i].etag \in Bodies
<1>1. PICK n \in 0..MaxInput : input \in [1..n -> [number : 0..MaxPart, etag : Bodies]]
  BY DEF Inputs
<1>2. n \in Nat /\ \A i \in 1..n : input[i] \in CompletedPart
  BY <1>1, BoundAssumption DEF CompletedPart
<1>3. input \in [1..n -> CompletedPart]
  BY <1>1, <1>2
<1>4. input \in Seq(CompletedPart)
  BY <1>2, <1>3
<1> QED
  BY <1>1, <1>2, <1>4, LenProperties DEF CompletedPart

\* The ETags that a request names, as the content that is stored.
LEMMA EtagsType ==
    ASSUME NEW input \in Inputs
    PROVE  [i \in DOMAIN input |-> input[i].etag] \in Seq(Bodies)
<1>1. Len(input) \in Nat /\ DOMAIN input = 1..Len(input)
  BY InputType, LenProperties
<1>2. \A i \in 1..Len(input) : input[i].etag \in Bodies
  BY <1>1, InputType
<1>3. [i \in 1..Len(input) |-> input[i].etag] \in Seq(Bodies)
  BY <1>1, <1>2
<1> QED
  BY <1>1, <1>3

LEMMA CompleteStep ==
    ASSUME IInv, NEW b \in Buckets, NEW k \in Keys, NEW id \in UploadIDs,
           NEW input \in Inputs, CompleteMultipartUpload(b, k, id, input)
    PROVE  IInv'
<1> DEFINE parts == uploads[b][id].parts
           content == [i \in DOMAIN input |-> parts[input[i].number + 1]]
<1>1. /\ Holds(b, k, id) /\ Unlocked
      /\ \A i \in DOMAIN input : NamesPart(parts, input[i])
      /\ completing' = [bucket |-> b, key |-> k, id |-> id, input |-> input, content |-> content]
      /\ UNCHANGED <<storage, objectIndex, lastID, completed>>
  BY DEF CompleteMultipartUpload
<1>2. uploads[b][id] # NoUpload /\ uploads[b][id].object = k
  BY <1>1 DEF Holds
<1>3. PICK upload \in Upload :
         SetsRecord(b, id, upload) /\ upload.object = uploads[b][id].object /\ upload.parts = parts
  BY CompleteRecord DEF IInv
<1>4. /\ uploads' \in UploadsType
      /\ \A a \in Buckets, i \in UploadIDs :
            uploads'[a][i] = IF a = b /\ i = id THEN upload ELSE uploads[a][i]
      /\ IndexMatchesUploads' /\ IssuedOnce' /\ CompletedIsEnded'
      /\ CompletedOnce' /\ CompletedAsNamed'
  <2> HIDE DEF parts
  <2> QED
    BY <1>1, <1>2, <1>3, RecordStep
<1>5. content = [i \in DOMAIN input |-> input[i].etag]
  BY <1>1 DEF NamesPart
<1> HIDE DEF content
<1>6. completing' \in Completion
  BY <1>1, <1>5, InputType, EtagsType DEF Completion
<1>7. TypeOK'
  BY <1>1, <1>4, <1>6 DEF IInv, TypeOK, UploadsType
<1>8. CompletingAsNamed'
  BY <1>1, <1>5 DEF CompletingAsNamed
<1>9. CompletingIsHeld'
  <2>1. uploads'[b][id] = upload /\ upload # NoUpload
    BY <1>3, <1>4, NilAssumption
  <2>2. Holds(b, k, id)'
    BY <1>2, <1>3, <2>1 DEF Holds
  <2>3. \A i \in DOMAIN input : NamesPart(uploads'[b][id].parts, input[i])
    BY <1>1, <1>3, <2>1
  <2> QED
    BY <1>1, <2>2, <2>3 DEF CompletingIsHeld, Holds, NamesPart
<1> QED
  BY <1>4, <1>7, <1>8, <1>9 DEF IInv

\* The completion that is stored is the last of the history, and ends its upload.
LEMMA CompletePutStep ==
    ASSUME IInv, CompletePut
    PROVE  IInv'
<1> DEFINE c == completing
           b == completing.bucket
           k == completing.key
           id == completing.id
<1>1. /\ c # Nothing /\ c \in Completion
      /\ b \in Buckets /\ k \in Keys /\ id \in UploadIDs /\ c.content \in Seq(Bodies)
  BY DEF IInv, TypeOK, CompletePut, Completion
<1>2. Holds(b, k, id) /\ c.content = [j \in DOMAIN c.input |-> c.input[j].etag]
  BY <1>1 DEF IInv, CompletingIsHeld, CompletingAsNamed
<1>3. completing' = Nothing /\ lastID' = lastID
  BY DEF CompletePut
<1>4. CompletingIsHeld' /\ CompletingAsNamed'
  BY <1>3 DEF CompletingIsHeld, CompletingAsNamed
<1>5. CASE UNCHANGED <<storage, uploads, objectIndex, completed>>
  <2>1. TypeOK'
    BY <1>3, <1>5 DEF IInv, TypeOK
  <2>2. IndexMatchesUploads'
    BY <1>5 DEF IInv, IndexMatchesUploads, UploadsOf, Holds
  <2> QED
    BY <1>3, <1>4, <1>5, <2>1, <2>2 DEF IInv, IssuedOnce, CompletedIsEnded, CompletedOnce,
       CompletedAsNamed
<1>6. CASE /\ storage[b] # NoBucket
           /\ storage' = [storage EXCEPT ![b][k] =
                  [content |-> c.content, meta |-> uploads[b][id].meta]]
           /\ completed' = Append(completed, c)
           /\ Remove(b, id)
  <2> DEFINE n == Len(completed)
  <2>1. /\ uploads' \in UploadsType /\ objectIndex' \in IndexType
        /\ \A a \in Buckets, i \in UploadIDs :
              uploads'[a][i] = IF a = b /\ i = id THEN NoUpload ELSE uploads[a][i]
        /\ IndexMatchesUploads' /\ IssuedOnce'
    BY <1>1, <1>2, <1>3, <1>6, RemoveStep
  <2>2. /\ n \in Nat /\ DOMAIN completed = 1..n
        /\ completed' \in Seq(Completion)
        /\ DOMAIN completed' = 1..(n + 1)
        /\ \A i \in 1..n : completed'[i] = completed[i]
        /\ completed'[n + 1] = c
    <3>1. completed \in Seq(Completion)
      BY DEF IInv, TypeOK
    <3> QED
      BY <1>1, <1>6, <3>1, AppendProperties, LenProperties
  <2>3. storage' \in [Buckets -> [Keys -> Stored \cup {NoObject}] \cup {NoBucket}]
    <3>1. uploads[b][id].meta \in Metas \cup {NoMeta}
      BY <1>1, <1>2, FieldType DEF IInv, Holds, Upload
    <3>2. [content |-> c.content, meta |-> uploads[b][id].meta] \in Stored
      BY <1>1, <3>1 DEF Stored
    <3> QED
      BY <1>1, <1>6, <3>2 DEF IInv, TypeOK
  <2>4. TypeOK'
    BY <1>3, <2>1, <2>2, <2>3 DEF IInv, TypeOK, UploadsType, IndexType
  <2>5. uploads[b][id] # NoUpload /\ id <= lastID /\ \A a \in Buckets : uploads'[a][id] = NoUpload
    BY <1>1, <1>2, <2>1 DEF IInv, IssuedOnce, Holds
  <2>6. \A i \in 1..n :
           /\ completed[i].id \in UploadIDs /\ completed[i].id <= lastID
           /\ completed[i].id # id
           /\ \A a \in Buckets : uploads'[a][completed[i].id] = NoUpload
    <3>1. \A i \in 1..n :
             /\ completed[i].id \in UploadIDs /\ completed[i].id <= lastID
             /\ \A a \in Buckets : uploads[a][completed[i].id] = NoUpload
      BY <2>2, CompletedType DEF IInv, CompletedIsEnded
    <3> QED
      BY <1>1, <2>1, <2>5, <3>1
  <2>7. \A i \in 1..(n + 1) : i \in 1..n \/ i = n + 1
    BY <2>2
  <2> HIDE DEF n, c, b, k, id
  <2>8. CompletedIsEnded'
    BY <1>3, <2>2, <2>5, <2>6, <2>7 DEF CompletedIsEnded, c, id
  <2>9. CompletedOnce'
    BY <2>2, <2>6, <2>7 DEF IInv, CompletedOnce, c, id
  <2>10. CompletedAsNamed'
    BY <1>2, <2>2, <2>7 DEF IInv, CompletedAsNamed
  <2> QED
    BY <1>4, <2>1, <2>4, <2>8, <2>9, <2>10 DEF IInv
<1> QED
  BY <1>5, <1>6 DEF CompletePut

-----------------------------------------------------------------------------
(* The theorems.                                                           *)

LEMMA NextKeeps ==
    ASSUME IInv, Next
    PROVE  IInv'
<1>1. ASSUME NEW b \in Buckets, CreateBucket(b) \/ DeleteBucket(b)
      PROVE  IInv'
  <2>1. storage' \in [Buckets -> [Keys -> Stored \cup {NoObject}] \cup {NoBucket}]
    BY <1>1 DEF IInv, TypeOK, CreateBucket, DeleteBucket
  <2> QED
    BY <1>1, <2>1, BucketStep DEF CreateBucket, DeleteBucket
<1>2. ASSUME NEW b \in Buckets, NEW k \in Keys, DeleteObject(b, k)
      PROVE  IInv'
  <2>1. storage' \in [Buckets -> [Keys -> Stored \cup {NoObject}] \cup {NoBucket}]
    BY <1>2 DEF IInv, TypeOK, DeleteObject
  <2> QED
    BY <1>2, <2>1, BucketStep DEF DeleteObject
<1>3. ASSUME NEW b \in Buckets, NEW k \in Keys, NEW meta \in Metas \cup {NoMeta},
             PutObject(b, k, meta)
      PROVE  IInv'
  <2>1. [content |-> <<>>, meta |-> meta] \in Stored
    BY EmptySeq DEF Stored
  <2>2. storage' \in [Buckets -> [Keys -> Stored \cup {NoObject}] \cup {NoBucket}]
    BY <1>3, <2>1 DEF IInv, TypeOK, PutObject
  <2> QED
    BY <1>3, <2>2, BucketStep DEF PutObject
<1> QED
  BY <1>1, <1>2, <1>3, CreateStep, UploadPartStep, AbortStep, CompleteStep, CompletePutStep DEF Next

LEMMA InitIInv == Init => IInv
<1> SUFFICES ASSUME Init
             PROVE  IInv
  OBVIOUS
<1>1. TypeOK
  BY EmptySeq, BoundAssumption DEF Init, TypeOK
<1>2. IndexMatchesUploads
  <2>1. \A b \in Buckets, k \in Keys :
           UploadsOf(b, k) = <<>> /\ \A id \in UploadIDs : ~Holds(b, k, id)
    BY DEF Init, UploadsOf, Holds
  <2>2. DOMAIN <<>> = {} /\ <<>> \in Seq(UploadIDs)
    BY EmptySeq
  <2>3. \A b \in Buckets, k \in Keys : objectIndex[b][k] = NoEntry /\ NoEntry # <<>>
    BY <2>2, NilAssumption DEF Init
  <2> QED
    BY <2>1, <2>2, <2>3 DEF IndexMatchesUploads
<1>3. completed = <<>> /\ DOMAIN completed = {}
  BY EmptySeq DEF Init
<1> QED
  BY <1>1, <1>2, <1>3 DEF Init, IInv, IssuedOnce, CompletedIsEnded, CompletedOnce,
     CompletingIsHeld, CompletingAsNamed, CompletedAsNamed

LEMMA StepIInv == IInv /\ [Next]_vars => IInv'
<1>1. IInv /\ UNCHANGED vars => IInv'
  BY DEF vars, IInv, TypeOK, IndexMatchesUploads, UploadsOf, Holds, NamesPart, IssuedOnce,
     CompletedIsEnded, CompletedOnce, CompletingIsHeld, CompletingAsNamed, CompletedAsNamed
<1> QED
  BY <1>1, NextKeeps

\* The inductive invariant holds of every reachable state.
THEOREM UploaderInvariant == Spec => []IInv
  BY InitIInv, StepIInv, PTL DEF Spec

\* The fields of an uploader's state have the type of the source: an upload is filed
\* with the parts it has, the index with upload IDs.
THEOREM UploaderTypeCorrect == Spec => []TypeOK
  BY UploaderInvariant, PTL DEF IInv

\* The two maps of bucketUploads agree: what add and remove do to one they do to
\* the other, whatever order uploads begin and end in.
THEOREM IndexesAgree == Spec => []IndexMatchesUploads
  BY UploaderInvariant, PTL DEF IInv

\* CompleteMultipartUpload stores an upload at most once, also when it is retried.
THEOREM StoredOnce == Spec => []CompletedOnce
  BY UploaderInvariant, PTL DEF IInv

\* CompleteMultipartUpload stores the parts that its client named by their ETags.
THEOREM StoredAsNamed == Spec => []CompletedAsNamed
  BY UploaderInvariant, PTL DEF IInv

\* CompleteMultipartUpload holds u.mu through storage.PutObject, so the upload it
\* checked is the upload it removes.
THEOREM HeldWhileCompleting == Spec => []CompletingIsHeld
  BY UploaderInvariant, PTL DEF IInv

-----------------------------------------------------------------------------
(* The steps of one upload.                                                *)

\* What a step may do to an upload: begin it, under the next ID; set one part; change
\* its metadata; or end it, by an abort or because its object was stored.
Begins(b, id) == uploads[b][id] = NoUpload /\ id = lastID + 1

Continues(b, id) ==
    /\ uploads[b][id] # NoUpload /\ uploads'[b][id] # NoUpload
    /\ \/ uploads'[b][id].parts = uploads[b][id].parts
       \/ \E n \in 1..MaxPart, body \in Bodies :
             uploads'[b][id].parts = SetPart(uploads[b][id].parts, n, body)

Ends(b, id) ==
    /\ uploads[b][id] # NoUpload /\ uploads'[b][id] = NoUpload
    /\ \/ \E k \in Keys : AbortMultipartUpload(b, k, id)
       \/ completed' = Append(completed, completing) /\ completing.id = id

UploadStep(b, id) ==
    uploads'[b][id] = uploads[b][id] \/ Begins(b, id) \/ Continues(b, id) \/ Ends(b, id)

\* Setting one record is a step of that upload alone.
LEMMA RecordIsUploadStep ==
    ASSUME TypeOK, NEW b \in Buckets, NEW id \in UploadIDs, uploads[b][id] # NoUpload,
           NEW upload \in Upload, SetsRecord(b, id, upload),
           \/ upload.parts = uploads[b][id].parts
           \/ \E n \in 1..MaxPart, body \in Bodies :
                 upload.parts = SetPart(uploads[b][id].parts, n, body),
           NEW a \in Buckets, NEW i \in UploadIDs
    PROVE  UploadStep(a, i)
<1>1. uploads'[a][i] = IF a = b /\ i = id THEN upload ELSE uploads[a][i]
  BY DEF TypeOK, SetsRecord
<1>2. upload # NoUpload
  BY NilAssumption
<1>3. CASE a = b /\ i = id
  BY <1>1, <1>2, <1>3 DEF UploadStep, Continues
<1>4. CASE ~(a = b /\ i = id)
  BY <1>1, <1>4 DEF UploadStep
<1> QED
  BY <1>3, <1>4

\* Every step is one of these for every upload.
LEMMA NextIsUploadStep ==
    ASSUME IInv, [Next]_vars, NEW a \in Buckets, NEW i \in UploadIDs
    PROVE  UploadStep(a, i)
<1>1. CASE UNCHANGED uploads
  BY <1>1 DEF UploadStep
<1>2. ASSUME NEW b \in Buckets, NEW k \in Keys, NEW meta \in Metas \cup {NoMeta},
             CreateMultipartUpload(b, k, meta)
      PROVE  UploadStep(a, i)
  <2> DEFINE upload == [object |-> k, meta |-> meta, parts |-> <<>>]
  <2>1. upload \in Upload
    BY EmptySeq DEF Upload
  <2>2. lastID + 1 \in UploadIDs /\ lastID \in Nat /\ Add(b, k, lastID + 1, upload)
    BY <1>2, BoundAssumption DEF IInv, TypeOK, UploadIDs, CreateMultipartUpload
  <2> HIDE DEF upload
  <2>3. uploads'[a][i] = IF a = b /\ i = lastID + 1 THEN upload ELSE uploads[a][i]
    BY <2>1, <2>2, AddEffect DEF IInv
  <2>4. i = lastID + 1 => uploads[a][i] = NoUpload
    BY <2>2 DEF IInv, IssuedOnce
  <2> QED
    BY <2>3, <2>4 DEF UploadStep, Begins
<1>3. ASSUME NEW b \in Buckets, NEW k \in Keys, NEW id \in UploadIDs,
             NEW n \in 1..MaxPart, NEW body \in Bodies, UploadPart(b, k, id, n, body)
      PROVE  UploadStep(a, i)
  <2>1. uploads[b][id] # NoUpload
    BY <1>3 DEF UploadPart, Holds
  <2>2. PICK upload \in Upload :
           /\ SetsRecord(b, id, upload)
           /\ upload.parts = SetPart(uploads[b][id].parts, n, body)
    BY <1>3, UploadPartRecord DEF IInv
  <2> QED
    BY <2>1, <2>2, RecordIsUploadStep DEF IInv
<1>4. ASSUME NEW b \in Buckets, NEW k \in Keys, NEW id \in UploadIDs,
             NEW input \in Inputs, CompleteMultipartUpload(b, k, id, input)
      PROVE  UploadStep(a, i)
  <2>1. uploads[b][id] # NoUpload
    BY <1>4 DEF CompleteMultipartUpload, Holds
  <2>2. PICK upload \in Upload :
           SetsRecord(b, id, upload) /\ upload.parts = uploads[b][id].parts
    BY <1>4, CompleteRecord DEF IInv
  <2> QED
    BY <2>1, <2>2, RecordIsUploadStep DEF IInv
<1>5. ASSUME NEW b \in Buckets, NEW k \in Keys, NEW id \in UploadIDs,
             AbortMultipartUpload(b, k, id)
      PROVE  UploadStep(a, i)
  <2>1. Holds(b, k, id) /\ Remove(b, id)
    BY <1>5 DEF AbortMultipartUpload
  <2>2. uploads'[a][i] = IF a = b /\ i = id THEN NoUpload ELSE uploads[a][i]
    BY <2>1, RemoveEffect DEF IInv
  <2>3. uploads[b][id] # NoUpload
    BY <2>1 DEF Holds
  <2> QED
    BY <1>5, <2>2, <2>3 DEF UploadStep, Ends
<1>6. ASSUME CompletePut
      PROVE  UploadStep(a, i)
  <2>1. CASE UNCHANGED <<storage, uploads, objectIndex, completed>>
    BY <2>1, <1>1
  <2>2. CASE completed' = Append(completed, completing) /\ Remove(completing.bucket, completing.id)
    <3>1. /\ completing.bucket \in Buckets /\ completing.key \in Keys /\ completing.id \in UploadIDs
          /\ Holds(completing.bucket, completing.key, completing.id)
      BY <1>6 DEF CompletePut, IInv, TypeOK, Completion, CompletingIsHeld
    <3>2. uploads'[a][i] = IF a = completing.bucket /\ i = completing.id
                           THEN NoUpload ELSE uploads[a][i]
      BY <2>2, <3>1, RemoveEffect DEF IInv
    <3>3. uploads[completing.bucket][completing.id] # NoUpload
      BY <3>1 DEF Holds
    <3> QED
      BY <2>2, <3>2, <3>3 DEF UploadStep, Ends
  <2> QED
    BY <1>6, <2>1, <2>2 DEF CompletePut
<1>7. ASSUME NEW b \in Buckets, CreateBucket(b) \/ DeleteBucket(b)
      PROVE  UploadStep(a, i)
  BY <1>7, <1>1 DEF CreateBucket, DeleteBucket
<1>8. ASSUME NEW b \in Buckets, NEW k \in Keys, DeleteObject(b, k)
      PROVE  UploadStep(a, i)
  BY <1>8, <1>1 DEF DeleteObject
<1>9. ASSUME NEW b \in Buckets, NEW k \in Keys, NEW meta \in Metas \cup {NoMeta},
             PutObject(b, k, meta)
      PROVE  UploadStep(a, i)
  BY <1>9, <1>1 DEF PutObject
<1>10. CASE UNCHANGED vars
  BY <1>10, <1>1 DEF vars
<1>11. CASE Next
  BY <1>11, <1>2, <1>3, <1>4, <1>5, <1>6, <1>7, <1>8, <1>9 DEF Next
<1> QED
  BY <1>10, <1>11

\* An upload ID that was used up never names an upload again, in any bucket: a late
\* part or a retried completion of an ended upload is refused for good.
THEOREM EndedForGood == Spec => EndedStaysEnded
<1> DEFINE Fresh == \A b \in Buckets, id \in UploadIDs :
                       uploads[b][id] = NoUpload /\ uploads'[b][id] # NoUpload => lastID < id
<1>1. IInv /\ [Next]_vars => [Fresh]_vars
  <2> SUFFICES ASSUME IInv, [Next]_vars, NEW b \in Buckets, NEW id \in UploadIDs,
                      uploads[b][id] = NoUpload, uploads'[b][id] # NoUpload
               PROVE  lastID < id
    OBVIOUS
  <2>1. Begins(b, id)
    BY NextIsUploadStep DEF UploadStep, Continues, Ends
  <2> QED
    BY <2>1 DEF Begins, IInv, TypeOK
<1> QED
  BY <1>1, UploaderInvariant, PTL DEF Spec, EndedStaysEnded

\* An upload ends by an abort or with its object stored: CompleteMultipartUpload
\* removes nothing when storage.PutObject fails.
THEOREM EndsWhenStored == Spec => EndsOnlyWhenStored
<1> DEFINE Ended == \A b \in Buckets, id \in UploadIDs :
                       uploads[b][id] # NoUpload /\ uploads'[b][id] = NoUpload =>
                          \/ \E k \in Keys : AbortMultipartUpload(b, k, id)
                          \/ completed' = Append(completed, completing) /\ completing.id = id
<1>1. IInv /\ [Next]_vars => [Ended]_vars
  <2> SUFFICES ASSUME IInv, [Next]_vars, NEW b \in Buckets, NEW id \in UploadIDs,
                      uploads[b][id] # NoUpload, uploads'[b][id] = NoUpload
               PROVE  \/ \E k \in Keys : AbortMultipartUpload(b, k, id)
                      \/ completed' = Append(completed, completing) /\ completing.id = id
    OBVIOUS
  <2>1. Ends(b, id)
    BY NextIsUploadStep DEF UploadStep, Begins, Continues
  <2> QED
    BY <2>1 DEF Ends
<1> QED
  BY <1>1, UploaderInvariant, PTL DEF Spec, EndsOnlyWhenStored

\* The entry of a slice of parts, which may be too short to have one.
PartOf(parts, i) == IF i \in DOMAIN parts THEN parts[i] ELSE NoPart

\* Setting a part changes no other.
LEMMA SetPartChangesOne ==
    ASSUME NEW parts \in Seq(Bodies \cup {NoPart}), NEW n \in Nat, NEW body \in Bodies
    PROVE  /\ PartOf(SetPart(parts, n, body), n + 1) = body
           /\ \A i \in Nat \ {0, n + 1} : PartOf(SetPart(parts, n, body), i) = PartOf(parts, i)
<1> DEFINE new == SetPart(parts, n, body)
           grown == IF n + 1 > Len(parts) THEN n + 1 ELSE Len(parts)
<1>1. /\ new \in Seq(Bodies \cup {NoPart})
      /\ Len(new) = grown
      /\ new[n + 1] = body
      /\ \A i \in 1..grown : i # n + 1 =>
            new[i] = IF i <= Len(parts) THEN parts[i] ELSE NoPart
  BY SetPartKeeps
<1> HIDE DEF new
<1>2. /\ Len(parts) \in Nat /\ DOMAIN parts = 1..Len(parts)
      /\ DOMAIN new = 1..grown
  BY <1>1, LenProperties
<1>3. n + 1 \in 1..grown /\ Len(parts) <= grown /\ grown \in Nat
  BY <1>2
<1> HIDE DEF grown
<1>4. PartOf(new, n + 1) = body
  BY <1>1, <1>2, <1>3 DEF PartOf
<1>5. ASSUME NEW i \in Nat \ {0, n + 1}
      PROVE  PartOf(new, i) = PartOf(parts, i)
  <2>1. CASE i \in 1..grown
    BY <1>1, <1>2, <1>3, <2>1 DEF PartOf
  <2>2. CASE i \notin 1..grown
    BY <1>2, <1>3, <2>2 DEF PartOf
  <2> QED
    BY <2>1, <2>2
<1> QED
  BY <1>4, <1>5 DEF new

\* A part that was acknowledged stays until it is sent again or its upload ends:
\* growing mpu.parts for a higher number copies what it had.
THEOREM PartsStay == Spec => PartsAreKept
<1> DEFINE PartAt(parts, i) == IF i \in DOMAIN parts THEN parts[i] ELSE NoPart
           Differs(b, id, i) == PartAt(uploads'[b][id].parts, i) # PartAt(uploads[b][id].parts, i)
           Changed(b, id) == {i \in 1..(MaxPart + 1) : Differs(b, id, i)}
           Kept == \A b \in Buckets, id \in UploadIDs :
                      uploads[b][id] # NoUpload /\ uploads'[b][id] # NoUpload =>
                         \A i, j \in Changed(b, id) : i = j /\ PartAt(uploads'[b][id].parts, i) # NoPart
<1>1. IInv /\ [Next]_vars => [Kept]_vars
  <2> SUFFICES ASSUME IInv, [Next]_vars, NEW b \in Buckets, NEW id \in UploadIDs,
                      uploads[b][id] # NoUpload, uploads'[b][id] # NoUpload,
                      NEW i \in Changed(b, id), NEW j \in Changed(b, id)
               PROVE  i = j /\ PartAt(uploads'[b][id].parts, i) # NoPart
    <3> HIDE DEF PartAt, Differs, Changed
    <3> QED
      OBVIOUS
  <2>1. i \in 1..(MaxPart + 1) /\ Differs(b, id, i) /\ j \in 1..(MaxPart + 1) /\ Differs(b, id, j)
    OBVIOUS
  <2>2. /\ PartOf(uploads'[b][id].parts, i) # PartOf(uploads[b][id].parts, i)
        /\ PartOf(uploads'[b][id].parts, j) # PartOf(uploads[b][id].parts, j)
    BY <2>1 DEF PartOf
  <2>3. PICK n \in 1..MaxPart, body \in Bodies :
           uploads'[b][id].parts = SetPart(uploads[b][id].parts, n, body)
    BY <2>2, NextIsUploadStep DEF UploadStep, Begins, Continues, Ends
  <2>4. uploads[b][id].parts \in Seq(Bodies \cup {NoPart})
    BY FieldType DEF IInv
  <2>5. n \in Nat /\ i \in Nat \ {0} /\ j \in Nat \ {0}
    BY <2>1, BoundAssumption
  <2>6. /\ PartOf(uploads'[b][id].parts, n + 1) = body
        /\ \A l \in Nat \ {0, n + 1} :
              PartOf(uploads'[b][id].parts, l) = PartOf(uploads[b][id].parts, l)
    <3> DEFINE old == uploads[b][id].parts
    <3>1. old \in Seq(Bodies \cup {NoPart})
      BY <2>4
    <3> HIDE DEF old
    <3>2. /\ PartOf(SetPart(old, n, body), n + 1) = body
          /\ \A l \in Nat \ {0, n + 1} : PartOf(SetPart(old, n, body), l) = PartOf(old, l)
      BY <2>5, <3>1, SetPartChangesOne
    <3> QED
      BY <2>3, <3>2 DEF old
  <2>7. i = n + 1 /\ j = n + 1
    BY <2>2, <2>5, <2>6
  <2>8. PartOf(uploads'[b][id].parts, i) # NoPart
    BY <2>6, <2>7, NilAssumption
  <2> QED
    BY <2>7, <2>8 DEF PartOf
<1> QED
  BY <1>1, UploaderInvariant, PTL DEF Spec, PartsAreKept

-----------------------------------------------------------------------------
(* Listings: the inductive invariant.  It says where the client stands in  *)
(* the order of the uploads: it was given nothing behind its marker, and   *)
(* everything before it that was there all along.                          *)

\* Sorted by key and then by age.
Sorted(s) == \A i, j \in 1 .. Len(s) : i < j => Before(s[i], s[j])

Lists(s, e) == \E i \in 1 .. Len(s) : s[i] = e

\* The entry is where a page that begins at m will come to, or behind.
FromOn(m, e) == e = m \/ Before(m, e)

Paging ==
    LET m == listing.marker IN
    /\ m \in ContentOf(listing.bucket)
    /\ \A i \in 1 .. Len(listing.listed) : Before(listing.listed[i], m)
    /\ \A e \in listing.since : /\ e \in ContentOf(listing.bucket)
                                /\ Lists(listing.listed, e) \/ FromOn(m, e)

ListingInv ==
    /\ IInv
    /\ listing = [bucket |-> listing.bucket, phase |-> listing.phase, marker |-> listing.marker,
                  listed |-> listing.listed, since |-> listing.since,
                  markerEnded |-> listing.markerEnded, pages |-> listing.pages]
    /\ listing.markerEnded \in BOOLEAN
    /\ ~listing.markerEnded =>
          /\ listing.listed \in Seq(Entry) /\ Sorted(listing.listed)
          /\ listing.phase = "idle" => listing.marker = NoMarker /\ listing.listed = <<>>
          /\ listing.phase = "paging" => listing.bucket \in Buckets /\ Paging
          /\ listing.phase = "done" => /\ listing.marker = NoMarker
                                       /\ \A e \in listing.since : Lists(listing.listed, e)

-----------------------------------------------------------------------------
(* The order of the uploads.                                               *)

LEMMA Positions ==
    /\ \A k \in Keys : Position(k) \in 1 .. Len(KeyOrder) /\ KeyOrder[Position(k)] = k
    /\ \A i \in 1 .. Len(KeyOrder) : KeyOrder[i] \in Keys /\ Position(KeyOrder[i]) = i
    /\ Len(KeyOrder) \in Nat
<1>1. KeyOrder \in Seq(Keys) /\ DOMAIN KeyOrder = 1 .. Len(KeyOrder) /\ Len(KeyOrder) \in Nat
  BY ListingAssumption
<1>2. ASSUME NEW k \in Keys
      PROVE  Position(k) \in 1 .. Len(KeyOrder) /\ KeyOrder[Position(k)] = k
  <2>1. \E i \in DOMAIN KeyOrder : KeyOrder[i] = k
    BY <1>2, ListingAssumption
  <2> QED  BY <1>1, <2>1 DEF Position
<1>3. ASSUME NEW i \in 1 .. Len(KeyOrder)
      PROVE  KeyOrder[i] \in Keys /\ Position(KeyOrder[i]) = i
  <2>1. KeyOrder[i] \in Keys
    BY <1>1
  <2> QED  BY <1>1, <1>2, <2>1, ListingAssumption
<1> QED  BY <1>1, <1>2, <1>3

LEMMA EntryIs ==
    ASSUME NEW e \in Entry
    PROVE  e.key \in Keys /\ e.id \in UploadIDs /\ e.id \in Nat /\ Position(e.key) \in Nat
  BY Positions, BoundAssumption DEF Entry, UploadIDs

\* Uploads of two keys, or of one, are before or behind each other.
LEMMA BeforeOrder ==
    ASSUME NEW d \in Entry, NEW e \in Entry, NEW f \in Entry
    PROVE  /\ ~Before(e, e)
           /\ Before(d, e) /\ Before(e, f) => Before(d, f)
           /\ e = f \/ Before(e, f) \/ Before(f, e)
<1>1. /\ d.id \in Nat /\ e.id \in Nat /\ f.id \in Nat
      /\ Position(d.key) \in Nat /\ Position(e.key) \in Nat /\ Position(f.key) \in Nat
  BY EntryIs
<1>2. e.key = f.key /\ e.id = f.id => e = f
  BY DEF Entry
<1>3. Position(e.key) = Position(f.key) => e.key = f.key
  BY Positions, EntryIs
<1> QED  BY <1>1, <1>2, <1>3 DEF Before

LEMMA SortedConcat ==
    ASSUME NEW s \in Seq(Entry), NEW t \in Seq(Entry), Sorted(s), Sorted(t),
           \A i \in 1 .. Len(s), j \in 1 .. Len(t) : Before(s[i], t[j])
    PROVE  /\ s \o t \in Seq(Entry) /\ Sorted(s \o t)
           /\ \A e : Lists(s \o t, e) <=> Lists(s, e) \/ Lists(t, e)
<1>1. /\ s \o t \in Seq(Entry) /\ Len(s \o t) = Len(s) + Len(t)
      /\ Len(s) \in Nat /\ Len(t) \in Nat
      /\ \A i \in 1 .. Len(s) + Len(t) :
            (s \o t)[i] = IF i <= Len(s) THEN s[i] ELSE t[i - Len(s)]
  OBVIOUS
<1>2. Sorted(s \o t)
  <2> SUFFICES ASSUME NEW i \in 1 .. Len(s) + Len(t), NEW j \in 1 .. Len(s) + Len(t), i < j
               PROVE  Before((s \o t)[i], (s \o t)[j])
    BY <1>1 DEF Sorted
  <2>1. CASE j <= Len(s)
    BY <1>1, <2>1 DEF Sorted
  <2>2. CASE i <= Len(s) /\ j > Len(s)
    BY <1>1, <2>2
  <2>3. CASE i > Len(s)
    BY <1>1, <2>3 DEF Sorted
  <2> QED  BY <1>1, <2>1, <2>2, <2>3
<1>3. ASSUME NEW e
      PROVE  Lists(s \o t, e) <=> Lists(s, e) \/ Lists(t, e)
  <2>1. ASSUME NEW i \in 1 .. Len(s), s[i] = e PROVE Lists(s \o t, e)
    BY <1>1, <2>1 DEF Lists
  <2>2. ASSUME NEW i \in 1 .. Len(t), t[i] = e PROVE Lists(s \o t, e)
    <3>1. i + Len(s) \in 1 .. Len(s \o t) /\ (s \o t)[i + Len(s)] = t[i]
      BY <1>1
    <3> QED  BY <2>2, <3>1 DEF Lists
  <2>3. ASSUME NEW i \in 1 .. Len(s \o t), (s \o t)[i] = e PROVE Lists(s, e) \/ Lists(t, e)
    <3>1. i <= Len(s) \/ i - Len(s) \in 1 .. Len(t)
      BY <1>1
    <3> QED  BY <1>1, <2>3, <3>1 DEF Lists
  <2> QED  BY <2>1, <2>2, <2>3 DEF Lists
<1> QED  BY <1>1, <1>2, <1>3

LEMMA NothingSorted == <<>> \in Seq(Entry) /\ Sorted(<<>>) /\ \A e : ~Lists(<<>>, e)
  BY DEF Sorted, Lists

LEMMA SortedPart ==
    ASSUME NEW s \in Seq(Entry), Sorted(s), NEW m \in 1 .. Len(s) + 1, NEW n \in 0 .. Len(s)
    PROVE  /\ SubSeq(s, m, n) \in Seq(Entry) /\ Sorted(SubSeq(s, m, n))
           /\ \A e : Lists(SubSeq(s, m, n), e) <=> \E i \in m .. n : s[i] = e
<1>1. /\ SubSeq(s, m, n) \in Seq(Entry) /\ Len(s) \in Nat
      /\ Len(SubSeq(s, m, n)) = IF m <= n THEN n - m + 1 ELSE 0
      /\ \A i \in 1 .. n - m + 1 : SubSeq(s, m, n)[i] = s[m + i - 1]
  OBVIOUS
<1>2. Sorted(SubSeq(s, m, n))
  <2> SUFFICES ASSUME NEW i \in 1 .. n - m + 1, NEW j \in 1 .. n - m + 1, i < j
               PROVE  Before(SubSeq(s, m, n)[i], SubSeq(s, m, n)[j])
    BY <1>1 DEF Sorted
  <2>1. m + i - 1 \in 1 .. Len(s) /\ m + j - 1 \in 1 .. Len(s) /\ m + i - 1 < m + j - 1
    BY <1>1
  <2> QED  BY <1>1, <2>1 DEF Sorted
<1>3. ASSUME NEW e
      PROVE  Lists(SubSeq(s, m, n), e) <=> \E i \in m .. n : s[i] = e
  <2>1. ASSUME NEW i \in 1 .. Len(SubSeq(s, m, n)), SubSeq(s, m, n)[i] = e
        PROVE  \E j \in m .. n : s[j] = e
    <3>1. m + i - 1 \in m .. n /\ s[m + i - 1] = e
      BY <1>1, <2>1
    <3> QED  BY <3>1
  <2>2. ASSUME NEW i \in m .. n, s[i] = e
        PROVE  Lists(SubSeq(s, m, n), e)
    <3>1. i - m + 1 \in 1 .. Len(SubSeq(s, m, n)) /\ SubSeq(s, m, n)[i - m + 1] = s[i]
      BY <1>1
    <3> QED  BY <2>2, <3>1 DEF Lists
  <2> QED  BY <2>1, <2>2 DEF Lists
<1> QED  BY <1>1, <1>2, <1>3

-----------------------------------------------------------------------------
(* What a bucket's index has, in the order of the iteration.               *)

\* The uploads of a key, in the order of their initiation.
LEMMA ListedOfIs ==
    ASSUME IInv, NEW b \in Buckets, NEW k \in Keys
    PROVE  /\ ListedOf(b, k) \in Seq(Entry) /\ Sorted(ListedOf(b, k))
           /\ \A e : Lists(ListedOf(b, k), e) <=> e \in ContentOf(b) /\ e.key = k
           /\ IDs(b, k) # NoEntry /\ Match[k] = Content =>
                 /\ Len(ListedOf(b, k)) = Len(IDs(b, k))
                 /\ \A i \in 1 .. Len(IDs(b, k)) : ListedOf(b, k)[i] = [key |-> k, id |-> IDs(b, k)[i]]
<1> DEFINE ids == IDs(b, k)
           s == ListedOf(b, k)
<1>1. ids # NoEntry => /\ ids \in Seq(UploadIDs) /\ DOMAIN ids = 1 .. Len(ids) /\ Len(ids) \in Nat
                       /\ \A i \in 1 .. Len(ids) : ids[i] \in UploadIDs
  BY DEF IInv, TypeOK, IDs
<1>2. {UploadsOf(b, k)[i] : i \in DOMAIN UploadsOf(b, k)} = {id \in UploadIDs : Holds(b, k, id)}
  BY DEF IInv, IndexMatchesUploads
<1>3. ids # NoEntry => \A i, j \in 1 .. Len(ids) : i < j => ids[i] < ids[j]
  BY <1>1 DEF IInv, IndexMatchesUploads, UploadsOf, IDs
<1>4. \A e \in Entry : e.key = k /\ LiveIn(uploads[b], e) <=> e.key = k /\ Holds(b, k, e.id)
  BY DEF LiveIn, Holds
<1>5. CASE ids # NoEntry /\ Match[k] = Content
  <2>1. /\ s = [i \in 1 .. Len(ids) |-> [key |-> k, id |-> ids[i]]]
    BY <1>1, <1>5 DEF ListedOf, Entries
  <2>2. \A i \in 1 .. Len(ids) : [key |-> k, id |-> ids[i]] \in Entry
    BY <1>1, <1>5 DEF Entry
  <2>3. s \in Seq(Entry) /\ Len(s) = Len(ids)
    BY <1>1, <1>5, <2>1, <2>2
  <2>4. Sorted(s)
    BY <1>3, <1>5, <2>1, <2>3 DEF Sorted, Before
  <2>5. ASSUME NEW e, Lists(s, e)
        PROVE  e \in ContentOf(b) /\ e.key = k
    <3>1. PICK i \in 1 .. Len(ids) : e = [key |-> k, id |-> ids[i]]
      BY <2>1, <2>3, <2>5 DEF Lists
    <3>2. e \in Entry /\ e.key = k /\ e.id = ids[i]
      BY <2>2, <3>1
    <3>3. Holds(b, k, ids[i])
      BY <1>1, <1>2, <1>5, <3>1 DEF UploadsOf, IDs
    <3> QED  BY <1>4, <1>5, <3>2, <3>3 DEF ContentOf
  <2>6. ASSUME NEW e \in ContentOf(b), e.key = k
        PROVE  Lists(s, e)
    <3>1. e \in Entry /\ e.id \in UploadIDs /\ Holds(b, k, e.id)
      BY <1>4, <2>6 DEF ContentOf, Entry
    <3>2. PICK i \in 1 .. Len(ids) : ids[i] = e.id
      BY <1>1, <1>2, <1>5, <3>1 DEF UploadsOf, IDs
    <3>3. e = [key |-> k, id |-> ids[i]]
      BY <2>6, <3>1, <3>2 DEF Entry
    <3> QED  BY <2>1, <2>3, <3>3 DEF Lists
  <2> QED  BY <1>5, <2>1, <2>3, <2>4, <2>5, <2>6
<1>6. CASE ids = NoEntry \/ Match[k] # Content
  <2>1. s = <<>>
    BY <1>6 DEF ListedOf
  <2>2. ASSUME NEW e \in ContentOf(b), e.key = k
        PROVE  FALSE
    <3>1. Match[k] = Content /\ e.id \in UploadIDs /\ Holds(b, k, e.id)
      BY <1>4, <2>2 DEF ContentOf, Entry
    <3>2. ids = NoEntry /\ UploadsOf(b, k) = <<>>
      BY <1>6, <3>1 DEF UploadsOf, IDs
    <3>3. DOMAIN <<>> = {}
      BY EmptySeq
    <3> QED  BY <1>2, <3>1, <3>2, <3>3
  <2> QED  BY <1>6, <2>1, <2>2, NothingSorted
<1> QED  BY <1>5, <1>6

LEMMA ListedFromIs ==
    ASSUME IInv, NEW b \in Buckets, NEW from \in 1 .. Len(KeyOrder) + 1
    PROVE  /\ ListedFrom(b, from) \in Seq(Entry) /\ Sorted(ListedFrom(b, from))
           /\ \A e : Lists(ListedFrom(b, from), e) <=> e \in ContentOf(b) /\ Position(e.key) >= from
<1> DEFINE n == Len(KeyOrder)
           step == [x \in Nat \X Seq(Entry) |->
                       IF x[1] \in from .. n THEN x[2] \o ListedOf(b, KeyOrder[x[1]]) ELSE <<>>]
           upTo[i \in 0 .. Len(KeyOrder)] ==
              IF i < from THEN <<>> ELSE upTo[i - 1] \o ListedOf(b, KeyOrder[i])
<1>1. n \in Nat /\ \A i \in 1 .. n : /\ KeyOrder[i] \in Keys
                                     /\ ListedOf(b, KeyOrder[i]) \in Seq(Entry)
  BY Positions, ListedOfIs
<1>2. step \in [Nat \X Seq(Entry) -> Seq(Entry)]
  <2>1. ASSUME NEW x \in Nat \X Seq(Entry)
        PROVE  (IF x[1] \in from .. n THEN x[2] \o ListedOf(b, KeyOrder[x[1]]) ELSE <<>>) \in Seq(Entry)
    <3>1. x[1] \in Nat /\ x[2] \in Seq(Entry)
      OBVIOUS
    <3>2. CASE x[1] \in from .. n
      <4>1. ListedOf(b, KeyOrder[x[1]]) \in Seq(Entry)
        BY <1>1, <3>1, <3>2
      <4> QED  BY <3>1, <3>2, <4>1
    <3> QED  BY <3>2
  <2> QED  BY <2>1
<1>3. \A i \in Nat, v \in Seq(Entry) :
         step[<<i, v>>] = IF i \in from .. n THEN v \o ListedOf(b, KeyOrder[i]) ELSE <<>>
  BY <1>1
<1> HIDE DEF step
<1>4. PICK f : Steps(f, Seq(Entry), <<>>, step, n)
  <2>1. n \in Nat /\ <<>> \in Seq(Entry)
    BY <1>1, NothingSorted
  <2> HIDE DEF n
  <2> QED  BY <1>2, <2>1, Recursion
<1>5. f = [i \in 0 .. n |-> IF i < from THEN <<>> ELSE f[i - 1] \o ListedOf(b, KeyOrder[i])]
  <2>1. f = [i \in 0 .. n |-> f[i]]
    BY <1>4 DEF Steps
  <2>2. ASSUME NEW i \in 0 .. n
        PROVE  f[i] = IF i < from THEN <<>> ELSE f[i - 1] \o ListedOf(b, KeyOrder[i])
    <3>1. CASE i = 0
      BY <1>4, <3>1 DEF Steps
    <3>2. CASE i > 0
      <4>1. i \in 1 .. n /\ i - 1 \in 0 .. n /\ i \in Nat
        BY <1>1, <3>2
      <4>2. f[i] = step[<<i, f[i - 1]>>] /\ f[i - 1] \in Seq(Entry)
        BY <1>4, <4>1 DEF Steps
      <4> QED  BY <1>1, <1>3, <4>1, <4>2
    <3> QED  BY <1>1, <3>1, <3>2
  <2> QED  BY <2>1, <2>2
<1>6. upTo = [i \in 0 .. Len(KeyOrder) |->
                IF i < from THEN <<>> ELSE upTo[i - 1] \o ListedOf(b, KeyOrder[i])]
  BY <1>5
<1>7. ListedFrom(b, from) = upTo[n]
  BY DEF ListedFrom
<1> HIDE DEF upTo
<1> DEFINE Upto(i) == /\ upTo[i] \in Seq(Entry) /\ Sorted(upTo[i])
                      /\ \A e : Lists(upTo[i], e) <=>
                            e \in ContentOf(b) /\ Position(e.key) \in from .. i
           T == {i \in Nat : i <= n => Upto(i)}
<1>8. 0 \in T
  <2>1. upTo[0] = <<>>
    BY <1>1, <1>6
  <2>2. \A e : ~(Position(e.key) \in from .. 0)
    OBVIOUS
  <2> QED  BY <2>1, <2>2, NothingSorted
<1>9. ASSUME NEW i \in Nat, i \in T
      PROVE  i + 1 \in T
  <2> SUFFICES ASSUME i + 1 <= n
               PROVE  Upto(i + 1)
    OBVIOUS
  <2>1. Upto(i) /\ i + 1 \in 0 .. n /\ i + 1 \in 1 .. n /\ (i + 1) - 1 = i
    BY <1>1, <1>9
  <2>2. upTo[i + 1] = IF i + 1 < from THEN <<>> ELSE upTo[i] \o ListedOf(b, KeyOrder[i + 1])
    BY <1>6, <2>1
  <2>3. CASE i + 1 < from
    <3>1. \A e : ~(Position(e.key) \in from .. i + 1)
      BY <2>3
    <3> QED  BY <2>2, <2>3, <3>1, NothingSorted
  <2>4. CASE i + 1 >= from
    <3> DEFINE k == KeyOrder[i + 1]
               s == upTo[i]
               t == ListedOf(b, k)
    <3>1. k \in Keys /\ Position(k) = i + 1
      BY <2>1, Positions
    <3>2. /\ t \in Seq(Entry) /\ Sorted(t)
          /\ \A e : Lists(t, e) <=> e \in ContentOf(b) /\ e.key = k
      BY <3>1, ListedOfIs
    <3>3. s \in Seq(Entry) /\ Sorted(s)
          /\ \A e : Lists(s, e) <=> e \in ContentOf(b) /\ Position(e.key) \in from .. i
      BY <2>1
    <3>4. upTo[i + 1] = s \o t
      <4>1. ~(i + 1 < from)
        BY <2>4
      <4> QED  BY <2>2, <4>1
    <3> HIDE DEF s, t, k
    <3>5. \A x \in 1 .. Len(s), y \in 1 .. Len(t) : Before(s[x], t[y])
      <4> SUFFICES ASSUME NEW x \in 1 .. Len(s), NEW y \in 1 .. Len(t)
                   PROVE  Before(s[x], t[y])
        OBVIOUS
      <4>1. Position(s[x].key) \in from .. i
        BY <3>3 DEF Lists
      <4>2. t[y].key = k
        BY <3>2 DEF Lists
      <4> QED  BY <3>1, <4>1, <4>2 DEF Before
    <3>6. /\ s \o t \in Seq(Entry) /\ Sorted(s \o t)
          /\ \A e : Lists(s \o t, e) <=> Lists(s, e) \/ Lists(t, e)
      BY <3>2, <3>3, <3>5, SortedConcat
    <3>7. ASSUME NEW e \in ContentOf(b)
          PROVE  Position(e.key) \in from .. i + 1 <=> Position(e.key) \in from .. i \/ e.key = k
      <4>1. e.key \in Keys
        BY DEF ContentOf, Entry
      <4>2. Position(e.key) = i + 1 <=> e.key = k
        BY <3>1, <4>1, Positions
      <4> QED  BY <2>4, <4>1, <4>2, Positions
    <3> QED  BY <3>2, <3>3, <3>4, <3>6, <3>7
  <2> QED  BY <2>3, <2>4
<1> HIDE DEF T
<1>10. n \in T
  BY <1>1, <1>8, <1>9, Induction
<1>11. Upto(n)
  BY <1>1, <1>10 DEF T
<1>12. \A e \in ContentOf(b) : Position(e.key) >= from <=> Position(e.key) \in from .. n
  BY Positions DEF ContentOf, Entry
<1> QED  BY <1>7, <1>11, <1>12

\* Candidates are all that is left to list: from the marker on, or of the bucket.
LEMMA CandidatesAre ==
    ASSUME IInv, NEW b \in Buckets, NEW m, m = NoMarker \/ m \in ContentOf(b)
    PROVE  /\ Candidates(b, m) \in Seq(Entry) /\ Sorted(Candidates(b, m))
           /\ \A e : Lists(Candidates(b, m), e) <=>
                        e \in ContentOf(b) /\ (m = NoMarker \/ FromOn(m, e))
<1>1. CASE m = NoMarker
  <2>1. 1 \in 1 .. Len(KeyOrder) + 1
    BY Positions
  <2>2. \A e \in ContentOf(b) : Position(e.key) >= 1
    BY Positions DEF ContentOf, Entry
  <2> QED  BY <1>1, <2>1, <2>2, ListedFromIs DEF Candidates
<1>2. CASE m \in ContentOf(b)
  <2> DEFINE k == m.key
             p == Position(k)
             at == {i \in DOMAIN KeyOrder : /\ i >= p /\ HasMarker(b, KeyOrder[i], m.id)}
             ids == IDs(b, k)
             x == IndexOf(m.id, ids)
             listed == ListedOf(b, k)
             rest == SubSeq(listed, x, Len(listed))
             later == ListedFrom(b, p + 1)
  <2>1. /\ m \in Entry /\ k \in Keys /\ m.id \in UploadIDs /\ Match[k] = Content
        /\ Holds(b, k, m.id) /\ m # NoMarker
    BY <1>2, ListingAssumption DEF ContentOf, Entry, LiveIn, Holds
  <2>2. p \in 1 .. Len(KeyOrder) /\ KeyOrder[p] = k /\ DOMAIN KeyOrder = 1 .. Len(KeyOrder)
        /\ Len(KeyOrder) \in Nat
    BY <2>1, Positions, ListingAssumption
  <2>3. /\ ids # NoEntry
        /\ \E i \in DOMAIN ids : ids[i] = m.id
    <3>1. {UploadsOf(b, k)[i] : i \in DOMAIN UploadsOf(b, k)} = {id \in UploadIDs : Holds(b, k, id)}
      BY <2>1 DEF IInv, IndexMatchesUploads
    <3>2. \E i \in DOMAIN UploadsOf(b, k) : UploadsOf(b, k)[i] = m.id
      BY <2>1, <3>1
    <3>3. DOMAIN <<>> = {}
      BY EmptySeq
    <3> QED  BY <3>2, <3>3 DEF UploadsOf, IDs
  <2>4. at = {p}
    <3>1. p \in at
      BY <2>1, <2>2, <2>3, ListingAssumption DEF HasMarker
    <3>2. ASSUME NEW i \in at PROVE i = p
      <4> DEFINE l == KeyOrder[i]
      <4>1. l \in Keys /\ Position(l) = i /\ HasMarker(b, l, m.id)
        BY <2>2, <3>2, Positions
      <4>2. {UploadsOf(b, l)[j] : j \in DOMAIN UploadsOf(b, l)} = {id \in UploadIDs : Holds(b, l, id)}
        BY <4>1 DEF IInv, IndexMatchesUploads
      <4>3. Holds(b, l, m.id)
        BY <2>1, <4>1, <4>2 DEF HasMarker, UploadsOf, IDs
      <4> QED  BY <2>1, <4>1, <4>3 DEF Holds
    <3> QED  BY <3>1, <3>2
  <2>5. (CHOOSE i \in at : \A j \in at : i <= j) = p
    BY <2>2, <2>4
  <2>6. Candidates(b, m) = rest \o later
    <3> HIDE DEF at
    <3>1. at # {}
      BY <2>4
    <3>2. Candidates(b, m) = FromMarker(b, KeyOrder[p], m.id) \o ListedFrom(b, p + 1)
      BY <2>1, <2>5, <3>1 DEF Candidates, at
    <3> QED  BY <2>2, <3>2 DEF FromMarker
  <2>7. /\ listed \in Seq(Entry) /\ Sorted(listed)
        /\ \A e : Lists(listed, e) <=> e \in ContentOf(b) /\ e.key = k
        /\ Len(listed) = Len(ids)
        /\ \A i \in 1 .. Len(ids) : listed[i] = [key |-> k, id |-> ids[i]]
    BY <2>1, <2>3, ListedOfIs
  <2>8. x \in 1 .. Len(listed) /\ listed[x] = m
    <3>1. DOMAIN ids = 1 .. Len(ids)
      BY <2>1, <2>3 DEF IInv, TypeOK, IDs
    <3>2. x \in DOMAIN ids /\ ids[x] = m.id
      BY <2>3 DEF IndexOf
    <3>3. m = [key |-> k, id |-> m.id]
      BY <2>1 DEF Entry
    <3> QED  BY <2>7, <3>1, <3>2, <3>3
  <2>9. /\ later \in Seq(Entry) /\ Sorted(later)
        /\ \A e : Lists(later, e) <=> e \in ContentOf(b) /\ Position(e.key) >= p + 1
    <3>1. p + 1 \in 1 .. Len(KeyOrder) + 1
      BY <2>2
    <3> QED  BY <3>1, ListedFromIs
  <2> HIDE DEF listed, later, x, ids, at
  <2>10. /\ rest \in Seq(Entry) /\ Sorted(rest)
         /\ \A e : Lists(rest, e) <=> \E i \in x .. Len(listed) : listed[i] = e
    <3>1. x \in 1 .. Len(listed) + 1 /\ Len(listed) \in 0 .. Len(listed)
      BY <2>7, <2>8
    <3> QED  BY <2>7, <3>1, SortedPart
  <2>11. \A e : Lists(rest, e) <=> e \in ContentOf(b) /\ e.key = k /\ FromOn(m, e)
    <3> SUFFICES ASSUME NEW e
                 PROVE  Lists(rest, e) <=> e \in ContentOf(b) /\ e.key = k /\ FromOn(m, e)
      OBVIOUS
    <3>1. ASSUME NEW i \in x .. Len(listed), listed[i] = e
          PROVE  e \in ContentOf(b) /\ e.key = k /\ FromOn(m, e)
      <4>1. i \in 1 .. Len(listed) /\ (i = x \/ x < i)
        BY <2>7, <2>8
      <4>2. FromOn(m, e)
        BY <2>7, <2>8, <3>1, <4>1 DEF Sorted, FromOn
      <4> QED  BY <2>7, <3>1, <4>1, <4>2 DEF Lists
    <3>2. ASSUME e \in ContentOf(b), e.key = k, FromOn(m, e)
          PROVE  \E i \in x .. Len(listed) : listed[i] = e
      <4>1. PICK i \in 1 .. Len(listed) : listed[i] = e
        BY <2>7, <3>2 DEF Lists
      <4>2. CASE i < x
        <5>1. Before(e, m)
          BY <2>7, <2>8, <4>1, <4>2 DEF Sorted
        <5>2. e \in Entry
          BY <3>2 DEF ContentOf
        <5> QED  BY <2>1, <3>2, <5>1, <5>2, BeforeOrder DEF FromOn
      <4>3. CASE i >= x
        BY <2>7, <2>8, <4>1, <4>3
      <4> QED  BY <2>7, <2>8, <4>2, <4>3
    <3> QED  BY <2>10, <3>1, <3>2
  <2> HIDE DEF rest
  <2>12. \A i \in 1 .. Len(rest), j \in 1 .. Len(later) : Before(rest[i], later[j])
    <3> SUFFICES ASSUME NEW i \in 1 .. Len(rest), NEW j \in 1 .. Len(later)
                 PROVE  Before(rest[i], later[j])
      OBVIOUS
    <3>1. rest[i].key = k
      BY <2>11 DEF Lists
    <3>2. later[j] \in ContentOf(b) /\ Position(later[j].key) >= p + 1
      BY <2>9 DEF Lists
    <3>3. Position(later[j].key) \in Nat
      BY <3>2, EntryIs DEF ContentOf
    <3> QED  BY <2>2, <3>1, <3>2, <3>3 DEF Before
  <2>13. /\ rest \o later \in Seq(Entry) /\ Sorted(rest \o later)
         /\ \A e : Lists(rest \o later, e) <=> Lists(rest, e) \/ Lists(later, e)
    BY <2>9, <2>10, <2>12, SortedConcat
  <2>14. ASSUME NEW e \in ContentOf(b)
         PROVE  FromOn(m, e) <=> (e.key = k /\ FromOn(m, e)) \/ Position(e.key) >= p + 1
    <3>1. e \in Entry /\ e.key \in Keys /\ Position(e.key) \in Nat
      BY EntryIs DEF ContentOf
    <3>2. Position(e.key) = p => e.key = k
      BY <2>2, <3>1, Positions
    <3>3. e = m => e.key = k
      OBVIOUS
    <3> QED  BY <2>2, <3>1, <3>2, <3>3 DEF FromOn, Before
  <2> QED  BY <2>1, <2>6, <2>9, <2>11, <2>13, <2>14
<1> QED  BY <1>1, <1>2

\* A page takes the first of them, and its next marker is the one behind.
LEMMA PageIs ==
    ASSUME IInv, NEW b \in Buckets, NEW m, m = NoMarker \/ m \in ContentOf(b),
           NEW limit \in Nat \ {0}
    PROVE  LET page == Truncate(Candidates(b, m), limit)
               next == NextMarker(b, m, limit)
               Left(e) == e \in ContentOf(b) /\ (m = NoMarker \/ FromOn(m, e))
           IN  /\ page \in Seq(Entry) /\ Sorted(page) /\ \A e : Lists(page, e) => Left(e)
               /\ next = NoMarker => \A e : Left(e) => Lists(page, e)
               /\ next # NoMarker => /\ Left(next)
                                     /\ \A i \in 1 .. Len(page) : Before(page[i], next)
                                     /\ \A e : Left(e) => Lists(page, e) \/ FromOn(next, e)
<1> DEFINE c == Candidates(b, m)
           page == Truncate(c, limit)
           next == NextMarker(b, m, limit)
           Left(e) == e \in ContentOf(b) /\ (m = NoMarker \/ FromOn(m, e))
           n == IF limit < Len(c) THEN limit ELSE Len(c)
<1>1. c \in Seq(Entry) /\ Sorted(c) /\ \A e : Lists(c, e) <=> Left(e)
  BY CandidatesAre
<1>2. page = SubSeq(c, 1, n)
  BY DEF Truncate
<1>3. ~SeekFails(b, m)
  <2> SUFFICES ASSUME m \in ContentOf(b), SeekFails(b, m)
               PROVE  FALSE
    BY DEF SeekFails
  <2>1. m.key \in Keys /\ m.id \in UploadIDs /\ Holds(b, m.key, m.id)
    BY DEF ContentOf, Entry, LiveIn, Holds
  <2>2. /\ Position(m.key) \in 1 .. Len(KeyOrder) /\ KeyOrder[Position(m.key)] = m.key
        /\ DOMAIN KeyOrder = 1 .. Len(KeyOrder)
    BY <2>1, Positions, ListingAssumption
  <2>3. IDs(b, m.key) = NoEntry
    BY <2>2 DEF SeekFails
  <2>4. DOMAIN UploadsOf(b, m.key) = {}
    BY <2>3, EmptySeq DEF UploadsOf, IDs
  <2> QED  BY <2>1, <2>4 DEF IInv, IndexMatchesUploads
<1>4. next = IF Len(c) > limit THEN c[limit + 1] ELSE NoMarker
  BY <1>3 DEF NextMarker
<1>5. Len(c) \in Nat /\ n \in 0 .. Len(c) /\ 1 \in 1 .. Len(c) + 1
  BY <1>1
<1> HIDE DEF c, page, next, Left
<1>6. /\ page \in Seq(Entry) /\ Sorted(page)
      /\ \A e : Lists(page, e) <=> \E i \in 1 .. n : c[i] = e
  <2> HIDE DEF n
  <2> QED  BY <1>1, <1>2, <1>5, SortedPart
<1>7. \A e : Lists(page, e) => Left(e)
  BY <1>1, <1>5, <1>6 DEF Lists
<1>8. CASE Len(c) > limit
  <2>1. n = limit /\ limit + 1 \in 1 .. Len(c) /\ next = c[limit + 1] /\ next \in Entry
    BY <1>1, <1>4, <1>5, <1>8
  <2>2. next # NoMarker /\ Left(next)
    BY <1>1, <2>1, ListingAssumption DEF Lists
  <2>3. ASSUME NEW i \in 1 .. Len(page)
        PROVE  Before(page[i], next)
    <3>1. PICK j \in 1 .. n : c[j] = page[i]
      BY <1>6 DEF Lists
    <3> QED  BY <1>1, <1>5, <2>1, <3>1 DEF Sorted
  <2>4. ASSUME NEW e, Left(e)
        PROVE  Lists(page, e) \/ FromOn(next, e)
    <3>1. PICK j \in 1 .. Len(c) : c[j] = e
      BY <1>1, <2>4 DEF Lists
    <3>2. CASE j <= limit
      BY <1>6, <2>1, <3>1, <3>2
    <3>3. CASE j = limit + 1
      BY <2>1, <3>1, <3>3 DEF FromOn
    <3>4. CASE j > limit + 1
      BY <1>1, <2>1, <3>1, <3>4 DEF FromOn, Sorted
    <3> QED  BY <3>2, <3>3, <3>4
  <2> QED  BY <1>6, <1>7, <2>2, <2>3, <2>4 DEF c, page, next, Left
<1>9. CASE ~(Len(c) > limit)
  <2>1. n = Len(c) /\ next = NoMarker
    BY <1>4, <1>5, <1>9
  <2>2. \A e : Left(e) => Lists(page, e)
    BY <1>1, <1>6, <2>1 DEF Lists
  <2> QED  BY <1>6, <1>7, <2>1, <2>2 DEF c, page, next, Left
<1> QED  BY <1>8, <1>9

-----------------------------------------------------------------------------
(* Listings: the invariant holds.                                          *)

LEMMA InitListing == ListingInit => ListingInv
<1> SUFFICES ASSUME ListingInit
             PROVE  ListingInv
  OBVIOUS
<1>1. IInv
  BY InitIInv DEF ListingInit
<1> QED  BY <1>1, NothingSorted DEF ListingInit, ListingInv

\* Others may end the marker's upload, which shows, and add uploads, which a page
\* comes to or not.
LEMMA ObserveKeeps ==
    ASSUME ListingInv, Observe
    PROVE  ListingInv'
<1> DEFINE Survives(e) == LiveIn(uploads'[listing.bucket], e)
<1>1. IInv'
  BY StepIInv DEF Observe, ListingInv
<1>2. listing' = [listing EXCEPT
           !.since = {e \in listing.since : Survives(e)},
           !.markerEnded = listing.markerEnded \/ (listing.marker # NoMarker /\ ~Survives(listing.marker))]
  BY DEF Observe
<1>3. listing' = [bucket |-> listing.bucket, phase |-> listing.phase, marker |-> listing.marker,
                  listed |-> listing.listed, since |-> {e \in listing.since : Survives(e)},
                  markerEnded |-> listing.markerEnded
                                     \/ (listing.marker # NoMarker /\ ~Survives(listing.marker)),
                  pages |-> listing.pages]
  BY <1>2, Zenon DEF ListingInv
<1>4. listing'.markerEnded \in BOOLEAN
  BY <1>3 DEF ListingInv
<1>5. ASSUME ~listing'.markerEnded
      PROVE  /\ ~listing.markerEnded
             /\ listing.marker # NoMarker => Survives(listing.marker)
  BY <1>3, <1>5 DEF ListingInv
<1>6. ASSUME ~listing'.markerEnded, listing.phase = "paging"
      PROVE  Paging'
  <2>1. Paging
    BY <1>5, <1>6 DEF ListingInv
  <2>2. listing.marker \in ContentOf(listing.bucket) /\ listing.marker # NoMarker
    BY <2>1, ListingAssumption DEF Paging, ContentOf
  <2>3. \A e \in ContentOf(listing.bucket) : Survives(e) => e \in ContentOf(listing.bucket)'
    BY <1>3 DEF ContentOf
  <2> QED  BY <1>3, <1>5, <1>6, <2>1, <2>2, <2>3 DEF Paging
<1> QED  BY <1>1, <1>3, <1>4, <1>5, <1>6 DEF ListingInv

LEMMA PageKeeps ==
    ASSUME ListingInv, NEW b \in Buckets, NEW limit \in 1 .. MaxLimit,
           ListMultipartUploads(b, limit)
    PROVE  ListingInv'
<1> DEFINE m == listing.marker
           page == Truncate(Candidates(b, m), limit)
           next == NextMarker(b, m, limit)
           since == IF listing.phase = "idle" THEN ContentOf(b) ELSE listing.since
           Left(e) == e \in ContentOf(b) /\ (m = NoMarker \/ FromOn(m, e))
<1>1. limit \in Nat \ {0}
  OBVIOUS
<1>2. IInv' /\ UNCHANGED vars
  BY StepIInv DEF ListMultipartUploads, ListingInv
<1>3. listing' = [bucket |-> b, phase |-> IF next = NoMarker THEN "done" ELSE "paging",
                  marker |-> next, listed |-> listing.listed \o page, since |-> since,
                  markerEnded |-> listing.markerEnded, pages |-> listing.pages + 1]
  <2>1. listing' = [listing EXCEPT !.bucket = b,
           !.phase = IF next = NoMarker THEN "done" ELSE "paging", !.marker = next,
           !.listed = listing.listed \o page, !.since = since, !.pages = listing.pages + 1]
    BY DEF ListMultipartUploads
  <2> HIDE DEF page, next, since
  <2> QED  BY <2>1, Zenon DEF ListingInv
<1>4. ASSUME ~listing.markerEnded
      PROVE  /\ listing.listed \o page \in Seq(Entry)
             /\ Sorted(listing.listed \o page)
             /\ next = NoMarker => \A e \in since : Lists(listing.listed \o page, e)
             /\ next # NoMarker => Paging'
  <2>1. /\ listing.listed \in Seq(Entry) /\ Sorted(listing.listed)
        /\ \/ listing.phase = "idle" /\ m = NoMarker /\ listing.listed = <<>>
           \/ listing.phase = "paging" /\ listing.bucket = b /\ Paging
    BY <1>4 DEF ListingInv, ListMultipartUploads
  <2>2. m = NoMarker \/ m \in ContentOf(b)
    BY <2>1 DEF Paging
  <2>3. /\ page \in Seq(Entry) /\ Sorted(page) /\ \A e : Lists(page, e) => Left(e)
        /\ next = NoMarker => \A e : Left(e) => Lists(page, e)
        /\ next # NoMarker => /\ Left(next)
                              /\ \A i \in 1 .. Len(page) : Before(page[i], next)
                              /\ \A e : Left(e) => Lists(page, e) \/ FromOn(next, e)
    BY <1>1, <2>2, PageIs DEF ListingInv
  <2>4. \A e \in since : Lists(listing.listed, e) \/ Left(e)
    BY <2>1 DEF Paging
  <2>5. \A e \in since : e \in ContentOf(b)
    BY <2>1 DEF Paging
  <2>6. \A e : Left(e) => \A i \in 1 .. Len(listing.listed) : Before(listing.listed[i], e)
    <3>1. CASE listing.listed = <<>>
      BY <3>1
    <3>2. CASE listing.phase = "paging" /\ listing.bucket = b /\ Paging
      <4> SUFFICES ASSUME NEW e, Left(e), NEW i \in 1 .. Len(listing.listed)
                   PROVE  Before(listing.listed[i], e)
        OBVIOUS
      <4>1. m \in Entry /\ m # NoMarker /\ Before(listing.listed[i], m)
        BY <3>2, ListingAssumption DEF Paging, ContentOf
      <4>2. e \in Entry /\ FromOn(m, e) /\ listing.listed[i] \in Entry
        BY <2>1, <4>1 DEF ContentOf
      <4> QED  BY <4>1, <4>2, BeforeOrder DEF FromOn
    <3> QED  BY <2>1, <3>1, <3>2
  <2> HIDE DEF Left, page, next, since
  <2>7. \A i \in 1 .. Len(listing.listed), j \in 1 .. Len(page) : Before(listing.listed[i], page[j])
    BY <2>3, <2>6 DEF Lists
  <2>8. /\ listing.listed \o page \in Seq(Entry) /\ Sorted(listing.listed \o page)
        /\ \A e : Lists(listing.listed \o page, e) <=> Lists(listing.listed, e) \/ Lists(page, e)
    BY <2>1, <2>3, <2>7, SortedConcat
  <2>9. ASSUME next # NoMarker
        PROVE  Paging'
    <3>1. next \in ContentOf(b) /\ ContentOf(b)' = ContentOf(b)
      BY <1>2, <2>3, <2>9 DEF Left, ContentOf, vars
    <3>2. ASSUME NEW i \in 1 .. Len(listing.listed \o page)
          PROVE  Before((listing.listed \o page)[i], next)
      <4>1. Lists(listing.listed, (listing.listed \o page)[i]) \/ Lists(page, (listing.listed \o page)[i])
        BY <2>8 DEF Lists
      <4> QED  BY <2>3, <2>6, <2>9, <4>1 DEF Lists
    <3>3. ASSUME NEW e \in since
          PROVE  e \in ContentOf(b) /\ (Lists(listing.listed \o page, e) \/ FromOn(next, e))
      BY <2>3, <2>4, <2>5, <2>8, <2>9
    <3> QED  BY <1>3, <3>1, <3>2, <3>3 DEF Paging
  <2> QED  BY <2>3, <2>4, <2>8, <2>9
<1> HIDE DEF page, next, since
<1> QED  BY <1>2, <1>3, <1>4 DEF ListingInv

LEMMA NextListing == ListingInv /\ [ListingNext]_listingVars => ListingInv'
<1> SUFFICES ASSUME ListingInv, [ListingNext]_listingVars
             PROVE  ListingInv'
  OBVIOUS
<1>1. CASE UNCHANGED listingVars
  <2>1. IInv'
    BY <1>1, StepIInv DEF ListingInv, listingVars
  <2> QED  BY <1>1, <2>1 DEF ListingInv, Paging, ContentOf, listingVars, vars
<1> QED  BY <1>1, ObserveKeeps, PageKeeps DEF ListingNext

\* ListMultipartUploads names uploads by key and then in the order of their initiation,
\* each once, over pages of any size and whatever is initiated, completed or aborted
\* between them, while the upload that each page begins at is still there.
THEOREM PagesInOrder == ListingSpec => []OrderedWhileMarked
<1>1. ListingInv => OrderedWhileMarked
  <2> SUFFICES ASSUME ListingInv, ~listing.markerEnded, NEW i \in 1 .. Len(listing.listed) - 1
               PROVE  Before(listing.listed[i], listing.listed[i + 1])
    BY DEF OrderedWhileMarked, Ordered
  <2>1. Len(listing.listed) \in Nat /\ Sorted(listing.listed)
    BY DEF ListingInv
  <2> QED  BY <2>1 DEF Sorted
<1> QED  BY <1>1, InitListing, NextListing, PTL DEF ListingSpec

\* ... and a listing that came to its end has left out no upload that was in progress
\* from its first page on.
THEOREM PagesComplete == ListingSpec => []CompleteWhileMarked
<1>1. ListingInv => CompleteWhileMarked
  <2> SUFFICES ASSUME ListingInv, listing.phase = "done", ~listing.markerEnded,
                      NEW e \in listing.since
               PROVE  \E i \in DOMAIN listing.listed : listing.listed[i] = e
    BY DEF CompleteWhileMarked
  <2>1. DOMAIN listing.listed = 1 .. Len(listing.listed) /\ Lists(listing.listed, e)
    BY DEF ListingInv
  <2> QED  BY <2>1 DEF Lists
<1> QED  BY <1>1, InitListing, NextListing, PTL DEF ListingSpec

=============================================================================
