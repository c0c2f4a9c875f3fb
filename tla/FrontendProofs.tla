--------------------------- MODULE FrontendProofs ---------------------------
(***************************************************************************)
(* What the request handlers guarantee, for any buckets, keys, clients,    *)
(* bodies, headers and server options, and any interleaving of requests.   *)
(*                                                                         *)
(* The inductive invariant says, of each client, what the stage of its     *)
(* handler has behind it: the request is of the operation that gets there, *)
(* a bucket to be created was missing once, and a write under way in the   *)
(* backend carries what the request, or the source of the copy, gave it.   *)
(***************************************************************************)
EXTENDS Frontend, TLAPS

-----------------------------------------------------------------------------
(* The store.                                                              *)

\* What a bucket holds.
Holdings == [Keys -> Stored \cup {NoObject}]

\* A visible object is one.
LEMMA VisibleStored ==
    ASSUME StoreTypeOK, NEW b \in Buckets, NEW k \in Keys
    PROVE  /\ store[b] # NoBucket => store[b] \in Holdings
           /\ Visible(b, k) => store[b][k] \in Stored
  BY DEF StoreTypeOK, Visible, Holdings

LEMMA HoldingsAt ==
    ASSUME StoreTypeOK, NEW b \in Buckets, store[b] # NoBucket
    PROVE  store[b] \in Holdings
  BY DEF StoreTypeOK, Holdings

LEMMA OverType ==
    ASSUME NEW new \in Headers, NEW existing \in Headers
    PROVE  Over(new, existing) \in Headers
  BY DEF Over

\* Every step of the store keeps its types.
LEMMA StoreNextType == StoreTypeOK /\ StoreNext => StoreTypeOK'
  <1> SUFFICES ASSUME StoreTypeOK, StoreNext PROVE StoreTypeOK'
    OBVIOUS
  <1>1. ASSUME NEW b \in Buckets, CreateBucketIn(b) \/ DropBucketOf(b)
        PROVE  StoreTypeOK'
    BY <1>1 DEF CreateBucketIn, DropBucketOf, StoreTypeOK
  <1>2. ASSUME NEW b \in Buckets, NEW ks \in SUBSET Keys, Vanish(b, ks)
        PROVE  StoreTypeOK'
    BY <1>2 DEF Vanish, StoreTypeOK
  <1>3. ASSUME NEW c \in Clients, NEW b \in Buckets, NEW k \in Keys, NEW meta \in Headers,
               NEW body \in Bodies, BeginWrite(c, b, k, body, meta)
        PROVE  StoreTypeOK'
    <2> DEFINE w == [step |-> "merge", bucket |-> b, key |-> k, body |-> body, meta |-> meta]
    <2>1. w \in Write
      BY DEF Write
    <2> HIDE DEF w
    <2>2. pending' = [pending EXCEPT ![c] = w] /\ UNCHANGED store
      BY <1>3 DEF BeginWrite, w
    <2>3. QED
      BY <2>1, <2>2 DEF StoreTypeOK
  <1>4. ASSUME NEW c \in Clients, NEW b \in Buckets, NEW k \in Keys, NEW meta \in Headers,
               NEW sb \in Buckets, NEW sk \in Keys, BeginCopy(c, sb, sk, b, k, meta)
        PROVE  StoreTypeOK'
    <2> DEFINE w == [step |-> "copy", srcBucket |-> sb, srcKey |-> sk, bucket |-> b, key |-> k,
                     meta |-> Over(meta, store[sb][sk].meta)]
    <2>1. Over(meta, store[sb][sk].meta) \in Headers
      BY <1>4, VisibleStored, OverType DEF BeginCopy, Stored
    <2>2. w \in Copy
      BY <2>1 DEF Copy
    <2> HIDE DEF w
    <2>3. pending' = [pending EXCEPT ![c] = w] /\ UNCHANGED store
      BY <1>4 DEF BeginCopy, w
    <2>4. QED
      BY <2>2, <2>3 DEF StoreTypeOK
  <1>5. ASSUME NEW c \in Clients, FetchBody(c)
        PROVE  StoreTypeOK'
    <2> DEFINE old == pending[c]
               w == [step |-> "merge", bucket |-> old.bucket, key |-> old.key,
                     body |-> store[old.srcBucket][old.srcKey].body, meta |-> old.meta]
    <2>1. old \in Copy
      BY <1>5 DEF FetchBody, StoreTypeOK, Write
    <2>2. store[old.srcBucket][old.srcKey] \in Stored
      BY <1>5, <2>1, VisibleStored DEF FetchBody, Copy
    <2>3. w \in Write
      BY <2>1, <2>2 DEF Copy, Stored, Write
    <2> HIDE DEF w
    <2>4. pending' = [pending EXCEPT ![c] = w] /\ UNCHANGED store
      BY <1>5 DEF FetchBody, w
    <2>5. QED
      BY <2>3, <2>4 DEF StoreTypeOK
  <1>6. ASSUME NEW c \in Clients, Inherit(c)
        PROVE  StoreTypeOK'
    <2> DEFINE old == pending[c]
               meta == IF Visible(old.bucket, old.key)
                       THEN Over(old.meta, store[old.bucket][old.key].meta) ELSE old.meta
               w == [step |-> "put", bucket |-> old.bucket, key |-> old.key, body |-> old.body,
                     meta |-> meta]
    <2>1. old \in Write
      BY <1>6 DEF Inherit, StoreTypeOK, Copy
    <2>2. meta \in Headers
      BY <2>1, VisibleStored, OverType DEF Write, Stored
    <2>3. w \in Write
      BY <2>1, <2>2 DEF Write
    <2> HIDE DEF w
    <2>4. pending' = [pending EXCEPT ![c] = w] /\ UNCHANGED store
      BY <1>6 DEF Inherit, w
    <2>5. QED
      BY <2>3, <2>4 DEF StoreTypeOK
  <1>7. ASSUME NEW c \in Clients, Commit(c)
        PROVE  StoreTypeOK'
    <2> DEFINE old == pending[c]
               o == [body |-> old.body, meta |-> old.meta]
               new == [store[old.bucket] EXCEPT ![old.key] = o]
    <2>1. old \in Write
      BY <1>7 DEF Commit, StoreTypeOK, Copy
    <2>2. o \in Stored /\ store[old.bucket] \in Holdings
      BY <1>7, <2>1, VisibleStored DEF Commit, Write, Stored, StoreTypeOK, Holdings
    <2> HIDE DEF o
    <2>3. new \in Holdings
      BY <2>2 DEF Holdings
    <2> HIDE DEF new
    <2>4. store' = [store EXCEPT ![old.bucket] = new] /\ pending' = [pending EXCEPT ![c] = NoWrite]
      BY <1>7 DEF Commit, o, new
    <2>5. QED
      BY <2>3, <2>4 DEF StoreTypeOK, Holdings
  <1>8. ASSUME NEW c \in Clients, Fail(c)
        PROVE  StoreTypeOK'
    BY <1>8 DEF Fail, StoreTypeOK
  <1>9. QED
    BY <1>1, <1>2, <1>3, <1>4, <1>5, <1>6, <1>7, <1>8 DEF StoreNext

-----------------------------------------------------------------------------
(* The invariant.                                                          *)

\* A bucket that the handler is about to create was missing when it looked.
MissedBucket(c) == \E s \in past[c] : s[BucketOf(c)] = NoBucket

\* The body was under the source's key at a moment of the request.
BodyOfSource(c, body) ==
    \E s \in past[c] :
        /\ s[request[c].srcBucket] # NoBucket
        /\ s[request[c].srcBucket][request[c].srcKey] # NoObject
        /\ body = s[request[c].srcBucket][request[c].srcKey].body

\* The write under way is the request's, and a copy has its body from its source.
Carries(c, w) ==
    LET r == request[c] IN
    /\ r.op \in {"createObject", "copyObject"}
    /\ w.bucket = r.bucket /\ w.key = r.key
    /\ w.step = "copy" =>
          r.op = "copyObject" /\ w.srcBucket = r.srcBucket /\ w.srcKey = r.srcKey
    /\ w.step # "copy" =>
          IF r.op = "createObject" THEN w.body = r.body ELSE BodyOfSource(c, w.body)

ClientOK(c) ==
    /\ answer[c].status \in Statuses
    /\ stage[c] = "idle" <=> request[c] = NoRequest
    /\ stage[c] = "backend" <=> pending[c] # NoWrite
    /\ stage[c] = "idle" <=> past[c] = {}
    /\ Serving(c) => store \in past[c]
    /\ stage[c] = "delete" => request[c].op = "forceDeleteBucket"
    /\ stage[c] = "retry" => request[c].op = "listBucket"
    /\ stage[c] \in {"create", "createAgain"} => MissedBucket(c)
    /\ stage[c] = "backend" => Carries(c, pending[c])

FrontInv ==
    /\ StoreTypeOK
    /\ setup \in Setups
    /\ request \in [Clients -> Request \cup {NoRequest}]
    /\ stage \in [Clients -> Stages]
    /\ answer = [c \in Clients |-> answer[c]]
    /\ past = [c \in Clients |-> past[c]]
    /\ \A c \in Clients : ClientOK(c)

\* The fields of a request that its operation says it has.
LEMMA RequestTypes ==
    ASSUME FrontInv, NEW c \in Clients, Serving(c)
    PROVE  /\ request[c] \in Request /\ BucketOf(c) \in Buckets
           /\ request[c].op = "createObject" => request[c] \in WriteRequest
           /\ request[c].op = "copyObject" => request[c] \in CopyRequest
           /\ request[c].op = "deleteMulti" => request[c] \in DeleteRequest
           /\ request[c].op = "getObject" => request[c] \in ReadRequest
           /\ request[c].op \in {"deleteObject", "deleteObjectVersion", "getObjectVersion"} =>
                 request[c] \in ObjectRequest
  <1>1. request[c] \in Request
    BY DEF FrontInv, ClientOK, Serving
  <1>2. QED
    BY <1>1 DEF Request, BucketRequest, ReadRequest, ObjectRequest, WriteRequest, CopyRequest,
                DeleteRequest, BucketOf

-----------------------------------------------------------------------------
(* What one step of a handler comes to.                                    *)

\* The handler answers.
Ends(c) == \E status \in Statuses : \E result : AnswerWith(c, status, result)

\* The handler goes on, with reason, to its next call.
Goes(c, next) ==
    /\ next \in Stages \ {"idle"}
    /\ Goto(c, next)
    /\ next = "backend" <=> pending'[c] # NoWrite
    /\ next = "delete" => request[c].op = "forceDeleteBucket"
    /\ next = "retry" => request[c].op = "listBucket"
    /\ next \in {"create", "createAgain"} => store[BucketOf(c)] = NoBucket
    /\ next = "backend" => Carries(c, pending'[c])

Outcome(c) ==
    /\ Serving(c)
    /\ \A d \in Clients \ {c} : pending'[d] = pending[d]
    /\ \/ Ends(c) /\ pending'[c] = NoWrite
       \/ \E next : Goes(c, next)

\* A step that answers without a call, or after one that is not a write.
LEMMA EndsOutcome ==
    ASSUME FrontInv, NEW c \in Clients, Serving(c), stage[c] # "backend", UNCHANGED pending,
           NEW status \in Statuses, NEW result, AnswerWith(c, status, result)
    PROVE  Outcome(c)
  BY DEF Outcome, Ends, FrontInv, ClientOK

\* A step that goes on without beginning a write.
LEMMA GoesOutcome ==
    ASSUME FrontInv, NEW c \in Clients, Serving(c), stage[c] # "backend", UNCHANGED pending,
           NEW next \in Stages \ {"idle", "backend"}, Goto(c, next),
           next = "delete" => request[c].op = "forceDeleteBucket",
           next = "retry" => request[c].op = "listBucket",
           next \in {"create", "createAgain"} => store[BucketOf(c)] = NoBucket
    PROVE  Outcome(c)
  <1>1. Goes(c, next)
    BY DEF Goes, FrontInv, ClientOK
  <1>2. QED
    BY <1>1 DEF Outcome

\* What is under way in the backend, by its step.
LEMMA PendingTypes ==
    ASSUME FrontInv, NEW c \in Clients, stage[c] = "backend"
    PROVE  /\ pending[c] # NoWrite /\ Serving(c) /\ Carries(c, pending[c])
           /\ pending[c].step = "copy" => pending[c] \in Copy
           /\ pending[c].step \in {"merge", "put"} => pending[c] \in Write
           /\ pending[c].step \in {"copy", "merge", "put"}
  BY DEF FrontInv, ClientOK, StoreTypeOK, Serving, Copy, Write

\* The step of a write in the backend: it carries on what it carried, or answers.
LEMMA BackendWriteOutcome ==
    ASSUME FrontInv, NEW c \in Clients, BackendWrite(c)
    PROVE  Outcome(c) /\ StoreNext
  <1> DEFINE w == pending[c]
  <1>1. stage[c] = "backend" /\ w # NoWrite /\ Serving(c) /\ Carries(c, w)
    BY PendingTypes DEF BackendWrite
  <1>2. CASE FetchBody(c) /\ Goto(c, "backend")
    <2>1. w \in Copy /\ w.step = "copy"
      BY <1>1, <1>2, PendingTypes DEF FetchBody
    <2> DEFINE new == [step |-> "merge", bucket |-> w.bucket, key |-> w.key,
                       body |-> store[w.srcBucket][w.srcKey].body, meta |-> w.meta]
    <2>2. pending'[c] = new /\ \A d \in Clients \ {c} : pending'[d] = pending[d]
      BY <1>2 DEF FetchBody, FrontInv, StoreTypeOK
    <2>3. store[w.srcBucket][w.srcKey] \in Stored /\ Visible(w.srcBucket, w.srcKey)
      BY <1>2, <2>1, VisibleStored DEF FetchBody, Copy, FrontInv
    <2>4. new \in Write
      BY <2>1, <2>3 DEF Copy, Stored, Write
    <2>5. request[c].op = "copyObject" /\ w.bucket = request[c].bucket /\ w.key = request[c].key
          /\ w.srcBucket = request[c].srcBucket /\ w.srcKey = request[c].srcKey
      BY <1>1, <2>1 DEF Carries
    <2>6. store \in past[c]
      BY <1>1 DEF FrontInv, ClientOK
    <2>7. BodyOfSource(c, new.body)
      BY <2>3, <2>5, <2>6 DEF BodyOfSource, Visible
    <2>8. new.step = "merge" /\ new.bucket = w.bucket /\ new.key = w.key
      OBVIOUS
    <2> HIDE DEF new, w
    <2>9. Carries(c, new)
      BY <2>5, <2>7, <2>8 DEF Carries
    <2>10. new # NoWrite
      BY <2>4, FrontendAssumption
    <2>11. Goes(c, "backend")
      BY <1>2, <2>2, <2>9, <2>10 DEF Goes, Stages
    <2>12. QED
      BY <1>1, <1>2, <2>2, <2>11 DEF Outcome, StoreNext
  <1>3. CASE Inherit(c) /\ Goto(c, "backend")
    <2>1. w \in Write /\ w.step = "merge"
      BY <1>1, <1>3, PendingTypes DEF Inherit
    <2> DEFINE meta == IF Visible(w.bucket, w.key)
                       THEN Over(w.meta, store[w.bucket][w.key].meta) ELSE w.meta
               new == [step |-> "put", bucket |-> w.bucket, key |-> w.key, body |-> w.body,
                       meta |-> meta]
    <2>2. pending'[c] = new /\ \A d \in Clients \ {c} : pending'[d] = pending[d]
      BY <1>3 DEF Inherit, FrontInv, StoreTypeOK
    <2>3. meta \in Headers
      BY <2>1, VisibleStored, OverType DEF Write, Stored, FrontInv
    <2>4. new \in Write
      BY <2>1, <2>3 DEF Write
    <2>5. new.step = "put" /\ new.bucket = w.bucket /\ new.key = w.key /\ new.body = w.body
      OBVIOUS
    <2> HIDE DEF new, w
    <2>6. Carries(c, new)
      BY <1>1, <2>1, <2>5 DEF Carries
    <2>7. new # NoWrite
      BY <2>4, FrontendAssumption
    <2>8. Goes(c, "backend")
      BY <1>3, <2>2, <2>6, <2>7 DEF Goes, Stages
    <2>9. QED
      BY <1>1, <1>3, <2>2, <2>8 DEF Outcome, StoreNext
  <1>4. ASSUME Commit(c) \/ Fail(c), NEW status \in Statuses, Answer(c, status)
        PROVE  Outcome(c) /\ StoreNext
    <2>1. pending' = [pending EXCEPT ![c] = NoWrite]
      BY <1>4 DEF Commit, Fail
    <2>2. Ends(c)
      BY <1>4 DEF Answer, Ends
    <2>3. QED
      BY <1>1, <1>4, <2>1, <2>2 DEF Outcome, StoreNext, FrontInv, StoreTypeOK
  <1>5. QED
    BY <1>2, <1>3, <1>4 DEF BackendWrite, Statuses

\* A request that begins a write.
LEMMA BeginOutcome ==
    ASSUME FrontInv, NEW c \in Clients, CreateObject(c) \/ CopyObject(c)
    PROVE  Outcome(c) /\ (StoreNext \/ UNCHANGED storeVars)
  <1> DEFINE r == request[c]
  <1>1. stage[c] = "call" /\ Serving(c)
    BY DEF CreateObject, CopyObject, Calls, Serving
  <1>2. ASSUME UNCHANGED storeVars, NEW status \in Statuses, Answer(c, status)
        PROVE  Outcome(c) /\ (StoreNext \/ UNCHANGED storeVars)
    BY <1>1, <1>2, EndsOutcome DEF Answer, storeVars
  <1>3. CASE /\ r.op = "createObject" /\ r.body # BadBody
             /\ BeginWrite(c, BucketOf(c), r.key, r.body, r.meta)
             /\ Goto(c, "backend")
    <2>1. r \in WriteRequest /\ r.body \in Bodies
      BY <1>1, <1>3, RequestTypes DEF WriteRequest
    <2> DEFINE new == [step |-> "merge", bucket |-> r.bucket, key |-> r.key, body |-> r.body,
                       meta |-> r.meta]
    <2>2. new \in Write /\ r.bucket \in Buckets /\ r.key \in Keys /\ r.meta \in Headers
      BY <2>1 DEF WriteRequest, Write
    <2>3. pending'[c] = new /\ \A d \in Clients \ {c} : pending'[d] = pending[d]
      BY <1>3 DEF BeginWrite, BucketOf, FrontInv, StoreTypeOK
    <2>4. Carries(c, new)
      BY <1>3 DEF Carries
    <2>5. new # NoWrite
      BY <2>2, FrontendAssumption
    <2> HIDE DEF new
    <2>6. Goes(c, "backend")
      BY <1>3, <2>3, <2>4, <2>5 DEF Goes, Stages
    <2>7. StoreNext
      BY <1>3, <2>1, <2>2 DEF StoreNext, BucketOf
    <2>8. QED
      BY <1>1, <2>3, <2>6, <2>7 DEF Outcome
  <1>4. CASE /\ r.op = "copyObject"
             /\ BeginCopy(c, r.srcBucket, r.srcKey, BucketOf(c), r.key, r.meta)
             /\ Goto(c, "backend")
    <2>1. r \in CopyRequest
      BY <1>1, <1>4, RequestTypes
    <2>2. r.srcBucket \in Buckets /\ r.srcKey \in Keys /\ r.bucket \in Buckets /\ r.key \in Keys
          /\ r.meta \in Headers
      BY <2>1 DEF CopyRequest
    <2> DEFINE meta == Over(r.meta, store[r.srcBucket][r.srcKey].meta)
               new == [step |-> "copy", srcBucket |-> r.srcBucket, srcKey |-> r.srcKey,
                       bucket |-> r.bucket, key |-> r.key, meta |-> meta]
    <2>3. meta \in Headers
      BY <1>4, <2>2, VisibleStored, OverType DEF BeginCopy, Stored, FrontInv
    <2>4. new \in Copy
      BY <2>2, <2>3 DEF Copy
    <2>5. pending'[c] = new /\ \A d \in Clients \ {c} : pending'[d] = pending[d]
      BY <1>4 DEF BeginCopy, BucketOf, FrontInv, StoreTypeOK
    <2>6. Carries(c, new)
      BY <1>4 DEF Carries
    <2>7. new # NoWrite
      BY <2>4, FrontendAssumption
    <2> HIDE DEF new
    <2>8. Goes(c, "backend")
      BY <1>4, <2>5, <2>6, <2>7 DEF Goes, Stages
    <2>9. StoreNext
      BY <1>4, <2>2 DEF StoreNext, BucketOf
    <2>10. QED
      BY <1>1, <2>5, <2>8, <2>9 DEF Outcome
  <1>5. QED
    BY <1>2, <1>3, <1>4 DEF CreateObject, CopyObject, Calls, Statuses

\* The handler's tests before its operation.
LEMMA TestOutcome ==
    ASSUME FrontInv, NEW c \in Clients,
           RequireVersioned(c) \/ EnsureBucketExists(c) \/ AutoCreate(c)
    PROVE  Outcome(c) /\ (StoreNext \/ UNCHANGED storeVars)
  <1>1. Serving(c) /\ stage[c] # "backend" /\ BucketOf(c) \in Buckets
    BY RequestTypes DEF RequireVersioned, EnsureBucketExists, AutoCreate, Serving
  <1>2. ASSUME UNCHANGED storeVars, NEW status \in Statuses, Answer(c, status)
        PROVE  Outcome(c) /\ (StoreNext \/ UNCHANGED storeVars)
    BY <1>1, <1>2, EndsOutcome DEF Answer, storeVars
  <1>3. ASSUME UNCHANGED pending, UNCHANGED store \/ StoreNext,
               NEW next \in {"ensure", "ensureAgain", "call"}, Goto(c, next)
        PROVE  Outcome(c) /\ (StoreNext \/ UNCHANGED storeVars)
    BY <1>1, <1>3, GoesOutcome DEF Stages, storeVars
  <1>4. CASE RequireVersioned(c)
    BY <1>2, <1>3, <1>4 DEF RequireVersioned, Statuses, storeVars
  <1>5. CASE EnsureBucketExists(c)
    <2>1. CASE store[BucketOf(c)] # NoBucket /\ Goto(c, Ensured(c))
      BY <1>3, <1>5, <2>1 DEF EnsureBucketExists, Ensured, storeVars
    <2>2. CASE /\ store[BucketOf(c)] = NoBucket
               /\ Goto(c, IF stage[c] = "ensure" THEN "create" ELSE "createAgain")
      BY <1>1, <1>5, <2>2, GoesOutcome DEF EnsureBucketExists, Stages, storeVars
    <2>3. QED
      BY <1>2, <1>5, <2>1, <2>2 DEF EnsureBucketExists, Statuses
  <1>6. CASE AutoCreate(c)
    <2>1. CASE CreateBucketIn(BucketOf(c)) /\ Goto(c, Ensured(c))
      <3>1. StoreNext /\ UNCHANGED pending
        BY <1>1, <2>1 DEF StoreNext, CreateBucketIn
      <3>2. QED
        BY <1>3, <2>1, <3>1 DEF Ensured
    <2>2. QED
      BY <1>2, <1>6, <2>1 DEF AutoCreate, Statuses
  <1>7. QED
    BY <1>4, <1>5, <1>6

\* The operations on buckets.
LEMMA BucketOutcome ==
    ASSUME FrontInv, NEW c \in Clients,
           \/ CreateBucket(c) \/ DeleteBucket(c) \/ ForceDeleteBucket(c) \/ HeadBucket(c)
           \/ ListBucket(c) \/ ListBucketVersions(c) \/ BucketVersioning(c)
    PROVE  Outcome(c) /\ (StoreNext \/ UNCHANGED storeVars)
  <1>1. Serving(c) /\ stage[c] # "backend" /\ BucketOf(c) \in Buckets
    BY RequestTypes DEF CreateBucket, DeleteBucket, ForceDeleteBucket, HeadBucket, ListBucket,
                        ListBucketVersions, BucketVersioning, Calls, Serving
  <1>2. ASSUME UNCHANGED storeVars, NEW status \in Statuses, NEW result,
               AnswerWith(c, status, result)
        PROVE  Outcome(c) /\ (StoreNext \/ UNCHANGED storeVars)
    BY <1>1, <1>2, EndsOutcome DEF storeVars
  <1>3. NoSuchBucket(c) => Outcome(c) /\ (StoreNext \/ UNCHANGED storeVars)
    BY <1>2 DEF NoSuchBucket, Answer, Statuses
  <1>4. ASSUME UNCHANGED pending, StoreNext, Answer(c, "ok")
        PROVE  Outcome(c) /\ (StoreNext \/ UNCHANGED storeVars)
    BY <1>1, <1>4, EndsOutcome DEF Answer, Statuses
  <1>5. CreateBucketIn(BucketOf(c)) \/ DropBucketOf(BucketOf(c)) => StoreNext /\ UNCHANGED pending
    BY <1>1 DEF StoreNext, CreateBucketIn, DropBucketOf
  <1>6. CASE CreateBucket(c)
    BY <1>2, <1>4, <1>5, <1>6 DEF CreateBucket, Answer, Statuses
  <1>7. CASE DeleteBucket(c)
    BY <1>2, <1>3, <1>4, <1>5, <1>7 DEF DeleteBucket, Answer, Statuses
  <1>8. CASE ForceDeleteBucket(c)
    <2>1. CASE DropBucketOf(BucketOf(c)) /\ Goto(c, "delete")
      BY <1>1, <1>5, <1>8, <2>1, GoesOutcome DEF ForceDeleteBucket, Calls, Stages
    <2>2. QED
      BY <1>3, <1>8, <2>1 DEF ForceDeleteBucket
  <1>9. CASE HeadBucket(c)
    BY <1>2, <1>9 DEF HeadBucket, Answer, Statuses
  <1>10. CASE ListBucket(c)
    <2>1. CASE Calls(c, "listBucket") /\ Goto(c, "retry") /\ UNCHANGED storeVars
      BY <1>1, <2>1, GoesOutcome DEF Calls, Stages, storeVars
    <2>2. CASE \E status \in Statuses : \E result : AnswerWith(c, status, result) /\ UNCHANGED storeVars
      BY <1>2, <2>2
    <2>3. QED
      BY <1>3, <1>10, <2>1, <2>2 DEF ListBucket, Answer, Statuses, Calls
  <1>11. CASE ListBucketVersions(c)
    BY <1>2, <1>3, <1>11 DEF ListBucketVersions, Answer, Statuses
  <1>12. CASE BucketVersioning(c)
    BY <1>2, <1>3, <1>12 DEF BucketVersioning, Answer, Statuses
  <1>13. QED
    BY <1>6, <1>7, <1>8, <1>9, <1>10, <1>11, <1>12

\* One locked multi-delete is a Vanish of the store, or shows nothing.
LEMMA DeleteMultiOutcome ==
    ASSUME FrontInv, NEW c \in Clients, DeleteMulti(c)
    PROVE  Outcome(c) /\ (StoreNext \/ UNCHANGED storeVars)
  <1>1. Serving(c) /\ stage[c] # "backend" /\ request[c].op = "deleteMulti"
    BY DEF DeleteMulti, Calls, Serving
  <1>2. BucketOf(c) \in Buckets /\ request[c].keys \in SUBSET Keys
    BY <1>1, RequestTypes DEF DeleteRequest
  <1>3. UNCHANGED pending /\ \E status \in Statuses : \E result : AnswerWith(c, status, result)
    BY DEF DeleteMulti, NoSuchBucket, storeVars, Answer, Statuses
  <1>4. Outcome(c)
    BY <1>1, <1>3, EndsOutcome
  <1>5. ASSUME NEW gone \in SUBSET request[c].keys, store[BucketOf(c)] # NoBucket,
               store' = [store EXCEPT ![BucketOf(c)] =
                    [k \in Keys |-> IF k \in gone THEN NoObject ELSE store[BucketOf(c)][k]]]
        PROVE  StoreNext \/ UNCHANGED storeVars
    <2>1. CASE \E k \in gone : Visible(BucketOf(c), k)
      BY <1>2, <1>3, <1>5, <2>1 DEF StoreNext, Vanish
    <2>2. CASE ~\E k \in gone : Visible(BucketOf(c), k)
      <3> DEFINE held == store[BucketOf(c)]
      <3>1. held \in Holdings
        BY <1>2, <1>5, VisibleStored DEF FrontInv, StoreTypeOK, Holdings
      <3>2. \A k \in gone : held[k] = NoObject
        BY <1>5, <2>2 DEF Visible
      <3>3. [k \in Keys |-> IF k \in gone THEN NoObject ELSE held[k]] = held
        BY <3>1, <3>2 DEF Holdings
      <3>4. UNCHANGED store
        BY <1>2, <1>5, <3>3 DEF FrontInv, StoreTypeOK
      <3>5. QED
        BY <1>3, <3>4 DEF storeVars
    <2>3. QED
      BY <2>1, <2>2
  <1>6. QED
    BY <1>4, <1>5 DEF DeleteMulti, NoSuchBucket

\* The other operations on objects.
LEMMA ObjectOutcome ==
    ASSUME FrontInv, NEW c \in Clients,
           GetObject(c) \/ GetObjectVersion(c) \/ DeleteObject(c) \/ DeleteObjectVersion(c)
    PROVE  Outcome(c) /\ (StoreNext \/ UNCHANGED storeVars)
  <1>1. Serving(c) /\ stage[c] # "backend" /\ BucketOf(c) \in Buckets
    BY RequestTypes DEF GetObject, GetObjectVersion, DeleteObject, DeleteObjectVersion, Calls, Serving
  <1>2. ASSUME UNCHANGED storeVars, NEW status \in Statuses, NEW result,
               AnswerWith(c, status, result)
        PROVE  Outcome(c) /\ (StoreNext \/ UNCHANGED storeVars)
    BY <1>1, <1>2, EndsOutcome DEF storeVars
  <1>3. NoSuchBucket(c) => Outcome(c) /\ (StoreNext \/ UNCHANGED storeVars)
    BY <1>2 DEF NoSuchBucket, Answer, Statuses
  <1>4. CASE Vanish(BucketOf(c), {request[c].key}) /\ Answer(c, "ok")
                /\ (DeleteObject(c) \/ DeleteObjectVersion(c))
    <2>1. request[c].key \in Keys
      BY <1>1, <1>4, RequestTypes DEF DeleteObject, DeleteObjectVersion, Calls, ObjectRequest
    <2>2. StoreNext
      BY <1>1, <1>4, <2>1 DEF StoreNext
    <2>3. Outcome(c)
      BY <1>1, <1>4, EndsOutcome DEF Vanish, Answer, Statuses
    <2>4. QED
      BY <2>2, <2>3
  <1>5. CASE GetObject(c)
    BY <1>2, <1>3, <1>5 DEF GetObject, AnswerObject, Answer, Statuses
  <1>6. CASE GetObjectVersion(c)
    BY <1>2, <1>3, <1>6 DEF GetObjectVersion, Answer, Statuses
  <1>7. CASE DeleteObject(c)
    BY <1>2, <1>3, <1>4, <1>7 DEF DeleteObject, Answer, Statuses
  <1>8. CASE DeleteObjectVersion(c)
    BY <1>2, <1>3, <1>4, <1>8 DEF DeleteObjectVersion, Answer, Statuses
  <1>9. QED
    BY <1>5, <1>6, <1>7, <1>8

\* Every step of a handler: it drives the backend as the store, and comes to an outcome.
LEMMA HandleOutcome ==
    ASSUME FrontInv, NEW c \in Clients, Handle(c)
    PROVE  Outcome(c) /\ (StoreNext \/ UNCHANGED storeVars)
  BY TestOutcome, BucketOutcome, ObjectOutcome, DeleteMultiOutcome, BeginOutcome,
     BackendWriteOutcome DEF Handle

-----------------------------------------------------------------------------
(* The invariant holds.                                                    *)

\* The other clients see the step in their past only.
LEMMA ServeKeepsOthers ==
    ASSUME FrontInv, NEW c \in Clients, Serve(c), NEW d \in Clients, d # c
    PROVE  /\ request'[d] = request[d] /\ stage'[d] = stage[d] /\ answer'[d] = answer[d]
           /\ pending'[d] = pending[d]
           /\ past'[d] = IF Serving(d) THEN past[d] \cup {store'} ELSE {}
           /\ ClientOK(d)'
  <1>1. Outcome(c) /\ Observe
    BY HandleOutcome DEF Serve
  <1>2. /\ request'[d] = request[d] /\ stage'[d] = stage[d] /\ answer'[d] = answer[d]
        /\ pending'[d] = pending[d]
    BY <1>1 DEF Outcome, Ends, Goes, AnswerWith, Goto, FrontInv
  <1>3. past'[d] = IF Serving(d) THEN past[d] \cup {store'} ELSE {}
    BY <1>1, <1>2 DEF Observe, Serving
  <1>4. ClientOK(d)
    BY DEF FrontInv
  <1>5. MissedBucket(d) /\ Serving(d) => MissedBucket(d)'
    BY <1>2, <1>3 DEF MissedBucket, BucketOf
  <1>6. Carries(d, pending[d]) /\ Serving(d) => Carries(d, pending[d])'
    <2>1. \A body : BodyOfSource(d, body) /\ Serving(d) => BodyOfSource(d, body)'
      BY <1>2, <1>3 DEF BodyOfSource
    <2>2. QED
      BY <1>2, <2>1 DEF Carries
  <1>7. ClientOK(d)'
    BY <1>2, <1>3, <1>4, <1>5, <1>6 DEF ClientOK, Serving
  <1>8. QED
    BY <1>2, <1>3, <1>7

\* The client whose handler steps.
LEMMA ServeKeepsOwn ==
    ASSUME FrontInv, NEW c \in Clients, Serve(c)
    PROVE  /\ ClientOK(c)'
           /\ request'[c] \in Request \cup {NoRequest}
           /\ stage'[c] \in Stages
           /\ Serving(c)' => request'[c] = request[c] /\ past'[c] = past[c] \cup {store'}
  <1>1. Outcome(c) /\ Observe /\ Serving(c) /\ ClientOK(c)
    BY HandleOutcome DEF Serve, Outcome, FrontInv
  <1>2. CASE Ends(c) /\ pending'[c] = NoWrite
    <2>1. PICK status \in Statuses : \E result : AnswerWith(c, status, result)
      BY <1>2 DEF Ends
    <2>2. stage'[c] = "idle" /\ request'[c] = NoRequest /\ answer'[c].status = status
      BY <2>1 DEF AnswerWith, FrontInv
    <2>3. past'[c] = {}
      BY <1>1, <2>2 DEF Observe, Serving
    <2>4. QED
      BY <1>2, <2>2, <2>3 DEF ClientOK, Serving, Stages
  <1>3. ASSUME NEW next, Goes(c, next)
        PROVE  /\ ClientOK(c)'
               /\ request'[c] \in Request \cup {NoRequest}
               /\ stage'[c] \in Stages
               /\ Serving(c)' => request'[c] = request[c] /\ past'[c] = past[c] \cup {store'}
    <2>1. stage'[c] = next /\ request'[c] = request[c] /\ answer'[c] = answer[c]
      BY <1>3 DEF Goes, Goto, FrontInv
    <2>2. past'[c] = past[c] \cup {store'}
      BY <1>1, <1>3, <2>1 DEF Observe, Serving, Goes
    <2>3. next \in {"create", "createAgain"} => MissedBucket(c)'
      <3>1. next \in {"create", "createAgain"} => store \in past[c] /\ store[BucketOf(c)] = NoBucket
        BY <1>1, <1>3 DEF Goes, ClientOK
      <3>2. QED
        BY <2>1, <2>2, <3>1 DEF MissedBucket, BucketOf
    <2>4. next = "backend" => Carries(c, pending[c])'
      <3>1. \A body : BodyOfSource(c, body) => BodyOfSource(c, body)'
        BY <2>1, <2>2 DEF BodyOfSource
      <3>2. QED
        BY <1>3, <2>1, <3>1 DEF Goes, Carries
    <2>5. ClientOK(c)'
      BY <1>1, <1>3, <2>1, <2>2, <2>3, <2>4 DEF ClientOK, Serving, Goes
    <2>6. QED
      BY <1>3, <2>1, <2>2, <2>5 DEF Goes, FrontInv
  <1>4. QED
    BY <1>1, <1>2, <1>3 DEF Outcome

\* A new request: its handler has seen the store it starts on.
LEMMA StartKeeps ==
    ASSUME FrontInv, NEW c \in Clients, NEW r \in Request, Start(c, r)
    PROVE  FrontInv'
  <1>1. r # NoRequest
    BY DEF Request, BucketRequest, ReadRequest, ObjectRequest, WriteRequest, CopyRequest,
           DeleteRequest, NoRequest
  <1>2. FirstStage(r.op) \in {"call", "versioned", "ensure"}
    BY DEF FirstStage
  <1>3. ClientOK(c)'
    <2>1. /\ stage'[c] = FirstStage(r.op) /\ request'[c] = r /\ answer'[c] = NoAnswer
          /\ past'[c] = {store} /\ store' = store /\ pending'[c] = NoWrite
      BY DEF Start, FrontInv, ClientOK, Serving, storeVars
    <2> HIDE DEF FirstStage
    <2>2. QED
      BY <1>1, <1>2, <2>1 DEF ClientOK, Serving, NoAnswer, Statuses
  <1>4. ASSUME NEW d \in Clients, d # c
        PROVE  ClientOK(d)'
    <2>1. /\ request'[d] = request[d] /\ stage'[d] = stage[d] /\ answer'[d] = answer[d]
          /\ pending'[d] = pending[d] /\ past'[d] = past[d] /\ store' = store
      BY <1>4 DEF Start, FrontInv, storeVars
    <2>2. ClientOK(d)
      BY DEF FrontInv
    <2>3. QED
      BY <2>1, <2>2 DEF ClientOK, Serving, MissedBucket, Carries, BodyOfSource, BucketOf
  <1>5. StoreTypeOK'
    BY DEF Start, storeVars, FrontInv, StoreTypeOK
  <1>6. /\ setup' \in Setups
        /\ request' \in [Clients -> Request \cup {NoRequest}]
        /\ stage' \in [Clients -> Stages]
    BY <1>2 DEF Start, FrontInv, Stages
  <1>7. answer' = [d \in Clients |-> answer'[d]] /\ past' = [d \in Clients |-> past'[d]]
    BY DEF Start, FrontInv
  <1>8. QED
    BY <1>3, <1>4, <1>5, <1>6, <1>7 DEF FrontInv

LEMMA ServeKeeps ==
    ASSUME FrontInv, NEW c \in Clients, Serve(c)
    PROVE  FrontInv'
  <1>1. Outcome(c) /\ (StoreNext \/ UNCHANGED storeVars) /\ Observe /\ UNCHANGED setup
    BY HandleOutcome DEF Serve
  <1>2. StoreTypeOK'
    <2>1. CASE StoreNext
      BY <2>1, StoreNextType DEF FrontInv
    <2>2. CASE UNCHANGED storeVars
      BY <2>2 DEF FrontInv, StoreTypeOK, storeVars
    <2>3. QED
      BY <1>1, <2>1, <2>2
  <1>3. \A d \in Clients :
           /\ ClientOK(d)'
           /\ request'[d] \in Request \cup {NoRequest}
           /\ stage'[d] \in Stages
    BY ServeKeepsOthers, ServeKeepsOwn DEF FrontInv
  <1>4. /\ request' = [d \in Clients |-> request'[d]]
        /\ stage' = [d \in Clients |-> stage'[d]]
        /\ answer' = [d \in Clients |-> answer'[d]]
    BY <1>1 DEF Outcome, Ends, Goes, AnswerWith, Goto, FrontInv
  <1>5. past' = [d \in Clients |-> past'[d]]
    BY <1>1 DEF Observe
  <1>6. setup' \in Setups
    BY <1>1 DEF FrontInv
  <1>7. request' \in [Clients -> Request \cup {NoRequest}] /\ stage' \in [Clients -> Stages]
    BY <1>3, <1>4
  <1>8. QED
    BY <1>2, <1>3, <1>4, <1>5, <1>6, <1>7 DEF FrontInv

LEMMA InitFrontInv == FrontInit => FrontInv
  <1> SUFFICES ASSUME FrontInit PROVE FrontInv
    OBVIOUS
  <1>1. StoreTypeOK
    BY DEF FrontInit, StoreInit, StoreTypeOK
  <1>2. ASSUME NEW c \in Clients
        PROVE  ClientOK(c)
    BY DEF FrontInit, StoreInit, ClientOK, Serving, NoAnswer, Statuses
  <1>3. QED
    BY <1>1, <1>2 DEF FrontInit, FrontInv, Stages

LEMMA NextFrontInv == FrontInv /\ [FrontNext]_frontVars => FrontInv'
  <1> SUFFICES ASSUME FrontInv, [FrontNext]_frontVars PROVE FrontInv'
    OBVIOUS
  <1>1. CASE UNCHANGED frontVars
    BY <1>1 DEF frontVars, FrontInv, StoreTypeOK, ClientOK, Serving, MissedBucket, Carries,
                BodyOfSource, BucketOf
  <1>2. QED
    BY <1>1, StartKeeps, ServeKeeps DEF FrontNext

LEMMA FrontInvariant == FrontSpec => []FrontInv
  BY InitFrontInv, NextFrontInv, PTL DEF FrontSpec

\* Every request has its handler, stage and answer in step with each other and with the
\* write that its backend call has under way: none is left behind by an answer.
THEOREM FrontTypeCorrect == FrontSpec => []FrontTypeOK
  <1>1. FrontInv => FrontTypeOK
    BY DEF FrontInv, ClientOK, FrontTypeOK
  <1>2. QED
    BY <1>1, FrontInvariant, PTL

\* The handlers use the backend as an object store and nothing more: what clients see
\* through the server is what the store's own clients see.
THEOREM HandlersUseTheStore == FrontSpec => StoreSpec
  <1>1. FrontInit => StoreInit
    BY DEF FrontInit
  <1>2. FrontInv /\ [FrontNext]_frontVars => [StoreNext]_storeVars
    <2> SUFFICES ASSUME FrontInv, [FrontNext]_frontVars PROVE StoreNext \/ UNCHANGED storeVars
      OBVIOUS
    <2>1. QED
      BY HandleOutcome DEF FrontNext, frontVars, storeVars, Serve, Start
  <1>3. QED
    BY <1>1, <1>2, FrontInvariant, PTL DEF FrontSpec, StoreSpec

-----------------------------------------------------------------------------
(* Which step answers.                                                     *)

\* A request is answered by a step of its own handler.
LEMMA OwnStepAnswers ==
    ASSUME FrontInv, [FrontNext]_frontVars, NEW c \in Clients, Serving(c), ~Serving(c)'
    PROVE  Handle(c) /\ UNCHANGED setup
  <1>1. ASSUME NEW d \in Clients, NEW r \in Request, Start(d, r)
        PROVE  FALSE
    <2>1. d # c
      BY <1>1 DEF Start
    <2>2. stage'[c] = stage[c]
      BY <1>1, <2>1 DEF Start, FrontInv
    <2>3. QED
      BY <2>2 DEF Serving
  <1>2. ASSUME NEW d \in Clients, Serve(d)
        PROVE  d = c
    BY <1>2, ServeKeepsOthers DEF Serving
  <1>3. ~UNCHANGED frontVars
    BY DEF frontVars, Serving
  <1>4. QED
    BY <1>1, <1>2, <1>3 DEF FrontNext, Serve

\* The operations that each handler is of.
LEMMA HandlerOf ==
    ASSUME FrontInv, NEW c \in Clients
    PROVE  /\ CreateBucket(c) => request[c].op = "createBucket"
           /\ DeleteBucket(c) => request[c].op \in {"deleteBucket", "forceDeleteBucket"}
           /\ ForceDeleteBucket(c) => request[c].op = "forceDeleteBucket"
           /\ HeadBucket(c) => request[c].op = "headBucket"
           /\ ListBucket(c) => request[c].op = "listBucket"
           /\ ListBucketVersions(c) => request[c].op = "listBucketVersions"
           /\ BucketVersioning(c) => request[c].op \in {"getVersioning", "putVersioning"}
           /\ GetObject(c) => request[c].op = "getObject"
           /\ GetObjectVersion(c) => request[c].op = "getObjectVersion"
           /\ CreateObject(c) => request[c].op = "createObject"
           /\ CopyObject(c) => request[c].op = "copyObject"
           /\ BackendWrite(c) => request[c].op \in {"createObject", "copyObject"}
           /\ DeleteObject(c) => request[c].op = "deleteObject"
           /\ DeleteObjectVersion(c) => request[c].op = "deleteObjectVersion"
           /\ DeleteMulti(c) => request[c].op = "deleteMulti"
  <1>1. DeleteBucket(c) => request[c].op \in {"deleteBucket", "forceDeleteBucket"}
    BY DEF DeleteBucket, Calls, FrontInv, ClientOK
  <1>2. ListBucket(c) => request[c].op = "listBucket"
    BY DEF ListBucket, Calls, FrontInv, ClientOK
  <1>3. BackendWrite(c) => request[c].op \in {"createObject", "copyObject"}
    BY PendingTypes DEF BackendWrite, Carries
  <1>4. QED
    BY <1>1, <1>2, <1>3
       DEF CreateBucket, ForceDeleteBucket, HeadBucket, ListBucketVersions, BucketVersioning,
           GetObject, GetObjectVersion, CreateObject, CopyObject, DeleteObject,
           DeleteObjectVersion, DeleteMulti, Calls

\* What the tests before an operation answer.
LEMMA TestAnswers ==
    ASSUME FrontInv, NEW c \in Clients, ~Serving(c)',
           RequireVersioned(c) \/ EnsureBucketExists(c) \/ AutoCreate(c)
    PROVE  /\ answer'[c].status \in {"NotImplemented", "NoSuchBucket"}
           /\ UNCHANGED storeVars
  <1>1. ASSUME NEW next, Goto(c, next), next # "idle"
        PROVE  FALSE
    BY <1>1 DEF Goto, Serving, FrontInv
  <1>2. ASSUME NEW status, Answer(c, status)
        PROVE  answer'[c].status = status
    BY <1>2 DEF Answer, AnswerWith, FrontInv
  <1>3. Ensured(c) # "idle"
    BY DEF Ensured
  <1>4. QED
    BY <1>1, <1>2, <1>3 DEF RequireVersioned, EnsureBucketExists, AutoCreate

\* The moments of a request, and what its bucket showed then.
LEMMA Moments ==
    ASSUME FrontInv, NEW c \in Clients, Serving(c), NEW b, NEW k
    PROVE  /\ store \in During(c) /\ store' \in During(c) /\ past[c] \subseteq During(c)
           /\ store[b] # NoBucket => store[b][k] \in Showed(c, b, k)
           /\ store'[b] # NoBucket => store'[b][k] \in Showed(c, b, k)
  <1>1. store \in During(c) /\ store' \in During(c) /\ past[c] \subseteq During(c)
    BY DEF FrontInv, ClientOK, During
  <1>2. QED
    BY <1>1 DEF Showed

-----------------------------------------------------------------------------
(* Reads.                                                                  *)

\* What the two reads do when they answer.
LEMMA ReadStep ==
    ASSUME FrontInv, NEW c \in Clients, Handle(c), Serving(c), ~Serving(c)'
    PROVE  LET b == BucketOf(c)
               showed == Showed(c, b, request[c].key) IN
           /\ AnswersTo(c, "getObject", "ok") =>
                 /\ answer'[c].result \in Objects(showed)
                 /\ answer'[c].result.body # request[c].etag
           /\ AnswersTo(c, "getObject", "NotModified") =>
                 \E o \in Objects(showed) : request[c].since \/ o.body = request[c].etag
           /\ AnswersTo(c, "getObject", "NoSuchKey") => NoObject \in showed
           /\ AnswersTo(c, "listBucket", "ok") =>
                 \E s \in During(c) : s[b] # NoBucket /\ answer'[c].result = KeysIn(s[b])
  <1> DEFINE b == BucketOf(c)
             k == request[c].key
  <1>1. DOMAIN answer = Clients
    BY DEF FrontInv
  <1>2. ASSUME NEW status, Answer(c, status)
        PROVE  answer'[c].status = status
    BY <1>1, <1>2 DEF Answer, AnswerWith
  <1>3. ~(answer'[c].status \in {"NotImplemented", "NoSuchBucket"}) =>
            ~(RequireVersioned(c) \/ EnsureBucketExists(c) \/ AutoCreate(c))
    BY TestAnswers
  <1>4. store \in During(c) /\ (store[b] # NoBucket => store[b][k] \in Showed(c, b, k))
    BY Moments
  <1>5. CASE request[c].op = "getObject" /\ answer'[c].status \in {"ok", "NotModified", "NoSuchKey"}
    <2>1. GetObject(c)
      BY <1>3, <1>5, HandlerOf DEF Handle
    <2>2. CASE Visible(b, k) /\ AnswerObject(c)
      <3>1. store[b][k] \in Objects(Showed(c, b, k))
        BY <1>4, <2>2 DEF Visible, Objects
      <3>2. CASE (Matches(c) \/ request[c].since) /\ Answer(c, "NotModified")
        BY <1>2, <1>5, <3>1, <3>2 DEF Matches, AnswersTo, Answers
      <3>3. CASE ~Matches(c) /\ AnswerWith(c, "ok", store[b][k])
        <4>1. answer'[c].result = store[b][k] /\ answer'[c].status = "ok"
          BY <1>1, <3>3 DEF AnswerWith
        <4>2. QED
          BY <1>5, <3>1, <3>3, <4>1 DEF Matches, AnswersTo, Answers
      <3>4. QED
        BY <2>2, <3>2, <3>3 DEF AnswerObject
    <2>3. CASE store[b] # NoBucket /\ ~Visible(b, k) /\ Answer(c, "NoSuchKey")
      BY <1>2, <1>4, <1>5, <2>3 DEF Visible, AnswersTo, Answers
    <2>4. QED
      BY <1>2, <1>5, <2>1, <2>2, <2>3 DEF GetObject, NoSuchBucket
  <1>6. CASE request[c].op = "listBucket" /\ answer'[c].status = "ok"
    <2>1. ListBucket(c)
      BY <1>3, <1>6, HandlerOf DEF Handle
    <2>2. ~Goto(c, "retry")
      BY DEF Goto, Serving, FrontInv
    <2>3. store[b] # NoBucket /\ AnswerWith(c, "ok", KeysIn(store[b]))
      BY <1>2, <1>6, <2>1, <2>2 DEF ListBucket, NoSuchBucket
    <2>4. answer'[c].result = KeysIn(store[b])
      BY <1>1, <2>3 DEF AnswerWith
    <2>5. QED
      BY <1>4, <1>6, <2>3, <2>4 DEF AnswersTo, Answers
  <1>7. QED
    BY <1>5, <1>6 DEF AnswersTo, Answers

\* Whatever other requests do between a handler's test for the bucket and its read, and
\* between the two calls of a listing, the answer is of one moment of the request: the
\* object then, other than the one of If-None-Match; that the key has that one, or with
\* an If-Modified-Since that it has one; that it has none; the keys of a bucket.
THEOREM ReadsOfOneMoment == FrontSpec => ReadsAreOfOneMoment
  <1> DEFINE Reads ==
        \A c \in Clients :
        LET b == BucketOf(c)
            showed == Showed(c, b, request[c].key) IN
        /\ AnswersTo(c, "getObject", "ok") =>
              /\ answer'[c].result \in Objects(showed)
              /\ answer'[c].result.body # request[c].etag
        /\ AnswersTo(c, "getObject", "NotModified") =>
              \E o \in Objects(showed) : request[c].since \/ o.body = request[c].etag
        /\ AnswersTo(c, "getObject", "NoSuchKey") => NoObject \in showed
        /\ AnswersTo(c, "listBucket", "ok") =>
              \E s \in During(c) : s[b] # NoBucket /\ answer'[c].result = KeysIn(s[b])
  <1>1. FrontInv /\ [FrontNext]_frontVars => [Reads]_frontVars
    <2> SUFFICES ASSUME FrontInv, [FrontNext]_frontVars PROVE Reads
      OBVIOUS
    <2>1. ASSUME NEW c \in Clients, Serving(c), ~Serving(c)'
          PROVE  Handle(c)
      BY <2>1, OwnStepAnswers
    <2>2. QED
      BY <2>1, ReadStep DEF AnswersTo, Answers
  <1>2. QED
    BY <1>1, FrontInvariant, PTL DEF FrontSpec, ReadsAreOfOneMoment

-----------------------------------------------------------------------------
(* Writes.                                                                 *)

\* The status of an answer.
LEMMA AnswerStatus ==
    ASSUME FrontInv, NEW c \in Clients, NEW status, Answer(c, status)
    PROVE  answer'[c].status = status /\ ~Serving(c)'
  BY DEF FrontInv, Answer, AnswerWith, Serving

LEMMA GotoServes ==
    ASSUME FrontInv, NEW c \in Clients, NEW next \in {"backend", "delete", "retry"}, Goto(c, next)
    PROVE  Serving(c)'
  BY DEF FrontInv, Goto, Serving

\* A committed write is in the bucket of its request, under its key.
LEMMA CommitShows ==
    ASSUME FrontInv, NEW c \in Clients, stage[c] = "backend", Commit(c)
    PROVE  LET b == BucketOf(c)
               k == request[c].key IN
           /\ store'[b] # NoBucket
           /\ store'[b][k] = [body |-> pending[c].body, meta |-> pending[c].meta]
           /\ store'[b][k] # NoObject
           /\ IF request[c].op = "createObject" THEN pending[c].body = request[c].body
              ELSE request[c].op = "copyObject" /\ BodyOfSource(c, pending[c].body)
  <1> DEFINE w == pending[c]
             o == [body |-> w.body, meta |-> w.meta]
  <1>1. w \in Write /\ w.step = "put" /\ Carries(c, w)
    BY PendingTypes DEF Commit
  <1>2. w.bucket = BucketOf(c) /\ w.key = request[c].key
    BY <1>1 DEF Carries, BucketOf
  <1>3. w.bucket \in Buckets /\ w.key \in Keys /\ o \in Stored
    BY <1>1 DEF Write, Stored
  <1>4. store[w.bucket] \in Holdings
    BY <1>3, VisibleStored DEF Commit, FrontInv
  <1> HIDE DEF o
  <1>5. [store[w.bucket] EXCEPT ![w.key] = o] \in Holdings
    BY <1>3, <1>4 DEF Holdings
  <1>6. store'[w.bucket] = [store[w.bucket] EXCEPT ![w.key] = o]
    BY <1>3 DEF Commit, o, FrontInv, StoreTypeOK
  <1>7. store'[w.bucket][w.key] = o
    BY <1>3, <1>4, <1>6 DEF Holdings
  <1>8. store'[w.bucket] # NoBucket /\ o # NoObject
    BY <1>3, <1>5, <1>6, FrontendAssumption DEF Holdings
  <1>9. IF request[c].op = "createObject" THEN w.body = request[c].body
        ELSE request[c].op = "copyObject" /\ BodyOfSource(c, w.body)
    BY <1>1 DEF Carries
  <1>10. QED
    BY <1>2, <1>7, <1>8, <1>9 DEF o

\* What the writes do when they answer with success.
LEMMA WriteStep ==
    ASSUME FrontInv, FrontInv', NEW c \in Clients, Handle(c), UNCHANGED setup,
           Serving(c), ~Serving(c)'
    PROVE  LET b == BucketOf(c)
               showed == Showed(c, b, request[c].key) IN
           /\ AnswersTo(c, "createObject", "ok") =>
                 \E o \in Objects(showed) : o.body = request[c].body
           /\ AnswersTo(c, "copyObject", "ok") =>
                 \E o \in Objects(showed) :
                 \E src \in Objects(Showed(c, request[c].srcBucket, request[c].srcKey)) :
                     o.body = src.body
           /\ AnswersTo(c, "deleteObject", "ok") => NoObject \in showed
           /\ AnswersTo(c, "deleteMulti", "ok") /\ ~setup.versioned =>
                 \E s \in During(c) : s[b] # NoBucket /\ KeysIn(s[b]) \cap request[c].keys = {}
           /\ AnswersTo(c, "createBucket", "ok") =>
                 \E s, t \in During(c) : s[b] = NoBucket /\ t[b] # NoBucket
           /\ AnswersTo(c, "deleteBucket", "ok") =>
                 \E s, t \in During(c) : s[b] # NoBucket /\ t[b] = NoBucket
  <1> DEFINE b == BucketOf(c)
             k == request[c].key
             showed == Showed(c, b, k)
  <1> USE DEF AnswersTo, Answers
  <1>1. answer'[c].status = "ok" => ~(RequireVersioned(c) \/ EnsureBucketExists(c) \/ AutoCreate(c))
    BY TestAnswers
  <1>2. /\ store \in During(c) /\ store' \in During(c) /\ past[c] \subseteq During(c)
        /\ store'[b] # NoBucket => store'[b][k] \in showed
    BY Moments
  <1>3. b \in Buckets
    BY RequestTypes
  <1>4. CASE request[c].op \in {"createObject", "copyObject"} /\ answer'[c].status = "ok"
    <2>1. CreateObject(c) \/ CopyObject(c) \/ BackendWrite(c)
      BY <1>1, <1>4, HandlerOf DEF Handle
    <2>2. stage[c] = "backend" /\ Commit(c)
      BY <1>4, <2>1, AnswerStatus, GotoServes DEF CreateObject, CopyObject, BackendWrite
    <2> DEFINE o == store'[b][k]
    <2>3. /\ o \in Objects(showed) /\ o.body = pending[c].body
          /\ IF request[c].op = "createObject" THEN pending[c].body = request[c].body
             ELSE request[c].op = "copyObject" /\ BodyOfSource(c, pending[c].body)
      <3>1. /\ store'[b] # NoBucket
            /\ store'[b][k] = [body |-> pending[c].body, meta |-> pending[c].meta]
            /\ store'[b][k] # NoObject
            /\ IF request[c].op = "createObject" THEN pending[c].body = request[c].body
               ELSE request[c].op = "copyObject" /\ BodyOfSource(c, pending[c].body)
        BY <2>2, CommitShows
      <3>2. o \in showed
        BY <1>2, <3>1
      <3>3. QED
        BY <3>1, <3>2 DEF Objects
    <2>4. ASSUME BodyOfSource(c, pending[c].body)
          PROVE  \E src \in Objects(Showed(c, request[c].srcBucket, request[c].srcKey)) :
                    pending[c].body = src.body
      BY <1>2, <2>4 DEF BodyOfSource, Objects, Showed
    <2>5. QED
      BY <1>4, <2>3, <2>4
  <1>5. CASE request[c].op = "deleteObject" /\ answer'[c].status = "ok"
    <2>1. DeleteObject(c) /\ k \in Keys
      BY <1>1, <1>5, HandlerOf, RequestTypes DEF Handle, ObjectRequest
    <2>2. CASE Vanish(b, {k})
      <3>1. store'[b][k] = NoObject /\ store'[b] = [j \in Keys |-> IF j \in {k} THEN NoObject ELSE store[b][j]]
        BY <1>3, <2>1, <2>2 DEF Vanish, FrontInv, StoreTypeOK
      <3>2. store'[b] # NoBucket
        <4>1. store[b] \in Holdings
          BY <1>3, <2>2, HoldingsAt DEF Vanish, FrontInv
        <4>2. store'[b] \in Holdings
          BY <3>1, <4>1 DEF Holdings
        <4>3. QED
          BY <4>2, FrontendAssumption DEF Holdings
      <3>3. QED
        BY <1>2, <1>5, <3>1, <3>2
    <2>3. CASE store[b] # NoBucket /\ ~Visible(b, k) /\ UNCHANGED storeVars
      BY <1>2, <1>5, <2>3 DEF Visible, storeVars
    <2>4. QED
      BY <1>5, <2>1, <2>2, <2>3, AnswerStatus DEF DeleteObject, NoSuchBucket
  <1>6. CASE request[c].op = "deleteMulti" /\ answer'[c].status = "ok" /\ ~setup.versioned
    <2>1. DeleteMulti(c) /\ request[c].keys \in SUBSET Keys
      BY <1>1, <1>6, HandlerOf, RequestTypes DEF Handle, DeleteRequest
    <2>2. ~NoSuchBucket(c) /\ ~Answer(c, "BadRequest")
      BY <1>6, AnswerStatus DEF NoSuchBucket
    <2> DEFINE left == [j \in Keys |-> IF j \in request[c].keys THEN NoObject ELSE store[b][j]]
    <2>3. store[b] # NoBucket /\ store' = [store EXCEPT ![b] = left]
      BY <1>6, <2>1, <2>2 DEF DeleteMulti
    <2>4. store[b] \in Holdings
      BY <1>3, <2>3, HoldingsAt DEF FrontInv
    <2>5. left \in Holdings
      BY <2>4 DEF Holdings
    <2>6. \A j \in request[c].keys : left[j] = NoObject
      BY <2>1
    <2> HIDE DEF left
    <2>7. store'[b] = left /\ store'[b] # NoBucket
      BY <1>3, <2>3, <2>5, FrontendAssumption DEF FrontInv, StoreTypeOK, Holdings
    <2>8. KeysIn(store'[b]) \cap request[c].keys = {}
      BY <2>6, <2>7 DEF KeysIn
    <2>9. QED
      BY <1>2, <1>6, <2>7, <2>8
  <1>7. CASE request[c].op = "createBucket" /\ answer'[c].status = "ok"
    <2>1. CreateBucket(c)
      BY <1>1, <1>7, HandlerOf DEF Handle
    <2>2. CreateBucketIn(b)
      BY <1>7, <2>1, AnswerStatus DEF CreateBucket
    <2>3. store[b] = NoBucket /\ store'[b] = [j \in Keys |-> NoObject]
      BY <1>3, <2>2 DEF CreateBucketIn, FrontInv, StoreTypeOK
    <2>4. store'[b] # NoBucket
      BY <2>3, FrontendAssumption
    <2>5. QED
      BY <1>2, <1>7, <2>3, <2>4
  <1>8. CASE request[c].op = "deleteBucket" /\ answer'[c].status = "ok"
    <2>1. DeleteBucket(c)
      BY <1>1, <1>8, HandlerOf DEF Handle
    <2>2. DropBucketOf(b)
      BY <1>8, <2>1, AnswerStatus DEF DeleteBucket, NoSuchBucket
    <2>3. store[b] # NoBucket /\ store'[b] = NoBucket
      BY <1>3, <2>2 DEF DropBucketOf, FrontInv, StoreTypeOK
    <2>4. QED
      BY <1>2, <1>8, <2>3
  <1>9. QED
    BY <1>4, <1>5, <1>6, <1>7, <1>8

\* A write that was answered with success took effect during its request, and a copy
\* with a body its source had then, however the requests around it interleave.
THEOREM AnsweredWritesTookEffect == FrontSpec => AnsweredWritesHappened
  <1> DEFINE Written ==
        \A c \in Clients :
        LET b == BucketOf(c)
            showed == Showed(c, b, request[c].key) IN
        /\ AnswersTo(c, "createObject", "ok") =>
              \E o \in Objects(showed) : o.body = request[c].body
        /\ AnswersTo(c, "copyObject", "ok") =>
              \E o \in Objects(showed) :
              \E src \in Objects(Showed(c, request[c].srcBucket, request[c].srcKey)) :
                  o.body = src.body
        /\ AnswersTo(c, "deleteObject", "ok") => NoObject \in showed
        /\ AnswersTo(c, "deleteMulti", "ok") /\ ~setup.versioned =>
              \E s \in During(c) : s[b] # NoBucket /\ KeysIn(s[b]) \cap request[c].keys = {}
        /\ AnswersTo(c, "createBucket", "ok") =>
              \E s, t \in During(c) : s[b] = NoBucket /\ t[b] # NoBucket
        /\ AnswersTo(c, "deleteBucket", "ok") =>
              \E s, t \in During(c) : s[b] # NoBucket /\ t[b] = NoBucket
  <1>1. FrontInv /\ FrontInv' /\ [FrontNext]_frontVars => [Written]_frontVars
    <2> SUFFICES ASSUME FrontInv, FrontInv', [FrontNext]_frontVars PROVE Written
      OBVIOUS
    <2>1. ASSUME NEW c \in Clients, Serving(c), ~Serving(c)'
          PROVE  Handle(c) /\ UNCHANGED setup
      BY <2>1, OwnStepAnswers
    <2>2. QED
      BY <2>1, WriteStep DEF AnswersTo, Answers
  <1>2. QED
    BY <1>1, FrontInvariant, PTL DEF FrontSpec, AnsweredWritesHappened

-----------------------------------------------------------------------------
(* Refusals.                                                               *)

\* Who answers that a bucket is missing has found it missing.
LEMMA RefusalStep ==
    ASSUME FrontInv, NEW c \in Clients, Handle(c), Serving(c), ~Serving(c)'
    PROVE  LET b == BucketOf(c) IN
           /\ Answers(c, "NoSuchBucket") =>
                 \E s \in During(c) :
                     \/ s[b] = NoBucket
                     \/ request[c].op = "copyObject" /\ s[request[c].srcBucket] = NoBucket
           /\ Answers(c, "BucketNotEmpty") /\ ~setup.versioned =>
                 \E s \in During(c) : s[b] # NoBucket /\ KeysIn(s[b]) # {}
  <1> DEFINE b == BucketOf(c)
  <1> USE DEF Answers
  <1>1. store \in During(c) /\ past[c] \subseteq During(c)
    BY Moments
  <1>2. CASE answer'[c].status = "NoSuchBucket"
    <2>1. CASE store[b] = NoBucket \/ MissedBucket(c)
      BY <1>1, <1>2, <2>1 DEF MissedBucket
    <2>2. CASE request[c].op = "copyObject" /\ store[request[c].srcBucket] = NoBucket
      BY <1>1, <1>2, <2>2
    <2>3. NoSuchBucket(c) => store[b] = NoBucket
      BY DEF NoSuchBucket
    <2>4. RequireVersioned(c) \/ EnsureBucketExists(c) \/ AutoCreate(c) =>
             store[b] = NoBucket \/ MissedBucket(c)
      BY <1>2, AnswerStatus
         DEF RequireVersioned, EnsureBucketExists, AutoCreate, Goto, Serving, Ensured, FrontInv, ClientOK
    <2>5. CreateBucket(c) \/ DeleteBucket(c) \/ ForceDeleteBucket(c) \/ HeadBucket(c) =>
             store[b] = NoBucket
      BY <1>2, <2>3, AnswerStatus, GotoServes
         DEF CreateBucket, DeleteBucket, ForceDeleteBucket, HeadBucket
    <2>6. ListBucket(c) => store[b] = NoBucket
      BY <1>2, <2>3, AnswerStatus, GotoServes DEF ListBucket, AnswerWith, FrontInv
    <2>7. ListBucketVersions(c) \/ BucketVersioning(c) => store[b] = NoBucket
      BY <1>2, <2>3, AnswerStatus DEF ListBucketVersions, BucketVersioning
    <2>8. GetObject(c) => store[b] = NoBucket
      BY <1>2, <2>3, AnswerStatus DEF GetObject, AnswerObject, AnswerWith, FrontInv
    <2>9. GetObjectVersion(c) \/ DeleteObject(c) \/ DeleteObjectVersion(c) \/ DeleteMulti(c) =>
             store[b] = NoBucket
      BY <1>2, <2>3, AnswerStatus
         DEF GetObjectVersion, DeleteObject, DeleteObjectVersion, DeleteMulti
    <2>10. CreateObject(c) \/ CopyObject(c) =>
             request[c].op = "copyObject" /\ store[request[c].srcBucket] = NoBucket
      BY <1>2, AnswerStatus, GotoServes DEF CreateObject, CopyObject, Calls
    <2>11. BackendWrite(c) =>
             \/ store[b] = NoBucket
             \/ request[c].op = "copyObject" /\ store[request[c].srcBucket] = NoBucket
      <3> SUFFICES ASSUME BackendWrite(c)
                   PROVE  \/ store[b] = NoBucket
                          \/ /\ request[c].op = "copyObject"
                             /\ store[request[c].srcBucket] = NoBucket
        OBVIOUS
      <3>1. Carries(c, pending[c])
        BY PendingTypes DEF BackendWrite
      <3>2. CASE pending[c].step = "copy" /\ store[pending[c].srcBucket] = NoBucket
        BY <3>1, <3>2 DEF Carries
      <3>3. CASE pending[c].step = "put" /\ store[pending[c].bucket] = NoBucket
        BY <3>1, <3>3 DEF Carries, BucketOf
      <3>4. QED
        BY <1>2, <3>2, <3>3, AnswerStatus, GotoServes DEF BackendWrite, Fail
    <2>12. QED
      BY <2>1, <2>2, <2>4, <2>5, <2>6, <2>7, <2>8, <2>9, <2>10, <2>11 DEF Handle
  <1>3. CASE answer'[c].status = "BucketNotEmpty" /\ ~setup.versioned
    <2>1. DeleteBucket(c)
      <3>1. ~(RequireVersioned(c) \/ EnsureBucketExists(c) \/ AutoCreate(c))
        BY <1>3, TestAnswers
      <3>2. ~(CreateBucket(c) \/ ForceDeleteBucket(c) \/ HeadBucket(c) \/ ListBucketVersions(c)
                \/ BucketVersioning(c))
        BY <1>3, AnswerStatus, GotoServes
           DEF CreateBucket, ForceDeleteBucket, HeadBucket, ListBucketVersions, BucketVersioning,
               NoSuchBucket
      <3>3. ~(ListBucket(c) \/ GetObject(c))
        BY <1>3, AnswerStatus, GotoServes
           DEF ListBucket, GetObject, AnswerObject, AnswerWith, NoSuchBucket, FrontInv
      <3>4. ~(GetObjectVersion(c) \/ DeleteObject(c) \/ DeleteObjectVersion(c) \/ DeleteMulti(c))
        BY <1>3, AnswerStatus
           DEF GetObjectVersion, DeleteObject, DeleteObjectVersion, DeleteMulti, NoSuchBucket
      <3>5. ~(CreateObject(c) \/ CopyObject(c) \/ BackendWrite(c))
        BY <1>3, AnswerStatus, GotoServes DEF CreateObject, CopyObject, BackendWrite
      <3>6. QED
        BY <3>1, <3>2, <3>3, <3>4, <3>5 DEF Handle
    <2>2. store[b] # NoBucket /\ KeysIn(store[b]) # {}
      BY <1>3, <2>1, AnswerStatus DEF DeleteBucket, NoSuchBucket
    <2>3. QED
      BY <1>1, <1>3, <2>2
  <1>4. QED
    BY <1>2, <1>3

\* NoSuchBucket is answered only about a bucket that was missing at a moment of the
\* request, WithAutoBucket or not, and BucketNotEmpty only about one with an object.
THEOREM RefusalsCaused == FrontSpec => RefusalsHaveACause
  <1> DEFINE Caused ==
        \A c \in Clients :
        LET b == BucketOf(c) IN
        /\ Answers(c, "NoSuchBucket") =>
              \E s \in During(c) :
                  \/ s[b] = NoBucket
                  \/ request[c].op = "copyObject" /\ s[request[c].srcBucket] = NoBucket
        /\ Answers(c, "BucketNotEmpty") /\ ~setup.versioned =>
              \E s \in During(c) : s[b] # NoBucket /\ KeysIn(s[b]) # {}
  <1>1. FrontInv /\ [FrontNext]_frontVars => [Caused]_frontVars
    <2> SUFFICES ASSUME FrontInv, [FrontNext]_frontVars PROVE Caused
      OBVIOUS
    <2>1. ASSUME NEW c \in Clients, Serving(c), ~Serving(c)'
          PROVE  Handle(c)
      BY <2>1, OwnStepAnswers
    <2>2. QED
      BY <2>1, RefusalStep DEF Answers
  <1>2. QED
    BY <1>1, FrontInvariant, PTL DEF FrontSpec, RefusalsHaveACause

-----------------------------------------------------------------------------
(* Who changes objects.                                                    *)

\* A bucket created for a request shows nothing, as before.
LEMMA CreateShowsNothing ==
    ASSUME FrontInv, NEW b \in Buckets, CreateBucketIn(b), NEW a \in Buckets, NEW k \in Keys
    PROVE  Shown(a, k)' = Shown(a, k)
  <1>1. CASE a = b
    <2>1. store[b] = NoBucket /\ store'[b] = [j \in Keys |-> NoObject]
      BY DEF CreateBucketIn, FrontInv, StoreTypeOK
    <2>2. QED
      BY <1>1, <2>1 DEF Shown, Visible
  <1>2. CASE a # b
    <2>1. store'[a] = store[a]
      BY <1>2 DEF CreateBucketIn, FrontInv, StoreTypeOK
    <2>2. QED
      BY <2>1 DEF Shown, Visible
  <1>3. QED
    BY <1>1, <1>2

\* A handler changes the store in the step that answers with success, creates the
\* bucket, or deletes it by force.
LEMMA ChangeStep ==
    ASSUME FrontInv, NEW c \in Clients, Handle(c), store' # store
    PROVE  \/ Answers(c, "ok")
           \/ CreateBucketIn(BucketOf(c))
           \/ request[c].op = "forceDeleteBucket" /\ stage'[c] = "delete"
  <1>1. Serving(c)
    BY HandleOutcome DEF Outcome
  <1>2. Answer(c, "ok") => Answers(c, "ok")
    BY <1>1, AnswerStatus DEF Answers
  <1>3. RequireVersioned(c) \/ EnsureBucketExists(c) \/ AutoCreate(c) =>
            CreateBucketIn(BucketOf(c))
    BY DEF RequireVersioned, EnsureBucketExists, AutoCreate, storeVars
  <1>4. CreateBucket(c) \/ DeleteBucket(c) => Answers(c, "ok")
    BY <1>2 DEF CreateBucket, DeleteBucket, NoSuchBucket, storeVars
  <1>5. ForceDeleteBucket(c) => request[c].op = "forceDeleteBucket" /\ stage'[c] = "delete"
    BY DEF ForceDeleteBucket, Calls, Goto, NoSuchBucket, storeVars, FrontInv
  <1>6. ~(HeadBucket(c) \/ ListBucket(c) \/ ListBucketVersions(c) \/ BucketVersioning(c)
            \/ GetObject(c) \/ GetObjectVersion(c) \/ CreateObject(c) \/ CopyObject(c))
    BY DEF HeadBucket, ListBucket, ListBucketVersions, BucketVersioning, GetObject,
           GetObjectVersion, CreateObject, CopyObject, NoSuchBucket, storeVars,
           BeginWrite, BeginCopy
  <1>7. BackendWrite(c) => Answers(c, "ok")
    BY <1>2 DEF BackendWrite, FetchBody, Inherit, Fail
  <1>8. DeleteObject(c) \/ DeleteObjectVersion(c) \/ DeleteMulti(c) => Answers(c, "ok")
    BY <1>2 DEF DeleteObject, DeleteObjectVersion, DeleteMulti, NoSuchBucket, storeVars
  <1>9. QED
    BY <1>3, <1>4, <1>5, <1>6, <1>7, <1>8 DEF Handle

\* A request that is refused has changed no object before: at most it created the
\* bucket, or deleted it by force.
THEOREM OnlyAnsweredChange == FrontSpec => OnlyAnsweredRequestsChangeObjects
  <1> DEFINE Answered ==
        \A b \in Buckets, k \in Keys :
            Shown(b, k)' # Shown(b, k) =>
                \E c \in Clients :
                    \/ Answers(c, "ok")
                    \/ request[c].op = "forceDeleteBucket" /\ stage'[c] = "delete"
  <1>1. FrontInv /\ [FrontNext]_frontVars => [Answered]_frontVars
    <2> SUFFICES ASSUME FrontInv, [FrontNext]_frontVars, NEW b \in Buckets, NEW k \in Keys,
                        Shown(b, k)' # Shown(b, k)
                 PROVE  \E c \in Clients :
                           \/ Answers(c, "ok")
                           \/ request[c].op = "forceDeleteBucket" /\ stage'[c] = "delete"
      OBVIOUS
    <2>1. store' # store
      BY DEF Shown, Visible
    <2>2. PICK c \in Clients : Handle(c)
      BY <2>1 DEF FrontNext, Start, Serve, storeVars, frontVars
    <2>3. BucketOf(c) \in Buckets
      BY <2>2, HandleOutcome, RequestTypes DEF Outcome
    <2>4. ~CreateBucketIn(BucketOf(c))
      BY <2>3, CreateShowsNothing
    <2>5. QED
      BY <2>1, <2>2, <2>4, ChangeStep
  <1>2. QED
    BY <1>1, FrontInvariant, PTL DEF FrontSpec, OnlyAnsweredRequestsChangeObjects

=============================================================================
