------------------------------ MODULE Frontend ------------------------------
(***************************************************************************)
(* The request handlers of src/gofakes3.go and src/routing.go, over any    *)
(* backend that is the store of ObjectStore.                               *)
(*                                                                         *)
(* A handler is a sequence of calls of the backend, and other requests run *)
(* between any two of them: the test for the bucket, its creation under    *)
(* WithAutoBucket, then the operation itself.  `stage` is the call that    *)
(* comes next.                                                             *)
(*                                                                         *)
(* Versions are below the store's abstraction: what a call does to them is *)
(* here what it shows of the key, which for some calls is a choice.        *)
(***************************************************************************)
EXTENDS ObjectStore

CONSTANTS
    Setups,       \* the options a server may be made with, and the valid names
    BadBody,      \* a body or headers that are refused, or cannot be read
    NoEtag,       \* the request has no If-None-Match header
    NoResult      \* the response has no content

ASSUME FrontendAssumption ==
    /\ Setups \subseteq
          [autoBucket : BOOLEAN,            \* WithAutoBucket
           versioned : BOOLEAN,             \* the backend has versions, and may use them
           validNames : SUBSET Buckets]     \* the names that pass ValidateBucketName
    /\ NoEtag \notin Bodies
    /\ BadBody \notin Bodies
    /\ NoObject \notin Stored
    /\ NoBucket \notin [Keys -> Stored \cup {NoObject}]
    /\ NoWrite \notin Write \cup Copy

VARIABLES
    setup,     \* how the server was made
    request,   \* the request of each client
    stage,     \* the call its handler makes next
    answer,    \* the response to the client's last request
    past       \* history: the stores there have been since the request was sent

frontVars == <<store, pending, setup, request, stage, answer, past>>

-----------------------------------------------------------------------------
(* Requests.                                                               *)

\* What is answered when the handler's own test of the bucket is all there is:
\* HEAD bucket, its location, its multipart uploads.
BucketRequest ==
    [op : {"headBucket", "createBucket", "deleteBucket", "forceDeleteBucket", "listBucket",
           "listBucketVersions", "getVersioning", "putVersioning"},
     bucket : Buckets]

\* HEAD and GET; a HEAD is handled like the GET, also when it names a version.
\* `etag` is the If-None-Match header, `since` tells if there is an If-Modified-Since.
ReadRequest ==
    [op : {"getObject"}, bucket : Buckets, key : Keys, etag : Bodies \cup {NoEtag},
     since : BOOLEAN]

ObjectRequest ==
    [op : {"deleteObject", "deleteObjectVersion", "getObjectVersion"},
     bucket : Buckets, key : Keys]

\* A PUT or a browser's POST.
WriteRequest ==
    [op : {"createObject"}, bucket : Buckets, key : Keys, body : Bodies \cup {BadBody},
     meta : Headers]

CopyRequest ==
    [op : {"copyObject"}, srcBucket : Buckets, srcKey : Keys, bucket : Buckets, key : Keys,
     meta : Headers]

DeleteRequest == [op : {"deleteMulti"}, bucket : Buckets, keys : SUBSET Keys \ {{}}]

Request ==
    BucketRequest \cup ReadRequest \cup ObjectRequest \cup WriteRequest \cup CopyRequest
        \cup DeleteRequest

NoRequest == [op |-> "none"]

Stages == {"idle", "versioned", "ensure", "create", "ensureAgain", "createAgain", "call",
           "retry", "delete", "backend"}

Statuses == {"ok", "BadRequest", "BucketAlreadyExists", "BucketNotEmpty", "InternalError",
             "InvalidBucketName", "NoSuchBucket", "NoSuchKey", "NoSuchVersion",
             "NotImplemented", "NotModified", "closed", "none"}

NoAnswer == [status |-> "none", result |-> NoResult]

FrontTypeOK ==
    /\ StoreTypeOK
    /\ setup \in Setups
    /\ request \in [Clients -> Request \cup {NoRequest}]
    /\ stage \in [Clients -> Stages]
    /\ \A c \in Clients :
          /\ answer[c].status \in Statuses
          /\ stage[c] = "idle" <=> request[c] = NoRequest
          /\ stage[c] = "backend" <=> pending[c] # NoWrite
          /\ stage[c] = "idle" <=> past[c] = {}

-----------------------------------------------------------------------------
(* Responses.                                                              *)

Serving(c) == stage[c] # "idle"

BucketOf(c) == request[c].bucket

Goto(c, next) ==
    /\ stage' = [stage EXCEPT ![c] = next]
    /\ UNCHANGED <<request, answer>>

AnswerWith(c, status, result) ==
    /\ stage' = [stage EXCEPT ![c] = "idle"]
    /\ request' = [request EXCEPT ![c] = NoRequest]
    /\ answer' = [answer EXCEPT ![c] = [status |-> status, result |-> result]]

Answer(c, status) == AnswerWith(c, status, NoResult)

\* A call of the backend on a bucket that is not there.
NoSuchBucket(c) ==
    /\ store[BucketOf(c)] = NoBucket
    /\ Answer(c, "NoSuchBucket")
    /\ UNCHANGED storeVars

\* The handler of this operation has come to its own call.
Calls(c, op) ==
    /\ stage[c] = "call"
    /\ request[c].op = op

KeysIn(s) == {k \in Keys : s[k] # NoObject}

\* The nil dereference of the in-memory backend: the key has archived versions
\* and no current one.  net/http closes the connection.
MayPanic(b, k) == setup.versioned /\ store[b] # NoBucket /\ ~Visible(b, k)

-----------------------------------------------------------------------------
(* Before the operation: routing and the test for the bucket.              *)

FirstStage(op) ==
    CASE op = "createBucket" -> "call"
      [] op \in {"listBucketVersions", "deleteObjectVersion"} -> "versioned"
      [] OTHER -> "ensure"

Start(c, r) ==
    /\ ~Serving(c)
    /\ request' = [request EXCEPT ![c] = r]
    /\ stage' = [stage EXCEPT ![c] = FirstStage(r.op)]
    /\ answer' = [answer EXCEPT ![c] = NoAnswer]
    /\ past' = [past EXCEPT ![c] = {store}]
    /\ UNCHANGED <<storeVars, setup>>

\* Two handlers refuse before they look for the bucket.
RequireVersioned(c) ==
    /\ stage[c] = "versioned"
    /\ IF setup.versioned THEN Goto(c, "ensure") ELSE Answer(c, "NotImplemented")
    /\ UNCHANGED storeVars

\* createObject looks for the bucket, and so does copyObject, which it calls.
Ensured(c) ==
    IF request[c].op = "copyObject" /\ stage[c] \in {"ensure", "create"}
    THEN "ensureAgain" ELSE "call"

EnsureBucketExists(c) ==
    /\ stage[c] \in {"ensure", "ensureAgain"}
    /\ \/ store[BucketOf(c)] # NoBucket /\ Goto(c, Ensured(c))
       \/ /\ store[BucketOf(c)] = NoBucket
          /\ setup.autoBucket
          /\ Goto(c, IF stage[c] = "ensure" THEN "create" ELSE "createAgain")
       \/ /\ store[BucketOf(c)] = NoBucket
          /\ ~setup.autoBucket
          /\ Answer(c, "NoSuchBucket")
    /\ UNCHANGED storeVars

\* Bug: look again when another request has created the bucket.
AutoCreateRetrying(c) ==
    /\ stage[c] \in {"create", "createAgain"}
    /\ \/ CreateBucketIn(BucketOf(c)) /\ Goto(c, IF stage[c] = "create" THEN "ensure" ELSE "ensureAgain")
       \/ /\ store[BucketOf(c)] # NoBucket
          /\ Goto(c, IF stage[c] = "create" THEN "ensure" ELSE "ensureAgain")
          /\ UNCHANGED storeVars

\* Bug: create the bucket without regard to one that is there by now.
AutoCreateReplacing(c) ==
    /\ stage[c] \in {"create", "createAgain"}
    /\ store' = [store EXCEPT ![BucketOf(c)] = [k \in Keys |-> NoObject]]
    /\ Goto(c, Ensured(c))
    /\ UNCHANGED pending

\* The name is not validated, and when another request has created the bucket
\* since, the answer is NoSuchBucket.
AutoCreate(c) ==
    /\ stage[c] \in {"create", "createAgain"}
    /\ \/ CreateBucketIn(BucketOf(c)) /\ Goto(c, Ensured(c))
       \/ /\ store[BucketOf(c)] # NoBucket
          /\ Answer(c, "NoSuchBucket")
          /\ UNCHANGED storeVars

-----------------------------------------------------------------------------
(* Buckets.                                                                *)

CreateBucket(c) ==
    /\ Calls(c, "createBucket")
    /\ \/ /\ BucketOf(c) \notin setup.validNames
          /\ Answer(c, "InvalidBucketName")
          /\ UNCHANGED storeVars
       \/ /\ BucketOf(c) \in setup.validNames
          /\ CreateBucketIn(BucketOf(c))
          /\ Answer(c, "ok")
       \/ /\ BucketOf(c) \in setup.validNames
          /\ store[BucketOf(c)] # NoBucket
          /\ Answer(c, "BucketAlreadyExists")
          /\ UNCHANGED storeVars

\* Versions that a read does not show keep a bucket from being empty too.
DeleteBucket(c) ==
    /\ Calls(c, "deleteBucket") \/ stage[c] = "delete"
    /\ \/ /\ store[BucketOf(c)] # NoBucket
          /\ KeysIn(store[BucketOf(c)]) = {}
          /\ DropBucketOf(BucketOf(c))
          /\ Answer(c, "ok")
       \/ /\ store[BucketOf(c)] # NoBucket
          /\ setup.versioned \/ KeysIn(store[BucketOf(c)]) # {}
          /\ Answer(c, "BucketNotEmpty")
          /\ UNCHANGED storeVars
       \/ NoSuchBucket(c)

\* After the forced deletion comes the plain one.
ForceDeleteBucket(c) ==
    /\ Calls(c, "forceDeleteBucket")
    /\ \/ DropBucketOf(BucketOf(c)) /\ Goto(c, "delete")
       \/ NoSuchBucket(c)

HeadBucket(c) ==
    /\ Calls(c, "headBucket")
    /\ Answer(c, "ok")
    /\ UNCHANGED storeVars

\* A backend without pages refuses the first call, whatever it stores; the handler
\* then asks for everything, or gives up WithUnimplementedPageError.  The listing of
\* the in-memory backend panics at a key that has archived versions only.
ListBucket(c) ==
    /\ Calls(c, "listBucket") \/ stage[c] = "retry"
    /\ \/ /\ store[BucketOf(c)] # NoBucket
          /\ AnswerWith(c, "ok", KeysIn(store[BucketOf(c)]))
          /\ UNCHANGED storeVars
       \/ /\ \E k \in Keys : MayPanic(BucketOf(c), k)
          /\ Answer(c, "closed")
          /\ UNCHANGED storeVars
       \/ NoSuchBucket(c)
       \/ /\ stage[c] = "call"
          /\ Goto(c, "retry") \/ Answer(c, "NotImplemented")
          /\ UNCHANGED storeVars

\* The markers of the request may be none of this listing.
ListBucketVersions(c) ==
    /\ Calls(c, "listBucketVersions")
    /\ \/ /\ store[BucketOf(c)] # NoBucket
          /\ Answer(c, "ok") \/ Answer(c, "InternalError")
          /\ UNCHANGED storeVars
       \/ NoSuchBucket(c)

\* Without a versioned backend the status is empty and can only be set to that.  MFA
\* delete is refused by every server, before the backend looks for the bucket; a body
\* may not be XML.
BucketVersioning(c) ==
    /\ Calls(c, "getVersioning") \/ Calls(c, "putVersioning")
    /\ \/ /\ setup.versioned => store[BucketOf(c)] # NoBucket
          /\ Answer(c, "ok")
          /\ UNCHANGED storeVars
       \/ /\ request[c].op = "putVersioning"
          /\ Answer(c, "NotImplemented") \/ Answer(c, "BadRequest")
          /\ UNCHANGED storeVars
       \/ setup.versioned /\ NoSuchBucket(c)

-----------------------------------------------------------------------------
(* Objects.                                                                *)

\* Bug: the condition of the request is tested the wrong way around.
MatchesNot(c) ==
    request[c].etag # NoEtag /\ store[BucketOf(c)][request[c].key].body # request[c].etag

\* If-None-Match names the ETag of what the key has now.
Matches(c) == store[BucketOf(c)][request[c].key].body = request[c].etag

\* The object is sent unless its ETag is the one named.  If the request has an
\* If-Modified-Since too, the object may be no newer than that: dates are not kept in
\* the store, so it may or may not be.
AnswerObject(c) ==
    \/ ~Matches(c) /\ AnswerWith(c, "ok", store[BucketOf(c)][request[c].key])
    \/ (Matches(c) \/ request[c].since) /\ Answer(c, "NotModified")

\* Bug: a key that is missing is taken for a bucket that is.
GetObjectMissing(c) ==
    /\ Calls(c, "getObject")
    /\ UNCHANGED storeVars
    /\ IF Visible(BucketOf(c), request[c].key)
       THEN AnswerWith(c, "ok", store[BucketOf(c)][request[c].key])
       ELSE Answer(c, "NoSuchBucket")

GetObject(c) ==
    /\ Calls(c, "getObject")
    /\ LET b == BucketOf(c)
           k == request[c].key IN
       \/ Visible(b, k) /\ AnswerObject(c) /\ UNCHANGED storeVars
       \/ /\ store[b] # NoBucket /\ ~Visible(b, k)
          /\ Answer(c, "NoSuchKey")
          /\ UNCHANGED storeVars
       \/ MayPanic(b, k) /\ Answer(c, "closed") /\ UNCHANGED storeVars
       \/ NoSuchBucket(c)

\* The key may be unknown, or the version, or be a delete marker, which is answered
\* as a key that is missing; the headers that make a read conditional apply here too.
GetObjectVersion(c) ==
    /\ Calls(c, "getObjectVersion")
    /\ \/ ~setup.versioned /\ Answer(c, "NotImplemented") /\ UNCHANGED storeVars
       \/ /\ setup.versioned /\ store[BucketOf(c)] # NoBucket
          /\ \E status \in {"ok", "NoSuchKey", "NoSuchVersion", "NotModified"} : Answer(c, status)
          /\ UNCHANGED storeVars
       \/ setup.versioned /\ NoSuchBucket(c)

\* A request whose headers are refused, or whose body the backend cannot read,
\* has got past the test for the bucket.
CreateObject(c) ==
    /\ Calls(c, "createObject")
    /\ \/ request[c].body = BadBody /\ Answer(c, "BadRequest") /\ UNCHANGED storeVars
       \/ /\ request[c].body # BadBody
          /\ BeginWrite(c, BucketOf(c), request[c].key, request[c].body, request[c].meta)
          /\ Goto(c, "backend")

\* Bug: the copy is under way when it is answered.
CopyObjectAnsweringFirst(c) ==
    /\ Calls(c, "copyObject")
    /\ \/ /\ BeginCopy(c, request[c].srcBucket, request[c].srcKey,
                       BucketOf(c), request[c].key, request[c].meta)
          /\ Answer(c, "ok")
       \/ /\ ~Visible(request[c].srcBucket, request[c].srcKey)
          /\ Answer(c, "NoSuchKey")
          /\ UNCHANGED storeVars

\* Nobody looks for, or creates, the bucket of the source.
CopyObject(c) ==
    /\ Calls(c, "copyObject")
    /\ LET sb == request[c].srcBucket
           sk == request[c].srcKey IN
       \/ /\ BeginCopy(c, sb, sk, BucketOf(c), request[c].key, request[c].meta)
          /\ Goto(c, "backend")
       \/ store[sb] = NoBucket /\ Answer(c, "NoSuchBucket") /\ UNCHANGED storeVars
       \/ /\ store[sb] # NoBucket /\ ~Visible(sb, sk)
          /\ Answer(c, "NoSuchKey")
          /\ UNCHANGED storeVars
       \/ MayPanic(sb, sk) /\ Answer(c, "closed") /\ UNCHANGED storeVars

\* Bug: the error of a write whose bucket is gone is not looked at.
BackendWriteUnchecked(c) ==
    /\ stage[c] = "backend"
    /\ \/ (FetchBody(c) \/ Inherit(c)) /\ Goto(c, "backend")
       \/ (Commit(c) \/ Fail(c)) /\ Answer(c, "ok")

\* The rest of a backend's PutObject or CopyObject.
BackendWrite(c) ==
    /\ stage[c] = "backend"
    /\ LET w == pending[c] IN
       \/ (FetchBody(c) \/ Inherit(c)) /\ Goto(c, "backend")
       \/ Commit(c) /\ Answer(c, "ok")
       \/ w.step = "copy" /\ Fail(c)
             /\ Answer(c, IF store[w.srcBucket] = NoBucket THEN "NoSuchBucket" ELSE "NoSuchKey")
       \/ w.step = "merge" /\ MayPanic(w.bucket, w.key) /\ Fail(c) /\ Answer(c, "closed")
       \/ w.step = "put" /\ Fail(c) /\ Answer(c, "NoSuchBucket")

DeleteObject(c) ==
    /\ Calls(c, "deleteObject")
    /\ \/ Vanish(BucketOf(c), {request[c].key}) /\ Answer(c, "ok")
       \/ /\ store[BucketOf(c)] # NoBucket /\ ~Visible(BucketOf(c), request[c].key)
          /\ Answer(c, "ok")
          /\ UNCHANGED storeVars
       \/ NoSuchBucket(c)

\* The version may be the one that reads find, or another.
DeleteObjectVersion(c) ==
    /\ Calls(c, "deleteObjectVersion")
    /\ \/ Vanish(BucketOf(c), {request[c].key}) /\ Answer(c, "ok")
       \/ /\ store[BucketOf(c)] # NoBucket
          /\ Answer(c, "ok")
          /\ UNCHANGED storeVars
       \/ NoSuchBucket(c)

\* One locked call.  Entries that name a version are deleted by version, if the
\* backend has versions, and as keys if it has not.  The body may not be XML.
DeleteMulti(c) ==
    /\ Calls(c, "deleteMulti")
    /\ \/ Answer(c, "BadRequest") /\ UNCHANGED storeVars
       \/ \E gone \in SUBSET request[c].keys :
             /\ store[BucketOf(c)] # NoBucket
             /\ ~setup.versioned => gone = request[c].keys
             /\ store' = [store EXCEPT ![BucketOf(c)] =
                    [k \in Keys |-> IF k \in gone THEN NoObject ELSE store[BucketOf(c)][k]]]
             /\ Answer(c, "ok")
             /\ UNCHANGED pending
       \/ NoSuchBucket(c)

-----------------------------------------------------------------------------

\* The requests in progress have seen the store that this step leaves.
Observe ==
    past' = [c \in Clients |->
        IF Serving(c) /\ Serving(c)' THEN past[c] \cup {store'} ELSE {}]

Handle(c) ==
    \/ RequireVersioned(c)
    \/ EnsureBucketExists(c)
    \/ AutoCreate(c)
    \/ CreateBucket(c)
    \/ DeleteBucket(c)
    \/ ForceDeleteBucket(c)
    \/ HeadBucket(c)
    \/ ListBucket(c)
    \/ ListBucketVersions(c)
    \/ BucketVersioning(c)
    \/ GetObject(c)
    \/ GetObjectVersion(c)
    \/ CreateObject(c)
    \/ CopyObject(c)
    \/ BackendWrite(c)
    \/ DeleteObject(c)
    \/ DeleteObjectVersion(c)
    \/ DeleteMulti(c)

Serve(c) == Handle(c) /\ Observe /\ UNCHANGED setup

FrontInit ==
    /\ StoreInit
    /\ setup \in Setups
    /\ request = [c \in Clients |-> NoRequest]
    /\ stage = [c \in Clients |-> "idle"]
    /\ answer = [c \in Clients |-> NoAnswer]
    /\ past = [c \in Clients |-> {}]

FrontNext ==
    \E c \in Clients :
        \/ \E r \in Request : Start(c, r)
        \/ Serve(c)

\* net/http handles each request in a goroutine of its own, which the scheduler
\* runs as long as it is not blocked; no client has to send anything.
FrontSpec ==
    /\ FrontInit
    /\ [][FrontNext]_frontVars
    /\ \A c \in Clients : WF_frontVars(Serve(c))

-----------------------------------------------------------------------------
(* Safety.                                                                 *)

Answers(c, status) ==
    Serving(c) /\ ~Serving(c)' /\ answer'[c].status = status

AnswersTo(c, op, status) == request[c].op = op /\ Answers(c, status)

\* The stores there were between the request and its answer, both included.
During(c) == past[c] \cup {store'}

\* What was under the key at the moments its bucket existed.
Showed(c, b, k) == {s[b][k] : s \in {t \in During(c) : t[b] # NoBucket}}

Objects(showed) == showed \ {NoObject}

\* What a read of the key finds.
Shown(b, k) == IF Visible(b, k) THEN store[b][k] ELSE NoObject

\* A read is answered with what the store held at one moment between the request
\* and its answer, though the bucket is tested in another step and a listing may be
\* two: the object, its absence, or for a listing the keys, all of one moment.  The
\* object that is sent has not the ETag of If-None-Match, and NotModified means that
\* the key had an object: the one with that ETag, unless the request also had an
\* If-Modified-Since, which alone may be what the object is not newer than.
ReadsAreOfOneMoment ==
    [][\A c \in Clients :
        LET b == BucketOf(c)
            showed == Showed(c, b, request[c].key) IN
        /\ AnswersTo(c, "getObject", "ok") =>
              /\ answer'[c].result \in Objects(showed)
              /\ answer'[c].result.body # request[c].etag
        /\ AnswersTo(c, "getObject", "NotModified") =>
              \E o \in Objects(showed) : request[c].since \/ o.body = request[c].etag
        /\ AnswersTo(c, "getObject", "NoSuchKey") => NoObject \in showed
        /\ AnswersTo(c, "listBucket", "ok") =>
              \E s \in During(c) : s[b] # NoBucket /\ answer'[c].result = KeysIn(s[b])
      ]_frontVars

\* A write that is answered with success was visible before its answer: the body
\* sent, or, for a copy, a body its source had during the request; a deletion left
\* the key, the keys or the bucket gone, and a creation found the bucket missing.
AnsweredWritesHappened ==
    [][\A c \in Clients :
        LET b == BucketOf(c)
            showed == Showed(c, b, request[c].key) IN
        /\ AnswersTo(c, "createObject", "ok") =>
              \E o \in Objects(showed) : o.body = request[c].body
        /\ AnswersTo(c, "copyObject", "ok") =>
              \E o \in Objects(showed) :
              \E src \in Objects(Showed(c, request[c].srcBucket, request[c].srcKey)) :
                  o.body = src.body
        /\ AnswersTo(c, "deleteObject", "ok") => NoObject \in showed
        /\ AnswersTo(c, "deleteMulti", "ok") /\ ~setup.versioned =>
              \E s \in During(c) : s[b] # NoBucket /\ KeysIn(s[b]) \cap request[c].keys = {}
        /\ AnswersTo(c, "createBucket", "ok") =>
              \E s, t \in During(c) : s[b] = NoBucket /\ t[b] # NoBucket
        /\ AnswersTo(c, "deleteBucket", "ok") =>
              \E s, t \in During(c) : s[b] # NoBucket /\ t[b] = NoBucket
      ]_frontVars

\* A refusal names a state there was: NoSuchBucket is answered only if a bucket the
\* request names was missing for a moment of it, also when WithAutoBucket creates
\* it; BucketNotEmpty only if there was something in the bucket.
RefusalsHaveACause ==
    [][\A c \in Clients :
        LET b == BucketOf(c) IN
        /\ Answers(c, "NoSuchBucket") =>
              \E s \in During(c) :
                  \/ s[b] = NoBucket
                  \/ request[c].op = "copyObject" /\ s[request[c].srcBucket] = NoBucket
        /\ Answers(c, "BucketNotEmpty") /\ ~setup.versioned =>
              \E s \in During(c) : s[b] # NoBucket /\ KeysIn(s[b]) # {}
      ]_frontVars

\* Objects change only in the step that answers their request with success; what a
\* refused request has done before it was refused is at most to create the bucket.
\* A forced deletion is the exception: it deletes first and is refused then.
OnlyAnsweredRequestsChangeObjects ==
    [][\A b \in Buckets, k \in Keys :
          Shown(b, k)' # Shown(b, k) =>
              \E c \in Clients :
                  \/ Answers(c, "ok")
                  \/ request[c].op = "forceDeleteBucket" /\ stage'[c] = "delete"]_frontVars

-----------------------------------------------------------------------------
(* Liveness.                                                               *)

\* Every request is answered, whatever the other requests keep doing to its bucket:
\* no handler goes back to test or to create again what another one has undone.
EveryRequestAnswered ==
    \A c \in Clients : Serving(c) ~> ~Serving(c)

-----------------------------------------------------------------------------
(* Documented behaviour that the code does not have.                       *)

\* WithAutoBucket creates "buckets that don't exist on first use, rather than
\* returning ErrNoSuchBucket" (src/option.go:99): it is not returned for a bucket
\* that exists when the request is answered.
AutoBucketServes ==
    [][\A c \in Clients :
          setup.autoBucket /\ request[c].op # "copyObject" /\ Answers(c, "NoSuchBucket")
              => store'[BucketOf(c)] = NoBucket]_frontVars

=============================================================================
