------------------------------ MODULE S3Afero ------------------------------
(***************************************************************************)
(* The two file-system backends of src/backend/s3afero: MultiBucketBackend *)
(* (a directory per bucket) and SingleBucketBackend (one directory, which  *)
(* is the only bucket), with their metaStore and the helpers CopyObject    *)
(* and MergeMetadata of src/backend.go.                                    *)
(*                                                                         *)
(* A key is two files, the object and its metadata.  db.lock makes every   *)
(* operation one action, with two exceptions: a PutObject holds the lock   *)
(* while it reads its body block by block, and the file that a GetObject   *)
(* opened is read after the lock was released.  A crash of the process     *)
(* may come anywhere, also between the two files of one operation.         *)
(*                                                                         *)
(* A hash is the content it was computed from.  The file system (afero) is *)
(* external: on disk an open file is truncated in place when it is created *)
(* again, in MemMapFs the new file has nothing to do with the open one.    *)
(***************************************************************************)
EXTENDS Integers, Sequences

CONSTANTS
    Setups,     \* the configurations considered, see Setup
    Buckets,    \* bucket names
    KeyOrder,   \* object keys, in the order of a directory walk
    Dir,        \* the directory of a key below its bucket, or NoDir
    Readers,    \* clients that get objects,
    Writers,    \* put them,
    Copiers,    \* and copy them
    Bodies,     \* what clients send
    Metas,      \* values of one metadata header
    NoDir, NoBucket, NoFile, NoMeta, NoClient,
    EmptyFile,  \* a metadata file that was truncated and not written
    TornFile,   \* a metadata file that does not parse
    MetaHash,   \* the hash of a metadata file
    Gone,       \* told: the key has no object
    Damaged,    \* told: a write of the key failed, or copied it onto itself
    MaxTime     \* bound on the clock

\* name: the bucket of a single-bucket backend.  onDisk: an os file system, so
\* that files survive a crash.  keepsMeta: so do the metadata files, which a
\* single-bucket backend may have in memory.
Setup == [kind : {"multi", "single"}, name : Buckets, onDisk : BOOLEAN, keepsMeta : BOOLEAN]

\* Each has one request at a time that takes more than a step.
Clients == Readers \cup Writers \cup Copiers

Keys == {KeyOrder[i] : i \in DOMAIN KeyOrder}

ASSUME FsAssumption ==
    /\ Setups \subseteq Setup
    /\ \A s \in Setups : s.kind = "multi" => s.keepsMeta
    /\ DOMAIN Dir = Keys
    /\ NoMeta \notin Metas
    /\ MaxTime \in Nat

VARIABLES
    setup,   \* the configuration
    files,   \* the object files of each bucket
    dirs,    \* the directories in each bucket
    metas,   \* the metadata files of each bucket
    clock,   \* in units longer than the file system's time resolution
    lock,    \* the client whose PutObject holds db.lock across actions
    call,    \* what each client's call has left to do, with its locals
    told     \* history: what the answered writes left under each key

vars == <<setup, files, dirs, metas, clock, lock, call, told>>

-----------------------------------------------------------------------------
(* Types.                                                                  *)

\* A body is written and read in two blocks.
Whole(body) == <<body, body>>

Contents == UNION {[1..n -> Bodies] : n \in 0..2}

Headers == Metas \cup {NoMeta}

File == [blocks : Contents, time : 0..MaxTime]

Metadata == [hash : Contents \cup {MetaHash}, size : 0..2, time : 0..MaxTime, meta : Headers]

\* In told, what is under a key whose last write ended.
Object == [body : Bodies, meta : Headers]

Told == Object \cup {Gone, Damaged}

\* What an io.Reader reads: a request's body, or an open file, which keeps its
\* blocks once it is unlinked.  holds is history: the body it then contains.
Source == [kind : {"body"}, blocks : Contents, holds : Bodies]
          \cup [kind : {"file"}, linked : BOOLEAN, bucket : Buckets, key : Keys,
                blocks : Contents, holds : Bodies \cup {Damaged}]

Idle == [step |-> "idle"]

\* A GetObject that may send other than its ETag names: it opened the file of a
\* failed write, or its file was truncated.
Adrift == [step |-> "adrift"]

Call == {Idle, Adrift}
    \cup [step : {"copy"}, srcBucket : Buckets, srcKey : Keys,
          bucket : Buckets, key : Keys, meta : Headers]
    \cup [step : {"merge", "lock"}, bucket : Buckets, key : Keys, source : Source,
          meta : Headers]
    \cup [step : {"write"}, bucket : Buckets, key : Keys, source : Source,
          meta : Headers, hashed : Contents]
    \cup [step : {"stream"}, source : Source, hash : Contents, got : Contents]

\* What stands for nothing, and for a file that is broken, is none of the values it
\* is told from.
ASSUME NilAssumption ==
    /\ NoFile \notin File \cup Metadata \cup {EmptyFile, TornFile}
    /\ EmptyFile \notin Metadata /\ TornFile \notin Metadata
    /\ NoBucket \notin [Keys -> File \cup {NoFile}]
    /\ NoClient \notin Clients
    /\ Gone \notin Bodies \cup Object
    /\ Damaged \notin Bodies \cup Object \cup {Gone}

FsTypeOK ==
    /\ setup \in Setups
    /\ files \in [Buckets -> [Keys -> File \cup {NoFile}] \cup {NoBucket}]
    /\ dirs \in [Buckets -> SUBSET {Dir[k] : k \in Keys}]
    /\ metas \in [Buckets -> [Keys -> Metadata \cup {NoFile, EmptyFile, TornFile}]]
    /\ clock \in 0..MaxTime
    /\ lock \in Clients \cup {NoClient}
    /\ call \in [Clients -> Call]
    /\ told \in [Buckets -> [Keys -> Told]]

-----------------------------------------------------------------------------
(* The metadata store, meta.go.                                            *)

Unlocked == lock = NoClient

\* The single-bucket backend compares names and does not look for its directory.
BucketExists(b) == IF setup.kind = "single" THEN b = setup.name ELSE files[b] # NoBucket

\* The object file is there.
HasFile(b, k) == files[b] # NoBucket /\ files[b][k] # NoFile

\* loadMeta: stored metadata is believed when it has the file's size and time.
Trusted(b, k) ==
    /\ metas[b][k] \notin {NoFile, EmptyFile, TornFile}
    /\ metas[b][k].size = Len(files[b][k].blocks)
    /\ metas[b][k].time = files[b][k].time

\* What loadMeta makes of metadata it does not believe: hashFile is given the
\* path of the metadata file.
Recomputed(b, k) ==
    [hash |-> IF metas[b][k] = EmptyFile THEN <<>> ELSE MetaHash,
     size |-> Len(files[b][k].blocks), time |-> files[b][k].time,
     meta |-> IF metas[b][k] = EmptyFile THEN NoMeta ELSE metas[b][k].meta]

\* ensureMeta of the single-bucket backend: without a metadata file the hash is
\* that of the object.
Computed(b, k) ==
    [hash |-> files[b][k].blocks, size |-> Len(files[b][k].blocks),
     time |-> files[b][k].time, meta |-> NoMeta]

\* loadMeta fails if the metadata does not parse, and in the multi-bucket backend
\* also if there is none.
LoadFails(b, k) ==
    metas[b][k] = TornFile \/ (metas[b][k] = NoFile /\ setup.kind = "multi")

LoadMeta(b, k) ==
    IF metas[b][k] = NoFile THEN Computed(b, k)
    ELSE IF Trusted(b, k) THEN metas[b][k] ELSE Recomputed(b, k)

\* The metadata file once loadMeta has saved what it recomputed.
AfterLoad(b, k) ==
    IF metas[b][k] \in {NoFile, TornFile} \/ Trusted(b, k) THEN metas[b][k] ELSE Recomputed(b, k)

Refreshed(b, k) ==
    IF HasFile(b, k) THEN [metas EXCEPT ![b][k] = AfterLoad(b, k)] ELSE metas

\* How HeadObject and GetObject end.
HeadResult(b, k) ==
    CASE ~BucketExists(b)             -> "NoSuchBucket"
      [] BucketExists(b) /\ ~HasFile(b, k) -> "NoSuchKey"
      [] OTHER -> IF LoadFails(b, k) THEN "error" ELSE "ok"

\* A header the new metadata lacks is carried over from the existing metadata.
Merge(new, existing) == IF new = NoMeta THEN existing ELSE new

-----------------------------------------------------------------------------
(* Open files.                                                             *)

Linked(c, b, k) ==
    /\ call[c].step \in {"merge", "lock", "write", "stream"}
    /\ call[c].source.kind = "file" /\ call[c].source.linked
    /\ call[c].source.bucket = b /\ call[c].source.key = k

\* What the file of a key contains, as far as the answers tell.
Holds(b, k) == IF told[b][k] \in Object THEN told[b][k].body ELSE Damaged

\* The calls once the files of some keys of a bucket are no longer those that
\* were opened: a reader keeps what it has open.
Unlink(calls, b, ks) ==
    [c \in Clients |->
        IF \E k \in ks : Linked(c, b, k)
        THEN LET k == calls[c].source.key IN
             [calls[c] EXCEPT !.source.linked = FALSE,
                              !.source.blocks = files[b][k].blocks,
                              !.source.holds = Holds(b, k)]
        ELSE calls[c]]

\* Create on disk truncates the file that readers have open.
Rewrite(calls, b, k) ==
    [c \in Clients |->
        IF Linked(c, b, k) /\ calls[c].step = "stream" THEN Adrift ELSE calls[c]]

Create(calls, b, k) == IF setup.onDisk THEN Rewrite(calls, b, k) ELSE Unlink(calls, b, {k})

OpenFile(b, k) ==
    [kind |-> "file", linked |-> TRUE, bucket |-> b, key |-> k,
     blocks |-> <<>>, holds |-> Damaged]

\* The blocks there are to read now.
Readable(source) ==
    IF source.kind = "file" /\ source.linked
    THEN files[source.bucket][source.key].blocks ELSE source.blocks

\* History: the body that source contains while its reader holds the lock.  It is
\* lost when a file is copied onto itself.
Contained(source, b, k) ==
    IF source.kind = "file" /\ source.linked
    THEN IF source.bucket = b /\ source.key = k THEN Damaged
         ELSE Holds(source.bucket, source.key)
    ELSE source.holds

-----------------------------------------------------------------------------
(* Buckets.                                                                *)

Empty == [k \in Keys |-> NoFile]

CreateBucket(b) ==
    /\ Unlocked /\ setup.kind = "multi"
    /\ files[b] = NoBucket
    /\ files' = [files EXCEPT ![b] = Empty]
    /\ told' = [told EXCEPT ![b] = [k \in Keys |-> Gone]]
    /\ UNCHANGED <<setup, dirs, metas, clock, lock, call>>

\* DeleteBucket counts the entries of the bucket's directory, which are files and
\* directories.
Deletable(b) == files[b] = Empty /\ dirs[b] = {}

RemoveBucket(b) ==
    /\ files' = [files EXCEPT ![b] = NoBucket]
    /\ dirs' = [dirs EXCEPT ![b] = {}]
    /\ told' = [told EXCEPT ![b] = [k \in Keys |-> Gone]]

DeleteBucket(b) ==
    /\ Unlocked /\ setup.kind = "multi"
    /\ files[b] # NoBucket /\ Deletable(b)
    /\ RemoveBucket(b)
    /\ metas' = [metas EXCEPT ![b] = Empty]
    /\ UNCHANGED <<setup, clock, lock, call>>

FilesOf(b) == {k \in Keys : HasFile(b, k)}

\* The single-bucket backend removes the metadata of the files it finds, then
\* its own root directory, which MemMapFs makes again by itself.
ForceDeleteBucket(b) ==
    /\ Unlocked /\ BucketExists(b) /\ files[b] # NoBucket
    /\ \/ /\ setup.kind = "multi" \/ setup.onDisk
          /\ RemoveBucket(b)
       \/ /\ setup.kind = "single" /\ ~setup.onDisk
          /\ files' = [files EXCEPT ![b] = Empty]
          /\ dirs' = [dirs EXCEPT ![b] = {}]
          /\ told' = [told EXCEPT ![b] = [k \in Keys |-> Gone]]
    /\ metas' = [metas EXCEPT ![b] = [k \in Keys |->
           IF setup.kind = "multi" \/ HasFile(b, k) THEN NoFile ELSE @[k]]]
    /\ call' = Unlink(call, b, FilesOf(b))
    /\ UNCHANGED <<setup, clock, lock>>

-----------------------------------------------------------------------------
(* Reads.                                                                  *)

\* A read may save metadata.
HeadObject(b, k) ==
    /\ Unlocked /\ BucketExists(b)
    /\ metas' = Refreshed(b, k)
    /\ UNCHANGED <<setup, files, dirs, clock, lock, call, told>>

Before(k, j) ==
    \E m, n \in DOMAIN KeyOrder : m < n /\ KeyOrder[m] = k /\ KeyOrder[n] = j

\* ListBucket loads the metadata of each file and stops at the first that fails.
ListBucket(b) ==
    LET failing == {k \in FilesOf(b) : LoadFails(b, k)} IN
    /\ Unlocked /\ BucketExists(b)
    /\ metas' = [metas EXCEPT ![b] = [k \in Keys |->
           IF k \in FilesOf(b) /\ \A j \in failing : Before(k, j)
           THEN AfterLoad(b, k) ELSE @[k]]]
    /\ UNCHANGED <<setup, files, dirs, clock, lock, call, told>>

\* Bug: do not take the lock.
GetObjectUnlocked(c, b, k) ==
    /\ call[c] = Idle
    /\ HeadResult(b, k) = "ok"
    /\ metas' = Refreshed(b, k)
    /\ call' = [call EXCEPT ![c] =
           IF told[b][k] = Damaged THEN Adrift
           ELSE [step |-> "stream", source |-> OpenFile(b, k),
                 hash |-> LoadMeta(b, k).hash, got |-> <<>>]]
    /\ UNCHANGED <<setup, files, dirs, clock, lock, told>>

\* The ETag goes out with the header, the body is read later.
GetObject(c, b, k) ==
    /\ Unlocked /\ call[c] = Idle
    /\ HeadResult(b, k) = "ok"
    /\ metas' = Refreshed(b, k)
    /\ call' = [call EXCEPT ![c] =
           IF told[b][k] = Damaged THEN Adrift
           ELSE [step |-> "stream", source |-> OpenFile(b, k),
                 hash |-> LoadMeta(b, k).hash, got |-> <<>>]]
    /\ UNCHANGED <<setup, files, dirs, clock, lock, told>>

\* A block, or the end of the file and of the call.
StreamBlock(c) ==
    LET s == call[c] IN
    /\ s.step \in {"stream", "adrift"}
    /\ call' = [call EXCEPT ![c] =
           IF s.step = "stream" /\ Len(s.got) < Len(Readable(s.source))
           THEN [s EXCEPT !.got = Append(@, Readable(s.source)[Len(@) + 1])]
           ELSE Idle]
    /\ UNCHANGED <<setup, files, dirs, metas, clock, lock, told>>

-----------------------------------------------------------------------------
(* Writes.                                                                 *)

\* The multi-bucket backend looks for the bucket when it has the lock.
Accepts(b) == setup.kind = "single" => b = setup.name

PutObject(c, b, k, body, meta) ==
    /\ call[c] = Idle
    /\ Accepts(b)
    /\ call' = [call EXCEPT ![c] =
           [step |-> "merge", bucket |-> b, key |-> k, meta |-> meta,
            source |-> [kind |-> "body", blocks |-> Whole(body), holds |-> body]]]
    /\ UNCHANGED <<setup, files, dirs, metas, clock, lock, told>>

\* The handler's HeadObject of the source.
CopyObject(c, sb, sk, b, k, meta) ==
    /\ Unlocked /\ call[c] = Idle
    /\ HeadResult(sb, sk) = "ok"
    /\ metas' = Refreshed(sb, sk)
    /\ call' = [call EXCEPT ![c] =
           [step |-> "copy", srcBucket |-> sb, srcKey |-> sk, bucket |-> b, key |-> k,
            meta |-> Merge(meta, LoadMeta(sb, sk).meta)]]
    /\ UNCHANGED <<setup, files, dirs, clock, lock, told>>

\* The helper's GetObject; its open file is the body of the PutObject.
CopyOpen(c) ==
    LET r == call[c] IN
    /\ Unlocked /\ r.step = "copy"
    /\ metas' = Refreshed(r.srcBucket, r.srcKey)
    /\ call' = [call EXCEPT ![c] =
           IF HeadResult(r.srcBucket, r.srcKey) = "ok" /\ Accepts(r.bucket)
           THEN [step |-> "merge", bucket |-> r.bucket, key |-> r.key, meta |-> r.meta,
                 source |-> OpenFile(r.srcBucket, r.srcKey)]
           ELSE Idle]
    /\ UNCHANGED <<setup, files, dirs, clock, lock, told>>

\* Bug: read the metadata without looking for the object.
MergeStrayMetadata(c) ==
    LET w == call[c]
        m == metas[w.bucket][w.key] IN
    /\ Unlocked /\ w.step = "merge"
    /\ call' = [call EXCEPT ![c] =
           [w EXCEPT !.step = "lock",
                     !.meta = IF m \in Metadata THEN Merge(@, m.meta) ELSE @]]
    /\ UNCHANGED <<setup, files, dirs, metas, clock, lock, told>>

\* An error of GetObject is no awserr.Error and is not returned.
MergeMetadata(c) ==
    LET w == call[c] IN
    /\ Unlocked /\ w.step = "merge"
    /\ metas' = Refreshed(w.bucket, w.key)
    /\ call' = [call EXCEPT ![c] =
           [w EXCEPT !.step = "lock",
                     !.meta = IF HeadResult(w.bucket, w.key) = "ok"
                              THEN Merge(@, LoadMeta(w.bucket, w.key).meta) ELSE @]]
    /\ UNCHANGED <<setup, files, dirs, clock, lock, told>>

\* Bug: open the file without truncating it.
CreateFileAppends(c) ==
    LET w == call[c] IN
    /\ Unlocked /\ w.step = "lock"
    /\ files[w.bucket] # NoBucket
    /\ lock' = c
    /\ files' = [files EXCEPT ![w.bucket][w.key] =
           IF @ = NoFile THEN [blocks |-> <<>>, time |-> clock] ELSE @]
    /\ call' = [Create(call, w.bucket, w.key) EXCEPT ![c] =
           [step |-> "write", bucket |-> w.bucket, key |-> w.key, meta |-> w.meta,
            source |-> @.source, hashed |-> <<>>]]
    /\ UNCHANGED <<setup, dirs, metas, clock, told>>

\* MkdirAll and Create.  Create fails for a key at the root of a single bucket
\* whose root directory was removed; MkdirAll makes it again for any other key.
CreateFile(c) ==
    LET w == call[c] IN
    /\ Unlocked /\ w.step = "lock"
    /\ BucketExists(w.bucket)
    /\ files[w.bucket] # NoBucket \/ Dir[w.key] # NoDir
    /\ lock' = c
    /\ files' = [files EXCEPT ![w.bucket] =
           [k \in Keys |-> IF k = w.key THEN [blocks |-> <<>>, time |-> clock]
                           ELSE IF @ = NoBucket THEN NoFile ELSE @[k]]]
    /\ dirs' = [dirs EXCEPT ![w.bucket] = @ \cup ({Dir[w.key]} \ {NoDir})]
    /\ call' = [Create(call, w.bucket, w.key) EXCEPT ![c] =
           [step |-> "write", bucket |-> w.bucket, key |-> w.key, meta |-> w.meta,
            source |-> @.source, hashed |-> <<>>]]
    /\ UNCHANGED <<setup, metas, clock, told>>

\* Bug: wait for the bucket.
CreateFileWaits(c) ==
    /\ Unlocked /\ call[c].step = "lock"
    /\ ~BucketExists(call[c].bucket)
    /\ UNCHANGED vars

\* The bucket, or the root of a single bucket, is gone.
CreateFileFails(c) ==
    LET w == call[c] IN
    /\ Unlocked /\ w.step = "lock"
    /\ ~BucketExists(w.bucket) \/ (files[w.bucket] = NoBucket /\ Dir[w.key] = NoDir)
    /\ call' = [call EXCEPT ![c] = Idle]
    /\ UNCHANGED <<setup, files, dirs, metas, clock, lock, told>>

\* io.Copy into the file and the hasher.
WriteBlock(c) ==
    LET w == call[c] IN
    /\ w.step = "write"
    /\ Len(w.hashed) < Len(Readable(w.source))
    /\ LET block == Readable(w.source)[Len(w.hashed) + 1] IN
       /\ files' = [files EXCEPT ![w.bucket][w.key] =
              [blocks |-> Append(@.blocks, block), time |-> clock]]
       /\ call' = [call EXCEPT ![c].hashed = Append(@, block)]
    /\ UNCHANGED <<setup, dirs, metas, clock, lock, told>>

\* The client's body breaks off, or at its end its digest is wrong: PutObject
\* returns with what it has written left in the file.
BodyFails(c) ==
    LET w == call[c] IN
    /\ w.step = "write" /\ w.source.kind = "body"
    /\ call' = [call EXCEPT ![c] = Idle]
    /\ lock' = NoClient
    /\ told' = [told EXCEPT ![w.bucket][w.key] = Damaged]
    /\ UNCHANGED <<setup, files, dirs, metas, clock>>

\* Bug: a metadata path that two keys share.
SaveMetaSharedPath(c) ==
    LET w == call[c] IN
    /\ w.step = "write"
    /\ Len(w.hashed) >= Len(Readable(w.source))
    /\ metas' = [metas EXCEPT ![w.bucket] = [k \in Keys |->
           [hash |-> w.hashed, size |-> Len(files[w.bucket][w.key].blocks),
            time |-> files[w.bucket][w.key].time, meta |-> w.meta]]]
    /\ told' = [told EXCEPT ![w.bucket][w.key] =
           LET body == Contained(w.source, w.bucket, w.key) IN
           IF body = Damaged THEN Damaged ELSE [body |-> body, meta |-> w.meta]]
    /\ call' = [call EXCEPT ![c] = Idle]
    /\ lock' = NoClient
    /\ UNCHANGED <<setup, files, dirs, clock>>

\* The end of the body: the file is closed, then its metadata is saved.
SaveMeta(c) ==
    LET w == call[c] IN
    /\ w.step = "write"
    /\ Len(w.hashed) >= Len(Readable(w.source))
    /\ metas' = [metas EXCEPT ![w.bucket][w.key] =
           [hash |-> w.hashed, size |-> Len(files[w.bucket][w.key].blocks),
            time |-> files[w.bucket][w.key].time, meta |-> w.meta]]
    /\ told' = [told EXCEPT ![w.bucket][w.key] =
           LET body == Contained(w.source, w.bucket, w.key) IN
           IF body = Damaged THEN Damaged ELSE [body |-> body, meta |-> w.meta]]
    /\ call' = [call EXCEPT ![c] = Idle]
    /\ lock' = NoClient
    /\ UNCHANGED <<setup, files, dirs, clock>>

\* deleteObjectLocked for each key of a DeleteObject or a DeleteMulti.
DeleteMulti(b, ks) ==
    /\ Unlocked /\ BucketExists(b)
    /\ files' = IF files[b] = NoBucket THEN files
                ELSE [files EXCEPT ![b] = [k \in Keys |-> IF k \in ks THEN NoFile ELSE @[k]]]
    /\ metas' = [metas EXCEPT ![b] = [k \in Keys |-> IF k \in ks THEN NoFile ELSE @[k]]]
    /\ told' = [told EXCEPT ![b] = [k \in Keys |-> IF k \in ks THEN Gone ELSE @[k]]]
    /\ call' = Unlink(call, b, ks)
    /\ UNCHANGED <<setup, dirs, clock, lock>>

-----------------------------------------------------------------------------
(* Time, and crashes of the process.                                       *)

Tick ==
    /\ clock < MaxTime
    /\ clock' = clock + 1
    /\ UNCHANGED <<setup, files, dirs, metas, lock, call, told>>

\* Everything that is in memory is lost; ms are the metadata files left, ts what
\* is under the keys.
Restart(ms, ts) ==
    /\ setup.onDisk
    /\ metas' = IF setup.keepsMeta THEN ms ELSE [b \in Buckets |-> Empty]
    /\ told' = [b \in Buckets |-> [k \in Keys |->
           IF ts[b][k] \in Object /\ ~setup.keepsMeta
           THEN [ts[b][k] EXCEPT !.meta = NoMeta] ELSE ts[b][k]]]
    /\ lock' = NoClient
    /\ call' = [c \in Clients |-> Idle]
    /\ UNCHANGED <<setup, clock>>

\* Nobody holds the lock.
Crash ==
    /\ Unlocked
    /\ Restart(metas, told)
    /\ UNCHANGED <<files, dirs>>

\* In a PutObject, which may be about to save its metadata.
CrashInPut(c) ==
    LET w == call[c] IN
    /\ w.step = "write"
    /\ \E left \in {metas[w.bucket][w.key]} \cup
                   (IF Len(w.hashed) < Len(Readable(w.source)) THEN {} ELSE {EmptyFile, TornFile}) :
          Restart([metas EXCEPT ![w.bucket][w.key] = left],
                  [told EXCEPT ![w.bucket][w.key] = Damaged])
    /\ UNCHANGED <<files, dirs>>

\* In deleteObjectLocked, or in the ForceDeleteBucket of the multi-bucket backend:
\* files are gone and their metadata is not.
CrashInDelete(b, ks) ==
    /\ Unlocked /\ BucketExists(b)
    /\ ks # {} /\ ks \subseteq FilesOf(b)
    /\ setup.kind = "single" => \E k \in Keys : ks = {k}
    /\ files' = [files EXCEPT ![b] = [k \in Keys |-> IF k \in ks THEN NoFile ELSE @[k]]]
    /\ Restart(metas, [told EXCEPT ![b] = [k \in Keys |-> IF k \in ks THEN Gone ELSE @[k]]])
    /\ UNCHANGED dirs

\* In DeleteBucket or ForceDeleteBucket: the directory is gone and the bucket's
\* metadata is not.
CrashInDeleteBucket(b) ==
    /\ Unlocked /\ setup.kind = "multi" /\ files[b] # NoBucket
    /\ files' = [files EXCEPT ![b] = NoBucket]
    /\ dirs' = [dirs EXCEPT ![b] = {}]
    /\ Restart(metas, [told EXCEPT ![b] = [k \in Keys |-> Gone]])

-----------------------------------------------------------------------------
(* The specification.                                                      *)

\* A single-bucket backend is given its directory, which may have files that it
\* did not write.
Init ==
    /\ setup \in Setups
    /\ \E found \in [Keys -> Bodies \cup {Gone}] :
          /\ setup.kind = "multi" => found = [k \in Keys |-> Gone]
          /\ files = [b \in Buckets |->
                IF setup.kind = "single" /\ b = setup.name
                THEN [k \in Keys |-> IF found[k] = Gone THEN NoFile
                                     ELSE [blocks |-> Whole(found[k]), time |-> 0]]
                ELSE NoBucket]
          /\ dirs = [b \in Buckets |-> IF files[b] = NoBucket THEN {}
                ELSE {Dir[k] : k \in {j \in Keys : found[j] # Gone}} \ {NoDir}]
          /\ told = [b \in Buckets |-> [k \in Keys |->
                IF HasFile(b, k) THEN [body |-> found[k], meta |-> NoMeta] ELSE Gone]]
    /\ metas = [b \in Buckets |-> Empty]
    /\ clock = 0
    /\ lock = NoClient
    /\ call = [c \in Clients |-> Idle]

\* Requests whose answer depends on nothing that changes while they are served.
Request(b) ==
    \/ CreateBucket(b) \/ DeleteBucket(b) \/ ForceDeleteBucket(b) \/ ListBucket(b)
    \/ \E k \in Keys : HeadObject(b, k)
    \/ \E ks \in SUBSET Keys : DeleteMulti(b, ks)

Start(c) ==
    \E b \in Buckets, k \in Keys :
        \/ c \in Readers /\ GetObject(c, b, k)
        \/ \E body \in Bodies, meta \in Headers :
              c \in Writers /\ PutObject(c, b, k, body, meta)
        \/ \E sb \in Buckets, sk \in Keys, meta \in Headers :
              c \in Copiers /\ CopyObject(c, sb, sk, b, k, meta)

\* Steps that need the lock.
Acquire(c) == CopyOpen(c) \/ MergeMetadata(c) \/ CreateFile(c) \/ CreateFileFails(c)

Work(c) == StreamBlock(c) \/ WriteBlock(c) \/ SaveMeta(c)

Crashes ==
    \/ Crash
    \/ \E c \in Clients : CrashInPut(c)
    \/ \E b \in Buckets : CrashInDeleteBucket(b) \/ \E ks \in SUBSET Keys : CrashInDelete(b, ks)

Next ==
    \/ \E b \in Buckets : Request(b)
    \/ \E c \in Clients : Start(c) \/ Acquire(c) \/ Work(c) \/ BodyFails(c)
    \/ Tick
    \/ Crashes

\* A sync.Mutex starves nobody; a client sends its body, and takes what it is
\* sent, or its connection breaks.
Spec ==
    /\ Init /\ [][Next]_vars
    /\ \A c \in Clients : SF_vars(Acquire(c)) /\ WF_vars(Work(c))

-----------------------------------------------------------------------------
(* Properties.                                                             *)

Writing(b, k) ==
    \E c \in Clients : call[c].step = "write" /\ call[c].bucket = b /\ call[c].key = k

\* Whatever else is written, copied, deleted, refused or interrupted by a crash,
\* a key whose last write was answered is served with the body and the headers of
\* that write, under the hash of that body, and a deleted key is not found.
AnsweredWritesAreServed ==
    \A b \in Buckets, k \in Keys :
        ~Writing(b, k) =>
            /\ told[b][k] \in Object =>
                  /\ HeadResult(b, k) = "ok"
                  /\ files[b][k].blocks = Whole(told[b][k].body)
                  /\ LoadMeta(b, k).hash = Whole(told[b][k].body)
                  /\ LoadMeta(b, k).meta = told[b][k].meta
            /\ told[b][k] = Gone => ~HasFile(b, k)

\* A GetObject that opened the file of an answered write sends what its ETag
\* names, from the first block to the last, although it reads after the unlock:
\* unless, on disk, a PutObject truncated the file meanwhile.
StreamsWhatItNamed ==
    [][\A c \in Clients : call[c].step = "stream" =>
          /\ call'[c].step = "stream" =>
                \E rest \in Contents : call'[c].got \o rest = call[c].hash
          /\ (StreamBlock(c) /\ call'[c] = Idle) => call[c].got = call[c].hash]_vars

\* MergeMetadata carries over the headers of the object that is there, and none of
\* an object that was deleted, although a crash may leave metadata without a file.
InheritsFromTheLiving ==
    [][\A c \in Clients :
          (call[c].step = "merge" /\ call'[c].step = "lock") =>
              LET t == told[call[c].bucket][call[c].key] IN
              t # Damaged =>
                  call'[c].meta = Merge(call[c].meta, IF t = Gone THEN NoMeta ELSE t.meta)]_vars

\* Every call ends, although a PutObject holds the lock while it reads its body
\* from the network and calls GetObject, which takes the lock, before.
EveryCallEnds == \A c \in Clients : call[c] # Idle ~> call[c] = Idle

\* The tests of src/backend/s3afero say that the hash of an object is the MD5 of
\* its content: also when a failed write or somebody else changed the file, as
\* long as its size shows that.
HashIsOfTheFile ==
    \A b \in Buckets, k \in Keys :
        (HasFile(b, k) /\ ~Writing(b, k) /\ metas[b][k] \in Metadata /\ ~Trusted(b, k)) =>
            LoadMeta(b, k).hash = files[b][k].blocks

\* src/backend.go says "DeleteBucket deletes a bucket if and only if it is empty":
\* a bucket without objects can be deleted.
EmptyBucketsAreDeletable ==
    setup.kind = "multi" => \A b \in Buckets : files[b] = Empty => Deletable(b)

=============================================================================
