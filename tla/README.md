# A TLA+ verification of gofakes3

gofakes3 is an S3 server for tests: HTTP handlers in front of a multipart uploader kept in
memory and one of four storage backends. This directory holds TLA+ modules that model the
parts of it that keep state or move data, TLC configurations that check them on small
instances, and TLAPS proofs of what matters most for every instance.

`PROJECT.json` lists the runs, the theorems, the lines of code each definition stands for,
the hazards the properties are aimed at, and, for every property, a plausible bug that it
detects. Run `tlc -config MCS3MemStore.cfg MCS3MemStore` and the like from here, and
`tlapm S3MemProofs.tla` for the proofs.

## Inventory

| Component | State | Operations | What is hard | What makes it correct | Modules |
|---|---|---|---|---|---|
| **s3mem** `src/backend/s3mem` | buckets with a versioning status; per key a current version and a skip list of archived ones; one version counter; one `RWMutex` | create, drop, force-drop a bucket, set versioning, put, copy, get, head, delete, delete by version, multi-delete, list | put is two critical sections (merge, commit), copy is four; long legal sequences of status changes and deletions; a key may have archived versions but no current one | IDs name one version for ever; only the versions a request asks for disappear; a read ends with an object or an error | `S3Mem`, `S3MemStore`, `S3MemProofs` |
| **uploader** `src/uploader.go` | uploads of each bucket in two indexes (by ID, by key), parts of each upload, one ID counter, one mutex | initiate, upload part, list parts, list uploads, abort, complete | a completion holds the mutex through a backend write that may fail; buckets vanish under the uploader; pages of a listing that changes | an upload creates at most one object, exactly of the parts its client named; the indexes agree; a listing misses and repeats nothing | `Uploader`, `UploadListing`, `UploaderProofs` |
| **handlers, router** `src/gofakes3.go`, `src/routing.go`, `src/option.go` | none of their own; they compose several backend calls into one request | one handler per S3 operation | the bucket test, its automatic creation and the operation are separate backend calls; a forced deletion falls through to a plain one | a legal request never fails because of another client's legal request | `Frontend`, `FrontendProofs` |
| **listings, prefixes** `src/prefix.go`, `ListBucket` | the client's marker | match a key, cut a page, walk a directory | limits inside a common prefix, markers that no longer exist, four implementations of one rule | pages together list each key once; all backends agree | `BucketListing`, `BucketListingProofs` |
| **s3afero** `src/backend/s3afero` | an object file and a metadata file per key, a mutex | as s3mem without versions | two files written in two steps, truncation before the new body is read, streaming after the unlock, crashes | content, hash and metadata of a key belong together | `S3Afero`, `S3AferoProofs` |
| **s3bolt** `src/backend/s3bolt` | a bolt bucket per bucket and one of metadata | as s3mem without versions | legacy databases without the metadata bucket; writes before the tests that undo them | one transaction per call, nothing half done | `S3Bolt`, `S3BoltProofs` |
| **streams** `src/chunk.go`, `src/hash.go`, `src/range.go`, `src/util.go` | position in the stream | read | short reads, the end of a body that comes with its last bytes, 64-bit limits | what is stored is what was sent, what is served is what was asked for | `Streams`, `Ranges`, `StreamsProofs`, `RecursionProofs` |
| errors, messages, CORS, log, time | none | | formatting only | | |
| command line, build, `s3assumer` | none | | start-up and a test client | | |

The components meet at the `Backend` interface (`src/backend.go`): every handler and the
uploader's completion call it, possibly at the same time, and each backend takes its own lock
for each call. `CopyObject` and `MergeMetadata` are helpers that a backend calls and that
call back into the same backend, so a single call of the interface may be several critical
sections. What the interface promises is `ObjectStore`: `S3MemStore` and `S3Bolt` implement
it, `Frontend` is written against it, and `S3Afero`, whose writes are not atomic, is held
against its own history instead.

## Plan

Done, in this order: `S3Mem` with `S3MemProofs`; `Uploader`; `UploadListing`, which composes
the uploader with a client that pages through it; `ObjectStore`, the promise of the interface,
and `S3MemStore`, which shows that `S3Mem` keeps it; `Frontend`, the handlers over that
promise; `S3Afero`, with crashes, broken bodies and open files; `S3Bolt` with its refinement of
`ObjectStore` and `S3BoltProofs`; `Ranges` and `Streams`; `BucketListing`; `UploaderProofs`; the
refinement in `S3MemProofs`, `FrontendProofs`, `S3AferoProofs` and `StreamsProofs`; the pages of
`UploadListing`, in `UploaderProofs`; `BucketListingProofs`. `RecursionProofs` has what the
proofs about recursive functions share.

Left: `ListBucketVersions` of s3mem and `ListParts` of the uploader, which only read; and the
order of a walk through the directories, which the model leaves out.

## The modules

### S3Mem: the in-memory backend

`objects[b][k]` is the `bucketObject` of a key: `data`, the current version or `NoData` for
nil, and `versions`, the archived ones as a set (the skip list orders them by ID, and their
IDs differ). `versioning[b]` is the bucket's status, `"Absent"` when the bucket does not exist.
`lastVersion` is the counter of `versionGenerator`; a version ID is its position in that
counter, because the code encodes the counter as the high-order, sortable part of the ID.

One critical section of `db.lock` is one action. `PutObject` is `PutObject` (the body is read
before any lock), `MergeMetadata` (a `GetObject`, under the read lock) and `PutCommit`;
`CopyObject` puts the handler's `HeadObject` and the helper's `GetObject` before them.
`call[c]` holds the locals of client `c` between its sections. A batch of deletions holds the
write lock for all its entries and is one action for each, under `lock`. `acked` is a history
variable, what each version ID that a client was given was answered for. It only grows: neither
a deletion nor the end of a bucket makes a client forget an ID.

A panic ends only its request (net/http recovers it, the deferred unlock runs). One metadata
header stands for the map of headers: the merge treats each header on its own. Body contents
only need to differ.

### Uploader: multipart uploads

`uploads` and `objectIndex` are the two indexes of `bucketUploads`; `parts` of an upload is
the slice of parts with its nil entries, whose index is the part number. Everything happens
under `u.mu`, so each operation is one action, except a completion: it keeps the mutex during
`storage.PutObject`, and while it waits other clients put, delete, drop and create in the
backend. `completing` is that completion. The history `completed` records what was stored. The
ETag of a part is the MD5 of its body, so a body stands for its ETag. Negative part numbers of
a complete request, which index the slice out of range, are not among the inputs.

### UploadListing: pages of uploads

Adds a client that lists one bucket's uploads, page by page, with any limit for each page. The
prefix and delimiter are given as what `Prefix.Match` says of each key. The skip list is
external (`github.com/ryszard/goskiplist`); a `Seek` past its last key leaves the iterator
where it was, before the first key, and `SeekFails` models what follows from that.

### ObjectStore and S3MemStore: what a backend promises

`ObjectStore` is the abstract specification of a backend for clients that name no version: a
map from keys to objects. A write is two steps, because `MergeMetadata` reads the object it
replaces before the backend stores the new one, and nothing is promised about what happens in
between; a copy reads its source twice before that. `Commit` replaces an object as a whole,
and `Fail` says when a write may be lost: when its source or its bucket is gone, or before it
has merged when there is nothing to merge with (the in-memory backend panics there on a key
that has only archived versions).

`S3MemStore` maps `S3Mem` to it: the store is what `GetObject` finds, the write under way is
that of `call[c]` without its history, and batches, versions, delete markers and statuses are
hidden. So a batch is a sequence of single deletions, setting the status is a stutter, and so
is the deletion of an archived version.

### S3Bolt: the bolt backend

`data` is the bolt buckets, `metaBucket` and `dates` the further bucket `_meta` with the
creation date of each. bolt is external: one writing transaction at a time, undone when its
function returns an error, and readers that see the last committed one. So a transaction is one
action, and one that fails is none. A put is two transactions (`MergeMetadata`, `Put`), a copy
four. The initial states are any database, legacy ones included, which is also what a restart
after a crash finds. `ImplementsStore` maps `data` to the store and `call` to the writes under
way, and needs nothing else. That `_meta` itself can be addressed as an S3 bucket is outside of
the model: its name is not one of `Buckets`.

### S3Afero: the file-system backends

A key is an object file (`files`) and a metadata file (`metas`); `dirs` are the directories
that keys with a slash leave in a bucket. `setup` is what the server was started with: multi-
or single-bucket, on disk or in afero's `MemMapFs`, metadata kept with the files or in memory.
Both backends are one module because they share `metaStore` and differ in few rules, each a
conjunct on `setup.kind`.

`db.lock` makes each operation one action, with two exceptions that the module is about.
`PutObject` holds it while it reads its body: `CreateFile` truncates the file, `WriteBlock`
adds a block, and either `SaveMeta` or `BodyFails` ends it, the latter leaving what was written.
`GetObject` returns an open file that is read after the unlock, block by block (`StreamBlock`),
by the HTTP handler or, for a copy, by the `PutObject` whose body it is. On disk a file that is
created again is truncated under its readers, in `MemMapFs` readers keep the old one; a file
that is removed stays with who has it open. `Crash`, `CrashInPut`, `CrashInDelete` and
`CrashInDeleteBucket` stop the process between any two writes to files; what was written is
not lost (a crash of the machine, which could lose or reorder it, is not modelled, as the code
never calls `fsync`).

`loadMeta` believes stored metadata that has the size and the time of the object (`Trusted`)
and else recomputes it from the path of the metadata file; reads therefore write, and
`Refreshed` is in each of them. `clock` counts in units longer than the file system's
resolution, which `modres.go` measures at start-up. A hash is the content it was computed from.
The history `told` is what clients may believe: the object that the last answered write left,
`Gone`, or `Damaged` when a write of the key failed.

A key that is at the same time the directory of another key, and the file
`.modtime-resolution`, are left out.

### BucketListing: keys, prefixes and pages

`Match` is `Prefix.Match`, `FilePrefix` is `Prefix.FilePrefix`, and `MemListing`, `BoltListing`,
`DirectoryListing` and `TreeListing` are the `ListBucket`s. Keys are sequences of
characters here, because where the delimiters are is all that matters about them; `KeyOrder` is
the keys in the order of UTF-8, from which every listing takes what it has (`InOrder`). A client
walks the pages of the handler `listBucket` while others put and delete; the marker is all the
server remembers, so a page is an action. `dirs` are the directories that the walk of a disk
backend finds, which outlive their keys. A key of the in-memory backend may have lost its
current version and kept archived ones (`"archived"`, as `s3mem_panic` shows): a page that comes
to it panics, and the client's listing is refused.

The reference is `Named`, S3's own rule. `Regular` leaves out where the code is known to differ:
delimiters at the left of a key or prefix are trimmed, and a key that equals its own common
prefix is listed as content. `NamesCommonPrefixes` leaves out the prefix that ends inside a
directory's name, for which `multi.go` makes up a common prefix, and the walk through all
directories, which names no common prefix: it lists what is under one as contents. `OfPath`
leaves out directories whose files are gone, which are listed as common prefixes, and a prefix
with an empty name (`a//a`) on disk: the path of its directory has no empty names, so what is
listed is that of `a/a`. What else the definitions show
of the code: a missing prefix directory is an error, `NoSuchBucket` in `multi.go`; with a
delimiter other than the slash the disk backends list everything as contents; `IsTruncated`
counts keys that would not be listed; a page that ends in a common prefix repeats it on the
next. A disk walk is not in the order of the keys; the model lists such a page in their order
and claims nothing of it.

### Ranges and Streams: bodies in and out

`Ranges` is `parseRangeHeader` and `RangeOf` (the code's `Range`) in int64 arithmetic (`Wrap`), with `Named`, the
positions that a header names. A suffix longer than the object is refused, as
`src/range_test.go` expects.

`Streams` is one body: the handler's tests on the headers (`Handle`), the stack of
`chunkedReader` and `hashingReader` over a network that returns any number of the bytes asked
for, its end together with the last of them or after them, or an error (`PlainRead`,
`ReadInChunk`, `ReadRestOfChunk`, `ReadChunkHeader`), and the loop that drains it: `ReadAll` of
`src/util.go` (`Fill`, `Drain`), `io.Copy` of the disk backends (`Copy`), `io.ReadAll` of an
upload's part (`Drain`). Then the object is read back under any `Range` header. A byte is its
position, equal digests are equal contents, and the 82 bytes of a chunk's signature are one.
What the definitions show of the code: `chunkedReader` reckons what is left of a chunk before
it knows what it got, so what is claimed of signed bodies is claimed of those whose content fits
what the store asks for (`ChunksFit`): the declared length in memory and bolt, the buffer of
`io.Copy` on disk. A longer one loses the reader's place after a short read, so that an honest
client is refused (`streams_disk`) and a body that ends early is accepted without the last bytes
that did arrive; a negative decoded length makes `ReadAll` panic; parts are never
decoded; the disk backends do not look at the declared length; `bytes=0-` with the last int64
is refused and `bytes=1-` with it panics in the memory and bolt backends (`EndsAtMaxInt`).

### Frontend: the handlers

`Frontend` EXTENDS `ObjectStore`: the handlers call its actions, so what is shown about them
holds for each backend that implements it. A handler is a sequence of backend calls with other
requests in between; `stage[c]` is the call that comes next: `"versioned"` (the test for a
versioned backend), `"ensure"` and `"create"` (`ensureBucketExists`; a copy does both twice,
since `createObject` and `copyObject` both look), `"call"` (the operation), `"retry"` (a
listing without its page), `"delete"` (the plain deletion after a forced one), `"backend"` (a
write in the backend). `past[c]`, a history variable, collects the stores there have been
since the request came in; an answer is judged against them.

A HEAD is handled like a GET, also when it names a version, which the code ignores; location
and multipart requests that only test the bucket are `headBucket`; header and digest checks
come after the bucket test and refuse a `BadBody`. A read may have an `If-None-Match` (`etag`)
and an `If-Modified-Since` (`since`): `AnswerObject` compares the first with the object, and since
the store keeps no dates, the second may answer NotModified or not. A panic in the backend closes
the connection: of a read or a copy whose key has archived versions only, and of a listing that
comes to such a key. `ListBuckets`, host-name rewriting and the test of the clock skew are left out.

## The runs

| Run | Configuration | Instance | Shows |
|---|---|---|---|
| `s3mem_buckets` | `MCS3MemBuckets.cfg` | 2 buckets, 2 keys, 2 clients, 2 versions | IDs across buckets and keys, bucket re-creation under puts and copies in progress |
| `s3mem_key` | `MCS3MemStore.cfg` | 1 key, 2 clients, 3 versions, batches of 2, 2 metadata values | every order of status changes, puts and deletions of 3 versions; merges that race; and the in-memory backend implements `ObjectStore` |
| `s3mem_panic` | `MCS3MemPanic.cfg` | 1 key, 1 client | violation: a read reaches a nil current version |
| `uploader` | `MCUploader.cfg` | 2 uploads, 2 keys, part numbers 0 to 2, 2 contents | completions against everything else that can happen meanwhile |
| `upload_listing` | `MCUploadListing.cfg` | 3 uploads, 4 keys, 4 pages of 1 or 2 | pages are ordered and complete while the marker's upload lives |
| `frontend` | `MCFrontend.cfg` | 1 bucket, 1 key, 2 clients, 2 bodies, 3 kinds of servers | answers describe what was so during the request, refused requests change no object, every request is answered |
| `s3afero_key` | `MCS3AferoKey.cfg` | 1 key in a directory, a writer and copier and a writer and reader, 2 bodies of 2 blocks, 1 metadata value, 4 setups | answered writes survive everything else, crashes included; readers send what they announced; merges inherit from the living; every call ends |
| `s3afero_pair` | `MCS3AferoPair.cfg` | 2 keys, one in a directory, 1 body, 2 times, 2 setups | the same of two keys, with listings and batches that stop half-way and a clock |
| `s3bolt` | `MCS3Bolt.cfg` | 1 bucket, 2 keys, 2 clients, 2 bodies, any initial database | bolt implements `ObjectStore`; no metadata without a bucket |
| `streams` | `MCStreams.cfg` | bodies of at most 3 bytes in at most 2 chunks, buffers of 2, integers up to 5, any `Range` header | what is stored is what was sent, honest clients are served, ranges are what they name |
| `streams_disk` | `MCStreamsDisk.cfg` | the same | violation: a chunk longer than the buffer of `io.Copy` is refused after a short read |
| `bucket_listing` | `MCBucketListing.cfg` | keys `a-b`, `a/`, `a/a`, `a/b`, 4 prefixes, no delimiter or `/` or `-`, 4 backends, pages of 1 or 2 or no limit | the backends agree with S3's rule; pages skip and repeat no key, and come to an end |

Bounds. `MaxVersion`, `MaxUploads` and `MaxPages` stop the counters. Three versions of a key
are a current one, an archived and a deleted one in every order, and enough for a batch of two
deletions to meet a racing put. Two versions suffice across buckets because the properties
there compare two versions. Two uploads are what the index of a key needs to have an order, and
one ended upload next to a live one what a reused ID needs. Three uploads with pages of one give
a listing a first, a middle and a last page, and two of them share a key.

`s3afero_key` has one key, since the files of different keys meet only in listings, batches and
directories, which `s3afero_pair` has; a body of two blocks is the shortest that can be
half-written and half-read. `MaxTime` of 0 makes all times equal, the worst case for metadata
that is believed by size and time; `s3afero_pair` has both equal and different times. Three
bytes in two chunks are a chunk longer and one shorter than the buffers, and a `MaxInt` of 5
puts the ends of int64 within reach of every length. The four keys are one that ends in a
delimiter, two that share a directory, and one whose name begins like that directory's and is
cut by the other delimiter; the prefixes are none, one inside a name, a directory and a whole
key. In memory each key may also be one that has archived versions only. Symmetry is used only for
sets whose members the definitions compare for equality alone; listings, which order their
keys, use none.

`frontend` has no counter to bound: its clients send requests for ever. Two clients show every
race between two requests; the requests of a handler touch one bucket and one key, except for
a copy, whose source and target coincide here and differ in no rule of the handler.

Deadlock is checked in all runs except the two of `Streams`, where an upload that was refused,
or served, is at its end.

Fairness is assumed in three modules. In `Frontend` each handler that has a call to make makes
it, since net/http runs each request in a goroutine of its own and backend calls return. In
`S3Afero` a call that waits for the mutex gets it at some time (strong fairness, since a
`sync.Mutex` that a waiter has failed to get for a millisecond is handed to it), and bodies are
read to their end or break (weak fairness, since clients send or their connection is closed).
In `BucketListing` the client goes on asking for pages. Clients need not send anything else.
The liveness properties are `EveryRequestAnswered`, `EveryCallEnds` and `WalkEnds`.

Six more configurations give counterexamples that are not among the runs; each is a
`finding` of `PROJECT.json`, which quotes the document and the code.

| Command | What the code does |
|---|---|
| `tlc -config MCS3MemSuspended.cfg MCS3Mem` | `AckedVersionsRetrievable`: a returned version is lost on a suspended bucket |
| `tlc -config MCUploaderOrder.cfg MCUploader` | `CompletedInPartOrder`: parts are stored out of order |
| `tlc -config MCUploadListingOrder.cfg MCUploadListing` | `OrderedAcrossPages`: a listing starts over when the marker's upload ended |
| `tlc -config MCFrontendAuto.cfg MCFrontend` | `AutoBucketServes`: two requests create a missing bucket at once |
| `tlc -config MCS3AferoRehash.cfg MCS3Afero` | `HashIsOfTheFile`: the recomputed hash is that of the metadata file |
| `tlc -config MCS3AferoEmpty.cfg MCS3Afero` | `EmptyBucketsAreDeletable`: directories of deleted keys keep a bucket from being deleted |

## What is proved

Each theorem holds for every value of the constants that the named assumptions admit; these
say that what stands for nil is not a value of the type it is missing from, and that bounds are
naturals.

`S3MemProofs`, from `NilAssumption` and `BoundAssumption`: every property that the runs
`s3mem_buckets` and `s3mem_key` check of `S3Mem`, by three inductive invariants. `IdInv` gives
`IdsNameOneVersion` and `CurrentNewest`.
Uniqueness of IDs is not inductive by itself, because a put could issue an ID that is already
stored; `IdsIssued` (each stored ID is between 1 and `lastVersion`) excludes that, and
`CurrentIsNewest` keeps an archived version apart from the current one it is archived next to.
Instead of a case for each of the actions under each conjunct, `NextEffect` shows once that
every step either only removes versions and keeps the order (`Shrinks`) or stores one version
with the next ID at one key (`Stores`); each conjunct then has two cases.
`KeyInv` gives `NoEmptyObjects` and `NeverVersionedPlain`: it adds `AbsentIsEmpty`, since a bucket
that is created starts from what an absent one holds. `ClientInv` gives `AckedNamesOne` and
`MergeUnraced`: what clients were given, and what a put saw when it merged, are versions whose
IDs were issued (`AckedIssued`, `SeenIssued`), so a new ID is none of them, and two versions
with the ID that was seen are the same. As `acked` only grows (`AckedIsKept`),
`AckedNamesOneVersion` is about deleted versions and dropped buckets too: whatever comes to be
stored under an ID that was ever answered is what it was answered for. `FreshVersions` and `LeaveOnlyWhenAsked` are about
single steps and go over the actions.

`MemImplementsStore` is proved from these assumptions and `StoreAssumption`, that the
nil values of the store are no values of it. Over `KeyInv`, each critical section is the store's
action of the same purpose, or a stutter: a commit is `Commit` whatever the status of the bucket,
a deletion removes what is shown and uncovers nothing that was archived, and setting the status,
deleting an archived version, and all of a batch but its entries are stutters.

`S3BoltProofs`: `BoltTypeCorrect`, `MetadataHasBucket`, `BoltImplementsStore` and
`BucketsAreDated`, from `BoltAssumption`. `Inv` is the type invariant and `NoStrayMetadata`,
which is inductive because every transaction that writes metadata also makes `_meta`, and every
one that removes a bucket removes its metadata. `NextRefines` has a case for each action: a
transaction that creates, drops, deletes, merges or reads is the action of the store of the same
purpose, and `Put` is `Commit`, or `Fail` if its bucket is gone. `BucketsAreDated` needs `Inv`
for the bucket that is created: without it an earlier bucket's date could still be there.

`UploaderProofs`: every property that the run `uploader` checks, from `BoundAssumption` and
`NilAssumption`, for any number of uploads, parts and named parts. `UploaderInvariant` proves
`IInv`, which adds three conjuncts to the invariants of the run. `IndexMatchesUploads` says that
the IDs of an entry rise; it needs `IssuedOnce` (an ID in use was issued, to one bucket), so
that a new ID is larger than all of its key. `CompletedOnce` needs `CompletedIsEnded` (a stored
completion's upload is gone), so that the upload under way, which `CompletingIsHeld` says still
exists, is none of them. `CompletedAsNamed` needs `CompletingAsNamed`, the same before the
commit. `TakenOut` and `SetPartKeeps` are the lemmas about the slices; `AddIndex` and
`RemoveIndex` carry the two indexes over a step, and `NextIsUploadStep` says what any step may
do to one upload, from which the three action properties follow.

`FrontendProofs`: every safety property that the run `frontend` checks, and
`HandlersUseTheStore`, that the handlers' steps are steps of `ObjectStore`, from
`FrontendAssumption`. `FrontInv` says, client by client, what the stage of a handler has behind
it: which operations get there, that a bucket to be created was missing at a moment of `past`,
and that a write under way carries the request's body, or one the source of the copy had.
A step of one client changes another's part of it only by adding a store to its `past`, so the
proof has one lemma for the client that steps and one for the others (`ServeKeepsOwn`,
`ServeKeepsOthers`).

`S3AferoProofs`: every safety property of the runs `s3afero_key` and `s3afero_pair`, for any
keys, directories, clients, bodies, times and setups, from `FsAssumption` and `NilAssumption`.
`AnsweredWritesAreServed` is not inductive by itself, since it says nothing of a key while it
is being written. `FsInv` adds `OneWriter`
(the mutex is held by who has created a file, and by nobody else), `OneDirectory` (a
single-bucket backend has no other bucket), and, for each client, that the file it writes is
what it has read of its source (`WriteOK`), that the source is what its history says even when
its key was deleted meanwhile (`SourceOK`), and that the file it sends, while it is not
truncated under it, is what it announced (`StreamOK`). The body has two blocks, as in the model.

`StreamsProofs`: `AcceptedWhole`, `HonestAccepted` and `RangesServed`, the properties of the run
`streams`, from `StreamsAssumption` and `RangesAssumption`, for every size of bodies, chunks,
buffers and reads. The first two are about plain bodies and those signed ones that `ChunksFit`
admits, with the exclusions named under [Ranges and Streams](#ranges-and-streams-bodies-in-and-out);
of the declared length nothing is claimed on disk, where the code does not look at it. The three recursive functions they rest on (`Total`, `Data`, `Chunks`) are
reasoned about with `RecursionProofs`: `Induction` over the naturals, stated for sets and proved
from their well-foundedness because the library's theorem for predicates cannot be
instantiated, and `Recursion`, that a function so defined obeys its definition. `StreamsInv`
says that there is a position in the body up to which it was read: the rest is on the wire, the
store has the content up to there (`PlainAt`), and in a decoded body `chunkRemain` and
`notFirstChunk` are those of that position (`DecodedAt`). `ChunksFit` is what makes this
inductive: when the content fits the declared length, or on disk the buffer (`LengthsAgree` has
how much of it a read still asks for), what the read still wants is never less than what is left
of the chunk (`ChunkHasRoom`), so the reader that reckons before it knows what it got is not
wrong. `EndIsWhole` then says that an end is met at the end of the body only.
`RangesServed` composes `ParsedRequestsAreSound` and `RangeIsNamed` with what the backends slice.
`InStepAlways` states the invariant's own part: the reader does not lose its place.

Also in `StreamsProofs`, `RangeIsNamed` and `ParsedRequestsAreSound`, from `RangesAssumption`: for every
size of int64, every object and every request whose end is not the last int64, `RangeOf` returns
just the bytes that the request names, inside the object, and refuses just when there are
none. The sums are shown not to leave int64 (`WrapIsExact`, `Bounds`); then the cases of
the function are linear arithmetic (`Refusal`, `Clamp`).

Also in `UploaderProofs`, from `ListingAssumption` in addition: `PagesInOrder` and
`PagesComplete`, the properties of the run `upload_listing`, for any keys, uploads, limits and
pages. `ListedFromIs` and `CandidatesAre` say what the two recursive functions of a listing take
from the index, `PageIs` what a page of any limit then has: the next uploads that match, none
left out before its marker. `ListingInv` says where the client stands in the order of uploads
(by key, then by ID): what it has is before its marker, and every upload that was there all
along and matches is behind the marker or was listed. It takes the order of an entry's IDs from the
uploader's `IInv`, and it holds only as long as no marker's upload ended (`markerEnded`), after
which the listing starts over.

`BucketListingProofs`, from `BucketListingAssumption` (the keys are sequences of numbers in their
order, none empty; nothing is assumed of prefixes and delimiters): every safety property of the
run `bucket_listing`. It goes from strings to listings. `PrefixByParts` shows that a string is a
prefix of another just when its parts between delimiters are those of the other and the last
begins one, through the positions of the delimiters (`Cuts`); so `MatchAgrees`, that `Prefix.Match` is
S3's rule for a regular key, and `NamedByPath`, that a directory with the names of the prefix
holds just its contents and common prefixes, because the name of a directory is the key up to its
delimiter (`DirectoryIs`). `MemPageIs` says what a page is that was cut at a limit: the first keys
after the marker up to the one that fills it, each listed or under a common prefix that was
counted where it was met first (`CountedIs`); `MemListingIs` that the in-memory listing is this
page or the error of a key without a current version. `ListedCorrectly` puts these together for
the four backends, under the conditions that `ListingAgrees` states: keys that are `Regular`, on
disk directories that each hold a file and a prefix without empty names, and common prefixes
only of backends that name them, which a walk under a delimiter does not. `ListedCompletely` and `ListedInOrder` need `IInv`: what the client has is not beyond its
marker (`MarkerIs`), what was there all along and is not beyond it was listed (`CoveredIs`), and
on disk every key has its directories and no empty name (`DiskIs`). TLC checked `IInv` on the
run's instance before it was proved.

Model-checked only: liveness under fairness (`EveryRequestAnswered`, `EveryCallEnds`,
`WalkEnds`), which is out of the prover's reach.

## Not modelled

- `ListBuckets` (in the model of bolt only as the creation dates it reports),
  `ListBucketVersions` and `ListParts`, which change nothing. The last two have faults that can be
  read off the code: `ListBucketVersions` never names the marker of its next page, and `ListParts`
  numbers parts from its marker.
- The name validation and host-name rewriting of the router, the test of the clock skew, and the
  forms of requests and answers: they depend on one request alone.
- Errors, messages, CORS, logging, time: formatting without state. Flags, start-up, build tasks
  and `s3assumer`, a client that probes the real S3.
- `MergeMetadata` never closes the object that it opens: descriptors are not counted.
- Bodies whose bytes spell a chunk header, keys that are directories of other keys on disk, and
  machine crashes that lose what was written but not synced.
