--------------------------- MODULE S3AferoProofs ---------------------------
(***************************************************************************)
(* Proofs about the file-system backends: FsInv is inductive, and gives    *)
(* the properties of the runs s3afero_key and s3afero_pair.                *)
(*                                                                         *)
(* AnsweredWritesAreServed is not inductive by itself.  It speaks of keys  *)
(* that are not being written, so the steps between CreateFile and the end *)
(* of a PutObject must be accounted for: WriteOK says that the file is     *)
(* what was read of the body, SourceOK and KeyOK of the source's key that  *)
(* the body is the one its history says, and OneWriter that no other key   *)
(* changes meanwhile.                                                      *)
(***************************************************************************)
EXTENDS S3Afero, SequenceTheorems, TLAPS

-----------------------------------------------------------------------------
(* The inductive invariant.                                                *)

\* What the lock is for: a PutObject that has created its file holds it.
OneWriter ==
    /\ lock # NoClient => call[lock].step = "write"
    /\ \A c \in Clients : call[c].step = "write" => lock = c

\* A single-bucket backend has no other directory.
OneDirectory == setup.kind = "single" => \A b \in Buckets : files[b] # NoBucket => b = setup.name

\* The two files of a key belong together: either the metadata is that of the
\* object, or a single-bucket backend has none and will compute it.
Served(b, k) ==
    /\ HasFile(b, k)
    /\ files[b][k].blocks = Whole(told[b][k].body)
    /\ \/ /\ metas[b][k] \in Metadata /\ Trusted(b, k)
          /\ metas[b][k].hash = Whole(told[b][k].body)
          /\ metas[b][k].meta = told[b][k].meta
       \/ metas[b][k] = NoFile /\ setup.kind = "single" /\ told[b][k].meta = NoMeta

KeyOK(b, k) ==
    ~Writing(b, k) =>
        /\ told[b][k] \in Object => Served(b, k)
        /\ told[b][k] = Gone => ~HasFile(b, k)

Prefix(p, s) == Len(p) <= Len(s) /\ \A i \in 1..Len(p) : p[i] = s[i]

\* The files that are read through a link are there, and what was unlinked, or is no
\* file, holds what its history says.
SourceOK(source) ==
    IF source.kind = "file" /\ source.linked THEN HasFile(source.bucket, source.key)
    ELSE source.holds # Damaged => source.blocks = Whole(source.holds)

\* What is written is what was read so far.
WriteOK(w) ==
    /\ HasFile(w.bucket, w.key)
    /\ files[w.bucket][w.key].blocks = w.hashed
    /\ Prefix(w.hashed, Readable(w.source))

\* What is sent is what was announced, and nobody is writing it.
StreamOK(s) ==
    /\ s.source.kind = "file"
    /\ Readable(s.source) = s.hash
    /\ \E body \in Bodies : s.hash = Whole(body)
    /\ Prefix(s.got, s.hash)
    /\ s.source.linked => ~Writing(s.source.bucket, s.source.key)

ClientOK(c) ==
    /\ call[c].step \in {"merge", "lock", "write", "stream"} => SourceOK(call[c].source)
    /\ call[c].step = "write" => WriteOK(call[c])
    /\ call[c].step = "stream" => StreamOK(call[c])

FsInv ==
    /\ FsTypeOK
    /\ OneWriter
    /\ OneDirectory
    /\ \A b \in Buckets, k \in Keys : KeyOK(b, k)
    /\ \A c \in Clients : ClientOK(c)

-----------------------------------------------------------------------------
(* What the model is built from.                                           *)

\* Contents are the sequences of at most two blocks.
LEMMA ContentsAre == \A s \in Contents : s \in Seq(Bodies) /\ Len(s) \in 0..2
  <1>1. ASSUME NEW s \in Contents PROVE s \in Seq(Bodies) /\ Len(s) \in 0..2
    <2>1. PICK n \in 0..2 : s \in [1..n -> Bodies]
      BY DEF Contents
    <2>2. QED
      BY <2>1
  <1>2. QED
    BY <1>1

LEMMA AreContents ==
    ASSUME NEW s \in Seq(Bodies), Len(s) \in 0..2
    PROVE  s \in Contents
  <1>1. s \in [1..Len(s) -> Bodies]
    OBVIOUS
  <1>2. QED
    BY <1>1 DEF Contents

LEMMA WholeIs ==
    ASSUME NEW body \in Bodies
    PROVE  /\ Whole(body) \in Contents
           /\ Len(Whole(body)) = 2
           /\ \A i \in 1..2 : Whole(body)[i] = body
  <1> DEFINE s == <<body, body>>
  <1>1. s \in Seq(Bodies)
    OBVIOUS
  <1>2. Len(s) \in 0..2 /\ Len(s) = 2
    OBVIOUS
  <1>3. s[1] = body /\ s[2] = body
    OBVIOUS
  <1>4. Whole(body) = s
    BY DEF Whole
  <1> HIDE DEF s
  <1>5. s \in Contents
    BY <1>1, <1>2, AreContents
  <1>6. \A i \in 1..2 : s[i] = body
    BY <1>3
  <1>7. QED
    BY <1>2, <1>4, <1>5, <1>6

\* A block more of what there is to read.
LEMMA BlockAppended ==
    ASSUME NEW p \in Contents, NEW s \in Contents, Prefix(p, s), Len(p) < Len(s)
    PROVE  /\ s[Len(p) + 1] \in Bodies
           /\ Append(p, s[Len(p) + 1]) \in Contents
           /\ Len(Append(p, s[Len(p) + 1])) = Len(p) + 1
           /\ Prefix(Append(p, s[Len(p) + 1]), s)
  <1>1. p \in Seq(Bodies) /\ s \in Seq(Bodies) /\ Len(p) \in 0..2 /\ Len(s) \in 0..2
    BY ContentsAre
  <1> DEFINE q == Append(p, s[Len(p) + 1])
  <1>2. s[Len(p) + 1] \in Bodies
    BY <1>1
  <1>3. q \in Seq(Bodies) /\ Len(q) = Len(p) + 1
    BY <1>1, <1>2
  <1>4. q \in Contents
    <2>1. Len(q) \in 0..2
      BY <1>1, <1>3
    <2> HIDE DEF q
    <2>2. QED
      BY <1>3, <2>1, AreContents
  <1>5. ASSUME NEW i \in 1..Len(q) PROVE q[i] = s[i]
    <2>1. CASE i = Len(p) + 1
      BY <1>1, <1>2, <2>1
    <2>2. CASE i # Len(p) + 1
      <3>1. i \in 1..Len(p)
        BY <1>1, <1>3, <2>2
      <3>2. q[i] = p[i]
        BY <1>1, <1>2, <3>1
      <3>3. QED
        BY <3>1, <3>2 DEF Prefix
    <2>3. QED
      BY <2>1, <2>2
  <1>6. QED
    BY <1>1, <1>2, <1>3, <1>4, <1>5 DEF Prefix

\* A prefix as long as what it is a prefix of.
LEMMA PrefixWhole ==
    ASSUME NEW p \in Contents, NEW s \in Contents, Prefix(p, s), Len(p) >= Len(s)
    PROVE  p = s
  <1>1. p \in Seq(Bodies) /\ s \in Seq(Bodies) /\ Len(p) \in 0..2 /\ Len(s) \in 0..2
    BY ContentsAre
  <1>2. Len(p) = Len(s) /\ \A i \in 1..Len(p) : p[i] = s[i]
    BY <1>1 DEF Prefix
  <1>3. QED
    BY <1>1, <1>2

LEMMA PrefixReflexive == \A s \in Contents : Prefix(s, s)
  BY ContentsAre DEF Prefix

LEMMA EmptyPrefix ==
    ASSUME NEW s \in Contents
    PROVE  /\ <<>> \in Contents /\ Len(<<>>) = 0
           /\ Prefix(<<>>, s)
  <1>1. <<>> \in Seq(Bodies) /\ Len(<<>>) = 0 /\ Len(<<>>) \in 0..2
    OBVIOUS
  <1>2. <<>> \in Contents
    BY <1>1, AreContents
  <1>3. Len(s) \in Nat
    BY ContentsAre
  <1>4. QED
    BY <1>1, <1>2, <1>3 DEF Prefix

\* What a call remembers at each of its steps.
LEMMA CallForms ==
    ASSUME NEW r \in Call
    PROVE  /\ r.step \in {"idle", "adrift", "copy", "merge", "lock", "write", "stream"}
           /\ r.step = "idle" => r = Idle
           /\ r.step = "adrift" => r = Adrift
           /\ r.step = "copy" => r \in [step : {"copy"}, srcBucket : Buckets, srcKey : Keys,
                                        bucket : Buckets, key : Keys, meta : Headers]
           /\ r.step \in {"merge", "lock"} =>
                 r \in [step : {"merge", "lock"}, bucket : Buckets, key : Keys,
                        source : Source, meta : Headers]
           /\ r.step = "write" =>
                 r \in [step : {"write"}, bucket : Buckets, key : Keys, source : Source,
                        meta : Headers, hashed : Contents]
           /\ r.step = "stream" =>
                 r \in [step : {"stream"}, source : Source, hash : Contents, got : Contents]
  BY DEF Call, Idle, Adrift

LEMMA SourceForms ==
    ASSUME NEW s \in Source
    PROVE  /\ s.kind \in {"body", "file"} /\ s.blocks \in Contents
           /\ s.kind = "body" => s \in [kind : {"body"}, blocks : Contents, holds : Bodies]
           /\ s.kind = "file" => s \in [kind : {"file"}, linked : BOOLEAN, bucket : Buckets,
                                        key : Keys, blocks : Contents,
                                        holds : Bodies \cup {Damaged}]
  BY DEF Source

-----------------------------------------------------------------------------
(* The files of a key.                                                     *)

MetaFile == Metadata \cup {NoFile, EmptyFile, TornFile}

LEMMA FilesTyped ==
    ASSUME FsTypeOK, NEW b \in Buckets, NEW k \in Keys
    PROVE  /\ files[b] # NoBucket => files[b] \in [Keys -> File \cup {NoFile}]
           /\ HasFile(b, k) => /\ files[b][k] \in File
                               /\ files[b][k].blocks \in Contents
                               /\ Len(files[b][k].blocks) \in 0..2
                               /\ files[b][k].time \in 0..MaxTime
           /\ metas[b][k] \in MetaFile
           /\ told[b][k] \in Told
  <1>1. files[b] # NoBucket => files[b] \in [Keys -> File \cup {NoFile}]
    BY DEF FsTypeOK
  <1>2. ASSUME HasFile(b, k)
        PROVE  /\ files[b][k] \in File
               /\ files[b][k].blocks \in Contents
               /\ files[b][k].time \in 0..MaxTime
    BY <1>1, <1>2 DEF HasFile, File
  <1>3. QED
    BY <1>1, <1>2, ContentsAre DEF FsTypeOK, MetaFile

LEMMA ReadableTyped ==
    ASSUME FsTypeOK, NEW s \in Source, SourceOK(s)
    PROVE  Readable(s) \in Contents /\ Len(Readable(s)) \in 0..2
  <1>1. CASE s.kind = "file" /\ s.linked
    <2>1. s.bucket \in Buckets /\ s.key \in Keys
      BY <1>1, SourceForms
    <2>2. HasFile(s.bucket, s.key)
      BY <1>1 DEF SourceOK
    <2>3. QED
      BY <1>1, <2>1, <2>2, FilesTyped DEF Readable
  <1>2. CASE ~(s.kind = "file" /\ s.linked)
    BY <1>2, SourceForms, ContentsAre DEF Readable
  <1>3. QED
    BY <1>1, <1>2

\* What loadMeta returns and what it leaves.
LEMMA LoadTyped ==
    ASSUME FsTypeOK, NEW b \in Buckets, NEW k \in Keys, HasFile(b, k)
    PROVE  /\ ~LoadFails(b, k) => LoadMeta(b, k) \in Metadata
           /\ AfterLoad(b, k) \in MetaFile
  <1>1. /\ files[b][k].blocks \in Contents /\ Len(files[b][k].blocks) \in 0..2
        /\ files[b][k].time \in 0..MaxTime
        /\ metas[b][k] \in MetaFile
    BY FilesTyped
  <1>2. Computed(b, k) \in Metadata
    BY <1>1 DEF Computed, Metadata, Headers
  <1>3. metas[b][k] \notin {NoFile, TornFile} => Recomputed(b, k) \in Metadata
    <2>1. CASE metas[b][k] = EmptyFile
      <3>1. <<>> \in Contents
        BY EmptyPrefix, <1>1
      <3>2. QED
        BY <1>1, <2>1, <3>1 DEF Recomputed, Metadata, Headers
    <2>2. CASE metas[b][k] \in Metadata
      <3>1. metas[b][k].meta \in Headers /\ metas[b][k] # EmptyFile
        BY <2>2, NilAssumption DEF Metadata
      <3>2. QED
        BY <1>1, <2>2, <3>1 DEF Recomputed, Metadata
    <2>3. QED
      BY <1>1, <2>1, <2>2 DEF MetaFile
  <1>4. Trusted(b, k) => metas[b][k] \in Metadata
    BY <1>1 DEF Trusted, MetaFile
  <1>5. QED
    BY <1>1, <1>2, <1>3, <1>4 DEF LoadFails, LoadMeta, AfterLoad, MetaFile

\* The metadata of an answered write is believed, or computed from the object.
LEMMA LoadsServed ==
    ASSUME FsTypeOK, NEW b \in Buckets, NEW k \in Keys, told[b][k] \in Object, Served(b, k)
    PROVE  /\ HasFile(b, k) /\ ~LoadFails(b, k)
           /\ LoadMeta(b, k).hash = Whole(told[b][k].body)
           /\ LoadMeta(b, k).meta = told[b][k].meta
           /\ AfterLoad(b, k) = metas[b][k]
  <1>1. CASE metas[b][k] \in Metadata /\ Trusted(b, k)
    <2>1. metas[b][k] \notin {NoFile, EmptyFile, TornFile}
      BY <1>1 DEF Trusted
    <2>2. QED
      BY <1>1, <2>1, NilAssumption DEF Served, LoadFails, LoadMeta, AfterLoad
  <1>2. CASE metas[b][k] = NoFile /\ setup.kind = "single"
    <2>1. NoFile \notin {EmptyFile, TornFile} /\ NoFile \notin Metadata
      BY NilAssumption
    <2>2. LoadMeta(b, k) = Computed(b, k) /\ AfterLoad(b, k) = metas[b][k] /\ ~LoadFails(b, k)
      BY <1>2, <2>1 DEF LoadMeta, AfterLoad, LoadFails
    <2>3. QED
      BY <1>2, <2>1, <2>2 DEF Served, Computed
  <1>3. QED
    BY <1>1, <1>2 DEF Served

LEMMA FileInBucket ==
    ASSUME FsTypeOK, OneDirectory, NEW b \in Buckets, files[b] # NoBucket
    PROVE  BucketExists(b)
  BY DEF OneDirectory, BucketExists

LEMMA NobodyWrites ==
    ASSUME FsTypeOK, OneWriter, Unlocked
    PROVE  /\ \A c \in Clients : call[c].step # "write"
           /\ \A b \in Buckets, k \in Keys : ~Writing(b, k)
  BY NilAssumption DEF OneWriter, Unlocked, Writing

-----------------------------------------------------------------------------
(* What a step leaves alone.                                               *)

SameFile(b, k) ==
    /\ HasFile(b, k)' <=> HasFile(b, k)
    /\ HasFile(b, k) => files'[b][k] = files[b][k]

\* Metadata stays, or is what loadMeta saved.
SameMeta(b, k) ==
    metas'[b][k] = metas[b][k] \/ (HasFile(b, k) /\ metas'[b][k] = AfterLoad(b, k))

LEMMA KeyKept ==
    ASSUME FsTypeOK, NEW b \in Buckets, NEW k \in Keys, KeyOK(b, k),
           setup' = setup, SameFile(b, k), SameMeta(b, k), told'[b][k] = told[b][k],
           Writing(b, k) => Writing(b, k)'
    PROVE  KeyOK(b, k)'
  <1> SUFFICES ASSUME ~Writing(b, k)'
               PROVE  /\ told[b][k] \in Object => Served(b, k)'
                      /\ told[b][k] = Gone => ~HasFile(b, k)'
    BY DEF KeyOK
  <1>1. /\ told[b][k] \in Object => Served(b, k)
        /\ told[b][k] = Gone => ~HasFile(b, k)
    BY DEF KeyOK
  <1>2. ASSUME told[b][k] \in Object PROVE Served(b, k)'
    <2>1. Served(b, k) /\ HasFile(b, k) /\ AfterLoad(b, k) = metas[b][k]
      BY <1>1, <1>2, LoadsServed
    <2>2. metas'[b][k] = metas[b][k] /\ files'[b][k] = files[b][k] /\ HasFile(b, k)'
      BY <2>1 DEF SameFile, SameMeta
    <2>3. QED
      BY <2>1, <2>2 DEF Served, Trusted
  <1>3. QED
    BY <1>1, <1>2 DEF SameFile

LEMMA KeyGone ==
    ASSUME NEW b \in Buckets, NEW k \in Keys, told'[b][k] = Gone, ~HasFile(b, k)'
    PROVE  KeyOK(b, k)'
  BY NilAssumption DEF KeyOK

LEMMA KeyDamaged ==
    ASSUME NEW b \in Buckets, NEW k \in Keys, told'[b][k] = Damaged
    PROVE  KeyOK(b, k)'
  BY NilAssumption DEF KeyOK

Opened(r) == r.source.kind = "file" /\ r.source.linked

\* A call that no step touched, as long as the files it has open stay.
LEMMA CallKept ==
    ASSUME NEW c \in Clients, call'[c] = call[c], ClientOK(c), call[c] \in Call,
           call[c].step \in {"merge", "lock"} /\ Opened(call[c]) =>
              HasFile(call[c].source.bucket, call[c].source.key)',
           call[c].step \in {"write", "stream"} /\ Opened(call[c]) =>
              SameFile(call[c].source.bucket, call[c].source.key),
           call[c].step = "write" => SameFile(call[c].bucket, call[c].key),
           call[c].step = "stream" /\ Opened(call[c]) =>
              ~Writing(call[c].source.bucket, call[c].source.key)'
    PROVE  ClientOK(c)'
  <1>1. ASSUME call[c].step \in {"merge", "lock"} PROVE SourceOK(call[c].source)'
    BY <1>1 DEF ClientOK, SourceOK, Opened
  <1>2. ASSUME call[c].step \in {"write", "stream"}
        PROVE  SourceOK(call[c].source)' /\ Readable(call[c].source)' = Readable(call[c].source)
    BY <1>2 DEF ClientOK, SourceOK, Opened, SameFile, Readable
  <1>3. ASSUME call[c].step = "write" PROVE WriteOK(call[c])'
    BY <1>2, <1>3 DEF ClientOK, WriteOK, SameFile
  <1>4. ASSUME call[c].step = "stream" PROVE StreamOK(call[c])'
    BY <1>2, <1>4 DEF ClientOK, StreamOK, Opened
  <1>5. QED
    BY <1>1, <1>2, <1>3, <1>4 DEF ClientOK

-----------------------------------------------------------------------------
(* Files that go while readers have them open.                             *)

Detach(r, blocks, holds) ==
    [r EXCEPT !.source.linked = FALSE, !.source.blocks = blocks, !.source.holds = holds]

LEMMA DetachIs ==
    ASSUME NEW r \in Call, r.step \in {"merge", "lock", "stream"}, r.source.kind = "file",
           NEW blocks \in Contents, NEW holds \in Bodies \cup {Damaged}
    PROVE  LET u == Detach(r, blocks, holds) IN
           /\ u \in Call /\ u.step = r.step
           /\ u.source.kind = "file" /\ ~u.source.linked
           /\ u.source.blocks = blocks /\ u.source.holds = holds
           /\ u.step \in {"merge", "lock"} => u.bucket = r.bucket /\ u.key = r.key /\ u.meta = r.meta
           /\ u.step = "stream" => u.hash = r.hash /\ u.got = r.got
  <1> DEFINE s == [r.source EXCEPT !.linked = FALSE, !.blocks = blocks, !.holds = holds]
             u == Detach(r, blocks, holds)
  <1>1. r.source \in Source
    BY CallForms
  <1>2. /\ s \in Source /\ s.kind = "file" /\ s.linked = FALSE
        /\ s.blocks = blocks /\ s.holds = holds
    <2>1. r.source \in [kind : {"file"}, linked : BOOLEAN, bucket : Buckets, key : Keys,
                        blocks : Contents, holds : Bodies \cup {Damaged}]
      BY <1>1, SourceForms
    <2>2. s \in [kind : {"file"}, linked : BOOLEAN, bucket : Buckets, key : Keys,
                 blocks : Contents, holds : Bodies \cup {Damaged}]
      BY <2>1
    <2>3. s.kind = "file" /\ s.linked = FALSE /\ s.blocks = blocks /\ s.holds = holds
      BY <2>1
    <2>4. QED
      BY <2>2, <2>3 DEF Source
  <1>3. CASE r.step \in {"merge", "lock"}
    <2>1. r \in [step : {"merge", "lock"}, bucket : Buckets, key : Keys,
                 source : Source, meta : Headers]
      BY <1>3, CallForms
    <2>2. u = [r EXCEPT !.source = s]
      BY <2>1 DEF Detach
    <2> HIDE DEF s
    <2>3. [r EXCEPT !.source = s] \in Call
      BY <1>2, <2>1 DEF Call
    <2>4. QED
      BY <1>2, <1>3, <2>1, <2>2, <2>3
  <1>4. CASE r.step = "stream"
    <2>1. r \in [step : {"stream"}, source : Source, hash : Contents, got : Contents]
      BY <1>4, CallForms
    <2>2. u = [r EXCEPT !.source = s]
      BY <2>1 DEF Detach
    <2> HIDE DEF s
    <2>3. [r EXCEPT !.source = s] \in Call
      BY <1>2, <2>1 DEF Call
    <2>4. QED
      BY <1>2, <1>4, <2>1, <2>2, <2>3
  <1>5. QED
    BY <1>3, <1>4

LEMMA HoldsTyped ==
    ASSUME FsTypeOK, NEW b \in Buckets, NEW k \in Keys
    PROVE  Holds(b, k) \in Bodies \cup {Damaged}
  BY FilesTyped DEF Holds, Object

\* What the answers tell of a file that nobody writes is what it contains.
LEMMA HoldsWhat ==
    ASSUME FsTypeOK, NEW b \in Buckets, NEW k \in Keys, KeyOK(b, k), ~Writing(b, k),
           Holds(b, k) # Damaged
    PROVE  /\ told[b][k] \in Object /\ Holds(b, k) = told[b][k].body
           /\ Holds(b, k) \in Bodies
           /\ files[b][k].blocks = Whole(Holds(b, k))
  BY FilesTyped, NilAssumption DEF Holds, KeyOK, Served, Object

\* A reader of a file that is unlinked.
LEMMA UnlinkIs ==
    ASSUME FsInv, Unlocked, NEW b \in Buckets, NEW ks \in SUBSET Keys, NEW c \in Clients
    PROVE  LET u == Unlink(call, b, ks)[c]
               s == u.source IN
           /\ u \in Call /\ u.step = call[c].step
           /\ (~\E k \in ks : Linked(c, b, k)) => u = call[c]
           /\ (\E k \in ks : Linked(c, b, k)) =>
                 /\ u.step \in {"merge", "lock", "stream"}
                 /\ s.kind = "file" /\ ~s.linked
                 /\ s.holds # Damaged => s.blocks = Whole(s.holds)
                 /\ u.step \in {"merge", "lock"} =>
                       u.bucket = call[c].bucket /\ u.key = call[c].key /\ u.meta = call[c].meta
                 /\ u.step = "stream" =>
                       /\ u.hash = call[c].hash /\ u.got = call[c].got
                       /\ s.blocks = call[c].hash
  <1> DEFINE u == Unlink(call, b, ks)[c]
             r == call[c]
             k == r.source.key
  <1>1. r \in Call
    BY DEF FsInv, FsTypeOK
  <1>2. CASE ~\E j \in ks : Linked(c, b, j)
    <2>1. u = r
      BY <1>2 DEF Unlink
    <2>2. QED
      BY <1>1, <1>2, <2>1
  <1>3. CASE \E j \in ks : Linked(c, b, j)
    <2>1. u = Detach(r, files[b][k].blocks, Holds(b, k))
      BY <1>3 DEF Unlink, Detach
    <2>2. /\ r.step \in {"merge", "lock", "stream"}
          /\ r.source.kind = "file" /\ r.source.linked
          /\ r.source.bucket = b /\ k \in ks /\ k \in Keys
      BY <1>3, NobodyWrites DEF FsInv, Linked
    <2>3. HasFile(b, k)
      BY <2>2 DEF FsInv, ClientOK, SourceOK
    <2>4. /\ files[b][k].blocks \in Contents
          /\ Holds(b, k) \in Bodies \cup {Damaged}
      BY <2>2, <2>3, FilesTyped, HoldsTyped DEF FsInv
    <2>5. Holds(b, k) # Damaged => files[b][k].blocks = Whole(Holds(b, k))
      BY <2>2, HoldsWhat, NobodyWrites DEF FsInv
    <2>6. r.step = "stream" => files[b][k].blocks = r.hash
      BY <2>2 DEF FsInv, ClientOK, StreamOK, Readable
    <2> HIDE DEF u, r, k
    <2>7. /\ u \in Call /\ u.step = r.step
          /\ u.source.kind = "file" /\ ~u.source.linked
          /\ u.source.blocks = files[b][k].blocks /\ u.source.holds = Holds(b, k)
          /\ u.step \in {"merge", "lock"} => u.bucket = r.bucket /\ u.key = r.key /\ u.meta = r.meta
          /\ u.step = "stream" => u.hash = r.hash /\ u.got = r.got
      BY <1>1, <2>1, <2>2, <2>4, DetachIs
    <2>8. QED
      BY <1>3, <2>2, <2>5, <2>6, <2>7 DEF u, r, k
  <1>4. QED
    BY <1>2, <1>3

\* It goes on reading what it would have read.
LEMMA UnlinkedOK ==
    ASSUME FsInv, Unlocked, NEW b \in Buckets, NEW ks \in SUBSET Keys, NEW c \in Clients,
           call'[c] = Unlink(call, b, ks)[c],
           \E k \in ks : Linked(c, b, k)
    PROVE  ClientOK(c)'
  <1>1. /\ call'[c].step = call[c].step
        /\ call'[c].step \in {"merge", "lock", "stream"}
        /\ call'[c].source.kind = "file" /\ ~call'[c].source.linked
        /\ call'[c].source.holds # Damaged =>
              call'[c].source.blocks = Whole(call'[c].source.holds)
        /\ call'[c].step = "stream" =>
              /\ call'[c].hash = call[c].hash /\ call'[c].got = call[c].got
              /\ call'[c].source.blocks = call[c].hash
    BY UnlinkIs
  <1>2. SourceOK(call[c].source)'
    BY <1>1 DEF SourceOK
  <1>3. ASSUME call'[c].step = "stream" PROVE StreamOK(call[c])'
    <2>1. StreamOK(call[c])
      BY <1>1, <1>3 DEF FsInv, ClientOK
    <2>2. QED
      BY <1>1, <1>3, <2>1 DEF StreamOK, Readable
  <1>4. QED
    BY <1>1, <1>2, <1>3 DEF ClientOK

-----------------------------------------------------------------------------
(* Reads.                                                                  *)

LEMMA RefreshedIs ==
    ASSUME FsTypeOK, NEW b \in Buckets, NEW k \in Keys, metas' = Refreshed(b, k)
    PROVE  /\ metas' \in [Buckets -> [Keys -> MetaFile]]
           /\ \A d \in Buckets, j \in Keys : SameMeta(d, j)
  <1>1. metas \in [Buckets -> [Keys -> MetaFile]]
    BY DEF FsTypeOK, MetaFile
  <1>2. CASE HasFile(b, k)
    <2>1. metas' = [metas EXCEPT ![b][k] = AfterLoad(b, k)]
      BY <1>2 DEF Refreshed
    <2>2. AfterLoad(b, k) \in MetaFile
      BY <1>2, LoadTyped
    <2>3. QED
      BY <1>1, <1>2, <2>1, <2>2 DEF SameMeta
  <1>3. CASE ~HasFile(b, k)
    BY <1>1, <1>3 DEF Refreshed, SameMeta
  <1>4. QED
    BY <1>2, <1>3

\* A step that reads: only calls that do not write yet, and metadata that is saved
\* again, change.
LEMMA ReadKeeps ==
    ASSUME FsInv, Unlocked, UNCHANGED <<setup, files, dirs, clock, lock, told>>,
           metas' \in [Buckets -> [Keys -> MetaFile]],
           \A b \in Buckets, k \in Keys : SameMeta(b, k),
           call' \in [Clients -> Call],
           \A c \in Clients :
              call'[c] = call[c] \/ (call'[c].step # "write" /\ ClientOK(c)')
    PROVE  FsInv'
  <1>1. FsTypeOK'
    BY DEF FsInv, FsTypeOK, MetaFile
  <1>2. \A c \in Clients : call'[c].step # "write"
    BY NobodyWrites DEF FsInv
  <1>3. OneWriter'
    BY <1>2 DEF OneWriter, Unlocked
  <1>4. OneDirectory'
    BY DEF FsInv, OneDirectory
  <1>5. \A b \in Buckets, k \in Keys : ~Writing(b, k) /\ ~Writing(b, k)' /\ SameFile(b, k)
    BY <1>2, NobodyWrites DEF FsInv, Writing, SameFile, HasFile
  <1>6. ASSUME NEW b \in Buckets, NEW k \in Keys PROVE KeyOK(b, k)'
    BY <1>5, KeyKept DEF FsInv
  <1>7. ASSUME NEW c \in Clients, call'[c] = call[c] PROVE ClientOK(c)'
    <2>1. call[c] \in Call /\ ClientOK(c) /\ call[c].step # "write"
      BY <1>2, <1>7 DEF FsInv, FsTypeOK
    <2>2. call[c].step \in {"merge", "lock", "stream"} /\ Opened(call[c]) =>
             /\ call[c].source.bucket \in Buckets /\ call[c].source.key \in Keys
             /\ HasFile(call[c].source.bucket, call[c].source.key)
      <3>1. call[c].step \in {"merge", "lock", "stream"} => call[c].source \in Source
        BY <2>1, CallForms
      <3>2. QED
        BY <2>1, <3>1, SourceForms DEF ClientOK, SourceOK, Opened
    <2>3. QED
      BY <1>5, <1>7, <2>1, <2>2, CallKept DEF SameFile
  <1>8. QED
    BY <1>1, <1>3, <1>4, <1>6, <1>7 DEF FsInv

LEMMA HeadObjectOK ==
    ASSUME FsInv, NEW b \in Buckets, NEW k \in Keys, HeadObject(b, k)
    PROVE  FsInv'
  <1>1. /\ Unlocked /\ metas' = Refreshed(b, k)
        /\ UNCHANGED <<setup, files, dirs, clock, lock, call, told>>
    BY DEF HeadObject
  <1>2. call' \in [Clients -> Call] /\ \A c \in Clients : call'[c] = call[c]
    BY <1>1 DEF FsInv, FsTypeOK
  <1>3. QED
    BY <1>1, <1>2, RefreshedIs, ReadKeeps DEF FsInv

LEMMA ListBucketOK ==
    ASSUME FsInv, NEW b \in Buckets, ListBucket(b)
    PROVE  FsInv'
  <1> DEFINE failing == {k \in FilesOf(b) : LoadFails(b, k)}
             loaded == {k \in FilesOf(b) : \A j \in failing : Before(k, j)}
  <1>1. /\ Unlocked
        /\ metas' = [metas EXCEPT ![b] =
              [k \in Keys |-> IF k \in loaded THEN AfterLoad(b, k) ELSE metas[b][k]]]
        /\ UNCHANGED <<setup, files, dirs, clock, lock, call, told>>
    BY DEF ListBucket, FsInv, FsTypeOK
  <1>2. metas \in [Buckets -> [Keys -> MetaFile]]
    BY DEF FsInv, FsTypeOK, MetaFile
  <1>3. \A k \in loaded : HasFile(b, k) /\ k \in Keys /\ AfterLoad(b, k) \in MetaFile
    BY LoadTyped DEF FilesOf, FsInv
  <1> HIDE DEF loaded
  <1>4. /\ metas' \in [Buckets -> [Keys -> MetaFile]]
        /\ \A d \in Buckets, k \in Keys : SameMeta(d, k)
    BY <1>1, <1>2, <1>3 DEF SameMeta
  <1>5. call' \in [Clients -> Call] /\ \A c \in Clients : call'[c] = call[c]
    BY <1>1 DEF FsInv, FsTypeOK
  <1>6. QED
    BY <1>1, <1>4, <1>5, ReadKeeps

LEMMA HeadIs ==
    ASSUME FsTypeOK, NEW b \in Buckets, NEW k \in Keys
    PROVE  HeadResult(b, k) = "ok" <=> BucketExists(b) /\ HasFile(b, k) /\ ~LoadFails(b, k)
  BY DEF HeadResult

LEMMA OpenFileIs ==
    ASSUME NEW b \in Buckets, NEW k \in Keys
    PROVE  /\ OpenFile(b, k) \in Source
           /\ OpenFile(b, k).kind = "file" /\ OpenFile(b, k).linked
           /\ OpenFile(b, k).bucket = b /\ OpenFile(b, k).key = k
  <1>1. <<>> \in Contents
    <2>1. <<>> \in Seq(Bodies) /\ Len(<<>>) \in 0..2
      OBVIOUS
    <2>2. QED
      BY <2>1, AreContents
  <1>2. QED
    BY <1>1 DEF OpenFile, Source

\* What is under a key that nobody writes and that has a file.
LEMMA ToldOfFile ==
    ASSUME FsInv, Unlocked, NEW b \in Buckets, NEW k \in Keys, HasFile(b, k),
           told[b][k] # Damaged
    PROVE  /\ told[b][k] \in Object /\ told[b][k].body \in Bodies
           /\ Served(b, k)
  BY FilesTyped, NobodyWrites DEF FsInv, KeyOK, Told, Object

LEMMA GetObjectOK ==
    ASSUME FsInv, NEW c \in Clients, NEW b \in Buckets, NEW k \in Keys, GetObject(c, b, k)
    PROVE  FsInv'
  <1> DEFINE r == IF told[b][k] = Damaged THEN Adrift
                  ELSE [step |-> "stream", source |-> OpenFile(b, k),
                        hash |-> LoadMeta(b, k).hash, got |-> <<>>]
  <1>1. /\ Unlocked /\ HeadResult(b, k) = "ok" /\ metas' = Refreshed(b, k)
        /\ call' = [call EXCEPT ![c] = r]
        /\ UNCHANGED <<setup, files, dirs, clock, lock, told>>
    BY DEF GetObject
  <1>2. HasFile(b, k)
    BY <1>1, HeadIs DEF FsInv
  <1>3. r \in Call /\ r.step # "write" /\ (call'[c] = r => ClientOK(c)')
    <2>1. CASE told[b][k] = Damaged
      BY <2>1 DEF Call, Adrift, ClientOK
    <2>2. CASE told[b][k] # Damaged
      <3>1. /\ told[b][k] \in Object /\ told[b][k].body \in Bodies /\ Served(b, k)
            /\ LoadMeta(b, k).hash = Whole(told[b][k].body)
        BY <1>1, <1>2, <2>2, ToldOfFile, LoadsServed DEF FsInv
      <3>2. /\ Whole(told[b][k].body) \in Contents
            /\ <<>> \in Contents /\ Prefix(<<>>, Whole(told[b][k].body))
        BY <3>1, WholeIs, EmptyPrefix
      <3>3. r = [step |-> "stream", source |-> OpenFile(b, k),
                 hash |-> Whole(told[b][k].body), got |-> <<>>]
        BY <2>2, <3>1
      <3>4. r \in Call
        BY <3>2, <3>3, OpenFileIs DEF Call
      <3>5. /\ r.step = "stream" /\ r.source = OpenFile(b, k)
            /\ r.hash = Whole(told[b][k].body) /\ r.got = <<>>
        BY <3>3
      <3> HIDE DEF r
      <3>6. ASSUME call'[c] = r PROVE ClientOK(c)'
        <4>1. HasFile(b, k)'
          BY <1>1, <1>2 DEF HasFile
        <4>2. SourceOK(call[c].source)'
          BY <3>5, <3>6, <4>1, OpenFileIs DEF SourceOK
        <4>3. Readable(call[c].source)' = Whole(told[b][k].body)
          BY <1>1, <3>1, <3>5, <3>6, OpenFileIs DEF Readable, Served
        <4>4. ~Writing(b, k)'
          BY <1>1, <3>5, NobodyWrites DEF Writing, FsInv, FsTypeOK
        <4>5. StreamOK(call[c])'
          BY <3>1, <3>2, <3>5, <3>6, <4>3, <4>4, OpenFileIs DEF StreamOK
        <4>6. QED
          BY <3>5, <3>6, <4>2, <4>5 DEF ClientOK
      <3>7. QED
        BY <3>4, <3>5, <3>6
    <2>3. QED
      BY <2>1, <2>2
  <1> HIDE DEF r
  <1>4. /\ call' \in [Clients -> Call]
        /\ \A d \in Clients : call'[d] = call[d] \/ (call'[d].step # "write" /\ ClientOK(d)')
    BY <1>1, <1>3 DEF FsInv, FsTypeOK
  <1>5. QED
    BY <1>1, <1>4, RefreshedIs, ReadKeeps DEF FsInv

\* The handler's HeadObject of a copy takes its metadata along.
LEMMA CopyObjectOK ==
    ASSUME FsInv, NEW c \in Clients, NEW sb \in Buckets, NEW sk \in Keys,
           NEW b \in Buckets, NEW k \in Keys, NEW meta \in Headers, CopyObject(c, sb, sk, b, k, meta)
    PROVE  FsInv'
  <1> DEFINE r == [step |-> "copy", srcBucket |-> sb, srcKey |-> sk, bucket |-> b, key |-> k,
                   meta |-> Merge(meta, LoadMeta(sb, sk).meta)]
  <1>1. /\ Unlocked /\ HeadResult(sb, sk) = "ok" /\ metas' = Refreshed(sb, sk)
        /\ call' = [call EXCEPT ![c] = r]
        /\ UNCHANGED <<setup, files, dirs, clock, lock, told>>
    BY DEF CopyObject
  <1>2. LoadMeta(sb, sk) \in Metadata
    BY <1>1, HeadIs, LoadTyped DEF FsInv
  <1>3. r \in Call /\ r.step = "copy"
    BY <1>2 DEF Call, Metadata, Merge
  <1> HIDE DEF r
  <1>4. /\ call' \in [Clients -> Call]
        /\ \A d \in Clients : call'[d] = call[d] \/ (call'[d].step # "write" /\ ClientOK(d)')
    BY <1>1, <1>3 DEF FsInv, FsTypeOK, ClientOK
  <1>5. QED
    BY <1>1, <1>4, RefreshedIs, ReadKeeps DEF FsInv

LEMMA CopyOpenOK ==
    ASSUME FsInv, NEW c \in Clients, CopyOpen(c)
    PROVE  FsInv'
  <1> DEFINE w == call[c]
             r == [step |-> "merge", bucket |-> w.bucket, key |-> w.key, meta |-> w.meta,
                   source |-> OpenFile(w.srcBucket, w.srcKey)]
             ok == HeadResult(w.srcBucket, w.srcKey) = "ok" /\ Accepts(w.bucket)
  <1>1. /\ Unlocked /\ w.step = "copy" /\ metas' = Refreshed(w.srcBucket, w.srcKey)
        /\ call' = [call EXCEPT ![c] = IF ok THEN r ELSE Idle]
        /\ UNCHANGED <<setup, files, dirs, clock, lock, told>>
    BY DEF CopyOpen
  <1>2. /\ w.srcBucket \in Buckets /\ w.srcKey \in Keys
        /\ w.bucket \in Buckets /\ w.key \in Keys /\ w.meta \in Headers
    BY <1>1, CallForms DEF FsInv, FsTypeOK
  <1>3. call \in [Clients -> Call]
    BY DEF FsInv, FsTypeOK
  <1>4. CASE ok
    <2>1. HasFile(w.srcBucket, w.srcKey)
      BY <1>2, <1>4, HeadIs DEF FsInv
    <2>2. r \in Call /\ r.step = "merge" /\ r.source = OpenFile(w.srcBucket, w.srcKey)
      BY <1>2, OpenFileIs DEF Call
    <2>3. call' = [call EXCEPT ![c] = r]
      BY <1>1, <1>4
    <2> HIDE DEF r
    <2>4. call'[c] = r
      BY <1>3, <2>3
    <2>5. SourceOK(call[c].source)'
      BY <1>1, <1>2, <2>1, <2>2, <2>4, OpenFileIs DEF SourceOK, HasFile
    <2>6. ClientOK(c)'
      BY <2>2, <2>4, <2>5 DEF ClientOK
    <2>7. /\ call' \in [Clients -> Call]
          /\ \A d \in Clients : call'[d] = call[d] \/ (call'[d].step # "write" /\ ClientOK(d)')
      BY <1>3, <2>2, <2>3, <2>6
    <2>8. QED
      BY <1>1, <1>2, <2>7, RefreshedIs, ReadKeeps DEF FsInv
  <1>5. CASE ~ok
    <2>1. Idle \in Call /\ Idle.step = "idle"
      BY DEF Call, Idle
    <2>2. /\ call' \in [Clients -> Call]
          /\ \A d \in Clients : call'[d] = call[d] \/ (call'[d].step # "write" /\ ClientOK(d)')
      BY <1>1, <1>3, <1>5, <2>1 DEF ClientOK
    <2>3. QED
      BY <1>1, <1>2, <2>2, RefreshedIs, ReadKeeps DEF FsInv
  <1>6. QED
    BY <1>4, <1>5

LEMMA MergeMetadataOK ==
    ASSUME FsInv, NEW c \in Clients, MergeMetadata(c)
    PROVE  FsInv'
  <1> DEFINE w == call[c]
             m == IF HeadResult(w.bucket, w.key) = "ok"
                  THEN Merge(w.meta, LoadMeta(w.bucket, w.key).meta) ELSE w.meta
             r == [w EXCEPT !.step = "lock", !.meta = m]
  <1>1. w \in Call /\ call \in [Clients -> Call]
    BY DEF FsInv, FsTypeOK
  <1>2. /\ Unlocked /\ w.step = "merge" /\ metas' = Refreshed(w.bucket, w.key)
        /\ UNCHANGED <<setup, files, dirs, clock, lock, told>>
    BY DEF MergeMetadata
  <1>3. w \in [step : {"merge", "lock"}, bucket : Buckets, key : Keys,
               source : Source, meta : Headers]
    BY <1>1, <1>2, CallForms
  <1>4. call' = [call EXCEPT ![c] = r]
    BY <1>3 DEF MergeMetadata
  <1>5. m \in Headers
    <2>1. HeadResult(w.bucket, w.key) = "ok" => LoadMeta(w.bucket, w.key) \in Metadata
      BY <1>3, HeadIs, LoadTyped DEF FsInv
    <2>2. QED
      BY <1>3, <2>1 DEF Metadata, Merge
  <1> HIDE DEF m
  <1>6. r \in [step : {"merge", "lock"}, bucket : Buckets, key : Keys,
               source : Source, meta : Headers]
    BY <1>3, <1>5
  <1>7. r.step = "lock" /\ r.source = w.source
    BY <1>3
  <1>8. r \in Call
    BY <1>6 DEF Call
  <1> HIDE DEF r
  <1>9. call'[c] = r
    BY <1>1, <1>4
  <1>10. SourceOK(call[c].source)'
    BY <1>2, <1>7, <1>9 DEF FsInv, ClientOK, SourceOK, HasFile
  <1>11. ClientOK(c)'
    BY <1>7, <1>9, <1>10 DEF ClientOK
  <1>12. /\ call' \in [Clients -> Call]
         /\ \A d \in Clients : call'[d] = call[d] \/ (call'[d].step # "write" /\ ClientOK(d)')
    BY <1>1, <1>4, <1>7, <1>8, <1>11
  <1>13. QED
    BY <1>2, <1>3, <1>12, RefreshedIs, ReadKeeps DEF FsInv

-----------------------------------------------------------------------------
(* Steps of one call that touch no file.                                   *)

LEMMA CallStep ==
    ASSUME FsInv, NEW c \in Clients, NEW r \in Call, call' = [call EXCEPT ![c] = r],
           UNCHANGED <<setup, files, dirs, metas, clock, lock, told>>,
           call[c].step # "write", r.step # "write",
           ClientOK(c)'
    PROVE  FsInv'
  <1>1. call \in [Clients -> Call]
    BY DEF FsInv, FsTypeOK
  <1>2. FsTypeOK'
    BY <1>1 DEF FsInv, FsTypeOK
  <1>3. call'[c] = r /\ \A d \in Clients \ {c} : call'[d] = call[d]
    BY <1>1
  <1>4. OneWriter'
    BY <1>3, NilAssumption DEF FsInv, FsTypeOK, OneWriter
  <1>5. OneDirectory'
    BY DEF FsInv, OneDirectory
  <1>6. \A b \in Buckets, k \in Keys :
           (Writing(b, k)' <=> Writing(b, k)) /\ SameFile(b, k) /\ SameMeta(b, k)
    BY <1>3 DEF Writing, SameFile, SameMeta, HasFile
  <1>7. ASSUME NEW b \in Buckets, NEW k \in Keys PROVE KeyOK(b, k)'
    BY <1>6, KeyKept DEF FsInv
  <1>8. ASSUME NEW d \in Clients \ {c} PROVE ClientOK(d)'
    <2>1. call[d] \in Call /\ ClientOK(d) /\ call'[d] = call[d]
      BY <1>3 DEF FsInv, FsTypeOK
    <2>2. call[d].step \in {"merge", "lock", "write", "stream"} /\ Opened(call[d]) =>
             /\ call[d].source.bucket \in Buckets /\ call[d].source.key \in Keys
             /\ HasFile(call[d].source.bucket, call[d].source.key)
      <3>1. call[d].step \in {"merge", "lock", "write", "stream"} => call[d].source \in Source
        BY <2>1, CallForms
      <3>2. QED
        BY <2>1, <3>1, SourceForms DEF ClientOK, SourceOK, Opened
    <2>3. call[d].step = "write" => call[d].bucket \in Buckets /\ call[d].key \in Keys
      BY <2>1, CallForms
    <2>4. call[d].step = "stream" /\ Opened(call[d]) =>
             ~Writing(call[d].source.bucket, call[d].source.key)
      BY <2>1 DEF ClientOK, StreamOK, Opened
    <2>5. QED
      BY <1>6, <2>1, <2>2, <2>3, <2>4, CallKept DEF SameFile
  <1>9. QED
    BY <1>2, <1>4, <1>5, <1>7, <1>8 DEF FsInv

LEMMA PutObjectOK ==
    ASSUME FsInv, NEW c \in Clients, NEW b \in Buckets, NEW k \in Keys,
           NEW body \in Bodies, NEW meta \in Headers, PutObject(c, b, k, body, meta)
    PROVE  FsInv'
  <1> DEFINE s == [kind |-> "body", blocks |-> Whole(body), holds |-> body]
             r == [step |-> "merge", bucket |-> b, key |-> k, meta |-> meta, source |-> s]
  <1>1. /\ call[c].step = "idle" /\ call' = [call EXCEPT ![c] = r]
        /\ UNCHANGED <<setup, files, dirs, metas, clock, lock, told>>
    BY DEF PutObject, Idle
  <1>2. s \in Source /\ s.kind = "body" /\ s.blocks = Whole(s.holds)
    BY WholeIs DEF Source
  <1> HIDE DEF s
  <1>3. r \in Call /\ r.step = "merge" /\ r.source = s
    BY <1>2 DEF Call
  <1> HIDE DEF r
  <1>4. call'[c] = r
    BY <1>1 DEF FsInv, FsTypeOK
  <1>5. ClientOK(c)'
    BY <1>2, <1>3, <1>4 DEF ClientOK, SourceOK
  <1>6. QED
    BY <1>1, <1>3, <1>5, CallStep

LEMMA IdleIs == Idle \in Call /\ Idle.step = "idle"
  BY DEF Call, Idle

LEMMA CreateFileFailsOK ==
    ASSUME FsInv, NEW c \in Clients, CreateFileFails(c)
    PROVE  FsInv'
  <1>1. /\ call[c].step = "lock" /\ call' = [call EXCEPT ![c] = Idle]
        /\ UNCHANGED <<setup, files, dirs, metas, clock, lock, told>>
    BY DEF CreateFileFails
  <1>2. call'[c] = Idle
    BY <1>1 DEF FsInv, FsTypeOK
  <1>3. ClientOK(c)'
    BY <1>2, IdleIs DEF ClientOK
  <1>4. QED
    BY <1>1, <1>3, IdleIs, CallStep

\* Reading on keeps to what was announced.
LEMMA StreamBlockOK ==
    ASSUME FsInv, NEW c \in Clients, StreamBlock(c)
    PROVE  FsInv'
  <1> DEFINE s == call[c]
             more == s.step = "stream" /\ Len(s.got) < Len(Readable(s.source))
             r == [s EXCEPT !.got = Append(s.got, Readable(s.source)[Len(s.got) + 1])]
  <1>1. s \in Call /\ call \in [Clients -> Call] /\ ClientOK(c)
    BY DEF FsInv, FsTypeOK
  <1>2. /\ s.step \in {"stream", "adrift"}
        /\ UNCHANGED <<setup, files, dirs, metas, clock, lock, told>>
    BY DEF StreamBlock
  <1>3. CASE ~more
    <2>1. call' = [call EXCEPT ![c] = Idle]
      BY <1>3 DEF StreamBlock
    <2>2. ClientOK(c)'
      BY <1>1, <2>1, IdleIs DEF ClientOK
    <2>3. QED
      BY <1>2, <2>1, <2>2, IdleIs, CallStep
  <1>4. CASE more
    <2>1. s \in [step : {"stream"}, source : Source, hash : Contents, got : Contents]
      BY <1>1, <1>4, CallForms
    <2>2. call' = [call EXCEPT ![c] = r]
      BY <1>4, <2>1 DEF StreamBlock
    <2>3. StreamOK(s) /\ SourceOK(s.source)
      BY <1>1, <1>4 DEF ClientOK
    <2>4. Readable(s.source) = s.hash /\ Prefix(s.got, s.hash)
      BY <2>3 DEF StreamOK
    <2> DEFINE g == Append(s.got, Readable(s.source)[Len(s.got) + 1])
    <2>5. g \in Contents /\ Prefix(g, s.hash)
      BY <1>4, <2>1, <2>4, BlockAppended
    <2> HIDE DEF g
    <2>6. r = [s EXCEPT !.got = g]
      BY DEF g
    <2>7. /\ r \in [step : {"stream"}, source : Source, hash : Contents, got : Contents]
          /\ r.source = s.source /\ r.hash = s.hash /\ r.got = g /\ r.step = "stream"
      BY <2>1, <2>5, <2>6
    <2>8. r \in Call
      BY <2>7 DEF Call
    <2> HIDE DEF r
    <2>9. call'[c] = r
      BY <1>1, <2>2
    <2>10. SourceOK(call[c].source)' /\ Readable(call[c].source)' = Readable(s.source)
      BY <1>2, <2>3, <2>7, <2>9 DEF SourceOK, Readable, HasFile
    <2>11. Writing(s.source.bucket, s.source.key)' => Writing(s.source.bucket, s.source.key)
      BY <1>1, <2>2, <2>7 DEF Writing
    <2>12. StreamOK(call[c])'
      BY <2>3, <2>5, <2>7, <2>9, <2>10, <2>11 DEF StreamOK
    <2>13. ClientOK(c)'
      BY <2>7, <2>9, <2>10, <2>12 DEF ClientOK
    <2>14. QED
      BY <1>2, <1>4, <2>2, <2>7, <2>8, <2>13, CallStep
  <1>5. QED
    BY <1>3, <1>4

-----------------------------------------------------------------------------
(* Files that are removed.                                                 *)

\* The source of a call that has one.
LEMMA SourceOf ==
    ASSUME FsInv, NEW c \in Clients, call[c].step \in {"merge", "lock", "write", "stream"}
    PROVE  /\ call[c] \in Call /\ ClientOK(c) /\ call[c].source \in Source
           /\ SourceOK(call[c].source)
           /\ Opened(call[c]) =>
                 /\ call[c].source.bucket \in Buckets /\ call[c].source.key \in Keys
                 /\ HasFile(call[c].source.bucket, call[c].source.key)
           /\ call[c].step = "write" => call[c].bucket \in Buckets /\ call[c].key \in Keys
  <1>1. call[c] \in Call /\ ClientOK(c)
    BY DEF FsInv, FsTypeOK
  <1>2. call[c].source \in Source
    BY <1>1, CallForms
  <1>3. SourceOK(call[c].source)
    BY <1>1 DEF ClientOK
  <1>4. QED
    BY <1>1, <1>2, <1>3, SourceForms, CallForms DEF Opened, SourceOK

LEMMA TickOK ==
    ASSUME FsInv, Tick
    PROVE  FsInv'
  <1>1. /\ clock' \in 0..MaxTime
        /\ UNCHANGED <<setup, files, dirs, metas, lock, call, told>>
    BY FsAssumption DEF Tick, FsInv, FsTypeOK
  <1>2. FsTypeOK' /\ OneWriter' /\ OneDirectory'
    BY <1>1 DEF FsInv, FsTypeOK, OneWriter, OneDirectory
  <1>3. \A b \in Buckets, k \in Keys : KeyOK(b, k)'
    BY <1>1 DEF FsInv, KeyOK, Served, HasFile, Trusted, Writing
  <1>4. \A c \in Clients : ClientOK(c)'
    BY <1>1 DEF FsInv, ClientOK, SourceOK, WriteOK, StreamOK, Readable, HasFile, Writing
  <1>5. QED
    BY <1>2, <1>3, <1>4 DEF FsInv

\* The files of some keys of a bucket go, or were not there, and no other is touched.
LEMMA RemoveKeeps ==
    ASSUME FsInv, Unlocked, NEW b \in Buckets, NEW ks \in SUBSET Keys,
           UNCHANGED <<setup, clock, lock>>,
           files' \in [Buckets -> [Keys -> File \cup {NoFile}] \cup {NoBucket}],
           dirs' \in [Buckets -> SUBSET {Dir[k] : k \in Keys}],
           metas' \in [Buckets -> [Keys -> MetaFile]],
           told' \in [Buckets -> [Keys -> Told]],
           call' \in [Clients -> Call],
           \A c \in Clients : call'[c] = Unlink(call, b, ks)[c],
           \A d \in Buckets : files'[d] # NoBucket => files[d] # NoBucket \/ setup.kind = "multi",
           \A k \in ks : told'[b][k] = Gone /\ ~HasFile(b, k)',
           \A d \in Buckets, k \in Keys :
              \/ d = b /\ k \in ks
              \/ SameFile(d, k) /\ SameMeta(d, k) /\ told'[d][k] = told[d][k]
    PROVE  FsInv'
  <1>1. ASSUME NEW c \in Clients
        PROVE  call'[c] \in Call /\ call'[c].step = call[c].step
    BY UnlinkIs
  <1>3. FsTypeOK'
    BY DEF FsInv, FsTypeOK, MetaFile
  <1>4. \A c \in Clients : call[c].step # "write" /\ call'[c].step # "write"
    BY <1>1, NobodyWrites DEF FsInv
  <1>5. OneWriter'
    BY <1>4 DEF OneWriter, Unlocked
  <1>6. OneDirectory'
    BY DEF FsInv, OneDirectory
  <1>7. \A d \in Buckets, k \in Keys : ~Writing(d, k) /\ ~Writing(d, k)'
    BY <1>4 DEF Writing
  <1>8. ASSUME NEW d \in Buckets, NEW k \in Keys PROVE KeyOK(d, k)'
    <2>1. CASE d = b /\ k \in ks
      BY <2>1, KeyGone
    <2>2. CASE SameFile(d, k) /\ SameMeta(d, k) /\ told'[d][k] = told[d][k]
      BY <1>7, <2>2, KeyKept DEF FsInv
    <2>3. QED
      BY <2>1, <2>2
  <1>9. ASSUME NEW c \in Clients PROVE ClientOK(c)'
    <2>1. CASE \E k \in ks : Linked(c, b, k)
      BY <2>1, UnlinkedOK
    <2>2. CASE ~\E k \in ks : Linked(c, b, k)
      <3>1. call'[c] = call[c]
        BY <2>2, UnlinkIs
      <3>2. call[c].step \in {"merge", "lock", "stream"} /\ Opened(call[c]) =>
               ~(call[c].source.bucket = b /\ call[c].source.key \in ks)
        BY <2>2 DEF Linked, Opened
      <3>3. call[c] \in Call /\ ClientOK(c) /\ call[c].step # "write"
        BY <1>4 DEF FsInv, FsTypeOK
      <3>4. ASSUME call[c].step \in {"merge", "lock", "stream"}, Opened(call[c]),
                   NEW d \in Buckets, NEW j \in Keys,
                   d = call[c].source.bucket, j = call[c].source.key
            PROVE  SameFile(d, j) /\ HasFile(d, j) /\ ~Writing(d, j)'
        BY <1>7, <3>2, <3>4, SourceOf
      <3>5. call[c].step \in {"merge", "lock", "stream"} /\ Opened(call[c]) =>
               /\ SameFile(call[c].source.bucket, call[c].source.key)
               /\ HasFile(call[c].source.bucket, call[c].source.key)'
               /\ ~Writing(call[c].source.bucket, call[c].source.key)'
        BY <3>1, <3>4, SourceOf DEF SameFile, HasFile, Writing
      <3>6. QED
        BY <3>1, <3>3, <3>5, CallKept
    <2>3. QED
      BY <2>1, <2>2
  <1>10. QED
    BY <1>3, <1>5, <1>6, <1>8, <1>9 DEF FsInv

\* Nobody has a file open that is not there.
LEMMA NothingToUnlink ==
    ASSUME FsInv, Unlocked, NEW b \in Buckets, NEW ks \in SUBSET Keys,
           \A k \in ks : ~HasFile(b, k), NEW c \in Clients
    PROVE  Unlink(call, b, ks)[c] = call[c]
  <1>1. ASSUME NEW k \in ks, Linked(c, b, k) PROVE FALSE
    BY <1>1, SourceOf DEF Linked, Opened
  <1>2. QED
    BY <1>1, UnlinkIs

LEMMA CreateBucketOK ==
    ASSUME FsInv, NEW b \in Buckets, CreateBucket(b)
    PROVE  FsInv'
  <1>1. /\ Unlocked /\ setup.kind = "multi" /\ files[b] = NoBucket
        /\ files' = [files EXCEPT ![b] = Empty]
        /\ told' = [told EXCEPT ![b] = [k \in Keys |-> Gone]]
        /\ UNCHANGED <<setup, dirs, metas, clock, lock, call>>
    BY DEF CreateBucket
  <1>2. Empty \in [Keys -> File \cup {NoFile}] /\ \A k \in Keys : Empty[k] = NoFile
    BY DEF Empty
  <1>3. /\ files' \in [Buckets -> [Keys -> File \cup {NoFile}] \cup {NoBucket}]
        /\ dirs' \in [Buckets -> SUBSET {Dir[k] : k \in Keys}]
        /\ metas' \in [Buckets -> [Keys -> MetaFile]]
        /\ told' \in [Buckets -> [Keys -> Told]]
        /\ call' \in [Clients -> Call]
    BY <1>1, <1>2 DEF FsInv, FsTypeOK, MetaFile, Told
  <1>4. \A c \in Clients : call'[c] = Unlink(call, b, Keys)[c]
    BY <1>1, NothingToUnlink DEF HasFile
  <1>5. \A k \in Keys : told'[b][k] = Gone /\ ~HasFile(b, k)'
    BY <1>1, <1>2 DEF HasFile, FsInv, FsTypeOK
  <1>6. \A d \in Buckets, k \in Keys :
           d = b \/ (SameFile(d, k) /\ SameMeta(d, k) /\ told'[d][k] = told[d][k])
    BY <1>1 DEF HasFile, SameFile, SameMeta, FsInv, FsTypeOK
  <1>7. QED
    BY <1>1, <1>3, <1>4, <1>5, <1>6, RemoveKeeps

LEMMA DeleteBucketOK ==
    ASSUME FsInv, NEW b \in Buckets, DeleteBucket(b)
    PROVE  FsInv'
  <1>1. /\ Unlocked /\ setup.kind = "multi" /\ files[b] = Empty
        /\ files' = [files EXCEPT ![b] = NoBucket]
        /\ dirs' = [dirs EXCEPT ![b] = {}]
        /\ told' = [told EXCEPT ![b] = [k \in Keys |-> Gone]]
        /\ metas' = [metas EXCEPT ![b] = Empty]
        /\ UNCHANGED <<setup, clock, lock, call>>
    BY DEF DeleteBucket, Deletable, RemoveBucket
  <1>2. Empty \in [Keys -> MetaFile] /\ \A k \in Keys : Empty[k] = NoFile
    BY DEF Empty, MetaFile
  <1>3. /\ files' \in [Buckets -> [Keys -> File \cup {NoFile}] \cup {NoBucket}]
        /\ dirs' \in [Buckets -> SUBSET {Dir[k] : k \in Keys}]
        /\ metas' \in [Buckets -> [Keys -> MetaFile]]
        /\ told' \in [Buckets -> [Keys -> Told]]
        /\ call' \in [Clients -> Call]
    BY <1>1, <1>2 DEF FsInv, FsTypeOK, MetaFile, Told
  <1>4. \A c \in Clients : call'[c] = Unlink(call, b, Keys)[c]
    BY <1>1, <1>2, NothingToUnlink DEF HasFile
  <1>5. \A k \in Keys : told'[b][k] = Gone /\ ~HasFile(b, k)'
    BY <1>1 DEF HasFile, FsInv, FsTypeOK
  <1>6. \A d \in Buckets, k \in Keys :
           d = b \/ (SameFile(d, k) /\ SameMeta(d, k) /\ told'[d][k] = told[d][k])
    BY <1>1 DEF HasFile, SameFile, SameMeta, FsInv, FsTypeOK
  <1>7. QED
    BY <1>1, <1>3, <1>4, <1>5, <1>6, RemoveKeeps

LEMMA UnlinkTyped ==
    ASSUME FsInv, Unlocked, NEW b \in Buckets, NEW ks \in SUBSET Keys
    PROVE  Unlink(call, b, ks) \in [Clients -> Call]
  <1> DEFINE f == Unlink(call, b, ks)
  <1>1. \A c \in Clients : f[c] \in Call
    BY UnlinkIs
  <1>2. f = [c \in Clients |-> f[c]]
    BY DEF Unlink
  <1> HIDE DEF f
  <1>3. [c \in Clients |-> f[c]] \in [Clients -> Call]
    BY <1>1
  <1>4. f \in [Clients -> Call]
    BY <1>2, <1>3
  <1>5. QED
    BY <1>4 DEF f

LEMMA ForceDeleteBucketOK ==
    ASSUME FsInv, NEW b \in Buckets, ForceDeleteBucket(b)
    PROVE  FsInv'
  <1>1. /\ Unlocked /\ files[b] # NoBucket
        /\ \/ files' = [files EXCEPT ![b] = NoBucket]
           \/ files' = [files EXCEPT ![b] = Empty]
        /\ dirs' = [dirs EXCEPT ![b] = {}]
        /\ told' = [told EXCEPT ![b] = [k \in Keys |-> Gone]]
        /\ metas' = [metas EXCEPT ![b] = [k \in Keys |->
              IF setup.kind = "multi" \/ HasFile(b, k) THEN NoFile ELSE @[k]]]
        /\ call' = Unlink(call, b, FilesOf(b))
        /\ UNCHANGED <<setup, clock, lock>>
    BY DEF ForceDeleteBucket, RemoveBucket
  <1>2. Empty \in [Keys -> File \cup {NoFile}] /\ \A k \in Keys : Empty[k] = NoFile
    BY DEF Empty
  <1>3. files' \in [Buckets -> [Keys -> File \cup {NoFile}] \cup {NoBucket}]
    BY <1>1, <1>2 DEF FsInv, FsTypeOK
  <1>4. metas' \in [Buckets -> [Keys -> MetaFile]]
    BY <1>1 DEF FsInv, FsTypeOK, MetaFile
  <1>5. /\ dirs' \in [Buckets -> SUBSET {Dir[k] : k \in Keys}]
        /\ told' \in [Buckets -> [Keys -> Told]]
    BY <1>1 DEF FsInv, FsTypeOK, Told
  <1>6. FilesOf(b) \in SUBSET Keys
    BY DEF FilesOf
  <1>7. call' \in [Clients -> Call]
    BY <1>1, <1>6, UnlinkTyped
  <1>8. ASSUME NEW c \in Clients PROVE call'[c] = Unlink(call, b, Keys)[c]
    <2>1. \A k \in Keys : Linked(c, b, k) => k \in FilesOf(b)
      BY SourceOf DEF Linked, Opened, FilesOf
    <2>2. (\E k \in Keys : Linked(c, b, k)) <=> (\E k \in FilesOf(b) : Linked(c, b, k))
      BY <1>6, <2>1
    <2>3. QED
      BY <1>1, <2>2 DEF Unlink
  <1>9. \A k \in Keys : told'[b][k] = Gone /\ ~HasFile(b, k)'
    BY <1>1, <1>2 DEF HasFile, FsInv, FsTypeOK
  <1>10. \A d \in Buckets, k \in Keys :
           d = b \/ (SameFile(d, k) /\ SameMeta(d, k) /\ told'[d][k] = told[d][k])
    BY <1>1 DEF HasFile, SameFile, SameMeta, FsInv, FsTypeOK
  <1>11. \A d \in Buckets : files'[d] # NoBucket => files[d] # NoBucket
    BY <1>1 DEF FsInv, FsTypeOK
  <1>12. QED
    BY <1>1, <1>3, <1>4, <1>5, <1>7, <1>8, <1>9, <1>10, <1>11, RemoveKeeps

LEMMA DeleteMultiOK ==
    ASSUME FsInv, NEW b \in Buckets, NEW ks \in SUBSET Keys, DeleteMulti(b, ks)
    PROVE  FsInv'
  <1>1. /\ Unlocked
        /\ files' = IF files[b] = NoBucket THEN files
                ELSE [files EXCEPT ![b] = [k \in Keys |-> IF k \in ks THEN NoFile ELSE @[k]]]
        /\ metas' = [metas EXCEPT ![b] = [k \in Keys |-> IF k \in ks THEN NoFile ELSE @[k]]]
        /\ told' = [told EXCEPT ![b] = [k \in Keys |-> IF k \in ks THEN Gone ELSE @[k]]]
        /\ call' = Unlink(call, b, ks)
        /\ UNCHANGED <<setup, dirs, clock, lock>>
    BY DEF DeleteMulti
  <1>2. /\ files' \in [Buckets -> [Keys -> File \cup {NoFile}] \cup {NoBucket}]
        /\ \A d \in Buckets : files'[d] # NoBucket => files[d] # NoBucket
        /\ \A k \in ks : ~HasFile(b, k)'
        /\ \A d \in Buckets, k \in Keys : (d = b /\ k \in ks) \/ SameFile(d, k)
    <2>1. CASE files[b] = NoBucket
      BY <1>1, <2>1 DEF FsInv, FsTypeOK, HasFile, SameFile
    <2>2. CASE files[b] # NoBucket
      <3>1. /\ files[b] \in [Keys -> File \cup {NoFile}]
            /\ files' = [files EXCEPT ![b] =
                  [k \in Keys |-> IF k \in ks THEN NoFile ELSE files[b][k]]]
        BY <1>1, <2>2 DEF FsInv, FsTypeOK
      <3>2. files' \in [Buckets -> [Keys -> File \cup {NoFile}] \cup {NoBucket}]
        BY <3>1 DEF FsInv, FsTypeOK
      <3>3. /\ files'[b] # NoBucket
            /\ \A k \in Keys : files'[b][k] = IF k \in ks THEN NoFile ELSE files[b][k]
            /\ \A d \in Buckets : d # b => files'[d] = files[d]
        BY <3>1, NilAssumption DEF FsInv, FsTypeOK
      <3>4. QED
        BY <2>2, <3>2, <3>3 DEF HasFile, SameFile
    <2>3. QED
      BY <2>1, <2>2
  <1>3. /\ metas' \in [Buckets -> [Keys -> MetaFile]]
        /\ \A d \in Buckets, k \in Keys : (d = b /\ k \in ks) \/ SameMeta(d, k)
    BY <1>1 DEF FsInv, FsTypeOK, MetaFile, SameMeta
  <1>4. /\ told' \in [Buckets -> [Keys -> Told]]
        /\ \A k \in ks : told'[b][k] = Gone
        /\ \A d \in Buckets, k \in Keys : (d = b /\ k \in ks) \/ told'[d][k] = told[d][k]
    BY <1>1 DEF FsInv, FsTypeOK, Told
  <1>5. dirs' \in [Buckets -> SUBSET {Dir[k] : k \in Keys}]
    BY <1>1 DEF FsInv, FsTypeOK
  <1>6. call' \in [Clients -> Call] /\ \A c \in Clients : call'[c] = Unlink(call, b, ks)[c]
    BY <1>1, UnlinkTyped
  <1>7. QED
    BY <1>1, <1>2, <1>3, <1>4, <1>5, <1>6, RemoveKeeps

-----------------------------------------------------------------------------
(* Crashes.                                                                *)

\* After a restart each key is what it was, unless the crash left it half-written or
\* half-removed; what was in memory only is gone.
LEMMA RestartOK ==
    ASSUME FsInv, NEW ms \in [Buckets -> [Keys -> MetaFile]], NEW ts \in [Buckets -> [Keys -> Told]],
           Restart(ms, ts),
           files' \in [Buckets -> [Keys -> File \cup {NoFile}] \cup {NoBucket}],
           dirs' \in [Buckets -> SUBSET {Dir[k] : k \in Keys}],
           \A d \in Buckets : files'[d] # NoBucket => files[d] # NoBucket,
           \A d \in Buckets, k \in Keys :
              \/ ts[d][k] = Damaged
              \/ ts[d][k] = Gone /\ ~HasFile(d, k)'
              \/ /\ ts[d][k] = told[d][k] /\ ms[d][k] = metas[d][k]
                 /\ SameFile(d, k) /\ ~Writing(d, k)
    PROVE  FsInv'
  <1>1. /\ setup.onDisk
        /\ metas' = IF setup.keepsMeta THEN ms ELSE [b \in Buckets |-> Empty]
        /\ told' = [b \in Buckets |-> [k \in Keys |->
              IF ts[b][k] \in Object /\ ~setup.keepsMeta
              THEN [ts[b][k] EXCEPT !.meta = NoMeta] ELSE ts[b][k]]]
        /\ lock' = NoClient
        /\ call' = [c \in Clients |-> Idle]
        /\ UNCHANGED <<setup, clock>>
    BY DEF Restart
  <1>2. Empty \in [Keys -> MetaFile] /\ \A k \in Keys : Empty[k] = NoFile
    BY DEF Empty, MetaFile
  <1>3. \A o \in Object : /\ [o EXCEPT !.meta = NoMeta] \in Object
                          /\ [o EXCEPT !.meta = NoMeta].body = o.body
                          /\ [o EXCEPT !.meta = NoMeta].meta = NoMeta
    BY DEF Object, Headers
  <1>4. FsTypeOK'
    <2>1. metas' \in [Buckets -> [Keys -> MetaFile]]
      BY <1>1, <1>2
    <2>2. told' \in [Buckets -> [Keys -> Told]]
      BY <1>1, <1>3 DEF Told
    <2>3. call' \in [Clients -> Call]
      BY <1>1, IdleIs
    <2>4. QED
      BY <1>1, <2>1, <2>2, <2>3 DEF FsInv, FsTypeOK, MetaFile
  <1>5. \A c \in Clients : call'[c].step = "idle"
    BY <1>1, IdleIs
  <1>6. OneWriter' /\ OneDirectory'
    BY <1>1, <1>5 DEF OneWriter, OneDirectory, FsInv
  <1>7. \A c \in Clients : ClientOK(c)'
    BY <1>5 DEF ClientOK
  <1>8. ASSUME NEW b \in Buckets, NEW k \in Keys PROVE KeyOK(b, k)'
    <2>1. CASE ts[b][k] = Damaged
      <3>1. told'[b][k] = Damaged
        BY <1>1, <2>1, NilAssumption
      <3>2. QED
        BY <3>1, KeyDamaged
    <2>2. CASE ts[b][k] = Gone /\ ~HasFile(b, k)'
      <3>1. told'[b][k] = Gone
        BY <1>1, <2>2, NilAssumption
      <3>2. QED
        BY <2>2, <3>1, KeyGone
    <2>3. CASE /\ ts[b][k] = told[b][k] /\ ms[b][k] = metas[b][k]
               /\ SameFile(b, k) /\ ~Writing(b, k)
      <3>1. /\ told[b][k] \in Object => Served(b, k)
            /\ told[b][k] = Gone => ~HasFile(b, k)
        BY <2>3 DEF FsInv, KeyOK
      <3>2. CASE told[b][k] \in Object /\ setup.keepsMeta
        <4>1. told'[b][k] = told[b][k] /\ metas'[b][k] = metas[b][k]
          BY <1>1, <2>3, <3>2
        <4>2. HasFile(b, k) /\ HasFile(b, k)' /\ files'[b][k] = files[b][k]
          BY <2>3, <3>1, <3>2 DEF Served, SameFile
        <4>3. Served(b, k)'
          BY <1>1, <3>1, <3>2, <4>1, <4>2 DEF Served, Trusted
        <4>4. QED
          BY <3>2, <4>1, <4>3, NilAssumption DEF KeyOK
      <3>3. CASE told[b][k] \in Object /\ ~setup.keepsMeta
        <4>1. told'[b][k] = [told[b][k] EXCEPT !.meta = NoMeta] /\ metas'[b][k] = NoFile
          BY <1>1, <1>2, <2>3, <3>3
        <4>2. HasFile(b, k) /\ HasFile(b, k)' /\ files'[b][k] = files[b][k]
          BY <2>3, <3>1, <3>3 DEF Served, SameFile
        <4>3. setup.kind = "single" /\ setup' = setup
          BY <1>1, <3>3, FsAssumption DEF FsInv, FsTypeOK, Setup
        <4>4. /\ told'[b][k].body = told[b][k].body /\ told'[b][k].meta = NoMeta
              /\ told'[b][k] \in Object
          BY <1>3, <3>3, <4>1
        <4>5. Served(b, k)'
          BY <3>1, <3>3, <4>1, <4>2, <4>3, <4>4 DEF Served
        <4>6. QED
          BY <4>4, <4>5, NilAssumption DEF KeyOK
      <3>4. CASE told[b][k] \notin Object
        <4>1. told'[b][k] = told[b][k]
          BY <1>1, <2>3, <3>4
        <4>2. QED
          BY <2>3, <3>1, <3>4, <4>1 DEF KeyOK, SameFile
      <3>5. QED
        BY <3>2, <3>3, <3>4
    <2>4. QED
      BY <2>1, <2>2, <2>3
  <1>9. QED
    BY <1>4, <1>6, <1>7, <1>8 DEF FsInv

LEMMA CrashOK ==
    ASSUME FsInv, Crash
    PROVE  FsInv'
  <1>1. Unlocked /\ Restart(metas, told) /\ UNCHANGED <<files, dirs>>
    BY DEF Crash
  <1>2. \A d \in Buckets, k \in Keys : SameFile(d, k) /\ ~Writing(d, k)
    BY <1>1, NobodyWrites DEF FsInv, SameFile, HasFile
  <1>3. /\ metas \in [Buckets -> [Keys -> MetaFile]]
        /\ told \in [Buckets -> [Keys -> Told]]
        /\ files' \in [Buckets -> [Keys -> File \cup {NoFile}] \cup {NoBucket}]
        /\ dirs' \in [Buckets -> SUBSET {Dir[k] : k \in Keys}]
    BY <1>1 DEF FsInv, FsTypeOK, MetaFile
  <1>4. QED
    BY <1>1, <1>2, <1>3, RestartOK

\* A key that is being written is written by who holds the lock.
LEMMA WriterIs ==
    ASSUME FsInv, NEW c \in Clients, call[c].step = "write"
    PROVE  /\ lock = c /\ call[c] \in Call
           /\ call[c].bucket \in Buckets /\ call[c].key \in Keys
           /\ call[c].source \in Source /\ call[c].meta \in Headers /\ call[c].hashed \in Contents
           /\ SourceOK(call[c].source) /\ WriteOK(call[c])
           /\ \A d \in Clients \ {c} : call[d].step # "write"
           /\ \A b \in Buckets, k \in Keys :
                 Writing(b, k) <=> b = call[c].bucket /\ k = call[c].key
  <1>1. call[c] \in Call /\ ClientOK(c)
    BY DEF FsInv, FsTypeOK
  <1>2. call[c] \in [step : {"write"}, bucket : Buckets, key : Keys, source : Source,
                     meta : Headers, hashed : Contents]
    BY <1>1, CallForms
  <1>3. lock = c /\ \A d \in Clients \ {c} : call[d].step # "write"
    BY DEF FsInv, OneWriter
  <1>4. \A b \in Buckets, k \in Keys :
           Writing(b, k) <=> b = call[c].bucket /\ k = call[c].key
    BY <1>3 DEF Writing
  <1>5. QED
    BY <1>1, <1>2, <1>3, <1>4 DEF ClientOK

LEMMA CrashInPutOK ==
    ASSUME FsInv, NEW c \in Clients, CrashInPut(c)
    PROVE  FsInv'
  <1> DEFINE w == call[c]
  <1>1. w.step = "write" /\ UNCHANGED <<files, dirs>>
    BY DEF CrashInPut
  <1>2. PICK left \in {metas[w.bucket][w.key], EmptyFile, TornFile} :
           Restart([metas EXCEPT ![w.bucket][w.key] = left],
                   [told EXCEPT ![w.bucket][w.key] = Damaged])
    BY DEF CrashInPut
  <1> DEFINE ms == [metas EXCEPT ![w.bucket][w.key] = left]
             ts == [told EXCEPT ![w.bucket][w.key] = Damaged]
  <1>3. /\ w.bucket \in Buckets /\ w.key \in Keys
        /\ \A b \in Buckets, k \in Keys : Writing(b, k) <=> b = w.bucket /\ k = w.key
    BY <1>1, WriterIs
  <1>4. left \in MetaFile
    BY <1>3, FilesTyped DEF FsInv, MetaFile
  <1>5. /\ ms \in [Buckets -> [Keys -> MetaFile]]
        /\ ts \in [Buckets -> [Keys -> Told]]
        /\ ts[w.bucket][w.key] = Damaged
        /\ \A b \in Buckets, k \in Keys :
              (b = w.bucket /\ k = w.key) \/ (ms[b][k] = metas[b][k] /\ ts[b][k] = told[b][k])
    BY <1>3, <1>4 DEF FsInv, FsTypeOK, MetaFile, Told
  <1>6. Restart(ms, ts)
    BY <1>2
  <1> HIDE DEF ms, ts
  <1>7. \A d \in Buckets, k \in Keys :
           \/ ts[d][k] = Damaged
           \/ /\ ts[d][k] = told[d][k] /\ ms[d][k] = metas[d][k]
              /\ SameFile(d, k) /\ ~Writing(d, k)
    BY <1>1, <1>3, <1>5 DEF SameFile, HasFile
  <1>8. /\ files' \in [Buckets -> [Keys -> File \cup {NoFile}] \cup {NoBucket}]
        /\ dirs' \in [Buckets -> SUBSET {Dir[k] : k \in Keys}]
    BY <1>1 DEF FsInv, FsTypeOK
  <1>9. QED
    BY <1>1, <1>5, <1>6, <1>7, <1>8, RestartOK

LEMMA CrashInDeleteOK ==
    ASSUME FsInv, NEW b \in Buckets, NEW ks \in SUBSET Keys, CrashInDelete(b, ks)
    PROVE  FsInv'
  <1> DEFINE ts == [told EXCEPT ![b] = [k \in Keys |-> IF k \in ks THEN Gone ELSE @[k]]]
  <1>1. /\ Unlocked /\ ks # {} /\ ks \subseteq FilesOf(b) /\ dirs' = dirs
        /\ files' = [files EXCEPT ![b] = [k \in Keys |-> IF k \in ks THEN NoFile ELSE @[k]]]
        /\ Restart(metas, ts)
    BY DEF CrashInDelete
  <1>2. files[b] # NoBucket /\ files[b] \in [Keys -> File \cup {NoFile}]
    BY <1>1, FilesTyped DEF FilesOf, HasFile, FsInv
  <1>3. /\ files' \in [Buckets -> [Keys -> File \cup {NoFile}] \cup {NoBucket}]
        /\ files'[b] # NoBucket
        /\ \A k \in Keys : files'[b][k] = IF k \in ks THEN NoFile ELSE files[b][k]
        /\ \A d \in Buckets : d # b => files'[d] = files[d]
    BY <1>1, <1>2, NilAssumption DEF FsInv, FsTypeOK
  <1>4. /\ ts \in [Buckets -> [Keys -> Told]]
        /\ \A k \in ks : ts[b][k] = Gone
        /\ \A d \in Buckets, k \in Keys : (d = b /\ k \in ks) \/ ts[d][k] = told[d][k]
    BY DEF FsInv, FsTypeOK, Told
  <1> HIDE DEF ts
  <1>5. \A k \in ks : ~HasFile(b, k)'
    BY <1>3 DEF HasFile
  <1>6. \A d \in Buckets, k \in Keys : (d = b /\ k \in ks) \/ (SameFile(d, k) /\ ~Writing(d, k))
    BY <1>1, <1>2, <1>3, NobodyWrites DEF HasFile, SameFile, FsInv
  <1>7. \A d \in Buckets, k \in Keys :
           \/ ts[d][k] = Damaged
           \/ ts[d][k] = Gone /\ ~HasFile(d, k)'
           \/ /\ ts[d][k] = told[d][k] /\ metas[d][k] = metas[d][k]
              /\ SameFile(d, k) /\ ~Writing(d, k)
    BY <1>4, <1>5, <1>6
  <1>8. /\ metas \in [Buckets -> [Keys -> MetaFile]]
        /\ dirs' \in [Buckets -> SUBSET {Dir[k] : k \in Keys}]
        /\ \A d \in Buckets : files'[d] # NoBucket => files[d] # NoBucket
    BY <1>1, <1>2, <1>3 DEF FsInv, FsTypeOK, MetaFile
  <1>9. QED
    BY <1>1, <1>3, <1>4, <1>7, <1>8, RestartOK

LEMMA CrashInDeleteBucketOK ==
    ASSUME FsInv, NEW b \in Buckets, CrashInDeleteBucket(b)
    PROVE  FsInv'
  <1> DEFINE ts == [told EXCEPT ![b] = [k \in Keys |-> Gone]]
  <1>1. /\ Unlocked
        /\ files' = [files EXCEPT ![b] = NoBucket]
        /\ dirs' = [dirs EXCEPT ![b] = {}]
        /\ Restart(metas, ts)
    BY DEF CrashInDeleteBucket
  <1>2. /\ files' \in [Buckets -> [Keys -> File \cup {NoFile}] \cup {NoBucket}]
        /\ files'[b] = NoBucket
        /\ \A d \in Buckets : d # b => files'[d] = files[d]
        /\ dirs' \in [Buckets -> SUBSET {Dir[k] : k \in Keys}]
    BY <1>1 DEF FsInv, FsTypeOK
  <1>3. /\ ts \in [Buckets -> [Keys -> Told]]
        /\ \A k \in Keys : ts[b][k] = Gone
        /\ \A d \in Buckets, k \in Keys : d = b \/ ts[d][k] = told[d][k]
    BY DEF FsInv, FsTypeOK, Told
  <1> HIDE DEF ts
  <1>4. \A d \in Buckets, k \in Keys :
           \/ ts[d][k] = Damaged
           \/ ts[d][k] = Gone /\ ~HasFile(d, k)'
           \/ /\ ts[d][k] = told[d][k] /\ metas[d][k] = metas[d][k]
              /\ SameFile(d, k) /\ ~Writing(d, k)
    BY <1>1, <1>2, <1>3, NobodyWrites DEF HasFile, SameFile, FsInv
  <1>5. /\ metas \in [Buckets -> [Keys -> MetaFile]]
        /\ \A d \in Buckets : files'[d] # NoBucket => files[d] # NoBucket
    BY <1>2 DEF FsInv, FsTypeOK, MetaFile
  <1>6. /\ Restart(metas, ts)
        /\ ts \in [Buckets -> [Keys -> Told]]
        /\ files' \in [Buckets -> [Keys -> File \cup {NoFile}] \cup {NoBucket}]
        /\ dirs' \in [Buckets -> SUBSET {Dir[k] : k \in Keys}]
    BY <1>1, <1>2, <1>3
  <1>7. QED
    BY <1>4, <1>5, <1>6, RestartOK

-----------------------------------------------------------------------------
(* Writes.                                                                 *)

\* A call that does not write, over a step that changes at most one file, which it
\* is not streaming.
LEMMA BystanderKept ==
    ASSUME FsInv, NEW c \in Clients, call[c].step # "write", call'[c] = call[c],
           NEW b \in Buckets, NEW k \in Keys, HasFile(b, k) => HasFile(b, k)',
           \A d \in Buckets, j \in Keys : (d = b /\ j = k) \/ SameFile(d, j),
           \A d \in Buckets, j \in Keys : (d = b /\ j = k) \/ ~Writing(d, j)',
           call[c].step = "stream" /\ Opened(call[c]) =>
              ~(call[c].source.bucket = b /\ call[c].source.key = k)
                 \/ (SameFile(b, k) /\ ~Writing(b, k)')
    PROVE  ClientOK(c)'
  <1>1. call[c] \in Call /\ ClientOK(c)
    BY DEF FsInv, FsTypeOK
  <1>2. ASSUME call[c].step \in {"merge", "lock"}, Opened(call[c])
        PROVE  HasFile(call[c].source.bucket, call[c].source.key)'
    <2>1. PICK d \in Buckets, j \in Keys :
             d = call[c].source.bucket /\ j = call[c].source.key /\ HasFile(d, j)
      BY <1>2, SourceOf
    <2>2. HasFile(d, j)'
      BY <2>1 DEF SameFile
    <2>3. QED
      BY <2>1, <2>2 DEF HasFile
  <1>3. ASSUME call[c].step = "stream", Opened(call[c])
        PROVE  /\ SameFile(call[c].source.bucket, call[c].source.key)
               /\ ~Writing(call[c].source.bucket, call[c].source.key)'
    <2>1. PICK d \in Buckets, j \in Keys :
             d = call[c].source.bucket /\ j = call[c].source.key /\ HasFile(d, j)
      BY <1>3, SourceOf
    <2>2. SameFile(d, j) /\ ~Writing(d, j)'
      BY <1>3, <2>1
    <2>3. QED
      BY <2>1, <2>2 DEF SameFile, HasFile, Writing
  <1>4. QED
    BY <1>1, <1>2, <1>3, CallKept

\* Nobody streams the file that is being written.
LEMMA NotStreamed ==
    ASSUME FsInv, NEW c \in Clients, call[c].step = "stream", Opened(call[c]),
           NEW b \in Buckets, NEW k \in Keys, Writing(b, k)
    PROVE  ~(call[c].source.bucket = b /\ call[c].source.key = k)
  BY DEF FsInv, ClientOK, StreamOK, Opened

\* The end of a PutObject: the lock is free, and only its key's metadata and what was
\* told of it may differ.
LEMMA EndWrite ==
    ASSUME FsInv, NEW c \in Clients, call[c].step = "write",
           call' = [call EXCEPT ![c] = Idle], lock' = NoClient,
           UNCHANGED <<setup, files, dirs, clock>>,
           metas' \in [Buckets -> [Keys -> MetaFile]],
           told' \in [Buckets -> [Keys -> Told]],
           NEW b \in Buckets, NEW k \in Keys, b = call[c].bucket, k = call[c].key,
           \A d \in Buckets, j \in Keys :
              (d = b /\ j = k) \/ (metas'[d][j] = metas[d][j] /\ told'[d][j] = told[d][j]),
           KeyOK(b, k)'
    PROVE  FsInv'
  <1>1. call \in [Clients -> Call]
    BY DEF FsInv, FsTypeOK
  <1>2. call'[c] = Idle /\ \A d \in Clients \ {c} : call'[d] = call[d]
    BY <1>1
  <1>3. FsTypeOK'
    BY <1>1, IdleIs DEF FsInv, FsTypeOK, MetaFile
  <1>4. \A d \in Clients : call'[d].step # "write"
    BY <1>2, WriterIs, IdleIs
  <1>5. OneWriter'
    BY <1>4 DEF OneWriter
  <1>6. OneDirectory'
    BY DEF FsInv, OneDirectory
  <1>7. \A d \in Buckets, j \in Keys :
           ~Writing(d, j)' /\ SameFile(d, j) /\ ((d = b /\ j = k) \/ ~Writing(d, j))
    BY <1>4, WriterIs DEF Writing, SameFile, HasFile
  <1>8. ASSUME NEW d \in Buckets, NEW j \in Keys PROVE KeyOK(d, j)'
    <2>1. CASE d = b /\ j = k
      BY <2>1
    <2>2. CASE ~(d = b /\ j = k)
      <3>1. SameMeta(d, j) /\ told'[d][j] = told[d][j]
        BY <2>2 DEF SameMeta
      <3>2. QED
        BY <1>7, <2>2, <3>1, KeyKept DEF FsInv
    <2>3. QED
      BY <2>1, <2>2
  <1>9. ASSUME NEW d \in Clients PROVE ClientOK(d)'
    <2>1. CASE d = c
      BY <1>2, <2>1, IdleIs DEF ClientOK
    <2>2. CASE d # c
      <3>1. call'[d] = call[d] /\ call[d].step # "write"
        BY <1>2, <1>4, <2>2
      <3>2. HasFile(b, k) => HasFile(b, k)'
        BY DEF HasFile
      <3>3. QED
        BY <1>7, <3>1, <3>2, BystanderKept
    <2>3. QED
      BY <2>1, <2>2
  <1>10. QED
    BY <1>3, <1>5, <1>6, <1>8, <1>9 DEF FsInv

LEMMA BodyFailsOK ==
    ASSUME FsInv, NEW c \in Clients, BodyFails(c)
    PROVE  FsInv'
  <1>1. /\ call[c].step = "write" /\ call' = [call EXCEPT ![c] = Idle] /\ lock' = NoClient
        /\ told' = [told EXCEPT ![call[c].bucket][call[c].key] = Damaged]
        /\ UNCHANGED <<setup, files, dirs, metas, clock>>
    BY DEF BodyFails
  <1>2. PICK b \in Buckets, k \in Keys : b = call[c].bucket /\ k = call[c].key
    BY <1>1, WriterIs
  <1>3. /\ told' \in [Buckets -> [Keys -> Told]]
        /\ told'[b][k] = Damaged
        /\ \A d \in Buckets, j \in Keys : (d = b /\ j = k) \/ told'[d][j] = told[d][j]
    BY <1>1, <1>2 DEF FsInv, FsTypeOK, Told
  <1>4. metas' \in [Buckets -> [Keys -> MetaFile]]
    BY <1>1 DEF FsInv, FsTypeOK, MetaFile
  <1>5. KeyOK(b, k)'
    BY <1>3, KeyDamaged
  <1>6. \A d \in Buckets, j \in Keys :
           (d = b /\ j = k) \/ (metas'[d][j] = metas[d][j] /\ told'[d][j] = told[d][j])
    BY <1>1, <1>3
  <1>7. /\ call[c].step = "write" /\ call' = [call EXCEPT ![c] = Idle] /\ lock' = NoClient
        /\ UNCHANGED <<setup, files, dirs, clock>>
    BY <1>1
  <1>8. told' \in [Buckets -> [Keys -> Told]]
    BY <1>3
  <1>9. QED
    BY <1>2, <1>4, <1>5, <1>6, <1>7, <1>8, EndWrite

\* What is in the file at the end of the body is what the source contains.
LEMMA WroteWhole ==
    ASSUME FsInv, NEW c \in Clients, call[c].step = "write",
           Len(call[c].hashed) >= Len(Readable(call[c].source)),
           NEW b \in Buckets, NEW k \in Keys, b = call[c].bucket, k = call[c].key,
           Contained(call[c].source, b, k) # Damaged
    PROVE  /\ Contained(call[c].source, b, k) \in Bodies
           /\ call[c].hashed = Whole(Contained(call[c].source, b, k))
  <1> DEFINE s == call[c].source
  <1>1. /\ s \in Source /\ SourceOK(s) /\ call[c].hashed \in Contents
        /\ Prefix(call[c].hashed, Readable(s))
    BY WriterIs DEF WriteOK
  <1>2. call[c].hashed = Readable(s)
    BY <1>1, ReadableTyped, PrefixWhole DEF FsInv
  <1>3. CASE Opened(call[c])
    <2>1. PICK d \in Buckets, j \in Keys : d = s.bucket /\ j = s.key
      BY <1>3, SourceOf
    <2>2. Contained(s, b, k) = Holds(d, j) /\ ~(d = b /\ j = k)
      BY <1>3, <2>1 DEF Contained, Opened
    <2>3. ~Writing(d, j)
      BY <2>2, WriterIs
    <2>4. Holds(d, j) \in Bodies /\ files[d][j].blocks = Whole(Holds(d, j))
      BY <2>2, <2>3, HoldsWhat DEF FsInv
    <2>5. QED
      BY <1>2, <1>3, <2>1, <2>2, <2>4 DEF Readable, Opened
  <1>4. CASE ~Opened(call[c])
    <2>1. Contained(s, b, k) = s.holds /\ Readable(s) = s.blocks
      BY <1>4 DEF Contained, Readable, Opened
    <2>2. s.holds \in Bodies /\ s.blocks = Whole(s.holds)
      BY <1>1, <1>4, <2>1, SourceForms DEF SourceOK, Opened
    <2>3. QED
      BY <1>2, <2>1, <2>2
  <1>5. QED
    BY <1>3, <1>4

LEMMA SaveMetaOK ==
    ASSUME FsInv, NEW c \in Clients, SaveMeta(c)
    PROVE  FsInv'
  <1>1. call[c].step = "write" /\ Len(call[c].hashed) >= Len(Readable(call[c].source))
    BY DEF SaveMeta
  <1>2. PICK b \in Buckets, k \in Keys : b = call[c].bucket /\ k = call[c].key
    BY <1>1, WriterIs
  <1> DEFINE m == [hash |-> call[c].hashed, size |-> Len(files[b][k].blocks),
                   time |-> files[b][k].time, meta |-> call[c].meta]
             body == Contained(call[c].source, b, k)
             t == IF body = Damaged THEN Damaged ELSE [body |-> body, meta |-> call[c].meta]
  <1>3. /\ metas' = [metas EXCEPT ![b][k] = m]
        /\ told' = [told EXCEPT ![b][k] = t]
        /\ call' = [call EXCEPT ![c] = Idle] /\ lock' = NoClient
        /\ UNCHANGED <<setup, files, dirs, clock>>
    BY <1>2 DEF SaveMeta
  <1>4. /\ call[c].hashed \in Contents /\ call[c].meta \in Headers
        /\ HasFile(b, k) /\ files[b][k].blocks = call[c].hashed
    BY <1>1, <1>2, WriterIs DEF WriteOK
  <1>5. m \in Metadata
    BY <1>4, FilesTyped DEF FsInv, Metadata
  <1>6. body # Damaged => body \in Bodies /\ call[c].hashed = Whole(body)
    BY <1>1, <1>2, WroteWhole
  <1>7. t \in Told /\ (t # Damaged => t \in Object /\ t.body = body /\ t.meta = call[c].meta)
    BY <1>4, <1>6 DEF Told, Object
  <1>8. /\ m.hash = call[c].hashed /\ m.size = Len(files[b][k].blocks)
        /\ m.time = files[b][k].time /\ m.meta = call[c].meta
    OBVIOUS
  <1>9. body = Damaged => t = Damaged
    OBVIOUS
  <1> HIDE DEF m, t, body
  <1>10. /\ metas' \in [Buckets -> [Keys -> MetaFile]] /\ metas'[b][k] = m
         /\ told' \in [Buckets -> [Keys -> Told]] /\ told'[b][k] = t
         /\ \A d \in Buckets, j \in Keys :
              (d = b /\ j = k) \/ (metas'[d][j] = metas[d][j] /\ told'[d][j] = told[d][j])
    BY <1>3, <1>5, <1>7 DEF FsInv, FsTypeOK, MetaFile
  <1>11. KeyOK(b, k)'
    <2>1. CASE t = Damaged
      BY <1>10, <2>1, KeyDamaged
    <2>2. CASE t # Damaged
      <3>1. Trusted(b, k)'
        BY <1>3, <1>5, <1>8, <1>10, NilAssumption DEF Trusted
      <3>2. /\ told'[b][k].body = body /\ told'[b][k].meta = call[c].meta
            /\ call[c].hashed = Whole(body)
        BY <1>6, <1>7, <1>9, <1>10, <2>2
      <3>3. HasFile(b, k)' /\ files'[b][k].blocks = Whole(body)
        BY <1>3, <1>4, <3>2 DEF HasFile
      <3>4. Served(b, k)'
        BY <1>5, <1>8, <1>10, <3>1, <3>2, <3>3 DEF Served
      <3>5. QED
        BY <1>7, <1>10, <2>2, <3>4, NilAssumption DEF KeyOK
    <2>3. QED
      BY <2>1, <2>2
  <1>12. /\ call[c].step = "write" /\ call' = [call EXCEPT ![c] = Idle] /\ lock' = NoClient
         /\ UNCHANGED <<setup, files, dirs, clock>>
    BY <1>1, <1>3
  <1>13. QED
    BY <1>2, <1>10, <1>11, <1>12, EndWrite

LEMMA WriteBlockOK ==
    ASSUME FsInv, NEW c \in Clients, WriteBlock(c)
    PROVE  FsInv'
  <1> DEFINE w == call[c]
  <1>1. /\ w.step = "write" /\ Len(w.hashed) < Len(Readable(w.source))
        /\ UNCHANGED <<setup, dirs, metas, clock, lock, told>>
    BY DEF WriteBlock
  <1>2. /\ lock = c /\ w \in Call /\ w.source \in Source /\ w.hashed \in Contents
        /\ SourceOK(w.source) /\ WriteOK(w)
        /\ \A d \in Clients \ {c} : call[d].step # "write"
    BY <1>1, WriterIs
  <1>3. PICK b \in Buckets, k \in Keys, s \in Source, h \in Contents :
           b = w.bucket /\ k = w.key /\ s = w.source /\ h = w.hashed
    BY <1>1, WriterIs
  <1>4. /\ SourceOK(s) /\ HasFile(b, k) /\ files[b][k].blocks = h
        /\ Readable(s) \in Contents /\ Prefix(h, Readable(s)) /\ Len(h) < Len(Readable(s))
    BY <1>1, <1>2, <1>3, ReadableTyped DEF WriteOK, FsInv
  <1>5. PICK block \in Bodies, g \in Contents :
           /\ block = Readable(s)[Len(h) + 1] /\ g = Append(h, block)
           /\ Prefix(g, Readable(s))
    BY <1>4, BlockAppended
  <1>6. s.kind = "file" /\ s.linked =>
           ~(s.bucket = b /\ s.key = k) /\ s.bucket \in Buckets /\ s.key \in Keys
                /\ HasFile(s.bucket, s.key)
    <2>1. SUFFICES ASSUME s.kind = "file", s.linked PROVE ~(s.bucket = b /\ s.key = k)
      BY <1>4, SourceForms DEF SourceOK
    <2>2. ASSUME s.bucket = b, s.key = k PROVE FALSE
      <3>1. Readable(s) = h
        BY <1>4, <2>1, <2>2 DEF Readable
      <3>2. Len(h) \in Nat
        BY ContentsAre
      <3>3. QED
        BY <1>4, <3>1, <3>2
    <2>3. QED
      BY <2>2
  <1> DEFINE r == [w EXCEPT !.hashed = g]
             file == [blocks |-> g, time |-> clock]
  <1>7. /\ files' = [files EXCEPT ![b][k] = file]
        /\ call' = [call EXCEPT ![c] = r]
    BY <1>2, <1>3, <1>4, <1>5 DEF WriteBlock
  <1>8. w \in [step : {"write"}, bucket : Buckets, key : Keys, source : Source,
               meta : Headers, hashed : Contents]
    BY <1>1, <1>2, CallForms
  <1>9. r \in [step : {"write"}, bucket : Buckets, key : Keys, source : Source,
               meta : Headers, hashed : Contents]
    BY <1>8
  <1>10. /\ r.step = "write" /\ r.bucket = b /\ r.key = k
         /\ r.source = s /\ r.hashed = g
    BY <1>3, <1>8
  <1>11. r \in Call
    BY <1>9 DEF Call
  <1>12. file \in File /\ file.blocks = g
    BY DEF FsInv, FsTypeOK, File
  <1> HIDE DEF r, file
  <1>13. /\ files[b] # NoBucket /\ files[b] \in [Keys -> File \cup {NoFile}]
    BY <1>4, FilesTyped DEF FsInv, HasFile
  <1>14. /\ files' \in [Buckets -> [Keys -> File \cup {NoFile}] \cup {NoBucket}]
         /\ files'[b][k] = file /\ files'[b] # NoBucket
         /\ \A j \in Keys : j # k => files'[b][j] = files[b][j]
         /\ \A d \in Buckets : d # b => files'[d] = files[d]
    BY <1>7, <1>12, <1>13, NilAssumption DEF FsInv, FsTypeOK
  <1>15. call'[c] = r /\ \A d \in Clients \ {c} : call'[d] = call[d]
    BY <1>7 DEF FsInv, FsTypeOK
  <1>16. FsTypeOK'
    BY <1>1, <1>7, <1>11, <1>14 DEF FsInv, FsTypeOK
  <1>17. OneWriter'
    BY <1>1, <1>2, <1>10, <1>15 DEF OneWriter
  <1>18. OneDirectory'
    BY <1>1, <1>13, <1>14 DEF FsInv, OneDirectory
  <1>19. HasFile(b, k)'
    BY <1>12, <1>14, NilAssumption DEF HasFile
  <1>20. \A d \in Buckets, j \in Keys : (d = b /\ j = k) \/ SameFile(d, j)
    BY <1>13, <1>14 DEF SameFile, HasFile
  <1>21. \A d \in Buckets, j \in Keys :
            /\ Writing(d, j) <=> d = b /\ j = k
            /\ Writing(d, j)' <=> d = b /\ j = k
    <2>1. \A d \in Buckets, j \in Keys : Writing(d, j) <=> d = b /\ j = k
      BY <1>1, <1>3, WriterIs
    <2>2. \A d \in Buckets, j \in Keys : Writing(d, j)' <=> d = b /\ j = k
      BY <1>2, <1>10, <1>15 DEF Writing
    <2>3. QED
      BY <2>1, <2>2
  <1>22. ASSUME NEW d \in Buckets, NEW j \in Keys PROVE KeyOK(d, j)'
    <2>1. CASE d = b /\ j = k
      BY <1>21, <2>1 DEF KeyOK
    <2>2. CASE ~(d = b /\ j = k)
      <3>1. SameFile(d, j) /\ SameMeta(d, j) /\ told'[d][j] = told[d][j]
        BY <1>1, <1>20, <2>2 DEF SameMeta
      <3>2. QED
        BY <1>1, <1>21, <3>1, KeyKept DEF FsInv
    <2>3. QED
      BY <2>1, <2>2
  <1>23. ClientOK(c)'
    <2>1. SourceOK(s)' /\ Readable(s)' = Readable(s)
      BY <1>4, <1>6, <1>20 DEF SourceOK, Readable, SameFile, HasFile
    <2>2. SourceOK(call[c].source)' /\ WriteOK(call[c])'
      BY <1>5, <1>10, <1>12, <1>14, <1>15, <1>19, <2>1 DEF SourceOK, WriteOK, Readable, HasFile
    <2>3. QED
      BY <1>10, <1>15, <2>2 DEF ClientOK
  <1>24. ASSUME NEW d \in Clients \ {c} PROVE ClientOK(d)'
    <2>1. call[d].step # "write" /\ call'[d] = call[d]
      BY <1>2, <1>15
    <2>2. call[d].step = "stream" /\ Opened(call[d]) =>
             ~(call[d].source.bucket = b /\ call[d].source.key = k)
      BY <1>21, NotStreamed
    <2>3. QED
      BY <1>19, <1>20, <1>21, <2>1, <2>2, BystanderKept
  <1>25. QED
    BY <1>16, <1>17, <1>18, <1>22, <1>23, <1>24 DEF FsInv

LEMMA ReadableTypedNext ==
    ASSUME FsTypeOK', NEW s \in Source, SourceOK(s)'
    PROVE  Readable(s)' \in Contents
  <1>1. CASE s.kind = "file" /\ s.linked
    <2>1. s.bucket \in Buckets /\ s.key \in Keys
      BY <1>1, SourceForms
    <2>2. files'[s.bucket] # NoBucket /\ files'[s.bucket][s.key] # NoFile
      BY <1>1 DEF SourceOK, HasFile
    <2>3. files'[s.bucket] \in [Keys -> File \cup {NoFile}]
      BY <2>1, <2>2 DEF FsTypeOK
    <2>4. files'[s.bucket][s.key] \in File
      BY <2>1, <2>2, <2>3
    <2>5. QED
      BY <1>1, <2>4 DEF Readable, File
  <1>2. CASE ~(s.kind = "file" /\ s.linked)
    BY <1>2, SourceForms DEF Readable
  <1>3. QED
    BY <1>1, <1>2

\* What creating the file of a key does to those who have it open.
LEMMA CreateIs ==
    ASSUME FsInv, Unlocked, NEW b \in Buckets, NEW k \in Keys
    PROVE  /\ Create(call, b, k) \in [Clients -> Call]
           /\ \A d \in Clients :
                 \/ /\ Create(call, b, k)[d] = call[d]
                    /\ call[d].step = "stream" => ~Linked(d, b, k)
                 \/ Create(call, b, k)[d] = Adrift /\ call[d].step = "stream"
                 \/ /\ Create(call, b, k)[d] = Unlink(call, b, {k})[d]
                    /\ Linked(d, b, k)
  <1>1. CASE setup.onDisk
    <2>1. Create(call, b, k) = Rewrite(call, b, k)
      BY <1>1 DEF Create
    <2>2. Adrift \in Call
      BY DEF Call
    <2>3. \A d \in Clients :
             Rewrite(call, b, k)[d] =
                IF Linked(d, b, k) /\ call[d].step = "stream" THEN Adrift ELSE call[d]
      BY DEF Rewrite
    <2>4. Rewrite(call, b, k) \in [Clients -> Call]
      BY <2>2 DEF Rewrite, FsInv, FsTypeOK
    <2>5. QED
      BY <2>1, <2>3, <2>4
  <1>2. CASE ~setup.onDisk
    <2>1. Create(call, b, k) = Unlink(call, b, {k})
      BY <1>2 DEF Create
    <2>2. Unlink(call, b, {k}) \in [Clients -> Call]
      BY UnlinkTyped
    <2>3. \A d \in Clients : ~Linked(d, b, k) => Unlink(call, b, {k})[d] = call[d]
      BY UnlinkIs
    <2>4. QED
      BY <2>1, <2>2, <2>3
  <1>3. QED
    BY <1>1, <1>2

LEMMA CreateFileOK ==
    ASSUME FsInv, NEW c \in Clients, CreateFile(c)
    PROVE  FsInv'
  <1> DEFINE w == call[c]
  <1>1. /\ Unlocked /\ w.step = "lock" /\ BucketExists(w.bucket) /\ lock' = c
        /\ UNCHANGED <<setup, metas, clock, told>>
    BY DEF CreateFile
  <1>2. PICK b \in Buckets, k \in Keys, meta \in Headers :
           b = w.bucket /\ k = w.key /\ meta = w.meta
    BY <1>1, CallForms DEF FsInv, FsTypeOK
  <1> DEFINE u == Create(call, b, k)
             file == [blocks |-> <<>>, time |-> clock]
  <1>3. /\ u \in [Clients -> Call]
        /\ \A d \in Clients :
              \/ u[d] = call[d] /\ (call[d].step = "stream" => ~Linked(d, b, k))
              \/ u[d] = Adrift /\ call[d].step = "stream"
              \/ u[d] = Unlink(call, b, {k})[d] /\ Linked(d, b, k)
    BY <1>1, CreateIs
  <1>4. u[c] \in Call /\ u[c].step = "lock"
    BY <1>1, <1>3, UnlinkIs
  <1>5. PICK s \in Source : s = u[c].source
    BY <1>4, CallForms
  <1> DEFINE r == [step |-> "write", bucket |-> b, key |-> k, meta |-> meta,
                   source |-> s, hashed |-> <<>>]
             fs == [j \in Keys |-> IF j = k THEN file
                                   ELSE IF files[b] = NoBucket THEN NoFile ELSE files[b][j]]
  <1>6. /\ files' = [files EXCEPT ![b] = fs]
        /\ dirs' = [dirs EXCEPT ![b] = dirs[b] \cup ({Dir[k]} \ {NoDir})]
    BY <1>2 DEF CreateFile, FsInv, FsTypeOK
  <1> HIDE DEF u
  <1>7. call' = [u EXCEPT ![c] = r]
    BY <1>2, <1>3, <1>5 DEF CreateFile, u
  <1>8. <<>> \in Contents /\ Len(<<>>) = 0
    BY EmptyPrefix, WholeIs, <1>5, SourceForms
  <1>9. /\ r \in Call /\ r.step = "write" /\ r.bucket = b /\ r.key = k
        /\ r.source = s /\ r.hashed = <<>>
    BY <1>8 DEF Call
  <1>10. file \in File /\ file.blocks = <<>>
    BY <1>8 DEF FsInv, FsTypeOK, File
  <1> HIDE DEF r, file
  <1>11. /\ fs \in [Keys -> File \cup {NoFile}] /\ fs[k] = file
         /\ \A j \in Keys : j # k =>
               fs[j] = IF files[b] = NoBucket THEN NoFile ELSE files[b][j]
    <2>1. files[b] # NoBucket => files[b] \in [Keys -> File \cup {NoFile}]
      BY FilesTyped DEF FsInv
    <2>2. QED
      BY <1>10, <2>1
  <1> HIDE DEF fs
  <1>12. /\ files' \in [Buckets -> [Keys -> File \cup {NoFile}] \cup {NoBucket}]
         /\ files'[b] = fs /\ files'[b] # NoBucket
         /\ \A d \in Buckets : d # b => files'[d] = files[d]
    BY <1>6, <1>11, NilAssumption DEF FsInv, FsTypeOK
  <1>13. dirs' \in [Buckets -> SUBSET {Dir[j] : j \in Keys}]
    BY <1>6 DEF FsInv, FsTypeOK
  <1>14. /\ call' \in [Clients -> Call] /\ call'[c] = r
         /\ \A d \in Clients \ {c} : call'[d] = u[d]
    BY <1>3, <1>7, <1>9
  <1>15. FsTypeOK'
    BY <1>1, <1>12, <1>13, <1>14 DEF FsInv, FsTypeOK
  <1>16. \A d \in Clients \ {c} : call'[d].step # "write" /\ call[d].step # "write"
    <2>1. \A d \in Clients : Unlink(call, b, {k})[d].step = call[d].step
      BY <1>1, UnlinkIs
    <2>2. \A d \in Clients : call[d].step # "write"
      BY <1>1, NobodyWrites DEF FsInv
    <2>3. Adrift.step = "adrift"
      BY DEF Adrift
    <2>4. QED
      BY <1>3, <1>14, <2>1, <2>2, <2>3
  <1>17. OneWriter'
    BY <1>1, <1>9, <1>14, <1>16 DEF OneWriter
  <1>18. OneDirectory'
    BY <1>1, <1>2, <1>12 DEF FsInv, OneDirectory, BucketExists
  <1>19. HasFile(b, k)'
    BY <1>10, <1>11, <1>12, NilAssumption DEF HasFile
  <1>20. \A d \in Buckets, j \in Keys : (d = b /\ j = k) \/ SameFile(d, j)
    BY <1>11, <1>12 DEF SameFile, HasFile
  <1>21. \A d \in Buckets, j \in Keys :
            /\ ~Writing(d, j)
            /\ Writing(d, j)' <=> d = b /\ j = k
    <2>1. \A d \in Buckets, j \in Keys : ~Writing(d, j)
      BY <1>1, NobodyWrites DEF FsInv
    <2>2. \A d \in Buckets, j \in Keys : Writing(d, j)' <=> d = b /\ j = k
      BY <1>9, <1>14, <1>16 DEF Writing
    <2>3. QED
      BY <2>1, <2>2
  <1>22. ASSUME NEW d \in Buckets, NEW j \in Keys PROVE KeyOK(d, j)'
    <2>1. CASE d = b /\ j = k
      BY <1>21, <2>1 DEF KeyOK
    <2>2. CASE ~(d = b /\ j = k)
      <3>1. SameFile(d, j) /\ SameMeta(d, j) /\ told'[d][j] = told[d][j]
        BY <1>1, <1>20, <2>2 DEF SameMeta
      <3>2. QED
        BY <1>1, <1>21, <3>1, KeyKept DEF FsInv
    <2>3. QED
      BY <2>1, <2>2
  <1>23. ASSUME NEW d \in Clients \ {c} PROVE ClientOK(d)'
    <2>1. CASE u[d] = call[d] /\ (call[d].step = "stream" => ~Linked(d, b, k))
      <3>1. call[d].step = "stream" /\ Opened(call[d]) =>
               ~(call[d].source.bucket = b /\ call[d].source.key = k)
        BY <2>1 DEF Linked, Opened
      <3>2. call'[d] = call[d] /\ call[d].step # "write"
        BY <1>14, <1>16, <2>1
      <3>3. QED
        BY <1>19, <1>20, <1>21, <3>1, <3>2, BystanderKept
    <2>2. CASE u[d] = Adrift
      BY <1>14, <2>2 DEF Adrift, ClientOK
    <2>3. CASE u[d] = Unlink(call, b, {k})[d] /\ Linked(d, b, k)
      <3>1. call'[d] = Unlink(call, b, {k})[d] /\ \E j \in {k} : Linked(d, b, j)
        BY <1>14, <2>3
      <3>2. QED
        BY <1>1, <3>1, UnlinkedOK
    <2>4. QED
      BY <1>3, <2>1, <2>2, <2>3
  <1>24. SourceOK(s)'
    <2>1. CASE u[c] = call[c]
      <3>1. s = call[c].source /\ SourceOK(s)
        BY <1>1, <1>5, <2>1, SourceOf
      <3>2. CASE s.kind = "file" /\ s.linked
        <4>1. s.bucket \in Buckets /\ s.key \in Keys /\ HasFile(s.bucket, s.key)
          BY <3>1, <3>2, SourceForms DEF SourceOK
        <4>2. HasFile(s.bucket, s.key)'
          BY <1>19, <1>20, <4>1 DEF SameFile
        <4>3. QED
          BY <3>2, <4>2 DEF SourceOK
      <3>3. CASE ~(s.kind = "file" /\ s.linked)
        BY <3>1, <3>3 DEF SourceOK
      <3>4. QED
        BY <3>2, <3>3
    <2>2. CASE u[c] = Unlink(call, b, {k})[c] /\ Linked(c, b, k)
      <3>1. s.kind = "file" /\ ~s.linked /\ (s.holds # Damaged => s.blocks = Whole(s.holds))
        BY <1>1, <1>5, <2>2, UnlinkIs
      <3>2. QED
        BY <3>1 DEF SourceOK
    <2>3. QED
      BY <1>1, <1>3, <2>1, <2>2
  <1>25. ClientOK(c)'
    <2>1. Readable(s)' \in Contents
      BY <1>15, <1>24, ReadableTypedNext
    <2>2. PICK readable \in Contents : readable = Readable(s)'
      BY <2>1
    <2>3. Prefix(<<>>, readable)
      BY EmptyPrefix
    <2>4. SourceOK(call[c].source)' /\ WriteOK(call[c])'
      BY <1>9, <1>10, <1>11, <1>12, <1>14, <1>19, <1>24, <2>2, <2>3
         DEF SourceOK, WriteOK, Readable, HasFile
    <2>5. QED
      BY <1>9, <1>14, <2>4 DEF ClientOK
  <1>26. QED
    BY <1>15, <1>17, <1>18, <1>22, <1>23, <1>25 DEF FsInv

-----------------------------------------------------------------------------
(* The invariant.                                                          *)

LEMMA InitOK ==
    ASSUME Init
    PROVE  FsInv
  <1>1. PICK found \in [Keys -> Bodies \cup {Gone}] :
          /\ setup.kind = "multi" => found = [k \in Keys |-> Gone]
          /\ files = [b \in Buckets |->
                IF setup.kind = "single" /\ b = setup.name
                THEN [k \in Keys |-> IF found[k] = Gone THEN NoFile
                                     ELSE [blocks |-> Whole(found[k]), time |-> 0]]
                ELSE NoBucket]
          /\ dirs = [b \in Buckets |-> IF files[b] = NoBucket THEN {}
                ELSE {Dir[k] : k \in {j \in Keys : found[j] # Gone}} \ {NoDir}]
          /\ told = [b \in Buckets |-> [k \in Keys |->
                IF HasFile(b, k) THEN [body |-> found[k], meta |-> NoMeta] ELSE Gone]]
    BY DEF Init
  <1>2. /\ setup \in Setups /\ metas = [b \in Buckets |-> Empty] /\ clock = 0
        /\ lock = NoClient /\ call = [c \in Clients |-> Idle]
    BY DEF Init
  <1> DEFINE fs == [k \in Keys |-> IF found[k] = Gone THEN NoFile
                                   ELSE [blocks |-> Whole(found[k]), time |-> 0]]
  <1>3. /\ fs \in [Keys -> File \cup {NoFile}]
        /\ \A k \in Keys : fs[k] # NoFile =>
              found[k] \in Bodies /\ fs[k].blocks = Whole(found[k])
    <2>1. \A k \in Keys : found[k] # Gone =>
             /\ found[k] \in Bodies /\ Whole(found[k]) \in Contents
             /\ [blocks |-> Whole(found[k]), time |-> 0] \in File
      BY WholeIs, FsAssumption DEF File
    <2>2. QED
      BY <2>1
  <1>4. files \in [Buckets -> {fs, NoBucket}]
    BY <1>1
  <1> HIDE DEF fs
  <1>5. files \in [Buckets -> [Keys -> File \cup {NoFile}] \cup {NoBucket}]
    BY <1>3, <1>4
  <1>6. \A b \in Buckets, k \in Keys : HasFile(b, k) =>
           found[k] \in Bodies /\ files[b][k].blocks = Whole(found[k])
    BY <1>3, <1>4 DEF HasFile
  <1>7. \A b \in Buckets, k \in Keys :
           /\ HasFile(b, k) => /\ told[b][k] \in Object /\ told[b][k].body = found[k]
                               /\ told[b][k].meta = NoMeta
           /\ ~HasFile(b, k) => told[b][k] = Gone
    BY <1>1, <1>6 DEF Object, Headers
  <1>8. told \in [Buckets -> [Keys -> Told]]
    <2>1. \A b \in Buckets : [k \in Keys |->
             IF HasFile(b, k) THEN [body |-> found[k], meta |-> NoMeta] ELSE Gone]
             \in [Keys -> Told]
      BY <1>6 DEF Told, Object, Headers
    <2>2. QED
      BY <1>1, <2>1
  <1>9. dirs \in [Buckets -> SUBSET {Dir[k] : k \in Keys}]
    BY <1>1
  <1>10. Empty \in [Keys -> MetaFile] /\ \A k \in Keys : Empty[k] = NoFile
    BY DEF Empty, MetaFile
  <1>11. clock \in 0..MaxTime
    BY <1>2, FsAssumption
  <1>12. FsTypeOK
    BY <1>2, <1>5, <1>8, <1>9, <1>10, <1>11, IdleIs DEF FsTypeOK, MetaFile
  <1>13. \A c \in Clients : call[c].step = "idle"
    BY <1>2, IdleIs
  <1>14. OneWriter /\ \A c \in Clients : ClientOK(c)
    BY <1>2, <1>13 DEF OneWriter, ClientOK
  <1>15. OneDirectory
    BY <1>1 DEF OneDirectory
  <1>16. ASSUME NEW b \in Buckets, NEW k \in Keys PROVE KeyOK(b, k)
    <2>1. HasFile(b, k) => setup.kind = "single"
      BY <1>1 DEF HasFile
    <2>2. metas[b][k] = NoFile
      BY <1>2, <1>10
    <2>3. HasFile(b, k) => Served(b, k)
      BY <1>6, <1>7, <2>1, <2>2 DEF Served
    <2>4. Gone \notin Object
      BY NilAssumption
    <2>5. QED
      BY <1>7, <2>3, <2>4 DEF KeyOK
  <1>17. QED
    BY <1>12, <1>14, <1>15, <1>16 DEF FsInv

LEMMA NextOK ==
    ASSUME FsInv, [Next]_vars
    PROVE  FsInv'
  <1>1. CASE UNCHANGED vars
    <2>1. FsTypeOK' /\ OneWriter' /\ OneDirectory'
      BY <1>1 DEF vars, FsInv, FsTypeOK, OneWriter, OneDirectory
    <2>2. \A b \in Buckets, k \in Keys : KeyOK(b, k)'
      BY <1>1 DEF vars, FsInv, KeyOK, Served, HasFile, Trusted, Writing
    <2>3. \A c \in Clients : ClientOK(c)'
      BY <1>1 DEF vars, FsInv, ClientOK, SourceOK, WriteOK, StreamOK, Readable, HasFile, Writing
    <2>4. QED
      BY <2>1, <2>2, <2>3 DEF FsInv
  <1>2. ASSUME NEW b \in Buckets, Request(b) PROVE FsInv'
    BY <1>2, CreateBucketOK, DeleteBucketOK, ForceDeleteBucketOK, ListBucketOK,
       HeadObjectOK, DeleteMultiOK DEF Request
  <1>3. ASSUME NEW c \in Clients, Start(c) PROVE FsInv'
    BY <1>3, GetObjectOK, PutObjectOK, CopyObjectOK DEF Start
  <1>4. ASSUME NEW c \in Clients, Acquire(c) PROVE FsInv'
    BY <1>4, CopyOpenOK, MergeMetadataOK, CreateFileOK, CreateFileFailsOK DEF Acquire
  <1>5. ASSUME NEW c \in Clients, Work(c) PROVE FsInv'
    BY <1>5, StreamBlockOK, WriteBlockOK, SaveMetaOK DEF Work
  <1>6. ASSUME NEW c \in Clients, BodyFails(c) PROVE FsInv'
    BY <1>6, BodyFailsOK
  <1>7. CASE Tick
    BY <1>7, TickOK
  <1>8. CASE Crashes
    BY <1>8, CrashOK, CrashInPutOK, CrashInDeleteBucketOK, CrashInDeleteOK DEF Crashes
  <1>9. QED
    BY <1>1, <1>2, <1>3, <1>4, <1>5, <1>6, <1>7, <1>8 DEF Next

LEMMA FsInvariant == Spec => []FsInv
  <1>1. Init => FsInv
    BY InitOK
  <1>2. FsInv /\ [Next]_vars => FsInv'
    BY NextOK
  <1>3. QED
    BY <1>1, <1>2, PTL DEF Spec

-----------------------------------------------------------------------------
(* The theorems.                                                           *)

\* The state has the form that each operation expects: in particular what a PutObject
\* has read is never longer than what it reads, also when its source is truncated.
THEOREM FsTypeCorrect == Spec => []FsTypeOK
  BY FsInvariant, PTL DEF FsInv

\* A key whose last write was answered is served with that write's body, hash and
\* headers, and a deleted key is not found: through crashes between the two files of a
\* key, failed bodies, copies of a key onto itself and files that are created again
\* under their readers, for any number of buckets, keys and clients.
THEOREM AnsweredWritesServed == Spec => []AnsweredWritesAreServed
  <1>1. FsInv => AnsweredWritesAreServed
    <2> SUFFICES ASSUME FsInv, NEW b \in Buckets, NEW k \in Keys, ~Writing(b, k)
                 PROVE  /\ told[b][k] \in Object =>
                              /\ HeadResult(b, k) = "ok"
                              /\ files[b][k].blocks = Whole(told[b][k].body)
                              /\ LoadMeta(b, k).hash = Whole(told[b][k].body)
                              /\ LoadMeta(b, k).meta = told[b][k].meta
                        /\ told[b][k] = Gone => ~HasFile(b, k)
      BY DEF AnsweredWritesAreServed
    <2>1. KeyOK(b, k) /\ FsTypeOK /\ OneDirectory
      BY DEF FsInv
    <2>2. ASSUME told[b][k] \in Object
          PROVE  /\ HeadResult(b, k) = "ok"
                 /\ files[b][k].blocks = Whole(told[b][k].body)
                 /\ LoadMeta(b, k).hash = Whole(told[b][k].body)
                 /\ LoadMeta(b, k).meta = told[b][k].meta
      <3>1. Served(b, k)
        BY <2>1, <2>2 DEF KeyOK
      <3>2. HasFile(b, k) /\ ~LoadFails(b, k) /\ BucketExists(b)
        BY <2>1, <2>2, <3>1, LoadsServed, FileInBucket DEF HasFile
      <3>3. QED
        BY <2>1, <2>2, <3>1, <3>2, LoadsServed, HeadIs DEF Served
    <2>3. QED
      BY <2>1, <2>2 DEF KeyOK
  <1>2. QED
    BY <1>1, FsInvariant, PTL

\* What a step may do to a call that merges or streams: only MergeMetadata ends the
\* merge, and a stream goes on to be one of what was announced.
Undisturbed(c) ==
    /\ ~(call[c].step = "merge" /\ call'[c].step = "lock")
    /\ (call[c].step = "stream" /\ call'[c].step = "stream") => call'[c].hash = call[c].hash

LEMMA MergesAndStreams ==
    ASSUME FsInv, Next, NEW c \in Clients, ~MergeMetadata(c)
    PROVE  Undisturbed(c)
  <1>1. call \in [Clients -> Call]
    BY DEF FsInv, FsTypeOK
  <1>2. Idle.step = "idle" /\ Adrift.step = "adrift"
    BY DEF Idle, Adrift
  <1>3. ASSUME call'[c] = call[c] PROVE Undisturbed(c)
    BY <1>3 DEF Undisturbed
  <1>4. ASSUME Unlocked, NEW b \in Buckets, NEW ks \in SUBSET Keys,
               call'[c] = Unlink(call, b, ks)[c]
        PROVE  Undisturbed(c)
    <2>1. /\ call'[c].step = call[c].step
          /\ call[c].step = "stream" => call'[c].hash = call[c].hash
      BY <1>4, UnlinkIs
    <2>2. QED
      BY <2>1 DEF Undisturbed
  <1>5. ASSUME NEW b \in Buckets, Request(b) PROVE Undisturbed(c)
    <2>1. CASE call' = call
      BY <1>3, <2>1
    <2>2. CASE ForceDeleteBucket(b)
      <3>1. FilesOf(b) \in SUBSET Keys
        BY DEF FilesOf
      <3>2. QED
        BY <1>4, <2>2, <3>1 DEF ForceDeleteBucket
    <2>3. CASE \E ks \in SUBSET Keys : DeleteMulti(b, ks)
      BY <1>4, <2>3 DEF DeleteMulti
    <2>4. QED
      BY <1>5, <2>1, <2>2, <2>3 DEF Request, CreateBucket, DeleteBucket, ListBucket, HeadObject
  <1>6. ASSUME NEW d \in Clients, Start(d) PROVE Undisturbed(c)
    <2>1. call[d].step = "idle"
      BY <1>2, <1>6 DEF Start, GetObject, PutObject, CopyObject
    <2>2. CASE d = c
      BY <2>1, <2>2 DEF Undisturbed
    <2>3. CASE d # c
      BY <1>1, <1>3, <1>6, <2>3 DEF Start, GetObject, PutObject, CopyObject
    <2>4. QED
      BY <2>2, <2>3
  <1>7. ASSUME NEW d \in Clients,
               CopyOpen(d) \/ CreateFileFails(d) \/ WriteBlock(d) \/ SaveMeta(d) \/ BodyFails(d)
        PROVE Undisturbed(c)
    <2>1. call[d].step \in {"copy", "lock", "write"}
      BY <1>7 DEF CopyOpen, CreateFileFails, WriteBlock, SaveMeta, BodyFails
    <2>2. CASE d = c
      BY <2>1, <2>2 DEF Undisturbed
    <2>3. CASE d # c
      BY <1>1, <1>3, <1>7, <2>3 DEF CopyOpen, CreateFileFails, WriteBlock, SaveMeta, BodyFails
    <2>4. QED
      BY <2>2, <2>3
  <1>8. ASSUME NEW d \in Clients, StreamBlock(d) PROVE Undisturbed(c)
    <2>1. CASE d = c
      <3>1. call[c].step \in {"stream", "adrift"}
        BY <1>8, <2>1 DEF StreamBlock
      <3>2. call[c].step = "stream" =>
               call[c] \in [step : {"stream"}, source : Source, hash : Contents, got : Contents]
        BY <1>1, CallForms
      <3>3. call[c].step = "stream" =>
               call'[c] = Idle \/ call'[c].hash = call[c].hash
        BY <1>1, <1>8, <2>1, <3>2 DEF StreamBlock
      <3>4. QED
        BY <1>2, <3>1, <3>3 DEF Undisturbed
    <2>2. CASE d # c
      BY <1>1, <1>3, <1>8, <2>2 DEF StreamBlock
    <2>3. QED
      BY <2>1, <2>2
  <1>9. ASSUME NEW d \in Clients, CreateFile(d) PROVE Undisturbed(c)
    <2>1. Unlocked /\ call[d] \in Call /\ call[d].step = "lock"
      BY <1>1, <1>9 DEF CreateFile
    <2>2. CASE d = c
      BY <2>1, <2>2 DEF Undisturbed
    <2>3. CASE d # c
      <3>1. PICK b \in Buckets, k \in Keys : b = call[d].bucket /\ k = call[d].key
        BY <2>1, CallForms
      <3>2. Create(call, b, k) \in [Clients -> Call]
        BY <2>1, CreateIs
      <3>3. call'[c] = Create(call, b, k)[c]
        BY <1>9, <2>3, <3>1, <3>2 DEF CreateFile
      <3>4. call'[c] = call[c] \/ call'[c] = Adrift \/ call'[c] = Unlink(call, b, {k})[c]
        BY <2>1, <3>3, CreateIs
      <3>5. call'[c] = Adrift => Undisturbed(c)
        BY <1>2 DEF Undisturbed
      <3>6. QED
        BY <1>3, <1>4, <2>1, <3>4, <3>5
    <2>4. QED
      BY <2>2, <2>3
  <1>10. ASSUME Crashes PROVE Undisturbed(c)
    <2>1. call' = [d \in Clients |-> Idle]
      BY <1>10 DEF Crashes, Crash, CrashInPut, CrashInDelete, CrashInDeleteBucket, Restart
    <2>2. QED
      BY <1>2, <2>1 DEF Undisturbed
  <1>11. ASSUME NEW d \in Clients, MergeMetadata(d) PROVE Undisturbed(c)
    BY <1>1, <1>3, <1>11 DEF MergeMetadata
  <1>12. Tick => Undisturbed(c)
    BY <1>3 DEF Tick
  <1>13. QED
    BY <1>5, <1>6, <1>7, <1>8, <1>9, <1>10, <1>11, <1>12 DEF Next, Acquire, Work

\* A put inherits the headers of the object that is under its key when it merges, and
\* of none that was deleted, whatever metadata a crash has left there.
THEOREM InheritsFromLiving == Spec => InheritsFromTheLiving
  <1> DEFINE Inherits ==
        \A c \in Clients :
          (call[c].step = "merge" /\ call'[c].step = "lock") =>
              LET t == told[call[c].bucket][call[c].key] IN
              t # Damaged =>
                  call'[c].meta = Merge(call[c].meta, IF t = Gone THEN NoMeta ELSE t.meta)
  <1>1. FsInv /\ [Next]_vars => [Inherits]_vars
    <2> SUFFICES ASSUME FsInv, Next, NEW c \in Clients,
                        call[c].step = "merge", call'[c].step = "lock",
                        told[call[c].bucket][call[c].key] # Damaged
                 PROVE  call'[c].meta = Merge(call[c].meta,
                           IF told[call[c].bucket][call[c].key] = Gone THEN NoMeta
                           ELSE told[call[c].bucket][call[c].key].meta)
      BY DEF vars
    <2>1. MergeMetadata(c)
      BY MergesAndStreams DEF Undisturbed
    <2>2. /\ call[c] \in [step : {"merge", "lock"}, bucket : Buckets, key : Keys,
                          source : Source, meta : Headers]
          /\ call \in [Clients -> Call]
      BY CallForms DEF FsInv, FsTypeOK
    <2>3. PICK b \in Buckets, k \in Keys : b = call[c].bucket /\ k = call[c].key
      BY <2>2
    <2>4. Unlocked /\ call'[c].meta = IF HeadResult(b, k) = "ok"
                          THEN Merge(call[c].meta, LoadMeta(b, k).meta) ELSE call[c].meta
      BY <2>1, <2>2, <2>3 DEF MergeMetadata
    <2>5. ~Writing(b, k) /\ KeyOK(b, k) /\ FsTypeOK /\ OneDirectory
      BY <2>4, NobodyWrites DEF FsInv
    <2>6. told[b][k] \in Object \cup {Gone}
      BY <2>3, <2>5, FilesTyped DEF Told
    <2>7. CASE told[b][k] = Gone
      <3>1. HeadResult(b, k) # "ok"
        BY <2>5, <2>7, HeadIs DEF KeyOK
      <3>2. QED
        BY <2>3, <2>4, <2>7, <3>1 DEF Merge
    <2>8. CASE told[b][k] \in Object
      <3>1. Served(b, k)
        BY <2>5, <2>8 DEF KeyOK
      <3>2. HasFile(b, k) /\ ~LoadFails(b, k) /\ LoadMeta(b, k).meta = told[b][k].meta
        BY <2>5, <2>8, <3>1, LoadsServed
      <3>3. HeadResult(b, k) = "ok"
        BY <2>5, <3>2, HeadIs, FileInBucket DEF HasFile
      <3>4. QED
        BY <2>3, <2>4, <2>8, <3>2, <3>3, NilAssumption
    <2>9. QED
      BY <2>6, <2>7, <2>8
  <1>2. QED
    BY <1>1, FsInvariant, PTL DEF Spec, InheritsFromTheLiving

\* What is left to send.
LEMMA RestOf ==
    ASSUME NEW p \in Contents, NEW s \in Contents, Prefix(p, s)
    PROVE  \E rest \in Contents : p \o rest = s
  <1> DEFINE rest == SubSeq(s, Len(p) + 1, Len(s))
  <1>1. p \in Seq(Bodies) /\ s \in Seq(Bodies) /\ Len(p) \in 0..2 /\ Len(s) \in 0..2
    BY ContentsAre
  <1>2. Len(p) <= Len(s) /\ \A i \in 1..Len(p) : p[i] = s[i]
    BY DEF Prefix
  <1>3. \A i \in Len(p) + 1 .. Len(s) : s[i] \in Bodies
    BY <1>1
  <1>4. /\ rest \in Seq(Bodies)
        /\ Len(rest) = Len(s) - Len(p)
        /\ \A i \in 1..Len(s) - Len(p) : rest[i] = s[Len(p) + i]
    BY <1>1, <1>2, <1>3
  <1> HIDE DEF rest
  <1>5. Len(rest) \in 0..2
    <2>1. PICK m \in 0..2, n \in 0..2 : m = Len(p) /\ n = Len(s)
      BY <1>1
    <2>2. m <= n /\ Len(rest) = n - m
      BY <1>2, <1>4, <2>1
    <2>3. QED
      BY <2>2
  <1>6. rest \in Contents
    BY <1>4, <1>5, AreContents
  <1>7. /\ p \o rest \in Seq(Bodies) /\ Len(p \o rest) = Len(s)
        /\ \A i \in 1..Len(s) : (p \o rest)[i] = s[i]
    BY <1>1, <1>2, <1>4
  <1>8. p \o rest = s
    BY <1>1, <1>7
  <1>9. QED
    BY <1>6, <1>8

\* A GetObject that opened the file of an answered write sends what its ETag names,
\* block by block and to the end, although it reads after the unlock while others write,
\* delete and create: except for one whose file is truncated under it, on disk.
THEOREM StreamsAsNamed == Spec => StreamsWhatItNamed
  <1> DEFINE Streams ==
        \A c \in Clients : call[c].step = "stream" =>
          /\ call'[c].step = "stream" =>
                \E rest \in Contents : call'[c].got \o rest = call[c].hash
          /\ (StreamBlock(c) /\ call'[c] = Idle) => call[c].got = call[c].hash
  <1>1. FsInv /\ FsInv' /\ [Next]_vars => [Streams]_vars
    <2> SUFFICES ASSUME FsInv, FsInv', Next, NEW c \in Clients, call[c].step = "stream"
                 PROVE  /\ call'[c].step = "stream" =>
                              \E rest \in Contents : call'[c].got \o rest = call[c].hash
                        /\ (StreamBlock(c) /\ call'[c] = Idle) => call[c].got = call[c].hash
      BY DEF vars
    <2>1. /\ call[c] \in [step : {"stream"}, source : Source, hash : Contents, got : Contents]
          /\ call \in [Clients -> Call]
      BY CallForms DEF FsInv, FsTypeOK
    <2>2. ASSUME call'[c].step = "stream"
          PROVE  \E rest \in Contents : call'[c].got \o rest = call[c].hash
      <3>1. call'[c].hash = call[c].hash
        BY <2>2, MergesAndStreams DEF Undisturbed, MergeMetadata
      <3>2. call'[c] \in Call
        BY DEF FsInv, FsTypeOK
      <3>3. call'[c].hash \in Contents /\ call'[c].got \in Contents
        BY <2>2, <3>2, CallForms
      <3>4. Prefix(call'[c].got, call'[c].hash)
        BY <2>2 DEF FsInv, ClientOK, StreamOK
      <3>5. QED
        BY <3>1, <3>3, <3>4, RestOf
    <2>3. ASSUME StreamBlock(c), call'[c] = Idle PROVE call[c].got = call[c].hash
      <3>1. Readable(call[c].source) = call[c].hash /\ Prefix(call[c].got, call[c].hash)
        BY DEF FsInv, ClientOK, StreamOK
      <3>2. Len(call[c].got) \in Nat /\ Len(call[c].hash) \in Nat
        BY <2>1, ContentsAre
      <3>3. ~(Len(call[c].got) < Len(call[c].hash))
        <4>1. ASSUME Len(call[c].got) < Len(call[c].hash) PROVE FALSE
          <5>1. call'[c].step = "stream"
            BY <2>1, <2>3, <3>1, <4>1 DEF StreamBlock
          <5>2. QED
            BY <2>3, <5>1, IdleIs
        <4>2. QED
          BY <4>1
      <3>4. QED
        BY <2>1, <3>1, <3>2, <3>3, PrefixWhole
    <2>4. QED
      BY <2>2, <2>3
  <1>2. QED
    BY <1>1, FsInvariant, PTL DEF Spec, StreamsWhatItNamed

=============================================================================
