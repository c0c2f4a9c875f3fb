--------------------------- MODULE BucketListing ----------------------------
(***************************************************************************)
(* A client that lists a bucket page by page, listBucket of                *)
(* src/gofakes3.go, while others put and delete its objects; and the       *)
(* ListBucket of each backend, with Prefix.Match and Prefix.FilePrefix of  *)
(* src/prefix.go that sort keys into contents and common prefixes.  A      *)
(* backend lists under its lock, or in one transaction: a page is one      *)
(* action, and the marker all that is kept from one page to the next.      *)
(*                                                                         *)
(* What matters about a key is where its delimiters are, so keys are       *)
(* sequences of characters, numbers in the order of UTF-8.  On disk a key  *)
(* is the path of a file, and its directories outlive it.                  *)
(***************************************************************************)
EXTENDS Naturals, Sequences, FiniteSets, SequencesExt

CONSTANTS
    KeyOrder,   \* object keys, in the order of UTF-8
    Queries,    \* prefixes that the client may ask for
    Delimiters, \* delimiters, NoDelimiter among them
    NoDelimiter,
    Backends,   \* of {"mem", "bolt", "multi", "single"}
    MaxLimit    \* bound on max-keys

Slash == 2    \* '-' is 1, letters are greater

Keys == ToSet(KeyOrder)

Before(s, t) ==
    \/ IsStrictPrefix(s, t)
    \/ \E i \in 1 .. Len(s) : /\ i <= Len(t) /\ s[i] < t[i]
                              /\ SubSeq(s, 1, i - 1) = SubSeq(t, 1, i - 1)

ASSUME BucketListingAssumption ==
    /\ KeyOrder \in Seq(Seq(Nat) \ {<<>>})
    /\ \A i, j \in DOMAIN KeyOrder : i < j => Before(KeyOrder[i], KeyOrder[j])
    /\ Queries \subseteq Seq(Nat)
    /\ NoDelimiter \notin Nat
    /\ Delimiters \subseteq Nat \cup {NoDelimiter}
    /\ Backends \subseteq {"mem", "bolt", "multi", "single"}
    /\ MaxLimit \in Nat

VARIABLES
    backend,   \* the backend of the server
    request,   \* the prefix, the delimiter and max-keys of the client's requests
    state,     \* what there is under each key: an object, a delete marker, only
               \* archived versions, nothing
    dirs,      \* on disk: the directories
    walk       \* the client: what it was given so far and its next marker

vars == <<backend, request, state, dirs, walk>>

OnDisk == backend \in {"multi", "single"}

\* On disk a listing reads one directory, or walks through them all.
ReadsDirectory == OnDisk /\ request.delimiter = Slash

WalksTree == OnDisk /\ request.delimiter # Slash

-----------------------------------------------------------------------------
(* Strings.                                                                *)

\* What of a sequence is in a set, in its order.
Among(s, set) ==
    LET upTo[i \in 0 .. Len(s)] ==
            IF i = 0 THEN <<>> ELSE upTo[i - 1] \o (IF s[i] \in set THEN <<s[i]>> ELSE <<>>)
    IN  upTo[Len(s)]

InOrder == [keys \in SUBSET Keys |-> Among(KeyOrder, keys)]

\* Positions in such a sequence of keys, from the first on.
Ascending == [positions \in SUBSET DOMAIN KeyOrder |-> Among([i \in DOMAIN KeyOrder |-> i], positions)]

TrimLeft(s, c) ==
    LET others == {i \in 1 .. Len(s) : s[i] # c}
    IN  IF others = {} THEN <<>> ELSE SubSeq(s, CHOOSE i \in others : \A j \in others : i <= j, Len(s))

Cuts(s, c) == <<0>> \o Among([i \in DOMAIN s |-> i], {i \in DOMAIN s : s[i] = c}) \o <<Len(s) + 1>>

\* strings.Split: what lies between the occurrences of c, <<s>> if there is none.
Split(s, c) ==
    [i \in 1 .. Len(Cuts(s, c)) - 1 |-> SubSeq(s, Cuts(s, c)[i] + 1, Cuts(s, c)[i + 1] - 1)]

\* strings.Join of the first n parts, with a delimiter at the end if asked.
JoinFirst(parts, n, c, append) ==
    LET upTo[i \in 0 .. n] == IF i = 0 THEN <<>>
                              ELSE upTo[i - 1] \o (IF i > 1 THEN <<c>> ELSE <<>>) \o parts[i]
    IN  upTo[n] \o (IF append THEN <<c>> ELSE <<>>)

-----------------------------------------------------------------------------
(* Prefix.Match.                                                           *)

NoMatch == [is |-> "no match"]
Content == [is |-> "content"]
CommonPrefix(part) == [is |-> "common", part |-> part]

\* Bug: a key under the prefix never has the delimiter appended.
MatchPartsBare(prefix, key, c) ==
    LET keyParts == Split(TrimLeft(key, c), c)
        preParts == Split(TrimLeft(prefix, c), c)
        last == Len(preParts)
        out  == JoinFirst(keyParts, last, c, FALSE)
    IN  IF /\ Len(keyParts) >= last
           /\ \A i \in 1 .. last - 1 : keyParts[i] = preParts[i]
           /\ IsPrefix(preParts[last], keyParts[last])
        THEN IF out = key THEN Content ELSE CommonPrefix(out)
        ELSE NoMatch

\* With a delimiter the prefix is matched part by part, after delimiters at the
\* left of both were trimmed.
MatchParts(prefix, key, c) ==
    LET keyParts == Split(TrimLeft(key, c), c)
        preParts == Split(TrimLeft(prefix, c), c)
        last == Len(preParts)
        out  == JoinFirst(keyParts, last, c, Len(keyParts) # last)
    IN  IF /\ Len(keyParts) >= last
           /\ \A i \in 1 .. last - 1 : keyParts[i] = preParts[i]
           /\ IsPrefix(preParts[last], keyParts[last])
        THEN IF out = key THEN Content ELSE CommonPrefix(out)
        ELSE NoMatch

Requests == [prefix : Queries, delimiter : Delimiters, limit : 0 .. MaxLimit]

\* The empty prefix, which every key has, needs no case of its own.
Matches == [p \in Queries |-> [d \in Delimiters |-> [k \in Keys |->
    IF d # NoDelimiter THEN MatchParts(p, k, d)
    ELSE IF IsPrefix(p, k) THEN Content
    ELSE NoMatch]]]

Match(key) == Matches[request.prefix][request.delimiter][key]

-----------------------------------------------------------------------------
(* Listings.                                                               *)

Listing(contents, prefixes, truncated, marker) ==
    [contents |-> contents, prefixes |-> prefixes, truncated |-> truncated, marker |-> marker]

Error == [contents |-> <<>>, prefixes |-> {}, truncated |-> FALSE, marker |-> <<>>,
          error |-> TRUE]

Stored(kinds) == {k \in Keys : state[k] \in kinds}

\* What leaves a key in the skip list of the memory backend.
Kept == {"object", "deleted", "archived"}

\* Bug: the marker itself is listed again.
FromMarker(marker) ==
    InOrder[{k \in Stored(Kept) : marker = <<>> \/ ~Before(k, marker)}]

\* Bug: the iteration that follows a Seek skips the key that it found, whether
\* or not that is the marker.
AfterSeek(marker) ==
    LET found == InOrder[{k \in Stored(Kept) : marker = <<>> \/ ~Before(k, marker)}]
    IN  IF marker = <<>> \/ found = <<>> THEN found ELSE Tail(found)

\* The keys of the skip list after the marker, which may have left it.
AfterMarker(marker) ==
    InOrder[{k \in Stored(Kept) : marker = <<>> \/ Before(marker, k)}]

\* Bug: a page that ends in a common prefix has that for its marker.
MarkerIsPrefix(key) == IF Match(key).is = "common" THEN Match(key).part ELSE key

\* What a page that ends with a key has for its marker: a key under a common
\* prefix too, so the next page may name that prefix again.
MarkerOf(key) == key

\* What the keys of the skip list are to the request: only an object is listed.
Kinds(keys) ==
    [i \in DOMAIN keys |-> IF state[keys[i]] = "object" THEN Match(keys[i]) ELSE NoMatch]

\* The positions that count towards the limit: contents, and common prefixes
\* other than the last that was met.
Counted(kinds) ==
    LET Met(i) == {j \in 1 .. i - 1 : kinds[j].is = "common"}
        IsNew(i) == Met(i) = {} \/ kinds[Max(Met(i))] # kinds[i]
    IN  Ascending[{i \in DOMAIN kinds :
           kinds[i] = Content \/ (kinds[i].is = "common" /\ IsNew(i))}]

\* The listing of a page of some of the positions; `more` if the bucket has
\* another key, whether or not that would be listed.
PageListing(keys, kinds, page, full, more) ==
    LET contents == Ascending[{i \in ToSet(page) : kinds[i] = Content}] IN
    Listing([j \in DOMAIN contents |-> keys[contents[j]]],
            {kinds[i].part : i \in {j \in ToSet(page) : kinds[j].is = "common"}},
            more,
            IF full THEN MarkerOf(keys[Last(page)]) ELSE <<>>)

Cut(keys, kinds, counted, limit) ==
    IF limit > 0 /\ Len(counted) >= limit
    THEN PageListing(keys, kinds, SubSeq(counted, 1, limit), TRUE, counted[limit] < Len(keys))
    ELSE PageListing(keys, kinds, counted, FALSE, FALSE)

CutAt(keys, kinds, limit) == Cut(keys, kinds, Counted(kinds), limit)

PageOf(keys, limit) == CutAt(keys, Kinds(keys), limit)

\* ... of the memory backend.  It goes through the keys after the marker, delete
\* markers included, and stops at the one that fills the page.  Of each key it
\* takes the name from the current version first, and panics when there is none:
\* the server closes the connection.
MemListing(marker, limit) ==
    LET keys    == AfterMarker(marker)
        counted == Counted(Kinds(keys))
        stop    == IF limit > 0 /\ Len(counted) >= limit THEN counted[limit] ELSE Len(keys)
    IN  IF \E i \in DOMAIN keys : state[keys[i]] = "archived" /\ i <= stop THEN Error
        ELSE PageOf(keys, limit)

\* ... of the bolt backend: every key of the bolt bucket.
BoltListing ==
    LET keys == Stored({"object"})
    IN  Listing(InOrder[{k \in keys : Match(k) = Content}],
                {Match(k).part : k \in {l \in keys : Match(l).is = "common"}}, FALSE, <<>>)

-----------------------------------------------------------------------------
(* Directories.  A path is the sequence of its names; path.Join leaves out *)
(* the empty ones.                                                         *)

PathOf(names) == Among(names, ToSet(names) \ {<<>>})

Name(path) == JoinFirst(path, Len(path), Slash, FALSE)

Paths == [k \in Keys |-> PathOf(Split(k, Slash))]

\* What MkdirAll makes for the file of a key.
DirsOf(k) == {SubSeq(Paths[k], 1, n) : n \in 0 .. Len(Paths[k]) - 1}

\* Prefix.FilePrefix: the directory and the beginning of a name in it.
FilePrefixes == [p \in Queries |->
    LET names == Split(p, Slash)
    IN  [path |-> PathOf(Front(names)), part |-> Last(names)]]

FilePrefix == FilePrefixes[request.prefix]

\* The names that ReadDir returns, of files and of directories.
Entries(dir, paths) == {p[Len(dir) + 1] : p \in {q \in paths : Len(q) = Len(dir) + 1 /\ IsPrefix(dir, q)}}

\* The two getBucketWithFilePrefixLocked, which differ in the name that they
\* give to a directory.  A directory that is not there is an error: in multi.go
\* that there is no such bucket.
DirectoryListing ==
    LET dir   == FilePrefix.path
        part  == FilePrefix.part
        files == {n \in Entries(dir, {Paths[k] : k \in Stored({"object"})}) : IsPrefix(part, n)}
        named == {n \in Entries(dir, dirs) : IsPrefix(part, n)}
        Joined(n) == IF backend = "multi" /\ part # <<>> THEN dir \o <<part, n>> ELSE Append(dir, n)
    IN  IF dir \notin dirs THEN Error
        ELSE Listing(InOrder[{Name(Append(dir, n)) : n \in files}],
                     {Append(Name(Joined(n)), Slash) : n \in named}, FALSE, <<>>)

\* The two getBucketWithArbitraryPrefixLocked: every file that matches, under a
\* common prefix or not, in the order of a walk (which is left out).
TreeListing ==
    Listing(InOrder[{k \in Stored({"object"}) : Match(k) # NoMatch}], {}, FALSE, <<>>)

-----------------------------------------------------------------------------
(* listBucket.  The page is never empty: max-keys has a default.  A        *)
(* backend that has no pages refuses it, and is asked again without one.   *)

ListBucket(marker, limit) ==
    CASE backend = "mem"  -> MemListing(marker, limit)
      [] backend = "bolt" -> BoltListing
      [] ReadsDirectory -> DirectoryListing
      [] WalksTree -> TreeListing

IsError(listing) == "error" \in DOMAIN listing

\* What the client has after a page.
After(listing) ==
    [phase    |-> IF IsError(listing) THEN "refused"
                  ELSE IF listing.truncated THEN "paging" ELSE "done",
     marker   |-> listing.marker,
     listed   |-> walk.listed \o listing.contents,
     prefixes |-> walk.prefixes \cup listing.prefixes,
     since    |-> IF walk.phase = "idle" THEN Stored({"object"}) ELSE walk.since]

\* The client asks for the next page, for as long as the last was truncated.
\* Its marker is NextMarker, the continuation token, or the last key it got,
\* which are one (V1 names the marker only when there is a delimiter, but
\* without one the last key is the marker).  A limit of 0 is none.
NextPage ==
    /\ walk.phase \in {"idle", "paging"}
    /\ \E listing \in {ListBucket(walk.marker, request.limit)} : walk' = After(listing)
    /\ UNCHANGED <<backend, request, state, dirs>>

-----------------------------------------------------------------------------
(* The others.                                                             *)

\* Keys that a file can have next to the other files, and that are its name.
Fits(k) ==
    /\ <<>> \notin ToSet(Split(k, Slash))
    /\ Paths[k] \notin dirs
    /\ \A l \in Stored({"object"}) : Paths[l] \notin DirsOf(k)

Put(k) ==
    /\ OnDisk => Fits(k)
    /\ state' = [state EXCEPT ![k] = "object"]
    /\ dirs' = IF OnDisk THEN dirs \cup DirsOf(k) ELSE dirs
    /\ UNCHANGED <<backend, request, walk>>

\* A versioned bucket of the memory backend keeps a delete marker, or, when the
\* current version is deleted, the older ones.
Delete(k, left) ==
    /\ state[k] \notin {left, "none"}
    /\ left # "none" => backend = "mem"
    /\ state' = [state EXCEPT ![k] = left]
    /\ walk' = [walk EXCEPT !.since = @ \ {k}]
    /\ UNCHANGED <<backend, request, dirs>>

Init ==
    /\ backend \in Backends
    /\ request \in Requests
    /\ backend # "mem" => request.limit = 0    \* no other looks at it
    /\ state = [k \in Keys |-> "none"]
    /\ dirs = {<<>>}
    /\ walk = [phase |-> "idle", marker |-> <<>>, listed |-> <<>>, prefixes |-> {}, since |-> {}]

Next ==
    \/ NextPage
    \/ \E k \in Keys : Put(k) \/ \E left \in {"deleted", "archived", "none"} : Delete(k, left)

Spec == Init /\ [][Next]_vars /\ WF_vars(NextPage)

-----------------------------------------------------------------------------
(* What S3 means by a prefix and a delimiter.                              *)

\* A key with the prefix is listed, or, if the delimiter occurs in it after the
\* prefix, the key up to there is a common prefix.
Names == [p \in Queries |-> [d \in Delimiters |-> [k \in Keys |->
    LET after == {i \in 1 .. Len(k) : i > Len(p) /\ k[i] = d}
    IN  IF ~IsPrefix(p, k) THEN NoMatch
        ELSE IF d = NoDelimiter \/ after = {} THEN Content
        ELSE CommonPrefix(SubSeq(k, 1, CHOOSE i \in after : \A j \in after : i <= j))]]]

Named(key) == Names[request.prefix][request.delimiter][key]

\* Match does as S3 for these: no delimiter at the left, and a key that ends in
\* one is not listed by what comes before it.
Regular(key) == request.delimiter # NoDelimiter =>
    /\ \A s \in {request.prefix, key} : s = <<>> \/ Head(s) # request.delimiter
    /\ Len(key) > Len(request.prefix) => Last(key) # request.delimiter

\* The backend has a name for each common prefix: not a walk, and not multi.go
\* when it finds a directory by the beginning of its name.
NamesCommonPrefixes ==
    /\ WalksTree => request.delimiter = NoDelimiter
    /\ ReadsDirectory /\ backend = "multi" => FilePrefix.part = <<>>

-----------------------------------------------------------------------------
(* Properties.                                                             *)

\* A listing has as contents and as common prefixes just what S3 names; a walk
\* has what is under a common prefix for contents too.
Agrees(listing, keys) ==
    ~IsError(listing) =>
        /\ ToSet(listing.contents) =
              {k \in keys : Named(k) = Content \/ (WalksTree /\ Named(k) # NoMatch)}
        /\ NamesCommonPrefixes =>
              listing.prefixes = {Named(k).part : k \in {l \in keys : Named(l).is = "common"}}

\* "The prefix MUST be correctly handled" (src/backend.go:148): of regular
\* keys, the whole listing of every backend is what S3 names, from what a walk
\* of parts, of bytes or of directories finds.  On disk that asks for
\* directories that hold a file, and for a prefix without empty names, which its
\* path would leave out.
ListingAgrees ==
    LET keys   == Stored({"object"})
        OfPath == /\ OnDisk => dirs = {<<>>} \cup UNION {DirsOf(k) : k \in keys}
                  /\ ReadsDirectory => <<>> \notin ToSet(Front(Split(request.prefix, Slash)))
    IN  (\A k \in keys : Regular(k)) /\ OfPath => Agrees(ListBucket(<<>>, 0), keys)

\* Whatever is put and deleted between the pages, a listing
\* that has ended named every key that was there all along, or its common
\* prefix: none falls between two pages.
NothingIsSkipped ==
    walk.phase = "done" =>
        \A k \in {l \in walk.since : Regular(l)} :
            /\ Named(k) = Content => \E i \in DOMAIN walk.listed : walk.listed[i] = k
            /\ Named(k).is = "common" /\ NamesCommonPrefixes => Named(k).part \in walk.prefixes

\* ... and it names its keys in their order, so none twice.  (A walk has the
\* order of paths, where "a/b" comes before "a-".)
InOrderAcrossPages ==
    ~WalksTree => \A i \in 2 .. Len(walk.listed) : Before(walk.listed[i - 1], walk.listed[i])

\* A client that goes on asking comes to the end of the listing, also when the
\* bucket never stops changing: each page leaves the marker of the last behind,
\* or is refused because it comes to a key without a current version.
WalkEnds == <>(walk.phase \in {"done", "refused"})

=============================================================================
